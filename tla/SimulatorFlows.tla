--------------------------- MODULE SimulatorFlows ---------------------------
(***************************************************************************)
(* scripts/simulate-flows.ts: the flows of simulate mode as step lists.    *)
(* A call of apiCall is one step; the checks of the bodies (assert...      *)
(* Contract), the Cloudinary uploads and the log files are left out.       *)
(***************************************************************************)
EXTENDS ClientScripts, SequencesExt

Alice == "alice"
Bob == "bob"
Negative == "negative"
AdminPhone == "admin"

\* The names the simulator's state keeps rows under.
Session(p) == <<p>>     \* token, refresh token and user id of p
Otp == <<"otp">>
Category == <<"productCategory">>
Parent == <<"categoryParentId">>
Leaf == <<"categoryLeafId">>
Avatar == <<"avatarFileId">>
Image == <<"productImageFileId">>
Product1 == <<"aliceProductId">>
Product2 == <<"aliceProduct2Id">>
Conversation == <<"conversationId">>
Message == <<"lastMessageId">>
Changed == <<"passwordChanged">>

flow01_anonymous ==
  << Critical(Anyone("live", {200})),
     Critical(Anyone("ready", {200})),
     Find(Anyone("listCategories", {200}), {<<Category, "any">>}),
     Anyone("searchProducts", {200}) >>

registerUser(p, withResend) ==
  << Critical(On(Anyone("register", {201}), p)) >>
  \o (IF withResend THEN << On(Anyone("resendRegistrationOtp", {201}), p) >> ELSE << >>)
  \o << Critical(Keep(Val(On(Anyone("verifyRegistrationOtp", {201}), p), DevCode), Session(p))) >>

flow02_registerUsers == registerUser(Alice, TRUE) \o registerUser(Bob, FALSE)

Login(p, val) == Keep(Val(On(Anyone("login", {201}), p), val), Session(p))

flow03_adminBootstrap == << Critical(Login(AdminPhone, "first")) >>

flow04_tokenLifecycle ==
  << Keep(At(Anyone("refresh", {201}), Session(Alice)), Session(Alice)),
     At(Call(Alice, "logout", {201}), Session(Alice)),
     Login(Alice, "current") >>

flow05_passwordReset ==
  << Keep(On(Anyone("requestPasswordResetOtp", {201}), Alice), Otp),
     Needs(Keep(Val(On(Anyone("resetPassword", {201}), Alice), "reset"), Session(Alice)), Otp) >>

\* Upload intent, mark and read back of one file.
UploadFile(p, purpose, name) ==
  << Keep(Val(Call(p, "createUploadIntent", {201}), purpose), name),
     At(Call(p, "markUploaded", {200}), name),
     At(Call(p, "getFile", {200}), name) >>

UploadAvatar == UploadFile(Alice, "avatar", Avatar)
UploadImage == UploadFile(Alice, "product_image", Image)

\* PATCH /me sends the avatar if there is one; the new login only follows
\* a password that was changed.
flow06_profile ==
  << Call(Alice, "getMe", {200}),
     Offer(Call(Alice, "updateMe", {200}), Avatar),
     Keep(Val(Call(Alice, "changePassword", {200}), "final"), Changed),
     Needs(Login(Alice, "current"), Changed) >>

flow06_uploadsAndProfile == UploadAvatar \o UploadImage \o flow06_profile

\* The category the products are filed under, created if there is none.
flow07_category ==
  << Lacks(Keep(Val(Call(AdminPhone, "createCategory", {201}), "SimParent"), Parent), Category),
     Lacks(Keep(Val(At(Call(AdminPhone, "createCategory", {201}), Parent), "SimLeaf"), Leaf), Category),
     Require({Category, Parent}) >>

CreateProduct(key, name) ==
  Critical(Keep(Picture(Val(Call(Alice, "createProduct", {201}), key), Image), name))

flow07_products ==
  << CreateProduct("UsedLaptop", Product1),
     CreateProduct("VintageCamera", Product2),
     Val(At(Call(Alice, "updateProduct", {200}), Product1), "UsedLaptopUpdated"),
     Val(At(Call(Alice, "updateProductStatus", {200}), Product1), "sold"),
     At(Call(Alice, "deleteProduct", {200}), Product1),
     Call(Alice, "listMyProducts", {200}),
     Call(Alice, "listMyProducts", {200}),
     Call(Alice, "listMyProducts", {200}) >>

flow07_seller == flow07_category \o flow07_products

flow08_buyer ==
  << Anyone("searchProducts", {200}),
     Call(Bob, "searchProducts", {200}),
     At(Anyone("getProductById", {200}), Product2),
     At(Call(Bob, "getProductById", {200}), Product2),
     At(Call(Bob, "addFavorite", {201}), Product2),
     Needs(Call(Bob, "listFavorites", {200}), Product2) >>

flow08_chat ==
  << On(Anyone("getUserRatingSummary", {200}), Alice),
     Keep(Offer(On(Call(Bob, "createConversation", {201}), Alice), Product2), Conversation),
     On(Anyone("getPublicProfile", {200}), Alice),
     On(Call(Bob, "getPublicProfile", {200}), Alice),
     Call(Bob, "listConversations", {200}),
     Call(Bob, "listConversations", {200}),
     Call(Alice, "listConversations", {200}),
     At(Call(Bob, "getConversation", {200}), Conversation),
     At(Call(Bob, "listMessages", {200}), Conversation),
     At(Call(Bob, "removeFavorite", {200}), Product2) >>

flow08_buyerAndChat == flow08_buyer \o flow08_chat

\* The whole flow is skipped without a conversation; a broken connection is
\* caught around the flow, so every later event needs the sockets.
BobSocket == <<"bobSocket">>
Sockets == <<"sockets">>
flow09_websocket ==
  << Event(Needs(Keep(Call(Bob, "connect", {200}), BobSocket), Conversation)),
     Event(Needs(Keep(Call(Alice, "connect", {200}), Sockets), BobSocket)),
     Event(Needs(At(Call(Bob, "conversation.join", {200}), Conversation), Sockets)),
     Event(Needs(At(Call(Alice, "conversation.join", {200}), Conversation), Sockets)),
     Event(Needs(Keep(Val(At(Call(Bob, "message.send", {200}), Conversation), "Hello"), Message), Sockets)),
     Event(Needs(At(Call(Alice, "message.read", {200}), Message), Sockets)) >>

flow10_blocksAndSafety ==
  << On(Call(Bob, "blockUser", {201}), Alice),
     Call(Bob, "listBlockedUsers", {200}),
     Offer(On(Call(Alice, "createConversation", {403}), Bob), Product2),
     On(Call(Bob, "getPublicProfile", {404}), Alice),
     On(Call(Bob, "unblockUser", {200}), Alice) >>

flow11_ratings ==
  << On(Call(Bob, "rateUser", {201}), Alice),
     On(Anyone("getUserRatingSummary", {200}), Alice),
     On(Call(Alice, "rateUser", {201}), Bob) >>

flow12_reportsAndAdmin ==
  << Val(On(Call(Bob, "createReport", {201}), Alice), "SimulatedReport"),
     Call(Bob, "getMyReports", {200}),
     Call(AdminPhone, "listUsers", {200}),
     Val(On(Call(AdminPhone, "updateUserStatus", {200}), Alice), "banned"),
     Val(On(Call(AdminPhone, "updateUserStatus", {200}), Alice), "active"),
     On(Call(AdminPhone, "getUserDetails", {200}), Alice),
     On(Call(AdminPhone, "listUserListings", {200}), Alice),
     On(Call(AdminPhone, "listUserReports", {200}), Alice),
     Call(AdminPhone, "listReports", {200}) >>

flow13_negativeChecks ==
  << Val(On(Anyone("login", {401}), Alice), "wrong"),
     On(Anyone("register", {201}), Negative),
     Val(On(Anyone("verifyRegistrationOtp", {400}), Negative), "111111"),
     On(Anyone("register", {409}), Alice),
     At(Call(Bob, "getFile", {403}), Avatar),
     At(Call(Bob, "updateProduct", {403}), Product2),
     At(Call(Bob, "deleteProduct", {403}), Product2),
     Call(Alice, "listUsers", {401, 403}),
     Val(On(Call(Bob, "createReport", {201, 409}), Alice), "DuplicateReport") >>

\* The order of main; flow 15 is what the virtual users do.
MainScript ==
  flow01_anonymous \o flow02_registerUsers \o flow03_adminBootstrap \o flow04_tokenLifecycle
  \o flow05_passwordReset \o flow06_uploadsAndProfile \o flow07_seller \o flow08_buyerAndChat
  \o flow09_websocket \o flow10_blocksAndSafety \o flow11_ratings \o flow12_reportsAndAdmin
  \o flow13_negativeChecks

Retried(step) == [step EXCEPT !.fatal = TRUE, !.retry = TRUE]

\* A virtual user: a throttled registration skips the rest, the other
\* failures of the first three calls drop the user, later ones are counted.
runConcurrentUserBaseline(vu) ==
  << Retried(On(Anyone("register", {201, 429}), vu)),
     Retried(Keep(Val(On(Anyone("verifyRegistrationOtp", {201}), vu), DevCode), Session(vu))),
     Retried(Login(vu, "first")),
     Call(vu, "getMe", {200}) >>
  \o UploadFile(vu, "avatar", <<vu, "file">>)

\* i even: a sends and b reads, else the other way round.
PairMessage(a, b, i) ==
  LET from == IF i % 2 = 0 THEN a ELSE b
      to == IF i % 2 = 0 THEN b ELSE a
      name == <<"message", IF i % 2 = 0 THEN "even" ELSE "odd">>
      key == IF i % 2 = 0 THEN "fromA" ELSE "fromB" IN
  << Event(Critical(Keep(Val(At(Call(from, "message.send", {200}), Conversation), key), name))),
     Event(Critical(At(Call(to, "message.read", {200}), name))) >>

runConcurrentChatPair(a, b) ==
  << Critical(Keep(On(Call(a, "createConversation", {201}), b), Conversation)),
     Call(a, "listConversations", {200}),
     At(Call(a, "listMessages", {200}), Conversation),
     Event(Critical(Call(a, "connect", {200}))),
     Event(Critical(Call(b, "connect", {200}))),
     Event(Critical(At(Call(a, "conversation.join", {200}), Conversation))),
     Event(Critical(At(Call(b, "conversation.join", {200}), Conversation))) >>
  \o PairMessage(a, b, 0) \o PairMessage(a, b, 1)
=============================================================================
