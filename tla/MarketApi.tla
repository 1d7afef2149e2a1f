----------------------------- MODULE MarketApi -----------------------------
(***************************************************************************)
(* The HTTP and WebSocket interface as its clients meet it: a request is   *)
(* served in one step and answered with a status code and the rows of the  *)
(* body.  How requests overlap inside the server is the subject of the     *)
(* component modules; here the clients are.  Accounts are named by their   *)
(* phone, and the rows of a table are numbered per creator.                *)
(***************************************************************************)
EXTENDS Integers, Sequences, FiniteSets

CONSTANTS People,   \* the phones clients register or log in with
          Admin     \* the phone of the account seed:admin has created

ASSUME PeopleAssumption == Admin \in People /\ "nobody" \notin People

NoOne == "nobody"       \* no Authorization header, no account in the path
NoRow == <<"no row", 0>>
NoKey == ""             \* no name in a listed row, no filter in a query
DevOtp == "000000"      \* the code of OTP_DEV_MODE
Empty == [n \in {} |-> NoRow]

\* The tables, as far as an answer depends on them.
NewDb ==
  [status |-> [p \in People |-> IF p = Admin THEN "active" ELSE "none"],
   password |-> [p \in People |-> "first"],
   pending |-> {},              \* phones with a pending registration
   codes |-> {},                \* <<phone, purpose>> whose newest code is unused
   issued |-> [p \in People |-> 0],
   refresh |-> {},              \* live refresh tokens
   files |-> Empty, products |-> Empty, reports |-> Empty,
   messages |-> Empty, warnings |-> Empty,
   conversations |-> {}, categories |-> {},
   favorites |-> {}, blocks |-> {}, ratings |-> {}]

Row(id, key, status) == [id |-> id, key |-> key, status |-> status]
Reply(d, code, rows) == [db |-> d, code |-> code, rows |-> rows]
Refuse(d, code) == Reply(d, code, {})
FreshId(table, p) == <<p, 1 + Cardinality({id \in DOMAIN table : id[1] = p})>>
AddRow(table, id, row) == [i \in DOMAIN table \cup {id} |-> IF i = id THEN row ELSE table[i]]
Exists(d, p) == p \in People /\ d.status[p] # "none"
\* Mutant: only the block of the first user.
MutHasBlock(d, p, q) == <<p, q>> \in d.blocks

hasBlockBetweenUsers(d, p, q) == {<<p, q>>, <<q, p>>} \cap d.blocks # {}

-----------------------------------------------------------------------------
(* Routes: who may call a handler *)

AuthPublic == {"register", "resendRegistrationOtp", "verifyRegistrationOtp", "login",
               "requestPasswordResetOtp", "resetPassword", "refresh"}
OpenReads == {"live", "ready", "listCategories", "getUserRatingSummary"}
OptionalReads == {"searchProducts", "getProductById", "getPublicProfile"}
AdminRoutes == {"listUsers", "getUserDetails", "listUserListings", "listUserReports", "listAdmins",
                "promoteAdmin", "updateUserStatus", "createWarning", "listReports",
                "updateReportStatus", "createCategory"}

\* JwtAuthGuard does not read users.status; AdminGuard asks for the role.
Denied(q) ==
  IF q.op \in AuthPublic \cup OpenReads \cup OptionalReads THEN 0
  ELSE IF q.by = NoOne THEN 401
  ELSE IF q.op \in AdminRoutes /\ q.by # Admin THEN 403 ELSE 0

-----------------------------------------------------------------------------
(* Accounts; on is the phone of the request, val the password or code *)

\* A session of p: its refresh token is the row id.
generateTokens(d, p) ==
  Reply([d EXCEPT !.issued[p] = @ + 1, !.refresh = @ \cup {<<p, d.issued[p] + 1>>}],
        201, {Row(<<p, d.issued[p] + 1>>, p, "session")})

SendCode(d, p, purpose) ==
  Reply([d EXCEPT !.codes = @ \cup {<<p, purpose>>}], 201, {Row(NoRow, "otp", purpose)})

requestRegistrationOtp(d, q) ==
  IF Exists(d, q.on) THEN Refuse(d, 409)
  ELSE SendCode([d EXCEPT !.pending = @ \cup {q.on}], q.on, "registration")

resendRegistrationOtp(d, q) ==
  IF q.on \notin d.pending THEN Refuse(d, 404) ELSE SendCode(d, q.on, "registration")

checkVerification(d, q, purpose) == <<q.on, purpose>> \in d.codes /\ q.val = DevOtp

verifyRegistrationOtp(d, q) ==
  IF ~checkVerification(d, q, "registration") \/ q.on \notin d.pending THEN Refuse(d, 400)
  ELSE IF Exists(d, q.on) THEN Refuse(d, 409)
  ELSE generateTokens([d EXCEPT !.status[q.on] = "active", !.pending = @ \ {q.on},
                                !.codes = @ \ {<<q.on, "registration">>}], q.on)

login(d, q) ==
  IF d.status[q.on] = "active" /\ d.password[q.on] = q.val
  THEN generateTokens(d, q.on) ELSE Refuse(d, 401)

requestPasswordResetOtp(d, q) ==
  IF Exists(d, q.on) THEN SendCode(d, q.on, "password_reset") ELSE Reply(d, 201, {})

resetPassword(d, q) ==
  IF ~checkVerification(d, [q EXCEPT !.val = DevOtp], "password_reset") \/ ~Exists(d, q.on)
  THEN Refuse(d, 400)
  ELSE IF d.status[q.on] # "active" THEN Refuse(d, 401)
  ELSE generateTokens([d EXCEPT !.password[q.on] = q.val,
                                !.codes = @ \ {<<q.on, "password_reset">>}], q.on)

refresh(d, q) ==
  LET spent == [d EXCEPT !.refresh = @ \ {q.id}] IN
  IF q.id \in d.refresh /\ d.status[q.id[1]] = "active"
  THEN generateTokens(spent, q.id[1]) ELSE Refuse(spent, 401)

logout(d, q) == Reply([d EXCEPT !.refresh = @ \ {q.id}], 201, {})

\* id is the avatar's file, NoRow when the body has none.
updateMe(d, q) ==
  IF q.id = NoRow THEN Reply(d, 200, {})
  ELSE IF q.id \notin DOMAIN d.files THEN Refuse(d, 404)
  ELSE IF d.files[q.id].by # q.by THEN Refuse(d, 403)
  ELSE IF d.files[q.id].status # "uploaded" \/ d.files[q.id].purpose # "avatar" THEN Refuse(d, 400)
  ELSE Reply(d, 200, {})

changePassword(d, q) ==
  IF d.password[q.by] # q.old THEN Refuse(d, 400)
  ELSE Reply([d EXCEPT !.password[q.by] = q.val], 200, {Row(NoRow, "password", NoKey)})

getPublicProfile(d, q) ==
  IF (q.by # NoOne /\ hasBlockBetweenUsers(d, q.by, q.on)) \/ ~Exists(d, q.on)
  THEN Refuse(d, 404) ELSE Reply(d, 200, {})

-----------------------------------------------------------------------------
(* Files and products; id is the row of the path *)

createUploadIntent(d, q) ==
  LET id == FreshId(d.files, q.by) IN
  Reply([d EXCEPT !.files = AddRow(@, id, [by |-> q.by, purpose |-> q.val, status |-> "pending"])],
        201, {Row(id, "file", "pending")})

markUploaded(d, q) ==
  IF q.id \notin DOMAIN d.files THEN Refuse(d, 404)
  ELSE IF d.files[q.id].by # q.by THEN Refuse(d, 403)
  ELSE Reply([d EXCEPT !.files[q.id].status = "uploaded"], 200, {})

getFile(d, q) ==
  IF q.id \notin DOMAIN d.files THEN Refuse(d, 404)
  ELSE IF q.by # Admin /\ d.files[q.id].by # q.by THEN Refuse(d, 403)
  ELSE Reply(d, 200, {})

\* The answer to the image list of a product body, 0 when it is accepted.
syncProductImages(d, q) ==
  IF q.img = NoRow THEN 0
  ELSE IF q.img \notin DOMAIN d.files \/ d.files[q.img].purpose # "product_image" THEN 400
  ELSE IF d.files[q.img].by # q.by THEN 403
  ELSE IF d.files[q.img].status # "uploaded" THEN 400 ELSE 0

createProduct(d, q) ==
  LET id == FreshId(d.products, q.by) IN
  IF syncProductImages(d, q) # 0 THEN Refuse(d, syncProductImages(d, q))
  ELSE Reply([d EXCEPT !.products = AddRow(@, id, [key |-> q.val, status |-> "available"])],
             201, {Row(id, q.val, "available")})

Visible(d, id) == id \in DOMAIN d.products /\ d.products[id].status # "deleted"

getProductById(d, q) ==
  IF ~Visible(d, q.id) \/ (q.by # NoOne /\ hasBlockBetweenUsers(d, q.by, q.id[1]))
  THEN Refuse(d, 404) ELSE Reply(d, 200, {})

\* The ownership check the three writes of a product share.
Owned(d, q) == IF ~Visible(d, q.id) THEN 404 ELSE IF q.id[1] # q.by THEN 403 ELSE 0

updateProduct(d, q) ==
  IF Owned(d, q) # 0 THEN Refuse(d, Owned(d, q))
  ELSE IF syncProductImages(d, q) # 0 THEN Refuse(d, syncProductImages(d, q))
  ELSE Reply([d EXCEPT !.products[q.id].key = q.val], 200, {})

SetStatus(d, q, status) ==
  IF Owned(d, q) # 0 THEN Refuse(d, Owned(d, q))
  ELSE Reply([d EXCEPT !.products[q.id].status = status], 200, {})

deleteProduct(d, q) == SetStatus(d, q, "deleted")
updateProductStatus(d, q) == SetStatus(d, q, q.val)

ProductRow(d, id) == Row(id, d.products[id].key, d.products[id].status)
listMyProducts(d, q) ==
  Reply(d, 200, {ProductRow(d, id) : id \in {i \in DOMAIN d.products : Visible(d, i) /\ i[1] = q.by}})

-----------------------------------------------------------------------------
(* Favorites, blocks, ratings *)

addFavorite(d, q) ==
  IF ~Visible(d, q.id) THEN Refuse(d, 404)
  ELSE IF hasBlockBetweenUsers(d, q.by, q.id[1]) THEN Refuse(d, 400)
  ELSE Reply([d EXCEPT !.favorites = @ \cup {<<q.by, q.id>>}], 201, {})

removeFavorite(d, q) == Reply([d EXCEPT !.favorites = @ \ {<<q.by, q.id>>}], 200, {})

listFavorites(d, q) ==
  Reply(d, 200, {ProductRow(d, f[2]) : f \in {g \in d.favorites :
                   g[1] = q.by /\ Visible(d, g[2]) /\ ~hasBlockBetweenUsers(d, q.by, g[2][1])}})

\* What refuses a request about another account, 0 when nothing does.
AboutAnother(d, q) == IF q.on = q.by THEN 400 ELSE IF ~Exists(d, q.on) THEN 404 ELSE 0

blockUser(d, q) ==
  IF AboutAnother(d, q) # 0 THEN Refuse(d, AboutAnother(d, q))
  ELSE Reply([d EXCEPT !.blocks = @ \cup {<<q.by, q.on>>}], 201, {})

unblockUser(d, q) == Reply([d EXCEPT !.blocks = @ \ {<<q.by, q.on>>}], 200, {})

listBlockedUsers(d, q) ==
  Reply(d, 200, {Row(NoRow, b[2], NoKey) : b \in {c \in d.blocks : c[1] = q.by}})

rateUser(d, q) ==
  IF AboutAnother(d, q) # 0 THEN Refuse(d, AboutAnother(d, q))
  ELSE Reply([d EXCEPT !.ratings = @ \cup {<<q.by, q.on>>}], 201, {})

-----------------------------------------------------------------------------
(* Chat; a conversation's id is its pair of participants *)

\* BIGINT owner ids arrive as strings, so no participant counts as the owner.
getOrCreateConversation(d, q) ==
  LET pair == {q.by, q.on} IN
  IF AboutAnother(d, q) # 0 THEN Refuse(d, AboutAnother(d, q))
  ELSE IF hasBlockBetweenUsers(d, q.by, q.on) THEN Refuse(d, 403)
  ELSE IF q.id # NoRow /\ ~Visible(d, q.id) THEN Refuse(d, 404)
  ELSE IF q.id # NoRow /\ d.products[q.id].status # "available" THEN Refuse(d, 403)
  ELSE Reply([d EXCEPT !.conversations = @ \cup {pair}], 201, {Row(<<pair, 0>>, "conversation", NoKey)})

\* The conversation of the request's row: that of a message, or the row itself.
assertConversationParticipant(d, q) ==
  LET pair == q.id[1] IN
  IF pair \notin d.conversations THEN 404
  ELSE IF q.by \notin pair \/ (\E p \in pair : p # q.by /\ hasBlockBetweenUsers(d, q.by, p)) THEN 403
  ELSE 0

InConversation(d, q, answer) ==
  IF assertConversationParticipant(d, q) # 0 THEN Refuse(d, assertConversationParticipant(d, q))
  ELSE answer

listMessages(d, q) ==
  InConversation(d, q, Reply(d, 200, {Row(id, d.messages[id].key, NoKey) :
                               id \in {i \in DOMAIN d.messages : i[1] = q.id[1]}}))

sendMessage(d, q) ==
  LET id == FreshId(d.messages, q.id[1]) IN
  InConversation(d, q, Reply([d EXCEPT !.messages =
                               AddRow(@, id, [by |-> q.by, key |-> q.val, read |-> FALSE])],
                             200, {Row(id, q.val, NoKey)}))

markRead(d, q) ==
  IF q.id \notin DOMAIN d.messages THEN Refuse(d, 404)
  ELSE InConversation(d, q, IF d.messages[q.id].by = q.by THEN Refuse(d, 403)
                            ELSE Reply([d EXCEPT !.messages[q.id].read = TRUE], 200, {}))

-----------------------------------------------------------------------------
(* Reports, moderation, categories *)

createReport(d, q) ==
  LET id == FreshId(d.reports, q.by) IN
  IF AboutAnother(d, q) # 0 THEN Refuse(d, AboutAnother(d, q))
  ELSE Reply([d EXCEPT !.reports = AddRow(@, id, [about |-> q.on, key |-> q.val, status |-> "open"])],
             201, {Row(id, q.val, "open")})

\* Mutant: only the reports that are still open.
MutGetMyReports(d, q) ==
  Reply(d, 200, {Row(id, d.reports[id].key, "open") :
                   id \in {i \in DOMAIN d.reports : i[1] = q.by /\ d.reports[i].status = "open"}})

getMyReports(d, q) ==
  Reply(d, 200, {Row(id, d.reports[id].key, d.reports[id].status) :
                   id \in {i \in DOMAIN d.reports : i[1] = q.by}})

\* The V1 projection names the reason description and has no status; a
\* filter is no property of the query's DTO and is refused.
listReports(d, q) ==
  IF q.val # NoKey THEN Refuse(d, 400)
  ELSE Reply(d, 200, {Row(id, NoKey, NoKey) : id \in DOMAIN d.reports})

updateReportStatus(d, q) ==
  IF q.id \notin DOMAIN d.reports THEN Refuse(d, 404)
  ELSE Reply([d EXCEPT !.reports[q.id].status = q.val], 200, {})

listUsers(d, q) == Reply(d, 200, {Row(NoRow, p, d.status[p]) : p \in {r \in People : Exists(d, r)}})

\* Mutant: only an active account is changed.
MutUpdateUserStatus(d, q) ==
  Reply(IF d.status[q.on] = "active" THEN [d EXCEPT !.status[q.on] = q.val] ELSE d, 200, {})

updateUserStatus(d, q) ==
  IF ~Exists(d, q.on) THEN Refuse(d, 404)
  ELSE Reply([d EXCEPT !.status[q.on] = q.val], 200, {})

createWarning(d, q) ==
  LET id == FreshId(d.warnings, q.on) IN
  IF ~Exists(d, q.on) THEN Refuse(d, 404)
  ELSE Reply([d EXCEPT !.warnings = AddRow(@, id, q.val)], 201, {Row(id, q.val, NoKey)})

\* Only the administrator's own account is ever promoted by the clients.
promoteAdmin(d, q) == Refuse(d, IF ~Exists(d, q.on) THEN 404 ELSE 409)

\* A category is the path of its names, which the unique index is on.
createCategory(d, q) ==
  LET id == IF q.id = NoRow THEN <<q.val>> ELSE Append(q.id, q.val) IN
  IF q.id # NoRow /\ q.id \notin d.categories THEN Refuse(d, 404)
  ELSE IF id \in d.categories THEN Refuse(d, 409)
  ELSE Reply([d EXCEPT !.categories = @ \cup {id}], 201, {Row(id, q.val, NoKey)})

\* FK expansion has turned parent_id into the object parent.
listCategories(d, q) == Reply(d, 200, {Row(c, c[Len(c)], NoKey) : c \in d.categories})

AboutUser(d, q) == IF Exists(d, q.on) THEN Reply(d, 200, {}) ELSE Refuse(d, 404)

-----------------------------------------------------------------------------
(* One request.  The socket events answer 200 in place of an ack. *)

Handle(d, q) ==
  CASE q.op = "register" -> requestRegistrationOtp(d, q)
    [] q.op = "resendRegistrationOtp" -> resendRegistrationOtp(d, q)
    [] q.op = "verifyRegistrationOtp" -> verifyRegistrationOtp(d, q)
    [] q.op = "login" -> login(d, q)
    [] q.op = "requestPasswordResetOtp" -> requestPasswordResetOtp(d, q)
    [] q.op = "resetPassword" -> resetPassword(d, q)
    [] q.op = "refresh" -> refresh(d, q)
    [] q.op = "logout" -> logout(d, q)
    [] q.op = "updateMe" -> updateMe(d, q)
    [] q.op = "changePassword" -> changePassword(d, q)
    [] q.op = "getPublicProfile" -> getPublicProfile(d, q)
    [] q.op = "createUploadIntent" -> createUploadIntent(d, q)
    [] q.op = "markUploaded" -> markUploaded(d, q)
    [] q.op = "getFile" -> getFile(d, q)
    [] q.op = "createProduct" -> createProduct(d, q)
    [] q.op = "getProductById" -> getProductById(d, q)
    [] q.op = "updateProduct" -> updateProduct(d, q)
    [] q.op = "deleteProduct" -> deleteProduct(d, q)
    [] q.op = "updateProductStatus" -> updateProductStatus(d, q)
    [] q.op = "listMyProducts" -> listMyProducts(d, q)
    [] q.op = "addFavorite" -> addFavorite(d, q)
    [] q.op = "removeFavorite" -> removeFavorite(d, q)
    [] q.op = "listFavorites" -> listFavorites(d, q)
    [] q.op = "blockUser" -> blockUser(d, q)
    [] q.op = "unblockUser" -> unblockUser(d, q)
    [] q.op = "listBlockedUsers" -> listBlockedUsers(d, q)
    [] q.op = "rateUser" -> rateUser(d, q)
    [] q.op = "createConversation" -> getOrCreateConversation(d, q)
    [] q.op \in {"getConversation", "conversation.join"} -> InConversation(d, q, Reply(d, 200, {}))
    [] q.op = "listMessages" -> listMessages(d, q)
    [] q.op = "message.send" -> sendMessage(d, q)
    [] q.op = "message.read" -> markRead(d, q)
    [] q.op = "createReport" -> createReport(d, q)
    [] q.op = "getMyReports" -> getMyReports(d, q)
    [] q.op = "listReports" -> listReports(d, q)
    [] q.op = "updateReportStatus" -> updateReportStatus(d, q)
    [] q.op = "listUsers" -> listUsers(d, q)
    [] q.op = "updateUserStatus" -> updateUserStatus(d, q)
    [] q.op = "createWarning" -> createWarning(d, q)
    [] q.op = "promoteAdmin" -> promoteAdmin(d, q)
    [] q.op = "createCategory" -> createCategory(d, q)
    [] q.op = "listCategories" -> listCategories(d, q)
    [] q.op \in {"getUserDetails", "listUserListings", "listUserReports"} -> AboutUser(d, q)
    [] q.op = "connect" -> Reply(d, 200, {Row(NoRow, "socket", NoKey)})
    [] OTHER -> Reply(d, 200, {})   \* reads whose rows no client looks at

Serve(d, q) == IF Denied(q) # 0 THEN Refuse(d, Denied(q)) ELSE Handle(d, q)
=============================================================================
