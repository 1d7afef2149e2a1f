--------------------------- MODULE DevSeedScript ---------------------------
(***************************************************************************)
(* src/dev/dev-seeder.ts: runDevSeed as a step list, built from the tables *)
(* of seed data.  The tables are a parameter: DevTables is what the code   *)
(* has, and smaller ones of the same shape exercise crashes and retries.   *)
(* Every request retries, unless Once says otherwise.                      *)
(***************************************************************************)
EXTENDS ClientScripts, SequencesExt

Request(by, op, expect) == [Call(by, op, expect) EXCEPT !.retry = TRUE, !.fatal = TRUE]
Public(op, expect) == Request("nobody", op, expect)
Once(step) == [step EXCEPT !.retry = FALSE]

\* One step list per entry of a table, in the table's order.
ForEach(table, Steps(_)) == FlattenSeq([i \in 1 .. Len(table) |-> Steps(table[i])])

-----------------------------------------------------------------------------
(* The tables *)

DEV_USERS == << "user01", "user02", "user03", "user04", "user05", "user06", "user07", "user08" >>

\* <<key, parent>>; a root has no parent.
DEV_CATEGORIES ==
  << <<"electronics", "">>, <<"fashion", "">>, <<"home", "">>,
     <<"phones", "electronics">>, <<"laptops", "electronics">>,
     <<"men", "fashion">>, <<"women", "fashion">>,
     <<"furniture", "home">>, <<"appliances", "home">> >>

PRODUCT_STATUS_MATRIX ==
  [user01 |-> <<"available", "sold", "archived">>,
   user02 |-> <<"available", "available", "sold">>,
   user03 |-> <<"available", "available", "archived">>,
   user04 |-> <<"available", "sold", "available">>,
   user05 |-> <<"available", "available", "archived">>,
   user06 |-> <<"sold", "available", "available">>,
   user07 |-> <<"archived", "available", "sold">>,
   user08 |-> <<"available", "available", "sold">>]

ProductKey(owner, i) == <<owner, "product", <<"1", "2", "3">>[i]>>

\* <<owner, key, status>>, the products of an owner side by side.
buildProductDefs ==
  ForEach(DEV_USERS, LAMBDA u :
    [i \in 1 .. 3 |-> <<u, ProductKey(u, i), PRODUCT_STATUS_MATRIX[u][i]>>])

RATING_DEFS ==
  << <<"user01", "user02">>, <<"user02", "user01">>, <<"user03", "user04">>, <<"user04", "user03">>,
     <<"user05", "user06">>, <<"user06", "user05">>, <<"user07", "user08">>, <<"user08", "user07">>,
     <<"user01", "user03">>, <<"user02", "user04">>, <<"user03", "user05">>, <<"user04", "user06">> >>

CONVERSATION_DEFS ==
  << <<"user01", "user02">>, <<"user03", "user04">>, <<"user05", "user06">>,
     <<"user07", "user08">>, <<"user01", "user05">>, <<"user02", "user06">> >>

\* <<reporter, reported, key, status to reach>>
REPORT_DEFS ==
  << <<"user01", "user07", "report-01", "open">>, <<"user02", "user08", "report-02", "reviewing">>,
     <<"user03", "user07", "report-03", "resolved">>, <<"user04", "user08", "report-04", "rejected">>,
     <<"user05", "user07", "report-05", "resolved">>, <<"user06", "user08", "report-06", "reviewing">> >>

USER_STATUS_TARGETS == << <<"user07", "paused">>, <<"user08", "banned">> >>
BLOCK_DEFS == << <<"user07", "user08">>, <<"user08", "user07">> >>
FAVORITE_DEFS ==
  << <<"user01", ProductKey("user03", 1)>>, <<"user02", ProductKey("user04", 2)>>,
     <<"user03", ProductKey("user05", 3)>>, <<"user04", ProductKey("user01", 2)>>,
     <<"user05", ProductKey("user02", 1)>>, <<"user06", ProductKey("user03", 2)>> >>

DevTables ==
  [users |-> DEV_USERS, categories |-> DEV_CATEGORIES, products |-> buildProductDefs,
   ratings |-> RATING_DEFS, conversations |-> CONVERSATION_DEFS, reports |-> REPORT_DEFS,
   targets |-> USER_STATUS_TARGETS, blocks |-> BLOCK_DEFS, favorites |-> FAVORITE_DEFS,
   messages |-> << "m1", "m2", "m3", "m4", "m5", "m6" >>]

-----------------------------------------------------------------------------
(* The phases *)

performPreflightChecks ==
  << Once(Public("live", {200})), Once(Public("ready", {200})),
     Once(Keep(Val([Public("login", {201}) EXCEPT !.on = "admin"], "first"), <<"admin">>)) >>

\* A refused or lost login falls through to the registration.
ensureUser(u) ==
  << Forgive(Once(Keep(Val(On(Public("login", {201}), u), "first"), <<u>>)), {0, 401}),
     Lacks(On(Public("register", {201}), u), <<u>>),
     Lacks(Keep(Val(On(Public("verifyRegistrationOtp", {201}), u), DevCode), <<u>>), <<u>>) >>

upsertProfile(u) == << Request(u, "updateMe", {200}) >>

CategoryName(key) == <<"category", key>>

\* Mutant: no existing category is found, roots included.
MutExistingCategory(c) == {}

\* An existing category is looked up by name and parent_id; the listing has
\* no parent_id left, so only a root is found.
ExistingCategory(c) == IF c[2] = "" THEN {<<CategoryName(c[1]), c[1]>>} ELSE {}

upsertCategory(c) ==
  LET name == CategoryName(c[1])
      create == Forgive(Keep(Val(Request("admin", "createCategory", {201}), c[1]), name), {409}) IN
  << IF c[2] = "" THEN create ELSE At(create, CategoryName(c[2])),
     Lacks(Find(Public("listCategories", {200}), ExistingCategory(c)), name),
     Require({name}) >>

createUploadedProductImage(owner, name) ==
  << Keep(Val(Request(owner, "createUploadIntent", {201}), "product_image"), name),
     At(Request(owner, "markUploaded", {200}), name) >>

\* The owner's listing is read once, before the first of the products.
OwnedBy(table, owner) == {table[i] : i \in {j \in 1 .. Len(table) : table[j][1] = owner}}
FirstOf(table, def) == \A i \in 1 .. Len(table) : table[i][1] = def[1] =>
                         \E j \in 1 .. i : table[j] = def

upsertProduct(table, def) ==
  LET owner == def[1]  name == def[2]  image == <<"image">> \o def[2]
      body(op, code) == [Val(Request(owner, op, {code}), name) EXCEPT !.img = image] IN
  (IF FirstOf(table, def)
   THEN << Find(Request(owner, "listMyProducts", {200}),
                {<<d[2], d[2]>> : d \in OwnedBy(table, owner)}) >> ELSE << >>)
  \o createUploadedProductImage(owner, image)
  \o << At(body("updateProduct", 200), name),
        Lacks(Keep(body("createProduct", 201), name), name),
        Changes(Val(At(Request(owner, "updateProductStatus", {200}), name), def[3])) >>

\* Blocks and favorites: one listing per user, then what it lacks.
upsertBlock(table, def) ==
  (IF FirstOf(table, def)
   THEN << Find(Request(def[1], "listBlockedUsers", {200}),
                {<<<<"block">> \o d, d[2]>> : d \in OwnedBy(table, def[1])}) >> ELSE << >>)
  \o << Lacks(On(Request(def[1], "blockUser", {201}), def[2]), <<"block">> \o def) >>

FavoriteName(def) == <<"favorite", def[1]>> \o def[2]
upsertFavorite(table, def) ==
  << Require({def[2]}) >>
  \o (IF FirstOf(table, def)
      THEN << Find(Request(def[1], "listFavorites", {200}),
                   {<<FavoriteName(d), d[2]>> : d \in OwnedBy(table, def[1])}) >> ELSE << >>)
  \o << Lacks(At(Request(def[1], "addFavorite", {201}), def[2]), FavoriteName(def)) >>

upsertRating(def) == << On(Request(def[1], "rateUser", {201}), def[2]) >>

ChatName(def) == <<"chat">> \o def

\* existingByText.has(text)
SkipIfSent(step, chat, texts, i) == Lacks(step, Append(chat, texts[i]))

\* Messages alternate; only those the history lacks are sent, and the last
\* one sent is read by the first user.
seedConversationMessages(texts, def) ==
  LET chat == ChatName(def)
      sender(i) == IF i % 2 = 1 THEN def[1] ELSE def[2]
      last == Append(chat, "last")
      text(i) == <<def[1], def[2], texts[i]>> IN
  << Find(At(Request(def[1], "listMessages", {200}), chat),
          {<<Append(chat, texts[i]), text(i)>> : i \in 1 .. Len(texts)}),
     Event(Request(def[1], "connect", {200})),
     Event(Request(def[2], "connect", {200})),
     Event(At(Request(def[1], "conversation.join", {200}), chat)),
     Event(At(Request(def[2], "conversation.join", {200}), chat)) >>
  \o [i \in 1 .. Len(texts) |->
       Event(Keep(SkipIfSent(Val(At(Request(sender(i), "message.send", {200}), chat), text(i)),
                             chat, texts, i), last))]
  \o << Event(At(Request(def[1], "message.read", {200}), last)) >>

upsertConversation(texts, def) ==
  << Keep(On(Request(def[1], "createConversation", {201}), def[2]), ChatName(def)) >>
  \o seedConversationMessages(texts, def)

\* The admin listing names no reason, so the reporter's own decides.
upsertReport(def) ==
  LET name == <<"report", def[3]>> IN
  << Find(Request(def[1], "getMyReports", {200}), {<<name, def[3]>>}),
     Lacks(Keep(Val(On(Request(def[1], "createReport", {201}), def[2]), def[3]), name), name),
     Changes(Val(At(Request("admin", "updateReportStatus", {200}), name), def[4])) >>

\* Status and warning both follow the status the admin listing showed.
Moderate(def) ==
  LET listed == <<"listed", def[1]>> IN
  << Changes(Val(On(At(Request("admin", "updateUserStatus", {200}), listed), def[1]), def[2])),
     Changes(Val(On(At(Request("admin", "createWarning", {201}), listed), def[1]), def[2])) >>

upsertReportsAndModeration(t) ==
  << Request("admin", "listReports", {200}) >>
  \o ForEach(t.reports, upsertReport)
  \o << Find(Request("admin", "listUsers", {200}),
             {<<<<"listed", t.targets[i][1]>>, t.targets[i][1]>> : i \in 1 .. Len(t.targets)}) >>
  \o ForEach(t.targets, Moderate)
  \o << Request("admin", "listAdmins", {200}),
        Forgive(Once(On(Request("admin", "promoteAdmin", {409}), "admin")), AllCodes) >>

\* The reads behind the summary, the third kind with a filter.
collectSummary(t) ==
  << Public("listCategories", {200}) >>
  \o ForEach(t.users, LAMBDA u : << Request(u, "listMyProducts", {200}) >>)
  \o ForEach(<< "open", "reviewing", "resolved", "rejected" >>,
             LAMBDA s : << Val(Request("admin", "listReports", {200}), s) >>)
  \o ForEach(t.users, LAMBDA u : << On(Public("getUserRatingSummary", {200}), u) >>)
  \o ForEach(t.blocks, LAMBDA d : IF FirstOf(t.blocks, d)
                                  THEN << Request(d[1], "listBlockedUsers", {200}) >> ELSE << >>)
  \o ForEach(t.users, LAMBDA u : << Request(u, "listFavorites", {200}) >>)
  \o << Request("admin", "listUsers", {200}) >>

\* Everything up to the summary: the phases that write.
SeedPhases(t) ==
  performPreflightChecks
  \o ForEach(t.users, LAMBDA u : ensureUser(u) \o upsertProfile(u))
  \o ForEach(t.categories, upsertCategory)
  \o ForEach(t.products, LAMBDA d : upsertProduct(t.products, d))
  \o ForEach(t.blocks, LAMBDA d : upsertBlock(t.blocks, d))
  \o ForEach(t.favorites, LAMBDA d : upsertFavorite(t.favorites, d))
  \o ForEach(t.ratings, upsertRating)
  \o ForEach(t.conversations, LAMBDA d : upsertConversation(t.messages, d))
  \o upsertReportsAndModeration(t)

\* Done means that the artifacts are written.
runDevSeed(t) == SeedPhases(t) \o collectSummary(t)
=============================================================================
