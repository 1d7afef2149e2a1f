----------------------------- MODULE BackOffice -----------------------------
(***************************************************************************)
(* Reports, warnings, ratings, favorites, categories and the audit log:    *)
(* AdminService, ReportsService, RatingsService, FavoritesService,         *)
(* CategoriesService and the production seeder, with the expansion of      *)
(* foreign keys that every response goes through. Each query is a step of  *)
(* its own, and nothing but the seeder runs in a transaction.              *)
(***************************************************************************)
EXTENDS FkExpansion, FiniteSets

CONSTANTS
  NumUsers, Admins,            \* accounts, and those with is_admin at the start
  NumProducts, ProductOwner,   \* products and their owner_id
  Names,           \* category names, told apart case-insensitively
  Taxonomy,        \* CATEGORY_TAXONOMY, flattened: [name, parent], parent NoName at the top
  MaxCategories,   \* bound: rows ever inserted into categories
  MaxReports,      \* bound: rows of user_reports
  Mixes,           \* bound: the endpoints called, and how many requests arrive, in one behaviour
  RatingsPage,     \* LIMIT of the latest ratings
  Slots,           \* requests in flight at the same time
  Faults           \* whether queries may fail

Users == 1..NumUsers
Products == 1..NumProducts
Categories == 1..MaxCategories
Reports == 1..MaxReports
File == 1          \* the image of every product; every conversation and message is 1

NoName == ""     \* NULL, where a name is expected

AdminOps == {"createWarning", "updateReportStatus", "createCategory", "deleteCategory",
             "promoteAdmin", "demoteAdmin", "updateUserStatus", "deleteUser", "listReports"}
ProductOps == {"addFavorite", "removeFavorite", "listConversations", "getFile"}
UserOps == ProductOps \cup {"createReport", "getMyReports", "rateUser", "getUserRatingSummary",
                            "listFavorites", "blockUser", "unblockUser"}

ASSUME BoundsAssumption ==
  /\ {NumUsers, NumProducts, MaxCategories, MaxReports} \subseteq Nat
  /\ RatingsPage \in Nat \ {0}
ASSUME DataAssumption ==
  /\ Admins \subseteq Users /\ ProductOwner \in [Products -> Users]
  /\ Taxonomy \in Seq([name: Names, parent: Names \cup {NoName}])
  /\ Mixes \subseteq [ops: SUBSET (AdminOps \cup UserOps \cup {"seed-prod"}), requests: Nat] /\ Faults \in BOOLEAN
\* The seeder's loop over the children of an entry stands inside the loop over
\* the entries: a parent comes before its children.
ASSUME TaxonomyAssumption ==
  \A i \in DOMAIN Taxonomy : Taxonomy[i].parent # NoName =>
    \E j \in 1..(i - 1) : Taxonomy[j] = [name |-> Taxonomy[i].parent, parent |-> NoName]

VARIABLES
  db,       \* the tables
  log,      \* audit: admin_audit_logs; history: changes done, changes whose row was lost
  slot,     \* requests in flight
  left,     \* requests still to arrive
  mix,      \* the member of Mixes of this behaviour
  seed      \* the run of seed-prod

vars == <<db, log, slot, left, mix, seed>>

\* users.deleted_at and is_admin, products.deleted_at, categories and their
\* identity sequence, user_reports, the number of admin_warnings of each target,
\* user_ratings, user_favorites and user_blocks as pairs.
EmptyDb ==
  [account |-> [u \in Users |-> [deleted |-> FALSE, admin |-> u \in Admins]],
   deleted |-> {}, category |-> << >>, lastCategory |-> 0, report |-> <<>>,
   warning |-> [u \in Users |-> 0], rating |-> {}, favorite |-> {}, block |-> {}]

Visible(u) == u \in Users /\ ~db.account[u].deleted
hasBlockBetweenUsers(u, v) == <<u, v>> \in db.block \/ <<v, u>> \in db.block

-----------------------------------------------------------------------------
(* Requests *)

\* pc names the query that comes next. gone and apart are history: accounts
\* deleted, and accounts blocked without a pause, since the request arrived.
Idle == [pc |-> "idle", rid |-> 0, op |-> "none", by |-> Null, target |-> Null, arg |-> NoName,
         parent |-> Null, count |-> 0, body |-> {}, todo |-> {},
         maps |-> [e \in EntityTypes |-> {}], answer |-> {}, gone |-> {}, apart |-> {}]

Goto(s, pc) == slot' = [slot EXCEPT ![s].pc = pc]
\* Also an exception: the filter answers with an error and no body.
Finish(s) == slot' = [slot EXCEPT ![s] = Idle]
At(s, op, pc) == slot[s].op = op /\ slot[s].pc = pc

\* The handler returns: the interceptor collects the ids of the body.
Return(s, body) ==
  slot' = [slot EXCEPT ![s].pc = "expand", ![s].body = body,
             ![s].todo = {e \in EntityTypes : collectIds(body, e) # {}}]

\* An admin handler has its result row and logs before it returns it.
ThenLog(s, body) == slot' = [slot EXCEPT ![s].pc = "log", ![s].body = body]

\* The containers of the responses, as far as they hold foreign keys.
E(key, value) == [key |-> key, value |-> value]
ReportNode(r) == <<E(Id("reporter"), r.reporter), E(Id("reported_user"), r.reported)>>
ReviewedNode(r, reviewer) ==
  <<E(Id("reporter"), r.reporter), E(Id("reported_user"), r.reported), E(<<"reviewed_by">>, reviewer)>>
RatingNode(r) == <<E(Id("rater"), r[1]), E(Id("rated_user"), r[2])>>
CategoryNode(c, parent) == <<E(<<"id">>, c), E(Id("parent"), parent)>>
FavoriteNodes(p) == {<<E(<<"id">>, p), E(Id("owner"), ProductOwner[p])>>,
                     <<E(<<"sort_order">>, 1), E(Id("file"), File)>>}

TargetsOf(op) ==
  CASE op = "updateReportStatus" -> Reports
    [] op \in ProductOps -> Products
    [] op = "deleteCategory" -> Categories
    [] op \in {"listReports", "getMyReports", "listFavorites", "createCategory"} -> {Null}
    [] OTHER -> Users
ArgsOf(op) == IF op = "createCategory" THEN Names ELSE {NoName}
ParentsOf(op) == IF op = "createCategory" THEN Categories \cup {Null} ELSE {Null}

\* The first query of a handler.
First(op, parent) ==
  CASE op \in {"createWarning", "createReport", "rateUser"} -> "assertUserExists"
    [] op \in {"promoteAdmin", "demoteAdmin"} -> "before"
    [] op = "createCategory" /\ parent # Null -> "parent"
    [] OTHER -> "query"

\* The guards let the request through (AdminGuard reads is_admin just now), and
\* the handler's tests on its arguments hold.
Arrive(s, op, by, target, arg, parent) ==
  /\ left > 0 /\ slot[s].pc = "idle"
  /\ Visible(by) /\ (op \in AdminOps => db.account[by].admin)
  /\ op \in {"createReport", "rateUser", "demoteAdmin", "blockUser"} => by # target
  /\ left' = left - 1
  /\ slot' = [slot EXCEPT ![s] = [Idle EXCEPT
        !.pc = First(op, parent), !.rid = left, !.op = op, !.by = by, !.target = target,
        !.arg = arg, !.parent = parent, !.gone = {u \in Users : db.account[u].deleted},
        !.apart = {u \in Users : hasBlockBetweenUsers(by, u)}]]
  /\ UNCHANGED <<db, log, seed>>

\* A query throws: nothing of the request is undone.
Fail(s) ==
  /\ Faults /\ slot[s].pc \notin {"idle", "log", "answered"}
  /\ Finish(s)
  /\ UNCHANGED <<db, log, left, seed>>

-----------------------------------------------------------------------------
(* The audit log *)

\* rid tells apart requests that ask for the same; it is not a column.
Entry(s) == [rid |-> slot[s].rid, op |-> slot[s].op, by |-> slot[s].by, target |-> slot[s].target]
Changed(s) == log' = [log EXCEPT !.done = @ \cup {Entry(s)}]

\* logAdminAction swallows its own failure; the process may stop here too. A
\* response without foreign keys needs no expansion; that of promoteAdmin and
\* demoteAdmin is a TypeError when the UPDATE met no row.
logAdminAction(s) ==
  /\ slot[s].pc = "log"
  /\ \/ log' = [log EXCEPT !.audit = @ \cup {Entry(s)}]
     \/ Faults /\ log' = [log EXCEPT !.lost = @ \cup {Entry(s)}]
  /\ IF slot[s].body = {} THEN Finish(s) ELSE Return(s, slot[s].body)
  /\ UNCHANGED <<db, left, seed>>

-----------------------------------------------------------------------------
(* Accounts, as far as the audit log and the responses depend on them *)

\* Mutant: deleted_at is not asked for.
MutassertUserExists(s) ==
  /\ slot[s].pc = "assertUserExists"
  /\ Goto(s, "query")
  /\ UNCHANGED <<db, log, left, seed>>

assertUserExists(s) ==
  /\ slot[s].pc = "assertUserExists"
  /\ IF Visible(slot[s].target) THEN Goto(s, "query") ELSE Finish(s)
  /\ UNCHANGED <<db, log, left, seed>>

\* The SELECT of promoteAdmin and of demoteAdmin.
RoleBefore(s) ==
  LET t == slot[s].target IN
  /\ slot[s].pc = "before"
  /\ IF Visible(t) /\ (db.account[t].admin <=> slot[s].op = "demoteAdmin")
       THEN Goto(s, "query") ELSE Finish(s)
  /\ UNCHANGED <<db, log, left, seed>>

\* Mutant: the change is logged first and made only when the account has the role.
MutRoleWrite(s) ==
  /\ slot[s].pc = "query" /\ slot[s].op \in {"promoteAdmin", "demoteAdmin"}
  /\ ThenLog(s, {})
  /\ UNCHANGED <<db, log, left, seed>>

\* Their UPDATE, whose row count nobody looks at.
RoleWrite(s) ==
  LET t == slot[s].target IN
  /\ slot[s].pc = "query" /\ slot[s].op \in {"promoteAdmin", "demoteAdmin"}
  /\ ThenLog(s, {})
  /\ IF Visible(t)
       THEN db' = [db EXCEPT !.account[t].admin = slot[s].op = "promoteAdmin"] /\ Changed(s)
       ELSE UNCHANGED <<db, log>>
  /\ UNCHANGED <<left, seed>>

\* updateUserStatus (the status is modelled in Sessions) and deleteUser.
updateUser(s) ==
  LET t == slot[s].target IN
  /\ slot[s].pc = "query" /\ slot[s].op \in {"updateUserStatus", "deleteUser"}
  /\ IF Visible(t)
       THEN /\ db' = [db EXCEPT !.account[t].deleted = slot[s].op = "deleteUser"]
            /\ Changed(s) /\ ThenLog(s, {})
       ELSE UNCHANGED <<db, log>> /\ Finish(s)
  /\ UNCHANGED <<left, seed>>

-----------------------------------------------------------------------------
(* Reports, warnings, ratings. Accounts are deleted softly, so the foreign  *)
(* keys of the INSERTs hold whatever happened since assertUserExists.       *)

createReport(s) ==
  LET r == [reporter |-> slot[s].by, reported |-> slot[s].target, status |-> "open", reviewer |-> Null]
  IN  /\ At(s, "createReport", "query") /\ Len(db.report) < MaxReports
      /\ db' = [db EXCEPT !.report = Append(@, r)]
      /\ Return(s, {ReportNode(r)})
      /\ UNCHANGED <<log, left, seed>>

createWarning(s) ==
  /\ At(s, "createWarning", "query")
  /\ db' = [db EXCEPT !.warning[slot[s].target] = @ + 1]
  /\ Changed(s)
  /\ ThenLog(s, {<<E(Id("admin"), slot[s].by), E(Id("target_user"), slot[s].target)>>})
  /\ UNCHANGED <<left, seed>>

\* Mutant: the status is written as the body gave it, unchecked.
MutupdateReportStatus(s) ==
  LET r == slot[s].target IN
  /\ At(s, "updateReportStatus", "query")
  /\ IF r \in DOMAIN db.report
       THEN /\ db' = [db EXCEPT !.report[r].status = slot[s].arg]
            /\ Changed(s) /\ ThenLog(s, {})
       ELSE UNCHANGED <<db, log>> /\ Finish(s)
  /\ UNCHANGED <<left, seed>>

\* target is the id of a report.
updateReportStatus(s) ==
  LET r == slot[s].target IN
  /\ At(s, "updateReportStatus", "query")
  /\ IF r \in DOMAIN db.report
       THEN /\ db' = [db EXCEPT !.report[r].status = "resolved", !.report[r].reviewer = slot[s].by]
            /\ Changed(s) /\ ThenLog(s, {ReviewedNode(db.report[r], slot[s].by)})
       ELSE UNCHANGED <<db, log>> /\ Finish(s)
  /\ UNCHANGED <<left, seed>>

listReports(s) ==
  /\ At(s, "listReports", "query")
  /\ Return(s, {ReportNode(db.report[r]) : r \in DOMAIN db.report})
  /\ UNCHANGED <<db, log, left, seed>>

getMyReports(s) ==
  LET mine == {r \in DOMAIN db.report : db.report[r].reporter = slot[s].by} IN
  /\ At(s, "getMyReports", "query")
  /\ Return(s, {ReviewedNode(db.report[r], db.report[r].reviewer) : r \in mine})
  /\ UNCHANGED <<db, log, left, seed>>

rateUser(s) ==
  LET r == <<slot[s].by, slot[s].target>> IN
  /\ At(s, "rateUser", "query")
  /\ db' = [db EXCEPT !.rating = @ \cup {r}]
  /\ Return(s, {RatingNode(r)})
  /\ UNCHANGED <<log, left, seed>>

RatingsOf(u) == {r \in db.rating : r[2] = u}

\* Mutant: the list is read before the count.
MutgetUserRatingSummary(s) ==
  LET ratings == RatingsOf(slot[s].target) IN
  /\ slot[s].op = "getUserRatingSummary"
  /\ \/ /\ slot[s].pc = "query"
        /\ slot' = [slot EXCEPT ![s].pc = "latest", ![s].body = {RatingNode(r) : r \in ratings}]
     \/ /\ slot[s].pc = "latest"
        /\ slot' = [slot EXCEPT ![s].pc = "expand", ![s].count = Cardinality(ratings),
                     ![s].todo = {e \in EntityTypes : collectIds(slot[s].body, e) # {}}]
  /\ UNCHANGED <<db, log, left, seed>>

\* The count and average, then the latest rows, at most a page of them.
getUserRatingSummary(s) ==
  LET ratings == RatingsOf(slot[s].target) IN
  /\ slot[s].op = "getUserRatingSummary"
  /\ \/ /\ slot[s].pc = "query"
        /\ slot' = [slot EXCEPT ![s].pc = "latest", ![s].count = Cardinality(ratings)]
     \/ /\ slot[s].pc = "latest"
        /\ \E page \in SUBSET ratings :
             /\ Cardinality(page) = RatingsPage \/ (page = ratings /\ Cardinality(page) < RatingsPage)
             /\ Return(s, {RatingNode(r) : r \in page})
  /\ UNCHANGED <<db, log, left, seed>>

-----------------------------------------------------------------------------
(* Favorites and blocks; target is a product of the favorites endpoints *)

addFavorite(s) ==
  LET p == slot[s].target IN
  /\ slot[s].op = "addFavorite"
  /\ \/ /\ slot[s].pc = "query"
        /\ IF p \notin db.deleted THEN Goto(s, "blocked") ELSE Finish(s)
        /\ UNCHANGED db
     \/ /\ slot[s].pc = "blocked"
        /\ IF hasBlockBetweenUsers(slot[s].by, ProductOwner[p]) THEN Finish(s) ELSE Goto(s, "insert")
        /\ UNCHANGED db
     \/ /\ slot[s].pc = "insert"
        /\ db' = [db EXCEPT !.favorite = @ \cup {<<slot[s].by, p>>}]
        /\ Finish(s)
  /\ UNCHANGED <<log, left, seed>>

removeFavorite(s) ==
  /\ At(s, "removeFavorite", "query")
  /\ db' = [db EXCEPT !.favorite = @ \ {<<slot[s].by, slot[s].target>>}]
  /\ Finish(s)
  /\ UNCHANGED <<log, left, seed>>

\* The join with product_listing_view drops deleted products.
listFavorites(s) ==
  LET shown == {p \in Products \ db.deleted : /\ <<slot[s].by, p>> \in db.favorite
                                              /\ ~hasBlockBetweenUsers(slot[s].by, ProductOwner[p])}
  IN  /\ At(s, "listFavorites", "query")
      /\ Return(s, UNION {FavoriteNodes(p) : p \in shown})
      /\ UNCHANGED <<db, log, left, seed>>

blockUser(s) ==
  /\ slot[s].op = "blockUser"
  /\ \/ /\ slot[s].pc = "query"
        /\ IF Visible(slot[s].target) THEN Goto(s, "insert") ELSE Finish(s)
        /\ UNCHANGED db
     \/ /\ slot[s].pc = "insert"
        /\ db' = [db EXCEPT !.block = @ \cup {<<slot[s].by, slot[s].target>>}]
        /\ Finish(s)
  /\ UNCHANGED <<log, left, seed>>

\* The pair is no longer blocked without a pause: history forgets it.
unblockUser(s) ==
  LET pair == {slot[s].by, slot[s].target} IN
  /\ At(s, "unblockUser", "query")
  /\ db' = [db EXCEPT !.block = @ \ {<<slot[s].by, slot[s].target>>}]
  /\ slot' = [t \in Slots |-> IF t = s THEN Idle
                ELSE [slot[t] EXCEPT !.apart = {u \in @ : {slot[t].by, u} # pair}]]
  /\ UNCHANGED <<log, left, seed>>

\* Responses of the chat and files components: a conversation and a message of
\* the owner of product p, and a file, which has an owner_type.
otherResponses(s) ==
  LET p == slot[s].target IN
  /\ \/ /\ At(s, "listConversations", "query")
        /\ Return(s, {<<E(<<"id">>, 1), E(Id("product"), p), E(Id("last_message"), 1),
                        E(Id("peer_user"), ProductOwner[p]),
                        E(Id("product_image_file"), IF p \in db.deleted THEN Null ELSE File)>>,
                      <<E(<<"id">>, 1), E(Id("conversation"), 1), E(Id("sender"), ProductOwner[p])>>})
     \/ /\ At(s, "getFile", "query")
        /\ Return(s, {<<E(<<"id">>, File), E(Id("uploader_user"), ProductOwner[p]),
                        E(<<"owner_type">>, 1), E(Id("owner"), p)>>})
  /\ UNCHANGED <<db, log, left, seed>>

\* deleteProduct of ProductsService: one UPDATE.
deleteProduct(p) ==
  /\ ProductOps \cap mix.ops # {} /\ p \notin db.deleted /\ Visible(ProductOwner[p])
  /\ db' = [db EXCEPT !.deleted = @ \cup {p}]
  /\ UNCHANGED <<log, slot, left, seed>>

-----------------------------------------------------------------------------
(* Categories. seed.rows are inserted by the seeder and not committed: the  *)
(* unique index makes an equal INSERT wait for them, and the key-share lock *)
(* of a child makes a DELETE of its parent wait.                            *)

Siblings(rows, name, parent) == {c \in DOMAIN rows : rows[c] = [name |-> name, parent |-> parent]}
Children(rows, c) == {d \in DOMAIN rows : rows[d].parent = c}
InsertRow(rows, c, name, parent) ==
  [d \in DOMAIN rows \cup {c} |-> IF d = c THEN [name |-> name, parent |-> parent] ELSE rows[d]]

\* The parent test and the INSERT, which draws an id even when it fails: on a
\* sibling (409) or on a parent deleted meanwhile (23503, not translated).
createCategory(s) ==
  LET name == slot[s].arg
      parent == slot[s].parent
      new == db.lastCategory + 1
  IN
  /\ slot[s].op = "createCategory"
  /\ \/ /\ slot[s].pc = "parent"
        /\ IF parent \in DOMAIN db.category THEN Goto(s, "query") ELSE Finish(s)
        /\ UNCHANGED <<db, log>>
     \/ /\ slot[s].pc = "query"
        /\ new <= MaxCategories /\ Siblings(seed.rows, name, parent) = {}
        /\ IF Siblings(db.category, name, parent) = {} /\ parent \in DOMAIN db.category \cup {Null}
             THEN /\ db' = [db EXCEPT !.lastCategory = new,
                                      !.category = InsertRow(@, new, name, parent)]
                  /\ log' = [log EXCEPT !.done = @ \cup {[Entry(s) EXCEPT !.target = new]}]
                  /\ slot' = [slot EXCEPT ![s].pc = "log", ![s].target = new,
                                          ![s].body = {CategoryNode(new, parent)}]
             ELSE db' = [db EXCEPT !.lastCategory = new] /\ UNCHANGED log /\ Finish(s)
  /\ UNCHANGED <<left, seed>>

\* Mutant: the schema does not restrict the delete.
MutRestricted(c) == FALSE

\* ON DELETE RESTRICT of parent_id: a 409 while there are children.
Restricted(c) == Children(db.category, c) # {}

deleteCategory(s) ==
  LET c == slot[s].target IN
  /\ At(s, "deleteCategory", "query") /\ Children(seed.rows, c) = {}
  /\ IF c \in DOMAIN db.category /\ ~Restricted(c)
       THEN /\ db' = [db EXCEPT !.category = [d \in DOMAIN @ \ {c} |-> @[d]]]
            /\ Changed(s) /\ ThenLog(s, {CategoryNode(c, db.category[c].parent)})
            /\ seed' = [seed EXCEPT !.deleted = TRUE]
       ELSE UNCHANGED <<db, log, seed>> /\ Finish(s)
  /\ UNCHANGED left

-----------------------------------------------------------------------------
(* seed-prod: BEGIN, upsertCategory for each entry of the taxonomy, COMMIT *)

\* ids are what the entries were resolved to; deleted is history: an admin
\* deleted a category while the seeder ran.
NoSeed == [pc |-> "idle", at |-> 1, rows |-> << >>, ids |-> <<>>, deleted |-> FALSE]

\* The transaction sees its own rows and what others have committed.
SeedView == [c \in DOMAIN db.category \cup DOMAIN seed.rows |->
               IF c \in DOMAIN db.category THEN db.category[c] ELSE seed.rows[c]]

\* parentResult.id
SeedParent ==
  LET top == [name |-> Taxonomy[seed.at].parent, parent |-> NoName] IN
  IF top.name = NoName THEN Null
  ELSE seed.ids[CHOOSE i \in 1..(seed.at - 1) : Taxonomy[i] = top]

SeedResolved(c) == [seed EXCEPT !.ids = Append(@, c), !.at = @ + 1,
                                !.pc = IF seed.at = Len(Taxonomy) THEN "commit" ELSE "insert"]

SeedRollback == seed' = [NoSeed EXCEPT !.pc = "failed"] /\ UNCHANGED <<db, log, slot, left>>

runProdSeed ==
  /\ "seed-prod" \in mix.ops /\ seed.pc \in {"idle", "failed", "done"} /\ Taxonomy # <<>>
  /\ seed' = [NoSeed EXCEPT !.pc = "insert"]
  /\ UNCHANGED <<db, log, slot, left>>

\* Mutant: the conflict is looked for by name only.
MutInConflict(name, parent) == {c \in DOMAIN SeedView : SeedView[c].name = name}

\* ON CONFLICT (COALESCE(parent_id, 0), LOWER(name)), and the SELECT after it.
InConflict(name, parent) == Siblings(SeedView, name, parent)

\* upsertCategory: INSERT ... ON CONFLICT DO NOTHING; a parent that is gone
\* fails the foreign key and with it the run.
SeedInsert ==
  LET name == Taxonomy[seed.at].name
      new == db.lastCategory + 1
  IN
  /\ seed.pc = "insert" /\ new <= MaxCategories
  /\ \/ /\ InConflict(name, SeedParent) # {}
        /\ seed' = [seed EXCEPT !.pc = "select"]
        /\ UNCHANGED <<db, log, slot, left>>
     \/ /\ InConflict(name, SeedParent) = {} /\ SeedParent \in DOMAIN SeedView \cup {Null}
        /\ db' = [db EXCEPT !.lastCategory = new]
        /\ seed' = [SeedResolved(new) EXCEPT !.rows = InsertRow(@, new, name, SeedParent)]
        /\ UNCHANGED <<log, slot, left>>
     \/ /\ InConflict(name, SeedParent) = {} /\ SeedParent \notin DOMAIN SeedView \cup {Null}
        /\ SeedRollback

\* upsertCategory: the SELECT of the row in conflict, which may be gone by now.
SeedSelect ==
  LET found == InConflict(Taxonomy[seed.at].name, SeedParent) IN
  /\ seed.pc = "select"
  /\ \/ found = {} /\ SeedRollback
     \/ \E c \in found : seed' = SeedResolved(c) /\ UNCHANGED <<db, log, slot, left>>

SeedCommit ==
  /\ seed.pc = "commit"
  /\ db' = [db EXCEPT !.category = SeedView]
  /\ seed' = [NoSeed EXCEPT !.pc = "done"]
  /\ UNCHANGED <<log, slot, left>>

\* A query throws, or the process stops and the server rolls back.
SeedCrash == Faults /\ seed.pc \in {"insert", "select", "commit"} /\ SeedRollback

-----------------------------------------------------------------------------
(* The interceptor *)

\* The snapshot a query of the expansion reads.
Snapshot ==
  [user |-> [u \in Users |-> [deleted |-> db.account[u].deleted, avatar |-> Null]],
   category |-> [c \in DOMAIN db.category |-> db.category[c].parent],
   product |-> [p \in Products |-> [owner |-> ProductOwner[p], deleted |-> p \in db.deleted]],
   message |-> {1}, conversation |-> {1}, file |-> {File}]

\* One of the parallel queries; they end in any order.
resolve(s, entity) ==
  /\ slot[s].pc = "expand" /\ entity \in slot[s].todo
  /\ slot' = [slot EXCEPT
        ![s].maps[entity] = resolveEntities(Snapshot, entity, collectIds(slot[s].body, entity)),
        ![s].todo = @ \ {entity}]
  /\ UNCHANGED <<db, log, left, seed>>

\* The response is built, and sent in the next step.
expand(s) ==
  /\ slot[s].pc = "expand" /\ slot[s].todo = {}
  /\ slot' = [slot EXCEPT ![s].pc = "answered",
        ![s].answer = {[of |-> n, out |-> transformNode(n, slot[s].maps)] : n \in slot[s].body}]
  /\ UNCHANGED <<db, log, left, seed>>

Send(s) ==
  /\ slot[s].pc = "answered"
  /\ Finish(s)
  /\ UNCHANGED <<db, log, left, seed>>

-----------------------------------------------------------------------------
Init ==
  /\ db = EmptyDb
  /\ log = [audit |-> {}, done |-> {}, lost |-> {}]
  /\ slot = [s \in Slots |-> Idle]
  /\ mix \in Mixes
  /\ left = mix.requests
  /\ seed = NoSeed

Query(s) ==
  \/ RoleWrite(s) \/ updateUser(s)
  \/ createReport(s) \/ createWarning(s) \/ updateReportStatus(s)
  \/ listReports(s) \/ getMyReports(s)
  \/ rateUser(s) \/ getUserRatingSummary(s)
  \/ addFavorite(s) \/ removeFavorite(s) \/ listFavorites(s)
  \/ blockUser(s) \/ unblockUser(s) \/ otherResponses(s)
  \/ createCategory(s) \/ deleteCategory(s)

Arrivals(s) ==
  \E op \in mix.ops \ {"seed-prod"}, by \in Users :
    \E target \in TargetsOf(op), arg \in ArgsOf(op), parent \in ParentsOf(op) :
      Arrive(s, op, by, target, arg, parent)

Next ==
  /\ \/ \E s \in Slots :
          \/ Arrivals(s) \/ assertUserExists(s) \/ RoleBefore(s) \/ Query(s)
          \/ logAdminAction(s) \/ Fail(s)
          \/ \E e \in EntityTypes : resolve(s, e)
          \/ expand(s) \/ Send(s)
     \/ \E p \in Products : deleteProduct(p)
     \/ runProdSeed \/ SeedInsert \/ SeedSelect \/ SeedCommit \/ SeedCrash
  /\ UNCHANGED mix

Spec == Init /\ [][Next]_vars

-----------------------------------------------------------------------------
(* Properties *)

Entries == [rid: Nat \ {0}, op: AdminOps, by: Users,
            target: Users \cup Categories \cup Reports]

\* Every table, the audit log and the seeder have their shape.
TypeOK ==
  /\ db.account \in [Users -> [deleted: BOOLEAN, admin: BOOLEAN]]
  /\ db.deleted \subseteq Products
  /\ db.lastCategory \in 0..MaxCategories
  /\ DOMAIN db.category \cup DOMAIN seed.rows \subseteq 1..db.lastCategory
  /\ \A c \in DOMAIN db.category : db.category[c] \in [name: Names, parent: 0..MaxCategories]
  /\ db.report \in Seq([reporter: Users, reported: Users, status: {"open", "resolved"},
                         reviewer: Users \cup {Null}])
  /\ db.warning \in [Users -> Nat]
  /\ db.rating \subseteq Users \X Users /\ db.block \subseteq Users \X Users
  /\ db.favorite \subseteq Users \X Products
  /\ left \in Nat /\ mix \in Mixes
  /\ log \in [audit: SUBSET Entries, done: SUBSET Entries, lost: SUBSET Entries]

\* The audit log and the changes agree, in whatever order requests cross: every
\* change has its row unless the insert failed or is still to come, and every
\* row has its change. promoteAdmin and demoteAdmin log without looking at the
\* row count, so one kind of row is for nothing: a role given to or taken from
\* an account that was deleted in between.
AuditTrail ==
  /\ \A e \in log.done :
       e \in log.audit \cup log.lost \/ \E s \in Slots : slot[s].pc = "log" /\ Entry(s) = e
  /\ \A e \in log.audit :
       e \in log.done \/ (e.op \in {"promoteAdmin", "demoteAdmin"} /\ db.account[e.target].deleted)

\* createCategory tests the parent and inserts in two queries, and deleteCategory
\* and the seeder run beside it: yet every parent exists, and no two siblings
\* have the same name.
CategoryTree ==
  \A c \in DOMAIN db.category :
    /\ db.category[c].parent \in DOMAIN db.category \cup {Null}
    /\ \A d \in DOMAIN db.category : db.category[c] = db.category[d] => c = d

\* A seeder that commits, after whatever crashes and earlier runs, leaves every
\* entry of its taxonomy with its name under the parent of that name, unless an
\* admin deleted a category meanwhile.
SeedCompletes ==
  [][seed.pc = "commit" /\ seed'.pc = "done" /\ ~seed.deleted =>
       \A i \in DOMAIN Taxonomy :
         LET rows == db'.category
             c == seed.ids[i]
         IN  /\ c \in DOMAIN rows /\ rows[c].name = Taxonomy[i].name
             /\ IF Taxonomy[i].parent = NoName THEN rows[c].parent = Null
                ELSE rows[c].parent # Null /\ rows[rows[c].parent].name = Taxonomy[i].parent]_vars

RowsAbout(u) == <<{i \in DOMAIN db.report : db.report[i].reported = u}, RatingsOf(u), db.warning[u]>>

\* createReport, rateUser and createWarning test the account and insert in two
\* queries: a row about a deleted account is only ever written by a request
\* that arrived before the deletion.
NoLateTargets ==
  [][\A u \in Users : RowsAbout(u)' # RowsAbout(u) =>
       \E s \in Slots : slot[s].target = u /\ u \notin slot[s].gone]_vars

\* No response carries the profile of an account that was deleted before its
\* request arrived: not under a key of its own, not as the owner of a product.
DeletedStayHidden ==
  \A s \in Slots : \A a \in slot[s].answer : \A key \in DOMAIN a.out :
    LET r == a.out[key] IN
    /\ r.entity = "user" => r.id \notin slot[s].gone
    /\ r.entity = "product" => r.of \notin slot[s].gone

\* The favorites never show a product of somebody who was blocked, by either
\* side and without a pause, since before the request.
BlockedStayHidden ==
  \A s \in Slots : slot[s].op = "listFavorites" =>
    \A a \in slot[s].answer : \A key \in DOMAIN a.out :
      a.out[key].entity = "user" => a.out[key].id \notin slot[s].apart

\* What somebody asks for after a deletion, or a block, hides what these are
\* meant to hide, although a response is put together by several queries.
ResponsesHide == DeletedStayHidden /\ BlockedStayHidden

\* What the schema says the columns of the responses refer to.
Refers(key) ==
  CASE key = Id("product") -> "product"
    [] key = Id("parent") -> "category"
    [] key = Id("last_message") -> "message"
    [] key = Id("conversation") -> "conversation"
    [] key \in {Id("file"), Id("product_image_file")} -> "file"
    [] OTHER -> "user"

\* Every foreign key of a response is replaced by the row the schema says it
\* refers to, whichever of the parallel queries ran when; null stands only for
\* NULL and for a row that is gone.
ExpansionExact ==
  \A s \in Slots : \A a \in slot[s].answer : \A i \in DOMAIN a.of :
    LET key == a.of[i].key
        v == a.of[i].value
        reference == Len(key) = 2 \/ key = <<"reviewed_by">>
        ofFile == \E j \in DOMAIN a.of : a.of[j].key = <<"owner_type">>
        stem == IF key = Id("product_image_file") THEN <<"product_image">> ELSE <<key[1]>>
    IN IF ~reference \/ (ofFile /\ key = Id("owner")) THEN a.out[key] = Scalar(v)
       ELSE /\ a.out[stem].entity \in {Refers(key), "null"}
            /\ a.out[stem].id \in {v, Null}
            /\ a.out[stem] = NoRow => v = Null \/ resolveEntities(Snapshot, Refers(key), {v}) = {}

\* The summary of ratings counts no more rows than the list beside it can show,
\* although ratings arrive between its two queries.
SummaryNotAhead ==
  \A s \in Slots : At(s, "getUserRatingSummary", "answered") =>
    slot[s].count <= Cardinality(slot[s].answer) \/ Cardinality(slot[s].answer) = RatingsPage
=============================================================================
