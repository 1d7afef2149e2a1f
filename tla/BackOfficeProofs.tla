-------------------------- MODULE BackOfficeProofs --------------------------
(***************************************************************************)
(* Proofs about BackOffice, for any accounts, products, names, taxonomy    *)
(* and requests. The category tree needs what the seeder has inserted and  *)
(* not committed (TreeOK); the audit log and the rows about deleted        *)
(* accounts need what each request in flight has established (RequestOK).  *)
(***************************************************************************)
EXTENDS BackOffice, FiniteSetTheorems, TLAPS

\* The records keep their fields, whatever is assigned to one of them.
DbShape(d) ==
  d = [account |-> d.account, deleted |-> d.deleted, category |-> d.category, lastCategory |-> d.lastCategory,
       report |-> d.report, warning |-> d.warning, rating |-> d.rating, favorite |-> d.favorite, block |-> d.block]
SeedShape(x) == x = [pc |-> x.pc, at |-> x.at, rows |-> x.rows, ids |-> x.ids, deleted |-> x.deleted]

-----------------------------------------------------------------------------
(* Writes of the tables *)

SameTree(d, e) == e.category = d.category /\ e.lastCategory = d.lastCategory
SameRows(d, e) == e.report = d.report /\ e.rating = d.rating /\ e.warning = d.warning
SameOthers(d, e) == e.deleted = d.deleted /\ e.favorite = d.favorite /\ e.block = d.block

SetAccount(d, v) == [d EXCEPT !.account = v]
SetReport(d, v) == [d EXCEPT !.report = v]
SetWarning(d, v) == [d EXCEPT !.warning = v]
SetRating(d, v) == [d EXCEPT !.rating = v]
SetFavorite(d, v) == [d EXCEPT !.favorite = v]
SetBlock(d, v) == [d EXCEPT !.block = v]
SetDeleted(d, v) == [d EXCEPT !.deleted = v]
SetCategory(d, v) == [d EXCEPT !.category = v]
SetCategories(d, n, v) == [d EXCEPT !.lastCategory = n, !.category = v]
SetLast(d, n) == [d EXCEPT !.lastCategory = n]

LEMMA AccountWrite ==
  ASSUME NEW d, DbShape(d), NEW v, NEW e, e = SetAccount(d, v)
  PROVE  DbShape(e) /\ e.account = v /\ SameTree(d, e) /\ SameRows(d, e) /\ SameOthers(d, e)
BY DEF SetAccount, DbShape, SameTree, SameRows, SameOthers

LEMMA ReportWrite ==
  ASSUME NEW d, DbShape(d), NEW v, NEW e, e = SetReport(d, v)
  PROVE  /\ DbShape(e) /\ e.report = v /\ SameTree(d, e) /\ SameOthers(d, e)
         /\ e.account = d.account /\ e.rating = d.rating /\ e.warning = d.warning
BY DEF SetReport, DbShape, SameTree, SameOthers

LEMMA WarningWrite ==
  ASSUME NEW d, DbShape(d), NEW v, NEW e, e = SetWarning(d, v)
  PROVE  /\ DbShape(e) /\ e.warning = v /\ SameTree(d, e) /\ SameOthers(d, e)
         /\ e.account = d.account /\ e.rating = d.rating /\ e.report = d.report
BY DEF SetWarning, DbShape, SameTree, SameOthers

LEMMA RatingWrite ==
  ASSUME NEW d, DbShape(d), NEW v, NEW e, e = SetRating(d, v)
  PROVE  /\ DbShape(e) /\ e.rating = v /\ SameTree(d, e) /\ SameOthers(d, e)
         /\ e.account = d.account /\ e.report = d.report /\ e.warning = d.warning
BY DEF SetRating, DbShape, SameTree, SameOthers

LEMMA OtherWrite ==
  ASSUME NEW d, DbShape(d), NEW v, NEW e,
         e \in {SetFavorite(d, v), SetBlock(d, v), SetDeleted(d, v)}
  PROVE  DbShape(e) /\ e.account = d.account /\ SameTree(d, e) /\ SameRows(d, e)
BY DEF SetFavorite, SetBlock, SetDeleted, DbShape, SameTree, SameRows

LEMMA CategoryWrite ==
  ASSUME NEW d, DbShape(d), NEW v, NEW n, NEW e, e = SetCategories(d, n, v)
  PROVE  /\ DbShape(e) /\ e.category = v /\ e.lastCategory = n
         /\ e.account = d.account /\ SameRows(d, e) /\ SameOthers(d, e)
BY DEF SetCategories, DbShape, SameRows, SameOthers

LEMMA CategoryDelete ==
  ASSUME NEW d, DbShape(d), NEW v, NEW e, e = SetCategory(d, v)
  PROVE  /\ DbShape(e) /\ e.category = v /\ e.lastCategory = d.lastCategory
         /\ e.account = d.account /\ SameRows(d, e) /\ SameOthers(d, e)
BY DEF SetCategory, DbShape, SameRows, SameOthers

LEMMA IdDrawn ==
  ASSUME NEW d, DbShape(d), NEW n, NEW e, e = SetLast(d, n)
  PROVE  /\ DbShape(e) /\ e.category = d.category /\ e.lastCategory = n
         /\ e.account = d.account /\ SameRows(d, e) /\ SameOthers(d, e)
BY DEF SetLast, DbShape, SameRows, SameOthers

-----------------------------------------------------------------------------
(* The category tree *)

\* Committed rows and those of the seeder's transaction: ids below the
\* sequence, parents that exist, and names told apart among siblings, also
\* between the two.
TreeOK(cat, last, rows) ==
  /\ last \in Nat
  /\ DOMAIN cat \subseteq 1..last /\ DOMAIN rows \subseteq 1..last /\ DOMAIN cat \cap DOMAIN rows = {}
  /\ \A c \in DOMAIN cat : cat[c].parent \in DOMAIN cat \cup {Null}
  /\ \A c \in DOMAIN rows : rows[c].parent \in DOMAIN cat \cup DOMAIN rows \cup {Null}
  /\ \A c, d \in DOMAIN cat : cat[c] = cat[d] => c = d
  /\ \A c, d \in DOMAIN rows : rows[c] = rows[d] => c = d
  /\ \A c \in DOMAIN cat, d \in DOMAIN rows : cat[c] # rows[d]

\* A rollback, and an INSERT that fails after it drew its id.
LEMMA TreeRollback == ASSUME NEW cat, NEW last, NEW rows, TreeOK(cat, last, rows) PROVE TreeOK(cat, last, << >>)
BY DEF TreeOK

LEMMA TreeDraw == ASSUME NEW cat, NEW last, NEW rows, TreeOK(cat, last, rows) PROVE TreeOK(cat, last + 1, rows)
BY DEF TreeOK

\* createCategory, past the unique index and the foreign key.
LEMMA TreeCreate ==
  ASSUME NEW cat, NEW last, NEW rows, TreeOK(cat, last, rows), NEW name, NEW parent,
         Siblings(cat, name, parent) = {}, Siblings(rows, name, parent) = {}, parent \in DOMAIN cat \cup {Null}
  PROVE  TreeOK(InsertRow(cat, last + 1, name, parent), last + 1, rows)
<1> DEFINE new == InsertRow(cat, last + 1, name, parent)
<1>1. /\ DOMAIN new = DOMAIN cat \cup {last + 1}
      /\ new[last + 1] = [name |-> name, parent |-> parent] /\ new[last + 1].parent = parent
      /\ \A d \in DOMAIN cat : d # last + 1 => new[d] = cat[d]
  BY DEF InsertRow
<1> HIDE DEF new
<1>2. last \in Nat /\ last + 1 \notin DOMAIN cat /\ last + 1 \notin DOMAIN rows
  BY DEF TreeOK
<1>3. /\ \A d \in DOMAIN cat : cat[d] # [name |-> name, parent |-> parent]
      /\ \A d \in DOMAIN rows : rows[d] # [name |-> name, parent |-> parent]
  BY DEF Siblings
<1>4. \A d \in DOMAIN cat : new[d] = cat[d]
  BY <1>1, <1>2
<1>5. \A c, d \in DOMAIN new : new[c] = new[d] => c = d
  BY <1>1, <1>3, <1>4 DEF TreeOK
<1>6. \A c \in DOMAIN new, d \in DOMAIN rows : new[c] # rows[d]
  BY <1>1, <1>3, <1>4 DEF TreeOK
<1>7. \A c \in DOMAIN new : new[c].parent \in DOMAIN new \cup {Null}
  BY <1>1, <1>4 DEF TreeOK
<1>8. DOMAIN new \subseteq 1..(last + 1) /\ DOMAIN rows \subseteq 1..(last + 1) /\ DOMAIN new \cap DOMAIN rows = {}
  BY <1>1, <1>2 DEF TreeOK
<1>9. \A c \in DOMAIN rows : rows[c].parent \in DOMAIN new \cup DOMAIN rows \cup {Null}
  BY <1>1 DEF TreeOK
<1>10. last + 1 \in Nat /\ \A c, d \in DOMAIN rows : rows[c] = rows[d] => c = d
  BY <1>2 DEF TreeOK
<1>11. TreeOK(new, last + 1, rows)
  BY <1>5, <1>6, <1>7, <1>8, <1>9, <1>10 DEF TreeOK
<1> QED BY <1>11 DEF new

Without(cat, c) == [d \in DOMAIN cat \ {c} |-> cat[d]]

\* deleteCategory, past ON DELETE RESTRICT and the seeder's key-share locks.
LEMMA TreeDelete ==
  ASSUME NEW cat, NEW last, NEW rows, TreeOK(cat, last, rows), NEW c,
         Children(cat, c) = {}, Children(rows, c) = {}
  PROVE  TreeOK(Without(cat, c), last, rows)
<1> DEFINE new == Without(cat, c)
<1>1. DOMAIN new = DOMAIN cat \ {c} /\ \A d \in DOMAIN new : new[d] = cat[d]
  BY DEF Without
<1> HIDE DEF new
<1>2. /\ \A d \in DOMAIN cat : cat[d].parent # c
      /\ \A d \in DOMAIN rows : rows[d].parent # c
  BY DEF Children
<1>3. TreeOK(new, last, rows)
  BY <1>1, <1>2 DEF TreeOK
<1> QED BY <1>3 DEF new

View(cat, rows) == [c \in DOMAIN cat \cup DOMAIN rows |-> IF c \in DOMAIN cat THEN cat[c] ELSE rows[c]]

\* The INSERT of the seeder that met no conflict in what it sees.
LEMMA TreeSeedInsert ==
  ASSUME NEW cat, NEW last, NEW rows, TreeOK(cat, last, rows), NEW name, NEW parent,
         Siblings(View(cat, rows), name, parent) = {}, parent \in DOMAIN cat \cup DOMAIN rows \cup {Null}
  PROVE  TreeOK(cat, last + 1, InsertRow(rows, last + 1, name, parent))
<1> DEFINE new == InsertRow(rows, last + 1, name, parent)
<1>1. /\ DOMAIN new = DOMAIN rows \cup {last + 1}
      /\ new[last + 1] = [name |-> name, parent |-> parent] /\ new[last + 1].parent = parent
      /\ \A d \in DOMAIN rows : d # last + 1 => new[d] = rows[d]
  BY DEF InsertRow
<1> HIDE DEF new
<1>2. last \in Nat /\ last + 1 \notin DOMAIN cat /\ last + 1 \notin DOMAIN rows
  BY DEF TreeOK
<1>3. /\ \A d \in DOMAIN cat : cat[d] # [name |-> name, parent |-> parent]
      /\ \A d \in DOMAIN rows : rows[d] # [name |-> name, parent |-> parent]
  <2>1. \A d \in DOMAIN cat \cup DOMAIN rows : View(cat, rows)[d] # [name |-> name, parent |-> parent]
    BY DEF Siblings, View
  <2>2. \A d \in DOMAIN cat : View(cat, rows)[d] = cat[d]
    BY DEF View
  <2>3. \A d \in DOMAIN rows : View(cat, rows)[d] = rows[d]
    BY DEF View, TreeOK
  <2> QED BY <2>1, <2>2, <2>3
<1>4. \A d \in DOMAIN rows : new[d] = rows[d]
  BY <1>1, <1>2
<1>5. \A c, d \in DOMAIN new : new[c] = new[d] => c = d
  BY <1>1, <1>3, <1>4 DEF TreeOK
<1>6. \A c \in DOMAIN cat, d \in DOMAIN new : cat[c] # new[d]
  BY <1>1, <1>3, <1>4 DEF TreeOK
<1>7. \A c \in DOMAIN new : new[c].parent \in DOMAIN cat \cup DOMAIN new \cup {Null}
  BY <1>1, <1>4 DEF TreeOK
<1>8. DOMAIN cat \subseteq 1..(last + 1) /\ DOMAIN new \subseteq 1..(last + 1) /\ DOMAIN cat \cap DOMAIN new = {}
  BY <1>1, <1>2 DEF TreeOK
<1>9. /\ last + 1 \in Nat /\ \A c, d \in DOMAIN cat : cat[c] = cat[d] => c = d
      /\ \A c \in DOMAIN cat : cat[c].parent \in DOMAIN cat \cup {Null}
  BY <1>2 DEF TreeOK
<1>10. TreeOK(cat, last + 1, new)
  BY <1>5, <1>6, <1>7, <1>8, <1>9 DEF TreeOK
<1> QED BY <1>10 DEF new

\* COMMIT makes one table of the two.
LEMMA TreeCommit ==
  ASSUME NEW cat, NEW last, NEW rows, TreeOK(cat, last, rows)
  PROVE  TreeOK(View(cat, rows), last, << >>)
<1> DEFINE v == View(cat, rows)
<1>1. /\ DOMAIN v = DOMAIN cat \cup DOMAIN rows
      /\ \A c \in DOMAIN cat : v[c] = cat[c]
      /\ \A c \in DOMAIN rows : v[c] = rows[c]
  BY DEF View, TreeOK
<1> HIDE DEF v
<1>2. \A c, d \in DOMAIN v : v[c] = v[d] => c = d
  BY <1>1 DEF TreeOK
<1>3. \A c \in DOMAIN v : v[c].parent \in DOMAIN v \cup {Null}
  BY <1>1 DEF TreeOK
<1>4. DOMAIN v \subseteq 1..last /\ last \in Nat
  BY <1>1 DEF TreeOK
<1>5. TreeOK(v, last, << >>)
  BY <1>2, <1>3, <1>4 DEF TreeOK
<1> QED BY <1>5 DEF v

-----------------------------------------------------------------------------
(* Requests *)

RoleOps == {"promoteAdmin", "demoteAdmin"}
TestedOps == {"createWarning", "createReport", "rateUser"}

RequestShape(x) ==
  x = [pc |-> x.pc, rid |-> x.rid, op |-> x.op, by |-> x.by, target |-> x.target, arg |-> x.arg,
       parent |-> x.parent, count |-> x.count, body |-> x.body, todo |-> x.todo, maps |-> x.maps,
       answer |-> x.answer, gone |-> x.gone, apart |-> x.apart]
LogShape(l) == l = [audit |-> l.audit, done |-> l.done, lost |-> l.lost]

EntryOf(x) == [rid |-> x.rid, op |-> x.op, by |-> x.by, target |-> x.target]

\* The request keeps what it is about when other fields change.
About(n, x) == n.rid = x.rid /\ n.op = x.op /\ n.by = x.by /\ n.target = x.target /\ n.gone = x.gone

\* What a request has established: gone holds deleted accounts only; what it
\* logs is a change, or a role of a deleted account; what assertUserExists let
\* through was there when the request arrived.
RequestOK(x, done, acc) ==
  /\ RequestShape(x)
  /\ x.gone \subseteq {u \in Users : acc[u].deleted}
  /\ x.op \in RoleOps \cup TestedOps => x.target \in Users
  /\ x.pc = "log" => EntryOf(x) \in done \/ (x.op \in RoleOps /\ acc[x.target].deleted)
  /\ x.pc = "query" /\ x.op \in TestedOps => x.target \notin x.gone
  /\ x.pc = "before" => x.op \in RoleOps
  /\ x.pc # "idle" => x.by \in Users

Report == [reporter: Users, reported: Users, status: {"open", "resolved"}, reviewer: Users \cup {Null}]

Tables ==
  /\ DbShape(db) /\ SeedShape(seed) /\ LogShape(log)
  /\ TreeOK(db.category, db.lastCategory, seed.rows)
  /\ db.account \in [Users -> [deleted: BOOLEAN, admin: BOOLEAN]]
  /\ db.report \in Seq(Report)
Requests ==
  /\ slot = [s \in Slots |-> slot[s]]
  /\ \A s \in Slots : RequestOK(slot[s], log.done, db.account)
RoleTargets == \A e \in log.audit : e.op \in RoleOps => e.target \in Users

Inv == Tables /\ Requests /\ AuditTrail /\ RoleTargets

\* Deletion is for ever.
Buried == \A u \in Users : db.account[u].deleted => db'.account[u].deleted

LEMMA IdleOK == ASSUME NEW done, NEW acc PROVE RequestOK(Idle, done, acc) /\ Idle.pc = "idle"
BY DEF Idle, RequestOK, RequestShape, RoleOps, TestedOps

LEMMA StillOK ==
  ASSUME NEW x, RequestOK(x, log.done, db.account), Buried, log.done \subseteq log'.done
  PROVE  RequestOK(x, log'.done, db'.account)
BY DEF RequestOK, Buried

\* A request goes on without logging: it keeps what it is about.
LEMMA GoesOnOK ==
  ASSUME NEW x, RequestOK(x, log.done, db.account), Buried, log.done \subseteq log'.done,
         x.pc # "idle", NEW n, RequestShape(n), About(n, x), n.pc \notin {"log", "before"},
         n.pc = "query" /\ x.op \in TestedOps => x.target \notin x.gone
  PROVE  RequestOK(n, log'.done, db'.account)
BY DEF RequestOK, Buried, About

LEMMA MovedOK ==
  ASSUME Inv, Buried, log.done \subseteq log'.done, NEW s \in Slots, NEW n,
         slot' = [slot EXCEPT ![s] = n], RequestOK(n, log'.done, db'.account)
  PROVE  Requests' /\ slot'[s] = n /\ \A r \in Slots : r # s => slot'[r] = slot[r]
<1>1. slot = [r \in Slots |-> slot[r]] /\ \A r \in Slots : RequestOK(slot[r], log.done, db.account)
  BY DEF Inv, Requests
<1>2. slot'[s] = n /\ \A r \in Slots : r # s => slot'[r] = slot[r]
  BY <1>1
<1>3. slot' = [r \in Slots |-> slot'[r]]
  BY <1>1
<1>4. \A r \in Slots : RequestOK(slot'[r], log'.done, db'.account)
  BY <1>1, <1>2, StillOK
<1> QED BY <1>2, <1>3, <1>4 DEF Requests

-----------------------------------------------------------------------------
(* The three kinds of steps *)

\* A step of s that touches neither the log nor the account rows but to delete.
Settles(s) == \E n : slot' = [slot EXCEPT ![s] = n] /\ RequestOK(n, log.done, db'.account)

LEMMA QuietOK ==
  ASSUME Inv, Tables', Buried, NEW s \in Slots, UNCHANGED log, slot[s].pc # "log", Settles(s)
  PROVE  Inv'
<1>1. PICK n : slot' = [slot EXCEPT ![s] = n] /\ RequestOK(n, log.done, db'.account)
  BY DEF Settles
<1>2. Requests' /\ \A r \in Slots : r # s => slot'[r] = slot[r]
  BY <1>1, MovedOK
<1>3. \A e \in log.done : e \in log.audit \cup log.lost \/ \E r \in Slots : slot[r].pc = "log" /\ Entry(r) = e
  BY DEF Inv, AuditTrail
<1>4. \A r \in Slots : slot[r].pc = "log" => slot'[r].pc = "log" /\ Entry(r)' = Entry(r)
  BY <1>2 DEF Entry
<1>5. \A e \in log'.done : e \in log'.audit \cup log'.lost \/ \E r \in Slots : slot'[r].pc = "log" /\ Entry(r)' = e
  BY <1>3, <1>4
<1>6. \A e \in log'.audit : e \in log'.done \/ (e.op \in {"promoteAdmin", "demoteAdmin"} /\ db'.account[e.target].deleted)
  BY DEF Inv, AuditTrail, RoleTargets, RoleOps, Buried
<1> QED BY <1>2, <1>5, <1>6 DEF Inv, AuditTrail, RoleTargets

\* A step that changes no request and no log.
LEMMA SilentOK == ASSUME Inv, Tables', Buried, UNCHANGED <<log, slot>> PROVE Inv'
<1>1. Requests'
  BY StillOK DEF Inv, Requests
<1>2. \A e \in log'.done : e \in log'.audit \cup log'.lost \/ \E r \in Slots : slot'[r].pc = "log" /\ Entry(r)' = e
  BY DEF Inv, AuditTrail, Entry
<1>3. \A e \in log'.audit : e \in log'.done \/ (e.op \in {"promoteAdmin", "demoteAdmin"} /\ db'.account[e.target].deleted)
  BY DEF Inv, AuditTrail, RoleTargets, RoleOps, Buried
<1> QED BY <1>1, <1>2, <1>3 DEF Inv, AuditTrail, RoleTargets

\* A step that makes a change e and goes on to log it.
LEMMA ChangeOK ==
  ASSUME Inv, DbShape(db'), SeedShape(seed'), TreeOK(db'.category, db'.lastCategory, seed'.rows),
         db'.account \in [Users -> [deleted: BOOLEAN, admin: BOOLEAN]], db'.report \in Seq(Report), Buried,
         NEW s \in Slots, slot[s].pc # "log", NEW n, slot' = [slot EXCEPT ![s] = n], n.pc = "log",
         log' = [log EXCEPT !.done = @ \cup {EntryOf(n)}],
         RequestShape(n), n.gone = slot[s].gone, n.op = slot[s].op, n.by = slot[s].by, slot[s].pc # "idle",
         n.target = slot[s].target \/ n.op \notin RoleOps \cup TestedOps
  PROVE  Inv'
<1>1. LogShape(log') /\ log'.done = log.done \cup {EntryOf(n)} /\ log'.audit = log.audit /\ log'.lost = log.lost
  BY DEF Inv, Tables, LogShape
<1>2. RequestOK(slot[s], log.done, db.account)
  BY DEF Inv, Requests
<1>3. RequestOK(n, log'.done, db'.account)
  BY <1>1, <1>2 DEF RequestOK, Buried
<1>4. Requests' /\ slot'[s] = n /\ \A r \in Slots : r # s => slot'[r] = slot[r]
  BY <1>1, <1>3, MovedOK
<1>5. \A e \in log.done : e \in log.audit \cup log.lost \/ \E r \in Slots : slot[r].pc = "log" /\ Entry(r) = e
  BY DEF Inv, AuditTrail
<1>6. \A r \in Slots : slot[r].pc = "log" => slot'[r].pc = "log" /\ Entry(r)' = Entry(r)
  BY <1>4 DEF Entry
<1>7. slot'[s].pc = "log" /\ Entry(s)' = EntryOf(n)
  BY <1>4 DEF Entry, EntryOf
<1>8. \A e \in log'.done : e \in log'.audit \cup log'.lost \/ \E r \in Slots : slot'[r].pc = "log" /\ Entry(r)' = e
  BY <1>1, <1>5, <1>6, <1>7
<1>9. \A e \in log'.audit : e \in log'.done \/ (e.op \in {"promoteAdmin", "demoteAdmin"} /\ db'.account[e.target].deleted)
  BY <1>1 DEF Inv, AuditTrail, RoleTargets, RoleOps, Buried
<1>10. Tables'
  BY <1>1 DEF Tables
<1> QED BY <1>1, <1>4, <1>8, <1>9, <1>10 DEF Inv, AuditTrail, RoleTargets

-----------------------------------------------------------------------------
(* How requests go on *)

WithBody(x, pc, body) == [x EXCEPT !.pc = pc, !.body = body]
WithTodo(x, pc, body, todo) == [x EXCEPT !.pc = pc, !.body = body, !.todo = todo]
WithMaps(x, maps, todo) == [x EXCEPT !.maps = maps, !.todo = todo]
WithAnswer(x, pc, answer) == [x EXCEPT !.pc = pc, !.answer = answer]
WithCount(x, pc, count) == [x EXCEPT !.pc = pc, !.count = count]
WithApart(x, apart) == [x EXCEPT !.apart = apart]

LEMMA BodyWrite ==
  ASSUME NEW x, RequestShape(x), NEW pc, NEW body, NEW n, n = WithBody(x, pc, body)
  PROVE  RequestShape(n) /\ n.pc = pc /\ About(n, x)
BY DEF RequestShape, About, WithBody

LEMMA TodoWrite ==
  ASSUME NEW x, RequestShape(x), NEW pc, NEW body, NEW todo, NEW n, n = WithTodo(x, pc, body, todo)
  PROVE  RequestShape(n) /\ n.pc = pc /\ About(n, x)
BY DEF RequestShape, About, WithTodo

LEMMA MapsWrite ==
  ASSUME NEW x, RequestShape(x), NEW maps, NEW todo, NEW n, n = WithMaps(x, maps, todo)
  PROVE  RequestShape(n) /\ n.pc = x.pc /\ About(n, x)
BY DEF RequestShape, About, WithMaps

LEMMA AnswerWrite ==
  ASSUME NEW x, RequestShape(x), NEW pc, NEW v, NEW n, n = WithAnswer(x, pc, v)
  PROVE  RequestShape(n) /\ n.pc = pc /\ About(n, x)
BY DEF RequestShape, About, WithAnswer

LEMMA CountWrite ==
  ASSUME NEW x, RequestShape(x), NEW pc, NEW v, NEW n, n = WithCount(x, pc, v)
  PROVE  RequestShape(n) /\ n.pc = pc /\ About(n, x)
BY DEF RequestShape, About, WithCount

LEMMA ApartWrite ==
  ASSUME NEW x, RequestShape(x), NEW v, NEW n, n = WithApart(x, v)
  PROVE  RequestShape(n) /\ n.pc = x.pc /\ About(n, x)
BY DEF RequestShape, About, WithApart

WithTarget(x, pc, target, body) == [x EXCEPT !.pc = pc, !.target = target, !.body = body]

LEMMA TargetWrite ==
  ASSUME NEW x, RequestShape(x), NEW pc, NEW target, NEW body, NEW n, n = WithTarget(x, pc, target, body)
  PROVE  /\ RequestShape(n) /\ n.pc = pc /\ n.target = target /\ n.rid = x.rid /\ n.op = x.op
         /\ n.by = x.by /\ n.gone = x.gone
BY DEF RequestShape, WithTarget

LEMMA FinishSettles == ASSUME NEW s \in Slots, Finish(s) PROVE Settles(s)
BY IdleOK DEF Finish, Settles

LEMMA GotoSettles ==
  ASSUME Inv, Buried, UNCHANGED log, NEW s \in Slots, slot[s].pc # "idle", NEW pc, pc \notin {"log", "before"}, Goto(s, pc),
         pc = "query" /\ slot[s].op \in TestedOps => slot[s].target \notin slot[s].gone
  PROVE  Settles(s)
<1> DEFINE n == [slot[s] EXCEPT !.pc = pc]
<1>1. RequestOK(slot[s], log.done, db.account) /\ RequestShape(slot[s])
  BY DEF Inv, Requests, RequestOK
<1>2. RequestShape(n) /\ n.pc = pc /\ About(n, slot[s])
  BY <1>1 DEF RequestShape, About
<1>3. slot' = [slot EXCEPT ![s] = n]
  BY DEF Goto
<1> HIDE DEF n
<1>4. RequestOK(n, log'.done, db'.account)
  BY <1>1, <1>2, GoesOnOK
<1> QED BY <1>3, <1>4 DEF Settles

LEMMA ReturnSettles ==
  ASSUME Inv, Buried, UNCHANGED log, NEW s \in Slots, slot[s].pc # "idle", NEW body, Return(s, body)
  PROVE  Settles(s)
<1> PICK todo : todo = {e \in EntityTypes : collectIds(body, e) # {}}
  OBVIOUS
<1> DEFINE n == WithTodo(slot[s], "expand", body, todo)
<1>1. RequestOK(slot[s], log.done, db.account) /\ RequestShape(slot[s])
  BY DEF Inv, Requests, RequestOK
<1>2. RequestShape(n) /\ n.pc = "expand" /\ About(n, slot[s])
  BY <1>1, TodoWrite
<1>3. slot' = [slot EXCEPT ![s] = n]
  BY DEF Return, WithTodo, Inv, Requests
<1> HIDE DEF n
<1>4. RequestOK(n, log'.done, db'.account)
  BY <1>1, <1>2, GoesOnOK
<1> QED BY <1>3, <1>4 DEF Settles

\* What ThenLog makes of a request.
LEMMA ThenLogRequest ==
  ASSUME Inv, NEW s \in Slots, NEW body, ThenLog(s, body)
  PROVE  \E n : /\ slot' = [slot EXCEPT ![s] = n] /\ RequestShape(n) /\ n.pc = "log" /\ n.op = slot[s].op
                /\ n.by = slot[s].by /\ n.target = slot[s].target /\ n.gone = slot[s].gone /\ EntryOf(n) = Entry(s)
<1> DEFINE n == WithBody(slot[s], "log", body)
<1>1. RequestShape(slot[s])
  BY DEF Inv, Requests, RequestOK
<1>2. RequestShape(n) /\ n.pc = "log" /\ About(n, slot[s])
  BY <1>1, BodyWrite
<1>3. slot' = [slot EXCEPT ![s] = n]
  BY DEF ThenLog, WithBody, Inv, Requests
<1> HIDE DEF n
<1>4. EntryOf(n) = Entry(s)
  BY <1>2 DEF EntryOf, Entry, About
<1> QED BY <1>2, <1>3, <1>4 DEF About

-----------------------------------------------------------------------------
(* One lemma per group of actions *)

LEMMA NothingWritten == ASSUME Inv, UNCHANGED <<db, log, seed>> PROVE Tables' /\ Buried
BY DEF Inv, Tables, Buried

LEMMA ArrivalKeeps == ASSUME Inv, NEW s \in Slots, Arrivals(s) PROVE Inv'
<1>1. PICK op \in mix.ops \ {"seed-prod"}, by \in Users :
        \E target \in TargetsOf(op), arg \in ArgsOf(op), parent \in ParentsOf(op) :
          Arrive(s, op, by, target, arg, parent)
  BY DEF Arrivals
<1>2. PICK target \in TargetsOf(op), arg \in ArgsOf(op), parent \in ParentsOf(op) :
        Arrive(s, op, by, target, arg, parent)
  BY <1>1
<1> PICK pc, gone, apart : /\ pc = First(op, parent) /\ gone = {u \in Users : db.account[u].deleted}
                           /\ apart = {u \in Users : hasBlockBetweenUsers(by, u)}
  OBVIOUS
<1> PICK n : n = [Idle EXCEPT !.pc = pc, !.rid = left, !.op = op, !.by = by, !.target = target,
                              !.arg = arg, !.parent = parent, !.gone = gone, !.apart = apart]
  OBVIOUS
<1>3. slot' = [slot EXCEPT ![s] = n] /\ slot[s].pc = "idle" /\ UNCHANGED <<db, log, seed>>
  BY <1>2 DEF Arrive
<1>4. RequestShape(n) /\ n.pc = pc /\ n.op = op /\ n.target = target /\ n.gone = gone /\ n.by = by
  BY DEF Idle, RequestShape
<1>5. pc # "log" /\ (op \in TestedOps => pc # "query") /\ (pc = "before" => op \in RoleOps)
  BY DEF First, TestedOps, RoleOps
<1>6. op \in RoleOps \cup TestedOps => target \in Users
  BY DEF TargetsOf, ProductOps, RoleOps, TestedOps
<1>7. RequestOK(n, log.done, db'.account)
  BY <1>3, <1>4, <1>5, <1>6 DEF RequestOK
<1>8. Settles(s)
  BY <1>3, <1>7 DEF Settles
<1> QED BY <1>3, <1>8, NothingWritten, QuietOK

\* A request in flight that only reads.
LEMMA ReaderKeeps ==
  ASSUME Inv, NEW s \in Slots, UNCHANGED <<db, log, seed>>, slot[s].pc \notin {"idle", "log"},
         \/ Finish(s) \/ (\E body : Return(s, body))
         \/ \E pc : /\ pc \notin {"log", "before"} /\ Goto(s, pc)
                    /\ pc = "query" /\ slot[s].op \in TestedOps => slot[s].target \notin slot[s].gone
  PROVE  Inv'
<1>1. Tables' /\ Buried
  BY NothingWritten
<1>2. Settles(s)
  BY <1>1, FinishSettles, ReturnSettles, GotoSettles
<1> QED BY <1>1, <1>2, QuietOK

LEMMA assertUserExistsKeeps == ASSUME Inv, NEW s \in Slots, assertUserExists(s) PROVE Inv'
<1>1. RequestOK(slot[s], log.done, db.account)
  BY DEF Inv, Requests
<1>2. CASE Visible(slot[s].target)
  <2>1. slot[s].target \notin slot[s].gone
    BY <1>1, <1>2 DEF Visible, RequestOK
  <2>2. Goto(s, "query") /\ slot[s].pc \notin {"idle", "log"} /\ UNCHANGED <<db, log, seed>>
    BY <1>2 DEF assertUserExists
  <2> QED BY <2>1, <2>2, ReaderKeeps
<1>3. CASE ~Visible(slot[s].target)
  <2>1. Finish(s) /\ slot[s].pc \notin {"idle", "log"} /\ UNCHANGED <<db, log, seed>>
    BY <1>3 DEF assertUserExists
  <2> QED BY <2>1, ReaderKeeps
<1> QED BY <1>2, <1>3

LEMMA RoleBeforeKeeps == ASSUME Inv, NEW s \in Slots, RoleBefore(s) PROVE Inv'
<1>1. slot[s].pc = "before" /\ UNCHANGED <<db, log, seed>> /\ slot[s].op \notin TestedOps
  BY DEF RoleBefore, Inv, Requests, RequestOK, RoleOps, TestedOps
<1>2. CASE Finish(s)
  BY <1>1, <1>2, ReaderKeeps
<1>3. CASE Goto(s, "query")
  BY <1>1, <1>3, ReaderKeeps
<1> QED BY <1>2, <1>3 DEF RoleBefore

\* The row of the audit log, or its loss.
LEMMA logAdminActionKeeps == ASSUME Inv, NEW s \in Slots, logAdminAction(s) PROVE Inv'
<1>0. slot[s].pc = "log" /\ UNCHANGED <<db, seed>> /\ RequestOK(slot[s], log.done, db.account)
  BY DEF logAdminAction, Inv, Requests
<1>1. /\ LogShape(log') /\ log'.done = log.done
      /\ \/ log'.audit = log.audit \cup {Entry(s)} /\ log'.lost = log.lost
         \/ log'.lost = log.lost \cup {Entry(s)} /\ log'.audit = log.audit
  BY DEF logAdminAction, Inv, Tables, LogShape
<1>2. Tables' /\ Buried
  BY <1>0, <1>1 DEF Inv, Tables, Buried
<1>3. \E n : slot' = [slot EXCEPT ![s] = n] /\ RequestOK(n, log'.done, db'.account)
  <2>1. CASE Finish(s)
    BY <2>1, IdleOK DEF Finish
  <2>2. CASE Return(s, slot[s].body)
    <3> PICK body, todo : body = slot[s].body /\ todo = {e \in EntityTypes : collectIds(body, e) # {}}
      OBVIOUS
    <3> DEFINE n == WithTodo(slot[s], "expand", body, todo)
    <3>1. RequestShape(n) /\ n.pc = "expand" /\ About(n, slot[s])
      BY <1>0, TodoWrite DEF RequestOK
    <3>2. slot' = [slot EXCEPT ![s] = n]
      BY <2>2 DEF Return, WithTodo, Inv, Requests
    <3> HIDE DEF n
    <3>3. RequestOK(n, log'.done, db'.account)
      BY <1>0, <1>1, <1>2, <3>1, GoesOnOK
    <3> QED BY <3>2, <3>3
  <2> QED BY <2>1, <2>2 DEF logAdminAction
<1>4. Requests' /\ \A r \in Slots : r # s => slot'[r] = slot[r]
  BY <1>1, <1>2, <1>3, MovedOK
<1>5. \A r \in Slots : r # s => slot'[r].pc = slot[r].pc /\ Entry(r)' = Entry(r)
  BY <1>4 DEF Entry
<1>6. \A e \in log.done : e \in log.audit \cup log.lost \/ \E r \in Slots : slot[r].pc = "log" /\ Entry(r) = e
  BY DEF Inv, AuditTrail
<1>7. \A e \in log'.done : e \in log'.audit \cup log'.lost \/ \E r \in Slots : slot'[r].pc = "log" /\ Entry(r)' = e
  BY <1>1, <1>5, <1>6
<1>8. /\ Entry(s) \in log.done \/ (slot[s].op \in RoleOps /\ db.account[slot[s].target].deleted)
      /\ Entry(s).op = slot[s].op /\ Entry(s).target = slot[s].target
      /\ slot[s].op \in RoleOps => slot[s].target \in Users
  BY <1>0 DEF RequestOK, EntryOf, Entry
<1>9. \A e \in log'.audit : e \in log'.done \/ (e.op \in {"promoteAdmin", "demoteAdmin"} /\ db'.account[e.target].deleted)
  BY <1>0, <1>1, <1>8 DEF Inv, AuditTrail, RoleOps
<1>10. RoleTargets'
  BY <1>1, <1>8 DEF Inv, RoleTargets
<1> QED BY <1>2, <1>4, <1>7, <1>9, <1>10 DEF Inv, AuditTrail

LEMMA InterceptorKeeps ==
  ASSUME Inv, NEW s \in Slots, Fail(s) \/ (\E e \in EntityTypes : resolve(s, e)) \/ expand(s) \/ Send(s)
  PROVE  Inv'
<1>0. RequestOK(slot[s], log.done, db.account) /\ RequestShape(slot[s])
  BY DEF Inv, Requests, RequestOK
<1>1. UNCHANGED <<db, log, seed>> /\ slot[s].pc \notin {"idle", "log"}
  BY DEF Fail, resolve, expand, Send
<1>2. Tables' /\ Buried
  BY <1>1, NothingWritten
<1>3. ASSUME NEW e \in EntityTypes, resolve(s, e) PROVE Settles(s)
  <2> PICK maps, todo : /\ maps = [slot[s].maps EXCEPT ![e] = resolveEntities(Snapshot, e, collectIds(slot[s].body, e))]
                        /\ todo = slot[s].todo \ {e}
    OBVIOUS
  <2> DEFINE n == WithMaps(slot[s], maps, todo)
  <2>1. RequestShape(n) /\ n.pc = slot[s].pc /\ About(n, slot[s])
    BY <1>0, MapsWrite
  <2>2. slot' = [slot EXCEPT ![s] = n] /\ slot[s].pc = "expand"
    BY <1>3 DEF resolve, WithMaps, Inv, Requests
  <2> HIDE DEF n
  <2>3. RequestOK(n, log'.done, db'.account)
    BY <1>0, <1>1, <1>2, <2>1, <2>2, GoesOnOK
  <2> QED BY <1>1, <2>2, <2>3 DEF Settles
<1>4. ASSUME expand(s) PROVE Settles(s)
  <2> PICK answer : answer = {[of |-> n, out |-> transformNode(n, slot[s].maps)] : n \in slot[s].body}
    OBVIOUS
  <2> DEFINE n == WithAnswer(slot[s], "answered", answer)
  <2>1. RequestShape(n) /\ n.pc = "answered" /\ About(n, slot[s])
    BY <1>0, AnswerWrite
  <2>2. slot' = [slot EXCEPT ![s] = n]
    BY <1>4 DEF expand, WithAnswer, Inv, Requests
  <2> HIDE DEF n
  <2>3. RequestOK(n, log'.done, db'.account)
    BY <1>0, <1>1, <1>2, <2>1, GoesOnOK
  <2> QED BY <1>1, <2>2, <2>3 DEF Settles
<1>5. ASSUME Fail(s) \/ Send(s) PROVE Settles(s)
  BY <1>5, FinishSettles DEF Fail, Send
<1> QED BY <1>1, <1>2, <1>3, <1>4, <1>5, QuietOK

\* promoteAdmin and demoteAdmin.
LEMMA RoleWriteKeeps == ASSUME Inv, NEW s \in Slots, RoleWrite(s) PROVE Inv'
<1> DEFINE t == slot[s].target
<1>0. /\ RequestOK(slot[s], log.done, db.account) /\ slot[s].pc \notin {"idle", "log"} /\ UNCHANGED seed
      /\ slot[s].op \in RoleOps /\ t \in Users
  BY DEF RoleWrite, Inv, Requests, RequestOK, RoleOps
<1>1. PICK n : /\ slot' = [slot EXCEPT ![s] = n] /\ RequestShape(n) /\ n.pc = "log" /\ n.op = slot[s].op
               /\ n.by = slot[s].by /\ n.target = slot[s].target /\ n.gone = slot[s].gone /\ EntryOf(n) = Entry(s)
  BY ThenLogRequest DEF RoleWrite
<1>2. CASE Visible(t)
  <2> PICK v : v = [db.account EXCEPT ![t] = [db.account[t] EXCEPT !.admin = slot[s].op = "promoteAdmin"]]
    OBVIOUS
  <2>1. db' = SetAccount(db, v) /\ log' = [log EXCEPT !.done = @ \cup {EntryOf(n)}]
    BY <1>1, <1>2 DEF RoleWrite, Changed, SetAccount
  <2>2. DbShape(db') /\ db'.account = v /\ SameTree(db, db') /\ SameRows(db, db')
    BY <2>1, AccountWrite DEF Inv, Tables
  <2>3. v \in [Users -> [deleted: BOOLEAN, admin: BOOLEAN]] /\ \A u \in Users : v[u].deleted = db.account[u].deleted
    BY <1>0 DEF Inv, Tables
  <2>4. Buried
    BY <2>2, <2>3 DEF Buried
  <2> QED BY <1>0, <1>1, <2>1, <2>2, <2>3, <2>4, ChangeOK DEF Inv, Tables, SameTree, SameRows
<1>3. CASE ~Visible(t)
  <2>1. UNCHANGED <<db, log>> /\ db.account[t].deleted
    BY <1>0, <1>3 DEF RoleWrite, Visible
  <2>2. RequestOK(n, log.done, db'.account)
    BY <1>0, <1>1, <2>1 DEF RequestOK
  <2> QED BY <1>0, <1>1, <2>1, <2>2, NothingWritten, QuietOK DEF Settles
<1> QED BY <1>2, <1>3

\* updateUserStatus and deleteUser.
LEMMA updateUserKeeps == ASSUME Inv, NEW s \in Slots, updateUser(s) PROVE Inv'
<1> DEFINE t == slot[s].target
<1>0. slot[s].pc \notin {"idle", "log"} /\ UNCHANGED seed /\ slot[s].op \notin RoleOps \cup TestedOps
  BY DEF updateUser, RoleOps, TestedOps
<1>1. CASE Visible(t)
  <2>0. t \in Users /\ ~db.account[t].deleted
    BY <1>1 DEF Visible
  <2> PICK v : v = [db.account EXCEPT ![t] = [db.account[t] EXCEPT !.deleted = slot[s].op = "deleteUser"]]
    OBVIOUS
  <2>1. PICK n : /\ slot' = [slot EXCEPT ![s] = n] /\ RequestShape(n) /\ n.pc = "log" /\ n.op = slot[s].op
                 /\ n.by = slot[s].by /\ n.target = slot[s].target /\ n.gone = slot[s].gone /\ EntryOf(n) = Entry(s)
    BY <1>1, ThenLogRequest DEF updateUser
  <2>2. db' = SetAccount(db, v) /\ log' = [log EXCEPT !.done = @ \cup {EntryOf(n)}]
    BY <1>1, <2>1 DEF updateUser, Changed, SetAccount
  <2>3. DbShape(db') /\ db'.account = v /\ SameTree(db, db') /\ SameRows(db, db')
    BY <2>2, AccountWrite DEF Inv, Tables
  <2>4. /\ v \in [Users -> [deleted: BOOLEAN, admin: BOOLEAN]]
        /\ \A u \in Users : u # t => v[u] = db.account[u]
    BY <2>0 DEF Inv, Tables
  <2>5. Buried
    BY <2>0, <2>3, <2>4 DEF Buried
  <2> QED BY <1>0, <2>1, <2>2, <2>3, <2>4, <2>5, ChangeOK DEF Inv, Tables, SameTree, SameRows
<1>2. CASE ~Visible(t)
  <2>1. UNCHANGED <<db, log, seed>> /\ Finish(s)
    BY <1>2 DEF updateUser
  <2> QED BY <1>0, <2>1, ReaderKeeps
<1> QED BY <1>1, <1>2

\* A write outside the log, the accounts, the reports and the categories.
LEMMA WriteKeeps ==
  ASSUME Inv, NEW s \in Slots, slot[s].pc \notin {"idle", "log"}, UNCHANGED <<log, seed>>,
         DbShape(db'), SameTree(db, db'), db'.account = db.account, db'.report \in Seq(Report),
         Finish(s) \/ \E body : Return(s, body)
  PROVE  Inv'
<1>1. Tables' /\ Buried
  BY DEF Inv, Tables, SameTree, Buried
<1>2. Settles(s)
  BY <1>1, FinishSettles, ReturnSettles
<1> QED BY <1>1, <1>2, QuietOK

Filed(reports, r) == Append(reports, r)

LEMMA FiledType == ASSUME NEW reports \in Seq(Report), NEW r \in Report PROVE Filed(reports, r) \in Seq(Report)
BY DEF Filed

Reported(reports, u) == {i \in DOMAIN reports : reports[i].reported = u}

LEMMA FiledRows ==
  ASSUME NEW reports \in Seq(Report), NEW r \in Report, NEW u, r.reported # u
  PROVE  Reported(Filed(reports, r), u) = Reported(reports, u)
<1>1. DOMAIN reports = 1..Len(reports) /\ DOMAIN Filed(reports, r) = 1..(Len(reports) + 1) /\ Len(reports) \in Nat
  BY DEF Filed
<1>2. \A i \in 1..Len(reports) : Filed(reports, r)[i] = reports[i]
  BY DEF Filed
<1>3. Filed(reports, r)[Len(reports) + 1] = r
  BY DEF Filed
<1> QED BY <1>1, <1>2, <1>3 DEF Reported

LEMMA createReportKeeps == ASSUME Inv, NEW s \in Slots, createReport(s) PROVE Inv'
<1> PICK r : r = [reporter |-> slot[s].by, reported |-> slot[s].target, status |-> "open", reviewer |-> Null]
  OBVIOUS
<1>1. slot[s].by \in Users /\ slot[s].target \in Users /\ slot[s].pc \notin {"idle", "log"}
  BY DEF createReport, At, Inv, Requests, RequestOK, TestedOps
<1>2. r \in Report
  BY <1>1 DEF Report
<1>3. /\ db' = SetReport(db, Filed(db.report, r)) /\ (\E body : Return(s, body))
      /\ UNCHANGED <<log, seed>>
  BY DEF createReport, SetReport, Filed
<1>4. Filed(db.report, r) \in Seq(Report)
  BY <1>2, FiledType DEF Inv, Tables
<1>5. DbShape(db') /\ db'.report = Filed(db.report, r) /\ SameTree(db, db') /\ db'.account = db.account
  BY <1>3, ReportWrite DEF Inv, Tables
<1> QED BY <1>1, <1>3, <1>4, <1>5, WriteKeeps

LEMMA rateUserKeeps == ASSUME Inv, NEW s \in Slots, rateUser(s) PROVE Inv'
<1>1. /\ db' = SetRating(db, db.rating \cup {<<slot[s].by, slot[s].target>>}) /\ (\E body : Return(s, body))
      /\ UNCHANGED <<log, seed>> /\ slot[s].pc \notin {"idle", "log"}
  BY DEF rateUser, At, SetRating
<1>2. DbShape(db') /\ db'.report = db.report /\ SameTree(db, db') /\ db'.account = db.account
  BY <1>1, RatingWrite DEF Inv, Tables
<1> QED BY <1>1, <1>2, WriteKeeps DEF Inv, Tables

LEMMA createWarningKeeps == ASSUME Inv, NEW s \in Slots, createWarning(s) PROVE Inv'
<1> PICK v : v = [db.warning EXCEPT ![slot[s].target] = @ + 1]
  OBVIOUS
<1>1. slot[s].pc \notin {"idle", "log"} /\ UNCHANGED seed
  BY DEF createWarning, At
<1>2. PICK n : /\ slot' = [slot EXCEPT ![s] = n] /\ RequestShape(n) /\ n.pc = "log" /\ n.op = slot[s].op
               /\ n.by = slot[s].by /\ n.target = slot[s].target /\ n.gone = slot[s].gone /\ EntryOf(n) = Entry(s)
  BY ThenLogRequest DEF createWarning
<1>3. db' = SetWarning(db, v) /\ log' = [log EXCEPT !.done = @ \cup {EntryOf(n)}]
  BY <1>2 DEF createWarning, Changed, SetWarning
<1>4. DbShape(db') /\ SameTree(db, db') /\ db'.account = db.account /\ db'.report = db.report
  BY <1>3, WarningWrite DEF Inv, Tables
<1> QED BY <1>1, <1>2, <1>3, <1>4, ChangeOK DEF Inv, Tables, SameTree, Buried

\* The row of a report, rewritten.
Reviewed(r, by) == [r EXCEPT !.status = "resolved", !.reviewer = by]

LEMMA ReviewedReport ==
  ASSUME NEW r \in Report, NEW by \in Users
  PROVE  Reviewed(r, by) \in Report /\ Reviewed(r, by).reported = r.reported
BY DEF Report, Reviewed

LEMMA ReportsReviewed ==
  ASSUME NEW reports \in Seq(Report), NEW i \in DOMAIN reports, NEW by \in Users
  PROVE  LET new == [reports EXCEPT ![i] = Reviewed(reports[i], by)] IN
         new \in Seq(Report) /\ DOMAIN new = DOMAIN reports
         /\ \A j \in DOMAIN reports : new[j].reported = reports[j].reported
<1>1. reports[i] \in Report
  OBVIOUS
<1> PICK r : r = Reviewed(reports[i], by)
  OBVIOUS
<1>2. r \in Report /\ r.reported = reports[i].reported
  BY <1>1, ReviewedReport
<1> QED BY <1>2

LEMMA updateReportStatusKeeps == ASSUME Inv, NEW s \in Slots, updateReportStatus(s) PROVE Inv'
<1> DEFINE i == slot[s].target
<1>1. /\ slot[s].pc \notin {"idle", "log"} /\ UNCHANGED seed /\ slot[s].by \in Users
      /\ slot[s].op \notin RoleOps \cup TestedOps
  BY DEF updateReportStatus, At, Inv, Requests, RequestOK, RoleOps, TestedOps
<1>2. CASE i \in DOMAIN db.report
  <2> PICK v : v = [db.report EXCEPT ![i] = Reviewed(db.report[i], slot[s].by)]
    OBVIOUS
  <2>1. v \in Seq(Report)
    BY <1>1, <1>2, ReportsReviewed DEF Inv, Tables
  <2>2. PICK n : /\ slot' = [slot EXCEPT ![s] = n] /\ RequestShape(n) /\ n.pc = "log" /\ n.op = slot[s].op
                 /\ n.by = slot[s].by /\ n.target = slot[s].target /\ n.gone = slot[s].gone /\ EntryOf(n) = Entry(s)
    BY <1>2, ThenLogRequest DEF updateReportStatus
  <2>3. db' = SetReport(db, v) /\ log' = [log EXCEPT !.done = @ \cup {EntryOf(n)}]
    BY <1>2, <2>2 DEF updateReportStatus, Changed, SetReport, Reviewed, Inv, Tables
  <2>4. DbShape(db') /\ SameTree(db, db') /\ db'.account = db.account /\ db'.report = v
    BY <2>3, ReportWrite DEF Inv, Tables
  <2> QED BY <1>1, <2>1, <2>2, <2>3, <2>4, ChangeOK DEF Inv, Tables, SameTree, Buried
<1>3. CASE i \notin DOMAIN db.report
  <2>1. UNCHANGED <<db, log>> /\ Finish(s)
    BY <1>3 DEF updateReportStatus
  <2> QED BY <1>1, <2>1, ReaderKeeps
<1> QED BY <1>2, <1>3

LEMMA ReadersKeep ==
  ASSUME Inv, NEW s \in Slots, listReports(s) \/ getMyReports(s) \/ listFavorites(s) \/ otherResponses(s)
  PROVE  Inv'
<1>1. UNCHANGED <<db, log, seed>> /\ slot[s].pc \notin {"idle", "log"} /\ \E body : Return(s, body)
  BY DEF listReports, getMyReports, listFavorites, otherResponses, At
<1> QED BY <1>1, ReaderKeeps

LEMMA SummaryKeeps == ASSUME Inv, NEW s \in Slots, getUserRatingSummary(s) PROVE Inv'
<1>1. UNCHANGED <<db, log, seed>> /\ slot[s].pc \notin {"idle", "log"}
  BY DEF getUserRatingSummary
<1>2. CASE \E body : Return(s, body)
  BY <1>1, <1>2, ReaderKeeps
<1>3. CASE slot' = [slot EXCEPT ![s].pc = "latest", ![s].count = Cardinality(RatingsOf(slot[s].target))]
  <2> PICK count : count = Cardinality(RatingsOf(slot[s].target))
    OBVIOUS
  <2> DEFINE n == WithCount(slot[s], "latest", count)
  <2>1. RequestOK(slot[s], log.done, db.account) /\ RequestShape(slot[s])
    BY DEF Inv, Requests, RequestOK
  <2>2. RequestShape(n) /\ n.pc = "latest" /\ About(n, slot[s])
    BY <2>1, CountWrite
  <2>3. slot' = [slot EXCEPT ![s] = n]
    BY <1>3 DEF WithCount, Inv, Requests
  <2> HIDE DEF n
  <2>4. Tables' /\ Buried
    BY <1>1, NothingWritten
  <2>5. RequestOK(n, log'.done, db'.account)
    BY <1>1, <2>1, <2>2, <2>4, GoesOnOK
  <2> QED BY <1>1, <2>3, <2>4, <2>5, QuietOK DEF Settles
<1> QED BY <1>2, <1>3 DEF getUserRatingSummary

\* Favorites and blocks.
LEMMA FavoritesKeep ==
  ASSUME Inv, NEW s \in Slots, addFavorite(s) \/ removeFavorite(s) \/ blockUser(s)
  PROVE  Inv'
<1>1. /\ slot[s].pc \notin {"idle", "log"} /\ UNCHANGED <<log, seed>>
      /\ slot[s].op \notin TestedOps
  BY DEF addFavorite, removeFavorite, blockUser, At, TestedOps
<1>2. \/ UNCHANGED db /\ (Finish(s) \/ Goto(s, "blocked") \/ Goto(s, "insert"))
      \/ Finish(s) /\ \E v : db' = [db EXCEPT !.favorite = v] \/ db' = [db EXCEPT !.block = v]
  BY DEF addFavorite, removeFavorite, blockUser
<1>3. CASE UNCHANGED db /\ (Finish(s) \/ Goto(s, "blocked") \/ Goto(s, "insert"))
  BY <1>1, <1>3, ReaderKeeps
<1>4. CASE Finish(s) /\ \E v : db' = [db EXCEPT !.favorite = v] \/ db' = [db EXCEPT !.block = v]
  <2>1. PICK v : db' = SetFavorite(db, v) \/ db' = SetBlock(db, v)
    BY <1>4 DEF SetFavorite, SetBlock
  <2>2. DbShape(db') /\ db'.account = db.account /\ SameTree(db, db') /\ SameRows(db, db')
    BY <2>1, OtherWrite DEF Inv, Tables
  <2> QED BY <1>1, <1>4, <2>2, WriteKeeps DEF Inv, Tables, SameRows
<1> QED BY <1>2, <1>3, <1>4

LEMMA deleteProductKeeps == ASSUME Inv, NEW p \in Products, deleteProduct(p) PROVE Inv'
<1>1. db' = SetDeleted(db, db.deleted \cup {p}) /\ UNCHANGED <<log, slot, seed>>
  BY DEF deleteProduct, SetDeleted
<1>2. DbShape(db') /\ db'.account = db.account /\ SameTree(db, db') /\ SameRows(db, db')
  BY <1>1, OtherWrite DEF Inv, Tables
<1>3. Tables' /\ Buried
  BY <1>1, <1>2 DEF Inv, Tables, SameTree, SameRows, Buried
<1> QED BY <1>1, <1>3, SilentOK

\* unblockUser ends its request and makes the others forget the pair.
LEMMA unblockUserKeeps == ASSUME Inv, NEW s \in Slots, unblockUser(s) PROVE Inv'
<1> DEFINE rest(t) == {u \in slot[t].apart : {slot[t].by, u} # {slot[s].by, slot[s].target}}
<1>1. /\ db' = SetBlock(db, db.block \ {<<slot[s].by, slot[s].target>>}) /\ UNCHANGED <<log, seed>>
      /\ slot[s].pc # "log"
      /\ slot' = [t \in Slots |-> IF t = s THEN Idle ELSE WithApart(slot[t], rest(t))]
  BY DEF unblockUser, SetBlock, WithApart, At
<1> HIDE DEF rest
<1>2. DbShape(db') /\ db'.account = db.account /\ SameTree(db, db') /\ SameRows(db, db')
  BY <1>1, OtherWrite DEF Inv, Tables
<1>3. Tables' /\ Buried
  BY <1>1, <1>2 DEF Inv, Tables, SameTree, SameRows, Buried
<1>4. \A t \in Slots : RequestOK(slot[t], log.done, db.account) /\ RequestShape(slot[t])
  BY DEF Inv, Requests, RequestOK
<1>5. \A t \in Slots : t # s => slot'[t] = WithApart(slot[t], rest(t))
  BY <1>1
<1>6. \A t \in Slots : t # s => RequestShape(slot'[t]) /\ slot'[t].pc = slot[t].pc /\ About(slot'[t], slot[t])
  BY <1>4, <1>5, ApartWrite
<1>7. \A t \in Slots : RequestOK(slot'[t], log'.done, db'.account)
  <2> SUFFICES ASSUME NEW t \in Slots PROVE RequestOK(slot'[t], log'.done, db'.account)
    OBVIOUS
  <2>1. CASE t = s
    BY <1>1, <2>1, IdleOK
  <2>2. CASE t # s
    <3>1. EntryOf(slot'[t]) = EntryOf(slot[t])
      BY <1>6, <2>2 DEF About, EntryOf
    <3> QED BY <1>1, <1>2, <1>4, <1>6, <2>2, <3>1 DEF RequestOK, About
  <2> QED BY <2>1, <2>2
<1>8. Requests'
  BY <1>1, <1>7 DEF Requests
<1>9. \A t \in Slots : slot[t].pc = "log" => slot'[t].pc = "log" /\ Entry(t)' = Entry(t)
  BY <1>1, <1>6 DEF About, Entry
<1>10. \A e \in log.done : e \in log.audit \cup log.lost \/ \E r \in Slots : slot[r].pc = "log" /\ Entry(r) = e
  BY DEF Inv, AuditTrail
<1>11. \A e \in log'.done : e \in log'.audit \cup log'.lost \/ \E r \in Slots : slot'[r].pc = "log" /\ Entry(r)' = e
  BY <1>1, <1>9, <1>10
<1>12. \A e \in log'.audit : e \in log'.done \/ (e.op \in {"promoteAdmin", "demoteAdmin"} /\ db'.account[e.target].deleted)
  BY <1>1, <1>2 DEF Inv, AuditTrail
<1> QED BY <1>1, <1>3, <1>8, <1>11, <1>12 DEF Inv, AuditTrail, RoleTargets

-----------------------------------------------------------------------------
(* Categories *)

LEMMA createCategoryKeeps == ASSUME Inv, NEW s \in Slots, createCategory(s) PROVE Inv'
<1> DEFINE name == slot[s].arg
           parent == slot[s].parent
           new == db.lastCategory + 1
<1>1. /\ slot[s].pc \notin {"idle", "log"} /\ UNCHANGED seed
      /\ slot[s].op = "createCategory" /\ slot[s].op \notin RoleOps \cup TestedOps
  BY DEF createCategory, RoleOps, TestedOps
<1>2. CASE UNCHANGED <<db, log>> /\ (Goto(s, "query") \/ Finish(s))
  BY <1>1, <1>2, ReaderKeeps
<1>3. ASSUME slot[s].pc = "query", Siblings(seed.rows, name, parent) = {}, Siblings(db.category, name, parent) = {},
             parent \in DOMAIN db.category \cup {Null}
      PROVE  Inv'
  <2> PICK rows : rows = InsertRow(db.category, new, name, parent)
    OBVIOUS
  <2> PICK body : body = {CategoryNode(new, parent)}
    OBVIOUS
  <2>1. /\ db' = SetCategories(db, new, rows)
        /\ log' = [log EXCEPT !.done = @ \cup {[Entry(s) EXCEPT !.target = new]}]
        /\ slot' = [slot EXCEPT ![s].pc = "log", ![s].target = new, ![s].body = body]
    BY <1>3 DEF createCategory, SetCategories
  <2>2. /\ DbShape(db') /\ db'.category = rows /\ db'.lastCategory = new
        /\ db'.account = db.account /\ db'.report = db.report
    BY <2>1, CategoryWrite DEF Inv, Tables, SameRows
  <2>3. TreeOK(db'.category, db'.lastCategory, seed'.rows)
    BY <1>1, <1>3, <2>2, TreeCreate DEF Inv, Tables
  <2> DEFINE n == WithTarget(slot[s], "log", new, body)
  <2>4. RequestShape(slot[s])
    BY DEF Inv, Requests, RequestOK
  <2>5. /\ RequestShape(n) /\ n.pc = "log" /\ n.target = new /\ n.rid = slot[s].rid /\ n.op = slot[s].op
        /\ n.by = slot[s].by /\ n.gone = slot[s].gone
    BY <2>4, TargetWrite
  <2>6. slot' = [slot EXCEPT ![s] = n]
    BY <2>1 DEF WithTarget, Inv, Requests
  <2> HIDE DEF n, new
  <2>7. EntryOf(n) = [Entry(s) EXCEPT !.target = new]
    BY <2>5 DEF EntryOf, Entry
  <2> QED BY <1>1, <2>1, <2>2, <2>3, <2>5, <2>6, <2>7, ChangeOK DEF Inv, Tables, Buried
<1>4. CASE db' = [db EXCEPT !.lastCategory = new] /\ UNCHANGED log /\ Finish(s)
  <2>1. db' = SetLast(db, new)
    BY <1>4 DEF SetLast
  <2>2. /\ DbShape(db') /\ db'.category = db.category /\ db'.lastCategory = new
        /\ db'.account = db.account /\ db'.report = db.report
    BY <2>1, IdDrawn DEF Inv, Tables, SameRows
  <2>3. TreeOK(db'.category, db'.lastCategory, seed'.rows)
    BY <1>1, <2>2, TreeDraw DEF Inv, Tables
  <2>4. Tables' /\ Buried
    BY <1>1, <1>4, <2>2, <2>3 DEF Inv, Tables, Buried
  <2> QED BY <1>1, <1>4, <2>4, FinishSettles, QuietOK
<1> QED BY <1>2, <1>3, <1>4 DEF createCategory

\* The seeder's record.
SetSeedDeleted(x) == [x EXCEPT !.deleted = TRUE]
SetRows(x, rows) == [x EXCEPT !.rows = rows]

LEMMA SeedDeletedWrite ==
  ASSUME NEW x, SeedShape(x), NEW e, e = SetSeedDeleted(x)
  PROVE  SeedShape(e) /\ e.rows = x.rows
BY DEF SeedShape, SetSeedDeleted

LEMMA SeedRowsWrite ==
  ASSUME NEW x, SeedShape(x), NEW rows, NEW e, e = SetRows(x, rows)
  PROVE  SeedShape(e) /\ e.rows = rows
BY DEF SeedShape, SetRows

SetPc(x, pc) == [x EXCEPT !.pc = pc]
SetEntry(x, ids, at, pc) == [x EXCEPT !.ids = ids, !.at = at, !.pc = pc]

LEMMA SeedPcWrite ==
  ASSUME NEW x, SeedShape(x), NEW pc, NEW e, e = SetPc(x, pc)
  PROVE  SeedShape(e) /\ e.rows = x.rows
BY DEF SeedShape, SetPc

LEMMA SeedEntryWrite ==
  ASSUME NEW x, SeedShape(x), NEW ids, NEW at, NEW pc, NEW e, e = SetEntry(x, ids, at, pc)
  PROVE  SeedShape(e) /\ e.rows = x.rows
BY DEF SeedShape, SetEntry

LEMMA SeedResolvedShape ==
  ASSUME NEW c, SeedShape(seed)
  PROVE  SeedShape(SeedResolved(c)) /\ SeedResolved(c).rows = seed.rows
<1> PICK ids, at, pc : /\ ids = Append(seed.ids, c) /\ at = seed.at + 1
                       /\ pc = IF seed.at = Len(Taxonomy) THEN "commit" ELSE "insert"
  OBVIOUS
<1>1. SeedResolved(c) = SetEntry(seed, ids, at, pc)
  BY Zenon DEF SeedResolved, SetEntry
<1> QED BY <1>1, SeedEntryWrite

LEMMA deleteCategoryKeeps == ASSUME Inv, NEW s \in Slots, deleteCategory(s) PROVE Inv'
<1> DEFINE c == slot[s].target
<1>1. /\ slot[s].pc \notin {"idle", "log"} /\ slot[s].op \notin RoleOps \cup TestedOps
      /\ Children(seed.rows, c) = {}
  BY DEF deleteCategory, At, RoleOps, TestedOps
<1>2. CASE c \in DOMAIN db.category /\ ~Restricted(c)
  <2> DEFINE rows == Without(db.category, c)
  <2> PICK body : body = {CategoryNode(c, db.category[c].parent)}
    OBVIOUS
  <2>1. ThenLog(s, body) /\ seed' = SetSeedDeleted(seed)
    BY <1>2 DEF deleteCategory, SetSeedDeleted
  <2>2. PICK n : /\ slot' = [slot EXCEPT ![s] = n] /\ RequestShape(n) /\ n.pc = "log" /\ n.op = slot[s].op
                 /\ n.by = slot[s].by /\ n.target = slot[s].target /\ n.gone = slot[s].gone /\ EntryOf(n) = Entry(s)
    BY <2>1, ThenLogRequest
  <2>3. db' = SetCategory(db, rows) /\ log' = [log EXCEPT !.done = @ \cup {EntryOf(n)}]
    BY <1>2, <2>2 DEF deleteCategory, Changed, SetCategory, Without
  <2>4. /\ DbShape(db') /\ db'.category = rows /\ db'.lastCategory = db.lastCategory
        /\ db'.account = db.account /\ db'.report = db.report
    BY <2>3, CategoryDelete DEF Inv, Tables, SameRows
  <2>5. SeedShape(seed') /\ seed'.rows = seed.rows
    BY <2>1, SeedDeletedWrite DEF Inv, Tables
  <2>6. TreeOK(db'.category, db'.lastCategory, seed'.rows)
    BY <1>1, <1>2, <2>4, <2>5, TreeDelete DEF Inv, Tables, Restricted
  <2> QED BY <1>1, <2>2, <2>3, <2>4, <2>5, <2>6, ChangeOK DEF Inv, Tables, Buried
<1>3. CASE ~(c \in DOMAIN db.category /\ ~Restricted(c))
  <2>1. UNCHANGED <<db, log, seed>> /\ Finish(s)
    BY <1>3 DEF deleteCategory
  <2> QED BY <1>1, <2>1, ReaderKeeps
<1> QED BY <1>2, <1>3

-----------------------------------------------------------------------------
(* The seeder *)

LEMMA SeedRollbackKeeps == ASSUME Inv, SeedRollback PROVE Inv'
<1>1. SeedShape(seed') /\ seed'.rows = << >> /\ UNCHANGED <<db, log, slot>>
  BY DEF SeedRollback, NoSeed, SeedShape
<1>2. Tables' /\ Buried
  BY <1>1, TreeRollback DEF Inv, Tables, Buried
<1> QED BY <1>1, <1>2, SilentOK

LEMMA runProdSeedKeeps == ASSUME Inv, runProdSeed PROVE Inv'
<1>1. SeedShape(seed') /\ seed'.rows = << >> /\ UNCHANGED <<db, log, slot>>
  BY DEF runProdSeed, NoSeed, SeedShape
<1>2. Tables' /\ Buried
  BY <1>1, TreeRollback DEF Inv, Tables, Buried
<1> QED BY <1>1, <1>2, SilentOK

LEMMA SeedInsertKeeps == ASSUME Inv, SeedInsert PROVE Inv'
<1> DEFINE name == Taxonomy[seed.at].name
           new == db.lastCategory + 1
<1>0. SeedShape(seed) /\ DbShape(db) /\ TreeOK(db.category, db.lastCategory, seed.rows)
  BY DEF Inv, Tables
<1>1. CASE seed' = [seed EXCEPT !.pc = "select"] /\ UNCHANGED <<db, log, slot, left>>
  <2>1. seed' = SetPc(seed, "select")
    BY <1>1 DEF SetPc
  <2>2. SeedShape(seed') /\ seed'.rows = seed.rows
    BY <1>0, <2>1, SeedPcWrite
  <2>3. Tables' /\ Buried
    BY <1>0, <1>1, <2>2 DEF Inv, Tables, Buried
  <2> QED BY <1>1, <2>3, SilentOK
<1>2. CASE /\ InConflict(name, SeedParent) = {} /\ SeedParent \in DOMAIN SeedView \cup {Null}
           /\ db' = [db EXCEPT !.lastCategory = new]
           /\ seed' = [SeedResolved(new) EXCEPT !.rows = InsertRow(@, new, name, SeedParent)]
           /\ UNCHANGED <<log, slot, left>>
  <2> PICK parent, rows : parent = SeedParent /\ rows = InsertRow(seed.rows, new, name, parent)
    OBVIOUS
  <2>1. db' = SetLast(db, new) /\ UNCHANGED <<log, slot>>
    BY <1>2 DEF SetLast
  <2>2. /\ DbShape(db') /\ db'.category = db.category /\ db'.lastCategory = new
        /\ db'.account = db.account /\ db'.report = db.report
    BY <1>0, <2>1, IdDrawn DEF SameRows
  <2>3. SeedView = View(db.category, seed.rows)
    BY DEF SeedView, View
  <2>4. Siblings(View(db.category, seed.rows), name, parent) = {}
        /\ parent \in DOMAIN db.category \cup DOMAIN seed.rows \cup {Null}
    BY <1>2, <2>3 DEF InConflict, View
  <2>5. TreeOK(db.category, new, rows)
    BY <1>0, <2>4, TreeSeedInsert
  <2>6. SeedShape(SeedResolved(new)) /\ SeedResolved(new).rows = seed.rows
    BY <1>0, SeedResolvedShape
  <2>7. seed' = SetRows(SeedResolved(new), rows)
    BY <1>2, <2>6 DEF SetRows
  <2>8. SeedShape(seed') /\ seed'.rows = rows
    BY <2>6, <2>7, SeedRowsWrite
  <2>9. Tables' /\ Buried
    BY <2>1, <2>2, <2>5, <2>8 DEF Inv, Tables, Buried
  <2> QED BY <2>1, <2>9, SilentOK
<1>3. CASE SeedRollback
  BY <1>3, SeedRollbackKeeps
<1> QED BY <1>1, <1>2, <1>3 DEF SeedInsert

LEMMA SeedSelectKeeps == ASSUME Inv, SeedSelect PROVE Inv'
<1>1. CASE SeedRollback
  BY <1>1, SeedRollbackKeeps
<1>2. ASSUME NEW c, seed' = SeedResolved(c), UNCHANGED <<db, log, slot, left>> PROVE Inv'
  <2>1. SeedShape(seed') /\ seed'.rows = seed.rows
    BY <1>2, SeedResolvedShape DEF Inv, Tables
  <2>2. Tables' /\ Buried
    BY <1>2, <2>1 DEF Inv, Tables, Buried
  <2> QED BY <1>2, <2>2, SilentOK
<1> QED BY <1>1, <1>2 DEF SeedSelect

LEMMA SeedCommitKeeps == ASSUME Inv, SeedCommit PROVE Inv'
<1> PICK view : view = View(db.category, seed.rows)
  OBVIOUS
<1>1. db' = SetCategory(db, view) /\ UNCHANGED <<log, slot>>
  BY DEF SeedCommit, SetCategory, SeedView, View
<1>2. SeedShape(seed') /\ seed'.rows = << >>
  BY DEF SeedCommit, NoSeed, SeedShape
<1>3. /\ DbShape(db') /\ db'.category = view /\ db'.lastCategory = db.lastCategory
      /\ db'.account = db.account /\ db'.report = db.report
  BY <1>1, CategoryDelete DEF Inv, Tables, SameRows
<1>4. TreeOK(view, db.lastCategory, << >>)
  BY TreeCommit DEF Inv, Tables
<1>5. Tables' /\ Buried
  BY <1>1, <1>2, <1>3, <1>4 DEF Inv, Tables, Buried
<1> QED BY <1>1, <1>5, SilentOK

-----------------------------------------------------------------------------
(* The theorems *)

LEMMA InitInv == Init => Inv
<1> SUFFICES ASSUME Init PROVE Inv
  OBVIOUS
<1>1. DbShape(db) /\ db.category = << >> /\ db.lastCategory = 0 /\ db.report = <<>>
      /\ db.account = [u \in Users |-> [deleted |-> FALSE, admin |-> u \in Admins]]
  BY DEF Init, EmptyDb, DbShape
<1>2. SeedShape(seed) /\ seed.rows = << >>
  BY DEF Init, NoSeed, SeedShape
<1>3. LogShape(log) /\ log.audit = {} /\ log.done = {}
  BY DEF Init, LogShape
<1>4. TreeOK(db.category, db.lastCategory, seed.rows)
  BY <1>1, <1>2 DEF TreeOK
<1>5. db.account \in [Users -> [deleted: BOOLEAN, admin: BOOLEAN]] /\ db.report \in Seq(Report)
  BY <1>1
<1>6. Requests
  BY IdleOK DEF Init, Requests
<1> QED BY <1>1, <1>2, <1>3, <1>4, <1>5, <1>6 DEF Inv, Tables, AuditTrail, RoleTargets

LEMMA InvStep == Inv /\ [Next]_vars => Inv'
<1> SUFFICES ASSUME Inv, [Next]_vars PROVE Inv'
  OBVIOUS
<1>1. ASSUME UNCHANGED vars PROVE Inv'
  BY <1>1, NothingWritten, SilentOK DEF vars
<1>2. ASSUME NEW s \in Slots, Arrivals(s) PROVE Inv'
  BY <1>2, ArrivalKeeps
<1>3. ASSUME NEW s \in Slots, assertUserExists(s) \/ RoleBefore(s) PROVE Inv'
  BY <1>3, assertUserExistsKeeps, RoleBeforeKeeps
<1>4. ASSUME NEW s \in Slots, Query(s) PROVE Inv'
  BY <1>4, RoleWriteKeeps, updateUserKeeps, createReportKeeps, createWarningKeeps, updateReportStatusKeeps,
     ReadersKeep, rateUserKeeps, SummaryKeeps, FavoritesKeep, unblockUserKeeps, createCategoryKeeps,
     deleteCategoryKeeps DEF Query
<1>5. ASSUME NEW s \in Slots, logAdminAction(s) PROVE Inv'
  BY <1>5, logAdminActionKeeps
<1>6. ASSUME NEW s \in Slots, Fail(s) \/ (\E e \in EntityTypes : resolve(s, e)) \/ expand(s) \/ Send(s) PROVE Inv'
  BY <1>6, InterceptorKeeps
<1>7. ASSUME NEW p \in Products, deleteProduct(p) PROVE Inv'
  BY <1>7, deleteProductKeeps
<1>8. ASSUME runProdSeed \/ SeedInsert \/ SeedSelect \/ SeedCommit \/ SeedCrash PROVE Inv'
  BY <1>8, runProdSeedKeeps, SeedInsertKeeps, SeedSelectKeeps, SeedCommitKeeps, SeedRollbackKeeps DEF SeedCrash
<1> QED BY <1>1, <1>2, <1>3, <1>4, <1>5, <1>6, <1>7, <1>8 DEF Next

\* The inductive invariant of the back office.
THEOREM BackOfficeInvariant == Spec => []Inv
BY InitInv, InvStep, PTL DEF Spec

\* The audit log has a row for every change whose INSERT did not fail, and none
\* for nothing but the role of an account that was deleted in between.
THEOREM AuditIsComplete == Spec => []AuditTrail
<1>1. Inv => AuditTrail
  BY DEF Inv
<1> QED BY <1>1, BackOfficeInvariant, PTL

\* Whatever createCategory, deleteCategory and the seeder interleave, every
\* parent exists and siblings have different names.
THEOREM TreeStaysWhole == Spec => []CategoryTree
<1>1. Inv => CategoryTree
  BY DEF Inv, Tables, TreeOK, CategoryTree
<1> QED BY <1>1, BackOfficeInvariant, PTL

\* The rows about an account change only in the three tested INSERTs.
LEMMA RowsStay ==
  ASSUME NEW u, SameRows(db, db')
  PROVE  RowsAbout(u)' = RowsAbout(u)
BY DEF SameRows, RowsAbout, RatingsOf

LEMMA QueryKeepsRows ==
  ASSUME Inv, NEW s \in Slots, Query(s), NEW u \in Users,
         ~(createReport(s) \/ createWarning(s) \/ rateUser(s))
  PROVE  RowsAbout(u)' = RowsAbout(u)
<1>0. DbShape(db)
  BY DEF Inv, Tables
<1>1. ASSUME UNCHANGED db PROVE SameRows(db, db')
  BY <1>1 DEF SameRows
<1>2. ASSUME RoleWrite(s) \/ updateUser(s) PROVE SameRows(db, db')
  <2>1. UNCHANGED db \/ \E v : db' = SetAccount(db, v)
    BY <1>2 DEF RoleWrite, updateUser, SetAccount
  <2> QED BY <1>0, <1>1, <2>1, AccountWrite
<1>3. ASSUME addFavorite(s) \/ removeFavorite(s) \/ blockUser(s) \/ unblockUser(s) PROVE SameRows(db, db')
  <2>1. UNCHANGED db \/ (\E v : db' = SetFavorite(db, v)) \/ (\E v : db' = SetBlock(db, v))
    BY <1>3 DEF addFavorite, removeFavorite, blockUser, unblockUser, SetFavorite, SetBlock
  <2> QED BY <1>0, <1>1, <2>1, OtherWrite
<1>4. ASSUME listReports(s) \/ getMyReports(s) \/ getUserRatingSummary(s) \/ listFavorites(s) \/ otherResponses(s)
      PROVE  SameRows(db, db')
  <2>1. UNCHANGED db
    BY <1>4 DEF listReports, getMyReports, getUserRatingSummary, listFavorites, otherResponses
  <2> QED BY <1>1, <2>1
<1>5. ASSUME createCategory(s) PROVE SameRows(db, db')
  <2>1. UNCHANGED db \/ (\E n, v : db' = SetCategories(db, n, v)) \/ (\E n : db' = SetLast(db, n))
    BY <1>5 DEF createCategory, SetCategories, SetLast
  <2> QED BY <1>0, <1>1, <2>1, CategoryWrite, IdDrawn
<1>6. ASSUME deleteCategory(s) PROVE SameRows(db, db')
  <2>1. UNCHANGED db \/ db' = SetCategory(db, Without(db.category, slot[s].target))
    BY <1>6 DEF deleteCategory, SetCategory, Without
  <2> QED BY <1>0, <1>1, <2>1, CategoryDelete
<1>7. ASSUME updateReportStatus(s) PROVE RowsAbout(u)' = RowsAbout(u)
  <2> DEFINE i == slot[s].target
  <2>1. CASE i \in DOMAIN db.report
    <3>1. slot[s].by \in Users /\ db.report \in Seq(Report)
      BY <1>7 DEF updateReportStatus, At, Inv, Tables, Requests, RequestOK
    <3> PICK v : v = [db.report EXCEPT ![i] = Reviewed(db.report[i], slot[s].by)]
      OBVIOUS
    <3>2. DOMAIN v = DOMAIN db.report /\ \A j \in DOMAIN v : v[j].reported = db.report[j].reported
      BY <2>1, <3>1, ReportsReviewed
    <3>3. db' = SetReport(db, v)
      BY <1>7, <2>1, <3>1 DEF updateReportStatus, SetReport, Reviewed
    <3>4. db'.report = v /\ db'.rating = db.rating /\ db'.warning = db.warning
      BY <1>0, <3>3, ReportWrite
    <3> QED BY <3>2, <3>4 DEF RowsAbout, RatingsOf
  <2>2. CASE i \notin DOMAIN db.report
    BY <1>1, <1>7, <2>2, RowsStay DEF updateReportStatus
  <2> QED BY <2>1, <2>2
<1> QED BY <1>2, <1>3, <1>4, <1>5, <1>6, <1>7, RowsStay DEF Query

LEMMA OthersKeepRows ==
  ASSUME Inv, Next, ~\E s \in Slots : Query(s), NEW u \in Users
  PROVE  RowsAbout(u)' = RowsAbout(u)
<1>0. DbShape(db)
  BY DEF Inv, Tables
<1>1. ASSUME UNCHANGED db PROVE SameRows(db, db')
  BY <1>1 DEF SameRows
<1>2. ASSUME NEW s \in Slots, \/ Arrivals(s) \/ assertUserExists(s) \/ RoleBefore(s)
                              \/ logAdminAction(s) \/ Fail(s) \/ (\E e \in EntityTypes : resolve(s, e))
                              \/ expand(s) \/ Send(s)
      PROVE  SameRows(db, db')
  <2>1. UNCHANGED db
    BY <1>2 DEF Arrivals, Arrive, assertUserExists, RoleBefore, logAdminAction, Fail, resolve, expand, Send
  <2> QED BY <1>1, <2>1
<1>3. ASSUME NEW p \in Products, deleteProduct(p) PROVE SameRows(db, db')
  <2>1. \E v : db' = SetDeleted(db, v)
    BY <1>3 DEF deleteProduct, SetDeleted
  <2> QED BY <1>0, <2>1, OtherWrite
<1>4. ASSUME runProdSeed \/ SeedInsert \/ SeedSelect \/ SeedCommit \/ SeedCrash PROVE SameRows(db, db')
  <2>1. UNCHANGED db \/ (\E n : db' = SetLast(db, n)) \/ (\E v : db' = SetCategory(db, v))
    BY <1>4 DEF runProdSeed, SeedInsert, SeedSelect, SeedCommit, SeedCrash, SeedRollback, SetLast, SetCategory
  <2> QED BY <1>0, <1>1, <2>1, CategoryDelete, IdDrawn
<1> QED BY <1>2, <1>3, <1>4, RowsStay DEF Next

\* The INSERT of a report, a warning or a rating: about its own target, which
\* was there when the request arrived.
LEMMA InsertIsTimely ==
  ASSUME Inv, NEW s \in Slots, createReport(s) \/ createWarning(s) \/ rateUser(s),
         NEW u \in Users, RowsAbout(u)' # RowsAbout(u)
  PROVE  slot[s].target = u /\ u \notin slot[s].gone
<1>0. /\ RequestOK(slot[s], log.done, db.account) /\ DbShape(db) /\ db.report \in Seq(Report)
      /\ slot[s].op \in TestedOps /\ slot[s].pc = "query"
  BY DEF Inv, Tables, Requests, createReport, createWarning, rateUser, At, TestedOps
<1>1. slot[s].target \notin slot[s].gone /\ slot[s].target \in Users
  BY <1>0 DEF RequestOK
<1>2. ASSUME slot[s].target # u PROVE FALSE
  <2>1. CASE createReport(s)
    <3> PICK r : r = [reporter |-> slot[s].by, reported |-> slot[s].target, status |-> "open", reviewer |-> Null]
      OBVIOUS
    <3>1. r.reported # u
      BY <1>2
    <3>2. db' = SetReport(db, Filed(db.report, r))
      BY <2>1 DEF createReport, SetReport, Filed
    <3>3. db'.report = Filed(db.report, r) /\ db'.rating = db.rating /\ db'.warning = db.warning
      BY <1>0, <3>2, ReportWrite
    <3>4. r \in Report
      BY <1>0, <1>1 DEF RequestOK, Report
    <3>5. Reported(Filed(db.report, r), u) = Reported(db.report, u)
      BY <1>0, <3>1, <3>4, FiledRows
    <3> QED BY <3>3, <3>5 DEF RowsAbout, RatingsOf, Reported
  <2>2. CASE createWarning(s)
    <3> PICK v : v = [db.warning EXCEPT ![slot[s].target] = @ + 1]
      OBVIOUS
    <3>1. db' = SetWarning(db, v)
      BY <2>2 DEF createWarning, SetWarning
    <3>2. db'.warning = v /\ db'.report = db.report /\ db'.rating = db.rating
      BY <1>0, <3>1, WarningWrite
    <3>3. v[u] = db.warning[u]
      BY <1>2
    <3> QED BY <1>2, <3>2, <3>3 DEF RowsAbout, RatingsOf
  <2>3. CASE rateUser(s)
    <3> PICK v : v = db.rating \cup {<<slot[s].by, slot[s].target>>}
      OBVIOUS
    <3>1. db' = SetRating(db, v)
      BY <2>3 DEF rateUser, SetRating
    <3>2. db'.rating = v /\ db'.report = db.report /\ db'.warning = db.warning
      BY <1>0, <3>1, RatingWrite
    <3>3. {r \in v : r[2] = u} = {r \in db.rating : r[2] = u}
      BY <1>2
    <3> QED BY <1>2, <3>2, <3>3 DEF RowsAbout, RatingsOf
  <2> QED BY <2>1, <2>2, <2>3
<1> QED BY <1>1, <1>2

\* A report, a warning or a rating about a deleted account is only written by a
\* request that arrived before the deletion.
THEOREM TargetsAreTimely == Spec => NoLateTargets
<1>1. Inv /\ [Next]_vars =>
        [\A u \in Users : RowsAbout(u)' # RowsAbout(u) =>
           \E s \in Slots : slot[s].target = u /\ u \notin slot[s].gone]_vars
  BY QueryKeepsRows, OthersKeepRows, InsertIsTimely
<1> QED BY <1>1, BackOfficeInvariant, PTL DEF Spec, NoLateTargets
-----------------------------------------------------------------------------
(* The taxonomy in what the seeder sees *)

\* Entry i of the taxonomy stands in the rows v at c, under the parent it names.
Placed(i, c, v) ==
  /\ c \in DOMAIN v /\ v[c].name = Taxonomy[i].name
  /\ IF Taxonomy[i].parent = NoName THEN v[c].parent = Null
     ELSE v[c].parent # Null /\ v[c].parent \in DOMAIN v /\ v[v[c].parent].name = Taxonomy[i].parent

\* The entries before the current one are resolved; unless an admin deleted a
\* category they are still where the seeder found or put them.
SeedOK(x, v) ==
  x.pc \in {"insert", "select", "commit"} =>
    /\ x.ids \in Seq(Nat) /\ x.at = Len(x.ids) + 1
    /\ IF x.pc = "commit" THEN Len(x.ids) = Len(Taxonomy) ELSE x.at \in DOMAIN Taxonomy
    /\ ~x.deleted => \A i \in DOMAIN x.ids : Placed(i, x.ids[i], v)

TaxonomySeen == SeedOK(seed, SeedView)

Extends(v, w) == DOMAIN v \subseteq DOMAIN w /\ \A c \in DOMAIN v : w[c] = v[c]

LEMMA PlacedStays == ASSUME NEW v, NEW w, Extends(v, w), NEW i, NEW c, Placed(i, c, v) PROVE Placed(i, c, w)
BY DEF Placed, Extends

LEMMA SeedOKStays ==
  ASSUME NEW x, NEW v, NEW w, SeedOK(x, v), Extends(v, w) PROVE SeedOK(x, w)
BY PlacedStays DEF SeedOK

LEMMA TaxonomyType == DOMAIN Taxonomy = 1..Len(Taxonomy) /\ Len(Taxonomy) \in Nat
<1>1. Taxonomy \in Seq([name: Names, parent: Names \cup {NoName}])
  BY DataAssumption
<1>2. DOMAIN Taxonomy = 1..Len(Taxonomy)
  BY <1>1
<1>3. Len(Taxonomy) \in Nat
  BY <1>1
<1> QED BY <1>2, <1>3

\* A row inserted with a fresh id, by createCategory or by the seeder.
LEMMA ViewExtended ==
  ASSUME NEW cat, NEW last, NEW rows, TreeOK(cat, last, rows), NEW name, NEW parent
  PROVE  /\ Extends(View(cat, rows), View(InsertRow(cat, last + 1, name, parent), rows))
         /\ Extends(View(cat, rows), View(cat, InsertRow(rows, last + 1, name, parent)))
         /\ View(cat, InsertRow(rows, last + 1, name, parent))[last + 1] = [name |-> name, parent |-> parent]
         /\ last + 1 \in DOMAIN View(cat, InsertRow(rows, last + 1, name, parent))
<1>1. last + 1 \notin DOMAIN cat /\ last + 1 \notin DOMAIN rows
  BY DEF TreeOK
<1> QED BY <1>1 DEF Extends, View, InsertRow

\* The parent the seeder inserts under, or looks for, is the one entry at names.
LEMMA SeedParentPlaced ==
  ASSUME SeedOK(seed, SeedView), seed.pc \in {"insert", "select"}, ~seed.deleted
  PROVE  IF Taxonomy[seed.at].parent = NoName THEN SeedParent = Null
         ELSE SeedParent \in DOMAIN SeedView /\ SeedView[SeedParent].name = Taxonomy[seed.at].parent
<1> DEFINE top == [name |-> Taxonomy[seed.at].parent, parent |-> NoName]
<1>1. CASE Taxonomy[seed.at].parent = NoName
  BY <1>1 DEF SeedParent
<1>2. CASE Taxonomy[seed.at].parent # NoName
  <2>1. seed.at \in DOMAIN Taxonomy /\ seed.ids \in Seq(Nat) /\ seed.at = Len(seed.ids) + 1
        /\ \A i \in DOMAIN seed.ids : Placed(i, seed.ids[i], SeedView)
    BY DEF SeedOK
  <2>2. \E j \in 1..(seed.at - 1) : Taxonomy[j] = top
    BY <1>2, <2>1, TaxonomyAssumption
  <2> PICK j : j = CHOOSE i \in 1..(seed.at - 1) : Taxonomy[i] = top
    OBVIOUS
  <2>3. j \in 1..(seed.at - 1) /\ Taxonomy[j] = top
    BY <2>2
  <2>4. j \in DOMAIN seed.ids
    <3> PICK ids : ids = seed.ids
      OBVIOUS
    <3>1. ids \in Seq(Nat) /\ seed.at = Len(ids) + 1
      BY <2>1
    <3>2. Len(ids) \in Nat
      BY <3>1
    <3>3. j \in 1..Len(ids)
      BY <2>3, <3>1, <3>2
    <3> QED BY <3>1, <3>3
  <2>5. SeedParent = seed.ids[j]
    BY <1>2 DEF SeedParent
  <2>6. Placed(j, seed.ids[j], SeedView)
    BY <2>1, <2>4
  <2>7. Taxonomy[j].name = Taxonomy[seed.at].parent
    BY <2>3
  <2> QED BY <1>2, <2>5, <2>6, <2>7 DEF Placed
<1> QED BY <1>1, <1>2

\* The row of the current entry, inserted or found.
LEMMA EntryPlaced ==
  ASSUME SeedOK(seed, SeedView), seed.pc \in {"insert", "select"}, ~seed.deleted,
         NEW w, Extends(SeedView, w), DOMAIN SeedView \subseteq Nat \ {0}, NEW c \in DOMAIN w,
         w[c] = [name |-> Taxonomy[seed.at].name, parent |-> SeedParent]
  PROVE  Placed(seed.at, c, w)
<1>1. w[c].name = Taxonomy[seed.at].name /\ w[c].parent = SeedParent
  OBVIOUS
<1>2. CASE Taxonomy[seed.at].parent = NoName
  BY <1>1, <1>2, SeedParentPlaced DEF Placed
<1>3. CASE Taxonomy[seed.at].parent # NoName
  <2>1. SeedParent \in DOMAIN SeedView /\ SeedView[SeedParent].name = Taxonomy[seed.at].parent
    BY <1>3, SeedParentPlaced
  <2>2. SeedParent # Null /\ SeedParent \in DOMAIN w /\ w[SeedParent] = SeedView[SeedParent]
    BY <2>1 DEF Extends, Null
  <2> QED BY <1>1, <1>3, <2>1, <2>2 DEF Placed
<1> QED BY <1>2, <1>3

\* An entry is resolved: the seeder goes on to the next, or to the COMMIT.
LEMMA ResolvedOK ==
  ASSUME SeedShape(seed), SeedOK(seed, SeedView), seed.pc \in {"insert", "select"},
         NEW w, Extends(SeedView, w), NEW c \in Nat, ~seed.deleted => Placed(seed.at, c, w),
         NEW x, x.ids = SeedResolved(c).ids, x.at = SeedResolved(c).at, x.pc = SeedResolved(c).pc,
         x.deleted = seed.deleted
  PROVE  SeedOK(x, w)
<1>1. /\ x.ids = Append(seed.ids, c) /\ x.at = seed.at + 1
      /\ x.pc = IF seed.at = Len(Taxonomy) THEN "commit" ELSE "insert"
  BY DEF SeedResolved, SeedShape
<1>2. /\ seed.ids \in Seq(Nat) /\ seed.at = Len(seed.ids) + 1 /\ seed.at \in DOMAIN Taxonomy
      /\ ~seed.deleted => \A i \in DOMAIN seed.ids : Placed(i, seed.ids[i], w)
  BY PlacedStays DEF SeedOK
<1>3. /\ x.ids \in Seq(Nat) /\ Len(x.ids) = seed.at /\ DOMAIN x.ids = 1..seed.at
      /\ x.ids[seed.at] = c /\ \A i \in DOMAIN seed.ids : x.ids[i] = seed.ids[i]
      /\ \A i \in DOMAIN x.ids : i = seed.at \/ i \in DOMAIN seed.ids
  BY <1>1, <1>2
<1>4. IF x.pc = "commit" THEN Len(x.ids) = Len(Taxonomy) ELSE x.at \in DOMAIN Taxonomy
  <2>1. seed.at \in 1..Len(Taxonomy) /\ Len(Taxonomy) \in Nat /\ Len(x.ids) = seed.at
    BY <1>2, <1>3, TaxonomyType
  <2>2. x.at = seed.at + 1 /\ x.pc = IF seed.at = Len(Taxonomy) THEN "commit" ELSE "insert"
    BY <1>1
  <2> QED BY <2>1, <2>2, TaxonomyType
<1>5. ~x.deleted => \A i \in DOMAIN x.ids : Placed(i, x.ids[i], w)
  BY <1>2, <1>3
<1> QED BY <1>1, <1>2, <1>3, <1>4, <1>5 DEF SeedOK

\* Nothing that the seeder sees or has resolved is touched.
LEMMA SeedUntouched ==
  ASSUME TaxonomySeen, UNCHANGED seed, db'.category = db.category
  PROVE  TaxonomySeen'
<1>1. SeedView' = SeedView
  BY DEF SeedView
<1> QED BY <1>1 DEF TaxonomySeen, SeedOK

LEMMA QueryKeepsTaxonomy == ASSUME Inv, TaxonomySeen, NEW s \in Slots, Query(s) PROVE TaxonomySeen'
<1>0. DbShape(db) /\ SeedShape(seed) /\ TreeOK(db.category, db.lastCategory, seed.rows)
  BY DEF Inv, Tables
<1>1. ASSUME UNCHANGED seed, SameTree(db, db') \/ UNCHANGED db PROVE TaxonomySeen'
  BY <1>1, SeedUntouched DEF SameTree
<1>2. ASSUME RoleWrite(s) \/ updateUser(s) PROVE TaxonomySeen'
  <2>1. UNCHANGED seed /\ (UNCHANGED db \/ \E v : db' = SetAccount(db, v))
    BY <1>2 DEF RoleWrite, updateUser, SetAccount
  <2> QED BY <1>0, <1>1, <2>1, AccountWrite
<1>3. ASSUME createReport(s) \/ updateReportStatus(s) PROVE TaxonomySeen'
  <2>1. UNCHANGED seed /\ (UNCHANGED db \/ \E v : db' = SetReport(db, v))
    <3>1. CASE createReport(s)
      BY <3>1 DEF createReport, SetReport
    <3>2. CASE updateReportStatus(s)
      <4> PICK v : v = [db.report EXCEPT ![slot[s].target].status = "resolved", ![slot[s].target].reviewer = slot[s].by]
        OBVIOUS
      <4>1. slot[s].target \in DOMAIN db.report => db' = SetReport(db, v)
        BY <3>2, <1>0 DEF updateReportStatus, SetReport
      <4> QED BY <3>2, <4>1 DEF updateReportStatus
    <3> QED BY <1>3, <3>1, <3>2
  <2> QED BY <1>0, <1>1, <2>1, ReportWrite
<1>4. ASSUME createWarning(s) PROVE TaxonomySeen'
  <2> PICK v : v = [db.warning EXCEPT ![slot[s].target] = @ + 1]
    OBVIOUS
  <2>1. UNCHANGED seed /\ db' = SetWarning(db, v)
    BY <1>4 DEF createWarning, SetWarning
  <2> QED BY <1>0, <1>1, <2>1, WarningWrite
<1>5. ASSUME rateUser(s) PROVE TaxonomySeen'
  <2>1. UNCHANGED seed /\ \E v : db' = SetRating(db, v)
    BY <1>5 DEF rateUser, SetRating
  <2> QED BY <1>0, <1>1, <2>1, RatingWrite
<1>6. ASSUME addFavorite(s) \/ removeFavorite(s) \/ blockUser(s) \/ unblockUser(s) PROVE TaxonomySeen'
  <2>1. UNCHANGED seed /\ (UNCHANGED db \/ (\E v : db' = SetFavorite(db, v)) \/ (\E v : db' = SetBlock(db, v)))
    BY <1>6 DEF addFavorite, removeFavorite, blockUser, unblockUser, SetFavorite, SetBlock
  <2> QED BY <1>0, <1>1, <2>1, OtherWrite
<1>7. ASSUME listReports(s) \/ getMyReports(s) \/ getUserRatingSummary(s) \/ listFavorites(s) \/ otherResponses(s) PROVE TaxonomySeen'
  BY <1>1, <1>7 DEF listReports, getMyReports, getUserRatingSummary, listFavorites, otherResponses
<1>8. ASSUME createCategory(s) PROVE TaxonomySeen'
  <2> DEFINE name == slot[s].arg
             parent == slot[s].parent
             rows == InsertRow(db.category, db.lastCategory + 1, name, parent)
  <2>1. UNCHANGED seed
    BY <1>8 DEF createCategory
  <2>2. \/ UNCHANGED db \/ \E n : db' = SetLast(db, n)
        \/ db' = SetCategories(db, db.lastCategory + 1, rows)
    BY <1>8 DEF createCategory, SetCategories, SetLast
  <2>3. CASE UNCHANGED db \/ \E n : db' = SetLast(db, n)
    BY <1>0, <2>1, <2>3, IdDrawn, SeedUntouched
  <2>4. CASE db' = SetCategories(db, db.lastCategory + 1, rows)
    <3>1. db'.category = rows
      BY <1>0, <2>4, CategoryWrite
    <3>2. SeedView = View(db.category, seed.rows) /\ SeedView' = View(rows, seed.rows)
      BY <2>1, <3>1 DEF SeedView, View
    <3>3. Extends(SeedView, SeedView')
      BY <1>0, <3>2, ViewExtended
    <3> QED BY <2>1, <3>3, SeedOKStays DEF TaxonomySeen
  <2> QED BY <2>2, <2>3, <2>4
<1>9. ASSUME deleteCategory(s) PROVE TaxonomySeen'
  <2>1. CASE UNCHANGED <<db, seed>>
    BY <1>1, <2>1
  <2>2. CASE seed' = SetSeedDeleted(seed)
    <3>1. seed'.pc = seed.pc /\ seed'.at = seed.at /\ seed'.ids = seed.ids /\ seed'.deleted
      BY <1>0, <2>2 DEF SeedShape, SetSeedDeleted
    <3> QED BY <3>1 DEF TaxonomySeen, SeedOK
  <2> QED BY <1>9, <2>1, <2>2 DEF deleteCategory, SetSeedDeleted
<1> QED BY <1>2, <1>3, <1>4, <1>5, <1>6, <1>7, <1>8, <1>9 DEF Query

LEMMA SeedRestarts == ASSUME runProdSeed \/ SeedRollback \/ SeedCommit PROVE TaxonomySeen'
<1>1. CASE runProdSeed
  <2>1. seed'.pc = "insert" /\ seed'.at = 1 /\ seed'.ids = <<>>
    BY <1>1 DEF runProdSeed, NoSeed
  <2>2. 1 \in DOMAIN Taxonomy
    BY <1>1, DataAssumption DEF runProdSeed
  <2> QED BY <2>1, <2>2 DEF TaxonomySeen, SeedOK
<1>2. CASE SeedRollback \/ SeedCommit
  <2>1. seed'.pc \in {"failed", "done"}
    BY <1>2 DEF SeedRollback, SeedCommit, NoSeed
  <2> QED BY <2>1 DEF TaxonomySeen, SeedOK
<1> QED BY <1>1, <1>2

LEMMA SeedInsertKeepsTaxonomy == ASSUME Inv, TaxonomySeen, SeedInsert PROVE TaxonomySeen'
<1> DEFINE name == Taxonomy[seed.at].name
           new == db.lastCategory + 1
<1>0. /\ SeedShape(seed) /\ DbShape(db) /\ TreeOK(db.category, db.lastCategory, seed.rows) /\ seed.pc = "insert"
      /\ SeedView = View(db.category, seed.rows) /\ SeedOK(seed, SeedView)
  BY DEF Inv, Tables, SeedInsert, SeedView, View, TaxonomySeen
<1>1. CASE seed' = SetPc(seed, "select") /\ UNCHANGED db
  <2>1. seed'.pc = "select" /\ seed'.at = seed.at /\ seed'.ids = seed.ids /\ seed'.deleted = seed.deleted
        /\ seed'.rows = seed.rows
    BY <1>0, <1>1 DEF SetPc, SeedShape
  <2>2. SeedView' = SeedView
    BY <1>1, <2>1 DEF SeedView
  <2> QED BY <1>0, <2>1, <2>2 DEF TaxonomySeen, SeedOK
<1>2. CASE /\ db' = SetLast(db, new)
           /\ seed' = SetRows(SeedResolved(new), InsertRow(SeedResolved(new).rows, new, name, SeedParent))
  <2> PICK parent, rows : parent = SeedParent /\ rows = InsertRow(seed.rows, new, name, parent)
    OBVIOUS
  <2>1. SeedShape(SeedResolved(new)) /\ SeedResolved(new).rows = seed.rows
    BY <1>0, SeedResolvedShape
  <2>2. /\ seed'.ids = SeedResolved(new).ids /\ seed'.at = SeedResolved(new).at /\ seed'.pc = SeedResolved(new).pc
        /\ seed'.deleted = SeedResolved(new).deleted /\ seed'.rows = rows
    BY <1>2, <2>1 DEF SeedShape, SetRows
  <2>3. SeedResolved(new).deleted = seed.deleted
    BY <1>0 DEF SeedResolved, SeedShape
  <2>4. SeedView' = View(db.category, rows)
    <3>1. db'.category = db.category
      BY <1>0, <1>2, IdDrawn
    <3> QED BY <2>2, <3>1 DEF SeedView, View
  <2>5. /\ Extends(SeedView, SeedView') /\ new \in DOMAIN SeedView'
        /\ SeedView'[new] = [name |-> name, parent |-> parent]
    BY <1>0, <2>4, ViewExtended
  <2>6. DOMAIN SeedView \subseteq Nat \ {0} /\ new \in Nat
    BY <1>0 DEF View, TreeOK
  <2>7. ~seed.deleted => Placed(seed.at, new, SeedView')
    BY <1>0, <2>5, <2>6, EntryPlaced
  <2>8. seed.pc \in {"insert", "select"}
    BY <1>0
  <2> HIDE DEF new
  <2>9. SeedOK(seed', SeedView')
    BY <1>0, <2>2, <2>3, <2>5, <2>6, <2>7, <2>8, ResolvedOK
  <2> QED BY <2>9 DEF TaxonomySeen
<1>3. CASE SeedRollback
  BY <1>3, SeedRestarts
<1> QED BY <1>1, <1>2, <1>3 DEF SeedInsert, SetPc, SetLast, SetRows

LEMMA SeedSelectKeepsTaxonomy == ASSUME Inv, TaxonomySeen, SeedSelect PROVE TaxonomySeen'
<1>0. /\ SeedShape(seed) /\ DbShape(db) /\ TreeOK(db.category, db.lastCategory, seed.rows) /\ seed.pc = "select"
      /\ SeedView = View(db.category, seed.rows) /\ SeedOK(seed, SeedView)
  BY DEF Inv, Tables, SeedSelect, SeedView, View, TaxonomySeen
<1>1. CASE SeedRollback
  BY <1>1, SeedRestarts
<1>2. ASSUME NEW c \in InConflict(Taxonomy[seed.at].name, SeedParent), seed' = SeedResolved(c), UNCHANGED db
      PROVE  TaxonomySeen'
  <2>1. /\ c \in DOMAIN SeedView /\ SeedView[c] = [name |-> Taxonomy[seed.at].name, parent |-> SeedParent]
        /\ DOMAIN SeedView \subseteq Nat \ {0} /\ c \in Nat /\ Extends(SeedView, SeedView)
    BY <1>0 DEF InConflict, Siblings, View, TreeOK, Extends
  <2>2. ~seed.deleted => Placed(seed.at, c, SeedView)
    BY <1>0, <2>1, EntryPlaced
  <2>3. SeedResolved(c).rows = seed.rows /\ SeedResolved(c).deleted = seed.deleted
    BY <1>0 DEF SeedResolved, SeedShape
  <2>4. SeedView' = SeedView
    BY <1>2, <2>3 DEF SeedView
  <2>5. SeedOK(seed', SeedView)
    BY <1>0, <1>2, <2>1, <2>2, <2>3, ResolvedOK
  <2> QED BY <2>4, <2>5 DEF TaxonomySeen
<1> QED BY <1>1, <1>2 DEF SeedSelect

LEMMA TaxonomyStep == Inv /\ TaxonomySeen /\ [Next]_vars => TaxonomySeen'
<1> SUFFICES ASSUME Inv, TaxonomySeen, [Next]_vars PROVE TaxonomySeen'
  OBVIOUS
<1>0. DbShape(db)
  BY DEF Inv, Tables
<1>1. ASSUME UNCHANGED vars PROVE TaxonomySeen'
  BY <1>1, SeedUntouched DEF vars
<1>2. ASSUME NEW s \in Slots, Query(s) PROVE TaxonomySeen'
  BY <1>2, QueryKeepsTaxonomy
<1>3. ASSUME NEW s \in Slots, \/ Arrivals(s) \/ assertUserExists(s) \/ RoleBefore(s)
                              \/ logAdminAction(s) \/ Fail(s) \/ (\E e \in EntityTypes : resolve(s, e))
                              \/ expand(s) \/ Send(s)
      PROVE  TaxonomySeen'
  <2>1. UNCHANGED <<db, seed>>
    BY <1>3 DEF Arrivals, Arrive, assertUserExists, RoleBefore, logAdminAction, Fail, resolve, expand, Send
  <2> QED BY <2>1, SeedUntouched
<1>4. ASSUME NEW p \in Products, deleteProduct(p) PROVE TaxonomySeen'
  <2>1. UNCHANGED seed /\ \E v : db' = SetDeleted(db, v)
    BY <1>4 DEF deleteProduct, SetDeleted
  <2> QED BY <1>0, <2>1, OtherWrite, SeedUntouched DEF SameTree
<1>5. ASSUME runProdSeed \/ SeedInsert \/ SeedSelect \/ SeedCommit \/ SeedCrash PROVE TaxonomySeen'
  BY <1>5, SeedRestarts, SeedInsertKeepsTaxonomy, SeedSelectKeepsTaxonomy DEF SeedCrash
<1> QED BY <1>1, <1>2, <1>3, <1>4, <1>5 DEF Next

\* What the seeder has resolved stays in place while it runs.
THEOREM TaxonomyIsSeen == Spec => []TaxonomySeen
<1>1. Init => TaxonomySeen
  BY DEF Init, NoSeed, TaxonomySeen, SeedOK
<1> QED BY <1>1, TaxonomyStep, BackOfficeInvariant, PTL DEF Spec

\* A seeder that commits has its whole taxonomy in place, whatever crashed runs
\* and requests came before or in between, unless a category was deleted.
THEOREM SeedIsComplete == Spec => SeedCompletes
<1>1. Inv /\ TaxonomySeen /\ [Next]_vars =>
        [seed.pc = "commit" /\ seed'.pc = "done" /\ ~seed.deleted =>
           \A i \in DOMAIN Taxonomy :
             LET rows == db'.category
                 c == seed.ids[i]
             IN  /\ c \in DOMAIN rows /\ rows[c].name = Taxonomy[i].name
                 /\ IF Taxonomy[i].parent = NoName THEN rows[c].parent = Null
                    ELSE rows[c].parent # Null /\ rows[rows[c].parent].name = Taxonomy[i].parent]_vars
  <2> SUFFICES ASSUME Inv, TaxonomySeen, Next, seed.pc = "commit", seed'.pc = "done", ~seed.deleted,
                      NEW i \in DOMAIN Taxonomy
               PROVE  Placed(i, seed.ids[i], db'.category)
    BY DEF Placed
  <2>1. SeedCommit
    <3>1. ASSUME NEW s \in Slots, Query(s) PROVE seed'.pc = seed.pc
      <4>1. SeedShape(seed)
        BY DEF Inv, Tables
      <4>2. UNCHANGED seed \/ seed' = SetSeedDeleted(seed)
        BY <3>1 DEF Query, RoleWrite, updateUser, createReport, createWarning, updateReportStatus, listReports, getMyReports,
           rateUser, getUserRatingSummary, addFavorite, removeFavorite, listFavorites, blockUser, unblockUser,
           otherResponses, createCategory, deleteCategory, SetSeedDeleted
      <4> QED BY <4>1, <4>2 DEF SetSeedDeleted, SeedShape
    <3>2. ASSUME NEW s \in Slots, \/ Arrivals(s) \/ assertUserExists(s) \/ RoleBefore(s)
                                  \/ logAdminAction(s) \/ Fail(s) \/ (\E e \in EntityTypes : resolve(s, e))
                                  \/ expand(s) \/ Send(s)
          PROVE  UNCHANGED seed
      BY <3>2 DEF Arrivals, Arrive, assertUserExists, RoleBefore, logAdminAction, Fail, resolve, expand, Send
    <3>3. ASSUME NEW p \in Products, deleteProduct(p) PROVE UNCHANGED seed
      BY <3>3 DEF deleteProduct
    <3>4. ASSUME runProdSeed \/ SeedInsert \/ SeedSelect \/ SeedCrash PROVE seed'.pc # "done"
      BY <3>4 DEF runProdSeed, SeedInsert, SeedSelect, SeedCrash, SeedRollback, NoSeed
    <3> QED BY <3>1, <3>2, <3>3, <3>4 DEF Next
  <2>2. db'.category = SeedView
    BY <2>1 DEF SeedCommit, Inv, Tables, DbShape
  <2>3. i \in DOMAIN seed.ids
    <3> PICK ids : ids = seed.ids
      OBVIOUS
    <3>1. ids \in Seq(Nat) /\ Len(ids) = Len(Taxonomy)
      BY DEF TaxonomySeen, SeedOK
    <3> QED BY <3>1, TaxonomyType
  <2> QED BY <2>2, <2>3 DEF TaxonomySeen, SeedOK
<1> QED BY <1>1, TaxonomyIsSeen, BackOfficeInvariant, PTL DEF Spec, SeedCompletes
=============================================================================
