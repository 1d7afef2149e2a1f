--------------------------- MODULE ResponsesProofs ---------------------------
(***************************************************************************)
(* Proofs about the responses of BackOffice: what the interceptor puts in  *)
(* place of a foreign key, whom it shows, and what a summary counts.  All  *)
(* of them rest on what a request in flight has read (InFlight) and on how *)
(* the tables grow older under it (Ages).  The types of tables, log and    *)
(* requests are proved on the way.                                         *)
(***************************************************************************)
EXTENDS BackOfficeProofs

-----------------------------------------------------------------------------
(* How a step changes its request: every field, once for each kind of step *)

Who(n, x) ==
  /\ n.rid = x.rid /\ n.op = x.op /\ n.by = x.by /\ n.target = x.target /\ n.arg = x.arg
  /\ n.parent = x.parent /\ n.gone = x.gone
SameExpansion(n, x) == n.maps = x.maps /\ n.answer = x.answer /\ n.apart = x.apart

Others(s) == \A r \in Slots : r # s => slot'[r] = slot[r]

LEMMA Replaced ==
  ASSUME Inv, NEW s \in Slots, NEW n, slot' = [slot EXCEPT ![s] = n]
  PROVE  slot'[s] = n /\ Others(s)
<1>1. slot = [r \in Slots |-> slot[r]]
  BY DEF Inv, Requests
<1> QED BY <1>1 DEF Others

LEMMA ShapeOf == ASSUME Inv, NEW s \in Slots PROVE RequestShape(slot[s])
BY DEF Inv, Requests, RequestOK

LEMMA FinishStep == ASSUME Inv, NEW s \in Slots, Finish(s) PROVE slot'[s] = Idle /\ Others(s)
BY Replaced DEF Finish

WithPc(x, pc) == [x EXCEPT !.pc = pc]

LEMMA GotoStep ==
  ASSUME Inv, NEW s \in Slots, NEW pc, Goto(s, pc)
  PROVE  /\ Others(s) /\ slot'[s].pc = pc /\ Who(slot'[s], slot[s]) /\ SameExpansion(slot'[s], slot[s])
         /\ slot'[s].count = slot[s].count /\ slot'[s].body = slot[s].body /\ slot'[s].todo = slot[s].todo
<1> DEFINE n == WithPc(slot[s], pc)
<1>1. slot' = [slot EXCEPT ![s] = n]
  BY DEF Goto, WithPc, Inv, Requests
<1>2. /\ n.pc = pc /\ Who(n, slot[s]) /\ SameExpansion(n, slot[s])
      /\ n.count = slot[s].count /\ n.body = slot[s].body /\ n.todo = slot[s].todo
  BY ShapeOf DEF WithPc, RequestShape, Who, SameExpansion
<1> HIDE DEF n
<1> QED BY <1>1, <1>2, Replaced

TodoOf(body) == {e \in EntityTypes : collectIds(body, e) # {}}

LEMMA ReturnStep ==
  ASSUME Inv, NEW s \in Slots, NEW body, Return(s, body)
  PROVE  /\ Others(s) /\ slot'[s].pc = "expand" /\ Who(slot'[s], slot[s]) /\ SameExpansion(slot'[s], slot[s])
         /\ slot'[s].count = slot[s].count /\ slot'[s].body = body /\ slot'[s].todo = TodoOf(body)
<1> PICK todo : todo = TodoOf(body)
  OBVIOUS
<1> DEFINE n == WithTodo(slot[s], "expand", body, todo)
<1>1. slot' = [slot EXCEPT ![s] = n]
  BY DEF Return, WithTodo, Inv, Requests, TodoOf
<1>2. /\ n.pc = "expand" /\ Who(n, slot[s]) /\ SameExpansion(n, slot[s])
      /\ n.count = slot[s].count /\ n.body = body /\ n.todo = todo
  BY ShapeOf DEF WithTodo, RequestShape, Who, SameExpansion
<1> HIDE DEF n
<1> QED BY <1>1, <1>2, Replaced

LEMMA ThenLogStep ==
  ASSUME Inv, NEW s \in Slots, NEW body, ThenLog(s, body)
  PROVE  /\ Others(s) /\ slot'[s].pc = "log" /\ Who(slot'[s], slot[s]) /\ SameExpansion(slot'[s], slot[s])
         /\ slot'[s].count = slot[s].count /\ slot'[s].body = body
<1> DEFINE n == WithBody(slot[s], "log", body)
<1>1. slot' = [slot EXCEPT ![s] = n]
  BY DEF ThenLog, WithBody, Inv, Requests
<1>2. /\ n.pc = "log" /\ Who(n, slot[s]) /\ SameExpansion(n, slot[s])
      /\ n.count = slot[s].count /\ n.body = body
  BY ShapeOf DEF WithBody, RequestShape, Who, SameExpansion
<1> HIDE DEF n
<1> QED BY <1>1, <1>2, Replaced

LEMMA CountStep ==
  ASSUME Inv, NEW s \in Slots, NEW pc, NEW count, slot' = [slot EXCEPT ![s].pc = pc, ![s].count = count]
  PROVE  /\ Others(s) /\ slot'[s].pc = pc /\ Who(slot'[s], slot[s]) /\ SameExpansion(slot'[s], slot[s])
         /\ slot'[s].count = count /\ slot'[s].body = slot[s].body
<1> DEFINE n == WithCount(slot[s], pc, count)
<1>1. slot' = [slot EXCEPT ![s] = n]
  BY DEF WithCount, Inv, Requests
<1>2. /\ n.pc = pc /\ Who(n, slot[s]) /\ SameExpansion(n, slot[s])
      /\ n.count = count /\ n.body = slot[s].body
  BY ShapeOf DEF WithCount, RequestShape, Who, SameExpansion
<1> HIDE DEF n
<1> QED BY <1>1, <1>2, Replaced

LEMMA ResolveStep ==
  ASSUME Inv, NEW s \in Slots, NEW e, resolve(s, e)
  PROVE  /\ Others(s) /\ slot'[s].pc = "expand" /\ Who(slot'[s], slot[s]) /\ slot'[s].apart = slot[s].apart
         /\ slot'[s].count = slot[s].count /\ slot'[s].body = slot[s].body /\ slot'[s].answer = slot[s].answer
         /\ slot'[s].todo = slot[s].todo \ {e}
         /\ slot'[s].maps = [slot[s].maps EXCEPT ![e] = resolveEntities(Snapshot, e, collectIds(slot[s].body, e))]
<1> PICK maps, todo : /\ maps = [slot[s].maps EXCEPT ![e] = resolveEntities(Snapshot, e, collectIds(slot[s].body, e))]
                      /\ todo = slot[s].todo \ {e}
  OBVIOUS
<1> DEFINE n == WithMaps(slot[s], maps, todo)
<1>1. slot' = [slot EXCEPT ![s] = n] /\ slot[s].pc = "expand"
  BY DEF resolve, WithMaps, Inv, Requests
<1>2. /\ n.pc = slot[s].pc /\ Who(n, slot[s]) /\ n.apart = slot[s].apart /\ n.answer = slot[s].answer
      /\ n.count = slot[s].count /\ n.body = slot[s].body /\ n.todo = todo /\ n.maps = maps
  BY ShapeOf DEF WithMaps, RequestShape, Who
<1> HIDE DEF n
<1> QED BY <1>1, <1>2, Replaced

AnswerOf(body, maps) == {[of |-> n, out |-> transformNode(n, maps)] : n \in body}

LEMMA ExpandStep ==
  ASSUME Inv, NEW s \in Slots, expand(s)
  PROVE  /\ Others(s) /\ slot'[s].pc = "answered" /\ Who(slot'[s], slot[s]) /\ slot'[s].apart = slot[s].apart
         /\ slot'[s].count = slot[s].count /\ slot'[s].body = slot[s].body
         /\ slot'[s].maps = slot[s].maps /\ slot'[s].answer = AnswerOf(slot[s].body, slot[s].maps)
<1> PICK answer : answer = AnswerOf(slot[s].body, slot[s].maps)
  OBVIOUS
<1> DEFINE n == WithAnswer(slot[s], "answered", answer)
<1>1. slot' = [slot EXCEPT ![s] = n]
  BY DEF expand, WithAnswer, Inv, Requests, AnswerOf
<1>2. /\ n.pc = "answered" /\ Who(n, slot[s]) /\ n.apart = slot[s].apart /\ n.answer = answer
      /\ n.count = slot[s].count /\ n.body = slot[s].body /\ n.maps = slot[s].maps
  BY ShapeOf DEF WithAnswer, RequestShape, Who
<1> HIDE DEF n
<1> QED BY <1>1, <1>2, Replaced

\* createCategory has its row: what logAdminAction writes is about the new id.
Retargets(s, target, body) == slot' = [slot EXCEPT ![s].pc = "log", ![s].target = target, ![s].body = body]

LEMMA TargetStep ==
  ASSUME Inv, NEW s \in Slots, NEW target, NEW body, Retargets(s, target, body)
  PROVE  /\ Others(s) /\ slot'[s].pc = "log" /\ slot'[s].target = target /\ slot'[s].rid = slot[s].rid
         /\ slot'[s].op = slot[s].op /\ slot'[s].by = slot[s].by /\ slot'[s].arg = slot[s].arg
         /\ slot'[s].parent = slot[s].parent /\ slot'[s].gone = slot[s].gone
         /\ SameExpansion(slot'[s], slot[s]) /\ slot'[s].count = slot[s].count /\ slot'[s].body = body
<1> DEFINE n == WithTarget(slot[s], "log", target, body)
<1>1. slot' = [slot EXCEPT ![s] = n]
  BY DEF Retargets, WithTarget, Inv, Requests
<1>2. /\ n.pc = "log" /\ n.target = target /\ n.rid = slot[s].rid /\ n.op = slot[s].op /\ n.by = slot[s].by
      /\ n.arg = slot[s].arg /\ n.parent = slot[s].parent /\ n.gone = slot[s].gone
      /\ SameExpansion(n, slot[s]) /\ n.count = slot[s].count /\ n.body = body
  BY ShapeOf DEF WithTarget, RequestShape, SameExpansion
<1> HIDE DEF n
<1> QED BY <1>1, <1>2, Replaced

-----------------------------------------------------------------------------
(* What tables, log and requests hold *)

CategoryRow == [name: Names, parent: 0..MaxCategories]

TablesTyped ==
  /\ db.deleted \subseteq Products /\ db.lastCategory \in 0..MaxCategories
  /\ \A c \in DOMAIN db.category : db.category[c] \in CategoryRow
  /\ \A c \in DOMAIN seed.rows : seed.rows[c] \in CategoryRow
  /\ db.warning \in [Users -> Nat]
  /\ db.rating \subseteq Users \X Users /\ db.block \subseteq Users \X Users
  /\ db.favorite \subseteq Users \X Products
LogTyped == log.audit \subseteq Entries /\ log.done \subseteq Entries /\ log.lost \subseteq Entries
ArrivalsTyped == left \in Nat /\ mix \in Mixes

\* What a request asks for; a created category becomes the target of its row in
\* the log.
Asks(x) ==
  x.pc # "idle" =>
    /\ x.rid \in Nat \ {0} /\ x.op \in AdminOps \cup UserOps /\ x.by \in Users
    /\ x.arg \in ArgsOf(x.op) /\ x.parent \in ParentsOf(x.op)
    /\ x.target \in TargetsOf(x.op) \/ (x.op = "createCategory" /\ x.target \in Categories)
    /\ x.pc = "log" => EntryOf(x) \in Entries

-----------------------------------------------------------------------------
(* The containers of a response *)

\* What ExpansionExact calls a reference, and the key it is answered under.
Reference(n, i) ==
  /\ Len(n[i].key) = 2 \/ n[i].key = <<"reviewed_by">>
  /\ ~(n[i].key = Id("owner") /\ \E j \in DOMAIN n : n[j].key = <<"owner_type">>)
Stem(key) == IF key = Id("product_image_file") THEN <<"product_image">> ELSE <<key[1]>>

\* Every reference has its rule, which agrees with the schema, and no two
\* entries are answered under the same key.
WellFormed(n) ==
  /\ \E k \in Nat : DOMAIN n = 1..k
  /\ \A i, j \in DOMAIN n : OutKey(n, i) = OutKey(n, j) => i = j
  /\ \A i \in DOMAIN n :
       /\ n[i].value \in Nat
       /\ Expands(n[i].key, n) <=> Reference(n, i)
       /\ Reference(n, i) => /\ OutKey(n, i) = Stem(n[i].key)
                             /\ FK_RULES[n[i].key] = Refers(n[i].key) /\ Refers(n[i].key) \in EntityTypes

\* A parent was committed when it was read: it is no row of the seeder's.
Committed(n, d, rows) ==
  \A i \in DOMAIN n : n[i].key = Id("parent") =>
    n[i].value = Null \/ (n[i].value \in 1..d.lastCategory /\ n[i].value \notin DOMAIN rows)

\* The row is gone for good.
Missing(d, rows, e, v) ==
  /\ e = "user" /\ v \in Users => d.account[v].deleted
  /\ e = "category" => v \in 1..d.lastCategory /\ v \notin DOMAIN d.category \cup DOMAIN rows
  /\ e = "product" /\ v \in Products => v \in d.deleted
  /\ e \in {"message", "conversation"} => v # 1
  /\ e = "file" => v # File

-----------------------------------------------------------------------------
(* What a request in flight has read *)

BodyOK(x, d, rows) == \A n \in x.body : WellFormed(n) /\ Committed(n, d, rows)

\* The rows fetched are of the entity asked for, and of nobody gone before.
Fetched(e, found, gone) ==
  \A r \in found : /\ r.entity = e
                   /\ e = "user" => r.id \notin gone
                   /\ e = "product" => r.of \notin gone
MapsOK(x) == DOMAIN x.maps = EntityTypes /\ \A e \in EntityTypes : Fetched(e, x.maps[e], x.gone)

\* A query that has run has found every id of its entity, but for missing rows.
MapsComplete(x, d, rows) ==
  x.pc = "expand" => \A e \in EntityTypes \ x.todo : \A v \in collectIds(x.body, e) :
    (\E r \in x.maps[e] : r.id = v) \/ Missing(d, rows, e, v)

Exact(a, d, rows) ==
  \A i \in DOMAIN a.of :
    LET key == a.of[i].key
        v == a.of[i].value
    IN IF ~Reference(a.of, i) THEN a.out[key] = Scalar(v)
       ELSE /\ a.out[Stem(key)].entity \in {Refers(key), "null"}
            /\ a.out[Stem(key)].id \in {v, Null}
            /\ a.out[Stem(key)] = NoRow => v = Null \/ Missing(d, rows, Refers(key), v)

Hides(a, gone) ==
  \A key \in DOMAIN a.out : /\ a.out[key].entity = "user" => a.out[key].id \notin gone
                            /\ a.out[key].entity = "product" => a.out[key].of \notin gone

AnswerOK(x, d, rows) == \A a \in x.answer : Exact(a, d, rows) /\ Hides(a, x.gone)

\* apart are blocked still, and are nobody the favorites show.
Parted(x, block) == \A u \in x.apart : <<x.by, u>> \in block \/ <<u, x.by>> \in block
FavoritesApart(x) ==
  x.op = "listFavorites" =>
    /\ \A n \in x.body : \A i \in DOMAIN n :
         Reference(n, i) /\ Refers(n[i].key) = "user" => n[i].value \notin x.apart
    /\ \A a \in x.answer : \A key \in DOMAIN a.out :
         a.out[key].entity = "user" => a.out[key].id \notin x.apart

\* What the summary counted is there to be listed.
RatedIn(d, u) == {r \in d.rating : r[2] = u}
Counted(x, d) ==
  x.op = "getUserRatingSummary" =>
    /\ x.pc = "latest" => x.count \in Nat /\ x.count <= Cardinality(RatedIn(d, x.target))
    /\ x.pc = "expand" => /\ IsFiniteSet(x.body)
                          /\ x.count <= Cardinality(x.body) \/ Cardinality(x.body) = RatingsPage
    /\ x.pc = "answered" => x.count <= Cardinality(x.answer) \/ Cardinality(x.answer) = RatingsPage

InFlight(x, d, rows) ==
  /\ Asks(x) /\ BodyOK(x, d, rows) /\ MapsOK(x) /\ MapsComplete(x, d, rows) /\ AnswerOK(x, d, rows)
  /\ Parted(x, d.block) /\ FavoritesApart(x) /\ Counted(x, d)

RInv == TablesTyped /\ LogTyped /\ ArrivalsTyped /\ \A s \in Slots : InFlight(slot[s], db, seed.rows)

-----------------------------------------------------------------------------
(* The rules, key by key *)

Rule(key, entity) ==
  /\ key \in RuleKeys /\ FK_RULES[key] = entity /\ Refers(key) = entity /\ entity \in EntityTypes
  /\ outputKey(key) = Stem(key) /\ (Len(key) = 2 \/ key = <<"reviewed_by">>) /\ key # <<"owner_type">>
PlainKey(key) == key \notin RuleKeys /\ Len(key) = 1 /\ key # <<"reviewed_by">> /\ key # <<"owner_type">>

UserStems == {"admin", "blocked", "blocker", "owner", "peer_user", "rated_user", "rater", "reported_user",
              "reporter", "sender", "target_user", "uploader_user", "user_a", "user_b", "user"}

LEMMA IdParts == ASSUME NEW stem PROVE Len(Id(stem)) = 2 /\ Id(stem)[1] = stem /\ Id(stem)[2] = "_id"
BY DEF Id

LEMMA IdsDiffer == ASSUME NEW stem, NEW other, Id(stem) = Id(other) PROVE stem = other
BY IdParts

LEMMA SingleParts == ASSUME NEW name PROVE Len(<<name>>) = 1 /\ <<name>>[1] = name
OBVIOUS

LEMMA UserRule == ASSUME NEW stem \in UserStems PROVE Rule(Id(stem), "user")
<1>1. Id(stem) \in UserKeys
  BY DEF UserKeys, UserStems
<1>2. Id(stem) \in RuleKeys /\ FK_RULES[Id(stem)] = "user"
  BY <1>1 DEF RuleKeys, FK_RULES
<1>3. stem \notin {"product", "parent", "last_message", "conversation", "file", "product_image_file"}
  BY DEF UserStems
<1>4. Refers(Id(stem)) = "user"
  BY <1>3, IdsDiffer DEF Refers
<1>5. Id(stem) # Id("product_image_file") /\ Id(stem) # <<"owner_type">>
  BY <1>3, IdsDiffer, IdParts, SingleParts
<1> QED BY <1>2, <1>4, <1>5, IdParts DEF Rule, outputKey, deriveOutputKey, Stem, EntityTypes

LEMMA ReviewerRule == Rule(<<"reviewed_by">>, "user")
<1> DEFINE key == <<"reviewed_by">>
<1>1. key \in UserKeys
  BY DEF UserKeys
<1>2. key \in RuleKeys /\ FK_RULES[key] = "user"
  BY <1>1 DEF RuleKeys, FK_RULES
<1>3. \A stem : key # Id(stem)
  BY IdParts, SingleParts
<1>4. Refers(key) = "user"
  BY <1>3 DEF Refers
<1>5. Len(key) = 1 /\ key[1] = "reviewed_by" /\ key # <<"owner_type">>
  OBVIOUS
<1> QED BY <1>2, <1>3, <1>4, <1>5 DEF Rule, outputKey, deriveOutputKey, Stem, EntityTypes

LEMMA FileRule == ASSUME NEW stem \in {"file", "product_image_file"} PROVE Rule(Id(stem), "file")
<1>1. Id(stem) \in FileKeys
  BY DEF FileKeys
<1>2. Id(stem) \notin UserKeys
  BY IdsDiffer, IdParts, SingleParts DEF UserKeys
<1>3. Id(stem) \in RuleKeys /\ FK_RULES[Id(stem)] = "file"
  BY <1>1, <1>2 DEF RuleKeys, FK_RULES
<1>4. Refers(Id(stem)) = "file"
  BY IdsDiffer DEF Refers
<1>5. Id(stem) # <<"owner_type">>
  BY IdParts, SingleParts
<1>6. outputKey(Id(stem)) = Stem(Id(stem))
  BY IdParts DEF outputKey, deriveOutputKey, Stem
<1> QED BY <1>3, <1>4, <1>5, <1>6, IdParts DEF Rule, EntityTypes

LEMMA OtherRule ==
  /\ Rule(Id("parent"), "category") /\ Rule(Id("product"), "product")
  /\ Rule(Id("last_message"), "message") /\ Rule(Id("conversation"), "conversation")
<1> SUFFICES ASSUME NEW stem \in {"parent", "product", "last_message", "conversation"}
             PROVE  Rule(Id(stem), OtherKeys[stem])
  BY DEF OtherKeys
<1>1. Id(stem) \notin UserKeys /\ Id(stem) \notin FileKeys
  BY IdsDiffer, IdParts, SingleParts DEF UserKeys, FileKeys
<1>2. stem \in DOMAIN OtherKeys /\ OtherKeys[stem] \in EntityTypes
  BY DEF OtherKeys, EntityTypes
<1>3. Id(stem) \in RuleKeys /\ FK_RULES[Id(stem)] = OtherKeys[stem]
  BY <1>1, <1>2, IdParts DEF RuleKeys, FK_RULES
<1>4. Refers(Id(stem)) = OtherKeys[stem]
  BY IdsDiffer DEF Refers, OtherKeys
<1>5. Id(stem) # <<"owner_type">> /\ Id(stem) # Id("product_image_file")
  BY IdsDiffer, IdParts, SingleParts
<1>6. outputKey(Id(stem)) = Stem(Id(stem))
  BY <1>5, IdParts DEF outputKey, deriveOutputKey, Stem
<1> QED BY <1>2, <1>3, <1>4, <1>5, <1>6, IdParts DEF Rule

LEMMA NoRule == ASSUME NEW name, name # "reviewed_by" PROVE <<name>> \notin RuleKeys
<1>1. \A stem : <<name>> # Id(stem)
  BY IdParts, SingleParts
<1>2. <<name>> # <<"reviewed_by">>
  BY SingleParts
<1> QED BY <1>1, <1>2 DEF RuleKeys, UserKeys, FileKeys

LEMMA PlainKeys == PlainKey(<<"id">>) /\ PlainKey(<<"sort_order">>)
<1>1. <<"id">> \notin RuleKeys /\ <<"sort_order">> \notin RuleKeys
  BY NoRule
<1>2. /\ Len(<<"id">>) = 1 /\ <<"id">> # <<"reviewed_by">> /\ <<"id">> # <<"owner_type">>
      /\ Len(<<"sort_order">>) = 1 /\ <<"sort_order">> # <<"reviewed_by">> /\ <<"sort_order">> # <<"owner_type">>
  OBVIOUS
<1> QED BY <1>1, <1>2 DEF PlainKey

-----------------------------------------------------------------------------
(* The containers are well formed, one by one *)

\* The first part of the key an entry is answered under.
Under(key) == Stem(key)[1]

LEMMA EntryOutKey ==
  ASSUME NEW n, NEW i \in DOMAIN n, \A j \in DOMAIN n : n[j].key # <<"owner_type">>,
         PlainKey(n[i].key) \/ \E e : Rule(n[i].key, e)
  PROVE  /\ Expands(n[i].key, n) <=> Reference(n, i)
         /\ Reference(n, i) <=> ~PlainKey(n[i].key)
         /\ Reference(n, i) => OutKey(n, i) = Stem(n[i].key)
         /\ OutKey(n, i)[1] = Under(n[i].key)
<1> DEFINE key == n[i].key
<1>1. CASE PlainKey(key)
  <2>1. ~Expands(key, n) /\ ~Reference(n, i) /\ OutKey(n, i) = key
    BY <1>1 DEF PlainKey, Expands, Reference, OutKey
  <2>2. key # Id("product_image_file")
    BY <1>1, IdParts DEF PlainKey
  <2> QED BY <1>1, <2>1, <2>2, SingleParts DEF Stem, Under
<1>2. ASSUME NEW e, Rule(key, e)
      PROVE  /\ Expands(key, n) /\ Reference(n, i) /\ ~PlainKey(key)
             /\ OutKey(n, i) = Stem(key) /\ OutKey(n, i)[1] = Under(key)
  BY <1>2 DEF Rule, PlainKey, Expands, shouldExpand, Reference, OutKey, Under
<1> QED BY <1>1, <1>2

LEMMA NodeWellFormed ==
  ASSUME NEW n, NEW k \in Nat, DOMAIN n = 1..k,
         \A i \in DOMAIN n : n[i].value \in Nat /\ (PlainKey(n[i].key) \/ \E e : Rule(n[i].key, e)),
         \A i, j \in DOMAIN n : Under(n[i].key) = Under(n[j].key) => i = j
  PROVE  WellFormed(n)
<1>1. \A i \in DOMAIN n : n[i].key # <<"owner_type">>
  BY DEF PlainKey, Rule
<1>2. ASSUME NEW i \in DOMAIN n
      PROVE  /\ Expands(n[i].key, n) <=> Reference(n, i)
             /\ Reference(n, i) => OutKey(n, i) = Stem(n[i].key)
             /\ OutKey(n, i)[1] = Under(n[i].key)
             /\ Reference(n, i) => FK_RULES[n[i].key] = Refers(n[i].key) /\ Refers(n[i].key) \in EntityTypes
  <2>1. PlainKey(n[i].key) \/ \E e : Rule(n[i].key, e)
    OBVIOUS
  <2>2. Reference(n, i) <=> ~PlainKey(n[i].key)
    BY <1>1, <2>1, EntryOutKey
  <2>3. (\E e : Rule(n[i].key, e)) => FK_RULES[n[i].key] = Refers(n[i].key) /\ Refers(n[i].key) \in EntityTypes
    BY DEF Rule
  <2> QED BY <1>1, <2>1, <2>2, <2>3, EntryOutKey
<1>3. \A i, j \in DOMAIN n : OutKey(n, i) = OutKey(n, j) => i = j
  BY <1>2
<1> QED BY <1>2, <1>3 DEF WellFormed

LEMMA Unders ==
  /\ \A stem : stem # "product_image_file" => Under(Id(stem)) = stem
  /\ Under(Id("product_image_file")) = "product_image"
  /\ Under(<<"id">>) = "id" /\ Under(<<"sort_order">>) = "sort_order" /\ Under(<<"reviewed_by">>) = "reviewed_by"
<1>1. \A stem : stem # "product_image_file" => Id(stem) # Id("product_image_file")
  BY IdsDiffer
<1>2. \A name : <<name>> # Id("product_image_file") /\ <<name>>[1] = name
  BY IdParts, SingleParts
<1>3. <<"id">>[1] = "id" /\ <<"sort_order">>[1] = "sort_order" /\ <<"reviewed_by">>[1] = "reviewed_by"
  OBVIOUS
<1> QED BY <1>1, <1>2, <1>3, IdParts DEF Under, Stem

LEMMA EParts == ASSUME NEW key, NEW value PROVE E(key, value).key = key /\ E(key, value).value = value
BY DEF E

\* A container of two or of three entries.
LEMMA TwoEntries ==
  ASSUME NEW k1, NEW k2, NEW v1 \in Nat, NEW v2 \in Nat, Under(k1) # Under(k2),
         PlainKey(k1) \/ \E e : Rule(k1, e), PlainKey(k2) \/ \E e : Rule(k2, e)
  PROVE  WellFormed(<<E(k1, v1), E(k2, v2)>>)
<1> DEFINE n == <<E(k1, v1), E(k2, v2)>>
<1>1. DOMAIN n = {1, 2} /\ DOMAIN n = 1..2 /\ n[1] = E(k1, v1) /\ n[2] = E(k2, v2)
  OBVIOUS
<1> HIDE DEF n
<1>2. n[1].key = k1 /\ n[1].value = v1 /\ n[2].key = k2 /\ n[2].value = v2
  BY <1>1, EParts
<1>3. WellFormed(n)
  BY <1>1, <1>2, NodeWellFormed
<1> QED BY <1>3 DEF n

LEMMA ThreeEntries ==
  ASSUME NEW k1, NEW k2, NEW k3, NEW v1 \in Nat, NEW v2 \in Nat, NEW v3 \in Nat,
         Under(k1) # Under(k2), Under(k1) # Under(k3), Under(k2) # Under(k3),
         PlainKey(k1) \/ \E e : Rule(k1, e), PlainKey(k2) \/ \E e : Rule(k2, e), PlainKey(k3) \/ \E e : Rule(k3, e)
  PROVE  WellFormed(<<E(k1, v1), E(k2, v2), E(k3, v3)>>)
<1> DEFINE n == <<E(k1, v1), E(k2, v2), E(k3, v3)>>
<1>1. DOMAIN n = {1, 2, 3} /\ DOMAIN n = 1..3 /\ n[1] = E(k1, v1) /\ n[2] = E(k2, v2) /\ n[3] = E(k3, v3)
  OBVIOUS
<1> HIDE DEF n
<1>2. /\ n[1].key = k1 /\ n[1].value = v1 /\ n[2].key = k2 /\ n[2].value = v2
      /\ n[3].key = k3 /\ n[3].value = v3
  BY <1>1, EParts
<1>3. WellFormed(n)
  BY <1>1, <1>2, NodeWellFormed
<1> QED BY <1>3 DEF n

NoParent(n) == \A i \in DOMAIN n : n[i].key # Id("parent")

LEMMA TwoParts ==
  ASSUME NEW k1, NEW k2, NEW v1, NEW v2, NEW n, n = <<E(k1, v1), E(k2, v2)>>
  PROVE  /\ DOMAIN n = {1, 2} /\ n[1].key = k1 /\ n[1].value = v1 /\ n[2].key = k2 /\ n[2].value = v2
         /\ k1 # Id("parent") /\ k2 # Id("parent") => NoParent(n)
<1>1. DOMAIN n = {1, 2} /\ n[1] = E(k1, v1) /\ n[2] = E(k2, v2)
  OBVIOUS
<1> QED BY <1>1, EParts DEF NoParent

LEMMA ThreeParts ==
  ASSUME NEW k1, NEW k2, NEW k3, NEW v1, NEW v2, NEW v3, NEW n, n = <<E(k1, v1), E(k2, v2), E(k3, v3)>>,
         k1 # Id("parent"), k2 # Id("parent"), k3 # Id("parent")
  PROVE  NoParent(n)
<1>1. DOMAIN n = {1, 2, 3} /\ n[1] = E(k1, v1) /\ n[2] = E(k2, v2) /\ n[3] = E(k3, v3)
  OBVIOUS
<1> QED BY <1>1, EParts DEF NoParent

LEMMA IdsInNat ==
  /\ Users \subseteq Nat /\ Products \subseteq Nat /\ Categories \subseteq Nat /\ Reports \subseteq Nat
  /\ Null \in Nat /\ Null \notin Users /\ Null \notin Products /\ Null \notin Categories /\ Null \notin Reports
  /\ \A p \in Products : ProductOwner[p] \in Users
BY BoundsAssumption, DataAssumption DEF Users, Products, Categories, Reports, Null

LEMMA ReportNodeSound ==
  ASSUME NEW r \in Report
  PROVE  WellFormed(ReportNode(r)) /\ NoParent(ReportNode(r))
<1>1. r.reporter \in Nat /\ r.reported \in Nat
  BY IdsInNat DEF Report
<1>2. Rule(Id("reporter"), "user") /\ Rule(Id("reported_user"), "user")
  BY UserRule DEF UserStems
<1>3. Under(Id("reporter")) = "reporter" /\ Under(Id("reported_user")) = "reported_user"
      /\ Under(Id("parent")) = "parent"
  BY Unders
<1> QED BY <1>1, <1>2, <1>3, TwoEntries, TwoParts DEF ReportNode

LEMMA ReviewedNodeSound ==
  ASSUME NEW r \in Report, NEW reviewer \in Users \cup {Null}
  PROVE  WellFormed(ReviewedNode(r, reviewer)) /\ NoParent(ReviewedNode(r, reviewer))
<1>1. r.reporter \in Nat /\ r.reported \in Nat /\ reviewer \in Nat
  BY IdsInNat DEF Report
<1>2. Rule(Id("reporter"), "user") /\ Rule(Id("reported_user"), "user") /\ Rule(<<"reviewed_by">>, "user")
  BY UserRule, ReviewerRule DEF UserStems
<1>3. Under(Id("reporter")) = "reporter" /\ Under(Id("reported_user")) = "reported_user"
      /\ Under(<<"reviewed_by">>) = "reviewed_by" /\ Under(Id("parent")) = "parent"
  BY Unders
<1>4. WellFormed(ReviewedNode(r, reviewer))
  BY <1>1, <1>2, <1>3, ThreeEntries DEF ReviewedNode
<1>5. NoParent(ReviewedNode(r, reviewer))
  BY <1>3, ThreeParts DEF ReviewedNode
<1> QED BY <1>4, <1>5

LEMMA RatingNodeSound ==
  ASSUME NEW r \in Users \X Users
  PROVE  WellFormed(RatingNode(r)) /\ NoParent(RatingNode(r))
<1>1. r[1] \in Nat /\ r[2] \in Nat
  BY IdsInNat
<1>2. Rule(Id("rater"), "user") /\ Rule(Id("rated_user"), "user")
  BY UserRule DEF UserStems
<1>3. Under(Id("rater")) = "rater" /\ Under(Id("rated_user")) = "rated_user" /\ Under(Id("parent")) = "parent"
  BY Unders
<1> QED BY <1>1, <1>2, <1>3, TwoEntries, TwoParts DEF RatingNode

LEMMA WarningNodeSound ==
  ASSUME NEW by \in Users, NEW target \in Users, NEW n, n = <<E(Id("admin"), by), E(Id("target_user"), target)>>
  PROVE  WellFormed(n) /\ NoParent(n)
<1>1. by \in Nat /\ target \in Nat
  BY IdsInNat
<1>2. Rule(Id("admin"), "user") /\ Rule(Id("target_user"), "user")
  BY UserRule DEF UserStems
<1>3. Under(Id("admin")) = "admin" /\ Under(Id("target_user")) = "target_user" /\ Under(Id("parent")) = "parent"
  BY Unders
<1> QED BY <1>1, <1>2, <1>3, TwoEntries, TwoParts

LEMMA CategoryNodeSound ==
  ASSUME NEW c \in Nat, NEW parent \in Nat, NEW d, NEW rows,
         parent = Null \/ (parent \in 1..d.lastCategory /\ parent \notin DOMAIN rows)
  PROVE  WellFormed(CategoryNode(c, parent)) /\ Committed(CategoryNode(c, parent), d, rows)
<1>1. PlainKey(<<"id">>) /\ Rule(Id("parent"), "category")
  BY PlainKeys, OtherRule
<1>2. Under(<<"id">>) = "id" /\ Under(Id("parent")) = "parent"
  BY Unders
<1>3. WellFormed(CategoryNode(c, parent))
  BY <1>1, <1>2, TwoEntries DEF CategoryNode
<1>4. Committed(CategoryNode(c, parent), d, rows)
  <2> PICK n : n = CategoryNode(c, parent)
    OBVIOUS
  <2>1. DOMAIN n = {1, 2} /\ n[1].key = <<"id">> /\ n[2].value = parent
    BY TwoParts DEF CategoryNode
  <2>2. <<"id">> # Id("parent")
    BY <1>2
  <2> QED BY <2>1, <2>2 DEF Committed
<1> QED BY <1>3, <1>4

\* A product in the favorites shows its owner and its image.
LEMMA FavoriteNodesSound ==
  ASSUME NEW p \in Products, NEW n \in FavoriteNodes(p)
  PROVE  /\ WellFormed(n) /\ NoParent(n)
         /\ \A i \in DOMAIN n : Reference(n, i) /\ Refers(n[i].key) = "user" => n[i].value = ProductOwner[p]
<1>1. p \in Nat /\ ProductOwner[p] \in Nat /\ 1 \in Nat /\ File \in Nat
  BY IdsInNat DEF File
<1>2. /\ PlainKey(<<"id">>) /\ PlainKey(<<"sort_order">>)
      /\ Rule(Id("owner"), "user") /\ Rule(Id("file"), "file")
  BY PlainKeys, UserRule, FileRule DEF UserStems
<1>3. /\ Under(<<"id">>) = "id" /\ Under(<<"sort_order">>) = "sort_order" /\ Under(Id("parent")) = "parent"
      /\ Under(Id("owner")) = "owner" /\ Under(Id("file")) = "file"
  BY Unders
<1>4. CASE n = <<E(<<"id">>, p), E(Id("owner"), ProductOwner[p])>>
  <2>1. WellFormed(n) /\ NoParent(n)
    BY <1>1, <1>2, <1>3, <1>4, TwoEntries, TwoParts
  <2>2. DOMAIN n = {1, 2} /\ n[1].key = <<"id">> /\ n[2].value = ProductOwner[p]
    BY <1>4, TwoParts
  <2>3. ~Reference(n, 1)
    BY <1>2, <2>2 DEF Reference, PlainKey
  <2> QED BY <2>1, <2>2, <2>3
<1>5. CASE n = <<E(<<"sort_order">>, 1), E(Id("file"), File)>>
  <2>1. WellFormed(n) /\ NoParent(n)
    BY <1>1, <1>2, <1>3, <1>5, TwoEntries, TwoParts
  <2>2. DOMAIN n = {1, 2} /\ n[1].key = <<"sort_order">> /\ n[2].key = Id("file")
    BY <1>5, TwoParts
  <2>3. ~Reference(n, 1) /\ Refers(n[2].key) # "user"
    BY <1>2, <2>2 DEF Reference, PlainKey, Rule
  <2> QED BY <2>1, <2>2, <2>3
<1> QED BY <1>4, <1>5 DEF FavoriteNodes

LEMMA ChatNodesSound ==
  ASSUME NEW p \in Products, NEW file \in {Null, File}, NEW c, NEW m,
         c = <<E(<<"id">>, 1), E(Id("product"), p), E(Id("last_message"), 1), E(Id("peer_user"), ProductOwner[p]),
               E(Id("product_image_file"), file)>>,
         m = <<E(<<"id">>, 1), E(Id("conversation"), 1), E(Id("sender"), ProductOwner[p])>>
  PROVE  WellFormed(c) /\ NoParent(c) /\ WellFormed(m) /\ NoParent(m)
<1>0. p \in Nat /\ ProductOwner[p] \in Nat
  BY IdsInNat
<1>1. p \in Nat /\ ProductOwner[p] \in Nat /\ 1 \in Nat /\ file \in Nat
  BY <1>0 DEF File, Null
<1>2. /\ PlainKey(<<"id">>) /\ Rule(Id("product"), "product") /\ Rule(Id("last_message"), "message")
      /\ Rule(Id("peer_user"), "user") /\ Rule(Id("product_image_file"), "file")
      /\ Rule(Id("conversation"), "conversation") /\ Rule(Id("sender"), "user")
  BY PlainKeys, UserRule, FileRule, OtherRule DEF UserStems
<1>3. /\ Under(<<"id">>) = "id" /\ Under(Id("product")) = "product" /\ Under(Id("last_message")) = "last_message"
      /\ Under(Id("peer_user")) = "peer_user" /\ Under(Id("product_image_file")) = "product_image"
      /\ Under(Id("conversation")) = "conversation" /\ Under(Id("sender")) = "sender" /\ Under(Id("parent")) = "parent"
  BY Unders
<1>4. WellFormed(m) /\ NoParent(m)
  BY <1>1, <1>2, <1>3, ThreeEntries, ThreeParts
<1>5. /\ DOMAIN c = {1, 2, 3, 4, 5} /\ c[1] = E(<<"id">>, 1) /\ c[2] = E(Id("product"), p)
      /\ c[3] = E(Id("last_message"), 1) /\ c[4] = E(Id("peer_user"), ProductOwner[p])
      /\ c[5] = E(Id("product_image_file"), file)
  OBVIOUS
<1>6. /\ c[1].key = <<"id">> /\ c[2].key = Id("product") /\ c[3].key = Id("last_message")
      /\ c[4].key = Id("peer_user") /\ c[5].key = Id("product_image_file")
      /\ \A i \in DOMAIN c : c[i].value \in Nat
  BY <1>1, <1>5, EParts
<1>7. \A i \in DOMAIN c : PlainKey(c[i].key) \/ \E e : Rule(c[i].key, e)
  BY <1>2, <1>5, <1>6
<1>8. \A i, j \in DOMAIN c : Under(c[i].key) = Under(c[j].key) => i = j
  BY <1>3, <1>5, <1>6
<1>9. DOMAIN c = 1..5
  BY <1>5
<1>10. WellFormed(c)
  BY <1>6, <1>7, <1>8, <1>9, NodeWellFormed
<1>11. NoParent(c)
  BY <1>3, <1>5, <1>6 DEF NoParent
<1> QED BY <1>4, <1>10, <1>11

\* owner_id stands beside owner_type: it is left as it is.
LEMMA FileNodeSound ==
  ASSUME NEW p \in Products, NEW n,
         n = <<E(<<"id">>, File), E(Id("uploader_user"), ProductOwner[p]), E(<<"owner_type">>, 1), E(Id("owner"), p)>>
  PROVE  WellFormed(n) /\ NoParent(n)
<1>1. /\ DOMAIN n = {1, 2, 3, 4} /\ n[1] = E(<<"id">>, File) /\ n[2] = E(Id("uploader_user"), ProductOwner[p])
      /\ n[3] = E(<<"owner_type">>, 1) /\ n[4] = E(Id("owner"), p)
  OBVIOUS
<1>2. /\ n[1].key = <<"id">> /\ n[2].key = Id("uploader_user") /\ n[3].key = <<"owner_type">> /\ n[4].key = Id("owner")
      /\ n[1].value = File /\ n[2].value = ProductOwner[p] /\ n[3].value = 1 /\ n[4].value = p
  BY <1>1, EParts
<1>0. p \in Nat /\ ProductOwner[p] \in Nat
  BY IdsInNat
<1>3. \A i \in DOMAIN n : n[i].value \in Nat
  BY <1>0, <1>1, <1>2 DEF File
<1>4. PlainKey(<<"id">>) /\ Rule(Id("uploader_user"), "user")
  BY PlainKeys, UserRule DEF UserStems
<1>5. /\ Under(<<"id">>) = "id" /\ Under(Id("uploader_user")) = "uploader_user" /\ Under(Id("parent")) = "parent"
      /\ Under(Id("owner")) = "owner"
  BY Unders
<1>6. <<"owner_type">> \notin RuleKeys
  BY NoRule
<1>7. /\ Len(<<"owner_type">>) = 1 /\ <<"owner_type">> # <<"reviewed_by">> /\ <<"owner_type">>[1] = "owner_type"
  OBVIOUS
<1>8. Id("uploader_user") # Id("owner") /\ <<"owner_type">> # Id("parent")
  BY <1>5, <1>7, IdParts
<1>9. /\ ~Reference(n, 1) /\ ~Expands(n[1].key, n) /\ OutKey(n, 1) = <<"id">>
  BY <1>2, <1>4 DEF PlainKey, Reference, Expands, OutKey
<1>10. /\ ~Reference(n, 3) /\ ~Expands(n[3].key, n) /\ OutKey(n, 3) = <<"owner_type">>
  BY <1>2, <1>6, <1>7 DEF Reference, Expands, OutKey
<1>11. /\ ~Reference(n, 4) /\ ~Expands(n[4].key, n) /\ OutKey(n, 4) = Id("owner")
  BY <1>1, <1>2 DEF Reference, Expands, shouldExpand, OutKey
<1>12. /\ Reference(n, 2) /\ Expands(n[2].key, n) /\ OutKey(n, 2) = Stem(n[2].key)
       /\ FK_RULES[n[2].key] = Refers(n[2].key) /\ Refers(n[2].key) \in EntityTypes
  BY <1>2, <1>4, <1>8, IdParts DEF Rule, Reference, Expands, shouldExpand, OutKey
<1>13. /\ OutKey(n, 1)[1] = "id" /\ OutKey(n, 2)[1] = "uploader_user" /\ OutKey(n, 3)[1] = "owner_type"
       /\ OutKey(n, 4)[1] = "owner"
  BY <1>2, <1>5, <1>7, <1>9, <1>10, <1>11, <1>12, IdParts, SingleParts DEF Under
<1>14. \A i, j \in DOMAIN n : OutKey(n, i) = OutKey(n, j) => i = j
  BY <1>1, <1>13
<1>15. DOMAIN n = 1..4
  BY <1>1
<1>16. WellFormed(n)
  BY <1>1, <1>3, <1>9, <1>10, <1>11, <1>12, <1>14, <1>15 DEF WellFormed
<1>17. NoParent(n)
  BY <1>1, <1>2, <1>5, <1>8 DEF NoParent
<1> QED BY <1>16, <1>17

-----------------------------------------------------------------------------
(* How the tables grow older under a request *)

Ages(d, rows, e, new) ==
  /\ \A u \in Users : d.account[u].deleted => e.account[u].deleted
  /\ d.deleted \subseteq e.deleted
  /\ d.lastCategory \in Nat /\ e.lastCategory \in Nat /\ d.lastCategory <= e.lastCategory
  /\ DOMAIN e.category \cap 1..d.lastCategory \subseteq DOMAIN d.category \cup DOMAIN rows
  /\ DOMAIN new \cap 1..d.lastCategory \subseteq DOMAIN rows
  /\ d.rating \subseteq e.rating /\ IsFiniteSet(e.rating)

LEMMA MissingStays ==
  ASSUME NEW d, NEW rows, NEW d2, NEW rows2, Ages(d, rows, d2, rows2), NEW e, NEW v, Missing(d, rows, e, v)
  PROVE  Missing(d2, rows2, e, v)
<1>1. e = "user" /\ v \in Users => d2.account[v].deleted
  BY DEF Missing, Ages
<1>2. e = "category" => v \in 1..d2.lastCategory /\ v \notin DOMAIN d2.category \cup DOMAIN rows2
  BY DEF Missing, Ages
<1>3. e = "product" /\ v \in Products => v \in d2.deleted
  BY DEF Missing, Ages
<1> QED BY <1>1, <1>2, <1>3 DEF Missing

LEMMA CommittedStays ==
  ASSUME NEW d, NEW rows, NEW d2, NEW rows2, Ages(d, rows, d2, rows2), NEW n, Committed(n, d, rows)
  PROVE  Committed(n, d2, rows2)
<1> SUFFICES ASSUME NEW i \in DOMAIN n, n[i].key = Id("parent"), n[i].value # Null
             PROVE  n[i].value \in 1..d2.lastCategory /\ n[i].value \notin DOMAIN rows2
  BY DEF Committed
<1>1. n[i].value \in 1..d.lastCategory /\ n[i].value \notin DOMAIN rows
  BY DEF Committed
<1> QED BY <1>1 DEF Ages

LEMMA ExactStays ==
  ASSUME NEW d, NEW rows, NEW d2, NEW rows2, Ages(d, rows, d2, rows2), NEW a, Exact(a, d, rows)
  PROVE  Exact(a, d2, rows2)
BY MissingStays DEF Exact

LEMMA CountedStays ==
  ASSUME NEW d, NEW rows, NEW d2, NEW rows2, Ages(d, rows, d2, rows2), NEW x, Counted(x, d)
  PROVE  Counted(x, d2)
<1> SUFFICES ASSUME x.op = "getUserRatingSummary", x.pc = "latest"
             PROVE  x.count \in Nat /\ x.count <= Cardinality(RatedIn(d2, x.target))
  BY DEF Counted
<1>1. x.count \in Nat /\ x.count <= Cardinality(RatedIn(d, x.target))
  BY DEF Counted
<1>2. RatedIn(d, x.target) \subseteq RatedIn(d2, x.target) /\ RatedIn(d2, x.target) \subseteq d2.rating
  BY DEF RatedIn, Ages
<1>3. IsFiniteSet(RatedIn(d2, x.target)) /\ IsFiniteSet(RatedIn(d, x.target))
  BY <1>2, FS_Subset DEF Ages
<1>4. /\ Cardinality(RatedIn(d, x.target)) <= Cardinality(RatedIn(d2, x.target))
      /\ Cardinality(RatedIn(d, x.target)) \in Nat /\ Cardinality(RatedIn(d2, x.target)) \in Nat
  BY <1>2, <1>3, FS_Subset, FS_CardinalityType
<1> QED BY <1>1, <1>4

\* A request that is not touched keeps what it has read.
LEMMA InFlightAges ==
  ASSUME NEW d, NEW rows, NEW d2, NEW rows2, Ages(d, rows, d2, rows2),
         NEW x, InFlight(x, d, rows), Parted(x, d2.block)
  PROVE  InFlight(x, d2, rows2)
<1>1. BodyOK(x, d2, rows2)
  BY CommittedStays DEF InFlight, BodyOK
<1>2. MapsComplete(x, d2, rows2)
  BY MissingStays DEF InFlight, MapsComplete
<1>3. AnswerOK(x, d2, rows2)
  BY ExactStays DEF InFlight, AnswerOK
<1>4. Counted(x, d2)
  BY CountedStays DEF InFlight
<1> QED BY <1>1, <1>2, <1>3, <1>4 DEF InFlight

-----------------------------------------------------------------------------
(* What a request has read, step by step *)

LEMMA IdleInFlight == ASSUME NEW d, NEW rows PROVE InFlight(Idle, d, rows)
<1>1. /\ Idle.pc = "idle" /\ Idle.op = "none" /\ Idle.body = {} /\ Idle.answer = {} /\ Idle.apart = {}
      /\ Idle.maps = [e \in EntityTypes |-> {}]
  BY DEF Idle
<1>2. MapsOK(Idle)
  BY <1>1 DEF MapsOK, Fetched
<1> QED BY <1>1, <1>2 DEF InFlight, Asks, BodyOK, MapsComplete, AnswerOK, Parted, FavoritesApart, Counted

\* On to the next query.
LEMMA GoesOn ==
  ASSUME NEW d, NEW rows, NEW x, InFlight(x, d, rows), x.pc # "idle", NEW n, Who(n, x), SameExpansion(n, x),
         n.body = x.body, n.pc \notin {"log", "expand", "answered"},
         n.op = "getUserRatingSummary" /\ n.pc = "latest" =>
           n.count \in Nat /\ n.count <= Cardinality(RatedIn(d, n.target))
  PROVE  InFlight(n, d, rows)
<1>1. Asks(n)
  BY DEF InFlight, Asks, Who
<1>2. BodyOK(n, d, rows) /\ MapsOK(n) /\ AnswerOK(n, d, rows) /\ Parted(n, d.block)
  BY DEF InFlight, BodyOK, MapsOK, AnswerOK, Parted, Who, SameExpansion
<1>3. FavoritesApart(n)
  BY DEF InFlight, FavoritesApart, Who, SameExpansion
<1>4. MapsComplete(n, d, rows) /\ Counted(n, d)
  BY DEF MapsComplete, Counted
<1> QED BY <1>1, <1>2, <1>3, <1>4 DEF InFlight

\* The handler returns a body.
LEMMA Returns ==
  ASSUME NEW d, NEW rows, NEW x, InFlight(x, d, rows), x.pc # "idle",
         NEW n, Who(n, x), SameExpansion(n, x), n.pc = "expand", n.todo = TodoOf(n.body),
         BodyOK(n, d, rows),
         n.op = "listFavorites" => \A m \in n.body : \A i \in DOMAIN m :
           Reference(m, i) /\ Refers(m[i].key) = "user" => m[i].value \notin n.apart,
         n.op = "getUserRatingSummary" =>
           IsFiniteSet(n.body) /\ (n.count <= Cardinality(n.body) \/ Cardinality(n.body) = RatingsPage)
  PROVE  InFlight(n, d, rows)
<1>1. Asks(n)
  BY DEF InFlight, Asks, Who
<1>2. MapsOK(n) /\ AnswerOK(n, d, rows) /\ Parted(n, d.block)
  BY DEF InFlight, MapsOK, AnswerOK, Parted, Who, SameExpansion
<1>3. FavoritesApart(n)
  BY DEF InFlight, FavoritesApart, Who, SameExpansion
<1>4. MapsComplete(n, d, rows)
  BY DEF MapsComplete, TodoOf
<1>5. Counted(n, d)
  BY DEF Counted
<1> QED BY <1>1, <1>2, <1>3, <1>4, <1>5 DEF InFlight

\* The admin handler has its result and goes on to log it.
LEMMA Logs ==
  ASSUME NEW d, NEW rows, NEW x, InFlight(x, d, rows), x.pc # "idle", x.op \in AdminOps,
         NEW n, Who(n, x), SameExpansion(n, x), n.pc = "log", BodyOK(n, d, rows), EntryOf(n) \in Entries
  PROVE  InFlight(n, d, rows)
<1>1. Asks(n)
  BY DEF InFlight, Asks, Who
<1>2. MapsOK(n) /\ AnswerOK(n, d, rows) /\ Parted(n, d.block)
  BY DEF InFlight, MapsOK, AnswerOK, Parted, Who, SameExpansion
<1>3. n.op \notin {"listFavorites", "getUserRatingSummary"}
  BY DEF AdminOps, Who
<1>4. FavoritesApart(n) /\ Counted(n, d) /\ MapsComplete(n, d, rows)
  BY <1>3 DEF FavoritesApart, Counted, MapsComplete
<1> QED BY <1>1, <1>2, <1>4 DEF InFlight

-----------------------------------------------------------------------------
(* What the queries of the expansion find *)

LEMMA RowParts ==
  ASSUME NEW e, NEW id, NEW of
  PROVE  Row(e, id, of).entity = e /\ Row(e, id, of).id = id /\ Row(e, id, of).of = of
BY DEF Row

LEMMA SnapshotParts ==
  /\ DOMAIN Snapshot.user = Users /\ \A u \in Users : Snapshot.user[u].deleted = db.account[u].deleted
  /\ DOMAIN Snapshot.category = DOMAIN db.category
  /\ DOMAIN Snapshot.product = Products
  /\ \A p \in Products : /\ Snapshot.product[p].owner = ProductOwner[p]
                         /\ Snapshot.product[p].deleted = (p \in db.deleted)
  /\ Snapshot.message = {1} /\ Snapshot.conversation = {1} /\ Snapshot.file = {File}
BY DEF Snapshot

\* No query shows who was gone before, nor finds less than what is there.
LEMMA QueryFinds ==
  ASSUME NEW gone, gone \subseteq {u \in Users : db.account[u].deleted}, NEW rows, NEW ids, NEW e \in EntityTypes,
         e = "category" => \A v \in ids : v \in 1..db.lastCategory /\ v \notin DOMAIN rows
  PROVE  /\ Fetched(e, resolveEntities(Snapshot, e, ids), gone)
         /\ \A v \in ids : (\E r \in resolveEntities(Snapshot, e, ids) : r.id = v) \/ Missing(db, rows, e, v)
<1> PICK sn : sn = Snapshot
  OBVIOUS
<1>0. /\ DOMAIN sn.user = Users /\ \A u \in Users : sn.user[u].deleted = db.account[u].deleted
      /\ DOMAIN sn.category = DOMAIN db.category
      /\ DOMAIN sn.product = Products
      /\ \A p \in Products : sn.product[p].owner = ProductOwner[p] /\ sn.product[p].deleted = (p \in db.deleted)
      /\ sn.message = {1} /\ sn.conversation = {1} /\ sn.file = {File}
  BY SnapshotParts
<1> PICK found : found = resolveEntities(sn, e, ids)
  OBVIOUS
<1> SUFFICES Fetched(e, found, gone) /\ \A v \in ids : (\E r \in found : r.id = v) \/ Missing(db, rows, e, v)
  OBVIOUS
<1>1. CASE e = "user"
  <2>1. found = fetchUsers(sn, ids)
    BY <1>1 DEF resolveEntities
  <2>2. \A r \in found : r.entity = "user" /\ r.id \notin gone
    BY <1>0, <2>1, RowParts DEF fetchUsers
  <2>3. ASSUME NEW v \in ids \cap Users, ~db.account[v].deleted PROVE \E r \in found : r.id = v
    <3>1. Row("user", v, sn.user[v].avatar) \in found
      BY <1>0, <2>1, <2>3 DEF fetchUsers
    <3> QED BY <3>1, RowParts
  <2> QED BY <1>1, <2>2, <2>3 DEF Fetched, Missing
<1>2. CASE e = "category"
  <2>1. found = fetchCategories(sn, ids)
    BY <1>2 DEF resolveEntities
  <2>2. \A r \in found : r.entity = "category"
    BY <2>1, RowParts DEF fetchCategories
  <2>3. \A v \in ids \cap DOMAIN db.category : \E r \in found : r.id = v
    BY <1>0, <2>1, RowParts DEF fetchCategories
  <2> QED BY <1>2, <2>2, <2>3 DEF Fetched, Missing
<1>3. CASE e = "product"
  <2>1. found = fetchProducts(sn, ids)
    BY <1>3 DEF resolveEntities
  <2>2. \A r \in found : r.entity = "product" /\ r.of \notin gone
    <3> SUFFICES ASSUME NEW r \in found PROVE r.entity = "product" /\ r.of \notin gone
      OBVIOUS
    <3>1. PICK p \in Products : LET o == sn.product[p].owner IN
                                r = Row("product", p, IF sn.user[o].deleted THEN Null ELSE o)
      BY <1>0, <2>1 DEF fetchProducts
    <3> DEFINE o == ProductOwner[p]
    <3>2. o \in Users /\ Null \notin Users
      BY IdsInNat
    <3>3. r = Row("product", p, IF db.account[o].deleted THEN Null ELSE o)
      BY <1>0, <3>1, <3>2
    <3>4. r.entity = "product" /\ r.of = IF db.account[o].deleted THEN Null ELSE o
      BY <3>3, RowParts
    <3> QED BY <3>2, <3>4
  <2>3. ASSUME NEW v \in ids \cap Products, v \notin db.deleted PROVE \E r \in found : r.id = v
    <3>1. v \in {q \in ids \cap DOMAIN sn.product : ~sn.product[q].deleted}
      BY <1>0, <2>3
    <3>2. \E of : Row("product", v, of) \in found
      BY <2>1, <3>1 DEF fetchProducts
    <3> QED BY <3>2, RowParts
  <2> QED BY <1>3, <2>2, <2>3 DEF Fetched, Missing
<1>4. CASE e = "message"
  <2>1. found = fetchMessages(sn, ids)
    BY <1>4 DEF resolveEntities
  <2>2. (\A r \in found : r.entity = "message") /\ (1 \in ids => \E r \in found : r.id = 1)
    BY <1>0, <2>1, RowParts DEF fetchMessages
  <2> QED BY <1>4, <2>2 DEF Fetched, Missing
<1>5. CASE e = "conversation"
  <2>1. found = fetchConversations(sn, ids)
    BY <1>5 DEF resolveEntities
  <2>2. (\A r \in found : r.entity = "conversation") /\ (1 \in ids => \E r \in found : r.id = 1)
    BY <1>0, <2>1, RowParts DEF fetchConversations
  <2> QED BY <1>5, <2>2 DEF Fetched, Missing
<1>6. CASE e = "file"
  <2>1. found = fetchFiles(sn, ids)
    BY <1>6 DEF resolveEntities
  <2>2. (\A r \in found : r.entity = "file") /\ (File \in ids => \E r \in found : r.id = File)
    BY <1>0, <2>1, RowParts DEF fetchFiles
  <2> QED BY <1>6, <2>2 DEF Fetched, Missing
<1> QED BY <1>1, <1>2, <1>3, <1>4, <1>5, <1>6 DEF EntityTypes

\* A missing row is not found.
LEMMA MissingNotFound ==
  ASSUME NEW rows, NEW e \in EntityTypes, NEW v, Missing(db, rows, e, v)
  PROVE  resolveEntities(Snapshot, e, {v}) = {}
<1> PICK sn : sn = Snapshot
  OBVIOUS
<1>0. /\ DOMAIN sn.user = Users /\ \A u \in Users : sn.user[u].deleted = db.account[u].deleted
      /\ DOMAIN sn.category = DOMAIN db.category
      /\ DOMAIN sn.product = Products /\ \A p \in Products : sn.product[p].deleted = (p \in db.deleted)
      /\ sn.message = {1} /\ sn.conversation = {1} /\ sn.file = {File}
  BY SnapshotParts
<1>1. CASE e = "user"
  BY <1>0, <1>1 DEF Missing, resolveEntities, fetchUsers
<1>2. CASE e = "category"
  BY <1>0, <1>2 DEF Missing, resolveEntities, fetchCategories
<1>3. CASE e = "product"
  <2>1. {q \in {v} \cap DOMAIN sn.product : ~sn.product[q].deleted} = {}
    BY <1>0, <1>3 DEF Missing
  <2>2. fetchProducts(sn, {v}) = {}
    BY <2>1 DEF fetchProducts
  <2> QED BY <1>3, <2>2 DEF resolveEntities
<1>4. CASE e \in {"message", "conversation"}
  BY <1>0, <1>4 DEF Missing, resolveEntities, fetchMessages, fetchConversations
<1>5. CASE e = "file"
  BY <1>0, <1>5 DEF Missing, resolveEntities, fetchFiles
<1> QED BY <1>1, <1>2, <1>3, <1>4, <1>5 DEF EntityTypes

LEMMA ParentsCollected ==
  ASSUME NEW x, NEW d, NEW rows, BodyOK(x, d, rows), NEW v \in collectIds(x.body, "category")
  PROVE  v \in 1..d.lastCategory /\ v \notin DOMAIN rows
<1>1. PICK n \in x.body : \E i \in DOMAIN n : /\ Expands(n[i].key, n) /\ FK_RULES[n[i].key] = "category"
                                              /\ toPositiveInt(n[i].value) # Null /\ v = n[i].value
  BY DEF collectIds
<1>2. PICK i \in DOMAIN n : /\ Expands(n[i].key, n) /\ FK_RULES[n[i].key] = "category"
                            /\ toPositiveInt(n[i].value) # Null /\ v = n[i].value
  BY <1>1
<1>3. Refers(n[i].key) = "category"
  BY <1>2 DEF BodyOK, WellFormed
<1>4. n[i].key = Id("parent")
  BY <1>3 DEF Refers
<1>5. v # Null
  BY <1>2 DEF toPositiveInt, Null
<1> QED BY <1>2, <1>4, <1>5 DEF BodyOK, Committed

-----------------------------------------------------------------------------
(* The interceptor *)

LEMMA Resolves ==
  ASSUME Inv, NEW s \in Slots, NEW e \in EntityTypes, resolve(s, e), InFlight(slot[s], db, seed.rows)
  PROVE  InFlight(slot'[s], db, seed.rows)
<1> PICK x, n, found : /\ x = slot[s] /\ n = slot'[s]
                       /\ found = resolveEntities(Snapshot, e, collectIds(slot[s].body, e))
  OBVIOUS
<1>1. /\ x.pc = "expand" /\ n.pc = "expand" /\ Who(n, x) /\ n.apart = x.apart /\ n.count = x.count
      /\ n.body = x.body /\ n.answer = x.answer /\ n.todo = x.todo \ {e} /\ n.maps = [x.maps EXCEPT ![e] = found]
  BY ResolveStep DEF resolve
<1>2. InFlight(x, db, seed.rows) /\ x.gone \subseteq {u \in Users : db.account[u].deleted}
  BY DEF Inv, Requests, RequestOK
<1>3. e = "category" => \A v \in collectIds(x.body, e) : v \in 1..db.lastCategory /\ v \notin DOMAIN seed.rows
  BY <1>2, ParentsCollected DEF InFlight
<1>4. /\ Fetched(e, found, x.gone)
      /\ \A v \in collectIds(x.body, e) : (\E r \in found : r.id = v) \/ Missing(db, seed.rows, e, v)
  BY <1>2, <1>3, QueryFinds
<1>5. DOMAIN x.maps = EntityTypes /\ \A f \in EntityTypes : Fetched(f, x.maps[f], x.gone)
  BY <1>2 DEF InFlight, MapsOK
<1>6. DOMAIN n.maps = EntityTypes /\ n.maps[e] = found /\ \A f \in EntityTypes \ {e} : n.maps[f] = x.maps[f]
  BY <1>1, <1>5
<1>7. MapsOK(n)
  BY <1>1, <1>4, <1>5, <1>6 DEF MapsOK, Who
<1>8. MapsComplete(n, db, seed.rows)
  BY <1>1, <1>2, <1>4, <1>6 DEF MapsComplete, InFlight
<1>9. Asks(n) /\ BodyOK(n, db, seed.rows) /\ AnswerOK(n, db, seed.rows) /\ Parted(n, db.block)
  BY <1>1, <1>2 DEF InFlight, Asks, BodyOK, AnswerOK, Parted, Who
<1>10. FavoritesApart(n) /\ Counted(n, db)
  BY <1>1, <1>2 DEF InFlight, FavoritesApart, Counted, Who
<1> QED BY <1>7, <1>8, <1>9, <1>10 DEF InFlight

LEMMA FirstIs ==
  ASSUME NEW n, WellFormed(n), NEW i \in DOMAIN n
  PROVE  FirstWith(n, OutKey(n, i)) = i
<1>1. PICK k \in Nat : DOMAIN n = 1..k
  BY DEF WellFormed
<1>2. \A j \in DOMAIN n : OutKey(n, j) = OutKey(n, i) => j = i
  BY DEF WellFormed
<1>3. \A j \in 1..(i - 1) : OutKey(n, j) # OutKey(n, i)
  BY <1>1, <1>2
<1> QED BY <1>2, <1>3 DEF FirstWith

\* What stands under the key of entry i of the answer.
LEMMA Transformed ==
  ASSUME NEW n, WellFormed(n), NEW i \in DOMAIN n, NEW maps
  PROVE  /\ OutKey(n, i) \in DOMAIN transformNode(n, maps)
         /\ Reference(n, i) => transformNode(n, maps)[OutKey(n, i)] = Resolved(n, i, maps)
         /\ ~Reference(n, i) => transformNode(n, maps)[OutKey(n, i)] = Scalar(n[i].value)
<1>1. FirstWith(n, OutKey(n, i)) = i
  BY FirstIs
<1>2. Expands(n[i].key, n) <=> Reference(n, i)
  BY DEF WellFormed
<1> QED BY <1>1, <1>2 DEF transformNode

\* The row in place of a reference.
LEMMA ReferenceResolved ==
  ASSUME NEW x, NEW d, NEW rows, InFlight(x, d, rows), x.pc = "expand", x.todo = {},
         NEW n \in x.body, NEW i \in DOMAIN n, Reference(n, i), NEW r, r = Resolved(n, i, x.maps)
  PROVE  LET e == Refers(n[i].key) IN
         \/ r = NoRow /\ (n[i].value = Null \/ Missing(d, rows, e, n[i].value))
         \/ r \in x.maps[e] /\ r.entity = e /\ r.id = n[i].value /\ e \in EntityTypes
<1> DEFINE e == Refers(n[i].key)
           v == n[i].value
<1>1. WellFormed(n) /\ FK_RULES[n[i].key] = e /\ e \in EntityTypes /\ v \in Nat /\ Expands(n[i].key, n)
  BY DEF InFlight, BodyOK, WellFormed
<1>2. toPositiveInt(v) = v
  BY <1>1 DEF toPositiveInt, Null
<1>3. r = LET found == {row \in x.maps[e] : row.id = v} IN IF found = {} THEN NoRow ELSE CHOOSE row \in found : TRUE
  BY <1>1, <1>2 DEF Resolved
<1>4. CASE \E row \in x.maps[e] : row.id = v
  <2>1. r \in x.maps[e] /\ r.id = v
    BY <1>3, <1>4
  <2>2. r.entity = e
    BY <1>1, <2>1 DEF InFlight, MapsOK, Fetched
  <2> QED BY <1>1, <2>1, <2>2
<1>5. CASE ~\E row \in x.maps[e] : row.id = v
  <2>1. r = NoRow
    BY <1>3, <1>5
  <2>2. v # Null => v \in collectIds(x.body, e)
    BY <1>1, <1>2 DEF collectIds
  <2>3. v # Null => Missing(d, rows, e, v)
    BY <1>1, <1>5, <2>2 DEF InFlight, MapsComplete
  <2> QED BY <2>1, <2>3
<1> QED BY <1>4, <1>5

LEMMA NoRowParts == NoRow.entity = "null" /\ NoRow.id = Null /\ \A v : Scalar(v).entity = "scalar"
BY RowParts DEF NoRow, Scalar

LEMMA Expanded ==
  ASSUME NEW x, NEW d, NEW rows, InFlight(x, d, rows), x.pc = "expand", x.todo = {},
         NEW a \in AnswerOf(x.body, x.maps)
  PROVE  /\ Exact(a, d, rows) /\ Hides(a, x.gone)
         /\ x.op = "listFavorites" => \A key \in DOMAIN a.out : a.out[key].entity = "user" => a.out[key].id \notin x.apart
<1>1. PICK n \in x.body : a = [of |-> n, out |-> transformNode(n, x.maps)]
  BY DEF AnswerOf
<1> PICK out : out = transformNode(n, x.maps)
  OBVIOUS
<1>2. a.of = n /\ a.out = out /\ WellFormed(n)
  BY <1>1 DEF InFlight, BodyOK
<1>3. \A i \in DOMAIN n : /\ Reference(n, i) => out[OutKey(n, i)] = Resolved(n, i, x.maps)
                          /\ ~Reference(n, i) => out[OutKey(n, i)] = Scalar(n[i].value)
  BY <1>2, Transformed
<1>4. DOMAIN out = {OutKey(n, i) : i \in DOMAIN n}
  BY DEF transformNode
<1>5. \A i \in DOMAIN n : /\ ~Reference(n, i) => OutKey(n, i) = n[i].key
                          /\ Reference(n, i) => OutKey(n, i) = Stem(n[i].key)
                          /\ Reference(n, i) => Refers(n[i].key) \in EntityTypes
  BY <1>2 DEF WellFormed, OutKey
<1>6. Exact(a, d, rows)
  <2>1. ASSUME NEW i \in DOMAIN n, ~Reference(n, i) PROVE out[n[i].key] = Scalar(n[i].value)
    BY <1>3, <1>5, <2>1
  <2>2. ASSUME NEW i \in DOMAIN n, Reference(n, i)
        PROVE  LET r == out[Stem(n[i].key)]
                   e == Refers(n[i].key)
                   v == n[i].value
               IN  r.entity \in {e, "null"} /\ r.id \in {v, Null} /\ (r = NoRow => v = Null \/ Missing(d, rows, e, v))
    <3> PICK r : r = Resolved(n, i, x.maps)
      OBVIOUS
    <3>1. r = out[Stem(n[i].key)]
      BY <1>3, <1>5, <2>2
    <3>2. \/ r = NoRow /\ (n[i].value = Null \/ Missing(d, rows, Refers(n[i].key), n[i].value))
          \/ r.entity = Refers(n[i].key) /\ r.id = n[i].value /\ Refers(n[i].key) \in EntityTypes
      BY <2>2, ReferenceResolved
    <3>3. r = NoRow => r.entity = "null" /\ r.id = Null
      BY NoRowParts
    <3> QED BY <3>1, <3>2, <3>3 DEF EntityTypes
  <2> QED BY <1>2, <2>1, <2>2 DEF Exact
<1>7. ASSUME NEW key \in DOMAIN out
      PROVE  /\ out[key].entity = "user" => out[key].id \notin x.gone
             /\ out[key].entity = "product" => out[key].of \notin x.gone
             /\ x.op = "listFavorites" /\ out[key].entity = "user" => out[key].id \notin x.apart
  <2>1. PICK i \in DOMAIN n : key = OutKey(n, i)
    BY <1>4
  <2>2. CASE ~Reference(n, i)
    <3>1. out[key].entity = "scalar"
      BY <1>3, <2>1, <2>2, NoRowParts
    <3> QED BY <3>1
  <2>3. CASE Reference(n, i)
    <3> PICK r : r = Resolved(n, i, x.maps)
      OBVIOUS
    <3>1. r = out[key]
      BY <1>3, <2>1, <2>3
    <3>2. \/ r = NoRow
          \/ r \in x.maps[Refers(n[i].key)] /\ r.entity = Refers(n[i].key) /\ r.id = n[i].value
      BY <2>3, ReferenceResolved
    <3>3. r = NoRow => r.entity = "null"
      BY NoRowParts
    <3>4. r \in x.maps[Refers(n[i].key)] =>
            /\ Refers(n[i].key) = "user" => r.id \notin x.gone
            /\ Refers(n[i].key) = "product" => r.of \notin x.gone
      BY <1>5, <2>3 DEF InFlight, MapsOK, Fetched
    <3>5. x.op = "listFavorites" /\ Refers(n[i].key) = "user" => n[i].value \notin x.apart
      BY <2>3 DEF InFlight, FavoritesApart
    <3> QED BY <3>1, <3>2, <3>3, <3>4, <3>5
  <2> QED BY <2>2, <2>3
<1> QED BY <1>2, <1>6, <1>7 DEF Hides

LEMMA OneAnswerPerNode ==
  ASSUME NEW body, IsFiniteSet(body), NEW maps
  PROVE  Cardinality(AnswerOf(body, maps)) = Cardinality(body)
<1> DEFINE answer == AnswerOf(body, maps)
           f == [n \in body |-> [of |-> n, out |-> transformNode(n, maps)]]
<1>1. answer = {f[n] : n \in body} /\ \A n \in body : f[n].of = n
  BY DEF AnswerOf
<1>2. f \in [body -> answer]
  BY DEF AnswerOf
<1> HIDE DEF f, answer
<1>3. f \in Bijection(body, answer)
  BY <1>1, <1>2 DEF Bijection, Injection, Surjection, IsInjective
<1>4. ExistsBijection(body, answer)
  BY <1>3 DEF ExistsBijection
<1>5. Cardinality(answer) = Cardinality(body)
  BY <1>4, FS_Bijection
<1> QED BY <1>5 DEF answer

LEMMA CountedBody ==
  ASSUME NEW x, NEW d, Counted(x, d), x.op = "getUserRatingSummary", x.pc = "expand"
  PROVE  IsFiniteSet(x.body) /\ (x.count <= Cardinality(x.body) \/ Cardinality(x.body) = RatingsPage)
BY DEF Counted

LEMMA ExpandsKeeps ==
  ASSUME Inv, NEW s \in Slots, expand(s), InFlight(slot[s], db, seed.rows)
  PROVE  InFlight(slot'[s], db, seed.rows)
<1> PICK x, n : x = slot[s] /\ n = slot'[s]
  OBVIOUS
<1>1. /\ x.pc = "expand" /\ x.todo = {} /\ n.pc = "answered" /\ Who(n, x) /\ n.apart = x.apart /\ n.count = x.count
      /\ n.body = x.body /\ n.maps = x.maps /\ n.answer = AnswerOf(x.body, x.maps)
  BY ExpandStep DEF expand
<1>2. InFlight(x, db, seed.rows)
  OBVIOUS
<1>3. \A a \in n.answer :
        /\ Exact(a, db, seed.rows) /\ Hides(a, x.gone)
        /\ x.op = "listFavorites" => \A key \in DOMAIN a.out : a.out[key].entity = "user" => a.out[key].id \notin x.apart
  BY <1>1, <1>2, Expanded
<1>4. AnswerOK(n, db, seed.rows)
  BY <1>1, <1>3 DEF AnswerOK, Who
<1>5. FavoritesApart(n)
  BY <1>1, <1>2, <1>3 DEF FavoritesApart, InFlight, Who
<1>6. Counted(n, db)
  <2> SUFFICES ASSUME x.op = "getUserRatingSummary"
               PROVE  n.count <= Cardinality(n.answer) \/ Cardinality(n.answer) = RatingsPage
    BY <1>1 DEF Counted, Who
  <2>1. IsFiniteSet(x.body) /\ (x.count <= Cardinality(x.body) \/ Cardinality(x.body) = RatingsPage)
    <3>1. Counted(x, db)
      BY <1>2 DEF InFlight
    <3> QED BY <1>1, <3>1, CountedBody
  <2>2. Cardinality(n.answer) = Cardinality(x.body)
    BY <1>1, <2>1, OneAnswerPerNode
  <2> QED BY <1>1, <2>1, <2>2
<1>7. Asks(n) /\ BodyOK(n, db, seed.rows) /\ MapsOK(n) /\ Parted(n, db.block)
  BY <1>1, <1>2 DEF InFlight, Asks, BodyOK, MapsOK, Parted, Who
<1>8. MapsComplete(n, db, seed.rows)
  BY <1>1 DEF MapsComplete
<1> QED BY <1>4, <1>5, <1>6, <1>7, <1>8 DEF InFlight

\* The latest ratings: as many containers as rows.
LEMMA OneNodePerRating ==
  ASSUME NEW page, IsFiniteSet(page), page \subseteq Users \X Users, NEW body, body = {RatingNode(r) : r \in page}
  PROVE  IsFiniteSet(body) /\ Cardinality(body) = Cardinality(page)
<1> DEFINE f == [r \in page |-> RatingNode(r)]
<1>1. body = {f[r] : r \in page} /\ \A r \in page : f[r] = RatingNode(r)
  OBVIOUS
<1>2. f \in [page -> body]
  OBVIOUS
<1>3. ASSUME NEW r \in page PROVE RatingNode(r)[1].value = r[1] /\ RatingNode(r)[2].value = r[2]
  <2>1. RatingNode(r) = <<E(Id("rater"), r[1]), E(Id("rated_user"), r[2])>>
    BY DEF RatingNode
  <2> QED BY <2>1, TwoParts
<1>4. \A r, q \in page : RatingNode(r) = RatingNode(q) => r = q
  <2> SUFFICES ASSUME NEW r \in page, NEW q \in page, RatingNode(r) = RatingNode(q) PROVE r = q
    OBVIOUS
  <2>1. r[1] = q[1] /\ r[2] = q[2]
    BY <1>3
  <2>2. r = <<r[1], r[2]>> /\ q = <<q[1], q[2]>>
    OBVIOUS
  <2> QED BY <2>1, <2>2
<1> HIDE DEF f
<1>5. f \in Bijection(page, body)
  BY <1>1, <1>2, <1>4 DEF Bijection, Injection, Surjection, IsInjective
<1> QED BY <1>5, FS_Bijection DEF ExistsBijection

-----------------------------------------------------------------------------
(* Arrivals *)

LEMMA ArriveKeeps ==
  ASSUME Inv, ArrivalsTyped, NEW s \in Slots, NEW op \in mix.ops \ {"seed-prod"}, NEW by \in Users,
         NEW target \in TargetsOf(op), NEW arg \in ArgsOf(op), NEW parent \in ParentsOf(op),
         Arrive(s, op, by, target, arg, parent)
  PROVE  InFlight(slot'[s], db, seed.rows) /\ Others(s) /\ left' \in Nat
<1> PICK pc, gone, apart : /\ pc = First(op, parent) /\ gone = {u \in Users : db.account[u].deleted}
                           /\ apart = {u \in Users : hasBlockBetweenUsers(by, u)}
  OBVIOUS
<1> PICK n : n = [Idle EXCEPT !.pc = pc, !.rid = left, !.op = op, !.by = by, !.target = target,
                              !.arg = arg, !.parent = parent, !.gone = gone, !.apart = apart]
  OBVIOUS
<1>1. slot' = [slot EXCEPT ![s] = n] /\ left > 0 /\ left' = left - 1
  BY DEF Arrive
<1>2. left \in Nat \ {0} /\ left' \in Nat
  BY <1>1 DEF ArrivalsTyped
<1>3. /\ n.pc = pc /\ n.rid = left /\ n.op = op /\ n.by = by /\ n.target = target /\ n.arg = arg
      /\ n.parent = parent /\ n.apart = apart /\ n.body = {} /\ n.answer = {} /\ n.maps = [e \in EntityTypes |-> {}]
  BY DEF Idle
<1>4. pc \notin {"idle", "log", "expand", "latest", "answered"}
  BY DEF First
<1>5. op \in AdminOps \cup UserOps
  <2>1. mix.ops \subseteq AdminOps \cup UserOps \cup {"seed-prod"}
    BY DataAssumption DEF ArrivalsTyped
  <2> QED BY <2>1
<1>6. Asks(n)
  BY <1>2, <1>3, <1>4, <1>5 DEF Asks
<1>7. MapsOK(n)
  BY <1>3 DEF MapsOK, Fetched
<1>8. Parted(n, db.block)
  BY <1>3 DEF Parted, hasBlockBetweenUsers
<1>9. BodyOK(n, db, seed.rows) /\ MapsComplete(n, db, seed.rows) /\ AnswerOK(n, db, seed.rows) /\ FavoritesApart(n)
  BY <1>3, <1>4 DEF BodyOK, MapsComplete, AnswerOK, FavoritesApart
<1>10. Counted(n, db)
  BY <1>3, <1>4 DEF Counted
<1>11. slot'[s] = n /\ Others(s)
  BY <1>1, Replaced
<1> QED BY <1>2, <1>6, <1>7, <1>8, <1>9, <1>10, <1>11 DEF InFlight

-----------------------------------------------------------------------------
(* The steps of a request: what it writes, and what it has read afterwards *)

Step(s) ==
  /\ Ages(db, seed.rows, db', seed'.rows) /\ TablesTyped' /\ LogTyped' /\ db.block \subseteq db'.block
  /\ InFlight(slot'[s], db', seed'.rows) /\ Others(s)

LEMMA RatingsFinite == ASSUME NEW ratings, ratings \subseteq Users \X Users PROVE IsFiniteSet(ratings)
<1>1. IsFiniteSet(Users)
  BY FS_Interval, BoundsAssumption DEF Users
<1>2. IsFiniteSet(Users \X Users)
  BY <1>1, FS_Product
<1> QED BY <1>2, FS_Subset

LEMMA StepKeeps ==
  ASSUME RInv, NEW s \in Slots, Step(s), UNCHANGED <<left, mix>>
  PROVE  RInv'
<1>1. ASSUME NEW t \in Slots PROVE InFlight(slot'[t], db', seed'.rows)
  <2>1. CASE t = s
    BY <2>1 DEF Step
  <2>2. CASE t # s
    <3>1. slot'[t] = slot[t] /\ InFlight(slot[t], db, seed.rows)
      BY <2>2 DEF Step, Others, RInv
    <3>2. Parted(slot[t], db'.block)
      BY <3>1 DEF InFlight, Parted, Step
    <3>3. Ages(db, seed.rows, db', seed'.rows)
      BY DEF Step
    <3> QED BY <3>1, <3>2, <3>3, InFlightAges
  <2> QED BY <2>1, <2>2
<1> QED BY <1>1 DEF RInv, ArrivalsTyped, Step

\* A write that leaves the category tree alone.
LEMMA TreeUntouched ==
  ASSUME Inv, SameTree(db, db'), seed'.rows = seed.rows, Buried, db.deleted \subseteq db'.deleted,
         db.rating \subseteq db'.rating, db'.rating \subseteq Users \X Users
  PROVE  Ages(db, seed.rows, db', seed'.rows)
<1>1. db.lastCategory \in Nat
  BY DEF Inv, Tables, TreeOK
<1> QED BY <1>1, RatingsFinite DEF Ages, SameTree, Buried

LEMMA Unwritten ==
  ASSUME Inv, TablesTyped, UNCHANGED <<db, seed>>
  PROVE  Ages(db, seed.rows, db', seed'.rows) /\ TablesTyped' /\ db.block \subseteq db'.block
<1>1. Ages(db, seed.rows, db', seed'.rows)
  BY TreeUntouched DEF TablesTyped, SameTree, Buried
<1> QED BY <1>1 DEF TablesTyped

\* A request that only reads.
LEMMA ReadsOnly ==
  ASSUME Inv, RInv, NEW s \in Slots, UNCHANGED <<db, log, seed>>, InFlight(slot'[s], db, seed.rows), Others(s)
  PROVE  Step(s)
BY Unwritten DEF RInv, LogTyped, Step

LEMMA FinishesOnly == ASSUME Inv, RInv, NEW s \in Slots, UNCHANGED <<db, log, seed>>, Finish(s) PROVE Step(s)
BY FinishStep, IdleInFlight, ReadsOnly

LEMMA GoesOnOnly ==
  ASSUME Inv, RInv, NEW s \in Slots, UNCHANGED <<db, log, seed>>, slot[s].pc # "idle",
         NEW pc, Goto(s, pc), pc \notin {"log", "expand", "answered", "latest"}
  PROVE  Step(s)
<1>1. InFlight(slot[s], db, seed.rows)
  BY DEF RInv
<1>2. InFlight(slot'[s], db, seed.rows)
  BY <1>1, GotoStep, GoesOn
<1> QED BY <1>2, GotoStep, ReadsOnly

\* A body without parents, returned by a handler.
LEMMA ReturnsBody ==
  ASSUME Inv, NEW s \in Slots, NEW d, NEW rows, InFlight(slot[s], d, rows), slot[s].pc # "idle",
         slot[s].op \notin {"listFavorites", "getUserRatingSummary"},
         NEW body, Return(s, body), \A n \in body : WellFormed(n) /\ Committed(n, d, rows)
  PROVE  InFlight(slot'[s], d, rows) /\ Others(s)
<1> PICK x, n : x = slot[s] /\ n = slot'[s]
  OBVIOUS
<1>1. /\ Others(s) /\ n.pc = "expand" /\ Who(n, x) /\ SameExpansion(n, x) /\ n.body = body /\ n.todo = TodoOf(n.body)
  BY ReturnStep
<1>2. BodyOK(n, d, rows) /\ n.op \notin {"listFavorites", "getUserRatingSummary"}
  BY <1>1 DEF BodyOK, Who
<1> QED BY <1>1, <1>2, Returns

LEMMA FavoriteWrite ==
  ASSUME NEW d, DbShape(d), NEW v, NEW e, e = SetFavorite(d, v)
  PROVE  e.favorite = v /\ e.deleted = d.deleted /\ e.block = d.block
BY DEF SetFavorite, DbShape

LEMMA BlockWrite ==
  ASSUME NEW d, DbShape(d), NEW v, NEW e, e = SetBlock(d, v)
  PROVE  e.block = v /\ e.deleted = d.deleted /\ e.favorite = d.favorite
BY DEF SetBlock, DbShape

LEMMA DeletedWrite ==
  ASSUME NEW d, DbShape(d), NEW v, NEW e, e = SetDeleted(d, v)
  PROVE  e.deleted = v /\ e.block = d.block /\ e.favorite = d.favorite
BY DEF SetDeleted, DbShape

\* A request that has written is where it was in the new tables.
LEMMA StillInFlight ==
  ASSUME RInv, NEW s \in Slots, Ages(db, seed.rows, db', seed'.rows), db.block \subseteq db'.block
  PROVE  InFlight(slot[s], db', seed'.rows)
<1>1. InFlight(slot[s], db, seed.rows)
  BY DEF RInv
<1>2. Parted(slot[s], db'.block)
  BY <1>1 DEF InFlight, Parted
<1> QED BY <1>1, <1>2, InFlightAges

LEMMA EntryTyped ==
  ASSUME RInv, NEW s \in Slots, slot[s].pc # "idle", slot[s].op \in AdminOps \ {"listReports", "createCategory"}
  PROVE  Entry(s) \in Entries
<1>1. Asks(slot[s])
  BY DEF RInv, InFlight
<1>2. slot[s].target \in Users \cup Categories \cup Reports
  BY <1>1 DEF Asks, TargetsOf, AdminOps, ProductOps
<1> QED BY <1>1, <1>2 DEF Asks, Entry, Entries

LEMMA LogWrite ==
  ASSUME Inv, LogTyped, NEW e \in Entries,
         \/ log' = [log EXCEPT !.done = @ \cup {e}] \/ log' = [log EXCEPT !.audit = @ \cup {e}]
         \/ log' = [log EXCEPT !.lost = @ \cup {e}]
  PROVE  LogTyped'
<1>1. LogShape(log)
  BY DEF Inv, Tables
<1>2. CASE log' = [log EXCEPT !.done = @ \cup {e}]
  <2>1. log'.done = log.done \cup {e} /\ log'.audit = log.audit /\ log'.lost = log.lost
    BY <1>1, <1>2 DEF LogShape
  <2> QED BY <2>1 DEF LogTyped
<1>3. CASE log' = [log EXCEPT !.audit = @ \cup {e}]
  <2>1. log'.done = log.done /\ log'.audit = log.audit \cup {e} /\ log'.lost = log.lost
    BY <1>1, <1>3 DEF LogShape
  <2> QED BY <2>1 DEF LogTyped
<1>4. CASE log' = [log EXCEPT !.lost = @ \cup {e}]
  <2>1. log'.done = log.done /\ log'.audit = log.audit /\ log'.lost = log.lost \cup {e}
    BY <1>1, <1>4 DEF LogShape
  <2> QED BY <2>1 DEF LogTyped
<1> QED BY <1>2, <1>3, <1>4

\* An admin handler that has made its change.
LEMMA LogsBody ==
  ASSUME Inv, RInv, NEW s \in Slots, Ages(db, seed.rows, db', seed'.rows), db.block \subseteq db'.block,
         slot[s].pc # "idle", slot[s].op \in AdminOps, Entry(s) \in Entries, NEW body, ThenLog(s, body),
         \A n \in body : WellFormed(n) /\ Committed(n, db', seed'.rows)
  PROVE  InFlight(slot'[s], db', seed'.rows) /\ Others(s)
<1> PICK x, n : x = slot[s] /\ n = slot'[s]
  OBVIOUS
<1>1. Others(s) /\ n.pc = "log" /\ Who(n, x) /\ SameExpansion(n, x) /\ n.body = body
  BY ThenLogStep
<1>2. InFlight(x, db', seed'.rows)
  BY StillInFlight
<1>3. BodyOK(n, db', seed'.rows) /\ EntryOf(n) = Entry(s)
  BY <1>1 DEF BodyOK, EntryOf, Entry, Who
<1>4. InFlight(n, db', seed'.rows)
  BY <1>1, <1>2, <1>3, Logs
<1> QED BY <1>1, <1>4

-----------------------------------------------------------------------------
(* One lemma per group of actions *)

LEMMA ChecksStep == ASSUME Inv, RInv, NEW s \in Slots, assertUserExists(s) \/ RoleBefore(s) PROVE Step(s)
<1>1. /\ UNCHANGED <<db, log, seed>> /\ slot[s].pc # "idle"
      /\ Goto(s, "query") \/ Finish(s)
  BY DEF assertUserExists, RoleBefore
<1> QED BY <1>1, GoesOnOnly, FinishesOnly

LEMMA EndsStep == ASSUME Inv, RInv, NEW s \in Slots, Fail(s) \/ Send(s) PROVE Step(s)
<1>1. UNCHANGED <<db, log, seed>> /\ Finish(s)
  BY DEF Fail, Send
<1> QED BY <1>1, FinishesOnly

LEMMA InterceptorStep ==
  ASSUME Inv, RInv, NEW s \in Slots, expand(s) \/ \E e \in EntityTypes : resolve(s, e)
  PROVE  Step(s)
<1>1. InFlight(slot[s], db, seed.rows)
  BY DEF RInv
<1>2. CASE expand(s)
  BY <1>1, <1>2, ExpandsKeeps, ExpandStep, ReadsOnly DEF expand
<1>3. ASSUME NEW e \in EntityTypes, resolve(s, e) PROVE Step(s)
  BY <1>1, <1>3, Resolves, ResolveStep, ReadsOnly DEF resolve
<1> QED BY <1>2, <1>3

LEMMA logAdminActionStep == ASSUME Inv, RInv, NEW s \in Slots, logAdminAction(s) PROVE Step(s)
<1>1. /\ slot[s].pc = "log" /\ UNCHANGED <<db, seed>>
      /\ Finish(s) \/ Return(s, slot[s].body)
  BY DEF logAdminAction
<1>2. InFlight(slot[s], db, seed.rows)
  BY DEF RInv
<1>3. Entry(s) \in Entries
  BY <1>1, <1>2 DEF InFlight, Asks, Entry, EntryOf
<1>4. LogTyped'
  BY <1>3, LogWrite DEF logAdminAction, RInv
<1>5. slot[s].op \notin {"listFavorites", "getUserRatingSummary"}
  BY <1>3 DEF Entry, Entries, AdminOps
<1>6. \A n \in slot[s].body : WellFormed(n) /\ Committed(n, db, seed.rows)
  BY <1>2 DEF InFlight, BodyOK
<1>7. InFlight(slot'[s], db, seed.rows) /\ Others(s)
  BY <1>1, <1>2, <1>5, <1>6, ReturnsBody, FinishStep, IdleInFlight
<1> QED BY <1>1, <1>4, <1>7, Unwritten DEF RInv, Step

\* Writes of the accounts and of the reports leave the rest as it was.
LEMMA OwnTable ==
  ASSUME Inv, RInv, UNCHANGED seed, SameTree(db, db'), SameOthers(db, db'), db'.rating = db.rating,
         db'.warning = db.warning, Buried
  PROVE  Ages(db, seed.rows, db', seed'.rows) /\ TablesTyped' /\ db.block \subseteq db'.block
<1>1. Ages(db, seed.rows, db', seed'.rows)
  BY TreeUntouched DEF RInv, TablesTyped, SameOthers
<1> QED BY <1>1 DEF RInv, TablesTyped, SameOthers, SameTree

LEMMA RoleWriteStep == ASSUME Inv, RInv, NEW s \in Slots, RoleWrite(s) PROVE Step(s)
<1> DEFINE t == slot[s].target
<1>0. slot[s].pc # "idle" /\ slot[s].op \in AdminOps \ {"listReports", "createCategory"} /\ UNCHANGED seed /\ ThenLog(s, {})
  BY DEF RoleWrite, AdminOps
<1>1. Entry(s) \in Entries
  BY <1>0, EntryTyped
<1>2. /\ Ages(db, seed.rows, db', seed'.rows) /\ TablesTyped' /\ db.block \subseteq db'.block
      /\ LogTyped'
  <2>1. CASE Visible(t)
    <3> PICK v : v = [db.account EXCEPT ![t] = [db.account[t] EXCEPT !.admin = slot[s].op = "promoteAdmin"]]
      OBVIOUS
    <3>1. db' = SetAccount(db, v) /\ Changed(s)
      BY <2>1 DEF RoleWrite, SetAccount
    <3>2. db'.account = v /\ SameTree(db, db') /\ SameRows(db, db') /\ SameOthers(db, db')
      BY <3>1, AccountWrite DEF Inv, Tables
    <3>3. \A u \in Users : v[u].deleted = db.account[u].deleted
      BY <2>1 DEF Inv, Tables, Visible
    <3>4. Buried
      BY <3>2, <3>3 DEF Buried
    <3> QED BY <1>0, <1>1, <3>1, <3>2, <3>4, OwnTable, LogWrite DEF SameRows, Changed, RInv
  <2>2. CASE ~Visible(t)
    <3>1. UNCHANGED <<db, log>>
      BY <2>2 DEF RoleWrite
    <3> QED BY <1>0, <3>1, Unwritten DEF RInv, LogTyped
  <2> QED BY <2>1, <2>2
<1>3. InFlight(slot'[s], db', seed'.rows) /\ Others(s)
  BY <1>0, <1>1, <1>2, LogsBody
<1> QED BY <1>2, <1>3 DEF Step

LEMMA updateUserStep == ASSUME Inv, RInv, NEW s \in Slots, updateUser(s) PROVE Step(s)
<1> DEFINE t == slot[s].target
<1>0. slot[s].pc # "idle" /\ slot[s].op \in AdminOps \ {"listReports", "createCategory"} /\ UNCHANGED seed
  BY DEF updateUser, AdminOps
<1>1. Entry(s) \in Entries
  BY <1>0, EntryTyped
<1>2. CASE Visible(t)
  <2>0. t \in Users /\ ~db.account[t].deleted
    BY <1>2 DEF Visible
  <2> PICK v : v = [db.account EXCEPT ![t] = [db.account[t] EXCEPT !.deleted = slot[s].op = "deleteUser"]]
    OBVIOUS
  <2>1. db' = SetAccount(db, v) /\ Changed(s) /\ ThenLog(s, {})
    BY <1>2 DEF updateUser, SetAccount
  <2>2. db'.account = v /\ SameTree(db, db') /\ SameRows(db, db') /\ SameOthers(db, db')
    BY <2>1, AccountWrite DEF Inv, Tables
  <2>3. \A u \in Users : u # t => v[u] = db.account[u]
    BY DEF Inv, Tables
  <2>4. Buried
    BY <2>0, <2>2, <2>3 DEF Buried
  <2>5. Ages(db, seed.rows, db', seed'.rows) /\ TablesTyped' /\ db.block \subseteq db'.block
    BY <1>0, <2>2, <2>4, OwnTable DEF SameRows
  <2>6. LogTyped'
    BY <1>1, <2>1, LogWrite DEF Changed, RInv
  <2>7. InFlight(slot'[s], db', seed'.rows) /\ Others(s)
    BY <1>0, <1>1, <2>1, <2>5, LogsBody
  <2> QED BY <2>5, <2>6, <2>7 DEF Step
<1>3. CASE ~Visible(t)
  <2>1. UNCHANGED <<db, log, seed>> /\ Finish(s)
    BY <1>3 DEF updateUser
  <2> QED BY <2>1, FinishesOnly
<1> QED BY <1>2, <1>3

LEMMA NoParentCommitted == ASSUME NEW n, NoParent(n), NEW d, NEW rows PROVE Committed(n, d, rows)
BY DEF NoParent, Committed

LEMMA createReportStep == ASSUME Inv, RInv, NEW s \in Slots, createReport(s) PROVE Step(s)
<1> PICK r : r = [reporter |-> slot[s].by, reported |-> slot[s].target, status |-> "open", reviewer |-> Null]
  OBVIOUS
<1>1. slot[s].by \in Users /\ slot[s].target \in Users /\ slot[s].pc # "idle" /\ slot[s].op = "createReport"
  BY DEF createReport, At, Inv, Requests, RequestOK, TestedOps
<1>2. r \in Report
  BY <1>1 DEF Report
<1>3. db' = SetReport(db, Filed(db.report, r)) /\ Return(s, {ReportNode(r)}) /\ UNCHANGED <<log, seed>>
  BY DEF createReport, SetReport, Filed
<1>4. SameTree(db, db') /\ SameOthers(db, db') /\ db'.account = db.account /\ db'.rating = db.rating
      /\ db'.warning = db.warning
  BY <1>3, ReportWrite DEF Inv, Tables
<1>5. Ages(db, seed.rows, db', seed'.rows) /\ TablesTyped' /\ db.block \subseteq db'.block
  BY <1>3, <1>4, OwnTable DEF Buried
<1>6. InFlight(slot[s], db', seed'.rows)
  BY <1>5, StillInFlight
<1>7. \A n \in {ReportNode(r)} : WellFormed(n) /\ Committed(n, db', seed'.rows)
  BY <1>2, ReportNodeSound, NoParentCommitted
<1>8. InFlight(slot'[s], db', seed'.rows) /\ Others(s)
  BY <1>1, <1>3, <1>6, <1>7, ReturnsBody
<1> QED BY <1>3, <1>5, <1>8 DEF Step, RInv, LogTyped

LEMMA OneMore ==
  ASSUME NEW w \in [Users -> Nat], NEW t \in Users, NEW v, v = [w EXCEPT ![t] = @ + 1]
  PROVE  v \in [Users -> Nat]
<1>1. w[t] + 1 \in Nat
  OBVIOUS
<1> QED BY <1>1

LEMMA createWarningStep == ASSUME Inv, RInv, NEW s \in Slots, createWarning(s) PROVE Step(s)
<1> DEFINE t == slot[s].target
           node == <<E(Id("admin"), slot[s].by), E(Id("target_user"), t)>>
<1> PICK v : v = [db.warning EXCEPT ![t] = @ + 1]
  OBVIOUS
<1>1. /\ slot[s].pc # "idle" /\ slot[s].op \in AdminOps \ {"listReports", "createCategory"} /\ UNCHANGED seed
      /\ slot[s].by \in Users /\ t \in Users
  BY DEF createWarning, At, AdminOps, Inv, Requests, RequestOK, TestedOps
<1>2. Entry(s) \in Entries
  BY <1>1, EntryTyped
<1>3. db' = SetWarning(db, v) /\ Changed(s) /\ ThenLog(s, {node})
  BY DEF createWarning, SetWarning
<1>4. /\ db'.warning = v /\ SameTree(db, db') /\ SameOthers(db, db') /\ db'.account = db.account
      /\ db'.rating = db.rating
  BY <1>3, WarningWrite DEF Inv, Tables
<1>5. db.warning \in [Users -> Nat]
  BY DEF RInv, TablesTyped
<1>6. v \in [Users -> Nat]
  BY <1>1, <1>5, OneMore
<1>7. Ages(db, seed.rows, db', seed'.rows)
  BY <1>1, <1>4, TreeUntouched DEF Buried, SameOthers, RInv, TablesTyped
<1>8. TablesTyped' /\ db.block \subseteq db'.block
  BY <1>1, <1>4, <1>6 DEF RInv, TablesTyped, SameOthers, SameTree
<1>9. LogTyped'
  BY <1>2, <1>3, LogWrite DEF Changed, RInv
<1>10. \A n \in {node} : WellFormed(n) /\ Committed(n, db', seed'.rows)
  BY <1>1, WarningNodeSound, NoParentCommitted
<1> HIDE DEF node
<1>11. InFlight(slot'[s], db', seed'.rows) /\ Others(s)
  BY <1>1, <1>2, <1>3, <1>7, <1>8, <1>10, LogsBody
<1> QED BY <1>7, <1>8, <1>9, <1>11 DEF Step

LEMMA updateReportStatusStep == ASSUME Inv, RInv, NEW s \in Slots, updateReportStatus(s) PROVE Step(s)
<1> DEFINE i == slot[s].target
<1>1. /\ slot[s].pc # "idle" /\ slot[s].op \in AdminOps \ {"listReports", "createCategory"} /\ UNCHANGED seed
      /\ slot[s].by \in Users
  BY DEF updateReportStatus, At, AdminOps, Inv, Requests, RequestOK
<1>2. CASE i \in DOMAIN db.report
  <2> PICK v : v = [db.report EXCEPT ![i] = Reviewed(db.report[i], slot[s].by)]
    OBVIOUS
  <2> PICK node : node = ReviewedNode(db.report[i], slot[s].by)
    OBVIOUS
  <2>1. db' = SetReport(db, v) /\ Changed(s) /\ ThenLog(s, {node})
    BY <1>2 DEF updateReportStatus, SetReport, Reviewed, Inv, Tables
  <2>2. Entry(s) \in Entries
    BY <1>1, EntryTyped
  <2>3. SameTree(db, db') /\ SameOthers(db, db') /\ db'.account = db.account /\ db'.rating = db.rating
        /\ db'.warning = db.warning
    BY <2>1, ReportWrite DEF Inv, Tables
  <2>4. Ages(db, seed.rows, db', seed'.rows) /\ TablesTyped' /\ db.block \subseteq db'.block
    BY <1>1, <2>3, OwnTable DEF Buried
  <2>5. LogTyped'
    BY <2>1, <2>2, LogWrite DEF Changed, RInv
  <2>6. db.report[i] \in Report
    BY <1>2 DEF Inv, Tables
  <2>7. \A n \in {node} : WellFormed(n) /\ Committed(n, db', seed'.rows)
    BY <1>1, <2>6, ReviewedNodeSound, NoParentCommitted
  <2>8. InFlight(slot'[s], db', seed'.rows) /\ Others(s)
    BY <1>1, <2>1, <2>2, <2>4, <2>7, LogsBody
  <2> QED BY <2>4, <2>5, <2>8 DEF Step
<1>3. CASE i \notin DOMAIN db.report
  <2>1. UNCHANGED <<db, log>> /\ Finish(s)
    BY <1>3 DEF updateReportStatus
  <2> QED BY <1>1, <2>1, FinishesOnly
<1> QED BY <1>2, <1>3

LEMMA listReportsStep == ASSUME Inv, RInv, NEW s \in Slots, listReports(s) PROVE Step(s)
<1> PICK body : body = {ReportNode(db.report[r]) : r \in DOMAIN db.report}
  OBVIOUS
<1>1. Return(s, body) /\ UNCHANGED <<db, log, seed>> /\ slot[s].pc # "idle" /\ slot[s].op = "listReports"
  BY DEF listReports, At
<1>2. ASSUME NEW r \in DOMAIN db.report
      PROVE  LET n == ReportNode(db.report[r]) IN
             WellFormed(n) /\ Committed(n, db, seed.rows)
  <2>1. db.report[r] \in Report
    BY DEF Inv, Tables
  <2> QED BY <2>1, ReportNodeSound, NoParentCommitted
<1>3. \A n \in body : WellFormed(n) /\ Committed(n, db, seed.rows)
  BY <1>2
<1>4. InFlight(slot'[s], db, seed.rows) /\ Others(s)
  BY <1>1, <1>3, ReturnsBody DEF RInv
<1> QED BY <1>1, <1>4, ReadsOnly

LEMMA getMyReportsStep == ASSUME Inv, RInv, NEW s \in Slots, getMyReports(s) PROVE Step(s)
<1> PICK mine : mine = {r \in DOMAIN db.report : db.report[r].reporter = slot[s].by}
  OBVIOUS
<1> PICK body : body = {ReviewedNode(db.report[r], db.report[r].reviewer) : r \in mine}
  OBVIOUS
<1>1. Return(s, body) /\ UNCHANGED <<db, log, seed>> /\ slot[s].pc # "idle" /\ slot[s].op = "getMyReports"
  BY DEF getMyReports, At
<1>2. ASSUME NEW r \in mine
      PROVE  LET n == ReviewedNode(db.report[r], db.report[r].reviewer) IN
             WellFormed(n) /\ Committed(n, db, seed.rows)
  <2>1. db.report[r] \in Report
    BY DEF Inv, Tables
  <2>2. db.report[r].reviewer \in Users \cup {Null}
    BY <2>1 DEF Report
  <2> QED BY <2>1, <2>2, ReviewedNodeSound, NoParentCommitted
<1>3. \A n \in body : WellFormed(n) /\ Committed(n, db, seed.rows)
  BY <1>2
<1>4. InFlight(slot'[s], db, seed.rows) /\ Others(s)
  BY <1>1, <1>3, ReturnsBody DEF RInv
<1> QED BY <1>1, <1>4, ReadsOnly

LEMMA rateUserStep == ASSUME Inv, RInv, NEW s \in Slots, rateUser(s) PROVE Step(s)
<1> PICK r, v : r = <<slot[s].by, slot[s].target>> /\ v = db.rating \cup {r}
  OBVIOUS
<1>1. slot[s].by \in Users /\ slot[s].target \in Users /\ slot[s].pc # "idle" /\ slot[s].op = "rateUser"
  BY DEF rateUser, At, Inv, Requests, RequestOK, TestedOps
<1>2. db' = SetRating(db, v) /\ Return(s, {RatingNode(r)}) /\ UNCHANGED <<log, seed>>
  BY DEF rateUser, SetRating
<1>3. /\ db'.rating = v /\ SameTree(db, db') /\ SameOthers(db, db') /\ db'.account = db.account
      /\ db'.warning = db.warning
  BY <1>2, RatingWrite DEF Inv, Tables
<1>4. r \in Users \X Users /\ v \subseteq Users \X Users
  BY <1>1 DEF RInv, TablesTyped
<1>5. Ages(db, seed.rows, db', seed'.rows)
  BY <1>2, <1>3, <1>4, TreeUntouched DEF Buried, SameOthers
<1>6. TablesTyped' /\ db.block \subseteq db'.block
  BY <1>2, <1>3, <1>4 DEF RInv, TablesTyped, SameOthers, SameTree
<1>7. InFlight(slot[s], db', seed'.rows)
  BY <1>5, <1>6, StillInFlight
<1>8. \A n \in {RatingNode(r)} : WellFormed(n) /\ Committed(n, db', seed'.rows)
  BY <1>4, RatingNodeSound, NoParentCommitted
<1>9. InFlight(slot'[s], db', seed'.rows) /\ Others(s)
  BY <1>1, <1>2, <1>7, <1>8, ReturnsBody
<1> QED BY <1>2, <1>5, <1>6, <1>9 DEF Step, RInv, LogTyped

\* The count is taken first: ratings that arrive before the list make it longer.
LEMMA getUserRatingSummaryStep == ASSUME Inv, RInv, NEW s \in Slots, getUserRatingSummary(s) PROVE Step(s)
<1> DEFINE ratings == RatingsOf(slot[s].target)
<1> PICK x, n : x = slot[s] /\ n = slot'[s]
  OBVIOUS
<1>0. /\ UNCHANGED <<db, log, seed>> /\ x.pc \in {"query", "latest"} /\ x.op = "getUserRatingSummary"
      /\ InFlight(x, db, seed.rows) /\ db.rating \subseteq Users \X Users
  BY DEF getUserRatingSummary, RInv, TablesTyped
<1>1. /\ ratings = RatedIn(db, x.target) /\ ratings \subseteq Users \X Users
      /\ IsFiniteSet(ratings) /\ Cardinality(ratings) \in Nat
  <2>1. ratings = RatedIn(db, x.target) /\ ratings \subseteq Users \X Users
    BY <1>0 DEF RatingsOf, RatedIn
  <2> QED BY <2>1, RatingsFinite, FS_CardinalityType
<1> HIDE DEF ratings
<1>2. CASE x.pc = "query"
  <2> PICK count : count = Cardinality(ratings)
    OBVIOUS
  <2>1. slot' = [slot EXCEPT ![s].pc = "latest", ![s].count = count]
    BY <1>2 DEF getUserRatingSummary, ratings
  <2>2. /\ Others(s) /\ n.pc = "latest" /\ Who(n, x) /\ SameExpansion(n, x) /\ n.count = count /\ n.body = x.body
    BY <2>1, CountStep
  <2>3. n.count \in Nat /\ n.count <= Cardinality(RatedIn(db, n.target))
    BY <1>1, <2>2 DEF Who
  <2>4. InFlight(n, db, seed.rows)
    BY <1>0, <2>2, <2>3, GoesOn
  <2> QED BY <1>0, <2>2, <2>4, ReadsOnly
<1>3. CASE x.pc = "latest"
  <2>1. PICK page \in SUBSET ratings :
          /\ Cardinality(page) = RatingsPage \/ (page = ratings /\ Cardinality(page) < RatingsPage)
          /\ Return(s, {RatingNode(r) : r \in page})
    BY <1>3 DEF getUserRatingSummary, ratings
  <2> PICK body : body = {RatingNode(r) : r \in page}
    OBVIOUS
  <2>2. IsFiniteSet(page) /\ page \subseteq Users \X Users
    BY <1>1, FS_Subset
  <2>3. IsFiniteSet(body) /\ Cardinality(body) = Cardinality(page)
    BY <2>2, OneNodePerRating
  <2>4. x.count <= Cardinality(ratings)
    <3>1. Counted(x, db)
      BY <1>0 DEF InFlight
    <3> QED BY <1>0, <1>1, <1>3, <3>1 DEF Counted
  <2>5. /\ Others(s) /\ n.pc = "expand" /\ Who(n, x) /\ SameExpansion(n, x) /\ n.count = x.count
        /\ n.body = body /\ n.todo = TodoOf(n.body)
    BY <2>1, ReturnStep
  <2>6. BodyOK(n, db, seed.rows)
    BY <2>2, <2>5, RatingNodeSound, NoParentCommitted DEF BodyOK
  <2>7. IsFiniteSet(n.body) /\ (n.count <= Cardinality(n.body) \/ Cardinality(n.body) = RatingsPage)
    BY <2>1, <2>3, <2>4, <2>5
  <2>8. n.op = "getUserRatingSummary"
    BY <1>0, <2>5 DEF Who
  <2>9. InFlight(n, db, seed.rows)
    BY <1>0, <2>5, <2>6, <2>7, <2>8, Returns
  <2> QED BY <1>0, <2>5, <2>9, ReadsOnly
<1> QED BY <1>0, <1>2, <1>3

-----------------------------------------------------------------------------
(* Favorites, blocks, and the responses of the other components *)

LEMMA favoritesStep ==
  ASSUME Inv, RInv, NEW s \in Slots, addFavorite(s) \/ removeFavorite(s) \/ blockUser(s)
  PROVE  Step(s)
<1>0. UNCHANGED <<log, seed>> /\ slot[s].pc # "idle"
  BY DEF addFavorite, removeFavorite, blockUser, At
<1>1. Asks(slot[s])
  BY DEF RInv, InFlight
<1>2. CASE UNCHANGED db /\ (Goto(s, "blocked") \/ Goto(s, "insert") \/ Finish(s))
  BY <1>0, <1>2, GoesOnOnly, FinishesOnly
<1>3. ASSUME NEW v, v \subseteq Users \X Products, db' = SetFavorite(db, v), Finish(s) PROVE Step(s)
  <2>1. /\ db'.account = db.account /\ SameTree(db, db') /\ SameRows(db, db')
        /\ db'.favorite = v /\ db'.deleted = db.deleted /\ db'.block = db.block
    BY <1>3, OtherWrite, FavoriteWrite DEF Inv, Tables
  <2>2. Ages(db, seed.rows, db', seed'.rows)
    BY <1>0, <2>1, TreeUntouched DEF SameRows, Buried, RInv, TablesTyped
  <2>3. TablesTyped' /\ db.block \subseteq db'.block
    BY <1>0, <1>3, <2>1 DEF RInv, TablesTyped, SameRows, SameTree
  <2> QED BY <1>0, <1>3, <2>2, <2>3, FinishStep, IdleInFlight DEF Step, RInv, LogTyped
<1>4. ASSUME NEW v, v \subseteq Users \X Users, db.block \subseteq v, db' = SetBlock(db, v), Finish(s) PROVE Step(s)
  <2>1. /\ db'.account = db.account /\ SameTree(db, db') /\ SameRows(db, db')
        /\ db'.block = v /\ db'.deleted = db.deleted /\ db'.favorite = db.favorite
    BY <1>4, OtherWrite, BlockWrite DEF Inv, Tables
  <2>2. Ages(db, seed.rows, db', seed'.rows)
    BY <1>0, <2>1, TreeUntouched DEF SameRows, Buried, RInv, TablesTyped
  <2>3. TablesTyped' /\ db.block \subseteq db'.block
    BY <1>0, <1>4, <2>1 DEF RInv, TablesTyped, SameRows, SameTree
  <2> QED BY <1>0, <1>4, <2>2, <2>3, FinishStep, IdleInFlight DEF Step, RInv, LogTyped
<1>5. CASE addFavorite(s)
  <2>1. slot[s].by \in Users /\ slot[s].target \in Products
    BY <1>0, <1>1, <1>5 DEF Asks, addFavorite, TargetsOf, ProductOps
  <2> PICK v : v = db.favorite \cup {<<slot[s].by, slot[s].target>>}
    OBVIOUS
  <2>2. v \subseteq Users \X Products
    BY <2>1 DEF RInv, TablesTyped
  <2>3. \/ UNCHANGED db /\ (Goto(s, "blocked") \/ Goto(s, "insert") \/ Finish(s))
        \/ db' = SetFavorite(db, v) /\ Finish(s)
    BY <1>5 DEF addFavorite, SetFavorite
  <2> QED BY <1>2, <1>3, <2>2, <2>3
<1>6. CASE removeFavorite(s)
  <2> PICK v : v = db.favorite \ {<<slot[s].by, slot[s].target>>}
    OBVIOUS
  <2>1. v \subseteq Users \X Products
    BY DEF RInv, TablesTyped
  <2>2. db' = SetFavorite(db, v) /\ Finish(s)
    BY <1>6 DEF removeFavorite, SetFavorite
  <2> QED BY <1>3, <2>1, <2>2
<1>7. CASE blockUser(s)
  <2>1. slot[s].by \in Users /\ slot[s].target \in Users
    BY <1>0, <1>1, <1>7 DEF Asks, blockUser, TargetsOf, ProductOps
  <2> PICK v : v = db.block \cup {<<slot[s].by, slot[s].target>>}
    OBVIOUS
  <2>2. v \subseteq Users \X Users /\ db.block \subseteq v
    BY <2>1 DEF RInv, TablesTyped
  <2>3. \/ UNCHANGED db /\ (Goto(s, "insert") \/ Finish(s))
        \/ db' = SetBlock(db, v) /\ Finish(s)
    BY <1>7 DEF blockUser, SetBlock
  <2> QED BY <1>2, <1>4, <2>2, <2>3
<1> QED BY <1>5, <1>6, <1>7

\* The owners listed are not blocked now, and whoever was blocked all along is.
LEMMA listFavoritesStep == ASSUME Inv, RInv, NEW s \in Slots, listFavorites(s) PROVE Step(s)
<1> DEFINE shown == {p \in Products \ db.deleted : /\ <<slot[s].by, p>> \in db.favorite
                                                   /\ ~hasBlockBetweenUsers(slot[s].by, ProductOwner[p])}
<1> PICK x, n, body : x = slot[s] /\ n = slot'[s] /\ body = UNION {FavoriteNodes(p) : p \in shown}
  OBVIOUS
<1>1. /\ Return(s, body) /\ UNCHANGED <<db, log, seed>> /\ x.pc # "idle" /\ x.op = "listFavorites"
      /\ InFlight(x, db, seed.rows)
  BY DEF listFavorites, At, RInv
<1>2. \A m \in body : \E p \in Products : /\ m \in FavoriteNodes(p)
                                          /\ ~hasBlockBetweenUsers(x.by, ProductOwner[p])
  OBVIOUS
<1> HIDE DEF shown
<1>3. /\ Others(s) /\ n.pc = "expand" /\ Who(n, x) /\ SameExpansion(n, x) /\ n.body = body /\ n.todo = TodoOf(n.body)
  BY <1>1, ReturnStep
<1>4. \A m \in body : WellFormed(m) /\ Committed(m, db, seed.rows)
  BY <1>2, FavoriteNodesSound, NoParentCommitted
<1>5. BodyOK(n, db, seed.rows)
  BY <1>3, <1>4 DEF BodyOK
<1>6. ASSUME NEW m \in body, NEW i \in DOMAIN m, Reference(m, i), Refers(m[i].key) = "user"
      PROVE  m[i].value \notin x.apart
  <2>1. PICK p \in Products : m \in FavoriteNodes(p) /\ ~hasBlockBetweenUsers(x.by, ProductOwner[p])
    BY <1>2
  <2>2. m[i].value = ProductOwner[p]
    BY <1>6, <2>1, FavoriteNodesSound
  <2> QED BY <1>1, <2>1, <2>2 DEF InFlight, Parted, hasBlockBetweenUsers
<1>7. n.op = "listFavorites" /\ n.apart = x.apart
  BY <1>1, <1>3 DEF Who, SameExpansion
<1>8. InFlight(n, db, seed.rows)
  BY <1>1, <1>3, <1>5, <1>6, <1>7, Returns
<1> QED BY <1>1, <1>3, <1>8, ReadsOnly

LEMMA otherResponsesStep == ASSUME Inv, RInv, NEW s \in Slots, otherResponses(s) PROVE Step(s)
<1> DEFINE p == slot[s].target
           file == IF p \in db.deleted THEN Null ELSE File
           c == <<E(<<"id">>, 1), E(Id("product"), p), E(Id("last_message"), 1), E(Id("peer_user"), ProductOwner[p]),
                  E(Id("product_image_file"), file)>>
           m == <<E(<<"id">>, 1), E(Id("conversation"), 1), E(Id("sender"), ProductOwner[p])>>
           f == <<E(<<"id">>, File), E(Id("uploader_user"), ProductOwner[p]), E(<<"owner_type">>, 1), E(Id("owner"), p)>>
<1>1. /\ UNCHANGED <<db, log, seed>> /\ slot[s].pc # "idle" /\ slot[s].op \in {"listConversations", "getFile"}
      /\ Return(s, {c, m}) \/ Return(s, {f})
  BY DEF otherResponses, At
<1>2. InFlight(slot[s], db, seed.rows)
  BY DEF RInv
<1>3. p \in Products
  BY <1>1, <1>2 DEF InFlight, Asks, TargetsOf, ProductOps
<1>4. file \in {Null, File}
  OBVIOUS
<1> HIDE DEF file
<1>5. WellFormed(c) /\ NoParent(c) /\ WellFormed(m) /\ NoParent(m)
  BY <1>3, <1>4, ChatNodesSound
<1>6. WellFormed(f) /\ NoParent(f)
  BY <1>3, FileNodeSound
<1> HIDE DEF c, m, f, p
<1>7. \A n \in {c, m} \cup {f} : WellFormed(n) /\ Committed(n, db, seed.rows)
  BY <1>5, <1>6, NoParentCommitted
<1>8. InFlight(slot'[s], db, seed.rows) /\ Others(s)
  BY <1>1, <1>2, <1>7, ReturnsBody
<1> QED BY <1>1, <1>8, ReadsOnly

LEMMA ForgetsSome ==
  ASSUME NEW x, RequestShape(x), NEW d, NEW rows, InFlight(x, d, rows), NEW rest, rest \subseteq x.apart,
         NEW n, n = WithApart(x, rest)
  PROVE  InFlight(n, d, rows)
<1>1. /\ n.pc = x.pc /\ Who(n, x) /\ n.count = x.count /\ n.body = x.body /\ n.todo = x.todo /\ n.maps = x.maps
      /\ n.answer = x.answer /\ n.apart = rest
  BY DEF RequestShape, WithApart, Who
<1>2. EntryOf(n) = EntryOf(x)
  BY <1>1 DEF EntryOf, Who
<1>3. Asks(n) /\ BodyOK(n, d, rows) /\ MapsOK(n) /\ MapsComplete(n, d, rows) /\ AnswerOK(n, d, rows)
  BY <1>1, <1>2 DEF InFlight, Asks, BodyOK, MapsOK, MapsComplete, AnswerOK, Who
<1>4. Parted(n, d.block) /\ FavoritesApart(n)
  BY <1>1 DEF InFlight, Parted, FavoritesApart, Who
<1>5. Counted(n, d)
  BY <1>1 DEF InFlight, Counted, Who
<1> QED BY <1>3, <1>4, <1>5 DEF InFlight

LEMMA unblockUserStep == ASSUME Inv, RInv, NEW s \in Slots, unblockUser(s), UNCHANGED mix PROVE RInv'
<1> DEFINE rest(t) == {u \in slot[t].apart : {slot[t].by, u} # {slot[s].by, slot[s].target}}
<1> PICK v : v = db.block \ {<<slot[s].by, slot[s].target>>}
  OBVIOUS
<1>1. /\ db' = SetBlock(db, v) /\ UNCHANGED <<log, seed, left>>
      /\ slot' = [t \in Slots |-> IF t = s THEN Idle ELSE WithApart(slot[t], rest(t))]
  BY DEF unblockUser, SetBlock, WithApart
<1>2. /\ db'.account = db.account /\ SameTree(db, db') /\ SameRows(db, db')
      /\ db'.block = v /\ db'.deleted = db.deleted /\ db'.favorite = db.favorite
  <2>1. DbShape(db) /\ db' = SetBlock(db, v)
    BY <1>1 DEF Inv, Tables
  <2> QED BY <2>1, OtherWrite, BlockWrite
<1>3. Ages(db, seed.rows, db', seed'.rows)
  BY <1>1, <1>2, TreeUntouched DEF SameRows, Buried, RInv, TablesTyped
<1>4. TablesTyped'
  BY <1>1, <1>2 DEF RInv, TablesTyped, SameRows, SameTree
<1>5. ASSUME NEW t \in Slots PROVE InFlight(slot'[t], db', seed'.rows)
  <2>1. CASE t = s
    BY <1>1, <2>1, IdleInFlight
  <2>2. CASE t # s
    <3> PICK x, n, r : x = slot[t] /\ n = slot'[t] /\ r = rest(t)
      OBVIOUS
    <3>1. n = WithApart(x, r) /\ r \subseteq x.apart /\ RequestShape(x) /\ InFlight(x, db, seed.rows)
      BY <1>1, <2>2, ShapeOf DEF RInv
    <3>2. InFlight(n, db, seed.rows)
      BY <3>1, ForgetsSome
    <3>3. n.apart = r /\ n.by = x.by
      BY <3>1 DEF RequestShape, WithApart
    <3>4. \A u \in r : {x.by, u} # {slot[s].by, slot[s].target}
      OBVIOUS
    <3>5. ASSUME NEW u \in r PROVE <<x.by, u>> \in v \/ <<u, x.by>> \in v
      <4>1. <<x.by, u>> \in db.block \/ <<u, x.by>> \in db.block
        BY <3>1 DEF InFlight, Parted
      <4>2. <<x.by, u>> # <<slot[s].by, slot[s].target>> /\ <<u, x.by>> # <<slot[s].by, slot[s].target>>
        BY <3>4
      <4> QED BY <4>1, <4>2
    <3>6. Parted(n, db'.block)
      BY <1>2, <3>3, <3>5 DEF Parted
    <3> QED BY <1>3, <3>2, <3>6, InFlightAges
  <2> QED BY <2>1, <2>2
<1> QED BY <1>1, <1>4, <1>5 DEF RInv, LogTyped, ArrivalsTyped

-----------------------------------------------------------------------------
(* Steps of nobody's request, and the categories *)

LEMMA SilentStep ==
  ASSUME RInv, UNCHANGED <<log, slot, left, mix>>, TablesTyped', db'.block = db.block,
         Ages(db, seed.rows, db', seed'.rows)
  PROVE  RInv'
<1>1. ASSUME NEW s \in Slots PROVE InFlight(slot'[s], db', seed'.rows)
  <2>1. InFlight(slot[s], db, seed.rows)
    BY DEF RInv
  <2>2. Parted(slot[s], db'.block)
    BY <2>1 DEF InFlight
  <2> QED BY <2>1, <2>2, InFlightAges
<1> QED BY <1>1 DEF RInv, LogTyped, ArrivalsTyped

LEMMA deleteProductStep == ASSUME Inv, RInv, NEW p \in Products, deleteProduct(p), UNCHANGED mix PROVE RInv'
<1>1. db' = SetDeleted(db, db.deleted \cup {p}) /\ UNCHANGED <<log, slot, left, seed>>
  BY DEF deleteProduct, SetDeleted
<1>2. /\ db'.account = db.account /\ SameTree(db, db') /\ SameRows(db, db')
      /\ db'.deleted = db.deleted \cup {p} /\ db'.block = db.block /\ db'.favorite = db.favorite
  <2>1. DbShape(db)
    BY DEF Inv, Tables
  <2> QED BY <1>1, <2>1, OtherWrite, DeletedWrite
<1>3. Ages(db, seed.rows, db', seed'.rows)
  BY <1>1, <1>2, TreeUntouched DEF SameRows, Buried, RInv, TablesTyped
<1>4. TablesTyped'
  BY <1>1, <1>2 DEF RInv, TablesTyped, SameRows, SameTree
<1> QED BY <1>1, <1>2, <1>3, <1>4, SilentStep

\* The tables but for the tree are as they were.
TreeOnly == db'.account = db.account /\ SameRows(db, db') /\ SameOthers(db, db')

LEMMA TreeAges ==
  ASSUME Inv, RInv, TreeOnly, db'.lastCategory \in Nat, db.lastCategory <= db'.lastCategory,
         DOMAIN db'.category \cap 1..db.lastCategory \subseteq DOMAIN db.category \cup DOMAIN seed.rows,
         DOMAIN seed'.rows \cap 1..db.lastCategory \subseteq DOMAIN seed.rows
  PROVE  Ages(db, seed.rows, db', seed'.rows) /\ db'.block = db.block /\ db.block \subseteq db'.block
<1>1. db.lastCategory \in Nat
  BY DEF Inv, Tables, TreeOK
<1>2. IsFiniteSet(db'.rating)
  BY RatingsFinite DEF RInv, TablesTyped, TreeOnly, SameRows
<1> QED BY <1>1, <1>2 DEF Ages, TreeOnly, SameRows, SameOthers

LEMMA TreeTyped ==
  ASSUME RInv, TreeOnly, db'.lastCategory \in 0..MaxCategories,
         \A c \in DOMAIN db'.category : db'.category[c] \in CategoryRow,
         \A c \in DOMAIN seed'.rows : seed'.rows[c] \in CategoryRow
  PROVE  TablesTyped'
BY DEF RInv, TablesTyped, TreeOnly, SameRows, SameOthers

LEMMA InsertedRow ==
  ASSUME NEW rows, NEW c, NEW name, NEW parent, NEW new, new = InsertRow(rows, c, name, parent)
  PROVE  /\ DOMAIN new = DOMAIN rows \cup {c} /\ new[c] = [name |-> name, parent |-> parent]
         /\ \A d \in DOMAIN rows : d # c => new[d] = rows[d]
BY DEF InsertRow

\* The id that comes next.
LEMMA NextCategory ==
  ASSUME Inv, NEW new, new = db.lastCategory + 1, new <= MaxCategories
  PROVE  /\ new \in Nat /\ new \in 0..MaxCategories /\ new \in Categories /\ db.lastCategory <= new
         /\ new \notin 1..db.lastCategory /\ 1..db.lastCategory \subseteq 1..new
<1>1. db.lastCategory \in Nat /\ MaxCategories \in Nat
  BY BoundsAssumption DEF Inv, Tables, TreeOK
<1> QED BY <1>1 DEF Categories

LEMMA createCategoryStep == ASSUME Inv, RInv, NEW s \in Slots, createCategory(s) PROVE Step(s)
<1> DEFINE name == slot[s].arg
           parent == slot[s].parent
<1> PICK new : new = db.lastCategory + 1
  OBVIOUS
<1>0. UNCHANGED seed /\ slot[s].pc # "idle" /\ slot[s].op = "createCategory"
  BY DEF createCategory
<1>1. Asks(slot[s]) /\ TreeOK(db.category, db.lastCategory, seed.rows) /\ DbShape(db)
  BY DEF RInv, InFlight, Inv, Tables
<1>2. name \in Names /\ parent \in Categories \cup {Null} /\ slot[s].by \in Users /\ slot[s].rid \in Nat \ {0}
  BY <1>0, <1>1 DEF Asks, ArgsOf, ParentsOf
<1>3. CASE UNCHANGED <<db, log>> /\ (Goto(s, "query") \/ Finish(s))
  BY <1>0, <1>3, GoesOnOnly, FinishesOnly
<1>4. ASSUME new <= MaxCategories, db' = [db EXCEPT !.lastCategory = new], UNCHANGED log, Finish(s) PROVE Step(s)
  <2>1. db' = SetLast(db, new)
    BY <1>4 DEF SetLast
  <2>2. db'.category = db.category /\ db'.lastCategory = new /\ TreeOnly
    BY <1>1, <2>1, IdDrawn DEF TreeOnly
  <2>3. Ages(db, seed.rows, db', seed'.rows) /\ db.block \subseteq db'.block
    BY <1>0, <1>4, <2>2, NextCategory, TreeAges
  <2>4. TablesTyped'
    BY <1>0, <1>4, <2>2, NextCategory, TreeTyped DEF RInv, TablesTyped
  <2> QED BY <1>4, <2>3, <2>4, FinishStep, IdleInFlight DEF Step, RInv, LogTyped
<1>5. ASSUME new <= MaxCategories, Siblings(seed.rows, name, parent) = {}, Siblings(db.category, name, parent) = {},
             parent \in DOMAIN db.category \cup {Null}, slot[s].pc = "query"
      PROVE  Step(s)
  <2> PICK rows, body : rows = InsertRow(db.category, new, name, parent) /\ body = {CategoryNode(new, parent)}
    OBVIOUS
  <2>1. /\ db' = SetCategories(db, new, rows)
        /\ log' = [log EXCEPT !.done = @ \cup {[Entry(s) EXCEPT !.target = new]}]
        /\ Retargets(s, new, body)
    BY <1>5 DEF createCategory, SetCategories, Retargets
  <2>2. db'.category = rows /\ db'.lastCategory = new /\ TreeOnly
    BY <1>1, <2>1, CategoryWrite DEF TreeOnly
  <2>3. /\ DOMAIN rows = DOMAIN db.category \cup {new} /\ rows[new] = [name |-> name, parent |-> parent]
        /\ \A d \in DOMAIN db.category : d # new => rows[d] = db.category[d]
    <3> PICK cat, nm, pr : cat = db.category /\ nm = name /\ pr = parent
      OBVIOUS
    <3>1. rows = InsertRow(cat, new, nm, pr)
      OBVIOUS
    <3>2. /\ DOMAIN rows = DOMAIN cat \cup {new} /\ rows[new] = [name |-> nm, parent |-> pr]
          /\ \A d \in DOMAIN cat : d # new => rows[d] = cat[d]
      BY <3>1, Zenon DEF InsertRow
    <3> QED BY <3>2
  <2>4. Ages(db, seed.rows, db', seed'.rows) /\ db.block \subseteq db'.block
    BY <1>0, <1>5, <2>2, <2>3, NextCategory, TreeAges
  <2>5. rows[new] \in CategoryRow
    <3>1. parent \in 0..MaxCategories
      BY <1>2, BoundsAssumption DEF Categories, Null
    <3> QED BY <1>2, <2>3, <3>1 DEF CategoryRow
  <2>6. TablesTyped'
    BY <1>0, <1>5, <2>2, <2>3, <2>5, NextCategory, TreeTyped DEF RInv, TablesTyped
  <2>7. [Entry(s) EXCEPT !.target = new] \in Entries
    BY <1>0, <1>2, <1>5, NextCategory DEF Entry, Entries, AdminOps
  <2>8. LogTyped'
    BY <2>1, <2>7, LogWrite DEF RInv
  <2> PICK x, n : x = slot[s] /\ n = slot'[s]
    OBVIOUS
  <2> HIDE DEF name, parent
  <2>9. /\ Others(s) /\ n.pc = "log" /\ n.target = new /\ n.rid = x.rid /\ n.op = x.op /\ n.by = x.by /\ n.arg = x.arg
        /\ n.parent = x.parent /\ n.gone = x.gone /\ SameExpansion(n, x) /\ n.body = body
    BY <2>1, TargetStep
  <2>10. InFlight(x, db', seed'.rows)
    BY <2>4, StillInFlight
  <2>11. EntryOf(n) = [Entry(s) EXCEPT !.target = new]
    BY <2>9 DEF EntryOf, Entry
  <2>12. Asks(n)
    BY <1>0, <1>1, <1>5, <2>7, <2>9, <2>11, NextCategory DEF Asks
  <2>13. BodyOK(n, db', seed'.rows)
    <3>1. new \in Nat /\ parent \in Nat
      BY <1>2, <1>5, NextCategory, IdsInNat
    <3>2. parent = Null \/ (parent \in 1..db'.lastCategory /\ parent \notin DOMAIN seed'.rows)
      <4>1. parent = Null \/ (parent \in 1..db.lastCategory /\ parent \notin DOMAIN seed.rows)
        BY <1>1, <1>5 DEF TreeOK
      <4> QED BY <1>0, <1>5, <2>2, <4>1, NextCategory
    <3> QED BY <2>9, <3>1, <3>2, CategoryNodeSound DEF BodyOK
  <2>14. MapsOK(n) /\ AnswerOK(n, db', seed'.rows) /\ Parted(n, db'.block)
    BY <2>9, <2>10 DEF InFlight, MapsOK, AnswerOK, Parted, SameExpansion
  <2>15. FavoritesApart(n) /\ Counted(n, db') /\ MapsComplete(n, db', seed'.rows)
    BY <1>0, <2>9 DEF FavoritesApart, Counted, MapsComplete
  <2> QED BY <2>4, <2>6, <2>8, <2>9, <2>12, <2>13, <2>14, <2>15 DEF Step, InFlight
<1>6. \/ UNCHANGED <<db, log>> /\ (Goto(s, "query") \/ Finish(s))
      \/ new <= MaxCategories /\ db' = [db EXCEPT !.lastCategory = new] /\ UNCHANGED log /\ Finish(s)
      \/ /\ new <= MaxCategories /\ Siblings(seed.rows, name, parent) = {} /\ Siblings(db.category, name, parent) = {}
         /\ parent \in DOMAIN db.category \cup {Null} /\ slot[s].pc = "query"
  BY DEF createCategory
<1> QED BY <1>3, <1>4, <1>5, <1>6

LEMMA deleteCategoryStep == ASSUME Inv, RInv, NEW s \in Slots, deleteCategory(s) PROVE Step(s)
<1> DEFINE c == slot[s].target
<1>0. /\ slot[s].pc # "idle" /\ slot[s].op \in AdminOps \ {"listReports", "createCategory"}
      /\ TreeOK(db.category, db.lastCategory, seed.rows) /\ DbShape(db) /\ SeedShape(seed)
  BY DEF deleteCategory, At, AdminOps, Inv, Tables
<1>1. CASE c \in DOMAIN db.category /\ ~Restricted(c)
  <2> PICK rows, node : rows = Without(db.category, c) /\ node = CategoryNode(c, db.category[c].parent)
    OBVIOUS
  <2>1. /\ db' = SetCategory(db, rows) /\ Changed(s) /\ ThenLog(s, {node}) /\ seed' = SetSeedDeleted(seed)
    BY <1>1 DEF deleteCategory, SetCategory, Without, SetSeedDeleted
  <2>2. db'.category = rows /\ db'.lastCategory = db.lastCategory /\ TreeOnly
    BY <1>0, <2>1, CategoryDelete DEF TreeOnly
  <2>3. seed'.rows = seed.rows
    BY <1>0, <2>1, SeedDeletedWrite
  <2>4. DOMAIN rows = DOMAIN db.category \ {c} /\ \A d \in DOMAIN rows : rows[d] = db.category[d]
    BY DEF Without
  <2>5. db.lastCategory \in Nat
    BY <1>0 DEF TreeOK
  <2>6. Ages(db, seed.rows, db', seed'.rows) /\ db.block \subseteq db'.block
    BY <2>2, <2>3, <2>4, <2>5, TreeAges
  <2>7. TablesTyped'
    BY <2>2, <2>3, <2>4, TreeTyped DEF RInv, TablesTyped
  <2>8. Entry(s) \in Entries
    BY <1>0, EntryTyped
  <2>9. LogTyped'
    BY <2>1, <2>8, LogWrite DEF Changed, RInv
  <2>10. /\ c \in Nat /\ db.category[c].parent \in Nat
         /\ \/ db.category[c].parent = Null
            \/ db.category[c].parent \in 1..db.lastCategory /\ db.category[c].parent \notin DOMAIN seed.rows
    BY <1>0, <1>1, IdsInNat DEF TreeOK
  <2>11. WellFormed(node) /\ Committed(node, db', seed'.rows)
    BY <2>2, <2>3, <2>10, CategoryNodeSound
  <2>12. InFlight(slot'[s], db', seed'.rows) /\ Others(s)
    BY <1>0, <2>1, <2>6, <2>8, <2>11, LogsBody
  <2> QED BY <2>6, <2>7, <2>9, <2>12 DEF Step
<1>2. CASE ~(c \in DOMAIN db.category /\ ~Restricted(c))
  <2>1. UNCHANGED <<db, log, seed>> /\ Finish(s)
    BY <1>2 DEF deleteCategory
  <2> QED BY <2>1, FinishesOnly
<1> QED BY <1>1, <1>2

-----------------------------------------------------------------------------
(* The seeder: its rows count as no parent before the COMMIT, and as nothing *)
(* that is gone                                                              *)

\* The seeder's transaction goes on without a row, or ends without one.
LEMMA SeederMoves ==
  ASSUME Inv, RInv, UNCHANGED <<db, log, slot, left, mix>>, seed'.rows \in {seed.rows, << >>}
  PROVE  RInv'
<1>1. TreeOnly /\ db'.lastCategory = db.lastCategory /\ db'.category = db.category
  BY DEF TreeOnly, SameRows, SameOthers
<1>2. db.lastCategory \in Nat /\ db.lastCategory \in 0..MaxCategories
  BY DEF Inv, Tables, TreeOK, RInv, TablesTyped
<1>3. DOMAIN seed'.rows \subseteq DOMAIN seed.rows /\ \A c \in DOMAIN seed'.rows : seed'.rows[c] = seed.rows[c]
  OBVIOUS
<1>4. Ages(db, seed.rows, db', seed'.rows) /\ db'.block = db.block
  BY <1>1, <1>2, <1>3, TreeAges
<1>5. TablesTyped'
  BY <1>1, <1>2, <1>3, TreeTyped DEF RInv, TablesTyped
<1> QED BY <1>4, <1>5, SilentStep

LEMMA SeederEndsStep == ASSUME Inv, RInv, runProdSeed \/ SeedRollback, UNCHANGED mix PROVE RInv'
<1>1. UNCHANGED <<db, log, slot, left>> /\ seed'.rows = << >>
  BY DEF runProdSeed, SeedRollback, NoSeed
<1> QED BY <1>1, SeederMoves

LEMMA SeedSelectStep == ASSUME Inv, RInv, SeedSelect, UNCHANGED mix PROVE RInv'
<1>1. ASSUME NEW c, seed' = SeedResolved(c), UNCHANGED <<db, log, slot, left>> PROVE RInv'
  <2>1. seed'.rows = seed.rows
    BY <1>1, SeedResolvedShape DEF Inv, Tables
  <2> QED BY <1>1, <2>1, SeederMoves
<1> QED BY <1>1, SeederEndsStep DEF SeedSelect

LEMMA SeedCommitStep == ASSUME Inv, RInv, SeedCommit, UNCHANGED mix PROVE RInv'
<1> PICK view : view = View(db.category, seed.rows)
  OBVIOUS
<1>1. db' = SetCategory(db, view) /\ UNCHANGED <<log, slot, left>> /\ seed'.rows = << >>
  BY DEF SeedCommit, SetCategory, SeedView, View, NoSeed
<1>2. db'.category = view /\ db'.lastCategory = db.lastCategory /\ TreeOnly
  <2>1. DbShape(db)
    BY DEF Inv, Tables
  <2> QED BY <1>1, <2>1, CategoryDelete DEF TreeOnly
<1>3. /\ DOMAIN view = DOMAIN db.category \cup DOMAIN seed.rows
      /\ \A c \in DOMAIN view : view[c] \in {db.category[c], seed.rows[c]} /\ view[c] \in CategoryRow
  BY DEF View, RInv, TablesTyped
<1>4. db.lastCategory \in Nat /\ db.lastCategory \in 0..MaxCategories
  BY DEF Inv, Tables, TreeOK, RInv, TablesTyped
<1>5. Ages(db, seed.rows, db', seed'.rows) /\ db'.block = db.block
  BY <1>1, <1>2, <1>3, <1>4, TreeAges
<1>6. TablesTyped'
  BY <1>1, <1>2, <1>3, <1>4, TreeTyped
<1> QED BY <1>1, <1>5, <1>6, SilentStep

LEMMA ElementTyped == ASSUME NEW S, NEW q \in Seq(S), NEW i \in DOMAIN q PROVE q[i] \in S
OBVIOUS

\* The entry at hand has a name.
LEMMA EntryTypedInSeed ==
  ASSUME TaxonomySeen, seed.pc = "insert" PROVE Taxonomy[seed.at].name \in Names
<1>1. seed.at \in DOMAIN Taxonomy
  BY DEF TaxonomySeen, SeedOK
<1>2. Taxonomy[seed.at] \in [name: Names, parent: Names \cup {NoName}]
  BY <1>1, ElementTyped, DataAssumption
<1> QED BY <1>2

LEMMA SeedInsertStep == ASSUME Inv, RInv, TaxonomySeen, SeedInsert, UNCHANGED mix PROVE RInv'
<1> PICK name, parent, new : name = Taxonomy[seed.at].name /\ parent = SeedParent /\ new = db.lastCategory + 1
  OBVIOUS
<1>0. SeedShape(seed) /\ DbShape(db) /\ TreeOK(db.category, db.lastCategory, seed.rows)
  BY DEF Inv, Tables
<1>1. CASE seed' = [seed EXCEPT !.pc = "select"] /\ UNCHANGED <<db, log, slot, left>>
  <2>1. seed' = SetPc(seed, "select")
    BY <1>1 DEF SetPc
  <2>2. seed'.rows = seed.rows
    BY <1>0, <2>1, SeedPcWrite
  <2> QED BY <1>1, <2>2, SeederMoves
<1>2. ASSUME new <= MaxCategories, parent \in DOMAIN SeedView \cup {Null}, seed.pc = "insert",
             db' = [db EXCEPT !.lastCategory = new], UNCHANGED <<log, slot, left>>,
             seed' = [SeedResolved(new) EXCEPT !.rows = InsertRow(@, new, name, parent)]
      PROVE  RInv'
  <2> PICK old, rows : old = seed.rows /\ rows = InsertRow(old, new, name, parent)
    OBVIOUS
  <2>1. db' = SetLast(db, new)
    BY <1>2 DEF SetLast
  <2>2. db'.category = db.category /\ db'.lastCategory = new /\ TreeOnly
    BY <1>0, <2>1, IdDrawn DEF TreeOnly
  <2>3. SeedShape(SeedResolved(new)) /\ SeedResolved(new).rows = old
    BY <1>0, SeedResolvedShape
  <2>4. seed' = SetRows(SeedResolved(new), rows)
    BY <1>2, <2>3 DEF SetRows
  <2>5. seed'.rows = rows
    BY <2>3, <2>4, SeedRowsWrite
  <2>6. /\ DOMAIN rows = DOMAIN old \cup {new} /\ rows[new] = [name |-> name, parent |-> parent]
        /\ \A d \in DOMAIN old : d # new => rows[d] = old[d]
    BY Zenon DEF InsertRow
  <2>7. Ages(db, seed.rows, db', seed'.rows) /\ db'.block = db.block
    BY <1>2, <2>2, <2>5, <2>6, NextCategory, TreeAges
  <2>8. rows[new] \in CategoryRow
    <3>1. name \in Names
      BY <1>2, EntryTypedInSeed
    <3>2. parent \in 0..MaxCategories
      <4>1. DOMAIN SeedView \subseteq 1..db.lastCategory /\ db.lastCategory \in 0..MaxCategories
        BY <1>0 DEF SeedView, TreeOK, RInv, TablesTyped
      <4>2. MaxCategories \in Nat /\ db.lastCategory \in Nat
        BY <1>0, BoundsAssumption DEF TreeOK
      <4> QED BY <1>2, <4>1, <4>2 DEF Null
    <3> QED BY <2>6, <3>1, <3>2 DEF CategoryRow
  <2>9. TablesTyped'
    BY <1>2, <2>2, <2>5, <2>6, <2>8, NextCategory, TreeTyped DEF RInv, TablesTyped
  <2> QED BY <1>2, <2>7, <2>9, SilentStep
<1>3. CASE SeedRollback
  BY <1>3, SeederEndsStep
<1> QED BY <1>1, <1>2, <1>3 DEF SeedInsert

-----------------------------------------------------------------------------
(* Every step *)

LEMMA QueryStep ==
  ASSUME Inv, RInv, NEW s \in Slots, Query(s), UNCHANGED mix PROVE RInv'
<1>1. ASSUME Step(s), UNCHANGED left PROVE RInv'
  BY <1>1, StepKeeps
<1>2. CASE unblockUser(s)
  BY <1>2, unblockUserStep
<1>3. CASE RoleWrite(s) \/ updateUser(s)
  BY <1>1, <1>3, RoleWriteStep, updateUserStep DEF RoleWrite, updateUser
<1>4. CASE createReport(s) \/ createWarning(s) \/ updateReportStatus(s)
              \/ listReports(s) \/ getMyReports(s)
  BY <1>1, <1>4, createReportStep, createWarningStep, updateReportStatusStep, listReportsStep, getMyReportsStep
     DEF createReport, createWarning, updateReportStatus, listReports, getMyReports
<1>5. CASE rateUser(s) \/ getUserRatingSummary(s)
  BY <1>1, <1>5, rateUserStep, getUserRatingSummaryStep DEF rateUser, getUserRatingSummary
<1>6. CASE addFavorite(s) \/ removeFavorite(s) \/ blockUser(s)
  BY <1>1, <1>6, favoritesStep DEF addFavorite, removeFavorite, blockUser
<1>7. CASE listFavorites(s) \/ otherResponses(s)
  BY <1>1, <1>7, listFavoritesStep, otherResponsesStep DEF listFavorites, otherResponses
<1>8. CASE createCategory(s) \/ deleteCategory(s)
  BY <1>1, <1>8, createCategoryStep, deleteCategoryStep DEF createCategory, deleteCategory
<1> QED BY <1>2, <1>3, <1>4, <1>5, <1>6, <1>7, <1>8 DEF Query

LEMMA ArrivalStep == ASSUME Inv, RInv, NEW s \in Slots, Arrivals(s), UNCHANGED mix PROVE RInv'
<1>1. UNCHANGED <<db, log, seed>>
  BY DEF Arrivals, Arrive
<1>2. InFlight(slot'[s], db, seed.rows) /\ Others(s) /\ left' \in Nat
  BY ArriveKeeps DEF Arrivals, RInv
<1>3. TablesTyped' /\ LogTyped'
  BY <1>1, Unwritten DEF RInv, LogTyped
<1>4. ASSUME NEW t \in Slots PROVE InFlight(slot'[t], db, seed.rows)
  <2>1. CASE t = s
    BY <1>2, <2>1
  <2>2. CASE t # s
    BY <1>2, <2>2 DEF Others, RInv
  <2> QED BY <2>1, <2>2
<1> QED BY <1>1, <1>2, <1>3, <1>4 DEF RInv, ArrivalsTyped

LEMMA InitRInv == Init => RInv
<1> SUFFICES ASSUME Init PROVE RInv
  OBVIOUS
<1>1. /\ db.deleted = {} /\ db.lastCategory = 0 /\ db.category = << >> /\ db.warning = [u \in Users |-> 0]
      /\ db.rating = {} /\ db.favorite = {} /\ db.block = {}
  BY DEF Init, EmptyDb
<1>2. seed.rows = << >>
  BY DEF Init, NoSeed
<1>3. TablesTyped
  BY <1>1, <1>2, BoundsAssumption DEF TablesTyped
<1>4. LogTyped
  BY DEF Init, LogTyped
<1>5. ArrivalsTyped
  BY DataAssumption DEF Init, ArrivalsTyped
<1>6. \A s \in Slots : InFlight(slot[s], db, seed.rows)
  BY IdleInFlight DEF Init
<1> QED BY <1>3, <1>4, <1>5, <1>6 DEF RInv

LEMMA RInvStep == Inv /\ TaxonomySeen /\ RInv /\ [Next]_vars => RInv'
<1> SUFFICES ASSUME Inv, TaxonomySeen, RInv, [Next]_vars PROVE RInv'
  OBVIOUS
<1>1. CASE UNCHANGED vars
  <2>1. UNCHANGED <<db, log, slot, left, mix, seed>>
    BY <1>1 DEF vars
  <2> QED BY <2>1, SeederMoves
<1> SUFFICES ASSUME Next PROVE RInv'
  BY <1>1
<1>2. UNCHANGED mix
  BY DEF Next
<1>3. ASSUME NEW s \in Slots, Arrivals(s) PROVE RInv'
  BY <1>2, <1>3, ArrivalStep
<1>4. ASSUME NEW s \in Slots, assertUserExists(s) \/ RoleBefore(s) \/ logAdminAction(s) PROVE RInv'
  <2>1. Step(s)
    BY <1>4, ChecksStep, logAdminActionStep
  <2>2. UNCHANGED left
    BY <1>4 DEF assertUserExists, RoleBefore, logAdminAction
  <2> QED BY <1>2, <2>1, <2>2, StepKeeps
<1>5. ASSUME NEW s \in Slots, Query(s) PROVE RInv'
  BY <1>2, <1>5, QueryStep
<1>6. ASSUME NEW s \in Slots, Fail(s) \/ (\E e \in EntityTypes : resolve(s, e)) \/ expand(s) \/ Send(s) PROVE RInv'
  <2>1. Step(s)
    BY <1>6, EndsStep, InterceptorStep
  <2>2. UNCHANGED left
    BY <1>6 DEF Fail, resolve, expand, Send
  <2> QED BY <1>2, <2>1, <2>2, StepKeeps
<1>7. ASSUME NEW p \in Products, deleteProduct(p) PROVE RInv'
  BY <1>2, <1>7, deleteProductStep
<1>8. CASE runProdSeed \/ SeedInsert \/ SeedSelect \/ SeedCommit \/ SeedCrash
  BY <1>2, <1>8, SeederEndsStep, SeedInsertStep, SeedSelectStep, SeedCommitStep DEF SeedCrash
<1> QED BY <1>3, <1>4, <1>5, <1>6, <1>7, <1>8 DEF Next

-----------------------------------------------------------------------------
(* The theorems *)

\* What tables, log and requests hold, and what every request has read, in all
\* the interleavings of its queries with the others' and with the seeder's.
THEOREM ResponsesInvariant == Spec => []RInv
BY InitRInv, RInvStep, TaxonomyIsSeen, BackOfficeInvariant, PTL DEF Spec

\* Every table, the audit log and the seeder's rows have their types.
THEOREM BackOfficeTypeCorrect == Spec => []TypeOK
<1>1. Inv /\ RInv => TypeOK
  <2> SUFFICES ASSUME Inv, RInv PROVE TypeOK
    OBVIOUS
  <2>1. DOMAIN db.category \cup DOMAIN seed.rows \subseteq 1..db.lastCategory
    BY DEF Inv, Tables, TreeOK
  <2>2. log \in [audit: SUBSET Entries, done: SUBSET Entries, lost: SUBSET Entries]
    <3> PICK audit, done, lost : audit = log.audit /\ done = log.done /\ lost = log.lost
      OBVIOUS
    <3>1. log = [audit |-> audit, done |-> done, lost |-> lost]
      BY DEF Inv, Tables, LogShape
    <3>2. audit \in SUBSET Entries /\ done \in SUBSET Entries /\ lost \in SUBSET Entries
      BY DEF RInv, LogTyped
    <3> QED BY <3>1, <3>2
  <2>3. \A c \in DOMAIN db.category : db.category[c] \in [name: Names, parent: 0..MaxCategories]
    BY DEF RInv, TablesTyped, CategoryRow
  <2>4. db.report \in Seq([reporter: Users, reported: Users, status: {"open", "resolved"},
                            reviewer: Users \cup {Null}])
    BY DEF Inv, Tables, Report
  <2> QED BY <2>1, <2>2, <2>3, <2>4 DEF Inv, Tables, RInv, TablesTyped, ArrivalsTyped, TypeOK
<1> QED BY <1>1, BackOfficeInvariant, ResponsesInvariant, PTL

\* No response shows an account, or a product of an account, that was deleted
\* before its request arrived, and no favorites show the product of somebody
\* blocked since before the request, although a response is put together from
\* the answers of several queries, each at a moment of its own.
THEOREM ResponsesStayHidden == Spec => []ResponsesHide
<1>1. RInv => ResponsesHide
  <2> SUFFICES ASSUME RInv, NEW s \in Slots, NEW a \in slot[s].answer
               PROVE  /\ Hides(a, slot[s].gone)
                      /\ slot[s].op = "listFavorites" =>
                           \A key \in DOMAIN a.out :
                             a.out[key].entity = "user" => a.out[key].id \notin slot[s].apart
    BY DEF ResponsesHide, DeletedStayHidden, BlockedStayHidden, Hides
  <2>1. InFlight(slot[s], db, seed.rows)
    BY DEF RInv
  <2> QED BY <2>1 DEF InFlight, AnswerOK, FavoritesApart
<1> QED BY <1>1, ResponsesInvariant, PTL

LEMMA RefersTyped == ASSUME NEW key PROVE Refers(key) \in EntityTypes
BY DEF Refers, EntityTypes

\* Every foreign key of a response is replaced by the row it refers to, and by
\* null only when it is NULL or the row is gone for good, although deletions and
\* the seeder's COMMIT happen between the queries.
THEOREM ExpansionIsExact == Spec => []ExpansionExact
<1>1. RInv => ExpansionExact
  <2> SUFFICES ASSUME RInv, NEW s \in Slots, NEW a \in slot[s].answer, NEW i \in DOMAIN a.of
               PROVE  LET key == a.of[i].key
                          v == a.of[i].value
                      IN IF ~Reference(a.of, i) THEN a.out[key] = Scalar(v)
                         ELSE /\ a.out[Stem(key)].entity \in {Refers(key), "null"}
                              /\ a.out[Stem(key)].id \in {v, Null}
                              /\ a.out[Stem(key)] = NoRow =>
                                   v = Null \/ resolveEntities(Snapshot, Refers(key), {v}) = {}
    BY DEF ExpansionExact, Reference, Stem
  <2>1. Exact(a, db, seed.rows)
    BY DEF RInv, InFlight, AnswerOK
  <2>2. Missing(db, seed.rows, Refers(a.of[i].key), a.of[i].value) =>
          resolveEntities(Snapshot, Refers(a.of[i].key), {a.of[i].value}) = {}
    BY RefersTyped, MissingNotFound
  <2> QED BY <2>1, <2>2 DEF Exact
<1> QED BY <1>1, ResponsesInvariant, PTL

\* The count of a rating summary never runs ahead of the list beside it.
THEOREM SummaryIsNotAhead == Spec => []SummaryNotAhead
<1>1. RInv => SummaryNotAhead
  BY DEF RInv, InFlight, Counted, SummaryNotAhead, At
<1> QED BY <1>1, ResponsesInvariant, PTL
=============================================================================
