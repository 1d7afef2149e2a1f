--------------------------- MODULE CatalogProofs ---------------------------
(* Proofs about Catalog, for any users, files, products, requests, pool and *)
(* taxonomy.                                                                *)
EXTENDS Catalog, FiniteSetTheorems, TLAPS

-----------------------------------------------------------------------------
(* The inductive invariant *)

\* A request between its row lock, or its INSERT, and its COMMIT.
Holds(s) == slot[s].pc \in {"write", "sync", "attach", "commit"}

\* Which operation is at which step, and on which product.
RequestOK(r) ==
  /\ r.pc \in {"begin", "lock", "commit"} => r.op # "none"
  /\ r.pc = "lock" => r.op # "create"
  /\ r.pc = "insert" => r.op = "create"
  /\ r.pc = "write" => r.op = "update"
  /\ r.pc \in {"sync", "attach"} => r.op \in {"create", "update"}
  /\ r.pc \in {"begin", "lock"} /\ r.op # "create" => r.pid \in Products
  /\ r.op = "create" /\ r.pc \notin {"write", "sync", "attach", "commit"} => r.pid = 0
  /\ r.pc \in {"idle", "mark", "marking", "avatar"} => r.op = "none"
  /\ r.pc \in {"mark", "marking"} => r.fid \in Files
  /\ r.pc # "idle" => r.user \in Users

RequestsOK == \A s \in Slots : RequestOK(slot[s])

\* The product of a request that holds it is there for it.
HeldRows ==
  \A s \in Slots : Holds(s) =>
    /\ slot[s].pid \in Products
    /\ product[slot[s].pid].state = (IF slot[s].op = "create" THEN "draft" ELSE "live")

\* No two requests hold one product.
OneHolder == \A s, r \in Slots : s # r /\ Holds(s) /\ Holds(r) => slot[s].pid # slot[r].pid

\* The pair an update will commit is the one it tested.
TestedPairs ==
  \A s \in Slots : Holds(s) /\ slot[s].op = "update" /\ slot[s].pc # "write" =>
    assertCategoryPair(NextCategory(s), NextSubcategory(s))

Inv == TypeOK /\ RequestsOK /\ HeldRows /\ OneHolder /\ TestedPairs /\ PairsAreValid

-----------------------------------------------------------------------------
(* Types *)

\* A free slot and absent rows are well typed.
LEMMA AbsentTyped ==
  /\ NoDto \in Dto /\ NoFile \in File /\ NoProduct \in Product
  /\ Idle \in Request /\ Idle.pc = "idle" /\ Idle.op = "none" /\ Idle.pid = 0
<1>1. NoDto \in Dto
  BY DEF NoDto, Dto
<1>2. 0 \in 0..MaxProducts /\ 0 \in 0..MaxFiles
  BY BoundsAssumption
<1>3. NoFile \in File
  BY <1>2 DEF NoFile, File
<1>4. NoProduct \in Product
  BY StatusAssumption DEF NoProduct, Product
<1>5. Idle \in Request
  BY <1>1, <1>2, StatusAssumption DEF Idle, Request, PC, Op
<1> QED BY <1>1, <1>3, <1>4, <1>5 DEF Idle

\* Moving a request on, ending it and rolling it back keep the types.
LEMMA MovesTyped ==
  ASSUME TypeOK, NEW s \in Slots
  PROVE  /\ \A pc \in PC : Goto(s, pc) => slot' \in [Slots -> Request]
         /\ Finish(s) => slot' \in [Slots -> Request]
         /\ Rollback(s) => TypeOK'
<1>1. \A pc \in PC : [slot[s] EXCEPT !.pc = pc] \in Request
  BY DEF TypeOK, Request
<1>2. \A pc \in PC : Goto(s, pc) => slot' \in [Slots -> Request]
  BY <1>1 DEF Goto, TypeOK
<1>3. Finish(s) => slot' \in [Slots -> Request]
  BY AbsentTyped DEF Finish, TypeOK
<1>4. Rollback(s) => TypeOK'
  BY <1>3, AbsentTyped DEF Rollback, TypeOK
<1> QED BY <1>2, <1>3, <1>4

\* A request that arrives is well typed.
LEMMA ArriveTyped ==
  ASSUME NEW s \in Slots, NEW u \in Users, TypeOK, Arrive(s, u)
  PROVE  TypeOK'
<1>1. ASSUME NEW r \in Request, Start(s, r)
      PROVE  slot' \in [Slots -> Request]
  BY <1>1 DEF Start, TypeOK
<1>2. \A p \in Products : p \in 0..MaxProducts
  BY BoundsAssumption DEF Products
<1>3. \A f \in Files : f \in 0..MaxFiles
  BY BoundsAssumption DEF Files
<1>4. ASSUME NEW d \in CreateDtos, createProduct(s, u, d)
      PROVE  TypeOK'
  <2>1. [Idle EXCEPT !.pc = "begin", !.op = "create", !.user = u, !.dto = d] \in Request
    BY DtoAssumption, AbsentTyped DEF Request, PC, Op
  <2> QED BY <1>1, <1>4, <2>1 DEF createProduct, TypeOK
<1>5. ASSUME NEW p \in Products, NEW d \in UpdateDtos, updateProduct(s, u, p, d)
      PROVE  TypeOK'
  <2>1. [Idle EXCEPT !.pc = "begin", !.op = "update", !.user = u, !.pid = p, !.dto = d] \in Request
    BY DtoAssumption, AbsentTyped, <1>2 DEF Request, PC, Op
  <2> QED BY <1>1, <1>5, <2>1 DEF updateProduct, TypeOK
<1>6. ASSUME NEW p \in Products, deleteProduct(s, u, p)
      PROVE  TypeOK'
  <2>1. [Idle EXCEPT !.pc = "begin", !.op = "delete", !.user = u, !.pid = p] \in Request
    BY AbsentTyped, <1>2 DEF Request, PC, Op
  <2> QED BY <1>1, <1>6, <2>1 DEF deleteProduct, TypeOK
<1>7. ASSUME NEW p \in Products, NEW st \in Statuses, updateProductStatus(s, u, p, st)
      PROVE  TypeOK'
  <2>1. [Idle EXCEPT !.pc = "begin", !.op = "status", !.user = u, !.pid = p, !.status = st] \in Request
    BY AbsentTyped, <1>2 DEF Request, PC, Op
  <2> QED BY <1>1, <1>7, <2>1 DEF updateProductStatus, TypeOK
<1>8. ASSUME NEW f \in Files, markUploaded(s, u, f) \/ updateMe(s, u, f)
      PROVE  TypeOK'
  <2>1. /\ [Idle EXCEPT !.pc = "mark", !.user = u, !.fid = f] \in Request
        /\ [Idle EXCEPT !.pc = "avatar", !.user = u, !.fid = f] \in Request
    BY AbsentTyped, <1>3 DEF Request, PC, Op
  <2> QED BY <1>1, <1>8, <2>1 DEF markUploaded, updateMe, TypeOK
<1>9. ASSUME ClearAvatar(s, u)
      PROVE  TypeOK'
  <2>1. [Idle EXCEPT !.pc = "avatar", !.user = u] \in Request
    BY AbsentTyped DEF Request, PC, Op
  <2> QED BY <1>1, <1>9, <2>1 DEF ClearAvatar, TypeOK
<1> QED BY <1>4, <1>5, <1>6, <1>7, <1>8, <1>9 DEF Arrive

\* The row a transaction commits is a row.
LEMMA WrittenTyped ==
  ASSUME NEW s \in Slots, TypeOK, slot[s].pid \in Products, slot[s].op # "none"
  PROVE  Written(s) \in Product
<1> DEFINE old == product[slot[s].pid]
           imgs == IF slot[s].dto.hasImages THEN slot[s].dto.images ELSE old.images
<1>1. old \in Product /\ slot[s] \in Request /\ slot[s].dto \in Dto
  BY DEF TypeOK, Request
<1>2. imgs \in Seq(Files)
  BY <1>1 DEF Product, Dto
<1>3. /\ NextCategory(s) \in ProductCategories \cup {Null}
      /\ NextSubcategory(s) \in ProductSubcategories \cup {Null}
  BY <1>1 DEF NextCategory, NextSubcategory, Product, Dto
<1>4. slot[s].status \in Statuses /\ slot[s].op \in {"create", "update", "delete", "status"}
  BY <1>1 DEF Request, Op
<1> HIDE DEF imgs, old
<1>5. /\ [old EXCEPT !.state = "live", !.images = imgs] \in Product
      /\ [old EXCEPT !.category = NextCategory(s), !.sub = NextSubcategory(s), !.images = imgs] \in Product
      /\ [old EXCEPT !.state = "deleted"] \in Product
      /\ [old EXCEPT !.status = slot[s].status] \in Product
  BY <1>1, <1>2, <1>3, <1>4 DEF Product
<1> QED BY <1>4, <1>5 DEF Written, imgs, old

\* Every step keeps the types.
LEMMA TypeStep == TypeOK /\ RequestsOK /\ HeldRows /\ [Next]_vars => TypeOK'
<1> SUFFICES ASSUME TypeOK, RequestsOK, HeldRows, [Next]_vars
             PROVE  TypeOK'
  OBVIOUS
<1>1. CASE UNCHANGED vars
  BY <1>1 DEF vars, TypeOK
<1>2. ASSUME NEW s \in Slots, withTransaction(s) \/ MarkConnect(s) \/ AttachImages(s)
      PROVE  TypeOK'
  BY <1>2, MovesTyped DEF withTransaction, MarkConnect, AttachImages, PC, TypeOK
<1>3. ASSUME NEW s \in Slots, Ownership(s) \/ UpdateFields(s) \/ syncProductImages(s) \/ Fail(s)
      PROVE  TypeOK'
  BY <1>3, MovesTyped DEF Ownership, UpdateFields, syncProductImages, Fail, PC, TypeOK
<1>4. ASSUME NEW s \in Slots, Insert(s)
      PROVE  TypeOK'
  <2>1. CASE Rollback(s)
    BY <2>1, MovesTyped
  <2>2. CASE ~Rollback(s)
    <3> DEFINE dto == slot[s].dto
               sub == IF dto.sub = Keep THEN Null ELSE dto.sub
    <3>1. PICK p \in Products :
            /\ product' = [product EXCEPT ![p] =
                 [NoProduct EXCEPT !.state = "draft", !.owner = slot[s].user,
                                   !.category = dto.category, !.sub = sub]]
            /\ slot' = [slot EXCEPT ![s].pid = p,
                 ![s].pc = IF dto.images # <<>> THEN "sync" ELSE "commit"]
            /\ UNCHANGED <<file, avatar>>
      BY <1>4, <2>2 DEF Insert
    <3>2. assertCategoryPair(dto.category, sub)
      BY <1>4, <2>2 DEF Insert
    <3>3. slot[s] \in Request /\ dto \in Dto
      BY DEF TypeOK, Request
    <3>4. slot[s].user \in Users \cup {NoUser} /\ dto.category \in ProductCategories
          /\ sub \in ProductSubcategories \cup {Null}
      BY <3>2, <3>3 DEF Request, Dto, assertCategoryPair, isValidCategory
    <3> HIDE DEF sub
    <3>5. [NoProduct EXCEPT !.state = "draft", !.owner = slot[s].user,
                            !.category = dto.category, !.sub = sub] \in Product
      BY <3>4, AbsentTyped DEF Product
    <3>6. \A pc \in PC : [slot[s] EXCEPT !.pid = p, !.pc = pc] \in Request
      <4>1. p \in 0..MaxProducts
        BY BoundsAssumption DEF Products
      <4> QED BY <3>3, <4>1 DEF Request
    <3>7. slot' \in [Slots -> Request]
      BY <3>1, <3>6 DEF TypeOK, PC
    <3> QED BY <3>1, <3>5, <3>7 DEF TypeOK
  <2> QED BY <2>1, <2>2
<1>5. ASSUME NEW s \in Slots, Commit(s)
      PROVE  TypeOK'
  <2>1. slot[s].pid \in Products /\ slot[s].op # "none"
    BY <1>5 DEF Commit, RequestsOK, RequestOK, HeldRows, Holds
  <2>2. Written(s) \in Product
    BY <2>1, WrittenTyped
  <2>3. slot[s].pid \in 0..MaxProducts
    BY <2>1, BoundsAssumption DEF Products
  <2>4. \A f \in Files : [file[f] EXCEPT !.owner = slot[s].pid] \in File
    BY <2>3 DEF TypeOK, File
  <2>5. slot' \in [Slots -> Request]
    BY <1>5, MovesTyped DEF Commit
  <2> QED BY <1>5, <2>2, <2>4, <2>5 DEF Commit, TypeOK
<1>6. ASSUME NEW s \in Slots, MarkWrite(s)
      PROVE  TypeOK'
  <2>1. \A f \in Files : [file[f] EXCEPT !.status = "uploaded"] \in File
    BY DEF TypeOK, File
  <2>2. slot[s].fid \in Files
    BY <1>6 DEF MarkWrite, RequestsOK, RequestOK
  <2> QED BY <1>6, <2>1, <2>2, MovesTyped DEF MarkWrite, TypeOK
<1>7. ASSUME NEW s \in Slots, SetAvatar(s)
      PROVE  TypeOK'
  <2>1. slot[s].fid \in 0..MaxFiles
    BY DEF TypeOK, Request
  <2> QED BY <1>7, <2>1, MovesTyped DEF SetAvatar, TypeOK
<1>8. ASSUME NEW u \in Users, NEW purpose \in {"product_image", "avatar"},
             createUploadIntent(u, purpose)
      PROVE  TypeOK'
  <2>1. [status |-> "pending", uploader |-> u, purpose |-> purpose, owner |-> 0] \in File
    BY BoundsAssumption DEF File
  <2> QED BY <1>8, <2>1 DEF createUploadIntent, TypeOK
<1> QED BY <1>1, <1>2, <1>3, <1>4, <1>5, <1>6, <1>7, <1>8, ArriveTyped DEF Next, Step

-----------------------------------------------------------------------------
(* Steps on held rows *)

\* What a step of request t leaves of the others, and where it leaves t.
Good(t) ==
  /\ \A s \in Slots \ {t} : slot'[s] = slot[s]
  /\ \A s \in Slots \ {t} : Holds(s) => product'[slot[s].pid] = product[slot[s].pid]
  /\ Holds(t)' =>
       /\ slot'[t].pid \in Products
       /\ product'[slot'[t].pid].state = (IF slot'[t].op = "create" THEN "draft" ELSE "live")
       /\ \A s \in Slots \ {t} : Holds(s) => slot[s].pid # slot'[t].pid
       /\ slot'[t].op = "update" /\ slot'[t].pc # "write" =>
            assertCategoryPair(NextCategory(t)', NextSubcategory(t)')

\* A good step of one request keeps what all requests hold.
LEMMA GoodKeeps ==
  ASSUME Inv, NEW t \in Slots, Good(t)
  PROVE  HeldRows' /\ OneHolder' /\ TestedPairs'
<1>1. \A s \in Slots \ {t} : (Holds(s)' <=> Holds(s)) /\ slot'[s] = slot[s]
  BY DEF Good, Holds
<1>2. \A s \in Slots \ {t} : Holds(s) =>
        /\ slot[s].pid \in Products
        /\ product'[slot[s].pid] = product[slot[s].pid]
        /\ product[slot[s].pid].state = (IF slot[s].op = "create" THEN "draft" ELSE "live")
  BY DEF Good, Inv, HeldRows
<1>3. HeldRows'
  BY <1>1, <1>2 DEF Good, HeldRows
<1>4. OneHolder'
  BY <1>1 DEF Good, OneHolder, Inv
<1>5. ASSUME NEW s \in Slots \ {t}, Holds(s)', slot'[s].op = "update", slot'[s].pc # "write"
      PROVE  assertCategoryPair(NextCategory(s)', NextSubcategory(s)')
  <2>1. NextCategory(s)' = NextCategory(s) /\ NextSubcategory(s)' = NextSubcategory(s)
    BY <1>1, <1>2, <1>5 DEF NextCategory, NextSubcategory
  <2> QED BY <1>1, <1>5, <2>1 DEF Inv, TestedPairs
<1>6. TestedPairs'
  BY <1>5 DEF Good, TestedPairs, assertCategoryPair, isValidCategory, isValidSubcategory,
               isAllowedProductSubcategory
<1> QED BY <1>3, <1>4, <1>6

\* A step that writes no product and only moves its request on.
LEMMA GotoGood ==
  ASSUME Inv, NEW t \in Slots, NEW pc, Goto(t, pc), product' = product,
         Holds(t)' => Holds(t),
         pc # "write" /\ slot[t].op = "update" /\ Holds(t)' =>
           assertCategoryPair(NextCategory(t), NextSubcategory(t))
  PROVE  Good(t)
<1>1. slot' = [slot EXCEPT ![t] = [slot[t] EXCEPT !.pc = pc]] /\ slot[t] \in Request
  BY DEF Goto, Inv, TypeOK
<1>2. /\ \A s \in Slots \ {t} : slot'[s] = slot[s]
      /\ slot'[t].pc = pc /\ slot'[t].pid = slot[t].pid /\ slot'[t].op = slot[t].op
      /\ slot'[t].dto = slot[t].dto
  BY <1>1 DEF Inv, TypeOK, Request
<1>3. NextCategory(t)' = NextCategory(t) /\ NextSubcategory(t)' = NextSubcategory(t)
  BY <1>2 DEF NextCategory, NextSubcategory
<1>4. Holds(t)' =>
        /\ slot'[t].pid \in Products
        /\ product'[slot'[t].pid].state = (IF slot'[t].op = "create" THEN "draft" ELSE "live")
        /\ \A s \in Slots \ {t} : Holds(s) => slot[s].pid # slot'[t].pid
  BY <1>2 DEF Inv, HeldRows, OneHolder
<1> HIDE DEF assertCategoryPair
<1> QED BY <1>2, <1>3, <1>4 DEF Good

\* A request that ends without writing a product others hold.
LEMMA FinishGood ==
  ASSUME Inv, NEW t \in Slots, Finish(t),
         \A s \in Slots \ {t} : Holds(s) => product'[slot[s].pid] = product[slot[s].pid]
  PROVE  Good(t)
<1>1. slot'[t].pc = "idle" /\ \A s \in Slots \ {t} : slot'[s] = slot[s]
  BY AbsentTyped DEF Finish, Inv, TypeOK
<1> QED BY <1>1 DEF Good, Holds

\* A rolled back request gives up its own draft only.
LEMMA RollbackGood ==
  ASSUME Inv, NEW t \in Slots, Rollback(t)
  PROVE  /\ Good(t) /\ PairsAreValid'
         /\ \A p \in Products : product[p].state = "deleted" => product'[p] = product[p]
<1>1. \A p \in Products :
        \/ product'[p] = product[p]
        \/ slot[t].op = "create" /\ slot[t].pid = p /\ product'[p] = NoProduct
  BY DEF Rollback
<1>2. slot[t].op = "create" /\ slot[t].pid \in Products => Holds(t)
  BY BoundsAssumption DEF Inv, RequestsOK, RequestOK, Products, Holds
<1>3. \A s \in Slots \ {t} : Holds(s) => product'[slot[s].pid] = product[slot[s].pid]
  BY <1>1, <1>2 DEF Inv, HeldRows, OneHolder
<1>4. Good(t)
  BY <1>3, FinishGood DEF Rollback
<1>5. PairsAreValid'
  BY <1>1 DEF PairsAreValid, Inv, NoProduct, assertCategoryPair, isValidCategory,
              isValidSubcategory, isAllowedProductSubcategory
<1>6. \A p \in Products : product[p].state = "deleted" => product'[p] = product[p]
  BY <1>1, <1>2 DEF Inv, HeldRows
<1> QED BY <1>4, <1>5, <1>6

\* What a step does to products: the pairs stay valid, deleted ones are kept.
Writes == PairsAreValid' /\ \A p \in Products : product[p].state = "deleted" => product'[p] = product[p]

\* A step that leaves the products alone.
LEMMA NoWrites == ASSUME Inv, product' = product PROVE Writes
  BY DEF Writes, Inv, PairsAreValid, assertCategoryPair, isValidCategory,
         isValidSubcategory, isAllowedProductSubcategory

\* An arriving request holds nothing.
LEMMA ArriveGood ==
  ASSUME Inv, NEW t \in Slots, NEW u \in Users, Arrive(t, u)
  PROVE  Good(t) /\ Writes
<1>1. ASSUME NEW r, Start(t, r), r.pc \in {"begin", "mark", "avatar"}, product' = product
      PROVE  Good(t) /\ Writes
  <2>1. slot'[t] = r /\ \A s \in Slots \ {t} : slot'[s] = slot[s]
    BY <1>1 DEF Start, Inv, TypeOK
  <2> QED BY <1>1, <2>1, NoWrites DEF Good, Holds
<1>2. ASSUME NEW d, createProduct(t, u, d) PROVE Good(t) /\ Writes
  BY <1>1, <1>2, AbsentTyped DEF createProduct, Request
<1>3. ASSUME NEW p, NEW d, updateProduct(t, u, p, d) PROVE Good(t) /\ Writes
  BY <1>1, <1>3, AbsentTyped DEF updateProduct, Request
<1>4. ASSUME NEW p, deleteProduct(t, u, p) PROVE Good(t) /\ Writes
  BY <1>1, <1>4, AbsentTyped DEF deleteProduct, Request
<1>5. ASSUME NEW p, NEW st, updateProductStatus(t, u, p, st) PROVE Good(t) /\ Writes
  BY <1>1, <1>5, AbsentTyped DEF updateProductStatus, Request
<1>6. ASSUME NEW f, markUploaded(t, u, f) PROVE Good(t) /\ Writes
  BY <1>1, <1>6, AbsentTyped DEF markUploaded, Request
<1>7. ASSUME NEW f, updateMe(t, u, f) PROVE Good(t) /\ Writes
  BY <1>1, <1>7, AbsentTyped DEF updateMe, Request
<1>8. ASSUME ClearAvatar(t, u) PROVE Good(t) /\ Writes
  BY <1>1, <1>8, AbsentTyped DEF ClearAvatar, Request
<1> QED BY <1>2, <1>3, <1>4, <1>5, <1>6, <1>7, <1>8 DEF Arrive

\* The owner test under the lock: a request that passes it is the only holder.
LEMMA OwnershipGood ==
  ASSUME Inv, NEW t \in Slots, Ownership(t)
  PROVE  Good(t) /\ Writes
<1>1. CASE Rollback(t)
  BY <1>1, RollbackGood DEF Writes
<1>2. CASE ~Rollback(t)
  <2> DEFINE pc == IF slot[t].op = "update" THEN "write" ELSE "commit"
  <2>1. /\ Goto(t, pc) /\ product' = product /\ slot[t].pc = "lock"
        /\ product[slot[t].pid].state = "live"
        /\ \A s \in Slots \ {t} : ~LocksProduct(s, slot[t].pid)
    BY <1>2 DEF Ownership, ForUpdate
  <2>2. slot'[t].pc = pc /\ slot'[t].pid = slot[t].pid /\ slot'[t].op = slot[t].op
    BY <2>1 DEF Goto, Inv, TypeOK, Request
  <2>3. \A s \in Slots \ {t} : slot'[s] = slot[s]
    BY <2>1 DEF Goto, Inv, TypeOK
  <2>4. slot[t].pid \in Products /\ slot[t].op # "create"
    BY <2>1 DEF Inv, RequestsOK, RequestOK
  <2>5. \A s \in Slots \ {t} : Holds(s) => slot[s].pid # slot[t].pid
    BY <2>1 DEF LocksProduct, Holds
  <2>6. ~(slot'[t].op = "update" /\ slot'[t].pc # "write")
    BY <2>2
  <2>7. Good(t)
    BY <2>1, <2>2, <2>3, <2>4, <2>5, <2>6 DEF Good
  <2> QED BY <2>1, <2>7, NoWrites
<1> QED BY <1>1, <1>2

\* The pair test against the stored half, under the lock.
LEMMA UpdateFieldsGood ==
  ASSUME Inv, NEW t \in Slots, UpdateFields(t)
  PROVE  Good(t) /\ Writes
<1>1. CASE Rollback(t)
  BY <1>1, RollbackGood DEF Writes
<1>2. CASE ~Rollback(t)
  <2> DEFINE pc == IF slot[t].dto.hasImages THEN "sync" ELSE "commit"
  <2>1. /\ Goto(t, pc) /\ product' = product /\ slot[t].pc = "write"
        /\ assertCategoryPair(NextCategory(t), NextSubcategory(t))
    BY <1>2 DEF UpdateFields
  <2>2. Good(t)
    BY <2>1, GotoGood DEF Holds
  <2> QED BY <2>1, <2>2, NoWrites
<1> QED BY <1>1, <1>2

\* Testing and attaching images keeps the lock and the tested pair.
LEMMA ImagesGood ==
  ASSUME Inv, NEW t \in Slots, syncProductImages(t) \/ AttachImages(t)
  PROVE  Good(t) /\ Writes
<1>1. CASE Rollback(t)
  BY <1>1, RollbackGood DEF Writes
<1>2. CASE ~Rollback(t)
  <2>1. PICK pc \in {"attach", "commit"} : Goto(t, pc) /\ product' = product
    BY <1>2 DEF syncProductImages, AttachImages
  <2>2. slot[t].pc \in {"sync", "attach"}
    BY DEF syncProductImages, AttachImages
  <2>3. slot[t].op = "update" => assertCategoryPair(NextCategory(t), NextSubcategory(t))
    BY <2>2 DEF Inv, TestedPairs, Holds
  <2>4. Good(t)
    BY <2>1, <2>2, <2>3, GotoGood DEF Holds
  <2> QED BY <2>1, <2>4, NoWrites
<1> QED BY <1>1, <1>2

\* An INSERT makes a draft nobody else holds, with a valid pair.
LEMMA InsertGood ==
  ASSUME Inv, NEW t \in Slots, Insert(t)
  PROVE  Good(t) /\ Writes
<1>1. CASE Rollback(t)
  BY <1>1, RollbackGood DEF Writes
<1>2. CASE ~Rollback(t)
  <2> DEFINE dto == slot[t].dto
             sub == IF dto.sub = Keep THEN Null ELSE dto.sub
             pc == IF dto.images # <<>> THEN "sync" ELSE "commit"
             row == [NoProduct EXCEPT !.state = "draft", !.owner = slot[t].user,
                                      !.category = dto.category, !.sub = sub]
  <2>1. PICK p \in Products :
          /\ product[p].state = "none"
          /\ product' = [product EXCEPT ![p] = row]
          /\ slot' = [slot EXCEPT ![t].pid = p, ![t].pc = pc]
    BY <1>2 DEF Insert
  <2>2. assertCategoryPair(dto.category, sub) /\ slot[t].op = "create"
    BY <1>2 DEF Insert, Inv, RequestsOK, RequestOK
  <2> HIDE DEF sub
  <2>3. row.state = "draft" /\ row.category = dto.category /\ row.sub = sub
    BY AbsentTyped DEF Product
  <2> HIDE DEF row, dto, pc
  <2>4. /\ product'[p] = row /\ \A q \in Products \ {p} : product'[q] = product[q]
    BY <2>1 DEF Inv, TypeOK
  <2>5. /\ slot'[t].pid = p /\ slot'[t].op = "create"
        /\ \A s \in Slots \ {t} : slot'[s] = slot[s]
    BY <2>1, <2>2 DEF Inv, TypeOK, Request
  <2>6. \A s \in Slots \ {t} : Holds(s) => slot[s].pid \in Products \ {p}
    BY <2>1 DEF Inv, HeldRows
  <2>7. Good(t)
    BY <2>3, <2>4, <2>5, <2>6 DEF Good
  <2>8. \A q \in Products : product'[q].state # "none" =>
          assertCategoryPair(product'[q].category, product'[q].sub)
    BY <2>2, <2>3, <2>4 DEF Inv, PairsAreValid
  <2>9. PairsAreValid'
    BY <2>8 DEF PairsAreValid, assertCategoryPair, isValidCategory,
                isValidSubcategory, isAllowedProductSubcategory
  <2> QED BY <2>1, <2>4, <2>7, <2>9 DEF Writes
<1> QED BY <1>1, <1>2

\* A COMMIT writes a row that no other request holds and that is not deleted.
LEMMA CommitGood ==
  ASSUME Inv, NEW t \in Slots, Commit(t)
  PROVE  Good(t) /\ Writes
<1> DEFINE p == slot[t].pid
           old == product[p]
<1>1. /\ Holds(t) /\ p \in Products
      /\ slot[t].op \in {"create", "update", "delete", "status"}
      /\ old.state \in {"draft", "live"} /\ old \in Product
  BY DEF Commit, Holds, Inv, HeldRows, RequestsOK, RequestOK, TypeOK, Request, Op
<1>2. product'[p] = Written(t) /\ \A q \in Products \ {p} : product'[q] = product[q]
  BY <1>1 DEF Commit, Inv, TypeOK
<1>3. \A s \in Slots \ {t} : Holds(s) => product'[slot[s].pid] = product[slot[s].pid]
  BY <1>1, <1>2 DEF Inv, HeldRows, OneHolder
<1>4. Good(t)
  BY <1>3, FinishGood DEF Commit
<1>5. assertCategoryPair(old.category, old.sub)
  BY <1>1 DEF Inv, PairsAreValid
<1>6. slot[t].op = "update" => assertCategoryPair(NextCategory(t), NextSubcategory(t))
  BY <1>1 DEF Commit, Inv, TestedPairs
<1>7. \/ Written(t).category = old.category /\ Written(t).sub = old.sub
      \/ /\ slot[t].op = "update"
         /\ Written(t).category = NextCategory(t) /\ Written(t).sub = NextSubcategory(t)
  BY <1>1 DEF Written, Product
<1>8. assertCategoryPair(Written(t).category, Written(t).sub)
  BY <1>5, <1>6, <1>7
<1>9. \A q \in Products : product'[q].state # "none" =>
        assertCategoryPair(product'[q].category, product'[q].sub)
  BY <1>2, <1>8 DEF Inv, PairsAreValid
<1>10. PairsAreValid'
  BY <1>9 DEF PairsAreValid, assertCategoryPair, isValidCategory,
              isValidSubcategory, isAllowedProductSubcategory
<1> QED BY <1>1, <1>2, <1>4, <1>10 DEF Writes

\* Every step of a request is a good one.
LEMMA StepGood ==
  ASSUME Inv, NEW t \in Slots, Step(t) \/ Fail(t) \/ \E u \in Users : Arrive(t, u)
  PROVE  Good(t) /\ Writes
<1>1. CASE withTransaction(t)
  <2>1. PICK pc \in {"insert", "lock"} : Goto(t, pc) /\ product' = product
    BY <1>1 DEF withTransaction
  <2>2. slot'[t].pc = pc
    BY <2>1 DEF Goto, Inv, TypeOK, Request
  <2> QED BY <2>1, <2>2, GotoGood, NoWrites DEF Holds
<1>2. CASE MarkConnect(t)
  <2>1. Goto(t, "marking") /\ product' = product
    BY <1>2 DEF MarkConnect
  <2>2. slot'[t].pc = "marking"
    BY <2>1 DEF Goto, Inv, TypeOK, Request
  <2> QED BY <2>1, <2>2, GotoGood, NoWrites DEF Holds
<1>3. CASE MarkWrite(t) \/ SetAvatar(t)
  BY <1>3, FinishGood, NoWrites DEF MarkWrite, SetAvatar
<1>4. CASE Fail(t)
  BY <1>4, RollbackGood DEF Fail, Writes
<1> QED BY <1>1, <1>2, <1>3, <1>4, ArriveGood, OwnershipGood, UpdateFieldsGood, ImagesGood,
           InsertGood, CommitGood DEF Step

\* Each step leaves its request at a step of its own operation.
LEMMA RequestStep == Inv /\ [Next]_vars => RequestsOK'
<1> SUFFICES ASSUME Inv, [Next]_vars
             PROVE  RequestsOK'
  OBVIOUS
<1>1. ASSUME slot' = slot
      PROVE  RequestsOK'
  BY <1>1 DEF Inv, RequestsOK
<1>2. ASSUME NEW t \in Slots, NEW r, slot' = [slot EXCEPT ![t] = r], RequestOK(r)
      PROVE  RequestsOK'
  BY <1>2 DEF Inv, RequestsOK, TypeOK
<1>3. RequestOK(Idle)
  BY AbsentTyped DEF RequestOK, Request
<1>4. ASSUME NEW t \in Slots, Finish(t) \/ Rollback(t)
      PROVE  RequestsOK'
  BY <1>2, <1>3, <1>4 DEF Finish, Rollback
<1>5. ASSUME NEW t \in Slots, NEW pc \in PC, Goto(t, pc), RequestOK([slot[t] EXCEPT !.pc = pc])
      PROVE  RequestsOK'
  BY <1>2, <1>5 DEF Goto
<1>6. ASSUME NEW t \in Slots
      PROVE  slot[t] \in Request /\ RequestOK(slot[t])
  BY DEF Inv, RequestsOK, TypeOK
<1>7. ASSUME NEW t \in Slots, withTransaction(t)
      PROVE  RequestsOK'
  <2> DEFINE pc == IF slot[t].op = "create" THEN "insert" ELSE "lock"
  <2>1. RequestOK([slot[t] EXCEPT !.pc = pc]) /\ pc \in PC
    BY <1>6, <1>7 DEF withTransaction, RequestOK, Request, PC
  <2> QED BY <1>5, <1>7, <2>1 DEF withTransaction
<1>8. ASSUME NEW t \in Slots, Ownership(t)
      PROVE  RequestsOK'
  <2> DEFINE pc == IF slot[t].op = "update" THEN "write" ELSE "commit"
  <2>1. RequestOK([slot[t] EXCEPT !.pc = pc]) /\ pc \in PC
    BY <1>6, <1>8 DEF Ownership, RequestOK, Request, PC
  <2> QED BY <1>4, <1>5, <1>8, <2>1 DEF Ownership
<1>9. ASSUME NEW t \in Slots, UpdateFields(t)
      PROVE  RequestsOK'
  <2> DEFINE pc == IF slot[t].dto.hasImages THEN "sync" ELSE "commit"
  <2>1. RequestOK([slot[t] EXCEPT !.pc = pc]) /\ pc \in PC
    BY <1>6, <1>9 DEF UpdateFields, RequestOK, Request, PC
  <2> QED BY <1>4, <1>5, <1>9, <2>1 DEF UpdateFields
<1>10. ASSUME NEW t \in Slots, syncProductImages(t) \/ AttachImages(t)
       PROVE  RequestsOK'
  <2>1. ASSUME NEW pc \in {"attach", "commit"}
        PROVE  RequestOK([slot[t] EXCEPT !.pc = pc]) /\ pc \in PC
    BY <1>6, <1>10 DEF syncProductImages, AttachImages, RequestOK, Request, PC
  <2> QED BY <1>4, <1>5, <1>10, <2>1 DEF syncProductImages, AttachImages
<1>11. ASSUME NEW t \in Slots, MarkConnect(t)
       PROVE  RequestsOK'
  <2>1. RequestOK([slot[t] EXCEPT !.pc = "marking"]) /\ "marking" \in PC
    BY <1>6, <1>11 DEF MarkConnect, RequestOK, Request, PC
  <2> QED BY <1>5, <1>11, <2>1 DEF MarkConnect
<1>12. ASSUME NEW t \in Slots, Insert(t)
       PROVE  RequestsOK'
  <2>1. ASSUME NEW p \in Products, NEW pc \in {"sync", "commit"}
        PROVE  RequestOK([slot[t] EXCEPT !.pid = p, !.pc = pc])
    BY <1>6, <1>12 DEF Insert, RequestOK, Request
  <2> DEFINE pc == IF slot[t].dto.images # <<>> THEN "sync" ELSE "commit"
  <2>2. CASE \E p \in Products : slot' = [slot EXCEPT ![t].pid = p, ![t].pc = pc]
    <3>1. PICK p \in Products : slot' = [slot EXCEPT ![t].pid = p, ![t].pc = pc]
      BY <2>2
    <3>2. slot' = [slot EXCEPT ![t] = [slot[t] EXCEPT !.pid = p, !.pc = pc]]
      BY <3>1 DEF Inv, TypeOK
    <3> QED BY <1>2, <2>1, <3>2
  <2> QED BY <1>4, <1>12, <2>2 DEF Insert
<1>13. ASSUME NEW t \in Slots, Commit(t) \/ MarkWrite(t) \/ SetAvatar(t) \/ Fail(t)
       PROVE  RequestsOK'
  BY <1>4, <1>13 DEF Commit, MarkWrite, SetAvatar, Fail
<1>14. ASSUME NEW t \in Slots, NEW u \in Users, Arrive(t, u)
       PROVE  RequestsOK'
  <2>1. ASSUME NEW d
        PROVE  RequestOK([Idle EXCEPT !.pc = "begin", !.op = "create", !.user = u, !.dto = d])
    BY AbsentTyped DEF RequestOK, Request
  <2>2. ASSUME NEW p \in Products, NEW d
        PROVE  RequestOK([Idle EXCEPT !.pc = "begin", !.op = "update", !.user = u, !.pid = p, !.dto = d])
    BY AbsentTyped DEF RequestOK, Request
  <2>3. ASSUME NEW p \in Products, NEW st
        PROVE  /\ RequestOK([Idle EXCEPT !.pc = "begin", !.op = "delete", !.user = u, !.pid = p])
               /\ RequestOK([Idle EXCEPT !.pc = "begin", !.op = "status", !.user = u, !.pid = p, !.status = st])
    BY AbsentTyped DEF RequestOK, Request
  <2>4. ASSUME NEW f \in Files
        PROVE  /\ RequestOK([Idle EXCEPT !.pc = "mark", !.user = u, !.fid = f])
               /\ RequestOK([Idle EXCEPT !.pc = "avatar", !.user = u, !.fid = f])
    BY AbsentTyped DEF RequestOK, Request
  <2>5. RequestOK([Idle EXCEPT !.pc = "avatar", !.user = u])
    BY AbsentTyped DEF RequestOK, Request
  <2> QED BY <1>2, <1>14, <2>1, <2>2, <2>3, <2>4, <2>5
          DEF Arrive, Start, createProduct, updateProduct, deleteProduct, updateProductStatus,
              markUploaded, updateMe, ClearAvatar
<1> QED BY <1>1, <1>7, <1>8, <1>9, <1>10, <1>11, <1>12, <1>13, <1>14
        DEF Next, Step, createUploadIntent, vars

-----------------------------------------------------------------------------
(* Theorems *)

\* Every step keeps what requests hold, the pairs and the deleted products.
LEMMA RowsStep ==
  Inv /\ [Next]_vars => HeldRows' /\ OneHolder' /\ TestedPairs' /\ Writes
<1> SUFFICES ASSUME Inv, [Next]_vars
             PROVE  HeldRows' /\ OneHolder' /\ TestedPairs' /\ Writes
  OBVIOUS
<1>1. CASE \E t \in Slots : Step(t) \/ Fail(t) \/ \E u \in Users : Arrive(t, u)
  BY <1>1, StepGood, GoodKeeps
<1>2. CASE slot' = slot /\ product' = product
  <2>1. HeldRows' /\ OneHolder'
    BY <1>2 DEF Inv, HeldRows, OneHolder, Holds
  <2>2. TestedPairs'
    BY <1>2 DEF Inv, TestedPairs, Holds, NextCategory, NextSubcategory, assertCategoryPair,
                isValidCategory, isValidSubcategory, isAllowedProductSubcategory
  <2> QED BY <1>2, <2>1, <2>2, NoWrites
<1> QED BY <1>1, <1>2 DEF Next, createUploadIntent, vars

\* The empty tables satisfy the inductive invariant.
LEMMA InvInit == Init => Inv
<1> SUFFICES ASSUME Init PROVE Inv
  OBVIOUS
<1>1. TypeOK
  BY AbsentTyped, BoundsAssumption DEF Init, TypeOK
<1>2. \A s \in Slots : slot[s] = Idle
  BY DEF Init
<1>3. RequestsOK
  BY <1>2, AbsentTyped DEF RequestsOK, RequestOK, Request
<1>4. HeldRows /\ OneHolder /\ TestedPairs
  BY <1>2, AbsentTyped DEF HeldRows, OneHolder, TestedPairs, Holds
<1>5. PairsAreValid
  BY DEF Init, PairsAreValid, NoProduct
<1> QED BY <1>1, <1>3, <1>4, <1>5 DEF Inv

\* Inv holds in every reachable state, whatever the sets and the bounds.
THEOREM CatalogInvariant == Spec => []Inv
<1>1. Inv /\ [Next]_vars => Inv'
  BY TypeStep, RequestStep, RowsStep DEF Inv, Writes
<1> QED BY InvInit, <1>1, PTL DEF Spec

\* Type correctness of products, files, avatars and requests in flight.
THEOREM CatalogTypeCorrect == Spec => []TypeOK
<1>1. Inv => TypeOK
  BY DEF Inv
<1> QED BY <1>1, CatalogInvariant, PTL

\* Whatever PATCHes cross, updateProduct never stores a subcategory that the
\* product's category does not allow.
THEOREM PairsStayValid == Spec => []PairsAreValid
<1>1. Inv => PairsAreValid
  BY DEF Inv
<1> QED BY <1>1, CatalogInvariant, PTL

\* No transaction of ProductsService ever writes a product once it is deleted.
THEOREM DeletedStaysFrozen == Spec => DeletedIsFrozen
<1>1. Inv /\ [Next]_vars =>
        [\A p \in Products : product[p].state = "deleted" => product'[p] = product[p]]_vars
  BY RowsStep DEF Writes
<1> QED BY <1>1, CatalogInvariant, PTL DEF Spec, DeletedIsFrozen

-----------------------------------------------------------------------------
(* Images and avatars *)

\* What a request x relies on between a test and the write it is for, in
\* files fl and products pr.
MediaOK(x, fl, pr) ==
  /\ x.dto.hasImages \/ x.dto.images = <<>>
  /\ x.op \notin {"create", "update"} => x.dto.images = <<>>
  /\ x.pc \in {"attach", "commit"} => \A f \in Range(x.dto.images) :
       fl[f].status = "uploaded" /\ fl[f].purpose = "product_image" /\ fl[f].uploader = x.user
  /\ x.pc \in {"write", "sync", "attach", "commit"} => pr[x.pid].owner = x.user
  /\ x.pc = "avatar" /\ x.fid # 0 =>
       fl[x.fid].status = "uploaded" /\ fl[x.fid].purpose = "avatar" /\ fl[x.fid].uploader = x.user

MediaRequests == \A s \in Slots : MediaOK(slot[s], file, product)

\* A file belongs to a committed product of its uploader, or to none.
FilesOwned ==
  \A f \in Files : file[f].owner # 0 =>
    /\ product[file[f].owner].state \in {"live", "deleted"}
    /\ product[file[f].owner].owner = file[f].uploader

\* Only committed products have images.
DraftsBare == \A p \in Products : product[p].state \in {"none", "draft"} => product[p].images = <<>>

MediaInv == MediaRequests /\ FilesOwned /\ DraftsBare /\ MediaIsUploaded

\* Confirmed files and committed products stay whose they are.
Kept ==
  /\ \A f \in Files : file[f].status = "uploaded" =>
       /\ file'[f].status = "uploaded" /\ file'[f].purpose = file[f].purpose
       /\ file'[f].uploader = file[f].uploader
  /\ \A p \in Products : product[p].state \in {"live", "deleted"} =>
       product'[p].state \in {"live", "deleted"} /\ product'[p].owner = product[p].owner

LEMMA ImagesAreFiles ==
  ASSUME Inv
  PROVE  /\ \A s \in Slots : Range(slot[s].dto.images) \subseteq Files
         /\ \A p \in Products : Range(product[p].images) \subseteq Files
         /\ \A f \in Files : file[f].owner # 0 => file[f].owner \in Products
         /\ \A u \in Users : avatar[u] # 0 => avatar[u] \in Files
<1>1. \A q \in Seq(Files) : Range(q) \subseteq Files
  BY DEF Range
<1>2. \A s \in Slots : slot[s].dto.images \in Seq(Files)
  BY DEF Inv, TypeOK, Request, Dto
<1>3. \A p \in Products : product[p].images \in Seq(Files)
  BY DEF Inv, TypeOK, Product
<1>4. \A f \in Files : file[f].owner # 0 => file[f].owner \in Products
  BY BoundsAssumption DEF Inv, TypeOK, File, Products
<1>5. \A u \in Users : avatar[u] # 0 => avatar[u] \in Files
  BY BoundsAssumption DEF Inv, TypeOK, Files
<1> QED BY <1>1, <1>2, <1>3, <1>4, <1>5

\* A step of somebody else takes nothing away from a request.
LEMMA MediaFrame ==
  ASSUME Inv, NEW s \in Slots, MediaOK(slot[s], file, product), Kept, slot'[s] = slot[s],
         Holds(s) => product'[slot[s].pid] = product[slot[s].pid]
  PROVE  MediaOK(slot'[s], file', product')
<1>1. slot[s].pc = "avatar" /\ slot[s].fid # 0 => slot[s].fid \in Files
  BY BoundsAssumption DEF Inv, TypeOK, Request, Files
<1>2. Range(slot[s].dto.images) \subseteq Files
  BY ImagesAreFiles
<1> QED BY <1>1, <1>2 DEF MediaOK, Kept, Holds

\* The tables as they are left alone.
LEMMA SameTables ==
  ASSUME Inv, MediaInv, UNCHANGED <<file, product, avatar>>
  PROVE  Kept /\ FilesOwned' /\ DraftsBare' /\ MediaIsUploaded'
BY DEF Kept, MediaInv, FilesOwned, DraftsBare, MediaIsUploaded

\* A free slot relies on nothing.
LEMMA IdleMedia == ASSUME NEW fl, NEW pr PROVE MediaOK(Idle, fl, pr)
BY DEF MediaOK, Idle, NoDto

\* A draft that is given up was nobody's.
LEMMA RollbackMedia ==
  ASSUME Inv, MediaInv, NEW t \in Slots, Rollback(t)
  PROVE  /\ Kept /\ FilesOwned' /\ DraftsBare' /\ MediaIsUploaded'
         /\ MediaOK(slot'[t], file', product')
<1>1. slot'[t] = Idle /\ file' = file /\ avatar' = avatar
  BY DEF Rollback, Finish, Inv, TypeOK
<1>2. slot[t].op = "create" /\ slot[t].pid \in Products => product[slot[t].pid].state = "draft"
  BY BoundsAssumption DEF Inv, RequestsOK, RequestOK, Products, Holds, HeldRows
<1>3. \A p \in Products :
        \/ product'[p] = product[p]
        \/ product[p].state = "draft" /\ product'[p] = NoProduct
  BY <1>2 DEF Rollback
<1>4. Kept
  BY <1>1, <1>3 DEF Kept
<1>5. FilesOwned'
  BY <1>1, <1>3, ImagesAreFiles DEF FilesOwned, MediaInv
<1>6. DraftsBare'
  BY <1>3 DEF DraftsBare, MediaInv, NoProduct
<1>7. MediaIsUploaded'
  BY <1>1, <1>3, ImagesAreFiles DEF MediaIsUploaded, MediaInv, NoProduct, FilesOwned
<1> QED BY <1>1, <1>4, <1>5, <1>6, <1>7, IdleMedia
\* A request that goes on, with what it has just tested.
LEMMA GotoMedia ==
  ASSUME Inv, MediaInv, NEW t \in Slots, NEW pc, Goto(t, pc), UNCHANGED <<file, product, avatar>>,
         MediaOK([slot[t] EXCEPT !.pc = pc], file, product)
  PROVE  /\ Kept /\ FilesOwned' /\ DraftsBare' /\ MediaIsUploaded'
         /\ MediaOK(slot'[t], file', product')
<1>1. slot'[t] = [slot[t] EXCEPT !.pc = pc]
  BY DEF Goto, Inv, TypeOK
<1> QED BY <1>1, SameTables

\* The steps that only test: the files are looked at under no lock.
LEMMA TestsMedia ==
  ASSUME Inv, MediaInv, NEW t \in Slots,
         \/ withTransaction(t) \/ Ownership(t) \/ UpdateFields(t) \/ syncProductImages(t)
         \/ AttachImages(t) \/ MarkConnect(t) \/ Fail(t)
  PROVE  /\ Kept /\ FilesOwned' /\ DraftsBare' /\ MediaIsUploaded'
         /\ MediaOK(slot'[t], file', product')
<1>1. CASE Rollback(t)
  BY <1>1, RollbackMedia
<1>2. slot[t] \in Request /\ MediaOK(slot[t], file, product) /\ RequestOK(slot[t])
  BY DEF Inv, TypeOK, MediaInv, MediaRequests, RequestsOK
<1>3. CASE withTransaction(t) \/ MarkConnect(t)
  <2>1. PICK pc \in {"insert", "lock", "marking"} : Goto(t, pc) /\ UNCHANGED <<file, product, avatar>>
    BY <1>3 DEF withTransaction, MarkConnect
  <2>2. MediaOK([slot[t] EXCEPT !.pc = pc], file, product)
    BY <1>2 DEF MediaOK, Request
  <2> QED BY <2>1, <2>2, GotoMedia
<1>4. CASE Ownership(t) /\ ~Rollback(t)
  <2>1. PICK pc \in {"write", "commit"} : 
          /\ Goto(t, pc) /\ UNCHANGED <<file, product, avatar>>
          /\ pc = "commit" => slot[t].op # "update"
          /\ product[slot[t].pid].owner = slot[t].user /\ slot[t].pc = "lock"
    BY <1>4 DEF Ownership
  <2>2. MediaOK([slot[t] EXCEPT !.pc = pc], file, product)
    BY <1>2, <2>1 DEF MediaOK, Request, RequestOK, Range
  <2> QED BY <2>1, <2>2, GotoMedia
<1>5. CASE UpdateFields(t) /\ ~Rollback(t)
  <2>1. PICK pc \in {"sync", "commit"} :
          /\ Goto(t, pc) /\ UNCHANGED <<file, product, avatar>>
          /\ pc = "commit" => ~slot[t].dto.hasImages
          /\ slot[t].pc = "write"
    BY <1>5 DEF UpdateFields
  <2>2. MediaOK([slot[t] EXCEPT !.pc = pc], file, product)
    BY <1>2, <2>1 DEF MediaOK, Request, Range
  <2> QED BY <2>1, <2>2, GotoMedia
<1>6. CASE syncProductImages(t) /\ ~Rollback(t)
  <2>1. PICK pc \in {"attach", "commit"} :
          /\ Goto(t, pc) /\ UNCHANGED <<file, product, avatar>> /\ slot[t].pc = "sync"
          /\ \A f \in Range(slot[t].dto.images) : MayAttach(f, slot[t].user)
    BY <1>6 DEF syncProductImages
  <2>2. MediaOK([slot[t] EXCEPT !.pc = pc], file, product)
    BY <1>2, <2>1 DEF MediaOK, Request, MayAttach
  <2> QED BY <2>1, <2>2, GotoMedia
<1>7. CASE AttachImages(t)
  <2>1. Goto(t, "commit") /\ UNCHANGED <<file, product, avatar>> /\ slot[t].pc = "attach"
    BY <1>7 DEF AttachImages
  <2>2. MediaOK([slot[t] EXCEPT !.pc = "commit"], file, product)
    BY <1>2, <2>1 DEF MediaOK, Request
  <2> QED BY <2>1, <2>2, GotoMedia
<1> QED BY <1>1, <1>3, <1>4, <1>5, <1>6, <1>7 DEF Fail

\* A new row has no images yet, and its owner is who asked for it.
LEMMA InsertMedia ==
  ASSUME Inv, MediaInv, NEW t \in Slots, Insert(t)
  PROVE  /\ Kept /\ FilesOwned' /\ DraftsBare' /\ MediaIsUploaded'
         /\ MediaOK(slot'[t], file', product')
<1>1. CASE Rollback(t)
  BY <1>1, RollbackMedia
<1>2. CASE ~Rollback(t)
  <2> DEFINE sub == IF slot[t].dto.sub = Keep THEN Null ELSE slot[t].dto.sub
             pc == IF slot[t].dto.images # <<>> THEN "sync" ELSE "commit"
             row == [NoProduct EXCEPT !.state = "draft", !.owner = slot[t].user,
                                      !.category = slot[t].dto.category, !.sub = sub]
  <2>1. PICK p \in Products :
          /\ product[p].state = "none" /\ product' = [product EXCEPT ![p] = row]
          /\ slot' = [slot EXCEPT ![t].pid = p, ![t].pc = pc]
          /\ UNCHANGED <<file, avatar>>
    BY <1>2 DEF Insert
  <2>2. row.state = "draft" /\ row.owner = slot[t].user /\ row.images = <<>>
    BY DEF NoProduct
  <2> HIDE DEF row, sub
  <2>3. product'[p] = row /\ \A q \in Products \ {p} : product'[q] = product[q]
    BY <2>1 DEF Inv, TypeOK
  <2>4. slot'[t] = [slot[t] EXCEPT !.pid = p, !.pc = pc]
    BY <2>1 DEF Inv, TypeOK
  <2>5. slot[t] \in Request /\ MediaOK(slot[t], file, product)
    BY DEF Inv, TypeOK, MediaInv, MediaRequests
  <2>6. MediaOK(slot'[t], file', product')
    <3>1. /\ slot'[t].pid = p /\ slot'[t].pc = pc /\ slot'[t].op = slot[t].op
          /\ slot'[t].dto = slot[t].dto /\ slot'[t].user = slot[t].user
      BY <2>4, <2>5 DEF Request
    <3>2. pc \in {"sync", "commit"} /\ (pc = "commit" => Range(slot[t].dto.images) = {})
      BY DEF Range
    <3> HIDE DEF pc
    <3> QED BY <2>2, <2>3, <2>5, <3>1, <3>2 DEF MediaOK
  <2>7. Kept
    BY <2>1, <2>3 DEF Kept
  <2>8. FilesOwned'
    BY <2>1, <2>3, ImagesAreFiles DEF FilesOwned, MediaInv
  <2>9. DraftsBare'
    BY <2>2, <2>3 DEF DraftsBare, MediaInv
  <2>10. MediaIsUploaded'
    BY <2>1, <2>2, <2>3, ImagesAreFiles DEF MediaIsUploaded, MediaInv, FilesOwned, Range
  <2> QED BY <2>6, <2>7, <2>8, <2>9, <2>10
<1> QED BY <1>1, <1>2
\* A COMMIT shows the images that were tested, and hands their files to a
\* product of the same owner.
LEMMA CommitMedia ==
  ASSUME Inv, MediaInv, NEW t \in Slots, Commit(t)
  PROVE  /\ Kept /\ FilesOwned' /\ DraftsBare' /\ MediaIsUploaded'
         /\ MediaOK(slot'[t], file', product')
<1> DEFINE p == slot[t].pid
           old == product[p]
           mine == Range(slot[t].dto.images)
<1>1. /\ slot[t].pc = "commit" /\ p \in Products /\ old \in Product
      /\ slot[t].op \in {"create", "update", "delete", "status"}
      /\ old.state = (IF slot[t].op = "create" THEN "draft" ELSE "live")
      /\ MediaOK(slot[t], file, product)
  BY DEF Commit, Holds, Inv, HeldRows, RequestsOK, RequestOK, TypeOK, Request, Op, MediaInv, MediaRequests
<1>2. product'[p] = Written(t) /\ \A q \in Products \ {p} : product'[q] = product[q]
  BY <1>1 DEF Commit, Inv, TypeOK
<1>3. /\ Written(t).owner = old.owner
      /\ Written(t).state \in {"live", "deleted"}
      /\ \/ Written(t).images = old.images
         \/ slot[t].op \in {"create", "update"} /\ Written(t).images = slot[t].dto.images
  BY <1>1 DEF Written, Product
<1>4. \A f \in Files :
        /\ f \in mine => file'[f].owner = p
        /\ f \notin mine => file'[f].owner = file[f].owner
        /\ file'[f].status = file[f].status /\ file'[f].purpose = file[f].purpose
        /\ file'[f].uploader = file[f].uploader
  <2>1. \A f \in Files : file[f] \in File
    BY DEF Inv, TypeOK
  <2> QED BY <1>1, <2>1 DEF Commit, LocksFile, File
<1>5. mine \subseteq Files /\ avatar' = avatar
  BY ImagesAreFiles DEF Commit
<1>6. \A f \in mine : /\ file[f].status = "uploaded" /\ file[f].purpose = "product_image"
                      /\ file[f].uploader = old.owner
  BY <1>1 DEF MediaOK
<1> HIDE DEF mine
<1>7. Kept
  BY <1>2, <1>3, <1>4 DEF Kept
<1>8. FilesOwned'
  BY <1>1, <1>2, <1>3, <1>4, <1>6, ImagesAreFiles DEF FilesOwned, MediaInv
<1>9. DraftsBare'
  BY <1>2, <1>3 DEF DraftsBare, MediaInv
<1>10. p # 0
  BY <1>1 DEF Products
<1>11. ASSUME NEW q \in Products, product'[q].state # "none", NEW f \in Range(product'[q].images)
       PROVE  /\ f \in Files /\ file'[f].status = "uploaded" /\ file'[f].purpose = "product_image"
              /\ file'[f].uploader = product'[q].owner /\ file'[f].owner # 0
  <2>1. CASE f \in mine /\ q = p
    BY <1>2, <1>3, <1>4, <1>5, <1>6, <1>10, <2>1
  <2>2. CASE ~(f \in mine /\ q = p)
    <3>1. f \in Range(product[q].images) /\ product'[q].owner = product[q].owner
      BY <1>1, <1>2, <1>3, <1>11, <2>2 DEF mine
    <3>2. product[q].state # "none"
      BY <1>1, <1>2, <1>11
    <3>3. f \in Files
      BY <3>1, ImagesAreFiles
    <3> QED BY <1>4, <1>10, <3>1, <3>2, <3>3 DEF MediaInv, MediaIsUploaded
  <2> QED BY <2>1, <2>2
<1>12. MediaIsUploaded'
  <2>1. \A f \in Files : file'[f].owner # 0 => product'[file'[f].owner].owner = file'[f].uploader
    BY <1>8 DEF FilesOwned
  <2>2. \A u \in Users : avatar'[u] # 0 =>
          /\ file'[avatar'[u]].status = "uploaded" /\ file'[avatar'[u]].purpose = "avatar"
          /\ file'[avatar'[u]].uploader = u
    BY <1>4, <1>5, ImagesAreFiles DEF MediaInv, MediaIsUploaded
  <2> QED BY <1>11, <2>1, <2>2 DEF MediaIsUploaded
<1>13. slot'[t] = Idle
  BY DEF Commit, Finish, Inv, TypeOK
<1> QED BY <1>7, <1>8, <1>9, <1>12, <1>13, IdleMedia

\* A confirmation, an intent or an avatar touches no image in use.
LEMMA FilesMedia ==
  ASSUME Inv, MediaInv, UNCHANGED product,
         \A f \in Files :
           \/ file'[f] = file[f]
           \/ /\ file[f].status # "uploaded" /\ file'[f].owner = 0
           \/ /\ file'[f].status = "uploaded" /\ file'[f].purpose = file[f].purpose
              /\ file'[f].uploader = file[f].uploader /\ file'[f].owner = file[f].owner,
         \A u \in Users : avatar'[u] = avatar[u] \/ avatar'[u] = 0 \/
           /\ avatar'[u] \in Files /\ file[avatar'[u]].status = "uploaded"
           /\ file[avatar'[u]].purpose = "avatar" /\ file[avatar'[u]].uploader = u
  PROVE  Kept /\ FilesOwned' /\ DraftsBare' /\ MediaIsUploaded'
<1>1. Kept
  BY DEF Kept
<1>2. FilesOwned' /\ DraftsBare'
  BY DEF MediaInv, FilesOwned, DraftsBare
<1>3. ASSUME NEW q \in Products, product[q].state # "none", NEW f \in Range(product[q].images)
      PROVE  /\ file'[f].status = "uploaded" /\ file'[f].purpose = "product_image"
             /\ file'[f].uploader = product[q].owner
             /\ file'[f].owner # 0 /\ product[file'[f].owner].owner = product[q].owner
  <2>1. f \in Files
    BY ImagesAreFiles
  <2> QED BY <1>3, <2>1 DEF MediaInv, MediaIsUploaded
<1>4. ASSUME NEW u \in Users, avatar'[u] # 0
      PROVE  /\ file'[avatar'[u]].status = "uploaded" /\ file'[avatar'[u]].purpose = "avatar"
             /\ file'[avatar'[u]].uploader = u
  <2>1. /\ avatar'[u] \in Files /\ file[avatar'[u]].status = "uploaded"
        /\ file[avatar'[u]].purpose = "avatar" /\ file[avatar'[u]].uploader = u
    BY <1>4, ImagesAreFiles DEF MediaInv, MediaIsUploaded
  <2> QED BY <2>1
<1>5. MediaIsUploaded'
  BY <1>3, <1>4 DEF MediaIsUploaded
<1> QED BY <1>1, <1>2, <1>5
LEMMA MarkMedia ==
  ASSUME Inv, MediaInv, NEW t \in Slots, MarkWrite(t)
  PROVE  /\ Kept /\ FilesOwned' /\ DraftsBare' /\ MediaIsUploaded'
         /\ MediaOK(slot'[t], file', product')
<1> DEFINE g == slot[t].fid
<1>1. g \in Files /\ \A f \in Files : file[f] \in File
  BY DEF MarkWrite, Inv, RequestsOK, RequestOK, TypeOK
<1>2. file' = [file EXCEPT ![g] = [file[g] EXCEPT !.status = "uploaded"]]
  BY <1>1 DEF MarkWrite, Inv, TypeOK
<1>3. \A f \in Files : f # g => file'[f] = file[f]
  BY <1>2 DEF Inv, TypeOK
<1>4. /\ file'[g].status = "uploaded" /\ file'[g].purpose = file[g].purpose
      /\ file'[g].uploader = file[g].uploader /\ file'[g].owner = file[g].owner
  BY <1>1, <1>2 DEF File, Inv, TypeOK
<1>5. slot'[t] = Idle /\ product' = product /\ avatar' = avatar
  BY DEF MarkWrite, Finish, Inv, TypeOK
<1> QED BY <1>3, <1>4, <1>5, FilesMedia, IdleMedia

LEMMA AvatarMedia ==
  ASSUME Inv, MediaInv, NEW t \in Slots, SetAvatar(t)
  PROVE  /\ Kept /\ FilesOwned' /\ DraftsBare' /\ MediaIsUploaded'
         /\ MediaOK(slot'[t], file', product')
<1>1. slot[t].pc = "avatar" /\ slot[t].user \in Users /\ MediaOK(slot[t], file, product)
  BY DEF SetAvatar, Inv, RequestsOK, RequestOK, MediaInv, MediaRequests
<1>2. /\ avatar'[slot[t].user] = slot[t].fid
      /\ \A u \in Users : u # slot[t].user => avatar'[u] = avatar[u]
  BY <1>1 DEF SetAvatar, Inv, TypeOK
<1>3. slot[t].fid # 0 => slot[t].fid \in Files
  BY BoundsAssumption DEF Inv, TypeOK, Request, Files
<1>4. slot'[t] = Idle /\ product' = product /\ file' = file
  BY DEF SetAvatar, Finish, Inv, TypeOK
<1>5. \A u \in Users : avatar'[u] = avatar[u] \/ avatar'[u] = 0 \/
        /\ avatar'[u] \in Files /\ file[avatar'[u]].status = "uploaded"
        /\ file[avatar'[u]].purpose = "avatar" /\ file[avatar'[u]].uploader = u
  BY <1>1, <1>2, <1>3 DEF MediaOK
<1> QED BY <1>4, <1>5, FilesMedia, IdleMedia

LEMMA IntentMedia ==
  ASSUME Inv, MediaInv, NEW u \in Users, NEW purpose \in {"product_image", "avatar"},
         createUploadIntent(u, purpose)
  PROVE  Kept /\ FilesOwned' /\ DraftsBare' /\ MediaIsUploaded'
<1>1. PICK g \in Files :
        /\ file[g].status = "none"
        /\ file' = [file EXCEPT ![g] = [status |-> "pending", uploader |-> u,
                                        purpose |-> purpose, owner |-> 0]]
        /\ UNCHANGED <<product, avatar>>
  BY DEF createUploadIntent
<1>2. file'[g].owner = 0 /\ \A f \in Files : f # g => file'[f] = file[f]
  BY <1>1 DEF Inv, TypeOK
<1> QED BY <1>1, <1>2, FilesMedia

\* A request that arrives brings a body the controller has validated.
LEMMA ArriveMedia ==
  ASSUME Inv, MediaInv, NEW t \in Slots, NEW u \in Users, Arrive(t, u)
  PROVE  /\ Kept /\ FilesOwned' /\ DraftsBare' /\ MediaIsUploaded'
         /\ MediaOK(slot'[t], file', product')
<1>1. UNCHANGED <<file, product, avatar>>
  BY DEF Arrive, createProduct, updateProduct, deleteProduct, updateProductStatus,
         markUploaded, updateMe, ClearAvatar
<1>2. ASSUME NEW x, Start(t, x) PROVE slot'[t] = x
  BY <1>2 DEF Start, Inv, TypeOK
<1>3. ASSUME NEW d \in CreateDtos \cup UpdateDtos, NEW op \in {"create", "update"}, NEW p,
             slot'[t] = [Idle EXCEPT !.pc = "begin", !.op = op, !.user = u, !.pid = p, !.dto = d]
      PROVE  MediaOK(slot'[t], file, product)
  BY <1>3, DtoAssumption DEF MediaOK, Idle
<1>4. ASSUME NEW d \in CreateDtos, createProduct(t, u, d)
      PROVE  MediaOK(slot'[t], file, product)
  <2>1. slot'[t] = [Idle EXCEPT !.pc = "begin", !.op = "create", !.user = u, !.dto = d]
    BY <1>2, <1>4 DEF createProduct
  <2> QED BY <2>1, DtoAssumption DEF MediaOK, Idle
<1>5. ASSUME NEW p \in Products, NEW d \in UpdateDtos, updateProduct(t, u, p, d)
      PROVE  MediaOK(slot'[t], file, product)
  BY <1>2, <1>3, <1>5 DEF updateProduct
<1>6. ASSUME NEW p \in Products, deleteProduct(t, u, p)
      PROVE  MediaOK(slot'[t], file, product)
  <2>1. slot'[t] = [Idle EXCEPT !.pc = "begin", !.op = "delete", !.user = u, !.pid = p]
    BY <1>2, <1>6 DEF deleteProduct
  <2> QED BY <2>1 DEF MediaOK, Idle, NoDto
<1>7. ASSUME NEW p \in Products, NEW st \in Statuses, updateProductStatus(t, u, p, st)
      PROVE  MediaOK(slot'[t], file, product)
  <2>1. slot'[t] = [Idle EXCEPT !.pc = "begin", !.op = "status", !.user = u, !.pid = p, !.status = st]
    BY <1>2, <1>7 DEF updateProductStatus
  <2> QED BY <2>1 DEF MediaOK, Idle, NoDto
<1>8. ASSUME NEW f \in Files, markUploaded(t, u, f)
      PROVE  MediaOK(slot'[t], file, product)
  <2>1. slot'[t] = [Idle EXCEPT !.pc = "mark", !.user = u, !.fid = f]
    BY <1>2, <1>8 DEF markUploaded
  <2> QED BY <2>1 DEF MediaOK, Idle, NoDto
<1>9. ASSUME NEW f \in Files, updateMe(t, u, f)
      PROVE  MediaOK(slot'[t], file, product)
  <2>1. /\ slot'[t] = [Idle EXCEPT !.pc = "avatar", !.user = u, !.fid = f]
        /\ file[f].status = "uploaded" /\ file[f].purpose = "avatar" /\ file[f].uploader = u
    BY <1>2, <1>9 DEF updateMe
  <2> QED BY <2>1 DEF MediaOK, Idle, NoDto
<1>10. ASSUME ClearAvatar(t, u)
       PROVE  MediaOK(slot'[t], file, product)
  <2>1. slot'[t] = [Idle EXCEPT !.pc = "avatar", !.user = u]
    BY <1>2, <1>10 DEF ClearAvatar
  <2> QED BY <2>1 DEF MediaOK, Idle, NoDto
<1>11. MediaOK(slot'[t], file', product')
  BY <1>1, <1>4, <1>5, <1>6, <1>7, <1>8, <1>9, <1>10 DEF Arrive
<1> QED BY <1>1, <1>11, SameTables

\* Images, avatars and what requests rely on survive every step.
LEMMA MediaStep == Inv /\ MediaInv /\ [Next]_vars => MediaInv'
<1> SUFFICES ASSUME Inv, MediaInv, [Next]_vars
             PROVE  MediaInv'
  OBVIOUS
<1>1. ASSUME NEW t \in Slots, Step(t) \/ Fail(t) \/ \E u \in Users : Arrive(t, u)
      PROVE  MediaInv'
  <2>1. /\ Kept /\ FilesOwned' /\ DraftsBare' /\ MediaIsUploaded'
        /\ MediaOK(slot'[t], file', product')
    BY <1>1, TestsMedia, InsertMedia, CommitMedia, MarkMedia, AvatarMedia, ArriveMedia DEF Step
  <2>2. \A s \in Slots \ {t} :
          slot'[s] = slot[s] /\ (Holds(s) => product'[slot[s].pid] = product[slot[s].pid])
    BY <1>1, StepGood DEF Good
  <2>3. \A s \in Slots \ {t} : MediaOK(slot'[s], file', product')
    BY <2>1, <2>2, MediaFrame DEF MediaInv, MediaRequests
  <2>4. MediaRequests'
    BY <2>1, <2>3 DEF MediaRequests, MediaOK
  <2> QED BY <2>1, <2>4 DEF MediaInv
<1>2. ASSUME slot' = slot, product' = product, Kept, FilesOwned', DraftsBare', MediaIsUploaded'
      PROVE  MediaInv'
  <2>1. \A s \in Slots : MediaOK(slot'[s], file', product')
    BY <1>2, MediaFrame DEF MediaInv, MediaRequests
  <2>2. MediaRequests'
    BY <2>1 DEF MediaRequests, MediaOK
  <2> QED BY <1>2, <2>2 DEF MediaInv
<1>3. ASSUME NEW u \in Users, NEW purpose \in {"product_image", "avatar"}, createUploadIntent(u, purpose)
      PROVE  MediaInv'
  BY <1>2, <1>3, IntentMedia DEF createUploadIntent
<1>4. CASE UNCHANGED vars
  BY <1>2, <1>4, SameTables DEF vars
<1> QED BY <1>1, <1>3, <1>4 DEF Next

\* Every image shown and every avatar is a confirmed file of the right purpose,
\* uploaded by the owner: syncProductImages and updateMe may test without a
\* lock, because a confirmed file never changes its uploader or purpose.
THEOREM ImagesAreConfirmed == Spec => []MediaIsUploaded
<1>1. Init => MediaInv
  <2> SUFFICES ASSUME Init PROVE MediaInv
    OBVIOUS
  <2>1. MediaRequests
    BY IdleMedia DEF Init, MediaRequests
  <2>2. FilesOwned /\ DraftsBare
    BY DEF Init, FilesOwned, DraftsBare, NoFile, NoProduct
  <2>3. MediaIsUploaded
    BY DEF Init, MediaIsUploaded, NoProduct
  <2> QED BY <2>1, <2>2, <2>3 DEF MediaInv
<1>2. MediaInv => MediaIsUploaded
  BY DEF MediaInv
<1> QED BY <1>1, <1>2, MediaStep, CatalogInvariant, PTL DEF Spec
-----------------------------------------------------------------------------
(* Waiting *)

\* Rows of products in use, and creates that will need one.
Rows == {p \in Products : product[p].state # "none"}
Creates == {s \in Slots : slot[s].op = "create" /\ slot[s].pid = 0}

\* There is a row for each create under way.
RoomKept == IsFiniteSet(Creates) /\ Cardinality(Rows) + Cardinality(Creates) <= MaxProducts

LEMMA ProductsCounted ==
  /\ IsFiniteSet(Products) /\ Cardinality(Products) = MaxProducts
  /\ \A S \in SUBSET Products : IsFiniteSet(S) /\ Cardinality(S) \in Nat
<1>1. IsFiniteSet(Products) /\ Cardinality(Products) = MaxProducts
  BY BoundsAssumption, FS_Interval DEF Products
<1> QED BY <1>1, FS_Subset, FS_CardinalityType

\* Nobody takes a row or announces a create.
LEMMA RoomFrame ==
  ASSUME RoomKept, Rows' \subseteq Rows, Creates' \subseteq Creates
  PROVE  RoomKept'
<1>1. IsFiniteSet(Creates') /\ Cardinality(Creates') <= Cardinality(Creates)
  BY FS_Subset DEF RoomKept
<1>2. Rows \subseteq Products /\ Rows' \subseteq Products
  BY DEF Rows, Products
<1>3. IsFiniteSet(Rows) /\ Cardinality(Rows') <= Cardinality(Rows)
  BY <1>2, ProductsCounted, FS_Subset
<1>4. /\ Cardinality(Rows) \in Nat /\ Cardinality(Rows') \in Nat
      /\ Cardinality(Creates) \in Nat /\ Cardinality(Creates') \in Nat
  BY <1>1, <1>2, ProductsCounted, FS_CardinalityType DEF RoomKept
<1> QED BY <1>1, <1>3, <1>4, BoundsAssumption DEF RoomKept

\* A request t that ends, or goes on with the product it has.
LEMMA SlotMoves ==
  ASSUME Inv, NEW t \in Slots,
         \/ Finish(t)
         \/ \E pc : Goto(t, pc)
         \/ \E x : Start(t, x) /\ x.op # "create"
  PROVE  Creates' \subseteq Creates
<1>1. CASE Finish(t)
  <2>1. slot'[t].op = "none" /\ \A s \in Slots \ {t} : slot'[s] = slot[s]
    BY <1>1, AbsentTyped DEF Finish, Inv, TypeOK
  <2> QED BY <2>1 DEF Creates
<1>2. ASSUME NEW pc, Goto(t, pc)
      PROVE  Creates' \subseteq Creates
  <2>1. slot[t] \in Request /\ slot'[t] = [slot[t] EXCEPT !.pc = pc] /\ \A s \in Slots \ {t} : slot'[s] = slot[s]
    BY <1>2 DEF Goto, Inv, TypeOK
  <2>2. slot'[t].op = slot[t].op /\ slot'[t].pid = slot[t].pid
    BY <2>1 DEF Request
  <2> QED BY <2>1, <2>2 DEF Creates
<1>3. ASSUME NEW x, Start(t, x), x.op # "create"
      PROVE  Creates' \subseteq Creates
  <2>1. slot'[t] = x /\ \A s \in Slots \ {t} : slot'[s] = slot[s]
    BY <1>3 DEF Start, Inv, TypeOK
  <2> QED BY <1>3, <2>1 DEF Creates
<1> QED BY <1>1, <1>2, <1>3

LEMMA RollbackRoom ==
  ASSUME Inv, RoomKept, NEW t \in Slots, Rollback(t)
  PROVE  RoomKept'
<1>1. Creates' \subseteq Creates
  BY SlotMoves DEF Rollback
<1>2. Rows' \subseteq Rows
  BY DEF Rollback, Rows, NoProduct
<1> QED BY <1>1, <1>2, RoomFrame

\* An INSERT takes the row that was kept for it.
LEMMA InsertRoom ==
  ASSUME Inv, RoomKept, NEW t \in Slots, Insert(t), ~Rollback(t)
  PROVE  RoomKept'
<1>1. slot[t].pc = "insert" /\ slot[t] \in Request /\ t \in Creates
  BY DEF Insert, Inv, TypeOK, RequestsOK, RequestOK, Creates
<1> DEFINE sub == IF slot[t].dto.sub = Keep THEN Null ELSE slot[t].dto.sub
           pc == IF slot[t].dto.images # <<>> THEN "sync" ELSE "commit"
           row == [NoProduct EXCEPT !.state = "draft", !.owner = slot[t].user,
                                    !.category = slot[t].dto.category, !.sub = sub]
<1>2. PICK p \in Products :
        /\ product[p].state = "none" /\ product' = [product EXCEPT ![p] = row]
        /\ slot' = [slot EXCEPT ![t].pid = p, ![t].pc = pc]
  BY DEF Insert
<1> HIDE DEF sub, pc, row
<1>3. Creates' \subseteq Creates \ {t}
  <2>1. slot'[t].pid = p /\ p # 0
    BY <1>1, <1>2 DEF Inv, TypeOK, Request, Products
  <2> QED BY <1>2, <2>1 DEF Creates, Inv, TypeOK
<1>4. Rows' \subseteq Rows \cup {p} /\ p \notin Rows
  BY <1>2 DEF Rows, Inv, TypeOK
<1>5. /\ IsFiniteSet(Creates') /\ Cardinality(Creates') <= Cardinality(Creates) - 1
      /\ Cardinality(Creates) \in Nat /\ Cardinality(Creates') \in Nat
  <2>1. IsFiniteSet(Creates \ {t}) /\ Cardinality(Creates \ {t}) = Cardinality(Creates) - 1
    BY <1>1, FS_RemoveElement DEF RoomKept
  <2>2. IsFiniteSet(Creates') /\ Cardinality(Creates') <= Cardinality(Creates \ {t})
    BY <1>3, <2>1, FS_Subset
  <2> QED BY <2>1, <2>2, FS_CardinalityType DEF RoomKept
<1>6. Cardinality(Rows') <= Cardinality(Rows) + 1 /\ Cardinality(Rows) \in Nat /\ Cardinality(Rows') \in Nat
  <2>1. Rows \subseteq Products /\ Rows' \subseteq Products
    BY DEF Rows, Products
  <2>2. IsFiniteSet(Rows \cup {p}) /\ Cardinality(Rows \cup {p}) = Cardinality(Rows) + 1
    BY <1>4, <2>1, ProductsCounted, FS_AddElement
  <2>3. Cardinality(Rows') <= Cardinality(Rows \cup {p})
    BY <1>4, <2>2, FS_Subset
  <2> QED BY <2>1, <2>2, <2>3, ProductsCounted
<1> QED BY <1>5, <1>6, BoundsAssumption DEF RoomKept

\* A COMMIT or a statement of another request takes no row.
LEMMA StepRoom ==
  ASSUME Inv, RoomKept, NEW t \in Slots, Step(t) \/ Fail(t)
  PROVE  RoomKept'
<1>1. CASE Rollback(t)
  BY <1>1, RollbackRoom
<1>2. CASE Insert(t) /\ ~Rollback(t)
  BY <1>2, InsertRoom
<1>3. CASE Commit(t)
  <2>1. Creates' \subseteq Creates
    BY <1>3, SlotMoves DEF Commit
  <2>2. slot[t].pid \in Products /\ product[slot[t].pid].state # "none"
    BY <1>3 DEF Commit, Inv, HeldRows, Holds
  <2>3. Rows' \subseteq Rows
    BY <1>3, <2>2 DEF Commit, Rows, Inv, TypeOK
  <2> QED BY <2>1, <2>3, RoomFrame
<1>4. CASE /\ \/ withTransaction(t) \/ Ownership(t) \/ UpdateFields(t) \/ syncProductImages(t)
              \/ AttachImages(t) \/ MarkConnect(t) \/ MarkWrite(t) \/ SetAvatar(t)
           /\ ~Rollback(t)
  <2>1. product' = product /\ (Finish(t) \/ \E pc : Goto(t, pc))
    BY <1>4 DEF withTransaction, Ownership, UpdateFields, syncProductImages, AttachImages, MarkConnect,
       MarkWrite, SetAvatar
  <2>2. Creates' \subseteq Creates /\ Rows' = Rows
    BY <2>1, SlotMoves DEF Rows
  <2> QED BY <2>2, RoomFrame
<1> QED BY <1>1, <1>2, <1>3, <1>4 DEF Step, Fail

\* A create arrives only while there is a row left.
LEMMA ArriveRoom ==
  ASSUME Inv, RoomKept, NEW t \in Slots, NEW u \in Users, Arrive(t, u)
  PROVE  RoomKept'
<1>1. Rows' = Rows
  BY DEF Rows, Arrive, createProduct, updateProduct, deleteProduct, updateProductStatus, markUploaded,
     updateMe, ClearAvatar
<1>2. ASSUME NEW d \in CreateDtos, createProduct(t, u, d)
      PROVE  RoomKept'
  <2>1. Creates' \subseteq Creates \cup {t}
    BY <1>2 DEF createProduct, Start, Creates, Inv, TypeOK
  <2>2. IsFiniteSet(Creates \cup {t}) /\ Cardinality(Creates \cup {t}) <= Cardinality(Creates) + 1
    BY FS_AddElement, FS_CardinalityType DEF RoomKept
  <2>3. IsFiniteSet(Creates') /\ Cardinality(Creates') <= Cardinality(Creates \cup {t})
    BY <2>1, <2>2, FS_Subset
  <2>4. Cardinality(Rows) + Cardinality(Creates) < MaxProducts
    BY <1>2 DEF createProduct, Room, Rows, Creates
  <2>5. Cardinality(Rows) \in Nat
    BY ProductsCounted DEF Rows
  <2>6. Cardinality(Creates) \in Nat /\ Cardinality(Creates') \in Nat /\ Cardinality(Creates \cup {t}) \in Nat
    BY <2>2, <2>3, FS_CardinalityType DEF RoomKept
  <2> QED BY <1>1, <2>2, <2>3, <2>4, <2>5, <2>6, BoundsAssumption DEF RoomKept
<1>3. CASE ~\E d \in CreateDtos : createProduct(t, u, d)
  <2>1. ASSUME NEW x, Start(t, x), x.op # "create"
        PROVE  Creates' \subseteq Creates
    BY <2>1, SlotMoves
  <2>2. /\ \A p, d : [Idle EXCEPT !.pc = "begin", !.op = "update", !.user = u, !.pid = p, !.dto = d].op # "create"
        /\ \A p : [Idle EXCEPT !.pc = "begin", !.op = "delete", !.user = u, !.pid = p].op # "create"
        /\ \A p, st :
             [Idle EXCEPT !.pc = "begin", !.op = "status", !.user = u, !.pid = p, !.status = st].op # "create"
        /\ \A f : [Idle EXCEPT !.pc = "mark", !.user = u, !.fid = f].op # "create"
        /\ \A f : [Idle EXCEPT !.pc = "avatar", !.user = u, !.fid = f].op # "create"
        /\ [Idle EXCEPT !.pc = "avatar", !.user = u].op # "create"
    BY DEF Idle
  <2>3. ASSUME NEW p \in Products, NEW d \in UpdateDtos, updateProduct(t, u, p, d)
        PROVE  Creates' \subseteq Creates
    BY <2>1, <2>2, <2>3 DEF updateProduct
  <2>4. ASSUME NEW p \in Products, deleteProduct(t, u, p)
        PROVE  Creates' \subseteq Creates
    BY <2>1, <2>2, <2>4 DEF deleteProduct
  <2>5. ASSUME NEW p \in Products, NEW st \in Statuses, updateProductStatus(t, u, p, st)
        PROVE  Creates' \subseteq Creates
    BY <2>1, <2>2, <2>5 DEF updateProductStatus
  <2>6. ASSUME NEW f \in Files, markUploaded(t, u, f) \/ updateMe(t, u, f)
        PROVE  Creates' \subseteq Creates
    BY <2>1, <2>2, <2>6 DEF markUploaded, updateMe
  <2>7. ASSUME ClearAvatar(t, u)
        PROVE  Creates' \subseteq Creates
    BY <2>1, <2>2, <2>7 DEF ClearAvatar
  <2>8. Creates' \subseteq Creates
    BY <1>3, <2>3, <2>4, <2>5, <2>6, <2>7 DEF Arrive
  <2> QED BY <1>1, <2>8, RoomFrame
<1> QED BY <1>2, <1>3

LEMMA RoomStep == Inv /\ RoomKept /\ [Next]_vars => RoomKept'
<1> SUFFICES ASSUME Inv, RoomKept, [Next]_vars PROVE RoomKept'
  OBVIOUS
<1>1. CASE UNCHANGED vars \/ \E u \in Users, purpose \in {"product_image", "avatar"} : createUploadIntent(u, purpose)
  <2>1. Rows' = Rows /\ Creates' = Creates
    BY <1>1 DEF vars, createUploadIntent, Rows, Creates
  <2> QED BY <2>1, RoomFrame
<1> QED BY <1>1, StepRoom, ArriveRoom DEF Next

\* Who holds a lock waits for nobody but a holder of file locks, who is about
\* to commit; and where no transaction is open the pool is free.
LEMMA ReadyExists ==
  ASSUME Inv, RoomKept
  PROVE  SomeoneIsReady
<1> SUFFICES ASSUME NEW b \in Slots, slot[b].pc # "idle"
             PROVE  \E s \in Slots : Ready(s)
  BY DEF SomeoneIsReady
<1>1. \A s \in Slots : slot[s].pc \in PC
  BY DEF Inv, TypeOK, Request
<1>2. ASSUME NEW s \in Slots, slot[s].pc \in {"write", "sync", "commit"}
      PROVE  Ready(s)
  BY <1>2 DEF Ready, Runner, Connected, TxPC
<1>3. ASSUME NEW s \in Slots, slot[s].pc = "insert"
      PROVE  Ready(s)
  <2>1. s \in Creates
    BY <1>3 DEF Inv, RequestsOK, RequestOK, Creates
  <2>2. Cardinality(Creates) \in Nat /\ Cardinality(Creates) # 0
    BY <2>1, FS_EmptySet, FS_CardinalityType DEF RoomKept
  <2>3. Rows \in SUBSET Products
    BY DEF Rows
  <2>4. Rows # Products
    BY <2>2, <2>3, ProductsCounted, BoundsAssumption DEF RoomKept
  <2>5. \E p \in Products : product[p].state = "none"
    BY <2>3, <2>4 DEF Rows
  <2> QED BY <1>3, <2>5 DEF Ready, Runner, Connected, TxPC
<1>4. CASE \E s \in Slots : slot[s].pc \in {"write", "sync", "commit", "insert"}
  BY <1>2, <1>3, <1>4
<1>5. CASE \A s \in Slots : slot[s].pc \notin {"write", "sync", "commit", "insert"}
  <2>1. ASSUME NEW s \in Slots, slot[s].pc \in {"attach", "marking"}
        PROVE  Ready(s)
    BY <1>5, <2>1 DEF Ready, Runner, Connected, TxPC, LocksFile
  <2>2. CASE \A s \in Slots : slot[s].pc \notin {"attach", "marking"}
    <3>1. ASSUME NEW s \in Slots, slot[s].pc = "lock"
          PROVE  Ready(s)
      BY <1>5, <2>2, <3>1 DEF Ready, Runner, Connected, TxPC, ForUpdate, LocksProduct
    <3>2. CASE \A s \in Slots : slot[s].pc # "lock"
      <4>1. {s \in Slots : Connected(s)} = {}
        BY <1>5, <2>2, <3>2 DEF Connected, TxPC
      <4>2. PoolFree
        BY <4>1, FS_EmptySet, BoundsAssumption DEF PoolFree
      <4>3. slot[b].pc \in {"begin", "mark", "avatar"}
        BY <1>1, <1>5, <2>2, <3>2 DEF PC
      <4> QED BY <4>2, <4>3 DEF Ready, Runner
    <3> QED BY <3>1, <3>2
  <2> QED BY <2>1, <2>2
<1> QED BY <1>4, <1>5

\* ProductsService, FilesService and DatabaseService never come to a
\* standstill: whatever requests are in flight, one of them has a connection
\* and its row locks; for any number of requests and any pool, even of one
\* connection.
THEOREM SomeoneIsAlwaysReady == Spec => []SomeoneIsReady
<1>1. Init => RoomKept
  <2> SUFFICES ASSUME Init PROVE RoomKept
    OBVIOUS
  <2>1. Rows = {} /\ Creates = {}
    BY AbsentTyped DEF Init, Rows, Creates, NoProduct
  <2> QED BY <2>1, FS_EmptySet, BoundsAssumption DEF RoomKept
<1>2. Inv /\ RoomKept => SomeoneIsReady
  BY ReadyExists
<1> QED BY <1>1, <1>2, RoomStep, CatalogInvariant, PTL DEF Spec
=============================================================================
