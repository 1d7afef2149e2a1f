------------------------------ MODULE Catalog ------------------------------
(***************************************************************************)
(* Products, their images, uploaded files and avatars: ProductsService,    *)
(* FilesService and UsersService.updateMe, on top of the connection pool   *)
(* and the transactions of DatabaseService. Each request is a sequence of  *)
(* queries. A transaction keeps a pooled connection and its row locks from *)
(* one query to the next, and its writes are seen by others at COMMIT.     *)
(***************************************************************************)
EXTENDS Naturals, Sequences, FiniteSets, Functions

CONSTANTS
  Users,
  MaxFiles,       \* bound: rows ever inserted into files
  MaxProducts,    \* bound: rows of products
  PoolMax,        \* DATABASE_POOL_MAX
  Slots,          \* requests in flight at the same time
  NoUser,
  Statuses,       \* product_status
  CATEGORY_TO_SUBCATEGORIES,   \* the taxonomy: each category's subcategories
  CreateDtos,     \* bodies of POST /products
  UpdateDtos      \* bodies of PATCH /products/:id

Null == "null"    \* subcategory NULL
Keep == "keep"    \* a field the body leaves out
ProductCategories == DOMAIN CATEGORY_TO_SUBCATEGORIES
ProductSubcategories == UNION Range(CATEGORY_TO_SUBCATEGORIES)

Files == 1..MaxFiles
Products == 1..MaxProducts
Dto == [category: ProductCategories \cup {Keep},
        sub: ProductSubcategories \cup {Null, Keep},
        hasImages: BOOLEAN, images: Seq(Files)]

ASSUME BoundsAssumption == MaxFiles \in Nat /\ MaxProducts \in Nat /\ PoolMax \in Nat \ {0}
ASSUME UserAssumption == NoUser \notin Users
ASSUME StatusAssumption == "available" \in Statuses
ASSUME TaxonomyAssumption ==
  /\ {Null, Keep} \cap (ProductSubcategories \cup ProductCategories) = {}
  /\ \A c \in ProductCategories : "all" \in CATEGORY_TO_SUBCATEGORIES[c]
ASSUME DtoAssumption ==
  /\ CreateDtos \cup UpdateDtos \subseteq Dto
  /\ \A d \in CreateDtos : d.category # Keep
  /\ \A d \in CreateDtos \cup UpdateDtos : d.hasImages \/ d.images = <<>>

VARIABLES
  file,      \* files, by id
  product,   \* products with their product_images, by id
  avatar,    \* users.avatar_file_id, 0 for NULL
  slot       \* requests in flight

vars == <<file, product, avatar, slot>>

\* owner 0: as declared by the uploader; otherwise the product of owner_id.
File == [status: {"none", "pending", "uploaded"}, uploader: Users \cup {NoUser},
         purpose: {"product_image", "avatar"}, owner: 0..MaxProducts]
Product == [state: {"none", "draft", "live", "deleted"}, owner: Users \cup {NoUser},
            status: Statuses, category: ProductCategories \cup {Null},
            sub: ProductSubcategories \cup {Null}, images: Seq(Files)]
PC == {"idle", "begin", "lock", "insert", "write", "sync", "attach", "commit",
       "mark", "marking", "avatar"}
Op == {"none", "create", "update", "delete", "status"}
Request == [pc: PC, op: Op, user: Users \cup {NoUser}, pid: 0..MaxProducts,
            fid: 0..MaxFiles, dto: Dto, status: Statuses]

NoDto == [category |-> Keep, sub |-> Keep, hasImages |-> FALSE, images |-> <<>>]
Idle == [pc |-> "idle", op |-> "none", user |-> NoUser, pid |-> 0, fid |-> 0,
         dto |-> NoDto, status |-> "available"]
NoFile == [status |-> "none", uploader |-> NoUser, purpose |-> "avatar", owner |-> 0]
NoProduct == [state |-> "none", owner |-> NoUser, status |-> "available",
              category |-> Null, sub |-> Null, images |-> <<>>]

-----------------------------------------------------------------------------
(* DatabaseService: the pool and transactions *)

TxPC == {"lock", "insert", "write", "sync", "attach", "commit"}

\* A query that waits for a row lock keeps its connection too.
Connected(s) == slot[s].pc \in TxPC \cup {"marking"}
PoolFree == Cardinality({s \in Slots : Connected(s)}) < PoolMax

\* Mutant: the queries of a transaction go through this.databaseService
MutRunner(s) == PoolFree

\* The connection the queries of request s run on: the transaction's client.
Runner(s) == Connected(s) \/ PoolFree

\* Row locks: SELECT ... FOR UPDATE on products, UPDATE on files.
LocksProduct(s, p) == slot[s].pid = p /\ slot[s].pc \in {"write", "sync", "attach", "commit"}
LocksFile(s, f) == slot[s].pc = "commit" /\ f \in Range(slot[s].dto.images)

Goto(s, pc) == slot' = [slot EXCEPT ![s].pc = pc]
Finish(s) == slot' = [slot EXCEPT ![s] = Idle]
Start(s, request) == slot[s].pc = "idle" /\ slot' = [slot EXCEPT ![s] = request]

\* ROLLBACK and release: nobody saw the row a create had inserted, so its id
\* may as well be the next one's.
Rollback(s) ==
  /\ Finish(s)
  /\ product' = [p \in Products |->
       IF slot[s].op = "create" /\ slot[s].pid = p THEN NoProduct ELSE product[p]]
  /\ UNCHANGED <<file, avatar>>

\* pool.connect and BEGIN
withTransaction(s) ==
  /\ slot[s].pc = "begin"
  /\ PoolFree
  /\ Goto(s, IF slot[s].op = "create" THEN "insert" ELSE "lock")
  /\ UNCHANGED <<file, product, avatar>>

-----------------------------------------------------------------------------
(* Taxonomy *)

isValidCategory(c) == c \in ProductCategories
isValidSubcategory(c, s) == isValidCategory(c) /\ s \in CATEGORY_TO_SUBCATEGORIES[c]
isAllowedProductSubcategory(c, s) == isValidSubcategory(c, s) /\ s # "all"

assertCategoryPair(c, s) == isValidCategory(c) /\ (s # Null => isAllowedProductSubcategory(c, s))

-----------------------------------------------------------------------------
(* Products *)

\* Bound: a create starts only while there is a row left for it.
Room == Cardinality({p \in Products : product[p].state # "none"})
        + Cardinality({s \in Slots : slot[s].op = "create" /\ slot[s].pid = 0}) < MaxProducts

createProduct(s, u, dto) ==
  /\ Room
  /\ Start(s, [Idle EXCEPT !.pc = "begin", !.op = "create", !.user = u, !.dto = dto])
  /\ UNCHANGED <<file, product, avatar>>

updateProduct(s, u, p, dto) ==
  /\ Start(s, [Idle EXCEPT !.pc = "begin", !.op = "update", !.user = u, !.pid = p, !.dto = dto])
  /\ UNCHANGED <<file, product, avatar>>

deleteProduct(s, u, p) ==
  /\ Start(s, [Idle EXCEPT !.pc = "begin", !.op = "delete", !.user = u, !.pid = p])
  /\ UNCHANGED <<file, product, avatar>>

\* Mutant: the body's status is taken as it comes
MutUpdateProductStatus(s, u, p, st) ==
  /\ Start(s, [Idle EXCEPT !.pc = "begin", !.op = "status", !.user = u, !.pid = p, !.status = "gone"])
  /\ UNCHANGED <<file, product, avatar>>

updateProductStatus(s, u, p, st) ==
  /\ Start(s, [Idle EXCEPT !.pc = "begin", !.op = "status", !.user = u, !.pid = p, !.status = st])
  /\ UNCHANGED <<file, product, avatar>>

\* Mutant: SELECT without FOR UPDATE
MutForUpdate(s, p) == TRUE

\* FOR UPDATE waits for the transaction that holds the row.
ForUpdate(s, p) == \A r \in Slots \ {s} : ~LocksProduct(r, p)

\* SELECT owner_id ... deleted_at IS NULL FOR UPDATE, with its two refusals.
\* The UPDATE of delete and of status follows under the same lock.
Ownership(s) ==
  LET p == slot[s].pid IN
  /\ slot[s].pc = "lock" /\ Runner(s)
  /\ ForUpdate(s, p)
  /\ IF product[p].state = "live" /\ product[p].owner = slot[s].user
       THEN /\ Goto(s, IF slot[s].op = "update" THEN "write" ELSE "commit")
            /\ UNCHANGED <<file, product, avatar>>
       ELSE Rollback(s)

NextCategory(s) ==
  IF slot[s].dto.category = Keep THEN product[slot[s].pid].category ELSE slot[s].dto.category
NextSubcategory(s) ==
  IF slot[s].dto.sub = Keep THEN product[slot[s].pid].sub ELSE slot[s].dto.sub

\* SELECT category, subcategory; the pair test; UPDATE products.
UpdateFields(s) ==
  /\ slot[s].pc = "write" /\ Runner(s)
  /\ IF assertCategoryPair(NextCategory(s), NextSubcategory(s))
       THEN /\ Goto(s, IF slot[s].dto.hasImages THEN "sync" ELSE "commit")
            /\ UNCHANGED <<file, product, avatar>>
       ELSE Rollback(s)

\* createProduct: the pair test, then the INSERT, seen by nobody else yet.
Insert(s) ==
  LET dto == slot[s].dto
      sub == IF dto.sub = Keep THEN Null ELSE dto.sub IN
  /\ slot[s].pc = "insert" /\ Runner(s)
  /\ IF assertCategoryPair(dto.category, sub)
       THEN \E p \in Products :
              /\ product[p].state = "none"
              /\ \A q \in Products : product[q].state = "none" => p <= q
              /\ product' = [product EXCEPT ![p] =
                   [NoProduct EXCEPT !.state = "draft", !.owner = slot[s].user,
                                     !.category = dto.category, !.sub = sub]]
              /\ slot' = [slot EXCEPT ![s].pid = p,
                   ![s].pc = IF dto.images # <<>> THEN "sync" ELSE "commit"]
              /\ UNCHANGED <<file, avatar>>
       ELSE Rollback(s)

\* Mutant: a file whose upload was never confirmed is taken
MutMayAttach(f, u) ==
  file[f].status # "none" /\ file[f].purpose = "product_image" /\ file[f].uploader = u

\* What syncProductImages requires of each file.
MayAttach(f, u) ==
  file[f].status = "uploaded" /\ file[f].purpose = "product_image" /\ file[f].uploader = u

\* syncProductImages: DELETE product_images, SELECT files, the tests.
syncProductImages(s) ==
  /\ slot[s].pc = "sync" /\ Runner(s)
  /\ IF \A f \in Range(slot[s].dto.images) : MayAttach(f, slot[s].user)
       THEN /\ Goto(s, IF slot[s].dto.images = <<>> THEN "commit" ELSE "attach")
            /\ UNCHANGED <<file, product, avatar>>
       ELSE Rollback(s)

\* INSERT product_images, UPDATE files: waits for the files' row locks.
AttachImages(s) ==
  /\ slot[s].pc = "attach" /\ Runner(s)
  /\ \A f \in Range(slot[s].dto.images) : \A r \in Slots \ {s} : ~LocksFile(r, f)
  /\ Goto(s, "commit")
  /\ UNCHANGED <<file, product, avatar>>

\* What the transaction wrote: the columns of its UPDATE, its images.
Written(s) ==
  LET old == product[slot[s].pid]
      imgs == IF slot[s].dto.hasImages THEN slot[s].dto.images ELSE old.images IN
  CASE slot[s].op = "create" -> [old EXCEPT !.state = "live", !.images = imgs]
    [] slot[s].op = "update" -> [old EXCEPT !.category = NextCategory(s),
                                            !.sub = NextSubcategory(s), !.images = imgs]
    [] slot[s].op = "delete" -> [old EXCEPT !.state = "deleted"]
    [] slot[s].op = "status" -> [old EXCEPT !.status = slot[s].status]

\* fetchProductWithImages on the same client, COMMIT, release.
Commit(s) ==
  /\ slot[s].pc = "commit" /\ Runner(s)
  /\ product' = [product EXCEPT ![slot[s].pid] = Written(s)]
  /\ file' = [f \in Files |-> IF LocksFile(s, f) THEN [file[f] EXCEPT !.owner = slot[s].pid]
                                                 ELSE file[f]]
  /\ Finish(s)
  /\ UNCHANGED avatar

-----------------------------------------------------------------------------
(* Files and avatars *)

\* INSERT INTO files; what follows only signs the upload.
createUploadIntent(u, purpose) ==
  /\ PoolFree
  /\ \E f \in Files :
       /\ file[f].status = "none"
       /\ \A g \in Files : file[g].status = "none" => f <= g
       /\ file' = [file EXCEPT ![f] = [status |-> "pending", uploader |-> u,
                                       purpose |-> purpose, owner |-> 0]]
  /\ UNCHANGED <<product, avatar, slot>>

\* SELECT; only the uploader goes on, whatever the status is.
markUploaded(s, u, f) ==
  /\ PoolFree
  /\ file[f].status # "none" /\ file[f].uploader = u
  /\ Start(s, [Idle EXCEPT !.pc = "mark", !.user = u, !.fid = f])
  /\ UNCHANGED <<file, product, avatar>>

\* The UPDATE takes a connection and may have to wait for the row.
MarkConnect(s) ==
  /\ slot[s].pc = "mark" /\ PoolFree
  /\ Goto(s, "marking")
  /\ UNCHANGED <<file, product, avatar>>

MarkWrite(s) ==
  /\ slot[s].pc = "marking"
  /\ \A r \in Slots \ {s} : ~LocksFile(r, slot[s].fid)
  /\ file' = [file EXCEPT ![slot[s].fid].status = "uploaded"]
  /\ Finish(s)
  /\ UNCHANGED <<product, avatar>>

\* updateMe: the SELECT and the tests on the file.
updateMe(s, u, f) ==
  /\ PoolFree
  /\ file[f].status = "uploaded" /\ file[f].purpose = "avatar" /\ file[f].uploader = u
  /\ Start(s, [Idle EXCEPT !.pc = "avatar", !.user = u, !.fid = f])
  /\ UNCHANGED <<file, product, avatar>>

\* avatarFileId null: there is no file to test.
ClearAvatar(s, u) ==
  /\ Start(s, [Idle EXCEPT !.pc = "avatar", !.user = u])
  /\ UNCHANGED <<file, product, avatar>>

SetAvatar(s) ==
  /\ slot[s].pc = "avatar" /\ PoolFree
  /\ avatar' = [avatar EXCEPT ![slot[s].user] = slot[s].fid]
  /\ Finish(s)
  /\ UNCHANGED <<file, product>>

\* A query that throws: ROLLBACK inside a transaction, else the request ends.
Fail(s) == slot[s].pc # "idle" /\ Rollback(s)

-----------------------------------------------------------------------------
Init ==
  /\ file = [f \in Files |-> NoFile]
  /\ product = [p \in Products |-> NoProduct]
  /\ avatar = [u \in Users |-> 0]
  /\ slot = [s \in Slots |-> Idle]

\* The next query of a request in flight.
Step(s) ==
  \/ withTransaction(s) \/ Ownership(s) \/ UpdateFields(s) \/ Insert(s)
  \/ syncProductImages(s) \/ AttachImages(s) \/ Commit(s)
  \/ MarkConnect(s) \/ MarkWrite(s) \/ SetAvatar(s)

Arrive(s, u) ==
  \/ \E d \in CreateDtos : createProduct(s, u, d)
  \/ \E p \in Products, d \in UpdateDtos : updateProduct(s, u, p, d)
  \/ \E p \in Products : deleteProduct(s, u, p)
  \/ \E p \in Products, st \in Statuses : updateProductStatus(s, u, p, st)
  \/ \E f \in Files : markUploaded(s, u, f) \/ updateMe(s, u, f)
  \/ ClearAvatar(s, u)

Next ==
  \/ \E s \in Slots : Step(s) \/ Fail(s) \/ \E u \in Users : Arrive(s, u)
  \/ \E u \in Users, purpose \in {"product_image", "avatar"} : createUploadIntent(u, purpose)

Spec == Init /\ [][Next]_vars

-----------------------------------------------------------------------------
\* Every variable keeps its type, across the queries of requests in flight.
TypeOK ==
  /\ file \in [Files -> File]
  /\ product \in [Products -> Product]
  /\ avatar \in [Users -> 0..MaxFiles]
  /\ slot \in [Slots -> Request]

\* Every image of a product, and every avatar, is a file its owner uploaded for
\* that purpose and confirmed, and an image's file belongs to one of that
\* owner's products: the tests of syncProductImages and updateMe run some
\* queries before the write that relies on them.
MediaIsUploaded ==
  /\ \A p \in Products : product[p].state # "none" => \A f \in Range(product[p].images) :
       /\ file[f].status = "uploaded" /\ file[f].purpose = "product_image"
       /\ file[f].uploader = product[p].owner
       /\ file[f].owner # 0 /\ product[file[f].owner].owner = product[p].owner
  /\ \A u \in Users : avatar[u] # 0 =>
       /\ file[avatar[u]].status = "uploaded" /\ file[avatar[u]].purpose = "avatar"
       /\ file[avatar[u]].uploader = u

\* A product's subcategory is one its category allows, also after two PATCHes
\* of which one names only the category and the other only the subcategory:
\* updateProduct tests the pair against the stored half.
PairsAreValid ==
  \A p \in Products : product[p].state # "none" =>
    assertCategoryPair(product[p].category, product[p].sub)

\* A deleted product is never written again, not even by an update that had
\* passed its owner test: deleted_at IS NULL is read under the row lock.
DeletedIsFrozen ==
  [][\A p \in Products : product[p].state = "deleted" => product'[p] = product[p]]_vars

\* The next query of s has a connection and every row it locks.
Ready(s) ==
  /\ slot[s].pc # "idle" /\ Runner(s)
  /\ slot[s].pc = "lock" => ForUpdate(s, slot[s].pid)
  /\ slot[s].pc = "attach" => \A f \in Range(slot[s].dto.images), r \in Slots \ {s} : ~LocksFile(r, f)
  /\ slot[s].pc = "marking" => \A r \in Slots \ {s} : ~LocksFile(r, slot[s].fid)
  /\ slot[s].pc = "insert" => \E p \in Products : product[p].state = "none"

\* Requests in flight are never all kept waiting by each other.
SomeoneIsReady == (\E s \in Slots : slot[s].pc # "idle") => \E s \in Slots : Ready(s)

\* Requests never all wait for each other: while one is in flight, some request
\* has a connection and the row locks for its next query. It holds because a
\* transaction runs all its queries on its own client and takes product locks
\* before file locks.
NoGridlock == SomeoneIsReady /\ \A s \in Slots : Ready(s) => ENABLED Step(s)
=============================================================================
