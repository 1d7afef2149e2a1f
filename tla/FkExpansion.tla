---------------------------- MODULE FkExpansion ----------------------------
(***************************************************************************)
(* FkExpansionService: the global interceptor replaces every foreign key   *)
(* of a response by the row it names. Three phases: collectIds walks the   *)
(* payload, resolveEntities runs one query per entity type (in parallel,   *)
(* so at different moments), transformNode rebuilds the payload.           *)
(*                                                                         *)
(* A payload is the set of its containers, wherever they are nested: the   *)
(* walk treats each container by itself. A container is a sequence of      *)
(* entries [key, value] in the order of Object.entries. A key is the tuple *)
(* of its parts, <<"owner", "_id">>, so that its suffix can be cut off.    *)
(***************************************************************************)
EXTENDS Naturals, Sequences

Null == 0      \* SQL NULL: toPositiveInt refuses it; ids are positive

EntityTypes == {"user", "category", "product", "message", "conversation", "file"}

Id(stem) == <<stem, "_id">>

UserKeys ==
  {Id(stem) : stem \in {"admin", "blocked", "blocker", "owner", "peer_user", "rated_user",
     "rater", "reported_user", "reporter", "sender", "target_user", "uploader_user",
     "user_a", "user_b", "user"}} \cup {<<"reviewed_by">>}
FileKeys == {Id(stem) : stem \in {"avatar_file", "file", "product_image_file"}}
OtherKeys == [parent |-> "category", product |-> "product", last_message |-> "message",
              conversation |-> "conversation"]

RuleKeys == UserKeys \cup FileKeys \cup {Id(stem) : stem \in DOMAIN OtherKeys}

\* Mutant: the sender of a message is looked up among the conversations.
MutFK_RULES ==
  [key \in RuleKeys |->
     IF key \in UserKeys \ {Id("sender")} THEN "user"
     ELSE IF key \in FileKeys THEN "file"
     ELSE IF key = Id("sender") THEN "conversation" ELSE OtherKeys[key[1]]]

FK_RULES ==
  [key \in RuleKeys |->
     IF key \in UserKeys THEN "user"
     ELSE IF key \in FileKeys THEN "file" ELSE OtherKeys[key[1]]]

\* owner_id beside owner_type belongs to a file and may name a product.
shouldExpand(key, node) ==
  key = Id("owner") => \A i \in DOMAIN node : node[i].key # <<"owner_type">>

Expands(key, node) == key \in RuleKeys /\ shouldExpand(key, node)

toPositiveInt(value) == IF value \in Nat \ {0} THEN value ELSE Null

deriveOutputKey(key) == IF Len(key) = 2 /\ key[2] = "_id" THEN <<key[1]>> ELSE key

outputKey(key) == IF key = Id("product_image_file") THEN <<"product_image">>
                                                     ELSE deriveOutputKey(key)

collectIds(payload, entity) ==
  UNION {{node[i].value : i \in {k \in DOMAIN node :
            /\ Expands(node[k].key, node) /\ FK_RULES[node[k].key] = entity
            /\ toPositiveInt(node[k].value) # Null}} : node \in payload}

-----------------------------------------------------------------------------
(* The queries. A fetched row keeps its id and the row nested in it: the    *)
(* avatar file of a user, the owner of a product.                           *)

Row(entity, id, of) == [entity |-> entity, id |-> id, of |-> of]
NoRow == Row("null", Null, Null)
Scalar(value) == Row("scalar", value, Null)

\* Mutant: deleted accounts are found too.
MutfetchUsers(db, ids) == {Row("user", u, db.user[u].avatar) : u \in ids \cap DOMAIN db.user}

fetchUsers(db, ids) ==
  {Row("user", u, db.user[u].avatar) :
     u \in {v \in ids \cap DOMAIN db.user : ~db.user[v].deleted}}

fetchCategories(db, ids) == {Row("category", c, db.category[c]) : c \in ids \cap DOMAIN db.category}

\* The owner is joined only while the account is not deleted.
fetchProducts(db, ids) ==
  {LET o == db.product[p].owner IN
   Row("product", p, IF db.user[o].deleted THEN Null ELSE o) :
     p \in {q \in ids \cap DOMAIN db.product : ~db.product[q].deleted}}

fetchMessages(db, ids) == {Row("message", m, Null) : m \in ids \cap db.message}
fetchConversations(db, ids) == {Row("conversation", c, Null) : c \in ids \cap db.conversation}
fetchFiles(db, ids) == {Row("file", f, Null) : f \in ids \cap db.file}

\* The query of one entity type.
resolveEntities(db, entity, ids) ==
  CASE entity = "user"         -> fetchUsers(db, ids)
    [] entity = "category"     -> fetchCategories(db, ids)
    [] entity = "product"      -> fetchProducts(db, ids)
    [] entity = "message"      -> fetchMessages(db, ids)
    [] entity = "conversation" -> fetchConversations(db, ids)
    [] entity = "file"         -> fetchFiles(db, ids)

-----------------------------------------------------------------------------
OutKey(node, i) == IF Expands(node[i].key, node) THEN outputKey(node[i].key) ELSE node[i].key

\* The entry under which an output key is first met: a later one is skipped.
FirstWith(node, key) ==
  CHOOSE i \in DOMAIN node :
    OutKey(node, i) = key /\ \A j \in 1..(i - 1) : OutKey(node, j) # key

Resolved(node, i, maps) ==
  LET found == {r \in maps[FK_RULES[node[i].key]] : r.id = toPositiveInt(node[i].value)}
  IN  IF found = {} THEN NoRow ELSE CHOOSE r \in found : TRUE

transformNode(node, maps) ==
  [key \in {OutKey(node, i) : i \in DOMAIN node} |->
     LET i == FirstWith(node, key)
     IN  IF Expands(node[i].key, node) THEN Resolved(node, i, maps) ELSE Scalar(node[i].value)]
=============================================================================
