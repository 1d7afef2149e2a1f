-------------------------------- MODULE Chat --------------------------------
(***************************************************************************)
(* Conversations, messages, blocks, sockets and rooms: ChatController,     *)
(* ChatGateway, ChatService, ChatSocketRegistryService and BlocksService   *)
(* in one server process. Every awaited query is a step of a request; what *)
(* was checked before it may have changed after it. All accounts exist.    *)
(***************************************************************************)
EXTENDS Naturals, FiniteSets

CONSTANTS
  Users, NoUser,
  Pairs,       \* conversations in play: UNIQUE (user_a_id, user_b_id), so a pair of users each
  Sockets, NoSocket,   \* socket ids are never reused
  Products, NoProduct,
  Owner,       \* products.owner_id
  Slots,       \* requests in flight at the same time
  MaxMsgs,     \* bound: messages ever inserted
  Faults       \* whether a query may throw

ASSUME PairsAssumption == \A c \in Pairs : c \subseteq Users /\ Cardinality(c) = 2
ASSUME NoneAssumption ==
  NoUser \notin Users /\ NoSocket \notin Sockets /\ NoProduct \notin Products
ASSUME OwnerAssumption == Owner \in [Products -> Users]
ASSUME MsgsAssumption == MaxMsgs \in Nat /\ Faults \in BOOLEAN

VARIABLES
  conv,       \* conversations, by pair
  msg,        \* messages, by id; ids and sent_at grow together
  blocks,     \* user_blocks: <<blocker, blocked>>
  available,  \* the products whose status is 'available'
  socket,     \* connections: the user of client.data and whether it is up
  registry,   \* ChatSocketRegistryService.socketsByUserId
  rooms,      \* socket.io rooms: <<socket, conversation>>
  sent,       \* history: messages emitted as 'message.received'
  slot        \* requests in flight

vars == <<conv, msg, blocks, available, socket, registry, rooms, sent, slot>>
tables == <<conv, msg, blocks, available>>
sockets == <<socket, registry, rooms, sent>>

Ids == 1..MaxMsgs
PC == {"idle", "create", "product", "select", "setProduct", "insertConv", "hydrate", "emitJoined",
       "join", "joinHydrate", "joinRoom", "send", "insertMsg", "setLast", "emitMsg",
       "read", "readWrite", "emitRead"}

Conversation == [exists: BOOLEAN, product: Products \cup {NoProduct}, last: 0..MaxMsgs]
Message == [pair: Pairs \cup {{}}, sender: Users \cup {NoUser}, read: BOOLEAN]
Connection == [user: Users \cup {NoUser}, up: BOOLEAN]
\* clear is history: the pair was free of blocks at some moment since arrival.
Request == [pc: PC, user: Users \cup {NoUser}, sock: Sockets \cup {NoSocket}, pair: Pairs \cup {{}},
            msg: 0..MaxMsgs, product: Products \cup {NoProduct}, clear: BOOLEAN]

Idle == [pc |-> "idle", user |-> NoUser, sock |-> NoSocket, pair |-> {}, msg |-> 0,
         product |-> NoProduct, clear |-> FALSE]

-----------------------------------------------------------------------------
BlockAmong(bs, c) == \E u, v \in c : <<u, v>> \in bs

\* In either direction.
hasBlockBetweenUsers(c) == BlockAmong(blocks, c)

\* Mutant: any user may use the conversation.
MutAssert(c, u) == conv[c].exists /\ ~hasBlockBetweenUsers(c)

\* Mutant: blocks are not consulted.
MutUnblocked(c, u) == conv[c].exists /\ u \in c

\* Two SELECTs; a conversation and its participants never change once there.
assertConversationParticipant(c, u) ==
  conv[c].exists /\ u \in c /\ ~hasBlockBetweenUsers(c)

\* node-postgres returns BIGINT columns as strings, request values are numbers.
PgBigint(u) == <<"string", u>>
JsNumber(u) == <<"number", u>>

isParticipantOwner(p, c) == \E u \in c : PgBigint(Owner[p]) = JsNumber(u)

NextMsg == Cardinality({m \in Ids : msg[m].sender # NoUser}) + 1

Finish(s) == slot' = [slot EXCEPT ![s] = Idle]
Goto(s, pc) == slot' = [slot EXCEPT ![s].pc = pc]
Check(s, ok, pc) == IF ok THEN Goto(s, pc) ELSE Finish(s)

Arrive(s, pc, u, k, c, m, p) ==
  /\ slot[s].pc = "idle"
  /\ slot' = [slot EXCEPT ![s] = [pc |-> pc, user |-> u, sock |-> k, pair |-> c, msg |-> m,
                                  product |-> p, clear |-> ~hasBlockBetweenUsers(c)]]
  /\ UNCHANGED <<tables, sockets>>

\* client.join; a socket that is down does not join any more.
Join(ks, c) == rooms' = rooms \cup ({k \in ks : socket[k].up} \X {c})

-----------------------------------------------------------------------------
(* POST /chat/conversations *)

createConversation(s, u, c, p) == u \in c /\ Arrive(s, "create", u, NoSocket, c, 0, p)

CreateCheck(s) ==
  /\ slot[s].pc = "create"
  /\ Check(s, ~hasBlockBetweenUsers(slot[s].pair),
           IF slot[s].product = NoProduct THEN "select" ELSE "product")
  /\ UNCHANGED <<tables, sockets>>

CreateProduct(s) ==
  /\ slot[s].pc = "product"
  /\ Check(s, slot[s].product \in available \/ isParticipantOwner(slot[s].product, slot[s].pair), "select")
  /\ UNCHANGED <<tables, sockets>>

CreateSelect(s) ==
  LET c == conv[slot[s].pair] IN
  /\ slot[s].pc = "select"
  /\ Goto(s, IF ~c.exists THEN "insertConv"
             ELSE IF slot[s].product # NoProduct /\ c.product = NoProduct THEN "setProduct"
             ELSE "hydrate")
  /\ UNCHANGED <<tables, sockets>>

\* UPDATE conversations SET product_id, which does not repeat the test.
CreateSetProduct(s) ==
  /\ slot[s].pc = "setProduct"
  /\ conv' = [conv EXCEPT ![slot[s].pair].product = slot[s].product]
  /\ Goto(s, "hydrate")
  /\ UNCHANGED <<msg, blocks, available, sockets>>

\* INSERT: a unique violation is rethrown.
CreateInsert(s) ==
  LET c == slot[s].pair IN
  /\ slot[s].pc = "insertConv"
  /\ conv' = IF conv[c].exists THEN conv
             ELSE [conv EXCEPT ![c] = [exists |-> TRUE, product |-> slot[s].product, last |-> 0]]
  /\ Check(s, ~conv[c].exists, "hydrate")
  /\ UNCHANGED <<msg, blocks, available, sockets>>

\* getConversationById, for the response or for the joined payload.
Hydrate(s) ==
  /\ \/ slot[s].pc = "hydrate"
        /\ Check(s, assertConversationParticipant(slot[s].pair, slot[s].user), "emitJoined")
     \/ slot[s].pc = "joinHydrate"
        /\ Check(s, assertConversationParticipant(slot[s].pair, slot[s].user), "joinRoom")
  /\ UNCHANGED <<tables, sockets>>

\* Every registered socket of the two participants enters the room.
emitConversationJoinedToParticipants(s) ==
  LET c == slot[s].pair IN
  /\ slot[s].pc = "emitJoined"
  /\ Join(UNION {registry[u] : u \in c}, c)
  /\ Finish(s)
  /\ UNCHANGED <<tables, socket, registry, sent>>

-----------------------------------------------------------------------------
(* WebSocket events *)

\* Mutant: getUser lets a socket without a user through.
MutJoinConversation(s, k, c) == Arrive(s, "join", socket[k].user, k, c, 0, NoProduct)

joinConversation(s, k, c) == socket[k].up /\ Arrive(s, "join", socket[k].user, k, c, 0, NoProduct)

JoinCheck(s) ==
  /\ slot[s].pc = "join"
  /\ Check(s, assertConversationParticipant(slot[s].pair, slot[s].user), "joinHydrate")
  /\ UNCHANGED <<tables, sockets>>

\* Bound: a send starts only while an id is left for it.
Room == MaxMsgs + 1 - NextMsg > Cardinality({s \in Slots : slot[s].pc \in {"send", "insertMsg"}})

sendMessage(s, k, c) ==
  socket[k].up /\ Room /\ Arrive(s, "send", socket[k].user, k, c, 0, NoProduct)

SendCheck(s) ==
  /\ slot[s].pc = "send"
  /\ Check(s, assertConversationParticipant(slot[s].pair, slot[s].user), "insertMsg")
  /\ UNCHANGED <<tables, sockets>>

\* Room has seen to it that an id is left.
SendInsert(s) ==
  /\ slot[s].pc = "insertMsg" /\ NextMsg \in Ids
  /\ msg' = [msg EXCEPT ![NextMsg] = [pair |-> slot[s].pair, sender |-> slot[s].user, read |-> FALSE]]
  /\ slot' = [slot EXCEPT ![s].pc = "setLast", ![s].msg = NextMsg]
  /\ UNCHANGED <<conv, blocks, available, sockets>>

\* Mutant: the pointer is left alone.
MutSetLast(s) ==
  /\ slot[s].pc = "setLast"
  /\ Goto(s, "emitMsg")
  /\ UNCHANGED <<tables, sockets>>

\* A second statement, outside any transaction: last writer wins.
SendSetLast(s) ==
  /\ slot[s].pc = "setLast"
  /\ conv' = [conv EXCEPT ![slot[s].pair].last = slot[s].msg]
  /\ Goto(s, "emitMsg")
  /\ UNCHANGED <<msg, blocks, available, sockets>>

\* markRead: the message is read first, its conversation decides.
markRead(s, k, m) ==
  /\ socket[k].up /\ msg[m].sender # NoUser
  /\ Arrive(s, "read", socket[k].user, k, msg[m].pair, m, NoProduct)

MayRead(u, m) == msg[m].sender # u

ReadCheck(s) ==
  /\ slot[s].pc = "read"
  /\ Check(s, /\ assertConversationParticipant(slot[s].pair, slot[s].user)
              /\ MayRead(slot[s].user, slot[s].msg), "readWrite")
  /\ UNCHANGED <<tables, sockets>>

\* read_at = COALESCE(read_at, NOW())
ReadWrite(s) ==
  /\ slot[s].pc = "readWrite"
  /\ msg' = [msg EXCEPT ![slot[s].msg].read = TRUE]
  /\ Goto(s, "emitRead")
  /\ UNCHANGED <<conv, blocks, available, sockets>>

\* Mutant: the handler gives up when its socket has disconnected meanwhile.
MutJoinAndEmit(s) ==
  /\ slot[s].pc \in {"joinRoom", "emitMsg", "emitRead"}
  /\ Join({slot[s].sock}, slot[s].pair)
  /\ sent' = IF slot[s].pc = "emitMsg" /\ socket[slot[s].sock].up THEN sent \cup {slot[s].msg} ELSE sent
  /\ Finish(s)
  /\ UNCHANGED <<tables, socket, registry>>

\* The end of the three handlers: client.join(room), then the emit.
JoinAndEmit(s) ==
  /\ slot[s].pc \in {"joinRoom", "emitMsg", "emitRead"}
  /\ Join({slot[s].sock}, slot[s].pair)
  /\ sent' = IF slot[s].pc = "emitMsg" THEN sent \cup {slot[s].msg} ELSE sent
  /\ Finish(s)
  /\ UNCHANGED <<tables, socket, registry>>

-----------------------------------------------------------------------------
(* Connections, blocks, products *)

Unused(k) == socket[k].user = NoUser

\* handleConnection: the JWT is verified without I/O, then registered.
handleConnection(k, u) ==
  /\ Unused(k)
  /\ socket' = [socket EXCEPT ![k] = [user |-> u, up |-> TRUE]]
  /\ registry' = [registry EXCEPT ![u] = @ \cup {k}]
  /\ UNCHANGED <<tables, rooms, sent, slot>>

\* Mutant: the registry keeps the socket.
MutUnregister(u, k) == registry

unregisterUserSocket(u, k) == [registry EXCEPT ![u] = @ \ {k}]

\* handleDisconnect; socket.io leaves the rooms. Requests go on.
handleDisconnect(k) ==
  /\ socket[k].up
  /\ socket' = [socket EXCEPT ![k].up = FALSE]
  /\ registry' = unregisterUserSocket(socket[k].user, k)
  /\ rooms' = {r \in rooms : r[1] # k}
  /\ UNCHANGED <<tables, sent, slot>>

blockUser(u, v) ==
  /\ u # v
  /\ blocks' = blocks \cup {<<u, v>>}
  /\ UNCHANGED <<conv, msg, available, sockets, slot>>

unblockUser(u, v) ==
  /\ blocks' = blocks \ {<<u, v>>}
  /\ slot' = [s \in Slots |-> IF slot[s].pc # "idle" /\ ~BlockAmong(blocks', slot[s].pair)
                                THEN [slot[s] EXCEPT !.clear = TRUE] ELSE slot[s]]
  /\ UNCHANGED <<conv, msg, available, sockets>>

\* updateProductStatus of ProductsService.
updateProductStatus(p) ==
  /\ available' = (available \ {p}) \cup ({p} \ available)
  /\ UNCHANGED <<conv, msg, blocks, sockets, slot>>

\* A query throws between two steps.
Abort(s) ==
  /\ Faults /\ slot[s].pc # "idle"
  /\ Finish(s)
  /\ UNCHANGED <<tables, sockets>>

-----------------------------------------------------------------------------
Init ==
  /\ conv = [c \in Pairs |-> [exists |-> FALSE, product |-> NoProduct, last |-> 0]]
  /\ msg = [m \in Ids |-> [pair |-> {}, sender |-> NoUser, read |-> FALSE]]
  /\ blocks = {}
  /\ available = Products
  /\ socket = [k \in Sockets |-> [user |-> NoUser, up |-> FALSE]]
  /\ registry = [u \in Users |-> {}]
  /\ rooms = {} /\ sent = {}
  /\ slot = [s \in Slots |-> Idle]

Progress(s) ==
  \/ CreateCheck(s) \/ CreateProduct(s) \/ CreateSelect(s) \/ CreateSetProduct(s) \/ CreateInsert(s)
  \/ Hydrate(s) \/ emitConversationJoinedToParticipants(s)
  \/ JoinCheck(s) \/ SendCheck(s) \/ SendInsert(s) \/ SendSetLast(s)
  \/ ReadCheck(s) \/ ReadWrite(s) \/ JoinAndEmit(s)

NewRequest(s) ==
  \/ \E c \in Pairs : \E u \in c, p \in Products \cup {NoProduct} : createConversation(s, u, c, p)
  \/ \E k \in Sockets, c \in Pairs : joinConversation(s, k, c) \/ sendMessage(s, k, c)
  \/ \E k \in Sockets, m \in Ids : markRead(s, k, m)

\* Bound: only users with a conversation in play block each other.
Next ==
  \/ \E s \in Slots : Progress(s) \/ NewRequest(s) \/ Abort(s)
  \/ \E k \in Sockets : handleDisconnect(k) \/ \E u \in Users : handleConnection(k, u)
  \/ \E c \in Pairs : \E u, v \in c : blockUser(u, v) \/ unblockUser(u, v)
  \/ \E p \in Products : updateProductStatus(p)

Spec == Init /\ [][Next]_vars

\* The event loop brings every request to its end when no query throws.
Fairness == \A s \in Slots : WF_vars(Progress(s))

FairSpec == Spec /\ Fairness
-----------------------------------------------------------------------------
(* Properties *)

\* Every table and socket has its shape, and a request under way has a user
\* and a conversation: getUser never hands over an unauthenticated socket.
TypeOK ==
  /\ conv \in [Pairs -> Conversation]
  /\ msg \in [Ids -> Message]
  /\ blocks \subseteq Users \X Users
  /\ available \subseteq Products
  /\ socket \in [Sockets -> Connection]
  /\ registry \in [Users -> SUBSET Sockets]
  /\ rooms \subseteq Sockets \X Pairs
  /\ sent \subseteq Ids
  /\ slot \in [Slots -> Request]
  /\ \A s \in Slots : slot[s].pc # "idle" => slot[s].user \in Users /\ slot[s].pair \in Pairs

\* What is emitted to a room reaches participants of its conversation only,
\* whichever of the four joins brought a socket there, and no dead socket.
RoomsOnlyParticipants ==
  \A r \in rooms : socket[r[1]].up /\ socket[r[1]].user \in r[2] /\ conv[r[2]].exists

\* The registry is exactly the sockets that are up, under their user: what
\* emitConversationJoinedToParticipants iterates over misses no device.
RegistryExact ==
  \A u \in Users : registry[u] = {k \in Sockets : socket[k].up /\ socket[k].user = u}

\* A request passes its block checks only if the pair was free of blocks at
\* some moment since the request arrived: a block stops all later requests,
\* and lets at most those in flight write, join or emit.
PastChecks == PC \ {"idle", "create", "join", "send", "read"}
BlockCutsOff == \A s \in Slots : slot[s].pc \in PastChecks => slot[s].clear

\* Whoever writes or joins on behalf of a conversation is one of its two users,
\* and read receipts come from the recipient, not from the sender.
ActorsAreParticipants ==
  \A s \in Slots :
    /\ slot[s].pc \in PastChecks => slot[s].user \in slot[s].pair
    /\ slot[s].pc \in {"readWrite", "emitRead"} => msg[slot[s].msg].sender # slot[s].user

\* last_message_id names a message of its own conversation; with no failed
\* query, it is set as soon as a conversation with messages is at rest.
LastMessageOfConversation ==
  \A c \in Pairs :
    /\ conv[c].last # 0 => msg[conv[c].last].pair = c
    /\ conv[c].last = 0 /\ ~Faults =>
         \A m \in Ids : msg[m].pair = c =>
           \E s \in Slots : slot[s].pc = "setLast" /\ slot[s].msg = m

\* Every stored message is emitted to its room in the end, whether or not its
\* sender is still connected (no failed query).
StoredIsEmitted == \A m \in Ids : msg[m].sender # NoUser ~> m \in sent

\* 'denormalized last message': with no send under way, last_message_id is the
\* latest message of the conversation.
LastIsLatest ==
  \A c \in Pairs :
    (~\E s \in Slots : slot[s].pc = "setLast" /\ slot[s].pair = c) =>
      \A m \in Ids : msg[m].pair = c => m <= conv[c].last
=============================================================================
