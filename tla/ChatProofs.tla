----------------------------- MODULE ChatProofs -----------------------------
(* Proofs about Chat, for any users, conversations, sockets and requests.  *)
EXTENDS Chat, FiniteSetTheorems, TLAPS

-----------------------------------------------------------------------------
(* The inductive invariant *)

FromSocket == {"join", "joinHydrate", "joinRoom", "send", "insertMsg", "setLast", "emitMsg",
               "read", "readWrite", "emitRead"}
ConversationThere == {"setProduct", "hydrate", "emitJoined", "joinHydrate", "joinRoom",
                      "insertMsg", "setLast", "emitMsg", "readWrite", "emitRead"}
MessageThere == {"setLast", "emitMsg", "read", "readWrite", "emitRead"}

\* What a request x may rely on, given the sockets so, the conversations co,
\* the messages ms and the blocks bs.
RequestOK(x, so, co, ms, bs) ==
  /\ x.pc # "idle" => x.user \in Users /\ x.pair \in Pairs /\ (BlockAmong(bs, x.pair) \/ x.clear)
  /\ x.pc \in FromSocket => x.sock \in Sockets /\ so[x.sock].user = x.user
  /\ x.pc \in ConversationThere => co[x.pair].exists
  /\ x.pc \in PastChecks \cup {"create"} => x.user \in x.pair
  /\ x.pc \in PastChecks => x.clear
  /\ x.pc \in MessageThere => /\ x.msg \in Ids /\ ms[x.msg].sender \in Users
                              /\ ms[x.msg].pair = x.pair
  /\ x.pc \in {"readWrite", "emitRead"} => ms[x.msg].sender # x.user

RequestsOK == \A s \in Slots : RequestOK(slot[s], socket, conv, msg, blocks)

Shapes ==
  /\ conv \in [Pairs -> Conversation]
  /\ msg \in [Ids -> Message]
  /\ blocks \subseteq Users \X Users
  /\ available \subseteq Products
  /\ socket \in [Sockets -> Connection]
  /\ registry \in [Users -> SUBSET Sockets]
  /\ rooms \subseteq Sockets \X Pairs
  /\ sent \subseteq Ids
  /\ slot \in [Slots -> Request]

\* Stored messages fill the ids from below, each with its conversation.
MessagesOK ==
  /\ \E n \in 0..MaxMsgs : {m \in Ids : msg[m].sender # NoUser} = 1..n
  /\ \A m \in Ids : IF msg[m].sender # NoUser THEN msg[m].pair \in Pairs /\ conv[msg[m].pair].exists
                                              ELSE msg[m].pair = {}

SocketsOK == \A k \in Sockets : socket[k].up => socket[k].user \in Users

Inv == Shapes /\ RequestsOK /\ MessagesOK /\ SocketsOK /\ RegistryExact /\ RoomsOnlyParticipants

-----------------------------------------------------------------------------
(* What a step may do to the state that requests rely on *)

\* Connected users, conversations and messages stay what they are.
Grows(so, co, ms, so1, co1, ms1) ==
  /\ \A k \in Sockets : so[k].user \in Users => so1[k].user = so[k].user
  /\ \A c \in Pairs : co[c].exists => co1[c].exists
  /\ \A m \in Ids : ms[m].sender \in Users => ms1[m].sender = ms[m].sender /\ ms1[m].pair = ms[m].pair

\* A request that is not moved may rely on what it relied on.
LEMMA RequestFrame ==
  ASSUME NEW x \in Request, NEW so, NEW co, NEW ms, NEW bs, NEW so1, NEW co1, NEW ms1, NEW bs1,
         RequestOK(x, so, co, ms, bs), Grows(so, co, ms, so1, co1, ms1),
         x.pc # "idle" => BlockAmong(bs1, x.pair) \/ x.clear
  PROVE  RequestOK(x, so1, co1, ms1, bs1)
<1>1. x.pc \in FromSocket \cup ConversationThere \cup MessageThere => x.pc # "idle"
  BY DEF FromSocket, ConversationThere, MessageThere
<1>2. x.pc \in {"readWrite", "emitRead"} => x.pc \in MessageThere
  BY DEF MessageThere
<1>3. x.pc \in FromSocket => so1[x.sock].user = x.user
  BY <1>1 DEF RequestOK, Grows
<1>4. x.pc \in ConversationThere => co1[x.pair].exists
  BY <1>1 DEF RequestOK, Grows
<1>5. x.pc \in MessageThere => ms1[x.msg].sender = ms[x.msg].sender /\ ms1[x.msg].pair = ms[x.msg].pair
  BY DEF RequestOK, Grows
<1> QED BY <1>2, <1>3, <1>4, <1>5 DEF RequestOK

\* Requests that nobody moves, while blocks are only added.
LEMMA StillOK ==
  ASSUME Shapes, RequestsOK, UNCHANGED slot, blocks \subseteq blocks',
         Grows(socket, conv, msg, socket', conv', msg')
  PROVE  RequestsOK'
<1> SUFFICES ASSUME NEW s \in Slots PROVE RequestOK(slot[s], socket', conv', msg', blocks')
  BY DEF RequestsOK
<1>1. slot[s] \in Request /\ RequestOK(slot[s], socket, conv, msg, blocks)
  BY DEF Shapes, RequestsOK
<1>2. slot[s].pc # "idle" => BlockAmong(blocks', slot[s].pair) \/ slot[s].clear
  BY <1>1 DEF RequestOK, BlockAmong
<1> QED BY <1>1, <1>2, RequestFrame

\* One request moves to n, blocks stay.
LEMMA MovedOK ==
  ASSUME Shapes, RequestsOK, NEW s \in Slots, NEW n \in Request, slot' = [slot EXCEPT ![s] = n],
         UNCHANGED blocks, Grows(socket, conv, msg, socket', conv', msg'),
         RequestOK(n, socket', conv', msg', blocks)
  PROVE  RequestsOK' /\ slot' \in [Slots -> Request]
<1>1. ASSUME NEW r \in Slots, r # s PROVE RequestOK(slot'[r], socket', conv', msg', blocks')
  <2>1. slot[r] \in Request /\ slot'[r] = slot[r] /\ RequestOK(slot[r], socket, conv, msg, blocks)
    BY <1>1 DEF Shapes, RequestsOK
  <2>2. slot[r].pc # "idle" => BlockAmong(blocks, slot[r].pair) \/ slot[r].clear
    BY <2>1 DEF RequestOK
  <2> QED BY <2>1, <2>2, RequestFrame
<1>2. RequestOK(slot'[s], socket', conv', msg', blocks')
  BY DEF Shapes
<1>3. \A r \in Slots : RequestOK(slot'[r], socket', conv', msg', blocks')
  BY <1>1, <1>2
<1> QED BY <1>3 DEF RequestsOK, Shapes

\* A free slot relies on nothing.
LEMMA IdleOK ==
  ASSUME NEW so, NEW co, NEW ms, NEW bs
  PROVE  Idle \in Request /\ Idle.pc = "idle" /\ RequestOK(Idle, so, co, ms, bs)
<1>1. Idle \in Request /\ Idle.pc = "idle"
  BY MsgsAssumption DEF Idle, Request, PC
<1> QED BY <1>1 DEF RequestOK, FromSocket, ConversationThere, MessageThere, PastChecks

\* The state requests rely on, when it does not change.
LEMMA NoChangeGrows == ASSUME UNCHANGED <<socket, conv, msg>>
                       PROVE  Grows(socket, conv, msg, socket', conv', msg')
  BY DEF Grows

\* A request that ends.
LEMMA FinishOK ==
  ASSUME Shapes, RequestsOK, NEW s \in Slots, Finish(s),
         UNCHANGED blocks, Grows(socket, conv, msg, socket', conv', msg')
  PROVE  RequestsOK' /\ slot' \in [Slots -> Request]
  BY IdleOK, MovedOK DEF Finish

\* A request that goes on to pc keeps everything else.
LEMMA GotoFields ==
  ASSUME NEW x \in Request, NEW pc \in PC
  PROVE  /\ [x EXCEPT !.pc = pc] \in Request /\ [x EXCEPT !.pc = pc].pc = pc
         /\ [x EXCEPT !.pc = pc].user = x.user /\ [x EXCEPT !.pc = pc].sock = x.sock
         /\ [x EXCEPT !.pc = pc].pair = x.pair /\ [x EXCEPT !.pc = pc].msg = x.msg
         /\ [x EXCEPT !.pc = pc].product = x.product /\ [x EXCEPT !.pc = pc].clear = x.clear
  BY DEF Request

\* A request that goes on to pc, with what is there for it.
LEMMA GotoOK ==
  ASSUME Shapes, RequestsOK, NEW s \in Slots, NEW pc \in PC, Goto(s, pc),
         UNCHANGED blocks, Grows(socket, conv, msg, socket', conv', msg'),
         slot[s].pc # "idle",
         pc \in FromSocket => slot[s].pc \in FromSocket,
         pc \in ConversationThere => conv'[slot[s].pair].exists,
         pc \in PastChecks \cup {"create"} => slot[s].user \in slot[s].pair,
         pc \in PastChecks => slot[s].clear,
         pc \in MessageThere => slot[s].pc \in MessageThere,
         pc \in {"readWrite", "emitRead"} => msg[slot[s].msg].sender # slot[s].user
  PROVE  RequestsOK' /\ slot' \in [Slots -> Request]
<1> DEFINE x == slot[s]
           n == [x EXCEPT !.pc = pc]
<1>1. x \in Request /\ RequestOK(x, socket, conv, msg, blocks)
  BY DEF Shapes, RequestsOK
<1>2. /\ n \in Request /\ n.pc = pc /\ n.user = x.user /\ n.sock = x.sock
      /\ n.pair = x.pair /\ n.msg = x.msg /\ n.clear = x.clear
  BY <1>1, GotoFields
<1>3. slot' = [slot EXCEPT ![s] = n]
  BY DEF Goto
<1>4. x.user \in Users /\ x.pair \in Pairs /\ (BlockAmong(blocks, x.pair) \/ x.clear)
  BY <1>1 DEF RequestOK
<1>5. pc \in FromSocket => x.sock \in Sockets /\ socket'[x.sock].user = x.user
  BY <1>1, <1>4 DEF RequestOK, Grows
<1>6. pc \in MessageThere => /\ x.msg \in Ids /\ msg[x.msg].sender \in Users /\ msg[x.msg].pair = x.pair
                             /\ msg'[x.msg].sender = msg[x.msg].sender /\ msg'[x.msg].pair = x.pair
  BY <1>1 DEF RequestOK, Grows
<1>7. pc \in {"readWrite", "emitRead"} => pc \in MessageThere
  BY DEF MessageThere
<1> HIDE DEF n
<1>8. RequestOK(n, socket', conv', msg', blocks)
  BY <1>2, <1>4, <1>5, <1>6, <1>7 DEF RequestOK
<1> QED BY <1>2, <1>3, <1>8, MovedOK

-----------------------------------------------------------------------------
(* Tables *)

\* The id of the next message is a new one, just above those in use.
LEMMA NextIsFresh ==
  ASSUME Shapes, MessagesOK, NextMsg \in Ids
  PROVE  /\ msg[NextMsg].sender = NoUser
         /\ {m \in Ids : msg[m].sender # NoUser} = 1..(NextMsg - 1)
<1>1. PICK n \in 0..MaxMsgs : {m \in Ids : msg[m].sender # NoUser} = 1..n
  BY DEF MessagesOK
<1>2. Cardinality(1..n) = n
  <2>1. 1 \in Int /\ n \in Int
    BY MsgsAssumption
  <2>2. Cardinality(1..n) = IF 1 > n THEN 0 ELSE n - 1 + 1
    BY <2>1, FS_Interval
  <2> QED BY <2>1, <2>2, MsgsAssumption
<1>3. NextMsg = n + 1
  BY <1>1, <1>2 DEF NextMsg
<1> HIDE DEF NextMsg
<1>4. NextMsg \notin 1..n
  BY <1>3, MsgsAssumption
<1>5. NextMsg - 1 = n
  BY <1>3, MsgsAssumption
<1> QED BY <1>1, <1>4, <1>5

TablesOK == /\ conv' \in [Pairs -> Conversation] /\ msg' \in [Ids -> Message]
            /\ MessagesOK' /\ Grows(socket, conv, msg, socket, conv', msg')

\* UPDATE conversations SET product_id keeps conversations and messages.
LEMMA SetProductTables == ASSUME Inv, NEW s \in Slots, CreateSetProduct(s) PROVE TablesOK
<1> USE DEF Inv
<1>1. slot[s].pair \in Pairs /\ slot[s].product \in Products \cup {NoProduct}
  BY DEF CreateSetProduct, RequestsOK, RequestOK, Shapes, Request
<1>2. conv' \in [Pairs -> Conversation] /\ \A c \in Pairs : conv'[c].exists = conv[c].exists
  BY <1>1 DEF CreateSetProduct, Shapes, Conversation
<1> QED BY <1>2 DEF CreateSetProduct, TablesOK, MessagesOK, Grows, Shapes, Message

\* INSERT INTO conversations keeps them.
LEMMA InsertTables == ASSUME Inv, NEW s \in Slots, CreateInsert(s) PROVE TablesOK
<1> USE DEF Inv
<1>1. slot[s].pair \in Pairs /\ slot[s].product \in Products \cup {NoProduct}
  BY DEF CreateInsert, RequestsOK, RequestOK, Shapes, Request
<1>2. conv' \in [Pairs -> Conversation] /\ \A c \in Pairs : conv[c].exists => conv'[c].exists
  BY <1>1, MsgsAssumption DEF CreateInsert, Shapes, Conversation
<1> QED BY <1>2 DEF CreateInsert, TablesOK, MessagesOK, Grows, Shapes, Message

\* So does the UPDATE of last_message_id,
LEMMA SetLastTables == ASSUME Inv, NEW s \in Slots, SendSetLast(s) PROVE TablesOK
<1> USE DEF Inv
<1>1. slot[s].pair \in Pairs /\ slot[s].msg \in 0..MaxMsgs
  BY DEF SendSetLast, RequestsOK, RequestOK, Shapes, Request
<1>2. conv' \in [Pairs -> Conversation] /\ \A c \in Pairs : conv'[c].exists = conv[c].exists
  BY <1>1 DEF SendSetLast, Shapes, Conversation
<1> QED BY <1>2 DEF SendSetLast, TablesOK, MessagesOK, Grows, Shapes, Message

\* the UPDATE of read_at,
LEMMA ReadTables == ASSUME Inv, NEW s \in Slots, ReadWrite(s) PROVE TablesOK
<1> USE DEF Inv
<1>1. slot[s].msg \in Ids
  BY DEF ReadWrite, RequestsOK, RequestOK, MessageThere
<1>2. /\ msg' \in [Ids -> Message]
      /\ \A m \in Ids : msg'[m].sender = msg[m].sender /\ msg'[m].pair = msg[m].pair
  BY <1>1 DEF ReadWrite, Shapes, Message
<1>3. {m \in Ids : msg'[m].sender # NoUser} = {m \in Ids : msg[m].sender # NoUser}
  BY <1>2
<1> QED BY <1>2, <1>3 DEF ReadWrite, TablesOK, MessagesOK, Grows, Shapes

\* and the INSERT of a message, which takes an id that is free.
LEMMA SendTables == ASSUME Inv, NEW s \in Slots, SendInsert(s) PROVE TablesOK
<1> USE DEF Inv
<1>1. NextMsg \in Ids /\ UNCHANGED conv
  BY DEF SendInsert
<1>2. msg[NextMsg].sender = NoUser /\ {m \in Ids : msg[m].sender # NoUser} = 1..(NextMsg - 1)
  BY <1>1, NextIsFresh
<1>3. slot[s].pair \in Pairs /\ slot[s].user \in Users /\ conv[slot[s].pair].exists
  BY DEF SendInsert, RequestsOK, RequestOK, ConversationThere
<1> DEFINE n == [pair |-> slot[s].pair, sender |-> slot[s].user, read |-> FALSE]
<1>4. msg' = [msg EXCEPT ![NextMsg] = n]
  BY DEF SendInsert
<1> PICK i \in Ids : i = NextMsg
  BY <1>1
<1> HIDE DEF NextMsg
<1>5. msg' \in [Ids -> Message] /\ msg'[i] = n /\ \A m \in Ids : m # i => msg'[m] = msg[m]
  BY <1>3, <1>4 DEF Shapes, Message
<1>6. {m \in Ids : msg'[m].sender # NoUser} = 1..(i - 1) \cup {i}
  BY <1>2, <1>3, <1>5, NoneAssumption
<1>7. 1..(i - 1) \cup {i} = 1..i /\ i \in 0..MaxMsgs
  BY MsgsAssumption DEF Ids
<1>8. MessagesOK'
  <2>1. \A m \in Ids : IF msg'[m].sender # NoUser THEN msg'[m].pair \in Pairs /\ conv'[msg'[m].pair].exists
                                                  ELSE msg'[m].pair = {}
    BY <1>1, <1>3, <1>5, NoneAssumption DEF MessagesOK
  <2>2. \E k \in 0..MaxMsgs : {m \in Ids : msg'[m].sender # NoUser} = 1..k
    BY <1>6, <1>7
  <2> QED BY <2>1, <2>2 DEF MessagesOK
<1>9. Grows(socket, conv, msg, socket, conv', msg')
  BY <1>1, <1>2, <1>5, NoneAssumption DEF Grows
<1> QED BY <1>1, <1>5, <1>8, <1>9 DEF TablesOK, Shapes

-----------------------------------------------------------------------------
(* Requests *)

RequestsStay == RequestsOK' /\ slot' \in [Slots -> Request]

\* The steps of a request, from one query to the next.
LEMMA ProgressRequests == ASSUME Inv, NEW s \in Slots, Progress(s) PROVE RequestsStay
<1> USE DEF Inv
<1>1. /\ slot[s] \in Request /\ RequestOK(slot[s], socket, conv, msg, blocks)
      /\ slot[s].pc # "idle"
  <2>1. slot[s].pc # "idle"
    BY DEF Progress, CreateCheck, CreateProduct, CreateSelect, CreateSetProduct, CreateInsert, Hydrate,
       emitConversationJoinedToParticipants, JoinCheck, SendCheck, SendInsert, SendSetLast, ReadCheck,
       ReadWrite, JoinAndEmit
  <2> QED BY <2>1 DEF RequestsOK, Shapes
<1>2. ~hasBlockBetweenUsers(slot[s].pair) => slot[s].clear
  BY <1>1 DEF RequestOK, hasBlockBetweenUsers
<1> USE DEF RequestsStay
<1>3. CASE UNCHANGED <<tables, sockets>> /\ Finish(s)
  BY <1>3, FinishOK, NoChangeGrows DEF tables, sockets
<1>4. ASSUME UNCHANGED <<tables, sockets>> PROVE
        UNCHANGED <<conv, blocks>> /\ Grows(socket, conv, msg, socket', conv', msg')
  BY <1>4, NoChangeGrows DEF tables, sockets
<1>5. CASE CreateCheck(s)
  <2>1. slot[s].user \in slot[s].pair
    BY <1>1, <1>5 DEF CreateCheck, RequestOK
  <2>2. ASSUME NEW pc \in {"select", "product"}, Goto(s, pc), slot[s].clear PROVE RequestsStay
    <3>1. pc \in PC /\ pc \notin FromSocket \cup ConversationThere \cup MessageThere \cup {"readWrite", "emitRead"}
      BY DEF PC, FromSocket, ConversationThere, MessageThere
    <3> QED BY <1>1, <1>4, <1>5, <2>1, <2>2, <3>1, GotoOK DEF CreateCheck
  <2> QED BY <1>2, <1>3, <1>5, <2>2 DEF CreateCheck, Check
<1>6. CASE CreateProduct(s)
  <2>1. ASSUME Goto(s, "select") PROVE RequestsStay
    <3>1. slot[s].user \in slot[s].pair /\ slot[s].clear
      BY <1>1, <1>6 DEF CreateProduct, RequestOK, PastChecks, PC
    <3>2. "select" \in PC /\ "select" \notin FromSocket \cup ConversationThere \cup MessageThere \cup {"readWrite", "emitRead"}
      BY DEF PC, FromSocket, ConversationThere, MessageThere
    <3> QED BY <1>1, <1>4, <1>6, <2>1, <3>1, <3>2, GotoOK DEF CreateProduct
  <2> QED BY <1>3, <1>6, <2>1 DEF CreateProduct, Check
<1>7. CASE CreateSelect(s)
  <2>1. slot[s].user \in slot[s].pair /\ slot[s].clear
    BY <1>1, <1>7 DEF CreateSelect, RequestOK, PastChecks, PC
  <2>2. PICK pc \in {"insertConv", "setProduct", "hydrate"} :
          Goto(s, pc) /\ (pc # "insertConv" => conv[slot[s].pair].exists)
    BY <1>7 DEF CreateSelect
  <2>3. pc \in PC /\ pc \notin FromSocket \cup MessageThere \cup {"readWrite", "emitRead"}
    BY DEF PC, FromSocket, MessageThere
  <2>4. pc \in ConversationThere => pc # "insertConv"
    BY DEF ConversationThere
  <2>5. conv' = conv /\ blocks' = blocks /\ Grows(socket, conv, msg, socket', conv', msg')
    BY <1>4, <1>7 DEF CreateSelect
  <2> QED BY <1>1, <2>1, <2>2, <2>3, <2>4, <2>5, GotoOK
<1>8. CASE CreateSetProduct(s)
  <2>1. /\ slot[s].user \in slot[s].pair /\ slot[s].clear
        /\ slot[s].pair \in Pairs /\ conv[slot[s].pair].exists
    BY <1>1, <1>8 DEF CreateSetProduct, RequestOK, PastChecks, PC, ConversationThere
  <2>2. "hydrate" \in PC /\ "hydrate" \notin FromSocket \cup MessageThere \cup {"readWrite", "emitRead"}
    BY DEF PC, FromSocket, MessageThere
  <2>3. /\ socket' = socket /\ blocks' = blocks /\ Goto(s, "hydrate")
        /\ Grows(socket, conv, msg, socket', conv', msg')
    BY <1>8, SetProductTables DEF CreateSetProduct, sockets, TablesOK
  <2>4. conv'[slot[s].pair].exists
    BY <2>1, <2>3 DEF Grows
  <2> QED BY <1>1, <2>1, <2>2, <2>3, <2>4, GotoOK
<1>9. CASE CreateInsert(s)
  <2>1. /\ slot[s].user \in slot[s].pair /\ slot[s].clear /\ slot[s].pair \in Pairs
    BY <1>1, <1>9 DEF CreateInsert, RequestOK, PastChecks, PC
  <2>2. "hydrate" \in PC /\ "hydrate" \notin FromSocket \cup MessageThere \cup {"readWrite", "emitRead"}
    BY DEF PC, FromSocket, MessageThere
  <2>3. socket' = socket /\ blocks' = blocks /\ Grows(socket, conv, msg, socket', conv', msg')
    BY <1>9, InsertTables DEF CreateInsert, sockets, TablesOK
  <2>4. CASE Goto(s, "hydrate") /\ ~conv[slot[s].pair].exists
    <3>1. conv'[slot[s].pair].exists
      BY <1>9, <2>1, <2>4 DEF CreateInsert, Shapes
    <3> QED BY <1>1, <2>1, <2>2, <2>3, <2>4, <3>1, GotoOK
  <2>5. CASE Finish(s)
    BY <2>3, <2>5, FinishOK
  <2> QED BY <1>9, <2>4, <2>5 DEF CreateInsert, Check
<1>10. CASE Hydrate(s)
  <2>1. CASE Finish(s)
    BY <1>3, <1>10, <2>1 DEF Hydrate
  <2>2. CASE /\ slot[s].pc = "hydrate" /\ Goto(s, "emitJoined")
             /\ assertConversationParticipant(slot[s].pair, slot[s].user)
    <3>1. "emitJoined" \in PC /\ "emitJoined" \notin FromSocket \cup MessageThere \cup {"readWrite", "emitRead"}
      BY DEF PC, FromSocket, MessageThere
    <3> QED BY <1>1, <1>2, <1>4, <1>10, <2>2, <3>1, GotoOK DEF Hydrate, assertConversationParticipant
  <2>3. CASE /\ slot[s].pc = "joinHydrate" /\ Goto(s, "joinRoom")
             /\ assertConversationParticipant(slot[s].pair, slot[s].user)
    <3>1. "joinRoom" \in PC /\ "joinRoom" \notin MessageThere \cup {"readWrite", "emitRead"} /\ slot[s].pc \in FromSocket
      BY <2>3 DEF PC, FromSocket, MessageThere
    <3> QED BY <1>1, <1>2, <1>4, <1>10, <2>3, <3>1, GotoOK DEF Hydrate, assertConversationParticipant
  <2> QED BY <1>10, <2>1, <2>2, <2>3 DEF Hydrate, Check
<1>11. CASE emitConversationJoinedToParticipants(s) \/ JoinAndEmit(s)
  <2>1. Finish(s) /\ UNCHANGED <<socket, conv, msg, blocks>>
    BY <1>11 DEF emitConversationJoinedToParticipants, JoinAndEmit, tables
  <2> QED BY <2>1, FinishOK, NoChangeGrows
<1>12. ASSUME JoinCheck(s) \/ SendCheck(s), ~Finish(s) PROVE RequestsStay
  <2>1. PICK pc \in {"joinHydrate", "insertMsg"} :
          Goto(s, pc) /\ assertConversationParticipant(slot[s].pair, slot[s].user)
    BY <1>12 DEF JoinCheck, SendCheck, Check
  <2>2. pc \in PC /\ pc \notin MessageThere \cup {"readWrite", "emitRead"} /\ slot[s].pc \in FromSocket
    BY <1>12 DEF PC, FromSocket, MessageThere, JoinCheck, SendCheck
  <2>3. UNCHANGED <<tables, sockets>>
    BY <1>12 DEF JoinCheck, SendCheck
  <2> QED BY <1>1, <1>2, <1>4, <2>1, <2>2, <2>3, GotoOK DEF assertConversationParticipant
<1>13. CASE SendInsert(s)
  <2> DEFINE x == slot[s]
             n == [x EXCEPT !.pc = "setLast", !.msg = NextMsg]
  <2>1. /\ x.user \in Users /\ x.pair \in Pairs /\ x.clear /\ x.user \in x.pair
        /\ x.sock \in Sockets /\ socket[x.sock].user = x.user /\ conv[x.pair].exists
    BY <1>1, <1>13 DEF SendInsert, RequestOK, FromSocket, ConversationThere, PastChecks, PC
  <2>2. NextMsg \in Ids /\ NextMsg \in 0..MaxMsgs
    BY <1>13, MsgsAssumption DEF SendInsert, Ids
  <2>3. slot' = [slot EXCEPT ![s] = n] /\ UNCHANGED <<blocks, socket, conv>>
    BY <1>13 DEF SendInsert, sockets
  <2>4. msg'[NextMsg].sender = x.user /\ msg'[NextMsg].pair = x.pair
    BY <1>13, <2>2 DEF SendInsert, Shapes
  <2> HIDE DEF NextMsg
  <2>5. /\ n \in Request /\ n.pc = "setLast" /\ n.user = x.user /\ n.sock = x.sock
        /\ n.pair = x.pair /\ n.msg = NextMsg /\ n.clear = x.clear
    BY <1>1, <2>2 DEF Request, PC
  <2> HIDE DEF n
  <2>6. RequestOK(n, socket', conv', msg', blocks)
    BY <2>1, <2>2, <2>3, <2>4, <2>5 DEF RequestOK
  <2>7. Grows(socket, conv, msg, socket', conv', msg')
    BY <1>13, <2>3, SendTables DEF TablesOK
  <2> QED BY <2>3, <2>5, <2>6, <2>7, MovedOK
<1>14. CASE SendSetLast(s)
  <2>1. /\ slot[s].user \in slot[s].pair /\ slot[s].clear /\ slot[s].pc \in FromSocket \cap MessageThere
        /\ slot[s].pair \in Pairs /\ conv[slot[s].pair].exists
    BY <1>1, <1>14 DEF SendSetLast, RequestOK, PastChecks, PC, ConversationThere, FromSocket, MessageThere
  <2>2. "emitMsg" \in PC
    BY DEF PC
  <2>3. /\ socket' = socket /\ blocks' = blocks /\ Goto(s, "emitMsg")
        /\ Grows(socket, conv, msg, socket', conv', msg')
    BY <1>14, SetLastTables DEF SendSetLast, sockets, TablesOK
  <2>4. conv'[slot[s].pair].exists
    BY <2>1, <2>3 DEF Grows
  <2> QED BY <1>1, <2>1, <2>2, <2>3, <2>4, GotoOK
<1>15. CASE ReadCheck(s)
  <2>1. CASE Finish(s)
    BY <1>3, <1>15, <2>1 DEF ReadCheck
  <2>2. CASE /\ Goto(s, "readWrite") /\ assertConversationParticipant(slot[s].pair, slot[s].user)
             /\ MayRead(slot[s].user, slot[s].msg)
    <3>1. "readWrite" \in PC /\ slot[s].pc \in FromSocket \cap MessageThere
      BY <1>15 DEF PC, ReadCheck, FromSocket, MessageThere
    <3> QED BY <1>1, <1>2, <1>4, <1>15, <2>2, <3>1, GotoOK
            DEF ReadCheck, assertConversationParticipant, MayRead
  <2> QED BY <1>15, <2>1, <2>2 DEF ReadCheck, Check
<1>16. CASE ReadWrite(s)
  <2>1. /\ slot[s].user \in slot[s].pair /\ slot[s].clear /\ slot[s].pc \in FromSocket \cap MessageThere
        /\ slot[s].pair \in Pairs /\ conv[slot[s].pair].exists /\ msg[slot[s].msg].sender # slot[s].user
    BY <1>1, <1>16 DEF ReadWrite, RequestOK, PastChecks, PC, ConversationThere, FromSocket, MessageThere
  <2>2. "emitRead" \in PC
    BY DEF PC
  <2>3. /\ socket' = socket /\ blocks' = blocks /\ conv' = conv /\ Goto(s, "emitRead")
        /\ Grows(socket, conv, msg, socket', conv', msg')
    BY <1>16, ReadTables DEF ReadWrite, sockets, TablesOK
  <2> QED BY <1>1, <2>1, <2>2, <2>3, GotoOK
<1>17. CASE (JoinCheck(s) \/ SendCheck(s)) /\ Finish(s)
  BY <1>3, <1>17 DEF JoinCheck, SendCheck
<1> HIDE DEF RequestsStay
<1> QED BY <1>5, <1>6, <1>7, <1>8, <1>9, <1>10, <1>11, <1>12, <1>13, <1>14, <1>15, <1>16, <1>17 DEF Progress

\* A request that arrives.
LEMMA ArriveRequests ==
  ASSUME Inv, NEW s \in Slots, NEW pc \in {"create", "join", "send", "read"},
         NEW u \in Users, NEW k \in Sockets \cup {NoSocket}, NEW c \in Pairs, NEW m \in 0..MaxMsgs,
         NEW p \in Products \cup {NoProduct}, Arrive(s, pc, u, k, c, m, p),
         IF pc = "create" THEN u \in c ELSE k \in Sockets /\ socket[k].user = u,
         pc = "read" => m \in Ids /\ msg[m].sender \in Users /\ msg[m].pair = c
  PROVE  RequestsStay
<1> DEFINE n == [pc |-> pc, user |-> u, sock |-> k, pair |-> c, msg |-> m, product |-> p,
                 clear |-> ~hasBlockBetweenUsers(c)]
<1>1. slot' = [slot EXCEPT ![s] = n] /\ UNCHANGED <<blocks, socket, conv, msg>>
  BY DEF Arrive, tables, sockets
<1>2. /\ n \in Request /\ n.pc = pc /\ n.user = u /\ n.sock = k /\ n.pair = c /\ n.msg = m
      /\ n.clear = ~hasBlockBetweenUsers(c)
  BY DEF Request, PC
<1>3. /\ pc \notin ConversationThere \cup PastChecks \cup {"readWrite", "emitRead"}
      /\ pc \in MessageThere => pc = "read"
      /\ pc \in FromSocket => pc # "create"
  BY DEF ConversationThere, PastChecks, MessageThere, FromSocket
<1> HIDE DEF n
<1>4. RequestOK(n, socket', conv', msg', blocks)
  BY <1>1, <1>2, <1>3 DEF RequestOK, hasBlockBetweenUsers
<1> QED BY <1>1, <1>2, <1>4, MovedOK, NoChangeGrows DEF RequestsStay, Inv

\* Requests of the HTTP controller and events of the gateway.
LEMMA NewRequests == ASSUME Inv, NEW s \in Slots, NewRequest(s) PROVE RequestsStay
<1> USE DEF Inv
<1>1. ASSUME NEW c \in Pairs, NEW u \in c, NEW p \in Products \cup {NoProduct}, createConversation(s, u, c, p)
      PROVE  RequestsStay
  <2>1. u \in Users /\ 0 \in 0..MaxMsgs
    BY PairsAssumption, MsgsAssumption
  <2> QED BY <1>1, <2>1, ArriveRequests DEF createConversation
<1>2. ASSUME NEW k \in Sockets, NEW c \in Pairs, joinConversation(s, k, c) \/ sendMessage(s, k, c)
      PROVE  RequestsStay
  <2>1. socket[k].user \in Users /\ 0 \in 0..MaxMsgs
    BY <1>2, MsgsAssumption DEF joinConversation, sendMessage, SocketsOK
  <2>2. PICK u \in Users : u = socket[k].user
    BY <2>1
  <2>3. PICK pc \in {"join", "send"} : Arrive(s, pc, u, k, c, 0, NoProduct)
    BY <1>2, <2>2 DEF joinConversation, sendMessage
  <2> QED BY <2>1, <2>2, <2>3, ArriveRequests
<1>3. ASSUME NEW k \in Sockets, NEW m \in Ids, markRead(s, k, m) PROVE RequestsStay
  <2>1. socket[k].user \in Users /\ m \in 0..MaxMsgs /\ msg[m].sender \in Users /\ msg[m].pair \in Pairs
    BY <1>3, MsgsAssumption DEF markRead, SocketsOK, MessagesOK, Shapes, Message, Ids
  <2>2. PICK u \in Users, c \in Pairs : u = socket[k].user /\ c = msg[m].pair
    BY <2>1
  <2>3. Arrive(s, "read", u, k, c, m, NoProduct)
    BY <1>3, <2>2 DEF markRead
  <2> QED BY <2>1, <2>2, <2>3, ArriveRequests
<1> QED BY <1>1, <1>2, <1>3 DEF NewRequest

\* A block that is lifted is seen by every request in flight.
LEMMA UnblockRequests == ASSUME Inv, NEW u, NEW v, unblockUser(u, v) PROVE RequestsStay
<1> USE DEF Inv
<1>1. UNCHANGED <<socket, conv, msg>>
  BY DEF unblockUser, sockets
<1>2. ASSUME NEW s \in Slots
      PROVE  slot'[s] \in Request /\ RequestOK(slot'[s], socket', conv', msg', blocks')
  <2> DEFINE x == slot[s]
             n == [x EXCEPT !.clear = TRUE]
  <2>1. x \in Request /\ RequestOK(x, socket, conv, msg, blocks)
    BY DEF Shapes, RequestsOK
  <2>2. n \in Request /\ n.pc = x.pc /\ n.user = x.user /\ n.sock = x.sock /\ n.pair = x.pair /\ n.msg = x.msg /\ n.clear
    BY <2>1 DEF Request
  <2>3. slot'[s] = IF x.pc # "idle" /\ ~BlockAmong(blocks', x.pair) THEN n ELSE x
    BY DEF unblockUser
  <2> HIDE DEF n
  <2>4. CASE slot'[s] = n
    BY <1>1, <2>1, <2>2, <2>4 DEF RequestOK
  <2>5. CASE slot'[s] = x /\ (x.pc = "idle" \/ BlockAmong(blocks', x.pair))
    BY <1>1, <2>1, <2>5, RequestFrame, NoChangeGrows
  <2> QED BY <2>3, <2>4, <2>5
<1>3. slot' \in [Slots -> Request]
  BY <1>2 DEF unblockUser
<1> QED BY <1>2, <1>3 DEF RequestsStay, RequestsOK

-----------------------------------------------------------------------------
(* Sockets and rooms *)

SocketsStay ==
  /\ socket' \in [Sockets -> Connection] /\ registry' \in [Users -> SUBSET Sockets]
  /\ rooms' \subseteq Sockets \X Pairs /\ sent' \subseteq Ids
  /\ SocketsOK' /\ RegistryExact' /\ RoomsOnlyParticipants'
  /\ \A k \in Sockets : socket[k].user \in Users => socket'[k].user = socket[k].user

\* Only sockets of participants, and only live ones, enter a room.
LEMMA JoinStays ==
  ASSUME Inv, NEW c \in Pairs, NEW ks \in SUBSET Sockets, conv'[c].exists,
         \A d \in Pairs : conv[d].exists => conv'[d].exists,
         \A k \in ks : socket[k].up => socket[k].user \in c,
         Join(ks, c) \/ UNCHANGED rooms, UNCHANGED <<socket, registry>>, sent' \subseteq Ids
  PROVE  SocketsStay
<1> USE DEF Inv
<1>1. rooms' \subseteq rooms \cup ({k \in ks : socket[k].up} \X {c})
  BY DEF Join
<1>2. RoomsOnlyParticipants' /\ rooms' \subseteq Sockets \X Pairs
  <2>1. ASSUME NEW r \in rooms'
        PROVE  r \in Sockets \X Pairs /\ socket'[r[1]].up /\ socket'[r[1]].user \in r[2] /\ conv'[r[2]].exists
    <3>1. CASE r \in rooms
      <4>1. r \in Sockets \X Pairs /\ r[2] \in Pairs
        BY <3>1 DEF Shapes
      <4> QED BY <3>1, <4>1 DEF RoomsOnlyParticipants
    <3>2. CASE r \in {k \in ks : socket[k].up} \X {c}
      BY <3>2
    <3> QED BY <1>1, <2>1, <3>1, <3>2
  <2> QED BY <2>1 DEF RoomsOnlyParticipants
<1>3. SocketsOK' /\ RegistryExact'
  BY DEF SocketsOK, RegistryExact
<1> QED BY <1>2, <1>3 DEF SocketsStay, Shapes

\* Steps that leave sockets and rooms alone.
LEMMA SocketsUntouched ==
  ASSUME Inv, UNCHANGED sockets, \A d \in Pairs : conv[d].exists => conv'[d].exists
  PROVE  SocketsStay
<1> USE DEF Inv, sockets
<1>1. SocketsOK' /\ RegistryExact'
  BY DEF SocketsOK, RegistryExact
<1>2. RoomsOnlyParticipants'
  BY DEF RoomsOnlyParticipants, Shapes
<1> QED BY <1>1, <1>2 DEF SocketsStay, Shapes

\* A connection.
LEMMA ConnectStays == ASSUME Inv, NEW k \in Sockets, NEW u \in Users, handleConnection(k, u) PROVE SocketsStay
<1> USE DEF Inv
<1>1. /\ socket[k].user = NoUser /\ ~socket[k].up
      /\ socket' \in [Sockets -> Connection] /\ socket'[k].user = u /\ socket'[k].up
      /\ \A l \in Sockets : l # k => socket'[l] = socket[l]
  BY NoneAssumption DEF handleConnection, Unused, Shapes, Connection, SocketsOK
<1>2. /\ registry' \in [Users -> SUBSET Sockets] /\ registry'[u] = registry[u] \cup {k}
      /\ \A v \in Users : v # u => registry'[v] = registry[v]
      /\ UNCHANGED <<conv, rooms, sent>>
  BY DEF handleConnection, Shapes, tables
<1>3. RegistryExact'
  BY <1>1, <1>2, NoneAssumption DEF RegistryExact
<1>4. RoomsOnlyParticipants'
  <2> SUFFICES ASSUME NEW r \in rooms PROVE socket'[r[1]].up /\ socket'[r[1]].user \in r[2] /\ conv'[r[2]].exists
    BY <1>2 DEF RoomsOnlyParticipants
  <2>1. r[1] \in Sockets /\ socket[r[1]].up /\ socket[r[1]].user \in r[2] /\ conv[r[2]].exists
    BY DEF RoomsOnlyParticipants, Shapes
  <2> QED BY <1>1, <1>2, <2>1
<1> QED BY <1>1, <1>2, <1>3, <1>4, NoneAssumption DEF SocketsStay, SocketsOK, Shapes

\* A disconnection, which also leaves the rooms.
LEMMA DisconnectStays == ASSUME Inv, NEW k \in Sockets, handleDisconnect(k) PROVE SocketsStay
<1> USE DEF Inv
<1>1. /\ socket[k].user \in Users /\ socket' \in [Sockets -> Connection]
      /\ socket'[k].user = socket[k].user /\ ~socket'[k].up
      /\ \A l \in Sockets : l # k => socket'[l] = socket[l]
  BY DEF handleDisconnect, Shapes, Connection, SocketsOK
<1>2. PICK u \in Users : u = socket[k].user
  BY <1>1
<1>3. /\ registry' \in [Users -> SUBSET Sockets] /\ registry'[u] = registry[u] \ {k}
      /\ \A v \in Users : v # u => registry'[v] = registry[v]
      /\ UNCHANGED <<conv, sent>> /\ rooms' = {r \in rooms : r[1] # k}
  BY <1>2 DEF handleDisconnect, unregisterUserSocket, Shapes, tables
<1>4. RegistryExact'
  BY <1>1, <1>2, <1>3 DEF RegistryExact
<1>5. RoomsOnlyParticipants'
  <2> SUFFICES ASSUME NEW r \in rooms, r[1] # k
               PROVE  socket'[r[1]].up /\ socket'[r[1]].user \in r[2] /\ conv'[r[2]].exists
    BY <1>3 DEF RoomsOnlyParticipants
  <2>1. r[1] \in Sockets /\ socket[r[1]].up /\ socket[r[1]].user \in r[2] /\ conv[r[2]].exists
    BY DEF RoomsOnlyParticipants, Shapes
  <2> QED BY <1>1, <1>3, <2>1
<1> QED BY <1>1, <1>3, <1>4, <1>5 DEF SocketsStay, SocketsOK, Shapes

-----------------------------------------------------------------------------
(* All together *)

\* Steps that leave conversations and messages alone.
LEMMA TablesUntouched == ASSUME Inv, UNCHANGED <<conv, msg>> PROVE TablesOK
<1>1. MessagesOK'
  BY DEF Inv, MessagesOK
<1>2. Grows(socket, conv, msg, socket, conv', msg')
  BY DEF Grows
<1> QED BY <1>1, <1>2 DEF Inv, Shapes, TablesOK

\* The statements of a request under way, or none.
LEMMA ProgressTables ==
  ASSUME Inv, NEW s \in Slots, Progress(s)
  PROVE  TablesOK /\ UNCHANGED <<blocks, available>>
<1>1. UNCHANGED <<conv, msg>> => TablesOK
  BY TablesUntouched
<1> QED BY <1>1, SetProductTables, InsertTables, SetLastTables, ReadTables, SendTables
        DEF Progress, CreateCheck, CreateProduct, CreateSelect, CreateSetProduct, CreateInsert, Hydrate,
            emitConversationJoinedToParticipants, JoinCheck, SendCheck, SendInsert, SendSetLast,
            ReadCheck, ReadWrite, JoinAndEmit, tables

\* Joins and emits of a request under way.
LEMMA ProgressSockets == ASSUME Inv, NEW s \in Slots, Progress(s) PROVE SocketsStay
<1> USE DEF Inv
<1>0. \A d \in Pairs : conv[d].exists => conv'[d].exists
  BY ProgressTables DEF TablesOK, Grows
<1>1. slot[s] \in Request /\ RequestOK(slot[s], socket, conv, msg, blocks)
  BY DEF RequestsOK, Shapes
<1>2. CASE UNCHANGED sockets
  BY <1>0, <1>2, SocketsUntouched
<1>3. CASE emitConversationJoinedToParticipants(s)
  <2>1. PICK c \in Pairs : c = slot[s].pair /\ conv[c].exists
    BY <1>1, <1>3 DEF emitConversationJoinedToParticipants, RequestOK, ConversationThere
  <2>2. c \subseteq Users
    BY PairsAssumption
  <2> DEFINE ks == UNION {registry[u] : u \in c}
  <2>3. ks \in SUBSET Sockets /\ \A k \in ks : socket[k].user \in c
    BY <2>2 DEF RegistryExact, Shapes
  <2>4. Join(ks, c) /\ UNCHANGED <<conv, socket, registry, sent>> /\ sent' \subseteq Ids
    BY <1>3, <2>1 DEF emitConversationJoinedToParticipants, tables, Shapes
  <2> HIDE DEF ks
  <2> QED BY <1>0, <2>1, <2>3, <2>4, JoinStays
<1>4. CASE JoinAndEmit(s)
  <2>1. PICK c \in Pairs, k \in Sockets :
          /\ c = slot[s].pair /\ conv[c].exists /\ k = slot[s].sock
          /\ socket[k].user = slot[s].user /\ slot[s].user \in c
          /\ slot[s].pc = "emitMsg" => slot[s].msg \in Ids
    BY <1>1, <1>4 DEF JoinAndEmit, RequestOK, ConversationThere, FromSocket, MessageThere, PastChecks, PC
  <2>2. {k} \in SUBSET Sockets /\ \A l \in {k} : socket[l].user \in c
    BY <2>1
  <2>3. Join({k}, c) /\ UNCHANGED <<conv, socket, registry>>
    BY <1>4, <2>1 DEF JoinAndEmit, tables
  <2>4. sent' \subseteq Ids
    BY <1>4, <2>1 DEF JoinAndEmit, Shapes
  <2> QED BY <1>0, <2>1, <2>2, <2>3, <2>4, JoinStays
<1> QED BY <1>2, <1>3, <1>4
        DEF Progress, CreateCheck, CreateProduct, CreateSelect, CreateSetProduct, CreateInsert, Hydrate,
            JoinCheck, SendCheck, SendInsert, SendSetLast, ReadCheck, ReadWrite

\* Inv is inductive.
LEMMA InvStep == Inv /\ [Next]_vars => Inv'
<1> SUFFICES ASSUME Inv, [Next]_vars PROVE Inv'
  OBVIOUS
<1>1. ASSUME TablesOK, SocketsStay, RequestsStay, blocks' \subseteq Users \X Users, available' \subseteq Products
      PROVE  Inv'
  BY <1>1 DEF TablesOK, SocketsStay, RequestsStay, Inv, Shapes
<1>2. ASSUME UNCHANGED <<conv, msg>> PROVE TablesOK
  BY <1>2, TablesUntouched
<1>3. ASSUME UNCHANGED <<conv, sockets>> PROVE SocketsStay
  BY <1>3, SocketsUntouched
<1>4. blocks \subseteq Users \X Users /\ available \subseteq Products /\ slot \in [Slots -> Request]
  BY DEF Inv, Shapes
<1>5. CASE UNCHANGED vars
  <2>1. RequestsStay
    BY <1>4, <1>5, StillOK, NoChangeGrows DEF vars, Inv, RequestsStay
  <2> QED BY <1>1, <1>2, <1>3, <1>4, <1>5, <2>1 DEF vars, sockets
<1>6. ASSUME NEW s \in Slots, Progress(s) PROVE Inv'
  BY <1>1, <1>4, <1>6, ProgressTables, ProgressSockets, ProgressRequests
<1>7. ASSUME NEW s \in Slots, NewRequest(s) PROVE Inv'
  <2>1. UNCHANGED <<tables, sockets>>
    BY <1>7 DEF NewRequest, createConversation, joinConversation, sendMessage, markRead, Arrive
  <2> QED BY <1>1, <1>2, <1>3, <1>4, <1>7, <2>1, NewRequests DEF tables
<1>8. ASSUME NEW s \in Slots, Abort(s) PROVE Inv'
  <2>1. Finish(s) /\ UNCHANGED <<tables, sockets>>
    BY <1>8 DEF Abort
  <2>2. RequestsStay
    BY <2>1, FinishOK, NoChangeGrows DEF RequestsStay, Inv, tables, sockets
  <2> QED BY <1>1, <1>2, <1>3, <1>4, <2>1, <2>2 DEF tables
<1>9. ASSUME UNCHANGED <<tables, slot>>, SocketsStay PROVE Inv'
  <2>1. Grows(socket, conv, msg, socket', conv', msg')
    BY <1>9 DEF SocketsStay, Grows, tables
  <2>2. RequestsStay
    BY <1>4, <1>9, <2>1, StillOK DEF RequestsStay, Inv, tables
  <2> QED BY <1>1, <1>2, <1>4, <1>9, <2>2 DEF tables
<1>10. ASSUME NEW k \in Sockets, handleDisconnect(k) PROVE Inv'
  BY <1>9, <1>10, DisconnectStays DEF handleDisconnect
<1>11. ASSUME NEW k \in Sockets, NEW u \in Users, handleConnection(k, u) PROVE Inv'
  BY <1>9, <1>11, ConnectStays DEF handleConnection
<1>12. ASSUME NEW c \in Pairs, NEW u \in c, NEW v \in c, blockUser(u, v) PROVE Inv'
  <2>1. u \in Users /\ v \in Users /\ blocks' = blocks \cup {<<u, v>>}
        /\ UNCHANGED <<conv, msg, available, sockets, slot>>
    BY <1>12, PairsAssumption DEF blockUser
  <2>2. RequestsStay
    BY <1>4, <2>1, StillOK, NoChangeGrows DEF RequestsStay, Inv, sockets
  <2> QED BY <1>1, <1>2, <1>3, <1>4, <2>1, <2>2
<1>13. ASSUME NEW c \in Pairs, NEW u \in c, NEW v \in c, unblockUser(u, v) PROVE Inv'
  <2>1. blocks' \subseteq blocks /\ UNCHANGED <<conv, msg, available, sockets>>
    BY <1>13 DEF unblockUser
  <2> QED BY <1>1, <1>2, <1>3, <1>4, <1>13, <2>1, UnblockRequests
<1>14. ASSUME NEW p \in Products, updateProductStatus(p) PROVE Inv'
  <2>1. available' \subseteq Products /\ UNCHANGED <<conv, msg, blocks, sockets, slot>>
    BY <1>4, <1>14 DEF updateProductStatus
  <2>2. RequestsStay
    BY <1>4, <2>1, StillOK, NoChangeGrows DEF RequestsStay, Inv, sockets
  <2> QED BY <1>1, <1>2, <1>3, <1>4, <2>1, <2>2
<1> QED BY <1>5, <1>6, <1>7, <1>8, <1>10, <1>11, <1>12, <1>13, <1>14 DEF Next

\* The server starts empty.
LEMMA InvInit == Init => Inv
<1> SUFFICES ASSUME Init PROVE Inv
  OBVIOUS
<1>1. Shapes
  <2>1. conv \in [Pairs -> Conversation]
    BY MsgsAssumption DEF Init, Conversation
  <2>2. msg \in [Ids -> Message]
    BY DEF Init, Message
  <2>3. socket \in [Sockets -> Connection] /\ registry \in [Users -> SUBSET Sockets]
    BY DEF Init, Connection
  <2>4. slot \in [Slots -> Request]
    BY IdleOK DEF Init
  <2> QED BY <2>1, <2>2, <2>3, <2>4 DEF Init, Shapes
<1>2. RequestsOK
  BY IdleOK DEF Init, RequestsOK
<1>3. MessagesOK
  <2>1. {m \in Ids : msg[m].sender # NoUser} = 1..0 /\ 0 \in 0..MaxMsgs
    BY MsgsAssumption DEF Init
  <2> QED BY <2>1 DEF Init, MessagesOK
<1>4. SocketsOK /\ RegistryExact /\ RoomsOnlyParticipants
  BY DEF Init, SocketsOK, RegistryExact, RoomsOnlyParticipants
<1> QED BY <1>1, <1>2, <1>3, <1>4 DEF Inv

\* Inv holds in every reachable state, whatever the sets and the bound.
THEOREM ChatInvariant == Spec => []Inv
  BY InvInit, InvStep, PTL DEF Spec

\* Type correctness: a request under way has a user and a conversation.
THEOREM TypeCorrect == Spec => []TypeOK
<1>1. Inv => TypeOK
  BY DEF Inv, Shapes, TypeOK, RequestsOK, RequestOK
<1> QED BY <1>1, ChatInvariant, PTL

\* Rooms hold live sockets of participants only, whichever handler joined them.
THEOREM RoomsArePrivate == Spec => []RoomsOnlyParticipants
<1>1. Inv => RoomsOnlyParticipants
  BY DEF Inv
<1> QED BY <1>1, ChatInvariant, PTL

\* ChatSocketRegistryService knows exactly the sockets that are up.
THEOREM RegistryIsExact == Spec => []RegistryExact
<1>1. Inv => RegistryExact
  BY DEF Inv
<1> QED BY <1>1, ChatInvariant, PTL

\* A request past its checks was free of blocks at some moment since it arrived.
THEOREM BlocksCutOff == Spec => []BlockCutsOff
<1>1. Inv => BlockCutsOff
  BY DEF Inv, RequestsOK, RequestOK, BlockCutsOff
<1> QED BY <1>1, ChatInvariant, PTL

\* Whoever writes or joins is a participant, and no sender marks his own message read.
THEOREM OnlyParticipantsAct == Spec => []ActorsAreParticipants
<1>1. Inv => ActorsAreParticipants
  BY DEF Inv, RequestsOK, RequestOK, ActorsAreParticipants
<1> QED BY <1>1, ChatInvariant, PTL

-----------------------------------------------------------------------------
(* The pointer to the last message *)

\* No conversation is between nobody.
LEMMA NoEmptyPair == {} \notin Pairs
<1>1. Cardinality({}) = 0
  BY FS_EmptySet
<1> QED BY <1>1, PairsAssumption

\* last_message_id stays within its conversation and, if nothing fails, is
\* missing only while the request that stored a message is about to set it.
LEMMA LastStep == Inv /\ LastMessageOfConversation /\ [Next]_vars => LastMessageOfConversation'
<1> SUFFICES ASSUME Inv, LastMessageOfConversation, [Next]_vars, NEW c \in Pairs
             PROVE  /\ conv'[c].last # 0 => msg'[conv'[c].last].pair = c
                    /\ conv'[c].last = 0 /\ ~Faults =>
                         \A m \in Ids : msg'[m].pair = c =>
                           \E s \in Slots : slot'[s].pc = "setLast" /\ slot'[s].msg = m
  BY DEF LastMessageOfConversation
<1> DEFINE Good == /\ conv'[c].last # 0 => msg'[conv'[c].last].pair = c
                   /\ conv'[c].last = 0 /\ ~Faults =>
                         \A m \in Ids : msg'[m].pair = c =>
                           \E s \in Slots : slot'[s].pc = "setLast" /\ slot'[s].msg = m
           Waits == \A s \in Slots : slot[s].pc = "setLast" =>
                      slot'[s].pc = "setLast" /\ slot'[s].msg = slot[s].msg
           SamePairs == \A m \in Ids : msg'[m].pair = msg[m].pair
<1>1. /\ Shapes /\ RequestsOK /\ MessagesOK
      /\ conv[c].last \in 0..MaxMsgs /\ (conv[c].last # 0 => conv[c].last \in Ids)
      /\ conv[c].last # 0 => msg[conv[c].last].pair = c
      /\ conv[c].last = 0 /\ ~Faults => \A m \in Ids : msg[m].pair = c =>
           \E s \in Slots : slot[s].pc = "setLast" /\ slot[s].msg = m
  BY MsgsAssumption DEF Inv, Shapes, Conversation, LastMessageOfConversation, Ids
<1>2. ASSUME conv'[c].last = conv[c].last, SamePairs, Waits \/ Faults PROVE Good
  BY <1>1, <1>2
<1>3. ASSUME NEW s \in Slots, NEW n, slot' = [slot EXCEPT ![s] = n], slot[s].pc # "setLast" PROVE Waits
  BY <1>1, <1>3 DEF Shapes
<1>4. ASSUME UNCHANGED msg PROVE SamePairs
  BY <1>4
<1>5. ASSUME UNCHANGED vars PROVE Good
  BY <1>2, <1>5 DEF vars
<1>6. ASSUME NEW s \in Slots, Progress(s) PROVE Good
  <2>0. RequestOK(slot[s], socket, conv, msg, blocks) /\ slot[s] \in Request
    BY <1>1 DEF RequestsOK, Shapes
  <2>1. ASSUME slot[s].pc # "setLast", Finish(s) \/ \E pc \in PC : Goto(s, pc) PROVE Waits
    BY <1>3, <2>1 DEF Finish, Goto
  <2>2. CASE CreateSetProduct(s)
    <3>1. conv'[c].last = conv[c].last
      BY <1>1, <2>2 DEF CreateSetProduct, Shapes, Conversation
    <3> QED BY <1>2, <1>4, <2>1, <2>2, <3>1 DEF CreateSetProduct, PC
  <2>3. CASE CreateInsert(s)
    <3>1. Waits
      BY <2>1, <2>3 DEF CreateInsert, Check, PC
    <3>2. CASE conv'[c] = conv[c]
      BY <1>2, <1>4, <2>3, <3>1, <3>2 DEF CreateInsert
    <3>3. CASE conv'[c] # conv[c]
      <4>1. conv'[c].last = 0 /\ ~conv[c].exists
        BY <1>1, <2>3, <3>3 DEF CreateInsert, Shapes
      <4>2. \A m \in Ids : msg'[m].pair # c
        BY <1>1, <2>3, <4>1, NoEmptyPair DEF CreateInsert, MessagesOK
      <4> QED BY <4>1, <4>2
    <3> QED BY <3>2, <3>3
  <2>4. CASE SendInsert(s)
    <3>1. NextMsg \in Ids /\ UNCHANGED conv /\ slot[s].pc = "insertMsg"
      BY <2>4 DEF SendInsert
    <3>2. msg[NextMsg].sender = NoUser
      BY <1>1, <3>1, NextIsFresh
    <3>3. msg[NextMsg].pair = {}
      BY <1>1, <3>1, <3>2 DEF MessagesOK
    <3>4. \A m \in Ids : m # NextMsg => msg'[m] = msg[m]
      BY <1>1, <2>4 DEF SendInsert, Shapes
    <3>5. slot' = [slot EXCEPT ![s] = [slot[s] EXCEPT !.pc = "setLast", !.msg = NextMsg]]
      BY <2>4 DEF SendInsert
    <3> PICK i \in Ids : i = NextMsg
      BY <3>1
    <3> HIDE DEF NextMsg
    <3>6. Waits /\ slot'[s].pc = "setLast" /\ slot'[s].msg = i
      BY <1>1, <2>0, <3>1, <3>5 DEF Shapes, Request
    <3>7. conv[c].last # i
      BY <1>1, <3>3, NoEmptyPair, MsgsAssumption DEF Ids
    <3>8. conv'[c].last # 0 => msg'[conv'[c].last].pair = c
      BY <1>1, <3>1, <3>4, <3>7
    <3>9. ASSUME conv'[c].last = 0, ~Faults, NEW m \in Ids, msg'[m].pair = c
          PROVE  \E r \in Slots : slot'[r].pc = "setLast" /\ slot'[r].msg = m
      <4>1. CASE m = i
        BY <3>6, <4>1
      <4>2. CASE m # i
        <5>1. PICK r \in Slots : slot[r].pc = "setLast" /\ slot[r].msg = m
          BY <1>1, <3>1, <3>4, <3>9, <4>2
        <5> QED BY <3>6, <5>1
      <4> QED BY <4>1, <4>2
    <3> QED BY <3>8, <3>9
  <2>5. CASE SendSetLast(s)
    <3>1. slot[s].msg \in Ids /\ msg[slot[s].msg].pair = slot[s].pair /\ UNCHANGED msg
      BY <2>0, <2>5 DEF SendSetLast, RequestOK, MessageThere
    <3>2. CASE slot[s].pair = c
      <4>1. conv'[c].last = slot[s].msg
        BY <1>1, <2>5, <3>2 DEF SendSetLast, Shapes, Conversation
      <4>2. slot[s].msg # 0
        BY <3>1, MsgsAssumption DEF Ids
      <4> QED BY <3>1, <3>2, <4>1, <4>2
    <3>3. CASE slot[s].pair # c
      <4>1. conv'[c] = conv[c]
        BY <1>1, <2>5, <3>3 DEF SendSetLast, Shapes
      <4>2. \A r \in Slots : slot[r].pc = "setLast" /\ r # s => slot'[r] = slot[r]
        BY <1>1, <2>5 DEF SendSetLast, Goto, Shapes
      <4>3. ASSUME conv'[c].last = 0, ~Faults, NEW m \in Ids, msg'[m].pair = c
            PROVE  \E r \in Slots : slot'[r].pc = "setLast" /\ slot'[r].msg = m
        <5>1. PICK r \in Slots : slot[r].pc = "setLast" /\ slot[r].msg = m
          BY <1>1, <3>1, <4>1, <4>3
        <5>2. r # s
          BY <3>1, <3>3, <4>3, <5>1
        <5> QED BY <4>2, <5>1, <5>2
      <4> QED BY <1>1, <3>1, <4>1, <4>3
    <3> QED BY <3>2, <3>3
  <2>6. CASE ReadWrite(s)
    <3>1. SamePairs
      BY <1>1, <2>6 DEF ReadWrite, Shapes, Message
    <3>2. Waits /\ UNCHANGED conv
      BY <2>1, <2>6 DEF ReadWrite, PC
    <3> QED BY <1>2, <3>1, <3>2
  <2>7. ASSUME UNCHANGED tables, slot[s].pc # "setLast", Finish(s) \/ \E pc \in PC : Goto(s, pc) PROVE Good
    BY <1>2, <1>4, <2>1, <2>7 DEF tables
  <2>8. CASE CreateCheck(s) \/ CreateProduct(s) \/ CreateSelect(s) \/ Hydrate(s)
    BY <2>7, <2>8 DEF CreateCheck, CreateProduct, CreateSelect, Hydrate, Check, PC
  <2>9. CASE JoinCheck(s) \/ SendCheck(s) \/ ReadCheck(s) \/ JoinAndEmit(s) \/ emitConversationJoinedToParticipants(s)
    BY <2>7, <2>9 DEF JoinCheck, SendCheck, ReadCheck, JoinAndEmit, emitConversationJoinedToParticipants, Check, PC
  <2> HIDE DEF Good
  <2> QED BY <1>6, <2>2, <2>3, <2>4, <2>5, <2>6, <2>8, <2>9 DEF Progress
<1>7. ASSUME NEW s \in Slots, NewRequest(s) PROVE Good
  <2>1. UNCHANGED tables
    BY <1>7 DEF NewRequest, createConversation, joinConversation, sendMessage, markRead, Arrive
  <2>2. slot[s].pc = "idle" /\ \E n : slot' = [slot EXCEPT ![s] = n]
    BY <1>7 DEF NewRequest, createConversation, joinConversation, sendMessage, markRead, Arrive
  <2>3. Waits
    BY <1>3, <2>2
  <2> QED BY <1>2, <1>4, <2>1, <2>3 DEF tables
<1>8. ASSUME NEW s \in Slots, Abort(s) PROVE Good
  BY <1>2, <1>4, <1>8 DEF Abort, tables
<1>9. ASSUME UNCHANGED <<conv, msg, slot>> PROVE Good
  BY <1>2, <1>4, <1>9
<1>10. ASSUME NEW d \in Pairs, NEW u \in d, NEW v \in d, unblockUser(u, v) PROVE Good
  <2>1. Waits
    BY <1>1, <1>10 DEF unblockUser, Shapes, Request
  <2> QED BY <1>2, <1>4, <1>10, <2>1 DEF unblockUser
<1>11. ASSUME NEW k \in Sockets, NEW u \in Users, handleConnection(k, u) PROVE Good
  <2>1. UNCHANGED <<conv, msg, slot>>
    BY <1>11 DEF handleConnection, tables
  <2> QED BY <1>9, <2>1
<1>12. ASSUME NEW k \in Sockets, handleDisconnect(k) PROVE Good
  <2>1. UNCHANGED <<conv, msg, slot>>
    BY <1>12 DEF handleDisconnect, tables
  <2> QED BY <1>9, <2>1
<1>13. ASSUME NEW d \in Pairs, NEW u \in d, NEW v \in d, blockUser(u, v) PROVE Good
  <2>1. UNCHANGED <<conv, msg, slot>>
    BY <1>13 DEF blockUser
  <2> QED BY <1>9, <2>1
<1>14. ASSUME NEW p \in Products, updateProductStatus(p) PROVE Good
  <2>1. UNCHANGED <<conv, msg, slot>>
    BY <1>14 DEF updateProductStatus
  <2> QED BY <1>9, <2>1
<1> HIDE DEF Good
<1>15. Good
  BY <1>5, <1>6, <1>7, <1>8, <1>10, <1>11, <1>12, <1>13, <1>14 DEF Next
<1> QED BY <1>15 DEF Good

\* last_message_id always names a message of its own conversation; without
\* failures it is never lost.
THEOREM LastMessageKept == Spec => []LastMessageOfConversation
<1>1. Init => LastMessageOfConversation
  <2> SUFFICES ASSUME Init, NEW c \in Pairs
               PROVE  conv[c].last = 0 /\ \A m \in Ids : msg[m].pair # c
    BY DEF LastMessageOfConversation
  <2>1. conv[c].last = 0 /\ \A m \in Ids : msg[m].pair = {}
    BY DEF Init
  <2> QED BY <2>1, NoEmptyPair
<1> QED BY <1>1, LastStep, ChatInvariant, PTL DEF Spec
=============================================================================
