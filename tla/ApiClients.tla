----------------------------- MODULE ApiClients -----------------------------
(***************************************************************************)
(* The programs that drive a running server: scripts/simulate-flows.ts     *)
(* with its virtual users, and src/dev/dev-seeder.ts.  Each runs its       *)
(* script one call at a time against MarketApi; between them, in any       *)
(* order, calls time out, are throttled, and arrive late.  The seeder may  *)
(* be interrupted and started again.                                       *)
(***************************************************************************)
EXTENDS MarketApi, SimulatorFlows, DevSeedScript

CONSTANTS VirtualUsers,   \* a sequence, the order of buildConcurrentUsers
          Tables,         \* the seeder's tables, by name
          Scenarios       \* which clients run, and what may go wrong

ASSUME ScenarioAssumption ==
  \A s \in Scenarios :
    /\ s.clients \subseteq {"main", "virtual", "seeder"} /\ s.tables \in DOMAIN Tables
    /\ {s.timeouts, s.throttles, s.crashes, s.reruns} \subseteq Nat /\ s.endless \in BOOLEAN

VARIABLES scenario,   \* one of Scenarios
          db,         \* the server's tables
          run,        \* runner -> where it is in its script
          net,        \* the faults still to come
          late        \* requests whose client has given up waiting

vars == <<scenario, db, run, net, late>>

VUs == ToSet(VirtualUsers)
Runners == VUs \cup {"main", "pair", "seeder"}

\* The virtual users have phones of their own, each a different one, and no
\* phone is the name of something else the programs keep.
ASSUME RunnersAssumption ==
  /\ {Alice, Bob} \subseteq People
  /\ VirtualUsers \in Seq(VUs) /\ VUs \cap {"main", "pair", "seeder"} = {}
  /\ VUs \subseteq People \ {Alice, Bob}
  /\ \A i, j \in DOMAIN VirtualUsers : VirtualUsers[i] = VirtualUsers[j] => i = j
  /\ \A u \in VUs : Session(u) \notin {Conversation, Message, BobSocket, Sockets, Product1, Product2}

\* simulate-flows: SIM_429_RETRY_ATTEMPTS, SIM_RETRY_ABORT_ATTEMPTS; dev-seeder: RETRY_ATTEMPTS
Retries429 == 1
AbortRetries == 2
RETRY_ATTEMPTS == 4

UserScripts == [u \in VUs |-> runConcurrentUserBaseline(u)]
PairScripts == [ab \in VUs \X VUs |-> runConcurrentChatPair(ab[1], ab[2])]
SeedScripts == [n \in DOMAIN Tables |-> runDevSeed(Tables[n])]
SeedWrites == [n \in DOMAIN Tables |-> Len(SeedPhases(Tables[n]))]
MainSteps == MainScript

\* How the seeder creates a row: it lists what is there, and creates what the
\* listing lacks.
Creates == {"createProduct", "createReport", "message.send"}
ListingOf(op) == CASE op = "createProduct" -> "listMyProducts"
                   [] op = "createReport" -> "getMyReports"
                   [] OTHER -> "listMessages"
Learns(step, name) == name \in step.save \/ \E f \in step.find : f[1] = name

\* Call i of script creates a row that call l has not found, in the listing of
\* the same owner; between them the program keeps what the call needs.
ListedFirst(script, l, i) ==
  /\ script[l].op = ListingOf(script[i].op) /\ script[l].row = script[i].row
  /\ script[i].op # "message.send" => script[l].by = script[i].by
  /\ script[l].expect = {200} /\ script[l].forgive = {} /\ script[l].lacks = {} /\ ~script[l].changes
  /\ script[l].needs \subseteq script[i].needs
  /\ \E name \in script[i].lacks : <<name, script[i].val>> \in script[l].find
  /\ \A j \in l .. i - 1, name \in script[i].needs : ~Learns(script[j], name)

\* Every row has one call that creates it, and that call its listing.
SeedsOnce(script) ==
  \A i \in DOMAIN script : script[i].op \in Creates =>
    /\ script[i].expect = {IF script[i].op = "message.send" THEN 200 ELSE 201}
    /\ script[i].op = "message.send" => script[i].row \in script[i].needs
    /\ \A j \in DOMAIN script : script[j].op = script[i].op /\ script[j].val = script[i].val => i = j
    /\ \E l \in 1 .. i - 1 : ListedFirst(script, l, i)

\* What the seeder keeps a product or a conversation under is its own name:
\* no product is renamed, and no message goes to another conversation.
SeedNames(script) ==
  \A i, j \in DOMAIN script :
    /\ script[i].op = "updateProduct" =>
         /\ script[i].val = script[i].row /\ script[i].row \in script[i].needs
         /\ script[i].row \in script[j].save =>
              \/ script[j].op = "require"
              \/ script[j].op = "createProduct" /\ script[j].val = script[i].row
         /\ \A f \in script[j].find : f[1] = script[i].row => script[j].op = "listMyProducts" /\ f[2] = f[1]
    /\ script[i].op = "message.send" =>
         /\ script[i].row \in script[j].save => script[j].op = "createConversation" /\ script[j].expect = {201}
         /\ \A f \in script[j].find : f[1] # script[i].row

\* A call that is made unless the program knows its row already.
Sure(step) ==
  /\ step.needs = {} /\ step.lacks \subseteq step.save /\ ~step.changes
  /\ step.expect = {201} /\ step.forgive = {} /\ \A name \in step.save : step.save = {name}

\* Call u sets the status of the row that call i creates.
RowCalls == {"createProduct", "createReport"}
StatusCallOf(op) == IF op = "createProduct" THEN "updateProductStatus" ELSE "updateReportStatus"
SetsStatus(script, u, i) ==
  /\ script[i].op \in RowCalls /\ script[u].op = StatusCallOf(script[i].op)
  /\ script[u].row \in script[i].save

\* Nothing else is kept under the name of a row than what its call creates, or
\* the listing before it shows.
SeedRows(script) ==
  \A i \in DOMAIN script : script[i].op \in RowCalls =>
    /\ Sure(script[i])
    /\ \A name \in script[i].save, j \in DOMAIN script :
         /\ name \in script[j].save => j = i \/ script[j].op = "require"
         /\ \A f \in script[j].find : f[1] = name =>
              /\ j < i /\ script[j].op = ListingOf(script[i].op) /\ script[j].by = script[i].by
              /\ f[2] = script[i].val

\* A row has one status to reach.
SeedStatuses(script) ==
  \A u \in DOMAIN script : script[u].op \in {"updateProductStatus", "updateReportStatus"} =>
    /\ script[u].needs = {script[u].row} /\ script[u].lacks = {}
    /\ script[u].expect = {200} /\ script[u].forgive = {}
    /\ \E i \in 1 .. u - 1 : SetsStatus(script, u, i)
    /\ \A v \in DOMAIN script :
         script[v].op = script[u].op /\ script[v].row = script[u].row => script[v].val = script[u].val

\* A conversation is that of one pair, and a message is taken as sent when the
\* history of its conversation has shown it.
SeedTalks(script) ==
  \A i \in DOMAIN script : script[i].op = "message.send" =>
    /\ script[i].needs = {script[i].row} /\ ~script[i].changes /\ script[i].forgive = {}
    /\ \A j \in DOMAIN script :
         /\ script[i].lacks \cap script[j].save = {}
         /\ \A f \in script[j].find : f[1] \in script[i].lacks =>
              /\ script[j].op = "listMessages" /\ f[2] = script[i].val
              /\ script[j].row = script[i].row /\ script[j].row \in script[j].needs
         /\ script[i].row \in script[j].save =>
              /\ Sure(script[j])
              /\ \A k \in DOMAIN script : script[i].row \in script[k].save =>
                   script[k].by = script[j].by /\ script[k].on = script[j].on

\* What the tables declare has its calls among the first w.
SeedDeclares(script, t, w) ==
  /\ w <= Len(script)
  /\ \A p \in 1 .. Len(t.products) : \E u \in 1 .. w : \E i \in 1 .. u - 1 :
       /\ SetsStatus(script, u, i) /\ script[i].op = "createProduct"
       /\ <<script[i].by, script[i].val, script[u].val>> = t.products[p]
  /\ \A p \in 1 .. Len(t.reports) : \E u \in 1 .. w : \E i \in 1 .. u - 1 :
       /\ SetsStatus(script, u, i) /\ script[i].op = "createReport"
       /\ <<script[i].by, script[i].on, script[i].val, script[u].val>> = t.reports[p]
  /\ \A c \in 1 .. Len(t.conversations), m \in 1 .. Len(t.messages) : \E i \in 1 .. w : \E j \in 1 .. i - 1 :
       /\ script[i].op = "message.send" /\ script[i].row \in script[j].save
       /\ <<script[j].by, script[j].on>> = t.conversations[c]
       /\ script[i].val = <<script[j].by, script[j].on, t.messages[m]>>
  /\ \A p \in 1 .. Len(t.targets) : \E u, v \in 1 .. w :
       /\ script[u].op = "updateUserStatus" /\ script[v].op = "createWarning"
       /\ <<script[u].on, script[u].val>> = t.targets[p] /\ script[v].on = t.targets[p][1]

\* The names of simulate-flows' own categories, and the calls that moderate an account.
SimCategories == {"SimParent", "SimLeaf"}
Moderations == {"updateUserStatus", "createWarning"}
Calls(script, op) == {i \in DOMAIN script : script[i].op = op}

\* Call g creates a child of the root category of that name, and only an
\* attempt whose call g has done so gets past the test h.
CreatesChild(script, g, h, root) ==
  /\ root \notin SimCategories \cup {"any"} /\ script[g].val # root
  /\ script[g].row \in script[g].needs /\ script[g].expect = {201}
  /\ script[h].needs = {} /\ script[h].lacks = {} /\ ~script[h].changes
  /\ \E name \in script[g].save : /\ script[g].save = {name} /\ script[h].save = {name}
               /\ \A j \in DOMAIN script : Learns(script[j], name) =>
                    j = g \/ (script[j].op = "require" /\ \A f \in script[j].find : f[1] # name)
  /\ \A j \in DOMAIN script :
       /\ script[g].row \in script[j].save =>
            \/ script[j].op = "require"
            \/ script[j].op = "createCategory" /\ script[j].val = root /\ script[j].expect = {201}
       /\ \A f \in script[j].find : f[1] = script[g].row => script[j].op = "listCategories" /\ f[2] = root
       /\ script[j].op = "createCategory" /\ script[j].val = root =>
            \A k \in DOMAIN script : ~Learns(script[k], script[j].row)

\* An account is moderated once, past h, as the status that listing l shows of it asks for.
Moderated(script, h, l, k) ==
  LET tp == script[k].on IN
  /\ h < l /\ l < k /\ tp \in People \ {Alice} /\ script[k].val \notin {"none", "active"}
  /\ script[k].needs = {script[k].row} /\ script[k].lacks = {}
  /\ script[k].expect = {IF script[k].op = "updateUserStatus" THEN 200 ELSE 201} /\ script[k].forgive = {}
  /\ \A j \in Calls(script, "updateUserStatus") : script[j].on = tp => script[j].val = script[k].val
  /\ \A j \in DOMAIN script : Learns(script[j], script[k].row) => j = l
  /\ script[k].row \notin script[l].save /\ <<script[k].row, tp>> \in script[l].find
  /\ \A f \in script[l].find : f[1] = script[k].row => f[2] = tp
  /\ \E v \in 1 .. l - 1 : script[v].op = "verifyRegistrationOtp" /\ Sure(script[v]) /\ script[v].save = {<<tp>>}
  /\ \A j \in DOMAIN script :
       /\ <<tp>> \in script[j].save => script[j].op \in {"login", "verifyRegistrationOtp"} /\ script[j].on = tp
                                       /\ script[j].expect = {201}
       /\ \A f \in script[j].find : f[1] # <<tp>>

ModeratesPast(script, g, h, l, root) ==
  /\ CreatesChild(script, g, h, root)
  /\ script[l].needs = {} /\ script[l].lacks = {} /\ ~script[l].changes
  /\ script[l].expect = {200} /\ script[l].forgive = {}
  /\ \A k \in DOMAIN script : script[k].op \in Moderations => Moderated(script, h, l, k)

\* Tables with accounts to moderate have a child category.
SeedModerates(script) ==
  (\E k \in DOMAIN script : script[k].op \in Moderations) =>
    \E r, g \in Calls(script, "createCategory"), h \in Calls(script, "require"), l \in Calls(script, "listUsers") :
      ModeratesPast(script, g, h, l, script[r].val)

\* What holds of the script of any tables: the seeder acts for users with
\* phones of their own, suspends only these, and deletes no product.
ASSUME SeedScriptAssumption ==
  \A n \in DOMAIN Tables :
    /\ SeedScripts[n] \in Seq(ToSet(SeedScripts[n]))
    /\ \A i \in DOMAIN SeedScripts[n] :
         /\ SeedScripts[n][i].by \notin VUs \cup {Alice, Bob}
         /\ SeedScripts[n][i].op # "deleteProduct"
         /\ SeedScripts[n][i].op = "updateProductStatus" => SeedScripts[n][i].val # "deleted"
         /\ SeedScripts[n][i].op = "updateUserStatus" =>
              SeedScripts[n][i].on # Alice /\ SeedScripts[n][i].val \in {"active", "paused", "banned"}
    /\ SeedsOnce(SeedScripts[n]) /\ SeedNames(SeedScripts[n])
    /\ SeedRows(SeedScripts[n]) /\ SeedStatuses(SeedScripts[n]) /\ SeedTalks(SeedScripts[n])
    /\ SeedModerates(SeedScripts[n])
    /\ SeedDeclares(SeedScripts[n], Tables[n], SeedWrites[n])

ScriptOf(r) ==
  CASE r = "main" -> MainSteps
    [] r = "seeder" -> SeedScripts[scenario.tables]
    [] r = "pair" -> PairScripts[run[r].who]
    [] OTHER -> UserScripts[r]
StepOf(r) == ScriptOf(r)[run[r].pc]

-----------------------------------------------------------------------------
(* A runner between two calls *)

Idle == [pc |-> 0, status |-> "idle", kept |-> Empty, password |-> "first", tries |-> 0, calls |-> 0,
         failures |-> {}, error |-> <<>>, who |-> <<>>]

\* The ifs around a call of the script.
Applies(step, kept) ==
  /\ step.needs \subseteq DOMAIN kept
  /\ step.lacks \cap DOMAIN kept = {}
  /\ step.changes => kept[step.row].status # step.val

\* A finished call: on to the next one that is made at all, or to the end.
Finished(x) == [x EXCEPT !.status = "next"]
Advance(x, script) ==
  LET rest == {i \in x.pc + 1 .. Len(script) : Applies(script[i], x.kept)} IN
  IF x.status # "next" THEN x
  ELSE IF rest = {} THEN [x EXCEPT !.status = "done"]
  ELSE [x EXCEPT !.status = "running", !.pc = CHOOSE i \in rest : \A j \in rest : i <= j,
                 !.tries = 0, !.calls = 0]

Begin(script, kept, who) ==
  Advance([Idle EXCEPT !.status = "next", !.kept = kept, !.who = who], script)

Fail(x, error) == [x EXCEPT !.status = "failed", !.error = error]

RowIn(x, name) == IF name \in DOMAIN x.kept THEN x.kept[name].id ELSE NoRow

\* What goes over the wire: the token and the ids the client has by now.
RequestOf(x, step) ==
  [op |-> step.op, on |-> step.on, id |-> RowIn(x, step.row), img |-> RowIn(x, step.img),
   by |-> IF <<step.by>> \in DOMAIN x.kept THEN step.by ELSE NoOne,
   val |-> IF step.op = "login" /\ step.val = "current" THEN x.password ELSE step.val,
   old |-> x.password]

\* The rows of a listing that are the one looked for; newest first.
Matches(x, step, key, rows) ==
  CASE step.op = "listFavorites" -> {row \in rows : row.id = x.kept[key].id}
    [] step.op = "listCategories" /\ key = "any" -> {Row(NoRow, "any", NoKey) : row \in rows}
    [] OTHER -> {row \in rows : row.key = key}

Newest(rows) == CHOOSE row \in rows : \A other \in rows : row = other \/ row.id[2] > other.id[2]

\* What the client keeps of an expected answer, beside what it has.
Learn(x, step, rows) ==
  LET found == {f \in step.find : Matches(x, step, f[2], rows) # {}}
      saved == IF rows = {} THEN {} ELSE step.save
      names == {f[1] : f \in found} IN
  [x EXCEPT !.kept = [n \in names \cup saved \cup DOMAIN @ |->
                        IF n \in names THEN Newest(Matches(x, step, (CHOOSE f \in found : f[1] = n)[2], rows))
                        ELSE IF n \in saved THEN Newest(rows) ELSE @[n]],
            !.password = IF step.op \in {"resetPassword", "changePassword"} THEN step.val ELSE @]

-----------------------------------------------------------------------------
(* What a client does with an answer; code 0 is a timeout *)

\* Mutant: the attempts of callWithRetry are not counted.
MutCallAgain(x) == [x EXCEPT !.tries = 0]

\* callWithRetry builds the call anew, so its 429 retries start over.
CallAgain(x) == [x EXCEPT !.tries = 0, !.calls = @ + 1]

\* apiCall with callWithRetry around it.  An error in a chat handler is not
\* acknowledged, and emitWithAck waits for as long as the socket lives.
apiCall(x, step, code, rows) ==
  LET expected == code \in step.expect
      noted == IF expected THEN Learn(x, step, rows)
               ELSE [x EXCEPT !.failures = @ \cup {<<step.op, code>>}] IN
  IF step.socket /\ ~expected /\ code # 0 THEN [x EXCEPT !.status = "hung"]
  ELSE IF code = 429 /\ ~expected /\ x.tries < Retries429 THEN [x EXCEPT !.tries = @ + 1]
  ELSE IF step.retry /\ code \in {0, 429} /\ x.calls < AbortRetries THEN CallAgain(noted)
  ELSE IF step.retry /\ expected /\ code = 429 THEN [x EXCEPT !.status = "skipped"]
  ELSE IF ~expected /\ step.fatal THEN Fail(noted, <<step.op, code>>)
  ELSE IF step.socket /\ ~expected
       THEN Finished([noted EXCEPT !.kept = [n \in DOMAIN @ \ {BobSocket, Sockets} |-> @[n]]])
  ELSE Finished(noted)

\* Mutant: one attempt too many.
MutAttemptsLeft(x) == x.tries < RETRY_ATTEMPTS

\* while (attempts < RETRY_ATTEMPTS)
AttemptsLeft(x) == x.tries + 1 < RETRY_ATTEMPTS

\* Mutant: a call that is out of attempts counts as answered.
MutGiveUp(x, step, code, rows) ==
  IF code \in step.expect THEN Finished(Learn(x, step, rows))
  ELSE IF code \in {0, 429} /\ step.retry /\ AttemptsLeft(x) THEN [x EXCEPT !.tries = @ + 1]
  ELSE IF code \in step.forgive \cup {0, 429} THEN Finished(x)
  ELSE Fail(x, <<step.op, code>>)

\* Mutant: the answers the callers expect to be refused are not caught.
MutNoCatch(x, step, code, rows) ==
  IF code \in step.expect THEN Finished(Learn(x, step, rows))
  ELSE IF code \in {0, 429} /\ step.retry /\ AttemptsLeft(x) THEN [x EXCEPT !.tries = @ + 1]
  ELSE Fail(x, <<step.op, code>>)

\* SeedApiClient.request and the catches around it.
request(x, step, code, rows) ==
  IF code \in step.expect THEN Finished(Learn(x, step, rows))
  ELSE IF code \in {0, 429} /\ step.retry /\ AttemptsLeft(x) THEN [x EXCEPT !.tries = @ + 1]
  ELSE IF code \in step.forgive THEN Finished(x)
  ELSE Fail(x, <<step.op, code>>)

Receive(r, code, rows) ==
  \E script \in {ScriptOf(r)} :
    \E x \in {IF r = "seeder" THEN request(run[r], script[run[r].pc], code, rows)
              ELSE apiCall(run[r], script[run[r].pc], code, rows)} :
      run' = [run EXCEPT ![r] = Advance(x, script)]

-----------------------------------------------------------------------------
(* Steps *)

Init ==
  /\ scenario \in Scenarios
  /\ db = NewDb
  /\ run = [r \in Runners |->
       CASE r = "main" /\ "main" \in scenario.clients -> Begin(MainSteps, Empty, <<>>)
         [] r = "seeder" /\ "seeder" \in scenario.clients -> Begin(SeedScripts[scenario.tables], Empty, <<>>)
         [] OTHER -> Idle]
  /\ net = [timeouts |-> scenario.timeouts, throttles |-> scenario.throttles,
            crashes |-> scenario.crashes, reruns |-> scenario.reruns]
  /\ late = {}

Calling(r) == run[r].status = "running" /\ StepOf(r).op # "require"

\* The request is served and the answer arrives.
Answered(r) ==
  /\ Calling(r)
  /\ \E answer \in {Serve(db, RequestOf(run[r], StepOf(r)))} :
       /\ db' = answer.db
       /\ Receive(r, answer.code, answer.rows)
  /\ UNCHANGED <<scenario, net, late>>

\* The throttler refuses before any handler runs; events are not throttled.
Throttled(r) ==
  /\ Calling(r) /\ ~StepOf(r).socket
  /\ net.throttles > 0
  /\ Receive(r, 429, {})
  /\ net' = IF scenario.endless THEN net ELSE [net EXCEPT !.throttles = @ - 1]
  /\ UNCHANGED <<scenario, db, late>>

\* The client aborts, or the connection breaks; the request may still be
\* on its way, or have been served already.
TimedOut(r) ==
  /\ Calling(r) /\ net.timeouts > 0
  /\ late' = late \cup {RequestOf(run[r], StepOf(r))}
  /\ Receive(r, 0, {})
  /\ net' = [net EXCEPT !.timeouts = @ - 1]
  /\ UNCHANGED <<scenario, db>>

\* The server gets to it after all; nobody reads the answer.
ServedLate ==
  \E q \in late :
    /\ db' = Serve(db, q).db
    /\ late' = late \ {q}
    /\ UNCHANGED <<scenario, run, net>>

\* A test of the program on what it has kept.
Checked(r) ==
  /\ run[r].status = "running" /\ StepOf(r).op = "require"
  /\ run' = [run EXCEPT ![r] = IF StepOf(r).save \cap DOMAIN @.kept # {} THEN Advance(Finished(@), ScriptOf(r))
                               ELSE Fail(@, <<"require", 0>>)]
  /\ UNCHANGED <<scenario, db, net, late>>

Stopped(r) == run[r].status \notin {"idle", "running"}

\* flow15_concurrentUsersAndChat: the virtual users, then the pairs.
StartVirtualUsers ==
  /\ "virtual" \in scenario.clients
  /\ "main" \in scenario.clients => run["main"].status = "done"
  /\ \A u \in VUs : run[u].status = "idle"
  /\ run' = [r \in Runners |-> IF r \in VUs THEN Begin(UserScripts[r], Empty, <<>>) ELSE run[r]]
  /\ UNCHANGED <<scenario, db, net, late>>

\* Positions of the virtual users with a token; the first two are the pair.
eligible == {i \in DOMAIN VirtualUsers : Session(VirtualUsers[i]) \in DOMAIN run[VirtualUsers[i]].kept}

StartPair ==
  /\ run["pair"].status = "idle"
  /\ \A u \in VUs : Stopped(u)
  /\ \E i, j \in eligible :
       /\ i < j /\ \A k \in eligible \ {i} : i < k /\ j <= k
       /\ LET a == VirtualUsers[i]  b == VirtualUsers[j] IN
            run' = [run EXCEPT !["pair"] =
                      Begin(PairScripts[<<a, b>>],
                            [n \in {Session(a), Session(b)} |-> run[n[1]].kept[n]], <<a, b>>)]
  /\ UNCHANGED <<scenario, db, net, late>>

\* The developer interrupts the seeder, and starts it again later.
Crash ==
  /\ run["seeder"].status = "running" /\ net.crashes > 0
  /\ run' = [run EXCEPT !["seeder"].status = "crashed"]
  /\ net' = [net EXCEPT !.crashes = @ - 1]
  /\ UNCHANGED <<scenario, db, late>>

Rerun ==
  /\ Stopped("seeder") /\ net.reruns > 0
  /\ run' = [run EXCEPT !["seeder"] = Begin(SeedScripts[scenario.tables], Empty, <<>>)]
  /\ net' = [net EXCEPT !.reruns = @ - 1]
  /\ UNCHANGED <<scenario, db, late>>

RunnerStep(r) == Answered(r) \/ Throttled(r) \/ TimedOut(r) \/ Checked(r)

Next ==
  \/ \E r \in Runners : RunnerStep(r)
  \/ ServedLate \/ StartVirtualUsers \/ StartPair \/ Crash \/ Rerun

Spec == Init /\ [][Next]_vars

-----------------------------------------------------------------------------
(* Properties *)

\* The clients' and the server's state stays in its domains: a client is at a
\* call of its own script, and counters of retries stay below their limits.
TypeOK ==
  /\ scenario \in Scenarios
  /\ \A r \in Runners :
       /\ run[r].status \in {"idle", "running", "done", "failed", "skipped", "hung", "crashed"}
       /\ run[r].pc \in 0 .. (IF run[r].status = "idle" THEN 0 ELSE Len(ScriptOf(r)))
       /\ run[r].tries \in 0 .. RETRY_ATTEMPTS - 1 /\ run[r].calls \in 0 .. AbortRetries
  /\ \A p \in People : db.status[p] \in {"none", "active", "paused", "banned"}
  /\ net.timeouts \in 0 .. scenario.timeouts /\ net.throttles \in 0 .. scenario.throttles
  /\ Cardinality(late) <= scenario.timeouts - net.timeouts

\* timeouts and throttled calls so far
TimeoutsSeen == scenario.timeouts - net.timeouts
ThrottlesSeen == IF scenario.endless THEN 2 ELSE scenario.throttles - net.throttles

\* simulate-flows: every expectation of the flows is met by the server as it
\* is, in every interleaving of the virtual users, beside a running seeder,
\* and although one call is throttled (apiCall waits and repeats it).
SimulatorPasses ==
  TimeoutsSeen = 0 /\ ThrottlesSeen <= 1 =>
    \A r \in Runners \ {"seeder"} : run[r].failures = {} /\ run[r].status \notin {"failed", "hung", "skipped"}

\* simulate-flows flow 12 bans alice and lifts the ban: a run that stops with
\* alice banned has reported the status call that failed.
BanIsReported ==
  Stopped("main") /\ db.status[Alice] = "banned" =>
    \E code \in {0, 429} : <<"updateUserStatus", code>> \in run["main"].failures

Keys(table) == {table[id].key : id \in DOMAIN table}
Copies(table, p, key) == Cardinality({id \in DOMAIN table : id[1] = p /\ table[id].key = key})

\* dev-seeder: the same records after a crash, a re-run, throttling: one
\* product of a name per owner, one report of a reason per reporter, each
\* message once.  Only a call that timed out may have doubled its row.
OneRowPerKey ==
  LET seen == 1 + TimeoutsSeen IN
  /\ \A id \in DOMAIN db.products : Copies(db.products, id[1], db.products[id].key) <= seen
  /\ \A id \in DOMAIN db.reports : Copies(db.reports, id[1], db.reports[id].key) <= seen
  /\ \A id \in DOMAIN db.messages : Copies(db.messages, id[1], db.messages[id].key) <= seen

\* What these tables declare is there.
ProductsDeclared(t) ==
  \A i \in 1 .. Len(t.products) : \E id \in DOMAIN db.products :
    id[1] = t.products[i][1] /\ db.products[id] = [key |-> t.products[i][2], status |-> t.products[i][3]]
ReportsDeclared(t) ==
  \A i \in 1 .. Len(t.reports) : \E id \in DOMAIN db.reports :
    /\ id[1] = t.reports[i][1]
    /\ db.reports[id] = [about |-> t.reports[i][2], key |-> t.reports[i][3], status |-> t.reports[i][4]]
MessagesDeclared(t) ==
  \A i \in 1 .. Len(t.conversations), m \in 1 .. Len(t.messages) :
    LET c == t.conversations[i] IN
    \E id \in DOMAIN db.messages : id[1] = {c[1], c[2]} /\ db.messages[id].key = <<c[1], c[2], t.messages[m]>>
TargetsDeclared(t) ==
  \A i \in 1 .. Len(t.targets) :
    /\ db.status[t.targets[i][1]] = t.targets[i][2]
    /\ \E id \in DOMAIN db.warnings : id[1] = t.targets[i][1]

\* dev-seeder: what one attempt has left out the next one makes up for.  When
\* the seeder is past its writing phases, the tables hold what it declares,
\* however often it was interrupted and whatever came late.
SeedConverges ==
  LET t == Tables[scenario.tables] IN
  run["seeder"].pc > SeedWrites[scenario.tables] =>
    ProductsDeclared(t) /\ ReportsDeclared(t) /\ MessagesDeclared(t) /\ TargetsDeclared(t)

\* Where a failed attempt of the seeder has stopped, by the tables and the rows
\* that are there: at a conversation across a block it has made itself, at the
\* filtered report listing behind the writing phases, at the registration of an
\* account it has suspended, at a child category that exists.
SeederStopped(op, code) == run["seeder"].status = "failed" /\ run["seeder"].error = <<op, code>>
AtBlockedPair ==
  LET t == Tables[scenario.tables] IN
  /\ SeederStopped("createConversation", 403)
  /\ \E d \in ToSet(t.blocks) : d \in db.blocks /\ ToSet(d) = {StepOf("seeder").by, StepOf("seeder").on}
AtFilter ==
  /\ SeederStopped("listReports", 400)
  /\ StepOf("seeder").val # NoVal /\ run["seeder"].pc > SeedWrites[scenario.tables]
AtSuspended ==
  /\ SeederStopped("register", 409)
  /\ <<StepOf("seeder").on, db.status[StepOf("seeder").on]>> \in ToSet(Tables[scenario.tables].targets)
AtChildCategory ==
  /\ SeederStopped("require", 0)
  /\ \E id \in db.categories : Len(id) > 1 /\ StepOf("seeder").save = {CategoryName(id[Len(id)])}

\* dev-seeder: with the network at rest, a first attempt writes everything
\* unless its tables block two users who talk, and a later attempt unless it
\* meets an account it has suspended or a child category; with tables that have
\* none of the three every attempt gets to the summary.
SeederFailsOnly ==
  TimeoutsSeen = 0 /\ ThrottlesSeen = 0 /\ run["seeder"].status = "failed" =>
    \/ AtBlockedPair \/ AtFilter
    \/ net.reruns < scenario.reruns /\ (AtSuspended \/ AtChildCategory)

\* dev-seeder: docs/development.md promises idempotent test data, and that
\* re-running updates or reuses seeded records.  A run that fails is made up
\* for by starting the seeder again; the last one does not fail.
DevSeedCompletes == run["seeder"].status = "failed" => net.reruns > 0

\* A later step, another of its attempts, or its end.
GetsOn(old, new) ==
  \/ new.status \in {"done", "failed", "skipped", "crashed"}
  \/ new.pc > old.pc
  \/ new.pc = old.pc /\ new.calls > old.calls
  \/ new.pc = old.pc /\ new.calls = old.calls /\ new.tries > old.tries

\* Both clients: no client retries for ever or waits for ever on a socket,
\* even if the throttler never lets up.  Whatever an answer is, it takes the
\* client to a later step, to another of its attempts, or to its end; no
\* event of the scripts is left unacknowledged.
ClientsGetOn ==
  [][\A r \in Runners : run'[r] # run[r] /\ run[r].status = "running" => GetsOn(run[r], run'[r])]_vars
=============================================================================
