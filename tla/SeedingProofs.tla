--------------------------- MODULE SeedingProofs ---------------------------
(***************************************************************************)
(* The seeder makes up for what its interrupted attempts have left out,    *)
(* for any tables, faults and re-runs: what each of its calls leaves done  *)
(* stays done, in the tables and in what it keeps of them.                 *)
(***************************************************************************)
EXTENDS ApiClientsProofs

-----------------------------------------------------------------------------
(* What one attempt of the seeder leaves out the next makes up for: the rows *)

\* A row that call i of the seeder creates, or would have.
IsRow(d, i, id) ==
  LET table == d[TableOf(Seeded[i].op)] IN
  id \in DOMAIN table /\ id[1] = Seeded[i].by /\ table[id].key = Seeded[i].val
Status(d, i, id) == d[TableOf(Seeded[i].op)][id].status

\* A message of call i, to the conversation that call j has opened.
Posts(i, j) ==
  /\ i \in DOMAIN Seeded /\ j \in DOMAIN Seeded /\ j < i
  /\ Seeded[i].op = "message.send" /\ Seeded[i].row \in Seeded[j].save
Sent(d, i, j) ==
  \E id \in DOMAIN d.messages : id[1] = {Seeded[j].by, Seeded[j].on} /\ d.messages[id].key = Seeded[i].val

\* A request sets the status its row is to reach, and reports whom the seeder reports.
Fitting(d, q) ==
  /\ \A i \in DOMAIN Seeded :
       Seeded[i].op = "createReport" /\ q.op = "createReport" /\ q.by # NoOne /\ q.by = Seeded[i].by /\ q.val = Seeded[i].val
         => q.on = Seeded[i].on
  /\ \A u, i \in DOMAIN Seeded : SetsStatus(Seeded, u, i) /\ q.op = Seeded[u].op /\ q.by # NoOne =>
       \/ q.op = "updateProductStatus" /\ q.by # Seeded[i].by
       \/ q.id \in DOMAIN d[TableOf(Seeded[i].op)] /\ (IsRow(d, i, q.id) => q.val = Seeded[u].val)

Reported(d) ==
  \A i \in DOMAIN Seeded : \A id : Seeded[i].op = "createReport" /\ IsRow(d, i, id) => d.reports[id].about = Seeded[i].on

\* Of kept rows: each is the row of its name, and has its last status if it had
\* it when it was read.
KeepsRows(d, kept) ==
  \A i \in DOMAIN Seeded, n \in DOMAIN kept : Seeded[i].op \in RowCalls /\ n \in Seeded[i].save =>
    /\ IsRow(d, i, kept[n].id)
    /\ \A u \in DOMAIN Seeded : SetsStatus(Seeded, u, i) /\ kept[n].status = Seeded[u].val =>
                                  Status(d, i, kept[n].id) = Seeded[u].val
KeepsChats(d, kept) ==
  \A i, j : Posts(i, j) =>
    /\ Seeded[i].row \in DOMAIN kept => kept[Seeded[i].row].id[1] = {Seeded[j].by, Seeded[j].on}
    /\ Seeded[i].lacks \cap DOMAIN kept # {} => Sent(d, i, j)

\* The first p calls have done what they are there for.
RowOps == RowCalls \cup {"createConversation", "verifyRegistrationOtp"}
Passed(d, kept, p) ==
  /\ \A j \in 1 .. p : Seeded[j].op \in RowOps /\ Sure(Seeded[j]) => Seeded[j].save \subseteq DOMAIN kept
  /\ \A u \in 1 .. p, i \in DOMAIN Seeded : SetsStatus(Seeded, u, i) /\ Seeded[u].row \in DOMAIN kept =>
       Status(d, i, kept[Seeded[u].row].id) = Seeded[u].val
  /\ \A i \in 1 .. p : \A j : Posts(i, j) /\ Seeded[i].row \in DOMAIN kept => Sent(d, i, j)

SeederHas(d, kept, p) == KeepsRows(d, kept) /\ KeepsChats(d, kept) /\ Passed(d, kept, p)

WInv ==
  /\ Reported(db) /\ \A q \in late : Fitting(db, q)
  /\ SeederHas(db, run["seeder"].kept, run["seeder"].pc - 1)

LEMMA SeedShape ==
  ASSUME CInv
  PROVE  /\ SeedRows(Seeded) /\ SeedStatuses(Seeded) /\ SeedTalks(Seeded) /\ SeedModerates(Seeded)
         /\ SeedDeclares(Seeded, Tables[scenario.tables], SeedWrites[scenario.tables])
<1> PICK n, s, w, t : n = scenario.tables /\ s = SeedScripts[n] /\ w = SeedWrites[n] /\ t = Tables[n]
  OBVIOUS
<1>1. n \in DOMAIN Tables /\ Seeded = s
  BY SeedFacts DEF Seeded
<1>2. SeedRows(s) /\ SeedStatuses(s) /\ SeedTalks(s) /\ SeedModerates(s) /\ SeedDeclares(s, t, w)
  BY <1>1, SeedScriptAssumption
<1> QED BY <1>1, <1>2

\* A row of the seeder's stays what it is, and its status is that of the last
\* request for it.
LEMMA RowStays ==
  ASSUME CInv, NEW d, TablesOK(d), NEW q, Proper(d, q), NEW e, e = Serve(d, q).db,
         NEW i \in DOMAIN Seeded, Seeded[i].op \in RowCalls, NEW id, id \in DOMAIN d[TableOf(Seeded[i].op)]
  PROVE  /\ IsRow(e, i, id) <=> IsRow(d, i, id)
         /\ id \in DOMAIN e[TableOf(Seeded[i].op)]
         /\ IsRow(d, i, id) =>
              /\ Seeded[i].op = "createReport" => e.reports[id].about = d.reports[id].about
              /\ \/ Status(e, i, id) = Status(d, i, id)
                 \/ /\ q.op = StatusCallOf(Seeded[i].op) /\ q.id = id /\ q.by # NoOne
                    /\ q.op = "updateProductStatus" => q.by = id[1]
                    /\ Status(e, i, id) = q.val
<1> PICK answer, step : answer = Serve(d, q) /\ step = Seeded[i]
  OBVIOUS
<1>0. step.by \notin {Alice, Bob}
  BY SeedFacts
<1>1. CASE step.op = "createProduct"
  <2>0. TableOf(step.op) = "products" /\ StatusCallOf(step.op) = "updateProductStatus"
    BY <1>1 DEF TableOf, StatusCallOf
  <2>1. /\ id \in DOMAIN e.products
        /\ Name("products", id[1], e.products[id].key) = Name("products", id[1], d.products[id].key)
    BY <2>0, ProductsStay
  <2>2. id[1] = step.by => e.products[id].key = d.products[id].key
    BY <1>0, <2>1 DEF Name
  <2>3. ASSUME id[1] = step.by
        PROVE  \/ e.products[id].status = d.products[id].status
               \/ /\ q.op = "updateProductStatus" /\ q.id = id /\ q.by # NoOne /\ q.by = id[1]
                  /\ e.products[id].status = q.val
    <3>1. CASE e.products = d.products
      BY <3>1
    <3>2. CASE ProductAdded(d, q, answer)
      BY <2>0, <3>2 DEF ProductAdded, Added
    <3>3. CASE ProductWritten(d, q, answer)
      <4>1. PICK key, status : /\ q.id \in DOMAIN d.products /\ q.id[1] = q.by /\ q.by # NoOne
                               /\ Rewrites(q, d.products[q.id], key, status)
                               /\ e.products = [d.products EXCEPT ![q.id] = [key |-> key, status |-> status]]
        BY <3>3 DEF ProductWritten
      <4>2. CASE id = q.id
        <5>1. e.products[id].status = status
          BY <4>1, <4>2
        <5>2. q.op # "deleteProduct"
          BY <1>0, <2>3, <4>1, <4>2 DEF Proper
        <5> QED BY <4>1, <4>2, <5>1, <5>2 DEF Rewrites
      <4>3. CASE id # q.id
        BY <4>1, <4>3
      <4> QED BY <4>2, <4>3
    <3> QED BY <3>1, <3>2, <3>3, ProductsServed
  <2> QED BY <1>1, <2>0, <2>1, <2>2, <2>3 DEF IsRow, Status
<1>2. CASE step.op = "createReport"
  <2>0. TableOf(step.op) = "reports" /\ StatusCallOf(step.op) = "updateReportStatus" /\ "reports" \in DOMAIN d
    BY <1>2 DEF TableOf, StatusCallOf, TablesOK, RowTables
  <2>1. id \in DOMAIN e.reports /\ e.reports[id].key = d.reports[id].key /\ e.reports[id].about = d.reports[id].about
    <3>1. CASE Kept(d.reports, e.reports, {"about", "key"})
      BY <2>0, <3>1 DEF Kept
    <3>2. CASE ReportAdded(d, q, answer)
      BY <2>0, <3>2 DEF ReportAdded, Added
    <3> QED BY <3>1, <3>2, ReportsServed
  <2>2. \/ e.reports[id].status = d.reports[id].status
        \/ q.op = "updateReportStatus" /\ q.id = id /\ q.by # NoOne /\ e.reports[id].status = q.val
    <3>1. CASE q.op = "updateReportStatus"
      <4>1. e = d \/ (q.by # NoOne /\ q.id \in DOMAIN d.reports /\ e = [d EXCEPT !.reports[q.id].status = q.val])
        BY <3>1 DEF Serve, Denied, Handle, Refuse, Reply, updateReportStatus, AuthPublic, OpenReads, OptionalReads
      <4>2. CASE q.by # NoOne /\ q.id \in DOMAIN d.reports /\ e = [d EXCEPT !.reports[q.id].status = q.val]
        <5>1. e.reports = [d.reports EXCEPT ![q.id].status = q.val]
          BY <2>0, <4>2
        <5>2. AReport(d.reports[q.id])
          BY <4>2 DEF TablesOK
        <5>3. [d.reports[q.id] EXCEPT !.status = q.val].status = q.val
          BY <5>2 DEF AReport
        <5> QED BY <2>0, <3>1, <4>2, <5>1, <5>3
      <4> QED BY <4>1, <4>2
    <3>2. CASE q.op = "createReport"
      <4>1. CASE answer.db = d
        BY <4>1
      <4>2. CASE ReportAdded(d, q, answer)
        BY <2>0, <4>2 DEF ReportAdded, Added
      <4>3. answer.db = d \/ answer.code = 201
        BY <3>2 DEF Serve, Handle, Refuse, Reply, createReport
      <4> QED BY <3>2, <4>1, <4>2, <4>3, ReportsServed
    <3>3. CASE q.op \notin {"createReport", "updateReportStatus"}
      <4>1. "reports" \notin Writes(q.op)
        BY <3>3 DEF Writes, OtherTables
      <4>2. e.reports = d.reports
        BY <2>0, <4>1, ServeTouches DEF Touches
      <4> QED BY <4>2
    <3> QED BY <3>1, <3>2, <3>3
  <2> QED BY <1>2, <2>0, <2>1, <2>2 DEF IsRow, Status
<1> QED BY <1>1, <1>2 DEF RowCalls

LEMMA StatusStays ==
  ASSUME CInv, NEW d, TablesOK(d), NEW q, Proper(d, q), Fitting(d, q), NEW e, e = Serve(d, q).db,
         NEW u \in DOMAIN Seeded, NEW i \in DOMAIN Seeded, SetsStatus(Seeded, u, i), NEW id, IsRow(d, i, id),
         Status(d, i, id) = Seeded[u].val
  PROVE  Status(e, i, id) = Seeded[u].val
<1>1. Seeded[i].op \in RowCalls /\ id \in DOMAIN d[TableOf(Seeded[i].op)] /\ id[1] = Seeded[i].by
      /\ Seeded[u].op = StatusCallOf(Seeded[i].op)
  BY DEF SetsStatus, IsRow
<1>2. \/ Status(e, i, id) = Status(d, i, id)
      \/ /\ q.op = StatusCallOf(Seeded[i].op) /\ q.id = id /\ q.by # NoOne
         /\ q.op = "updateProductStatus" => q.by = id[1]
         /\ Status(e, i, id) = q.val
  BY <1>1, RowStays
<1> QED BY <1>1, <1>2 DEF Fitting

\* Whatever is served, a request that fits before it fits after it.
LEMMA FittingStays ==
  ASSUME CInv, NEW d, TablesOK(d), NEW q, Proper(d, q), NEW e, e = Serve(d, q).db, NEW p, Fitting(d, p)
  PROVE  Fitting(e, p)
<1>1. ASSUME NEW u \in DOMAIN Seeded, NEW i \in DOMAIN Seeded, SetsStatus(Seeded, u, i), p.op = Seeded[u].op, p.by # NoOne,
             ~(p.op = "updateProductStatus" /\ p.by # Seeded[i].by)
      PROVE  p.id \in DOMAIN e[TableOf(Seeded[i].op)] /\ (IsRow(e, i, p.id) => p.val = Seeded[u].val)
  <2>1. p.id \in DOMAIN d[TableOf(Seeded[i].op)] /\ (IsRow(d, i, p.id) => p.val = Seeded[u].val)
    BY <1>1 DEF Fitting
  <2>2. Seeded[i].op \in RowCalls
    BY <1>1 DEF SetsStatus
  <2>3. (IsRow(e, i, p.id) <=> IsRow(d, i, p.id)) /\ p.id \in DOMAIN e[TableOf(Seeded[i].op)]
    BY <2>1, <2>2, RowStays
  <2> QED BY <2>1, <2>3
<1>2. \A u, i \in DOMAIN Seeded : SetsStatus(Seeded, u, i) /\ p.op = Seeded[u].op /\ p.by # NoOne =>
       \/ p.op = "updateProductStatus" /\ p.by # Seeded[i].by
       \/ p.id \in DOMAIN e[TableOf(Seeded[i].op)] /\ (IsRow(e, i, p.id) => p.val = Seeded[u].val)
  BY <1>1
<1>3. \A i \in DOMAIN Seeded :
       Seeded[i].op = "createReport" /\ p.op = "createReport" /\ p.by # NoOne /\ p.by = Seeded[i].by /\ p.val = Seeded[i].val
         => p.on = Seeded[i].on
  BY DEF Fitting
<1> QED BY <1>2, <1>3 DEF Fitting

LEMMA ReportedStays ==
  ASSUME CInv, NEW d, TablesOK(d), NEW q, Proper(d, q), Fitting(d, q), NEW e, e = Serve(d, q).db, Reported(d)
  PROVE  Reported(e)
<1> SUFFICES ASSUME NEW i \in DOMAIN Seeded, NEW id, Seeded[i].op = "createReport", IsRow(e, i, id)
             PROVE  e.reports[id].about = Seeded[i].on
  BY DEF Reported
<1> PICK answer : answer = Serve(d, q)
  OBVIOUS
<1>0. Seeded[i].op \in RowCalls /\ TableOf(Seeded[i].op) = "reports"
  BY DEF RowCalls, TableOf
<1>1. CASE id \in DOMAIN d.reports
  <2>1. (IsRow(e, i, id) <=> IsRow(d, i, id)) /\ (IsRow(d, i, id) => e.reports[id].about = d.reports[id].about)
    BY <1>0, <1>1, RowStays
  <2> QED BY <2>1 DEF Reported
<1>2. CASE id \notin DOMAIN d.reports
  <2>1. ~Kept(d.reports, e.reports, {"about", "key"})
    BY <1>0, <1>2 DEF Kept, IsRow
  <2>2. ReportAdded(d, q, answer)
    BY <2>1, ReportsServed
  <2>3. PICK new : /\ q.op = "createReport" /\ q.by # NoOne /\ new[1] = q.by
                   /\ Added(d.reports, e.reports, new, [about |-> q.on, key |-> q.val, status |-> "open"])
    BY <2>2 DEF ReportAdded
  <2>4. id = new /\ e.reports[id] = [about |-> q.on, key |-> q.val, status |-> "open"]
    BY <1>0, <1>2, <2>3 DEF Added, IsRow
  <2>5. q.by = Seeded[i].by /\ q.val = Seeded[i].val
    BY <1>0, <2>3, <2>4 DEF IsRow
  <2>6. q.on = Seeded[i].on
    BY <2>3, <2>5 DEF Fitting
  <2> QED BY <2>4, <2>6
<1> QED BY <1>1, <1>2

LEMMA SentStays ==
  ASSUME NEW d, TablesOK(d), NEW q, NEW e, e = Serve(d, q).db, NEW i, NEW j, Sent(d, i, j)
  PROVE  Sent(e, i, j)
<1> PICK answer : answer = Serve(d, q)
  OBVIOUS
<1>1. CASE Kept(d.messages, e.messages, {"by", "key"})
  BY <1>1 DEF Kept, Sent
<1>2. CASE MessageAdded(d, q, answer)
  BY <1>2 DEF MessageAdded, Added, Sent
<1> QED BY <1>1, <1>2, MessagesServed

\* What the seeder has, it has whatever is served.
LEMMA HasStays ==
  ASSUME CInv, NEW d, TablesOK(d), NEW q, Proper(d, q), Fitting(d, q), NEW e, e = Serve(d, q).db,
         NEW kept, NEW p \in Int, p <= Len(Seeded), SeederHas(d, kept, p)
  PROVE  SeederHas(e, kept, p)
<1>0. DOMAIN Seeded = 1 .. Len(Seeded) /\ Len(Seeded) \in Nat
  BY SeedFacts
<1>1. ASSUME NEW i \in DOMAIN Seeded, NEW n \in DOMAIN kept, Seeded[i].op \in RowCalls, n \in Seeded[i].save
      PROVE  /\ IsRow(d, i, kept[n].id) /\ IsRow(e, i, kept[n].id)
             /\ \A u \in DOMAIN Seeded : SetsStatus(Seeded, u, i) /\ Status(d, i, kept[n].id) = Seeded[u].val =>
                                           Status(e, i, kept[n].id) = Seeded[u].val
             /\ \A u \in DOMAIN Seeded : SetsStatus(Seeded, u, i) /\ kept[n].status = Seeded[u].val =>
                                           Status(e, i, kept[n].id) = Seeded[u].val
  <2> PICK id : id = kept[n].id
    OBVIOUS
  <2>1. IsRow(d, i, id) /\ \A u \in DOMAIN Seeded : SetsStatus(Seeded, u, i) /\ kept[n].status = Seeded[u].val =>
                                                      Status(d, i, id) = Seeded[u].val
    BY <1>1 DEF SeederHas, KeepsRows
  <2>2. id \in DOMAIN d[TableOf(Seeded[i].op)]
    BY <2>1 DEF IsRow
  <2>3. IsRow(e, i, id)
    BY <1>1, <2>1, <2>2, RowStays
  <2>4. \A u \in DOMAIN Seeded : SetsStatus(Seeded, u, i) /\ Status(d, i, id) = Seeded[u].val =>
                                   Status(e, i, id) = Seeded[u].val
    BY <2>1, StatusStays
  <2> QED BY <2>1, <2>3, <2>4
<1>2. KeepsRows(e, kept)
  BY <1>1 DEF KeepsRows
<1>3. \A i, j : Sent(d, i, j) => Sent(e, i, j)
  BY SentStays
<1>4. KeepsChats(e, kept)
  BY <1>3 DEF SeederHas, KeepsChats
<1>5. ASSUME NEW u \in 1 .. p, NEW i \in DOMAIN Seeded, SetsStatus(Seeded, u, i), Seeded[u].row \in DOMAIN kept
      PROVE  Status(e, i, kept[Seeded[u].row].id) = Seeded[u].val
  <2>1. Status(d, i, kept[Seeded[u].row].id) = Seeded[u].val
    BY <1>5 DEF SeederHas, Passed
  <2>2. u \in DOMAIN Seeded /\ Seeded[i].op \in RowCalls /\ Seeded[u].row \in Seeded[i].save
    BY <1>0, <1>5 DEF SetsStatus
  <2> QED BY <1>1, <1>5, <2>1, <2>2
<1>6. Passed(e, kept, p)
  BY <1>3, <1>5 DEF SeederHas, Passed
<1> QED BY <1>2, <1>4, <1>6 DEF SeederHas

LEMMA CallFits ==
  ASSUME CInv, SInv, KeepsRows(db, run["seeder"].kept), NEW r \in Runners, run[r].status = "running",
         NEW q, q = RequestOf(run[r], StepOf(r))
  PROVE  Fitting(db, q)
<1> PICK x, step : x = run[r] /\ step = StepOf(r)
  OBVIOUS
<1>0. Chats /\ step.needs \subseteq DOMAIN x.kept
  BY DEF SInv, Needing
<1>1. /\ q.op = step.op /\ q.id = RowIn(x, step.row) /\ q.by \in {step.by, NoOne} /\ q.on = step.on
      /\ q.op # "login" => q.val = step.val
  BY DEF RequestOf
<1>2. \A i \in DOMAIN Seeded : Seeded[i].by \notin {Alice, Bob}
  BY SeedFacts
<1>3. \A u, i : SetsStatus(Seeded, u, i) => Seeded[u].op \in {"updateProductStatus", "updateReportStatus"}
  BY DEF SetsStatus, StatusCallOf
<1>4. CASE r = "main"
  <2>1. Trades(step)
    BY <1>0, <1>4, TradesOf
  <2>2. step.op = "createReport" => step.by = Bob
    BY <2>1 DEF Trades
  <2>3. step.op = "updateProductStatus" => step.by = Alice
    BY <2>1 DEF Trades
  <2>4. step.op # "updateReportStatus"
    BY <2>1 DEF Trades
  <2> QED BY <1>1, <1>2, <1>3, <2>2, <2>3, <2>4 DEF Fitting
<1>5. CASE r = "pair" \/ r \in VUs
  <2>1. step.op \notin {"createReport", "updateProductStatus", "updateReportStatus"}
    BY <1>0, <1>5, TradesOf DEF Chatting, TradeOps
  <2> QED BY <1>1, <1>3, <2>1 DEF Fitting
<1>6. CASE r = "seeder"
  <2> PICK v : v = x.pc
    OBVIOUS
  <2>1. v \in DOMAIN Seeded /\ step = Seeded[v] /\ SeedsOnce(Seeded) /\ SeedRows(Seeded) /\ SeedStatuses(Seeded)
        /\ DOMAIN Seeded = 1 .. Len(Seeded) /\ Len(Seeded) \in Nat
    BY <1>0, <1>6, TradesOf, SeedFacts, SeedShape
  <2>2. ASSUME NEW i \in DOMAIN Seeded, Seeded[i].op = "createReport", q.op = "createReport", q.val = Seeded[i].val
        PROVE  q.on = Seeded[i].on
    <3>1. i = v
      BY <1>1, <2>1, <2>2 DEF SeedsOnce, Creates
    <3> QED BY <1>1, <2>1, <3>1
  <2>3. ASSUME NEW u \in DOMAIN Seeded, NEW i \in DOMAIN Seeded, SetsStatus(Seeded, u, i), q.op = Seeded[u].op
        PROVE  q.id \in DOMAIN db[TableOf(Seeded[i].op)] /\ (IsRow(db, i, q.id) => q.val = Seeded[u].val)
    <3>1. step.op \in {"updateProductStatus", "updateReportStatus"} /\ step.op = Seeded[u].op
      BY <1>1, <1>3, <2>3
    <3>2. step.needs = {step.row} /\ \E j \in 1 .. v - 1 : SetsStatus(Seeded, v, j)
      BY <2>1, <3>1 DEF SeedStatuses
    <3>3. PICK j \in 1 .. v - 1 : SetsStatus(Seeded, v, j)
      BY <3>2
    <3>4. j \in DOMAIN Seeded
      BY <2>1
    <3>5. step.row \in DOMAIN x.kept /\ q.id = x.kept[step.row].id
      BY <1>0, <1>1, <3>2 DEF RowIn
    <3>6. /\ Seeded[j].op \in RowCalls /\ Seeded[i].op \in RowCalls /\ step.row \in Seeded[j].save
          /\ Seeded[u].row \in Seeded[i].save
          /\ StatusCallOf(Seeded[j].op) = step.op /\ StatusCallOf(Seeded[i].op) = step.op
      BY <2>1, <2>3, <3>1, <3>3 DEF SetsStatus
    <3>7. Seeded[i].op = Seeded[j].op
      BY <3>6 DEF StatusCallOf, RowCalls
    <3>8. IsRow(db, j, q.id)
      BY <1>6, <3>4, <3>5, <3>6 DEF KeepsRows
    <3>9. q.id \in DOMAIN db[TableOf(Seeded[i].op)]
      BY <3>7, <3>8 DEF IsRow
    <3>10. ASSUME IsRow(db, i, q.id)
           PROVE  q.val = Seeded[u].val
      <4>1. Seeded[i].val = Seeded[j].val
        BY <3>7, <3>8, <3>10 DEF IsRow
      <4>2. i = j
        BY <2>1, <3>4, <3>6, <3>7, <4>1 DEF SeedsOnce, RowCalls, Creates
      <4>3. step.row = Seeded[u].row
        BY <2>1, <3>6, <4>2 DEF SeedRows, Sure
      <4>4. step.val = Seeded[u].val
        BY <2>1, <3>1, <4>3 DEF SeedStatuses
      <4> QED BY <1>1, <3>1, <4>4
    <3> QED BY <3>9, <3>10
  <2> QED BY <2>2, <2>3 DEF Fitting
<1> QED BY <1>4, <1>5, <1>6, RunnerNames

-----------------------------------------------------------------------------
(* What an answer adds to what the seeder knows *)

\* What is found in a listing of the caller's rows is one of them, as it is.
LEMMA FoundRow ==
  ASSUME NEW d, TablesOK(d), NEW op \in RowCalls, NEW q, q.op = ListingOf(op), NEW answer, answer = Serve(d, q),
         NEW found, found # {}, found \subseteq answer.rows,
         NEW table, table = d[TableOf(op)], NEW value, value = Newest(found)
  PROVE  /\ value \in found /\ answer.db = d /\ value.id \in DOMAIN table /\ value.id[1] = q.by
         /\ value.key = table[value.id].key /\ value.status = table[value.id].status
<1>1. \A row \in found : row \in answer.rows
  OBVIOUS
<1> DEFINE mine == {i \in DOMAIN table : (op = "createProduct" => Visible(d, i)) /\ i[1] = q.by}
           shown(id) == Row(id, table[id].key, table[id].status)
<1>2. answer.db = d /\ answer.rows = {shown(id) : id \in mine}
  <2>1. CASE op = "createProduct"
    <3>1. q.op = "listMyProducts" /\ table = d.products
      BY <2>1 DEF ListingOf, TableOf
    <3>2. answer = Refuse(d, 401)
          \/ answer = Reply(d, 200, {ProductRow(d, id) : id \in {i \in DOMAIN d.products : Visible(d, i) /\ i[1] = q.by}})
      BY <3>1 DEF Serve, Denied, Handle, listMyProducts, AuthPublic, OpenReads, OptionalReads, AdminRoutes
    <3>3. answer.rows # {}
      BY <1>1
    <3>4. answer.db = d
          /\ answer.rows = {ProductRow(d, id) : id \in {i \in DOMAIN d.products : Visible(d, i) /\ i[1] = q.by}}
      BY <3>2, <3>3 DEF Refuse, Reply
    <3>5. mine = {i \in DOMAIN d.products : Visible(d, i) /\ i[1] = q.by}
      BY <2>1, <3>1
    <3>6. \A id : shown(id) = ProductRow(d, id)
      BY <3>1 DEF ProductRow
    <3> HIDE DEF mine, shown
    <3> QED BY <3>4, <3>5, <3>6
  <2>2. CASE op = "createReport"
    <3>1. q.op = "getMyReports" /\ table = d.reports
      BY <2>2 DEF ListingOf, TableOf
    <3>2. answer = Refuse(d, 401)
          \/ answer = Reply(d, 200, {Row(id, d.reports[id].key, d.reports[id].status) :
                                       id \in {i \in DOMAIN d.reports : i[1] = q.by}})
      BY <3>1 DEF Serve, Denied, Handle, getMyReports, AuthPublic, OpenReads, OptionalReads, AdminRoutes
    <3>3. answer.rows # {}
      BY <1>1
    <3>4. answer.db = d /\ answer.rows = {Row(id, d.reports[id].key, d.reports[id].status) :
                                            id \in {i \in DOMAIN d.reports : i[1] = q.by}}
      BY <3>2, <3>3 DEF Refuse, Reply
    <3>5. mine = {i \in DOMAIN d.reports : i[1] = q.by}
      BY <2>2, <3>1
    <3> QED BY <3>1, <3>4, <3>5
  <2> QED BY <2>1, <2>2 DEF RowCalls
<1>3. \A id : shown(id).id = id /\ shown(id).key = table[id].key /\ shown(id).status = table[id].status
  BY DEF Row
<1> PICK B : B = Cardinality(RowsOf(table, q.by))
  OBVIOUS
<1>4. B \in Nat /\ \A id \in mine : id = <<q.by, id[2]>> /\ id[2] \in 1 .. B
  <2>1. RowsOf(table, q.by) \subseteq DOMAIN table /\ Numbered(table)
    BY DEF RowsOf, TablesOK, TableOf, RowCalls
  <2>2. B \in Nat
    BY <2>1, FS_Subset, FS_CardinalityType DEF Numbered
  <2> QED BY <2>1, <2>2 DEF Numbered
<1>5. ASSUME NEW row \in found
      PROVE  row.id \in mine /\ row = shown(row.id)
  <2> HIDE DEF mine, shown
  <2> QED BY <1>1, <1>2, <1>3
<1>6. Newest(found) \in found
  <2>1. \A row \in found : row.id[2] \in 1 .. B
    BY <1>4, <1>5
  <2>2. ASSUME NEW row \in found, NEW other \in found, row.id[2] = other.id[2]
        PROVE  row = other
    <3>1. row.id = other.id
      BY <1>4, <1>5, <2>2
    <3> QED BY <1>5, <3>1
  <2> QED BY <1>4, <2>1, <2>2, NewestOf
<1>7. value.id \in mine /\ value = shown(value.id) /\ value \in found
  BY <1>5, <1>6
<1>8. value.key = table[value.id].key /\ value.status = table[value.id].status
  <2> HIDE DEF shown, mine
  <2> QED BY <1>3, <1>7
<1> QED BY <1>2, <1>7, <1>8

\* A row that has been created is the caller's, as asked for.
LEMMA RowMade ==
  ASSUME NEW d, TablesOK(d), NEW q, q.op \in RowCalls, NEW answer, answer = Serve(d, q), answer.code = 201,
         NEW table, table = answer.db[TableOf(q.op)]
  PROVE  \E id : /\ answer.rows = {Row(id, q.val, table[id].status)} /\ q.by # NoOne /\ id[1] = q.by
                 /\ id \in DOMAIN table /\ table[id].key = q.val
<1>1. CASE q.op = "createProduct"
  <2>1. table = answer.db.products
    BY <1>1 DEF TableOf
  <2>2. ~ProductWritten(d, q, answer)
    BY <1>1 DEF ProductWritten
  <2>3. ProductAdded(d, q, answer)
    BY <1>1, <2>2, ProductsServed
  <2> QED BY <2>1, <2>3 DEF ProductAdded, Added
<1>2. CASE q.op = "createReport"
  <2>1. table = answer.db.reports
    BY <1>2 DEF TableOf
  <2>2. ReportAdded(d, q, answer)
    BY <1>2, ReportsServed
  <2> QED BY <2>1, <2>2 DEF ReportAdded, Added
<1> QED BY <1>1, <1>2 DEF RowCalls

LEMMA RowsLearnt ==
  ASSUME CInv, NEW d, TablesOK(d), NEW x, NEW v \in DOMAIN Seeded, NEW step, step = Seeded[v], step.op # "require",
         NEW q, q = RequestOf(x, step), NEW answer, answer = Serve(d, q), NEW e, e = answer.db,
         NEW y, KeptAfter(x, y, step, answer.code, answer.rows), KeepsRows(e, x.kept)
  PROVE  KeepsRows(e, y.kept)
<1>0. SeedRows(Seeded) /\ \A i \in DOMAIN Seeded : Seeded[i].by \notin {Alice, Bob}
  BY SeedShape, SeedFacts
<1>1. /\ q.op = step.op /\ q.by \in {step.by, NoOne} /\ (step.op # "login" => q.val = step.val)
  BY DEF RequestOf
<1> SUFFICES ASSUME NEW i \in DOMAIN Seeded, NEW n \in DOMAIN y.kept, Seeded[i].op \in RowCalls, n \in Seeded[i].save
             PROVE  /\ IsRow(e, i, y.kept[n].id)
                    /\ \A u \in DOMAIN Seeded : SetsStatus(Seeded, u, i) /\ y.kept[n].status = Seeded[u].val =>
                                                  Status(e, i, y.kept[n].id) = Seeded[u].val
  BY DEF KeepsRows
<1> PICK table : table = e[TableOf(Seeded[i].op)]
  OBVIOUS
<1>2. CASE n \in DOMAIN x.kept /\ y.kept[n] = x.kept[n]
  BY <1>2 DEF KeepsRows
<1>3. CASE answer.code \in step.expect /\ n \in step.save /\ answer.rows # {} /\ y.kept[n] = Newest(answer.rows)
  <2>1. v = i /\ answer.code = 201
    BY <1>0, <1>3 DEF SeedRows, Sure
  <2>2. PICK id : /\ answer.rows = {Row(id, q.val, table[id].status)} /\ q.by # NoOne /\ id[1] = q.by
                  /\ id \in DOMAIN table /\ table[id].key = q.val
    BY <1>1, <2>1, RowMade
  <2>3. y.kept[n] = Row(id, q.val, table[id].status)
    <3> PICK row : row = Row(id, q.val, table[id].status)
      OBVIOUS
    <3>1. Newest({row}) = row
      BY NewestOne
    <3> QED BY <1>3, <2>2, <3>1
  <2>4. y.kept[n].id = id /\ y.kept[n].status = table[id].status
    BY <2>3 DEF Row
  <2>5. q.by = Seeded[i].by /\ q.val = Seeded[i].val
    BY <1>1, <2>1, <2>2 DEF RowCalls
  <2> QED BY <2>2, <2>4, <2>5 DEF IsRow, Status
<1>4. CASE answer.code \in step.expect /\ Found(x, step, n, answer.rows, y.kept[n])
  <2>1. PICK f \in step.find : /\ f[1] = n /\ Matches(x, step, f[2], answer.rows) # {}
                               /\ y.kept[n] = Newest(Matches(x, step, f[2], answer.rows))
    BY <1>4 DEF Found
  <2>2. step.op = ListingOf(Seeded[i].op) /\ step.by = Seeded[i].by /\ f[2] = Seeded[i].val
    BY <1>0, <2>1 DEF SeedRows
  <2> PICK id, value, found, op, key : /\ value = y.kept[n] /\ id = value.id /\ op = Seeded[i].op /\ key = f[2]
                                       /\ found = Matches(x, step, key, answer.rows)
    OBVIOUS
  <2>3. /\ e = d /\ id \in DOMAIN table /\ id[1] = q.by /\ table[id].key = key
        /\ value.status = table[id].status
    <3>1. found # {} /\ value = Newest(found) /\ q.op = ListingOf(op) /\ step.op = ListingOf(op) /\ op \in RowCalls
      BY <1>1, <2>1, <2>2
    <3>2. PICK old : old = d[TableOf(op)]
      OBVIOUS
    <3>3. \A row \in found : row \in answer.rows /\ row.key = key
      BY <3>1 DEF Matches, ListingOf, RowCalls
    <3>4. /\ value \in found /\ answer.db = d /\ value.id \in DOMAIN old /\ value.id[1] = q.by
          /\ value.key = old[value.id].key /\ value.status = old[value.id].status
      BY <3>1, <3>2, <3>3, FoundRow
    <3> QED BY <3>2, <3>3, <3>4
  <2>4. q.by # NoOne
    <3>1. answer.rows # {} /\ q.op \in {"listMyProducts", "getMyReports"}
      BY <1>1, <2>1, <2>2 DEF Matches, ListingOf, RowCalls
    <3> QED BY <3>1 DEF Serve, Denied, Refuse, Reply, AuthPublic, OpenReads, OptionalReads
  <2> QED BY <1>1, <2>2, <2>3, <2>4 DEF IsRow, Status
<1> QED BY <1>2, <1>3, <1>4 DEF KeptAfter

\* A message of a history is one of the conversation's.
LEMMA HistoryShows ==
  ASSUME NEW d, NEW q, q.op = "listMessages", NEW answer, answer = Serve(d, q), NEW row \in answer.rows
  PROVE  answer.db = d /\ \E id \in DOMAIN d.messages : id[1] = q.id[1] /\ d.messages[id].key = row.key
<1>1. answer = Refuse(d, Denied(q)) \/ answer = listMessages(d, q)
  BY DEF Serve, Handle
<1>2. \/ answer.rows = {}
      \/ answer = Reply(d, 200, {Row(id, d.messages[id].key, NoKey) : id \in {i \in DOMAIN d.messages : i[1] = q.id[1]}})
  BY <1>1 DEF listMessages, InConversation, Refuse, Reply
<1>3. answer.db = d /\ answer.rows = {Row(id, d.messages[id].key, NoKey) : id \in {i \in DOMAIN d.messages : i[1] = q.id[1]}}
  BY <1>2 DEF Reply
<1>4. PICK id \in DOMAIN d.messages : id[1] = q.id[1] /\ row = Row(id, d.messages[id].key, NoKey)
  BY <1>3
<1> QED BY <1>3, <1>4 DEF Row

LEMMA ChatsLearnt ==
  ASSUME CInv, NEW d, TablesOK(d), NEW x, NEW v \in DOMAIN Seeded, NEW step, step = Seeded[v],
         step.needs \subseteq DOMAIN x.kept, NEW q, q = RequestOf(x, step), NEW answer, answer = Serve(d, q),
         NEW e, e = answer.db, NEW y, KeptAfter(x, y, step, answer.code, answer.rows), KeepsChats(e, x.kept)
  PROVE  KeepsChats(e, y.kept)
<1>0. SeedTalks(Seeded) /\ SeedNames(Seeded)
  BY SeedShape, SeedFacts
<1>1. q.op = step.op /\ q.by \in {step.by, NoOne} /\ q.on = step.on /\ q.id = RowIn(x, step.row)
  BY DEF RequestOf
<1> SUFFICES ASSUME NEW i, NEW j, Posts(i, j)
             PROVE  /\ Seeded[i].row \in DOMAIN y.kept => y.kept[Seeded[i].row].id[1] = {Seeded[j].by, Seeded[j].on}
                    /\ Seeded[i].lacks \cap DOMAIN y.kept # {} => Sent(e, i, j)
  BY DEF KeepsChats
<1> PICK n : n = Seeded[i].row
  OBVIOUS
<1>2. i \in DOMAIN Seeded /\ j \in DOMAIN Seeded /\ Seeded[i].op = "message.send" /\ n \in Seeded[j].save
  BY DEF Posts
<1>3. ASSUME n \in DOMAIN y.kept
      PROVE  y.kept[n].id[1] = {Seeded[j].by, Seeded[j].on}
  <2>1. CASE n \in DOMAIN x.kept /\ y.kept[n] = x.kept[n]
    BY <2>1 DEF KeepsChats
  <2>2. CASE answer.code \in step.expect /\ n \in step.save /\ answer.rows # {} /\ y.kept[n] = Newest(answer.rows)
    <3>1. q.op = "createConversation" /\ answer.code = 201
      BY <1>0, <1>1, <1>2, <2>2 DEF SeedNames
    <3> PICK row : row = Row(<<{q.by, q.on}, 0>>, "conversation", NoKey)
      OBVIOUS
    <3>2. q.by # NoOne /\ answer.rows = {row}
      BY <3>1, ConversationsServed DEF Conversing
    <3>3. y.kept[n] = row
      BY <2>2, <3>2, NewestOne
    <3>4. y.kept[n].id[1] = {q.by, q.on}
      BY <3>3 DEF Row
    <3>5. step.by = Seeded[j].by /\ step.on = Seeded[j].on
      BY <1>0, <1>2, <2>2 DEF SeedTalks
    <3> QED BY <1>1, <3>2, <3>4, <3>5
  <2>3. ~Found(x, step, n, answer.rows, y.kept[n])
    BY <1>0, <1>2 DEF Found, SeedNames
  <2> QED BY <1>3, <2>1, <2>2, <2>3 DEF KeptAfter
<1>4. ASSUME NEW name \in Seeded[i].lacks, name \in DOMAIN y.kept
      PROVE  Sent(e, i, j)
  <2>1. CASE name \in DOMAIN x.kept
    BY <1>4, <2>1 DEF KeepsChats
  <2>2. name \notin step.save
    BY <1>0, <1>2, <1>4 DEF SeedTalks
  <2>3. CASE Found(x, step, name, answer.rows, y.kept[name])
    <3>1. PICK f \in step.find : f[1] = name /\ Matches(x, step, f[2], answer.rows) # {}
      BY <2>3 DEF Found
    <3>2. step.op = "listMessages" /\ f[2] = Seeded[i].val /\ step.row = n /\ n \in DOMAIN x.kept
      BY <1>0, <1>2, <1>4, <3>1 DEF SeedTalks
    <3>3. PICK row \in answer.rows : row.key = Seeded[i].val
      BY <3>1, <3>2 DEF Matches
    <3>4. e = d /\ \E id \in DOMAIN d.messages : id[1] = q.id[1] /\ d.messages[id].key = row.key
      BY <1>1, <3>2, HistoryShows
    <3>5. q.id[1] = {Seeded[j].by, Seeded[j].on}
      BY <1>1, <3>2 DEF RowIn, KeepsChats
    <3> QED BY <3>3, <3>4, <3>5 DEF Sent
  <2> QED BY <1>4, <2>1, <2>2, <2>3 DEF KeptAfter
<1> QED BY <1>3, <1>4

-----------------------------------------------------------------------------
(* What the calls of the seeder are there for is done behind it *)

\* An accepted status call has set the status.
LEMMA StatusReached ==
  ASSUME NEW d, TablesOK(d), NEW op \in RowCalls, NEW q, q.op = StatusCallOf(op), NEW answer, answer = Serve(d, q),
         answer.code = 200
  PROVE  answer.db[TableOf(op)][q.id].status = q.val
<1>0. {"products", "reports"} \subseteq DOMAIN d
  BY DEF TablesOK, RowTables
<1>1. CASE op = "createProduct"
  <2>1. q.op = "updateProductStatus" /\ TableOf(op) = "products"
    BY <1>1 DEF StatusCallOf, TableOf
  <2>2. answer = SetStatus(d, q, q.val) \/ answer = Refuse(d, Denied(q))
    BY <2>1 DEF Serve, Handle, updateProductStatus
  <2>3. Visible(d, q.id) /\ answer.db = [d EXCEPT !.products[q.id].status = q.val]
    BY <2>2 DEF SetStatus, Owned, Refuse, Reply, Denied
  <2>4. q.id \in DOMAIN d.products /\ AProduct(d.products[q.id])
    BY <2>3 DEF Visible, TablesOK
  <2>5. answer.db.products[q.id] = [d.products[q.id] EXCEPT !.status = q.val]
    BY <1>0, <2>3, <2>4
  <2>6. [d.products[q.id] EXCEPT !.status = q.val].status = q.val
    BY <2>4 DEF AProduct
  <2> QED BY <2>1, <2>5, <2>6
<1>2. CASE op = "createReport"
  <2>1. q.op = "updateReportStatus" /\ TableOf(op) = "reports"
    BY <1>2 DEF StatusCallOf, TableOf
  <2>2. answer = updateReportStatus(d, q) \/ answer = Refuse(d, Denied(q))
    BY <2>1 DEF Serve, Handle
  <2>3. q.id \in DOMAIN d.reports /\ answer.db = [d EXCEPT !.reports[q.id].status = q.val]
    BY <2>2 DEF updateReportStatus, Refuse, Reply, Denied
  <2>4. AReport(d.reports[q.id])
    BY <2>3 DEF TablesOK
  <2>5. answer.db.reports[q.id] = [d.reports[q.id] EXCEPT !.status = q.val]
    BY <1>0, <2>3
  <2>6. [d.reports[q.id] EXCEPT !.status = q.val].status = q.val
    BY <2>4 DEF AReport
  <2> QED BY <2>1, <2>5, <2>6
<1> QED BY <1>1, <1>2 DEF RowCalls

\* The call that makes the row of a status call comes before it, and is the
\* only one.
LEMMA MadeBefore ==
  ASSUME CInv, NEW u \in DOMAIN Seeded, NEW i \in DOMAIN Seeded, SetsStatus(Seeded, u, i)
  PROVE  /\ i < u /\ Seeded[u].op \in {"updateProductStatus", "updateReportStatus"}
         /\ \A j \in DOMAIN Seeded : Seeded[u].row \in Seeded[j].save => j = i \/ Seeded[j].op = "require"
         /\ \A j \in DOMAIN Seeded : \A f \in Seeded[j].find : f[1] = Seeded[u].row => j < i
<1>0. SeedRows(Seeded) /\ SeedStatuses(Seeded) /\ DOMAIN Seeded = 1 .. Len(Seeded) /\ Len(Seeded) \in Nat
  BY SeedShape, SeedFacts
<1>1. Seeded[i].op \in RowCalls /\ Seeded[u].row \in Seeded[i].save
      /\ Seeded[u].op \in {"updateProductStatus", "updateReportStatus"}
  BY DEF SetsStatus, StatusCallOf
<1>2. /\ \A j \in DOMAIN Seeded : Seeded[u].row \in Seeded[j].save => j = i \/ Seeded[j].op = "require"
      /\ \A j \in DOMAIN Seeded : \A f \in Seeded[j].find : f[1] = Seeded[u].row => j < i
  BY <1>0, <1>1 DEF SeedRows
<1>3. PICK k \in 1 .. u - 1 : SetsStatus(Seeded, u, k)
  BY <1>0, <1>1 DEF SeedStatuses
<1>4. k \in DOMAIN Seeded /\ Seeded[u].row \in Seeded[k].save /\ Seeded[k].op # "require" /\ k < u
  BY <1>0, <1>3 DEF SetsStatus, RowCalls
<1> QED BY <1>1, <1>2, <1>4

\* An answered call has done what it is there for.
LEMMA CallPasses ==
  ASSUME CInv, NEW d, TablesOK(d), NEW x, NEW v \in DOMAIN Seeded, NEW step, step = Seeded[v], step.op # "require",
         step.needs \subseteq DOMAIN x.kept, NEW q, q = RequestOf(x, step), NEW answer, answer = Serve(d, q),
         NEW e, e = answer.db, NEW y, KeptAfter(x, y, step, answer.code, answer.rows), answer.code \in step.expect,
         Learned(x, y, step, answer.rows), SeederHas(e, x.kept, v - 1)
  PROVE  Passed(e, y.kept, v)
<1>0. /\ SeedRows(Seeded) /\ SeedStatuses(Seeded) /\ SeedTalks(Seeded) /\ SeedNames(Seeded) /\ SeedsOnce(Seeded)
      /\ DOMAIN Seeded = 1 .. Len(Seeded) /\ Len(Seeded) \in Nat
  BY SeedShape, SeedFacts
<1>1. q.op = step.op /\ q.id = RowIn(x, step.row) /\ (step.op # "login" => q.val = step.val)
  BY DEF RequestOf
<1>2. DOMAIN x.kept \subseteq DOMAIN y.kept /\ Passed(e, x.kept, v - 1) /\ KeepsChats(e, x.kept)
  BY DEF Learned, SeederHas
<1>3. ASSUME NEW j \in 1 .. v, Seeded[j].op \in RowOps, Sure(Seeded[j])
      PROVE  Seeded[j].save \subseteq DOMAIN y.kept
  <2>1. CASE j # v
    <3>1. j \in 1 .. v - 1
      BY <1>0, <2>1
    <3> QED BY <1>2, <1>3, <3>1 DEF Passed
  <2>2. CASE j = v
    <3>1. answer.code = 201 /\ q.op \in RowOps
      BY <1>1, <1>3, <2>2 DEF Sure
    <3>2. answer.rows # {}
      <4>1. CASE q.op \in RowCalls
        <5> PICK table : table = e[TableOf(q.op)]
          OBVIOUS
        <5>1. PICK id : answer.rows = {Row(id, q.val, table[id].status)}
          BY <3>1, <4>1, RowMade
        <5> QED BY <5>1
      <4>2. CASE q.op = "createConversation"
        <5>1. Conversing(q, answer, e)
          BY ConversationsServed
        <5>2. answer.rows = {Row(<<{q.by, q.on}, 0>>, "conversation", NoKey)}
          BY <3>1, <4>2, <5>1 DEF Conversing
        <5> QED BY <5>2
      <4>3. CASE q.op = "verifyRegistrationOtp"
        <5>1. answer = Refuse(d, 400) \/ answer = Refuse(d, 409) \/ \E f : answer = generateTokens(f, q.on)
          BY <4>3 DEF Serve, Denied, Handle, verifyRegistrationOtp, AuthPublic
        <5>2. answer.code # 201 \/ \E f : answer = generateTokens(f, q.on)
          BY <5>1 DEF Refuse, Reply
        <5>3. PICK f : answer = generateTokens(f, q.on)
          BY <3>1, <5>2
        <5> PICK row : row = Row(<<q.on, f.issued[q.on] + 1>>, q.on, "session")
          OBVIOUS
        <5>4. answer.rows = {row}
          BY <5>3 DEF generateTokens, Reply
        <5> QED BY <5>4
      <4> QED BY <3>1, <4>1, <4>2, <4>3 DEF RowOps
    <3> QED BY <2>2, <3>2 DEF Learned
  <2> QED BY <2>1, <2>2
<1>4. ASSUME NEW u \in 1 .. v, NEW i \in DOMAIN Seeded, SetsStatus(Seeded, u, i), Seeded[u].row \in DOMAIN y.kept
      PROVE  Status(e, i, y.kept[Seeded[u].row].id) = Seeded[u].val
  <2> PICK name : name = Seeded[u].row
    OBVIOUS
  <2>0. u \in DOMAIN Seeded /\ u <= v
    BY <1>0
  <2>1. /\ i < u /\ Seeded[u].op \in {"updateProductStatus", "updateReportStatus"}
        /\ \A j \in DOMAIN Seeded : name \in Seeded[j].save => j = i \/ Seeded[j].op = "require"
        /\ \A j \in DOMAIN Seeded : \A f \in Seeded[j].find : f[1] = name => j < i
    BY <1>4, <2>0, MadeBefore
  <2>2. name \in DOMAIN x.kept /\ y.kept[name] = x.kept[name]
    <3>1. i < v
      BY <1>0, <2>0, <2>1
    <3>2. name \notin step.save /\ \A f \in step.find : f[1] # name
      BY <1>0, <2>1, <3>1
    <3> QED BY <1>4, <3>2 DEF KeptAfter, Found
  <2>3. CASE u # v
    <3>1. u \in 1 .. v - 1
      BY <1>0, <2>0, <2>3
    <3> QED BY <1>2, <1>4, <2>2, <3>1 DEF Passed
  <2>4. CASE u = v
    <3>1. answer.code = 200
      BY <1>0, <2>0, <2>1, <2>4 DEF SeedStatuses
    <3>2. Seeded[i].op \in RowCalls /\ q.op = StatusCallOf(Seeded[i].op)
      BY <1>1, <1>4, <2>4 DEF SetsStatus
    <3>3. q.id = x.kept[name].id /\ q.val = Seeded[u].val
      BY <1>1, <2>1, <2>2, <2>4 DEF RowIn
    <3>4. e[TableOf(Seeded[i].op)][q.id].status = q.val
      BY <3>1, <3>2, StatusReached
    <3> QED BY <2>2, <3>3, <3>4 DEF Status
  <2> QED BY <2>3, <2>4
<1>5. ASSUME NEW i \in 1 .. v, NEW j, Posts(i, j), Seeded[i].row \in DOMAIN y.kept
      PROVE  Sent(e, i, j)
  <2> PICK row : row = Seeded[i].row
    OBVIOUS
  <2>1. i \in DOMAIN Seeded /\ j \in DOMAIN Seeded /\ j < i /\ Seeded[i].op = "message.send" /\ row \in Seeded[j].save
    BY <1>5 DEF Posts
  <2>2. Seeded[j].op = "createConversation" /\ Sure(Seeded[j])
    BY <1>0, <2>1 DEF SeedNames, SeedTalks
  <2>3. row \in DOMAIN x.kept
    <3>1. j \in 1 .. v - 1
      BY <1>0, <2>1
    <3> QED BY <1>2, <2>1, <2>2, <3>1 DEF Passed, RowOps
  <2>4. CASE i # v
    <3>1. i \in 1 .. v - 1
      BY <1>0, <2>4
    <3> QED BY <1>2, <1>5, <2>3, <3>1 DEF Passed
  <2>5. CASE i = v
    <3>1. answer.code = 200 /\ q.op = "message.send" /\ q.val = Seeded[i].val /\ q.id = x.kept[row].id
      BY <1>0, <1>1, <2>1, <2>3, <2>5 DEF SeedsOnce, Creates, RowIn
    <3>2. q.id[1] = {Seeded[j].by, Seeded[j].on}
      BY <1>2, <1>5, <2>3, <3>1 DEF KeepsChats
    <3>3. MessageAdded(d, q, answer)
      BY <3>1, MessagesServed
    <3>4. PICK id : id[1] = q.id[1] /\ Added(d.messages, e.messages, id, [by |-> q.by, key |-> q.val, read |-> FALSE])
      BY <3>3 DEF MessageAdded
    <3>5. id \in DOMAIN e.messages /\ e.messages[id].key = q.val
      BY <3>4 DEF Added
    <3> QED BY <3>1, <3>2, <3>4, <3>5 DEF Sent
  <2> QED BY <2>4, <2>5
<1> QED BY <1>3, <1>4, <1>5 DEF Passed

\* A call that is left out has nothing to do.
LEMMA SkipPasses ==
  ASSUME CInv, NEW e, NEW kept, NEW p \in Nat, NEW w \in Nat, w <= Len(Seeded), SeederHas(e, kept, p),
         \A j \in p + 1 .. w : ~Applies(Seeded[j], kept)
  PROVE  SeederHas(e, kept, w)
<1>0. /\ SeedRows(Seeded) /\ SeedStatuses(Seeded) /\ SeedTalks(Seeded)
      /\ DOMAIN Seeded = 1 .. Len(Seeded) /\ Len(Seeded) \in Nat
  BY SeedShape, SeedFacts
<1>1. KeepsRows(e, kept) /\ KeepsChats(e, kept) /\ Passed(e, kept, p)
  BY DEF SeederHas
<1>2. \A j \in 1 .. w : j \in DOMAIN Seeded /\ (j \in 1 .. p \/ j \in p + 1 .. w)
  BY <1>0
<1>3. ASSUME NEW j \in 1 .. w, Seeded[j].op \in RowOps, Sure(Seeded[j])
      PROVE  Seeded[j].save \subseteq DOMAIN kept
  <2>1. CASE j \in 1 .. p
    BY <1>1, <1>3, <2>1 DEF Passed
  <2>2. CASE j \in p + 1 .. w
    <3>1. ~Applies(Seeded[j], kept)
      BY <2>2
    <3>2. PICK name \in Seeded[j].lacks : name \in DOMAIN kept
      BY <1>3, <3>1 DEF Applies, Sure
    <3> QED BY <1>3, <3>2 DEF Sure
  <2> QED BY <1>2, <2>1, <2>2
<1>4. ASSUME NEW u \in 1 .. w, NEW i \in DOMAIN Seeded, SetsStatus(Seeded, u, i), Seeded[u].row \in DOMAIN kept
      PROVE  Status(e, i, kept[Seeded[u].row].id) = Seeded[u].val
  <2>1. CASE u \in 1 .. p
    BY <1>1, <1>4, <2>1 DEF Passed
  <2>2. CASE u \in p + 1 .. w
    <3>1. u \in DOMAIN Seeded /\ ~Applies(Seeded[u], kept)
      BY <1>2, <2>2
    <3>2. Seeded[u].op \in {"updateProductStatus", "updateReportStatus"}
          /\ Seeded[i].op \in RowCalls /\ Seeded[u].row \in Seeded[i].save
      BY <1>4 DEF SetsStatus, StatusCallOf
    <3>3. kept[Seeded[u].row].status = Seeded[u].val
      BY <1>0, <1>4, <3>1, <3>2 DEF SeedStatuses, Applies
    <3> QED BY <1>1, <1>4, <3>1, <3>2, <3>3 DEF KeepsRows
  <2> QED BY <1>2, <2>1, <2>2
<1>5. ASSUME NEW i \in 1 .. w, NEW j, Posts(i, j), Seeded[i].row \in DOMAIN kept
      PROVE  Sent(e, i, j)
  <2>1. CASE i \in 1 .. p
    BY <1>1, <1>5, <2>1 DEF Passed
  <2>2. CASE i \in p + 1 .. w
    <3>1. i \in DOMAIN Seeded /\ ~Applies(Seeded[i], kept) /\ Seeded[i].op = "message.send"
      BY <1>2, <1>5, <2>2 DEF Posts
    <3>2. Seeded[i].lacks \cap DOMAIN kept # {}
      BY <1>0, <1>5, <3>1 DEF SeedTalks, Applies
    <3> QED BY <1>1, <1>5, <3>2 DEF KeepsChats
  <2> QED BY <1>2, <2>1, <2>2
<1>6. Passed(e, kept, w)
  BY <1>3, <1>4, <1>5 DEF Passed
<1> QED BY <1>1, <1>6 DEF SeederHas

\* The other calls are there for something else.
LEMMA OtherPasses ==
  ASSUME CInv, NEW e, NEW kept, NEW v \in DOMAIN Seeded, SeederHas(e, kept, v - 1),
         ~(Seeded[v].op \in RowOps /\ Sure(Seeded[v])),
         Seeded[v].op \notin {"updateProductStatus", "updateReportStatus", "message.send"}
  PROVE  SeederHas(e, kept, v)
<1>0. DOMAIN Seeded = 1 .. Len(Seeded) /\ Len(Seeded) \in Nat /\ Passed(e, kept, v - 1)
  BY SeedFacts DEF SeederHas
<1>1. \A j \in 1 .. v : j \in DOMAIN Seeded /\ (j = v \/ j \in 1 .. v - 1)
  BY <1>0
<1>2. \A u \in 1 .. v : \A i : SetsStatus(Seeded, u, i) => u \in 1 .. v - 1
  BY <1>1 DEF SetsStatus, StatusCallOf
<1>3. \A i \in 1 .. v : \A j : Posts(i, j) => i \in 1 .. v - 1
  BY <1>1 DEF Posts
<1>4. Passed(e, kept, v)
  BY <1>0, <1>1, <1>2, <1>3 DEF Passed
<1> QED BY <1>4 DEF SeederHas

\* An answer that is forgiven, or no answer, is of such a call.
LEMMA UnansweredPasses ==
  ASSUME CInv, NEW e, NEW kept, NEW v \in DOMAIN Seeded, SeederHas(e, kept, v - 1), NEW code,
         \/ code \in Seeded[v].forgive
         \/ code \in Seeded[v].expect /\ code \in {0, 429}
  PROVE  SeederHas(e, kept, v)
<1>0. SeedStatuses(Seeded) /\ SeedTalks(Seeded) /\ SeedsOnce(Seeded)
  BY SeedShape, SeedFacts
<1>1. ~Sure(Seeded[v])
  BY DEF Sure
<1>2. Seeded[v].op \notin {"updateProductStatus", "updateReportStatus"}
  BY <1>0 DEF SeedStatuses
<1>3. Seeded[v].op # "message.send"
  BY <1>0 DEF SeedTalks, SeedsOnce, Creates
<1> QED BY <1>1, <1>2, <1>3, OtherPasses

LEMMA SameHas ==
  ASSUME NEW e, NEW kept, NEW same, NEW p, SeederHas(e, kept, p),
         DOMAIN same = DOMAIN kept, \A n \in DOMAIN kept : same[n] = kept[n]
  PROVE  SeederHas(e, same, p)
<1>1. KeepsRows(e, same)
  BY DEF SeederHas, KeepsRows
<1>2. KeepsChats(e, same)
  BY DEF SeederHas, KeepsChats
<1>3. Passed(e, same, p)
  <2>1. \A u \in 1 .. p, i \in DOMAIN Seeded : SetsStatus(Seeded, u, i) /\ Seeded[u].row \in DOMAIN same =>
          Status(e, i, same[Seeded[u].row].id) = Seeded[u].val
    BY DEF SeederHas, Passed
  <2> QED BY <2>1 DEF SeederHas, Passed
<1> QED BY <1>1, <1>2, <1>3 DEF SeederHas

LEMMA HasNothing ==
  ASSUME NEW e, NEW kept, DOMAIN kept = {}, NEW p \in Int, p <= 0
  PROVE  SeederHas(e, kept, p)
<1>1. 1 .. p = {}
  OBVIOUS
<1> QED BY <1>1 DEF SeederHas, KeepsRows, KeepsChats, Passed

\* The seeder goes on after a call: what it leaves out has nothing to do.
LEMMA MovesPass ==
  ASSUME CInv, NEW x, x = run["seeder"], x.status = "running", x.pc \in DOMAIN Seeded, NEW y, Outcome(x, y),
         NEW n, n = Advance(y, Seeded), NEW e,
         y.status # "next" => SeederHas(e, y.kept, x.pc - 1), y.status = "next" => SeederHas(e, y.kept, x.pc)
  PROVE  SeederHas(e, n.kept, n.pc - 1)
<1>0. ScriptOf("seeder") = Seeded /\ DOMAIN Seeded = 1 .. Len(Seeded) /\ Len(Seeded) \in Nat
  BY SeedFacts
<1>1. /\ n.kept = y.kept /\ n.pc \in Nat /\ n.pc >= x.pc /\ n.pc <= Len(Seeded)
      /\ y.status # "next" => n = y /\ n.pc = x.pc
      /\ y.status = "next" => \A i \in x.pc + 1 .. n.pc - 1 : ~Applies(Seeded[i], n.kept)
  BY <1>0, MovesOn, RunnerNames
<1>2. CASE y.status # "next"
  BY <1>1, <1>2
<1>3. CASE y.status = "next"
  <2> PICK p, w, kept : p = x.pc /\ w = n.pc - 1 /\ kept = n.kept
    OBVIOUS
  <2>1. p \in Nat /\ w \in Nat /\ w <= Len(Seeded) /\ SeederHas(e, kept, p)
        /\ \A j \in p + 1 .. w : ~Applies(Seeded[j], kept)
    BY <1>0, <1>1, <1>3
  <2>2. SeederHas(e, kept, w)
    BY <2>1, SkipPasses
  <2> QED BY <2>2
<1> QED BY <1>2, <1>3

LEMMA WInvPrimed ==
  ASSUME scenario' = scenario, NEW e, e = db', NEW kept, kept = run'["seeder"].kept, NEW p, p = run'["seeder"].pc - 1,
         Reported(e), \A q \in late' : Fitting(e, q), SeederHas(e, kept, p)
  PROVE  WInv'
<1>0. Seeded' = Seeded
  BY DEF Seeded
<1>1. \A i, id : IsRow(db, i, id)' <=> IsRow(e, i, id)
  BY <1>0 DEF IsRow
<1>2. \A i, id : Status(db, i, id)' = Status(e, i, id)
  BY <1>0 DEF Status
<1>3. \A i, j : (Posts(i, j)' <=> Posts(i, j)) /\ (Sent(db, i, j)' <=> Sent(e, i, j))
  BY <1>0 DEF Posts, Sent
<1>4. Reported(db)'
  BY <1>0, <1>1 DEF Reported
<1>5. \A q \in late' : Fitting(db, q)'
  BY <1>0, <1>1 DEF Fitting
<1>6. KeepsRows(db, kept)'
  BY <1>0, <1>1, <1>2 DEF SeederHas, KeepsRows
<1>7. KeepsChats(db, kept)'
  BY <1>0, <1>3 DEF SeederHas, KeepsChats
<1>8. Passed(db, kept, p)'
  BY <1>0, <1>2, <1>3 DEF SeederHas, Passed
<1> QED BY <1>4, <1>5, <1>6, <1>7, <1>8 DEF WInv, SeederHas

\* What the seeder has after a call of its own.
LEMMA OwnCallHas ==
  ASSUME CInv, SInv, Known, WInv, NEW code, NEW rows, Ended("seeder", code, rows), NEW e, e = db',
         NEW n, n = run'["seeder"]
  PROVE  SeederHas(e, n.kept, n.pc - 1)
<1> PICK x, v, step, q : x = run["seeder"] /\ v = x.pc /\ step = StepOf("seeder") /\ q = RequestOf(x, step)
  OBVIOUS
<1>0. /\ x.status = "running" /\ v \in DOMAIN Seeded /\ step = Seeded[v] /\ step.op # "require"
      /\ TablesOK(db) /\ step.needs \subseteq DOMAIN x.kept /\ ScriptOf("seeder") = Seeded
      /\ DOMAIN Seeded = 1 .. Len(Seeded) /\ Len(Seeded) \in Nat
  <2>1. Chats /\ TablesOK(db) /\ x.status = "running" /\ step.op # "require" /\ step.needs \subseteq DOMAIN x.kept
    BY RunnerNames DEF SInv, Ended, Needing
  <2> QED BY <2>1, TradesOf, SeedFacts, RunnerNames
<1>1. SeederHas(db, x.kept, v - 1)
  BY DEF WInv
<1>2. Proper(db, q) /\ Fitting(db, q)
  BY <1>0, <1>1, CallProper, CallFits, RunnerNames DEF Known, SeederHas
<1>3. PICK y : Outcome(x, y) /\ CallKept("seeder", y, code, rows) /\ n = Advance(y, Seeded)
  BY <1>0, AfterCall, RunnerNames DEF Ended
<1>4. /\ KeptAfter(x, y, step, code, rows)
      /\ y.status = "next" /\ code \in step.expect => Learned(x, y, step, rows)
      /\ y.status # "next" => y.kept = x.kept
      /\ y.status = "next" /\ code \notin step.expect => code \in step.forgive /\ y.kept = x.kept
  BY <1>3 DEF CallKept
<1>5. ASSUME NEW answer, answer = Serve(db, q), code = answer.code, rows = answer.rows, e = answer.db
      PROVE  /\ y.status # "next" => SeederHas(e, y.kept, v - 1)
             /\ y.status = "next" => SeederHas(e, y.kept, v)
  <2>1. SeederHas(e, x.kept, v - 1)
    <3>1. v - 1 \in Int /\ v - 1 <= Len(Seeded)
      BY <1>0
    <3> QED BY <1>0, <1>1, <1>2, <1>5, <3>1, HasStays
  <2>2. ASSUME y.status = "next", code \in step.expect
        PROVE  SeederHas(e, y.kept, v)
    <3>1. KeepsRows(e, y.kept)
      BY <1>0, <1>4, <1>5, <2>1, RowsLearnt DEF SeederHas
    <3>2. KeepsChats(e, y.kept)
      BY <1>0, <1>4, <1>5, <2>1, ChatsLearnt DEF SeederHas
    <3>3. Passed(e, y.kept, v)
      BY <1>0, <1>4, <1>5, <2>1, <2>2, CallPasses
    <3> QED BY <3>1, <3>2, <3>3 DEF SeederHas
  <2>3. ASSUME y.status = "next", code \notin step.expect
        PROVE  SeederHas(e, y.kept, v)
    BY <1>0, <1>4, <2>1, <2>3, UnansweredPasses
  <2> QED BY <1>4, <2>1, <2>2, <2>3
<1>6. ASSUME code \in {0, 429}, rows = {}, e = db
      PROVE  /\ y.status # "next" => SeederHas(e, y.kept, v - 1)
             /\ y.status = "next" => SeederHas(e, y.kept, v)
  <2>1. ASSUME y.status = "next", code \in step.expect
        PROVE  SeederHas(e, y.kept, v)
    <3>1. \A key : Matches(x, step, key, {}) = {}
      BY DEF Matches
    <3>2. \A k \in DOMAIN y.kept : k \in DOMAIN x.kept /\ y.kept[k] = x.kept[k]
      BY <1>4, <1>6, <3>1 DEF KeptAfter, Found
    <3>3. DOMAIN x.kept \subseteq DOMAIN y.kept
      BY <1>4, <2>1 DEF Learned
    <3>4. DOMAIN y.kept = DOMAIN x.kept /\ \A k \in DOMAIN x.kept : y.kept[k] = x.kept[k]
      BY <3>2, <3>3
    <3>5. SeederHas(e, x.kept, v)
      BY <1>0, <1>1, <1>6, <2>1, UnansweredPasses
    <3> QED BY <3>4, <3>5, SameHas
  <2>2. ASSUME y.status = "next", code \notin step.expect
        PROVE  SeederHas(e, y.kept, v)
    BY <1>0, <1>1, <1>4, <1>6, <2>2, UnansweredPasses
  <2> QED BY <1>1, <1>4, <1>6, <2>1, <2>2
<1>7. /\ y.status # "next" => SeederHas(e, y.kept, v - 1)
      /\ y.status = "next" => SeederHas(e, y.kept, v)
  BY <1>5, <1>6 DEF Ended
<1> QED BY <1>0, <1>3, <1>7, MovesPass

LEMMA CallWInv ==
  ASSUME CInv, SInv, RInv, WInv, NEW r \in Runners, Answered(r) \/ Throttled(r) \/ TimedOut(r)
  PROVE  WInv'
<1>1. PICK code, rows : Ended(r, code, rows)
  BY CallsEnd
<1> PICK x, z, q, e, n : x = run[r] /\ z = run["seeder"] /\ q = RequestOf(x, StepOf(r)) /\ e = db' /\ n = run'["seeder"]
  OBVIOUS
<1>2. /\ TablesOK(db) /\ Known /\ x.status = "running" /\ scenario' = scenario /\ late' \subseteq late \cup {q}
      /\ \/ e = Serve(db, q).db
         \/ e = db
  BY <1>1 DEF SInv, RInv, Ended
<1>3. Reported(db) /\ (\A p \in late : Fitting(db, p)) /\ SeederHas(db, z.kept, z.pc - 1)
  BY DEF WInv
<1>4. Proper(db, q) /\ Fitting(db, q)
  BY <1>2, <1>3, CallProper, CallFits DEF Known, SeederHas
<1>5. Reported(e) /\ \A p : Fitting(db, p) => Fitting(e, p)
  BY <1>2, <1>3, <1>4, ReportedStays, FittingStays
<1>6. \A p \in late' : Fitting(e, p)
  BY <1>2, <1>3, <1>4, <1>5
<1>7. SeederHas(e, n.kept, n.pc - 1)
  <2>1. CASE r = "seeder"
    BY <1>1, <1>2, <2>1, OwnCallHas
  <2>2. CASE r # "seeder"
    <3>1. n = z
      BY <1>1, <2>2, CallMoves, RunnerNames DEF OthersWait
    <3>2. z.pc \in Nat /\ z.pc - 1 <= Len(Seeded)
      BY SeedFacts, RunnerNames DEF CInv, Runs, InScript
    <3>3. z.pc - 1 \in Int
      BY <3>2
    <3> QED BY <1>2, <1>3, <1>4, <3>1, <3>2, <3>3, HasStays
  <2> QED BY <2>1, <2>2
<1> QED BY <1>2, <1>5, <1>6, <1>7, WInvPrimed

LEMMA LateWInv ==
  ASSUME CInv, SInv, RInv, WInv, ServedLate
  PROVE  WInv'
<1> PICK d, e, z : d = db /\ e = db' /\ z = run["seeder"]
  OBVIOUS
<1>1. PICK q \in late : /\ e = Serve(d, q).db /\ late' = late \ {q}
                        /\ scenario' = scenario /\ run' = run
  BY DEF ServedLate
<1>2. /\ TablesOK(d) /\ Proper(d, q) /\ Fitting(d, q) /\ Reported(d) /\ (\A p \in late : Fitting(d, p))
      /\ SeederHas(d, z.kept, z.pc - 1)
  BY <1>1 DEF SInv, RInv, Known, WInv
<1>3. Reported(e) /\ \A p \in late' : Fitting(e, p)
  BY <1>1, <1>2, ReportedStays, FittingStays
<1>4. SeederHas(e, z.kept, z.pc - 1)
  <2>1. z.pc \in Nat /\ z.pc - 1 <= Len(Seeded)
    BY SeedFacts, RunnerNames DEF CInv, Runs, InScript
  <2>2. z.pc - 1 \in Int
    BY <2>1
  <2> QED BY <1>1, <1>2, <2>1, <2>2, HasStays
<1> QED BY <1>1, <1>3, <1>4, WInvPrimed

\* The tables stay, and so do the late requests.
LEMMA StillWInv ==
  ASSUME CInv, WInv, scenario' = scenario, db' = db, late' = late, NEW n, n = run'["seeder"],
         SeederHas(db, n.kept, n.pc - 1)
  PROVE  WInv'
BY WInvPrimed DEF WInv

LEMMA CheckedWInv ==
  ASSUME CInv, SInv, WInv, NEW r \in Runners, Checked(r)
  PROVE  WInv'
<1>1. /\ run[r].status = "running" /\ StepOf(r).op = "require"
      /\ scenario' = scenario /\ db' = db /\ late' = late
  BY DEF Checked
<1>2. PICK y : /\ Outcome(run[r], y) /\ y.kept = run[r].kept
               /\ run' = [run EXCEPT ![r] = Advance(y, ScriptOf(r))]
  BY CheckedOutcome
<1> PICK n, z : n = Advance(y, ScriptOf(r)) /\ z = run["seeder"]
  OBVIOUS
<1>3. OthersWait(r) /\ run'[r] = n
  BY <1>2, Moved
<1>4. SeederHas(db, z.kept, z.pc - 1)
  BY DEF WInv
<1>5. CASE r = "seeder"
  <2>1. z.pc \in DOMAIN Seeded /\ StepOf("seeder") = Seeded[z.pc] /\ ScriptOf("seeder") = Seeded
    BY <1>1, <1>5, TradesOf, SeedFacts DEF SInv
  <2>2. SeederHas(db, z.kept, z.pc)
    <3>1. Seeded[z.pc].op = "require"
      BY <1>1, <1>5, <2>1
    <3> QED BY <1>4, <2>1, <3>1, OtherPasses DEF RowOps, RowCalls
  <2>3. SeederHas(db, n.kept, n.pc - 1)
    BY <1>1, <1>2, <1>4, <1>5, <2>1, <2>2, MovesPass
  <2> QED BY <1>1, <1>3, <1>5, <2>3, StillWInv
<1>6. CASE r # "seeder"
  <2>1. run'["seeder"] = z
    BY <1>3, <1>6, RunnerNames DEF OthersWait
  <2> QED BY <1>1, <1>4, <2>1, StillWInv
<1> QED BY <1>5, <1>6

\* A seeder that starts has nothing, and has left out what needs something.
LEMMA BeginHas ==
  ASSUME CInv, NEW e, NEW n, n = Begin(Seeded, Empty, <<>>)
  PROVE  SeederHas(e, n.kept, n.pc - 1)
<1>0. PICK x : x = [Idle EXCEPT !.status = "next", !.kept = Empty, !.who = <<>>]
  OBVIOUS
<1>1. RunnerShape(x) /\ x.pc = 0 /\ x.status = "next" /\ DOMAIN x.kept = {}
  BY <1>0 DEF Idle, RunnerShape, Empty
<1>2. n = Advance(x, Seeded) /\ Len(Seeded) \in Nat /\ x.pc \in Nat
  BY <1>0, <1>1, SeedFacts DEF Begin
<1>3. /\ n.kept = x.kept
      /\ \/ n.pc = 0
         \/ /\ n.pc \in 1 .. Len(Seeded)
            /\ \A i \in 1 .. Len(Seeded) : Applies(Seeded[i], x.kept) => n.pc <= i
  <2>1. /\ n.kept = x.kept
        /\ \/ n.pc = x.pc
           \/ /\ n.pc \in x.pc + 1 .. Len(Seeded)
              /\ \A i \in x.pc + 1 .. Len(Seeded) : Applies(Seeded[i], x.kept) => n.pc <= i
    BY <1>1, <1>2, AdvanceStep
  <2> QED BY <1>1, <2>1
<1>4. CASE n.pc = 0
  <2>1. n.pc - 1 \in Int /\ n.pc - 1 <= 0
    BY <1>4
  <2> QED BY <1>1, <1>3, <2>1, HasNothing
<1>5. CASE /\ n.pc \in 1 .. Len(Seeded)
           /\ \A i \in 1 .. Len(Seeded) : Applies(Seeded[i], x.kept) => n.pc <= i
  <2> PICK w : w = n.pc - 1
    OBVIOUS
  <2>1. w \in Nat /\ w <= Len(Seeded) /\ \A j \in 0 + 1 .. w : ~Applies(Seeded[j], n.kept)
    BY <1>2, <1>3, <1>5
  <2>2. SeederHas(e, n.kept, 0)
    <3> PICK p : p = 0
      OBVIOUS
    <3>1. p \in Int /\ p <= 0 /\ DOMAIN n.kept = {}
      BY <1>1, <1>3
    <3> QED BY <3>1, HasNothing
  <2>3. SeederHas(e, n.kept, w)
    BY <2>1, <2>2, SkipPasses
  <2> QED BY <2>3
<1> QED BY <1>3, <1>4, <1>5

LEMMA StartsWInv ==
  ASSUME CInv, WInv, StartVirtualUsers \/ StartPair \/ Crash \/ Rerun
  PROVE  WInv'
<1> PICK z : z = run["seeder"]
  OBVIOUS
<1>1. scenario' = scenario /\ db' = db /\ late' = late /\ SeederHas(db, z.kept, z.pc - 1)
  BY DEF StartVirtualUsers, StartPair, Crash, Rerun, WInv
<1>2. CASE StartVirtualUsers
  <2>1. run'["seeder"] = z
    BY <1>2, RunnerNames DEF StartVirtualUsers
  <2> QED BY <1>1, <2>1, StillWInv
<1>3. CASE StartPair
  <2>1. \E m : run' = [run EXCEPT !["pair"] = m]
    BY <1>3, Zenon DEF StartPair
  <2>2. run'["seeder"] = z
    BY <2>1, RunnerNames DEF CInv, Runs
  <2> QED BY <1>1, <2>2, StillWInv
<1>4. CASE Crash
  <2>1. PICK n : n = [run["seeder"] EXCEPT !.status = "crashed"] /\ run' = [run EXCEPT !["seeder"] = n]
    BY <1>4 DEF Crash, CInv, Runs
  <2>2. n.kept = z.kept /\ n.pc = z.pc
    BY <2>1, RunnerNames DEF CInv, Runs, InScript, RunnerShape
  <2>3. run'["seeder"] = n
    BY <2>1, RunnerNames, Moved
  <2> QED BY <1>1, <2>2, <2>3, StillWInv
<1>5. CASE Rerun
  <2>1. PICK n : n = Begin(Seeded, Empty, <<>>) /\ run' = [run EXCEPT !["seeder"] = n]
    BY <1>5 DEF Rerun, Seeded
  <2>2. run'["seeder"] = n
    BY <2>1, RunnerNames, Moved
  <2>3. SeederHas(db, n.kept, n.pc - 1)
    BY <2>1, BeginHas
  <2> QED BY <1>1, <2>2, <2>3, StillWInv
<1> QED BY <1>2, <1>3, <1>4, <1>5

LEMMA InitWInv == Init => WInv
<1> SUFFICES ASSUME Init PROVE WInv
  OBVIOUS
<1>0. CInv
  BY InitCInv
<1>1. db = NewDb /\ late = {}
  BY DEF Init
<1>2. Reported(db) /\ \A q \in late : Fitting(db, q)
  BY <1>1 DEF Reported, IsRow, TableOf, NewDb, Empty
<1> PICK n, d : n = run["seeder"] /\ d = db
  OBVIOUS
<1>3. n = Idle \/ n = Begin(Seeded, Empty, <<>>)
  BY RunnerNames DEF Init, Seeded
<1>4. CASE n = Idle
  <2>1. n.pc = 0 /\ DOMAIN n.kept = {}
    BY <1>4 DEF Idle, Empty
  <2>2. n.pc - 1 \in Int /\ n.pc - 1 <= 0
    BY <2>1
  <2>3. SeederHas(d, n.kept, n.pc - 1)
    BY <2>1, <2>2, HasNothing
  <2> QED BY <1>2, <2>3 DEF WInv
<1>5. CASE n = Begin(Seeded, Empty, <<>>)
  <2>1. SeederHas(d, n.kept, n.pc - 1)
    BY <1>0, <1>5, BeginHas
  <2> QED BY <1>2, <2>1 DEF WInv
<1> QED BY <1>3, <1>4, <1>5

LEMMA NextWInv == CInv /\ SInv /\ RInv /\ WInv /\ [Next]_vars => WInv'
<1> SUFFICES ASSUME CInv, SInv, RInv, WInv, [Next]_vars PROVE WInv'
  OBVIOUS
<1>1. ASSUME NEW r \in Runners, RunnerStep(r) PROVE WInv'
  BY <1>1, CallWInv, CheckedWInv DEF RunnerStep
<1>2. CASE ServedLate
  BY <1>2, LateWInv
<1>3. CASE StartVirtualUsers \/ StartPair \/ Crash \/ Rerun
  BY <1>3, StartsWInv
<1>4. CASE UNCHANGED vars
  <2>1. scenario' = scenario /\ db' = db /\ run' = run /\ late' = late
    BY <1>4 DEF vars
  <2> PICK n : n = run'["seeder"]
    OBVIOUS
  <2>2. SeederHas(db, n.kept, n.pc - 1)
    BY <2>1 DEF WInv
  <2> QED BY <2>1, <2>2, StillWInv
<1> QED BY <1>1, <1>2, <1>3, <1>4 DEF Next

\* A seeder past its writing phases has the rows its tables declare.
LEMMA RowsConverge ==
  ASSUME CInv, SInv, WInv, run["seeder"].pc > SeedWrites[scenario.tables], NEW t, t = Tables[scenario.tables]
  PROVE  ProductsDeclared(t) /\ ReportsDeclared(t) /\ MessagesDeclared(t)
<1> PICK w, z, p : w = SeedWrites[scenario.tables] /\ z = run["seeder"] /\ p = z.pc - 1
  OBVIOUS
<1>1. /\ SeedRows(Seeded) /\ SeedStatuses(Seeded) /\ SeedTalks(Seeded) /\ SeedDeclares(Seeded, t, w)
      /\ SeedNames(Seeded)
  BY SeedShape, SeedFacts
<1>2. scenario.tables \in DOMAIN Tables /\ Len(Seeded) \in Nat /\ DOMAIN Seeded = 1 .. Len(Seeded)
  BY SeedFacts
<1>3. w \in Int /\ z.pc \in Nat /\ w <= p /\ p \in Int /\ w <= Len(Seeded)
  <2>1. z.pc \in Nat
    BY RunnerNames DEF CInv, Runs, InScript
  <2>2. w \in Nat /\ w <= Len(Seeded) /\ z.pc > w
    BY <1>1, <1>2 DEF SeedDeclares, SeedWrites
  <2> QED BY <2>1, <2>2
<1>4. TablesOK(db) /\ Reported(db) /\ KeepsRows(db, z.kept) /\ KeepsChats(db, z.kept) /\ Passed(db, z.kept, p)
  BY DEF SInv, WInv, SeederHas
\* The row a status call is for is there, with the status the call has given it.
<1>5. ASSUME NEW u \in 1 .. w, NEW i \in 1 .. u - 1, SetsStatus(Seeded, u, i)
      PROVE  \E id : IsRow(db, i, id) /\ Status(db, i, id) = Seeded[u].val
  <2> PICK n, s : n = Seeded[u].row /\ s = Seeded[i]
    OBVIOUS
  <2>1. u \in DOMAIN Seeded /\ i \in DOMAIN Seeded /\ i \in 1 .. p /\ u \in 1 .. p
    BY <1>2, <1>3
  <2>2. s.op \in RowCalls /\ n \in s.save /\ Sure(s) /\ s.op \in RowOps
    BY <1>1, <1>5, <2>1 DEF SeedRows, SetsStatus, RowOps
  <2>3. n \in DOMAIN z.kept
    BY <1>4, <2>1, <2>2 DEF Passed
  <2>4. IsRow(db, i, z.kept[n].id)
    BY <1>4, <2>1, <2>2, <2>3 DEF KeepsRows
  <2>5. Status(db, i, z.kept[n].id) = Seeded[u].val
    BY <1>4, <1>5, <2>1, <2>3 DEF Passed
  <2> QED BY <2>4, <2>5
<1>6. ASSUME NEW k \in 1 .. Len(t.products)
      PROVE  \E id \in DOMAIN db.products :
               id[1] = t.products[k][1] /\ db.products[id] = [key |-> t.products[k][2], status |-> t.products[k][3]]
  <2>1. PICK u \in 1 .. w : \E i \in 1 .. u - 1 :
          /\ SetsStatus(Seeded, u, i) /\ Seeded[i].op = "createProduct"
          /\ <<Seeded[i].by, Seeded[i].val, Seeded[u].val>> = t.products[k]
    BY <1>1, <1>6 DEF SeedDeclares
  <2>2. PICK i \in 1 .. u - 1 :
          /\ SetsStatus(Seeded, u, i) /\ Seeded[i].op = "createProduct"
          /\ <<Seeded[i].by, Seeded[i].val, Seeded[u].val>> = t.products[k]
    BY <2>1
  <2>3. PICK id : IsRow(db, i, id) /\ Status(db, i, id) = Seeded[u].val
    BY <1>5, <2>1, <2>2
  <2>4. id \in DOMAIN db.products /\ id[1] = Seeded[i].by /\ db.products[id].key = Seeded[i].val
        /\ db.products[id].status = Seeded[u].val
    BY <2>2, <2>3 DEF IsRow, Status, TableOf
  <2>5. AProduct(db.products[id])
    BY <1>4, <2>4 DEF TablesOK
  <2>6. t.products[k][1] = Seeded[i].by /\ t.products[k][2] = Seeded[i].val /\ t.products[k][3] = Seeded[u].val
    BY <2>2
  <2> QED BY <2>4, <2>5, <2>6 DEF AProduct
<1>7. ASSUME NEW k \in 1 .. Len(t.reports)
      PROVE  \E id \in DOMAIN db.reports :
               id[1] = t.reports[k][1] /\ db.reports[id] = [about |-> t.reports[k][2], key |-> t.reports[k][3],
                                                            status |-> t.reports[k][4]]
  <2>1. PICK u \in 1 .. w : \E i \in 1 .. u - 1 :
          /\ SetsStatus(Seeded, u, i) /\ Seeded[i].op = "createReport"
          /\ <<Seeded[i].by, Seeded[i].on, Seeded[i].val, Seeded[u].val>> = t.reports[k]
    BY <1>1, <1>7 DEF SeedDeclares
  <2>2. PICK i \in 1 .. u - 1 :
          /\ SetsStatus(Seeded, u, i) /\ Seeded[i].op = "createReport"
          /\ <<Seeded[i].by, Seeded[i].on, Seeded[i].val, Seeded[u].val>> = t.reports[k]
    BY <2>1
  <2>3. PICK id : IsRow(db, i, id) /\ Status(db, i, id) = Seeded[u].val
    BY <1>5, <2>1, <2>2
  <2>4. id \in DOMAIN db.reports /\ id[1] = Seeded[i].by /\ db.reports[id].key = Seeded[i].val
        /\ db.reports[id].status = Seeded[u].val
    BY <2>2, <2>3 DEF IsRow, Status, TableOf
  <2>5. i \in DOMAIN Seeded
    BY <1>2, <1>3
  <2>6. AReport(db.reports[id]) /\ db.reports[id].about = Seeded[i].on
    BY <1>4, <2>2, <2>3, <2>4, <2>5 DEF TablesOK, Reported
  <2>7. /\ t.reports[k][1] = Seeded[i].by /\ t.reports[k][2] = Seeded[i].on /\ t.reports[k][3] = Seeded[i].val
        /\ t.reports[k][4] = Seeded[u].val
    BY <2>2
  <2> QED BY <2>4, <2>6, <2>7 DEF AReport
<1>8. ASSUME NEW k \in 1 .. Len(t.conversations), NEW m \in 1 .. Len(t.messages)
      PROVE  LET c == t.conversations[k] IN
             \E id \in DOMAIN db.messages : id[1] = {c[1], c[2]} /\ db.messages[id].key = <<c[1], c[2], t.messages[m]>>
  <2>1. PICK i \in 1 .. w : \E j \in 1 .. i - 1 :
          /\ Seeded[i].op = "message.send" /\ Seeded[i].row \in Seeded[j].save
          /\ <<Seeded[j].by, Seeded[j].on>> = t.conversations[k]
          /\ Seeded[i].val = <<Seeded[j].by, Seeded[j].on, t.messages[m]>>
    <3>1. \A b \in 1 .. Len(t.conversations), n \in 1 .. Len(t.messages) : \E i \in 1 .. w : \E j \in 1 .. i - 1 :
            /\ Seeded[i].op = "message.send" /\ Seeded[i].row \in Seeded[j].save
            /\ <<Seeded[j].by, Seeded[j].on>> = t.conversations[b]
            /\ Seeded[i].val = <<Seeded[j].by, Seeded[j].on, t.messages[n]>>
      BY <1>1 DEF SeedDeclares
    <3> QED BY <1>8, <3>1
  <2>2. PICK j \in 1 .. i - 1 :
          /\ Seeded[i].op = "message.send" /\ Seeded[i].row \in Seeded[j].save
          /\ <<Seeded[j].by, Seeded[j].on>> = t.conversations[k]
          /\ Seeded[i].val = <<Seeded[j].by, Seeded[j].on, t.messages[m]>>
    BY <2>1
  <2>3. i \in DOMAIN Seeded /\ j \in DOMAIN Seeded /\ j < i /\ i \in 1 .. p /\ j \in 1 .. p
    BY <1>2, <1>3
  <2>4. Posts(i, j)
    BY <2>2, <2>3 DEF Posts
  <2>5. Sure(Seeded[j])
    BY <1>1, <2>2, <2>3 DEF SeedTalks
  <2>6. Seeded[j].op \in RowOps
    BY <1>1, <2>2, <2>3 DEF SeedNames, RowOps
  <2>7. Seeded[i].row \in DOMAIN z.kept
    BY <1>4, <2>2, <2>3, <2>5, <2>6 DEF Passed
  <2>8. Sent(db, i, j)
    BY <1>4, <2>3, <2>4, <2>7 DEF Passed
  <2>9. t.conversations[k][1] = Seeded[j].by /\ t.conversations[k][2] = Seeded[j].on
    BY <2>2
  <2> QED BY <2>2, <2>8, <2>9 DEF Sent
<1>9. MessagesDeclared(t)
  BY <1>8, Zenon DEF MessagesDeclared
<1>10. ProductsDeclared(t)
  BY <1>6 DEF ProductsDeclared
<1>11. ReportsDeclared(t)
  BY <1>7 DEF ReportsDeclared
<1> QED BY <1>9, <1>10, <1>11

-----------------------------------------------------------------------------
(* What one attempt of the seeder leaves out the next makes up for: the      *)
(* moderated accounts                                                        *)

\* The calls of the seeder that bring an attempt to the moderation: it gets
\* past test h only when it has created, in call g, a child of this root.
Past(g, h, l, root) ==
  /\ g \in Calls(Seeded, "createCategory") /\ h \in Calls(Seeded, "require") /\ l \in Calls(Seeded, "listUsers")
  /\ ModeratesPast(Seeded, g, h, l, root)
Child(g, root) == Append(<<root>>, Seeded[g].val)

Sanctions == {k \in DOMAIN Seeded : Seeded[k].op \in Moderations}
Targets == {Seeded[k].on : k \in Sanctions}
Suspends(q, tp) == q.op = "updateUserStatus" /\ q.on = tp

\* No attempt has asked yet for the status of an account to moderate.
Untouched(d, L) ==
  \A tp \in Targets : d.status[tp] \in {"none", "active"} /\ \A q \in L : ~Suspends(q, tp)

\* A category of the root's name is the root.
Rooted(d, root) ==
  /\ {"status", "categories", "warnings"} \subseteq DOMAIN d
  /\ \A c \in d.categories : (\E S : c \in Seq(S)) /\ (c[Len(c)] = root => c = <<root>>)
Suits(q, root) ==
  /\ q.op = "createCategory" /\ q.val = root => q.id = NoRow
  /\ q.op = "updateUserStatus" => q.val # "none"
  /\ \A k \in Sanctions : Suspends(q, Seeded[k].on) => q.val = Seeded[k].val

\* Before the child category there is no request for a status.
Gated(d, L, g, root) == Child(g, root) \in d.categories \/ Untouched(d, L)
Settled(d, L, g, root) == Rooted(d, root) /\ (\A q \in L : Suits(q, root)) /\ Gated(d, L, g, root)

\* What call k of the seeder is there for.
Reached(d, k) ==
  IF Seeded[k].op = "updateUserStatus" THEN d.status[Seeded[k].on] = Seeded[k].val
  ELSE \E id \in DOMAIN d.warnings : id[1] = Seeded[k].on

\* Of an attempt with these rows, its first p calls behind it: the one that has
\* created the child finds every account as it was before the moderation.
Named(kept) == \A n \in DOMAIN kept : \E j \in DOMAIN Seeded : Learns(Seeded[j], n)
KeepsRoot(kept, g, root) == Seeded[g].row \in DOMAIN kept => kept[Seeded[g].row].id = <<root>>
KeepsChild(d, L, kept, p, g, h, l, root) ==
  /\ Seeded[g].save \subseteq DOMAIN kept => Child(g, root) \in d.categories /\ (p < l => Untouched(d, L))
  /\ p >= h => Seeded[g].save \subseteq DOMAIN kept
KeepsSessions(d, kept) == \A tp \in Targets : <<tp>> \in DOMAIN kept => d.status[tp] # "none"
KeepsListed(kept, p, l) ==
  p >= l => \A k \in Sanctions : Seeded[k].row \in DOMAIN kept /\ kept[Seeded[k].row].status # Seeded[k].val
Sanctioned(d, p) == \A k \in Sanctions : k <= p => Reached(d, k)
Moderating(d, L, kept, p, g, h, l, root) ==
  /\ Named(kept) /\ KeepsRoot(kept, g, root) /\ KeepsChild(d, L, kept, p, g, h, l, root)
  /\ KeepsSessions(d, kept) /\ KeepsListed(kept, p, l) /\ Sanctioned(d, p)

GInv ==
  \A g, h, l, root : Past(g, h, l, root) =>
    /\ Settled(db, late, g, root)
    /\ Moderating(db, late, run["seeder"].kept, run["seeder"].pc - 1, g, h, l, root)

\* What the tables promise of an account to moderate.
LEMMA SanctionFacts ==
  ASSUME CInv, NEW g, NEW h, NEW l, NEW root, Past(g, h, l, root)
  PROVE  /\ g \in DOMAIN Seeded /\ h \in 1 .. Len(Seeded) /\ l \in 1 .. Len(Seeded) /\ CreatesChild(Seeded, g, h, root)
         /\ DOMAIN Seeded = 1 .. Len(Seeded) /\ Len(Seeded) \in Nat
         /\ \A k \in Sanctions : /\ k \in DOMAIN Seeded /\ Seeded[k].op \in Moderations /\ Moderated(Seeded, h, l, k)
                                 /\ h < l /\ l < k /\ Seeded[k].on \in Targets
                                 /\ Seeded[k].val \notin {"none", "active"}
         /\ \A tp \in Targets : /\ tp \in People \ {Alice}
                                /\ \E k \in Sanctions : Seeded[k].on = tp
<1>0. DOMAIN Seeded = 1 .. Len(Seeded) /\ Len(Seeded) \in Nat
  BY SeedFacts
<1>1. g \in DOMAIN Seeded /\ h \in DOMAIN Seeded /\ l \in DOMAIN Seeded /\ CreatesChild(Seeded, g, h, root)
      /\ \A k \in DOMAIN Seeded : Seeded[k].op \in Moderations => Moderated(Seeded, h, l, k)
  BY DEF Past, Calls, ModeratesPast
<1>2. \A k \in Sanctions : /\ k \in DOMAIN Seeded /\ Seeded[k].op \in Moderations /\ Moderated(Seeded, h, l, k)
  BY <1>1 DEF Sanctions
<1>3. \A k : Moderated(Seeded, h, l, k) =>
         h < l /\ l < k /\ Seeded[k].on \in People \ {Alice} /\ Seeded[k].val \notin {"none", "active"}
  BY DEF Moderated
<1> QED BY <1>0, <1>1, <1>2, <1>3 DEF Targets

\* What a request makes of an account's status.
LEMMA StatusServed ==
  ASSUME NEW d, DbOK(d), NEW q, NEW answer, answer = Serve(d, q), NEW e, e = answer.db, NEW p \in People
  PROVE  /\ \/ e.status[p] = d.status[p]
            \/ d.status[p] = "none" /\ e.status[p] = "active"
            \/ Suspends(q, p) /\ e.status[p] = q.val
         /\ q.op \in {"login", "verifyRegistrationOtp"} /\ answer.code = 201 /\ q.on = p => e.status[p] # "none"
         /\ Suspends(q, p) /\ answer.code = 200 => e.status[p] = q.val
<1>1. CASE q.op = "updateUserStatus"
  <2>1. /\ answer.code = 200 \/ e = d
        /\ answer.code = 200 => e.status = StatusSet(d, q)
    BY <1>1, updateUserStatusStep
  <2>2. p = q.on => StatusSet(d, q)[p] = q.val
    BY DEF DbOK, StatusSet
  <2>3. p # q.on => StatusSet(d, q)[p] = d.status[p]
    BY DEF DbOK, StatusSet
  <2> QED BY <1>1, <2>1, <2>2, <2>3 DEF Suspends
<1>2. CASE q.op = "verifyRegistrationOtp"
  <2> PICK f : f = [d EXCEPT !.status[q.on] = "active", !.pending = d.pending \ {q.on},
                             !.codes = d.codes \ {<<q.on, "registration">>}]
    OBVIOUS
  <2>1. "status" \in DOMAIN f /\ f.status = [d.status EXCEPT ![q.on] = "active"]
    BY DEF DbOK
  <2>2. answer = Handle(d, q) /\ Handle(d, q) = verifyRegistrationOtp(d, q)
    BY <1>2 DEF Serve, Denied, Handle, AuthPublic
  <2>3. \/ answer = Refuse(d, 400) \/ answer = Refuse(d, 409)
        \/ answer = generateTokens(f, q.on) /\ ~Exists(d, q.on)
    BY <2>2 DEF verifyRegistrationOtp
  <2>4. CASE answer = Refuse(d, 400) \/ answer = Refuse(d, 409)
    BY <1>2, <2>4 DEF Refuse, Reply, Suspends
  <2>5. CASE answer = generateTokens(f, q.on) /\ ~Exists(d, q.on)
    <3>0. StatusKept(f, generateTokens(f, q.on))
      BY <2>1, generateTokensStep
    <3>1. e.status = [d.status EXCEPT ![q.on] = "active"]
      BY <2>1, <2>5, <3>0 DEF StatusKept
    <3>2. q.on = p => d.status[p] = "none" /\ e.status[p] = "active"
      BY <2>5, <3>1 DEF Exists, DbOK
    <3>3. q.on # p => e.status[p] = d.status[p]
      BY <3>1 DEF DbOK
    <3> QED BY <1>2, <3>2, <3>3 DEF Suspends
  <2> QED BY <2>3, <2>4, <2>5
<1>3. CASE q.op \notin {"updateUserStatus", "verifyRegistrationOtp"}
  <2>1. answer = Handle(d, q) \/ answer = Refuse(d, Denied(q))
    BY DEF Serve
  <2>2. e.status = d.status
    BY <1>3, <2>1, HandleKeepsStatus, RefuseStep DEF StatusKept, DbOK
  <2>3. ASSUME q.op = "login", answer.code = 201
        PROVE  d.status[q.on] = "active"
    <3>1. answer = login(d, q)
      BY <2>3 DEF Serve, Denied, Handle, AuthPublic
    <3> QED BY <2>3, <3>1 DEF login, Refuse, Reply
  <2> QED BY <1>3, <2>2, <2>3 DEF Suspends
<1> QED BY <1>1, <1>2, <1>3

\* The category q asks for has been created.
CategoryAdded(d, q, answer) ==
  \E id : /\ q.op = "createCategory" /\ answer.code = 201 /\ answer.rows = {Row(id, q.val, NoKey)}
          /\ id \notin d.categories /\ answer.db.categories = d.categories \cup {id}
          /\ id = IF q.id = NoRow THEN <<q.val>> ELSE Append(q.id, q.val)
          /\ q.id # NoRow => q.id \in d.categories

LEMMA CategoriesServed ==
  ASSUME NEW d, "categories" \in DOMAIN d, NEW q, NEW answer, answer = Serve(d, q), NEW e, e = answer.db
  PROVE  \/ e.categories = d.categories /\ (q.op = "createCategory" => answer.code # 201)
         \/ CategoryAdded(d, q, answer)
<1>1. CASE q.op = "createCategory"
  <2> PICK id : id = IF q.id = NoRow THEN <<q.val>> ELSE Append(q.id, q.val)
    OBVIOUS
  <2> PICK f : f = [d EXCEPT !.categories = d.categories \cup {id}]
    OBVIOUS
  <2>1. \/ answer = Refuse(d, Denied(q)) \/ answer = createCategory(d, q)
    BY <1>1 DEF Serve, Handle
  <2>2. \/ \E code \in {401, 403, 404, 409} : answer = Refuse(d, code)
        \/ /\ answer = Reply(f, 201, {Row(id, q.val, NoKey)}) /\ id \notin d.categories
           /\ q.id # NoRow => q.id \in d.categories
    <3>1. (answer = Refuse(d, Denied(q)) /\ Denied(q) # 0) \/ answer = createCategory(d, q)
      BY <1>1 DEF Serve, Handle
    <3>2. Denied(q) \in {0, 401, 403}
      BY DEF Denied
    <3> QED BY <3>1, <3>2 DEF createCategory
  <2>3. CASE \E code \in {401, 403, 404, 409} : answer = Refuse(d, code)
    BY <2>3 DEF Refuse, Reply
  <2>4. CASE /\ answer = Reply(f, 201, {Row(id, q.val, NoKey)}) /\ id \notin d.categories
             /\ q.id # NoRow => q.id \in d.categories
    <3>1. answer.code = 201 /\ answer.rows = {Row(id, q.val, NoKey)} /\ answer.db = f
      BY <2>4 DEF Reply
    <3>2. f.categories = d.categories \cup {id}
      OBVIOUS
    <3>3. /\ q.op = "createCategory" /\ answer.code = 201 /\ answer.rows = {Row(id, q.val, NoKey)}
          /\ id \notin d.categories /\ answer.db.categories = d.categories \cup {id}
          /\ id = IF q.id = NoRow THEN <<q.val>> ELSE Append(q.id, q.val)
          /\ q.id # NoRow => q.id \in d.categories
      BY <1>1, <2>4, <3>1, <3>2
    <3> QED BY <3>3 DEF CategoryAdded
  <2> QED BY <2>2, <2>3, <2>4
<1>2. CASE q.op # "createCategory"
  <2>1. "categories" \notin Writes(q.op)
    BY <1>2 DEF Writes, OtherTables
  <2>2. e.categories = d.categories
    BY <2>1, ServeTouches DEF Touches
  <2> QED BY <1>2, <2>2
<1> QED BY <1>1, <1>2

LEMMA WarningsServed ==
  ASSUME NEW d, "warnings" \in DOMAIN d, NEW q, NEW answer, answer = Serve(d, q), NEW e, e = answer.db
  PROVE  /\ DOMAIN d.warnings \subseteq DOMAIN e.warnings
         /\ q.op = "createWarning" /\ answer.code = 201 => \E id \in DOMAIN e.warnings : id[1] = q.on
<1>1. CASE q.op = "createWarning"
  <2> PICK id : id = FreshId(d.warnings, q.on)
    OBVIOUS
  <2> PICK f : f = [d EXCEPT !.warnings = AddRow(d.warnings, id, q.val)]
    OBVIOUS
  <2>1. \/ \E code \in {401, 403, 404} : answer = Refuse(d, code)
        \/ answer = Reply(f, 201, {Row(id, q.val, NoKey)})
    <3>1. (answer = Refuse(d, Denied(q)) /\ Denied(q) # 0) \/ answer = createWarning(d, q)
      BY <1>1 DEF Serve, Handle
    <3>2. Denied(q) \in {0, 401, 403}
      BY DEF Denied
    <3> QED BY <3>1, <3>2 DEF createWarning
  <2>2. f.warnings = AddRow(d.warnings, id, q.val)
    OBVIOUS
  <2>3. DOMAIN d.warnings \subseteq DOMAIN f.warnings /\ id \in DOMAIN f.warnings /\ id[1] = q.on
    BY <2>2 DEF AddRow, FreshId
  <2>4. CASE answer = Reply(f, 201, {Row(id, q.val, NoKey)})
    BY <2>3, <2>4 DEF Reply
  <2>5. CASE \E code \in {401, 403, 404} : answer = Refuse(d, code)
    BY <2>5 DEF Refuse, Reply
  <2> QED BY <2>1, <2>4, <2>5
<1>2. CASE q.op # "createWarning"
  <2>1. "warnings" \notin Writes(q.op)
    BY <1>2 DEF Writes, OtherTables
  <2>2. e.warnings = d.warnings
    BY <2>1, ServeTouches DEF Touches
  <2> QED BY <1>2, <2>2
<1> QED BY <1>1, <1>2

\* What the listings the moderation goes by show.
LEMMA UsersListed ==
  ASSUME NEW d, NEW q, q.op = "listUsers", NEW answer, answer = Serve(d, q), answer.code = 200
  PROVE  answer.db = d /\ answer.rows = {Row(NoRow, p, d.status[p]) : p \in {r \in People : Exists(d, r)}}
<1>1. (answer = Refuse(d, Denied(q)) /\ Denied(q) # 0) \/ answer = listUsers(d, q)
  BY DEF Serve, Handle
<1>2. Denied(q) \in {0, 401, 403}
  BY DEF Denied
<1>3. answer = listUsers(d, q)
  BY <1>1, <1>2 DEF Refuse, Reply
<1> QED BY <1>3 DEF listUsers, Reply

LEMMA CategoriesListed ==
  ASSUME NEW d, NEW q, q.op = "listCategories", NEW answer, answer = Serve(d, q)
  PROVE  answer.db = d /\ answer.rows = {Row(c, c[Len(c)], NoKey) : c \in d.categories}
<1>1. answer = listCategories(d, q)
  BY DEF Serve, Denied, Handle, AuthPublic, OpenReads
<1> QED BY <1>1 DEF listCategories, Reply

-----------------------------------------------------------------------------
(* What holds of the moderation holds whatever is served *)

LEMMA RootedStays ==
  ASSUME NEW d, NEW root, Rooted(d, root), NEW q, Suits(q, root), NEW e, e = Serve(d, q).db
  PROVE  Rooted(e, root) /\ d.categories \subseteq e.categories
<1> PICK answer : answer = Serve(d, q)
  OBVIOUS
<1>1. {"status", "categories", "warnings"} \subseteq DOMAIN e
  BY ServeTouches DEF Rooted, Touches
<1>2. CASE e.categories = d.categories
  BY <1>1, <1>2 DEF Rooted
<1>3. CASE CategoryAdded(d, q, answer)
  <2>1. PICK id : /\ q.op = "createCategory" /\ e.categories = d.categories \cup {id}
                  /\ id = IF q.id = NoRow THEN <<q.val>> ELSE Append(q.id, q.val)
                  /\ q.id # NoRow => q.id \in d.categories
    BY <1>3 DEF CategoryAdded
  <2>2. CASE q.id = NoRow
    <3>1. id = <<q.val>> /\ id \in Seq({q.val}) /\ id[Len(id)] = q.val
      BY <2>1, <2>2
    <3>2. (\E S : id \in Seq(S)) /\ (id[Len(id)] = root => id = <<root>>)
      BY <3>1
    <3> QED BY <1>1, <2>1, <3>2 DEF Rooted
  <2>3. CASE q.id # NoRow
    <3>1. PICK S : q.id \in Seq(S)
      BY <2>1, <2>3 DEF Rooted
    <3>2. PICK T : T = S \cup {q.val}
      OBVIOUS
    <3>3. q.id \in Seq(T) /\ q.val \in T
      BY <3>1, <3>2
    <3>4. id = Append(q.id, q.val) /\ id \in Seq(T) /\ id[Len(id)] = q.val
      BY <2>1, <2>3, <3>3
    <3>5. q.val # root
      BY <2>1, <2>3 DEF Suits
    <3> QED BY <1>1, <2>1, <3>4, <3>5 DEF Rooted
  <2> QED BY <2>2, <2>3
<1>4. e = answer.db /\ "categories" \in DOMAIN d
  BY DEF Rooted
<1>5. e.categories = d.categories \/ CategoryAdded(d, q, answer)
  BY <1>4, CategoriesServed
<1>6. d.categories \subseteq e.categories
  BY <1>4, <1>5 DEF CategoryAdded
<1> QED BY <1>2, <1>3, <1>5, <1>6

LEMMA UntouchedStays ==
  ASSUME NEW d, DbOK(d), Targets \subseteq People, NEW L, Untouched(d, L), NEW M, M \subseteq L,
         NEW q, \A tp \in Targets : ~Suspends(q, tp), NEW e, e = Serve(d, q).db
  PROVE  Untouched(e, M)
<1> SUFFICES ASSUME NEW tp \in Targets PROVE e.status[tp] \in {"none", "active"} /\ \A p \in M : ~Suspends(p, tp)
  BY DEF Untouched
<1>1. d.status[tp] \in {"none", "active"} /\ \A p \in L : ~Suspends(p, tp)
  BY DEF Untouched
<1>2. tp \in People /\ ~Suspends(q, tp)
  OBVIOUS
<1>3. e.status[tp] = d.status[tp] \/ e.status[tp] = "active"
  BY <1>2, StatusServed
<1> QED BY <1>1, <1>3

\* A request for a status has been made before, or past the listing of an
\* attempt that has created the child.
InTurn(d, L, q, p, g, l, root) ==
  \A tp \in Targets : Suspends(q, tp) => q \in L \/ (Child(g, root) \in d.categories /\ p >= l)

LEMMA ModeratingStays ==
  ASSUME CInv, NEW g, NEW h, NEW l, NEW root, Past(g, h, l, root), NEW d, DbOK(d), NEW L, Settled(d, L, g, root),
         NEW kept, NEW p \in Int, Moderating(d, L, kept, p, g, h, l, root),
         NEW q, Suits(q, root), InTurn(d, L, q, p, g, l, root), NEW e, e = Serve(d, q).db
  PROVE  Settled(e, L, g, root) /\ Moderating(e, L, kept, p, g, h, l, root)
<1> PICK c : c = Child(g, root)
  OBVIOUS
<1>0. /\ Targets \subseteq People /\ l \in Int
      /\ \A k \in Sanctions : Seeded[k].on \in Targets /\ Seeded[k].val \notin {"none", "active"}
      /\ \A k \in Sanctions : Seeded[k].op \in Moderations
  BY SanctionFacts
<1>1. Rooted(d, root) /\ (\A m \in L : Suits(m, root)) /\ (c \in d.categories \/ Untouched(d, L))
  BY DEF Settled, Gated
<1>2. Rooted(e, root) /\ d.categories \subseteq e.categories
  BY <1>1, RootedStays
<1>3. ASSUME Untouched(d, L), p < l \/ c \notin d.categories
      PROVE  Untouched(e, L)
  <2>1. \A tp \in Targets : ~Suspends(q, tp)
    BY <1>0, <1>3 DEF Untouched, InTurn
  <2> QED BY <1>0, <1>3, <2>1, UntouchedStays
<1>4. c \in e.categories \/ Untouched(e, L)
  BY <1>1, <1>2, <1>3
<1>5. Settled(e, L, g, root)
  BY <1>1, <1>2, <1>4 DEF Settled, Gated
<1>6. KeepsChild(e, L, kept, p, g, h, l, root)
  BY <1>2, <1>3 DEF Moderating, KeepsChild
<1>7. ASSUME NEW tp \in Targets
      PROVE  /\ \/ e.status[tp] = d.status[tp]
                \/ d.status[tp] = "none" /\ e.status[tp] = "active"
                \/ Suspends(q, tp) /\ e.status[tp] = q.val
             /\ Suspends(q, tp) => q.val # "none"
  <2>1. tp \in People
    BY <1>0
  <2>2. \/ e.status[tp] = d.status[tp]
        \/ d.status[tp] = "none" /\ e.status[tp] = "active"
        \/ Suspends(q, tp) /\ e.status[tp] = q.val
    BY <2>1, StatusServed
  <2>3. Suspends(q, tp) => q.val # "none"
    BY DEF Suits, Suspends
  <2> QED BY <2>2, <2>3
<1>8. KeepsSessions(e, kept)
  BY <1>7 DEF Moderating, KeepsSessions
<1>9. ASSUME NEW k \in Sanctions, Reached(d, k)
      PROVE  Reached(e, k)
  <2>1. CASE Seeded[k].op = "updateUserStatus"
    <3> PICK tp : tp = Seeded[k].on
      OBVIOUS
    <3>1. d.status[tp] = Seeded[k].val /\ tp \in Targets /\ d.status[tp] # "none"
      BY <1>0, <1>9, <2>1 DEF Reached
    <3>2. Suspends(q, tp) => q.val = Seeded[k].val
      BY DEF Suits
    <3>3. e.status[tp] = Seeded[k].val
      BY <1>7, <3>1, <3>2
    <3> QED BY <2>1, <3>3 DEF Reached
  <2>2. CASE Seeded[k].op # "updateUserStatus"
    <3>1. DOMAIN d.warnings \subseteq DOMAIN e.warnings
      BY <1>1, WarningsServed DEF Rooted
    <3> QED BY <1>9, <2>2, <3>1 DEF Reached
  <2> QED BY <2>1, <2>2
<1>10. Sanctioned(e, p)
  BY <1>9 DEF Moderating, Sanctioned
<1>11. Named(kept) /\ KeepsRoot(kept, g, root) /\ KeepsListed(kept, p, l)
  BY DEF Moderating
<1> QED BY <1>5, <1>6, <1>8, <1>10, <1>11 DEF Moderating

-----------------------------------------------------------------------------
(* What an answer adds to what the seeder knows of the moderation *)

LEMMA RootLearnt ==
  ASSUME CInv, NEW g, NEW h, NEW l, NEW root, Past(g, h, l, root), NEW d, Rooted(d, root), NEW x,
         NEW v \in DOMAIN Seeded, NEW step, step = Seeded[v], step.op # "require",
         NEW q, q = RequestOf(x, step), Suits(q, root), NEW answer, answer = Serve(d, q),
         NEW y, KeptAfter(x, y, step, answer.code, answer.rows), KeepsRoot(x.kept, g, root)
  PROVE  KeepsRoot(y.kept, g, root)
<1>0. q.op = step.op /\ (step.op # "login" => q.val = step.val)
  BY DEF RequestOf
<1>1. CreatesChild(Seeded, g, h, root)
  BY SanctionFacts
<1> PICK n : n = Seeded[g].row
  OBVIOUS
<1> SUFFICES ASSUME n \in DOMAIN y.kept PROVE y.kept[n].id = <<root>>
  BY DEF KeepsRoot
<1>2. CASE n \in DOMAIN x.kept /\ y.kept[n] = x.kept[n]
  BY <1>2 DEF KeepsRoot
<1>3. CASE answer.code \in step.expect /\ n \in step.save /\ answer.rows # {} /\ y.kept[n] = Newest(answer.rows)
  <2>1. step.op = "createCategory" /\ step.val = root /\ answer.code = 201
    BY <1>1, <1>3 DEF CreatesChild
  <2>2. CategoryAdded(d, q, answer)
    BY <1>0, <2>1, CategoriesServed DEF Rooted
  <2>3. q.id = NoRow /\ q.val = root
    BY <1>0, <2>1 DEF Suits
  <2>4. answer.rows = {Row(<<root>>, root, NoKey)}
    BY <2>2, <2>3 DEF CategoryAdded
  <2>5. y.kept[n] = Row(<<root>>, root, NoKey)
    BY <1>3, <2>4, NewestOne
  <2> QED BY <2>5 DEF Row
<1>4. CASE answer.code \in step.expect /\ Found(x, step, n, answer.rows, y.kept[n])
  <2>1. PICK f \in step.find : /\ f[1] = n /\ Matches(x, step, f[2], answer.rows) # {}
                               /\ y.kept[n] = Newest(Matches(x, step, f[2], answer.rows))
    BY <1>4 DEF Found
  <2>2. step.op = "listCategories" /\ f[2] = root /\ root # "any"
    BY <1>1, <2>1 DEF CreatesChild
  <2>3. Matches(x, step, f[2], answer.rows) = {row \in answer.rows : row.key = root}
    BY <2>2 DEF Matches
  <2>4. answer.rows = {Row(c, c[Len(c)], NoKey) : c \in d.categories}
    BY <1>0, <2>2, CategoriesListed
  <2>5. ASSUME NEW row \in answer.rows, row.key = root
        PROVE  row = Row(<<root>>, root, NoKey)
    <3>1. PICK c \in d.categories : row = Row(c, c[Len(c)], NoKey)
      BY <2>4
    <3>2. c[Len(c)] = root
      BY <2>5, <3>1 DEF Row
    <3>3. c = <<root>>
      BY <3>2 DEF Rooted
    <3> QED BY <3>1, <3>2, <3>3
  <2>6. Matches(x, step, f[2], answer.rows) = {Row(<<root>>, root, NoKey)}
    BY <2>1, <2>3, <2>5
  <2>7. y.kept[n] = Row(<<root>>, root, NoKey)
    BY <2>1, <2>6, NewestOne
  <2> QED BY <2>7 DEF Row
<1> QED BY <1>2, <1>3, <1>4 DEF KeptAfter

\* An attempt that has created the child finds the accounts untouched.
LEMMA ChildLearnt ==
  ASSUME CInv, NEW g, NEW h, NEW l, NEW root, Past(g, h, l, root), NEW d, DbOK(d), NEW L, Settled(d, L, g, root), NEW x,
         NEW v \in DOMAIN Seeded, NEW step, step = Seeded[v], step.op # "require", step.needs \subseteq DOMAIN x.kept,
         NEW q, q = RequestOf(x, step), NEW answer, answer = Serve(d, q), answer.code \in step.expect, NEW e, e = answer.db,
         NEW y, KeptAfter(x, y, step, answer.code, answer.rows), DOMAIN x.kept \subseteq DOMAIN y.kept,
         KeepsRoot(x.kept, g, root), KeepsChild(e, L, x.kept, v - 1, g, h, l, root)
  PROVE  KeepsChild(e, L, y.kept, v, g, h, l, root)
<1>0. /\ q.op = step.op /\ (step.op # "login" => q.val = step.val) /\ q.id = RowIn(x, step.row)
  BY DEF RequestOf
<1>1. /\ CreatesChild(Seeded, g, h, root) /\ g \in DOMAIN Seeded /\ Targets \subseteq People
      /\ h \in Int /\ l \in Int /\ v \in Int
  BY SanctionFacts
<1>2. Seeded[g].op = "createCategory" /\ Seeded[h].op = "require"
  BY DEF Past, Calls
<1>3. PICK name : /\ Seeded[g].save = {name}
                  /\ \A j \in DOMAIN Seeded : Learns(Seeded[j], name) => j = g \/ Seeded[j].op = "require"
  BY <1>1 DEF CreatesChild
<1>4. v >= h => Seeded[g].save \subseteq DOMAIN y.kept
  <2>1. v # h
    BY <1>2
  <2>2. v >= h => v - 1 >= h
    BY <1>1, <2>1
  <2> QED BY <2>2 DEF KeepsChild
<1>5. CASE name \in DOMAIN x.kept
  <2>1. Child(g, root) \in e.categories /\ (v - 1 < l => Untouched(e, L))
    BY <1>3, <1>5 DEF KeepsChild
  <2>2. v < l => v - 1 < l
    BY <1>1
  <2> QED BY <1>4, <2>1, <2>2 DEF KeepsChild
<1>6. CASE name \notin DOMAIN x.kept /\ name \in DOMAIN y.kept
  <2>1. Learns(step, name)
    BY <1>6 DEF KeptAfter, Found, Learns
  <2>2. v = g
    BY <1>3, <2>1
  <2>3. answer.code = 201 /\ step.row \in DOMAIN x.kept /\ Seeded[g] = step
    BY <1>1, <2>2 DEF CreatesChild
  <2>4. CategoryAdded(d, q, answer)
    BY <1>0, <1>2, <2>3, CategoriesServed DEF Settled, Rooted
  <2>5. q.id = <<root>> /\ q.id # NoRow /\ q.val = Seeded[g].val
    <3>1. q.id = x.kept[step.row].id /\ q.val = step.val
      BY <1>0, <1>2, <2>3 DEF RowIn
    <3>2. q.id = <<root>>
      BY <2>3, <3>1 DEF KeepsRoot
    <3>3. Len(<<root>>) = 1 /\ Len(NoRow) = 2
      BY DEF NoRow
    <3> QED BY <2>3, <3>1, <3>2, <3>3
  <2>6. Child(g, root) \in e.categories /\ Child(g, root) \notin d.categories
    BY <2>4, <2>5 DEF CategoryAdded, Child
  <2>7. Untouched(d, L) /\ \A tp \in Targets : ~Suspends(q, tp)
    BY <1>0, <1>2, <2>3, <2>6 DEF Settled, Gated, Suspends
  <2>8. Untouched(e, L)
    BY <1>1, <2>7, UntouchedStays
  <2> QED BY <1>4, <2>6, <2>8 DEF KeepsChild
<1>7. CASE name \notin DOMAIN y.kept
  BY <1>3, <1>4, <1>7 DEF KeepsChild
<1> QED BY <1>5, <1>6, <1>7

LEMMA SessionsLearnt ==
  ASSUME CInv, NEW g, NEW h, NEW l, NEW root, Past(g, h, l, root), NEW d, DbOK(d), NEW x,
         NEW v \in DOMAIN Seeded, NEW step, step = Seeded[v], NEW q, q = RequestOf(x, step),
         NEW answer, answer = Serve(d, q), NEW e, e = answer.db,
         NEW y, KeptAfter(x, y, step, answer.code, answer.rows), KeepsSessions(e, x.kept)
  PROVE  KeepsSessions(e, y.kept)
<1>0. q.op = step.op /\ q.on = step.on
  BY DEF RequestOf
<1> SUFFICES ASSUME NEW tp \in Targets, <<tp>> \in DOMAIN y.kept PROVE e.status[tp] # "none"
  BY DEF KeepsSessions
<1>1. PICK k \in Sanctions : Seeded[k].on = tp
  BY SanctionFacts
<1>2. Moderated(Seeded, h, l, k) /\ tp \in People
  BY SanctionFacts
<1>3. /\ <<tp>> \in step.save => step.op \in {"login", "verifyRegistrationOtp"} /\ step.on = tp /\ step.expect = {201}
      /\ \A f \in step.find : f[1] # <<tp>>
  BY <1>1, <1>2 DEF Moderated
<1>4. CASE <<tp>> \in DOMAIN x.kept
  BY <1>4 DEF KeepsSessions
<1>5. CASE <<tp>> \in step.save /\ answer.code \in step.expect
  <2>1. q.op \in {"login", "verifyRegistrationOtp"} /\ q.on = tp /\ answer.code = 201
    BY <1>0, <1>3, <1>5
  <2> QED BY <1>2, <2>1, StatusServed
<1>6. CASE Found(x, step, <<tp>>, answer.rows, y.kept[<<tp>>])
  BY <1>3, <1>6 DEF Found
<1> QED BY <1>4, <1>5, <1>6 DEF KeptAfter

\* The listing shows every account that is to be moderated, and shows it active.
LEMMA ListedLearnt ==
  ASSUME CInv, NEW g, NEW h, NEW l, NEW root, Past(g, h, l, root), NEW d, NEW L, NEW x,
         NEW v \in DOMAIN Seeded, NEW step, step = Seeded[v], NEW q, q = RequestOf(x, step),
         NEW answer, answer = Serve(d, q), answer.code \in step.expect, NEW e, e = answer.db,
         NEW y, KeptAfter(x, y, step, answer.code, answer.rows), Learned(x, y, step, answer.rows),
         KeepsChild(e, L, x.kept, v - 1, g, h, l, root), KeepsSessions(e, x.kept), KeepsListed(x.kept, v - 1, l),
         Passed(e, x.kept, v - 1)
  PROVE  KeepsListed(y.kept, v, l)
<1>0. q.op = step.op
  BY DEF RequestOf
<1> SUFFICES ASSUME v >= l, NEW k \in Sanctions
             PROVE  Seeded[k].row \in DOMAIN y.kept /\ y.kept[Seeded[k].row].status # Seeded[k].val
  BY DEF KeepsListed
<1> PICK n, tp : n = Seeded[k].row /\ tp = Seeded[k].on
  OBVIOUS
<1>1. /\ Moderated(Seeded, h, l, k) /\ k \in DOMAIN Seeded /\ h < l /\ l < k /\ tp \in People /\ tp \in Targets
      /\ Seeded[k].val \notin {"none", "active"} /\ h \in Int /\ l \in Int /\ v \in Int /\ l \in DOMAIN Seeded
      /\ DOMAIN Seeded = 1 .. Len(Seeded) /\ Len(Seeded) \in Nat /\ 1 <= h
  BY SanctionFacts
<1>2. /\ \A j \in DOMAIN Seeded : Learns(Seeded[j], n) => j = l
      /\ n \notin Seeded[l].save /\ <<n, tp>> \in Seeded[l].find
      /\ \A f \in Seeded[l].find : f[1] = n => f[2] = tp
      /\ \E u \in 1 .. l - 1 : Seeded[u].op = "verifyRegistrationOtp" /\ Sure(Seeded[u]) /\ Seeded[u].save = {<<tp>>}
  BY <1>1 DEF Moderated
<1>3. CASE v # l
  <2>1. v - 1 >= l /\ ~Learns(step, n)
    BY <1>1, <1>2, <1>3
  <2>2. n \in DOMAIN x.kept /\ x.kept[n].status # Seeded[k].val
    BY <2>1 DEF KeepsListed
  <2>3. n \in DOMAIN y.kept /\ y.kept[n] = x.kept[n]
    BY <2>1, <2>2 DEF KeptAfter, Learned, Learns, Found
  <2> QED BY <2>2, <2>3
<1>4. CASE v = l
  <2>1. step.op = "listUsers" /\ step.expect = {200} /\ step = Seeded[l]
    BY <1>4 DEF Past, Calls, ModeratesPast
  <2>2. e = d /\ answer.rows = {Row(NoRow, p, d.status[p]) : p \in {r \in People : Exists(d, r)}}
    BY <1>0, <2>1, UsersListed
  <2>3. PICK u \in 1 .. l - 1 : Seeded[u].op = "verifyRegistrationOtp" /\ Sure(Seeded[u]) /\ Seeded[u].save = {<<tp>>}
    BY <1>2
  <2>4. <<tp>> \in DOMAIN x.kept
    <3>1. u \in 1 .. v - 1
      BY <1>1, <1>4
    <3> QED BY <2>3, <3>1 DEF Passed, RowOps
  <2>5. e.status[tp] # "none"
    BY <1>1, <2>4 DEF KeepsSessions
  <2>6. e.status[tp] \in {"none", "active"}
    <3>1. v - 1 >= h /\ v - 1 < l
      BY <1>1, <1>4
    <3>2. Untouched(e, L)
      BY <3>1 DEF KeepsChild
    <3> QED BY <1>1, <3>2 DEF Untouched
  <2>7. e.status[tp] = "active" /\ Exists(d, tp)
    BY <1>1, <2>2, <2>5, <2>6 DEF Exists
  <2> PICK row : row = Row(NoRow, tp, "active")
    OBVIOUS
  <2>8. \A f \in step.find : f[1] = n => Matches(x, step, f[2], answer.rows) = {row}
    <3>1. ASSUME NEW other \in answer.rows, other.key = tp
          PROVE  other = row
      <4>1. PICK p \in People : other = Row(NoRow, p, d.status[p])
        BY <2>2, <3>1
      <4>2. p = tp
        BY <3>1, <4>1 DEF Row
      <4> QED BY <2>2, <2>7, <4>1, <4>2
    <3>2. row \in answer.rows /\ row.key = tp
      BY <1>1, <2>2, <2>7 DEF Row
    <3>3. {other \in answer.rows : other.key = tp} = {row}
      BY <3>1, <3>2
    <3>4. Matches(x, step, tp, answer.rows) = {other \in answer.rows : other.key = tp}
      BY <2>1 DEF Matches
    <3> QED BY <1>2, <2>1, <3>3, <3>4
  <2>9. PICK f \in step.find : f[1] = n /\ Matches(x, step, f[2], answer.rows) # {}
    <3>1. <<n, tp>> \in step.find /\ <<n, tp>>[1] = n
      BY <1>2, <2>1
    <3> QED BY <2>8, <3>1
  <2>10. n \in DOMAIN y.kept /\ Found(x, step, n, answer.rows, y.kept[n])
    BY <2>9 DEF Learned
  <2>11. y.kept[n] = row
    BY <2>8, <2>10, NewestOne DEF Found
  <2> QED BY <1>1, <2>10, <2>11 DEF Row
<1> QED BY <1>3, <1>4

\* An accepted call of the moderation has done what it is there for.
LEMMA SanctionDone ==
  ASSUME CInv, NEW g, NEW h, NEW l, NEW root, Past(g, h, l, root), NEW d, DbOK(d), Rooted(d, root), NEW x,
         NEW v \in DOMAIN Seeded, NEW step, step = Seeded[v], NEW q, q = RequestOf(x, step),
         NEW answer, answer = Serve(d, q), answer.code \in step.expect, NEW e, e = answer.db, Sanctioned(e, v - 1)
  PROVE  Sanctioned(e, v)
<1>0. q.op = step.op /\ q.on = step.on /\ (step.op # "login" => q.val = step.val)
  BY DEF RequestOf
<1> SUFFICES ASSUME NEW k \in Sanctions, k <= v PROVE Reached(e, k)
  BY DEF Sanctioned
<1>1. /\ Moderated(Seeded, h, l, k) /\ k \in Int /\ v \in Int /\ Seeded[k].on \in People
      /\ Seeded[k].op \in {"updateUserStatus", "createWarning"}
  BY SanctionFacts DEF Moderations
<1>2. CASE k # v
  <2>1. k <= v - 1
    BY <1>1, <1>2
  <2> QED BY <2>1 DEF Sanctioned
<1>3. CASE k = v /\ step.op = "updateUserStatus"
  <2>1. answer.code = 200 /\ Suspends(q, step.on)
    BY <1>0, <1>1, <1>3 DEF Moderated, Suspends
  <2>2. e.status[step.on] = step.val
    BY <1>0, <1>1, <1>3, <2>1, StatusServed
  <2> QED BY <1>3, <2>2 DEF Reached
<1>4. CASE k = v /\ step.op = "createWarning"
  <2>1. answer.code = 201 /\ q.op = "createWarning" /\ q.on = step.on
    BY <1>0, <1>1, <1>4 DEF Moderated
  <2>2. \E id \in DOMAIN e.warnings : id[1] = step.on
    BY <2>1, WarningsServed DEF Rooted
  <2> QED BY <1>4, <2>2 DEF Reached
<1> QED BY <1>1, <1>2, <1>3, <1>4

\* A call that is neither the test, nor the listing, nor of the moderation.
LEMMA QuietModerates ==
  ASSUME CInv, NEW g, NEW h, NEW l, NEW root, Past(g, h, l, root), NEW d, NEW L, NEW kept, NEW v \in DOMAIN Seeded,
         v # l, v \notin Sanctions, v = h => Seeded[g].save \subseteq DOMAIN kept,
         Moderating(d, L, kept, v - 1, g, h, l, root)
  PROVE  Moderating(d, L, kept, v, g, h, l, root)
<1>1. h \in Int /\ l \in Int /\ v \in Int /\ \A k \in Sanctions : k \in Int
  BY SanctionFacts
<1>2. /\ v < l => v - 1 < l
      /\ v >= l => v - 1 >= l
      /\ v >= h => v = h \/ v - 1 >= h
      /\ \A k \in Sanctions : k <= v => k <= v - 1
  BY <1>1
<1>3. KeepsChild(d, L, kept, v, g, h, l, root)
  BY <1>2 DEF Moderating, KeepsChild
<1>4. KeepsListed(kept, v, l)
  BY <1>2 DEF Moderating, KeepsListed
<1>5. Sanctioned(d, v)
  BY <1>2 DEF Moderating, Sanctioned
<1> QED BY <1>3, <1>4, <1>5 DEF Moderating

LEMMA ModeratesOnceKept ==
  ASSUME CInv, NEW g, NEW h, NEW l, NEW root, Past(g, h, l, root), NEW k \in Sanctions, NEW kept,
         Seeded[k].row \in DOMAIN kept, kept[Seeded[k].row].status # Seeded[k].val
  PROVE  Applies(Seeded[k], kept)
<1>1. Moderated(Seeded, h, l, k)
  BY SanctionFacts
<1>2. Seeded[k].needs = {Seeded[k].row} /\ Seeded[k].lacks = {}
  BY <1>1 DEF Moderated
<1>3. Seeded[k].needs \subseteq DOMAIN kept
  BY <1>2
<1>4. Seeded[k].lacks \cap DOMAIN kept = {}
  BY <1>2
<1> QED BY <1>3, <1>4 DEF Applies

\* Test, listing and moderation are left out of no attempt.
LEMMA SkipModerates ==
  ASSUME CInv, NEW g, NEW h, NEW l, NEW root, Past(g, h, l, root), NEW d, NEW L, NEW kept, NEW p \in Nat, NEW w \in Nat,
         p <= w, w <= Len(Seeded), Moderating(d, L, kept, p, g, h, l, root),
         \A j \in p + 1 .. w : ~Applies(Seeded[j], kept)
  PROVE  Moderating(d, L, kept, w, g, h, l, root)
<1>1. /\ h \in 1 .. Len(Seeded) /\ l \in 1 .. Len(Seeded) /\ Len(Seeded) \in Nat /\ CreatesChild(Seeded, g, h, root)
      /\ \A k \in Sanctions : k \in 1 .. Len(Seeded) /\ l < k /\ Moderated(Seeded, h, l, k)
  BY SanctionFacts
<1>2. Applies(Seeded[h], kept) /\ Applies(Seeded[l], kept)
  BY <1>1 DEF Applies, CreatesChild, Past, ModeratesPast
<1>3. (w >= h => p >= h) /\ (w >= l => p >= l) /\ (w < l => p < l)
  BY <1>1, <1>2
<1>4. ASSUME NEW k \in Sanctions, k <= w
      PROVE  k <= p
  <2>1. p >= l
    BY <1>1, <1>3, <1>4
  <2>2. Seeded[k].row \in DOMAIN kept /\ kept[Seeded[k].row].status # Seeded[k].val
    BY <2>1 DEF Moderating, KeepsListed
  <2>3. Applies(Seeded[k], kept)
    BY <2>2, ModeratesOnceKept
  <2> QED BY <1>1, <1>4, <2>3
<1>5. KeepsChild(d, L, kept, w, g, h, l, root)
  BY <1>3 DEF Moderating, KeepsChild
<1>6. KeepsListed(kept, w, l)
  BY <1>3 DEF Moderating, KeepsListed
<1>7. Sanctioned(d, w)
  BY <1>4 DEF Moderating, Sanctioned
<1> QED BY <1>5, <1>6, <1>7 DEF Moderating

\* A program that has come to its end stays at its last call.
LEMMA EndModerates ==
  ASSUME CInv, NEW g, NEW h, NEW l, NEW root, Past(g, h, l, root), NEW d, NEW L, NEW kept, NEW v \in DOMAIN Seeded,
         Moderating(d, L, kept, v, g, h, l, root), \A j \in v + 1 .. Len(Seeded) : ~Applies(Seeded[j], kept)
  PROVE  Moderating(d, L, kept, v - 1, g, h, l, root)
<1>1. /\ h \in Int /\ l \in Int /\ v \in Int /\ Len(Seeded) \in Nat
      /\ \A k \in Sanctions : k \in 1 .. Len(Seeded) /\ l < k /\ Moderated(Seeded, h, l, k)
  BY SanctionFacts
<1>2. ASSUME v = l, Seeded[g].save \subseteq DOMAIN kept
      PROVE  Untouched(d, L)
  <2>1. ASSUME NEW k \in Sanctions
        PROVE  FALSE
    <3>1. v >= l
      BY <1>1, <1>2
    <3>2. Seeded[k].row \in DOMAIN kept /\ kept[Seeded[k].row].status # Seeded[k].val
      BY <3>1 DEF Moderating, KeepsListed
    <3>3. Applies(Seeded[k], kept)
      BY <3>2, ModeratesOnceKept
    <3> QED BY <1>1, <1>2, <3>3
  <2> QED BY <2>1 DEF Untouched, Targets
<1>3. /\ v - 1 < l => v < l \/ v = l
      /\ v - 1 >= h => v >= h
      /\ v - 1 >= l => v >= l
      /\ \A k \in Sanctions : k <= v - 1 => k <= v
  BY <1>1
<1>4. KeepsChild(d, L, kept, v - 1, g, h, l, root)
  BY <1>2, <1>3 DEF Moderating, KeepsChild
<1>5. KeepsListed(kept, v - 1, l)
  BY <1>3 DEF Moderating, KeepsListed
<1>6. Sanctioned(d, v - 1)
  BY <1>3 DEF Moderating, Sanctioned
<1> QED BY <1>4, <1>5, <1>6 DEF Moderating

LEMMA MovesModerate ==
  ASSUME CInv, NEW g, NEW h, NEW l, NEW root, Past(g, h, l, root), NEW x, x = run["seeder"], x.status = "running",
         x.pc \in DOMAIN Seeded, NEW y, Outcome(x, y), NEW n, n = Advance(y, Seeded), NEW d, NEW L,
         y.status # "next" => Moderating(d, L, y.kept, x.pc - 1, g, h, l, root),
         y.status = "next" => Moderating(d, L, y.kept, x.pc, g, h, l, root)
  PROVE  Moderating(d, L, n.kept, n.pc - 1, g, h, l, root)
<1>0. ScriptOf("seeder") = Seeded /\ DOMAIN Seeded = 1 .. Len(Seeded) /\ Len(Seeded) \in Nat
  BY SeedFacts
<1>1. /\ n.kept = y.kept /\ n.pc \in Nat /\ n.pc <= Len(Seeded)
      /\ y.status # "next" => n.pc = x.pc
      /\ y.status = "next" =>
           /\ \A i \in x.pc + 1 .. n.pc - 1 : ~Applies(Seeded[i], n.kept)
           /\ n.status = "running" => n.pc > x.pc
           /\ n.status = "done" => n.pc = x.pc /\ \A i \in x.pc + 1 .. Len(Seeded) : ~Applies(Seeded[i], n.kept)
           /\ n.status \in {"running", "done"}
  BY <1>0, MovesOn, RunnerNames
<1>2. CASE y.status # "next"
  BY <1>1, <1>2
<1>3. CASE y.status = "next" /\ n.status = "done"
  <2> PICK kept, v : kept = n.kept /\ v = x.pc
    OBVIOUS
  <2>1. Moderating(d, L, kept, v, g, h, l, root) /\ v \in DOMAIN Seeded
        /\ \A j \in v + 1 .. Len(Seeded) : ~Applies(Seeded[j], kept)
    BY <1>1, <1>3
  <2>2. Moderating(d, L, kept, v - 1, g, h, l, root)
    BY <2>1, EndModerates
  <2> QED BY <1>1, <1>3, <2>2
<1>4. CASE y.status = "next" /\ n.status = "running"
  <2> PICK p, w, kept : p = x.pc /\ w = n.pc - 1 /\ kept = n.kept
    OBVIOUS
  <2>1. p \in Nat /\ w \in Nat /\ p <= w /\ w <= Len(Seeded) /\ Moderating(d, L, kept, p, g, h, l, root)
        /\ \A j \in p + 1 .. w : ~Applies(Seeded[j], kept)
    BY <1>0, <1>1, <1>4
  <2>2. Moderating(d, L, kept, w, g, h, l, root)
    BY <2>1, SkipModerates
  <2> QED BY <2>2
<1> QED BY <1>1, <1>2, <1>3, <1>4

LEMMA ModeratingNothing ==
  ASSUME CInv, NEW g, NEW h, NEW l, NEW root, Past(g, h, l, root), NEW d, NEW L, NEW kept, DOMAIN kept = {},
         NEW p \in Int, p <= 0
  PROVE  Moderating(d, L, kept, p, g, h, l, root)
<1>1. /\ h \in 1 .. Len(Seeded) /\ l \in 1 .. Len(Seeded) /\ Len(Seeded) \in Nat /\ CreatesChild(Seeded, g, h, root)
      /\ \A k \in Sanctions : k \in 1 .. Len(Seeded)
  BY SanctionFacts
<1>2. ~(p >= h) /\ ~(p >= l) /\ \A k \in Sanctions : ~(k <= p)
  BY <1>1
<1>3. ~(Seeded[g].save \subseteq DOMAIN kept)
  BY <1>1 DEF CreatesChild
<1> QED BY <1>2, <1>3 DEF Moderating, Named, KeepsRoot, KeepsChild, KeepsSessions, KeepsListed, Sanctioned

-----------------------------------------------------------------------------
(* Every request of a program suits the moderation *)

\* The simulator has categories and a suspension of its own.
LEMMA SimulatorSuits ==
  ASSUME CInv, NEW r \in Runners, r # "seeder", run[r].status = "running", NEW q, q = RequestOf(run[r], StepOf(r)),
         NEW g, NEW h, NEW l, NEW root, Past(g, h, l, root)
  PROVE  Suits(q, root) /\ \A tp \in Targets : ~Suspends(q, tp)
<1> PICK step : step = StepOf(r)
  OBVIOUS
<1>0. /\ q.op = step.op /\ q.on = step.on /\ (step.op # "login" => q.val = step.val)
  BY DEF RequestOf
<1>1. CreatesChild(Seeded, g, h, root) /\ \A tp \in Targets : tp # Alice
  BY SanctionFacts
<1>2. step.op = "updateUserStatus" => step.on = Alice /\ step.val \in {"banned", "active"}
  BY StatusCalls, StepBan, StepLift
<1>3. step.op = "createCategory" => step.val \in SimCategories
  <2>1. Len(ScriptOf(r)) \in Nat /\ run[r].pc \in 1 .. Len(ScriptOf(r)) /\ DOMAIN ScriptOf(r) = 1 .. Len(ScriptOf(r))
    BY Scripts, ScriptLen DEF CInv, Runs, InScript
  <2>2. CASE r = "main"
    <3>1. step = MainScript[run[r].pc] /\ run[r].pc \in 1 .. Len(MainScript)
      BY <2>1, <2>2, Scripts DEF StepOf
    <3> QED BY <3>1, MainCalls, StepBan, StepLift DEF NoStatusCall
  <2>3. CASE r # "main"
    BY <2>1, <2>3, Scripts DEF StepOf, Harmless, NoStatusCall
  <2> QED BY <2>2, <2>3
<1>4. root \notin SimCategories
  BY <1>1 DEF CreatesChild
<1>5. \A tp \in Targets : ~Suspends(q, tp)
  BY <1>0, <1>1, <1>2 DEF Suspends
<1>6. \A k \in Sanctions : ~Suspends(q, Seeded[k].on)
  BY <1>5 DEF Targets
<1>7. q.op = "updateUserStatus" => q.val # "none"
  BY <1>0, <1>2
<1>8. ~(q.op = "createCategory" /\ q.val = root)
  BY <1>0, <1>3, <1>4
<1> QED BY <1>5, <1>6, <1>7, <1>8 DEF Suits

\* The seeder asks for its root without a parent, and for a status only past
\* its listing.
LEMMA SeederSuits ==
  ASSUME CInv, NEW g, NEW h, NEW l, NEW root, Past(g, h, l, root), NEW x, Named(x.kept),
         NEW v \in DOMAIN Seeded, NEW step, step = Seeded[v], NEW q, q = RequestOf(x, step)
  PROVE  /\ Suits(q, root)
         /\ \A tp \in Targets : Suspends(q, tp) => v \in Sanctions /\ v - 1 >= l
<1>0. /\ q.op = step.op /\ q.on = step.on /\ (step.op # "login" => q.val = step.val) /\ q.id = RowIn(x, step.row)
  BY DEF RequestOf
<1>1. /\ CreatesChild(Seeded, g, h, root) /\ l \in Int /\ v \in Int
      /\ \A k \in Sanctions : Moderated(Seeded, h, l, k) /\ l < k
  BY SanctionFacts
<1>2. q.op = "createCategory" /\ q.val = root => q.id = NoRow
  <2>1. SUFFICES ASSUME step.op = "createCategory", step.val = root PROVE RowIn(x, step.row) = NoRow
    BY <1>0
  <2>2. \A k \in DOMAIN Seeded : ~Learns(Seeded[k], step.row)
    BY <1>1, <2>1 DEF CreatesChild
  <2>3. step.row \notin DOMAIN x.kept
    BY <2>2 DEF Named
  <2> QED BY <2>3 DEF RowIn
<1>3. step.op = "updateUserStatus" => step.val # "none"
  <2> PICK n, s : n = scenario.tables /\ s = SeedScripts[n]
    OBVIOUS
  <2>1. n \in DOMAIN Tables /\ Seeded = s
    BY SeedFacts DEF Seeded
  <2>2. s[v].op = "updateUserStatus" => s[v].val \in {"active", "paused", "banned"}
    BY <2>1, SeedScriptAssumption
  <2> QED BY <2>1, <2>2
<1>4. ASSUME NEW k \in Sanctions, Suspends(q, Seeded[k].on)
      PROVE  q.val = Seeded[k].val
  <2>1. step.op = "updateUserStatus" /\ step.on = Seeded[k].on /\ q.val = step.val
    BY <1>0, <1>4 DEF Suspends
  <2>2. v \in Calls(Seeded, "updateUserStatus")
    BY <2>1 DEF Calls
  <2>3. Seeded[v].val = Seeded[k].val
    BY <1>1, <2>1, <2>2 DEF Moderated
  <2> QED BY <2>1, <2>3
<1>5. q.op = "updateUserStatus" => v \in Sanctions /\ v - 1 >= l
  <2>1. q.op = "updateUserStatus" => v \in Sanctions
    BY <1>0 DEF Sanctions, Moderations
  <2> QED BY <1>1, <2>1
<1>6. Suits(q, root)
  BY <1>0, <1>2, <1>3, <1>4 DEF Suits
<1> QED BY <1>5, <1>6 DEF Suspends

LEMMA NamedLearnt ==
  ASSUME NEW x, Named(x.kept), NEW v \in DOMAIN Seeded, NEW y, NEW code, NEW rows, KeptAfter(x, y, Seeded[v], code, rows)
  PROVE  Named(y.kept)
<1> SUFFICES ASSUME NEW n \in DOMAIN y.kept PROVE \E j \in DOMAIN Seeded : Learns(Seeded[j], n)
  BY DEF Named
<1>1. n \in DOMAIN x.kept \/ Learns(Seeded[v], n)
  BY DEF KeptAfter, Found, Learns
<1> QED BY <1>1 DEF Named

LEMMA SameModerates ==
  ASSUME NEW g, NEW h, NEW l, NEW root, NEW d, NEW L, NEW kept, NEW same, NEW p, Moderating(d, L, kept, p, g, h, l, root),
         DOMAIN same = DOMAIN kept, \A n \in DOMAIN kept : same[n] = kept[n]
  PROVE  Moderating(d, L, same, p, g, h, l, root)
<1>1. Named(same) /\ KeepsRoot(same, g, root) /\ KeepsChild(d, L, same, p, g, h, l, root)
  BY DEF Moderating, Named, KeepsRoot, KeepsChild
<1>2. KeepsSessions(d, same) /\ KeepsListed(same, p, l) /\ Sanctioned(d, p)
  BY DEF Moderating, KeepsSessions, KeepsListed
<1> QED BY <1>1, <1>2 DEF Moderating

\* A request of the seeder's that nobody has answered yet.
LEMMA AskedModerates ==
  ASSUME NEW g, NEW h, NEW l, NEW root, NEW d, NEW L, Settled(d, L, g, root),
         NEW kept, NEW p, Moderating(d, L, kept, p, g, h, l, root), NEW q, Suits(q, root), NEW M, M \subseteq L \cup {q},
         \A tp \in Targets : Suspends(q, tp) => Child(g, root) \in d.categories /\ ~(p < l)
  PROVE  Settled(d, M, g, root) /\ Moderating(d, M, kept, p, g, h, l, root)
<1>1. Rooted(d, root) /\ (\A m \in L : Suits(m, root)) /\ (Child(g, root) \in d.categories \/ Untouched(d, L))
  BY DEF Settled, Gated
<1>2. Untouched(d, L) /\ (p < l \/ Child(g, root) \notin d.categories) => Untouched(d, M)
  BY DEF Untouched
<1>3. Settled(d, M, g, root)
  BY <1>1, <1>2 DEF Settled, Gated
<1>4. KeepsChild(d, M, kept, p, g, h, l, root)
  BY <1>2 DEF Moderating, KeepsChild
<1> QED BY <1>3, <1>4 DEF Moderating

\* What the program goes on from without its answer is neither of these.
LEMMA UnansweredIsQuiet ==
  ASSUME CInv, NEW g, NEW h, NEW l, NEW root, Past(g, h, l, root), NEW v \in DOMAIN Seeded, Seeded[v].op # "require",
         NEW code, \/ code \in Seeded[v].forgive
                   \/ code \in Seeded[v].expect /\ code \in {0, 429}
  PROVE  v # h /\ v # l /\ v \notin Sanctions
<1>1. v # h
  BY DEF Past, Calls
<1>2. v # l
  BY DEF Past, ModeratesPast
<1>3. v \notin Sanctions
  <2>1. SUFFICES ASSUME v \in Sanctions PROVE FALSE
    OBVIOUS
  <2>2. Moderated(Seeded, h, l, v)
    BY <2>1, SanctionFacts
  <2>3. Seeded[v].expect \subseteq {200, 201} /\ Seeded[v].forgive = {}
    BY <2>2 DEF Moderated
  <2> QED BY <2>3
<1> QED BY <1>1, <1>2, <1>3

LEMMA UnansweredModerates ==
  ASSUME CInv, NEW g, NEW h, NEW l, NEW root, Past(g, h, l, root), NEW v \in DOMAIN Seeded, Seeded[v].op # "require",
         NEW code, \/ code \in Seeded[v].forgive
                   \/ code \in Seeded[v].expect /\ code \in {0, 429},
         NEW d, NEW L, NEW kept, Moderating(d, L, kept, v - 1, g, h, l, root)
  PROVE  Moderating(d, L, kept, v, g, h, l, root)
<1>1. v # h /\ v # l /\ v \notin Sanctions
  BY UnansweredIsQuiet
<1> QED BY <1>1, QuietModerates

\* What the seeder has seen to after an answer it expects.
LEMMA AnswerModerates ==
  ASSUME CInv, NEW g, NEW h, NEW l, NEW root, Past(g, h, l, root), NEW d, DbOK(d), NEW L, Settled(d, L, g, root), NEW x,
         NEW v \in DOMAIN Seeded, NEW step, step = Seeded[v], step.op # "require", step.needs \subseteq DOMAIN x.kept,
         NEW q, q = RequestOf(x, step), Suits(q, root),
         NEW answer, answer = Serve(d, q), answer.code \in step.expect, NEW e, e = answer.db,
         NEW y, KeptAfter(x, y, step, answer.code, answer.rows), Learned(x, y, step, answer.rows),
         Passed(e, x.kept, v - 1), Moderating(e, L, x.kept, v - 1, g, h, l, root)
  PROVE  Moderating(e, L, y.kept, v, g, h, l, root)
<1>0. DOMAIN x.kept \subseteq DOMAIN y.kept /\ Rooted(d, root)
  BY DEF Learned, Settled
<1>1. /\ Named(x.kept) /\ KeepsRoot(x.kept, g, root) /\ KeepsChild(e, L, x.kept, v - 1, g, h, l, root)
      /\ KeepsSessions(e, x.kept) /\ KeepsListed(x.kept, v - 1, l) /\ Sanctioned(e, v - 1)
  BY DEF Moderating
<1>2. Named(y.kept)
  BY <1>1, NamedLearnt
<1>3. KeepsRoot(y.kept, g, root)
  BY <1>0, <1>1, RootLearnt
<1>4. KeepsChild(e, L, y.kept, v, g, h, l, root)
  BY <1>0, <1>1, ChildLearnt
<1>5. KeepsSessions(e, y.kept)
  BY <1>1, SessionsLearnt
<1>6. KeepsListed(y.kept, v, l)
  BY <1>1, ListedLearnt
<1>7. Sanctioned(e, v)
  BY <1>0, <1>1, SanctionDone
<1> QED BY <1>2, <1>3, <1>4, <1>5, <1>6, <1>7 DEF Moderating

\* What the seeder has seen to after a call of its own.
LEMMA OwnCallModerates ==
  ASSUME CInv, SInv, Known, WInv, GInv, NEW code, NEW rows, Ended("seeder", code, rows), NEW e, e = db', NEW M, M = late',
         NEW n, n = run'["seeder"], NEW g, NEW h, NEW l, NEW root, Past(g, h, l, root)
  PROVE  Settled(e, M, g, root) /\ Moderating(e, M, n.kept, n.pc - 1, g, h, l, root)
<1> PICK x, v, step, q : x = run["seeder"] /\ v = x.pc /\ step = StepOf("seeder") /\ q = RequestOf(x, step)
  OBVIOUS
<1> PICK d, L : d = db /\ L = late
  OBVIOUS
<1>0. /\ x.status = "running" /\ v \in DOMAIN Seeded /\ step = Seeded[v] /\ step.op # "require"
      /\ TablesOK(db) /\ DbOK(d) /\ step.needs \subseteq DOMAIN x.kept /\ ScriptOf("seeder") = Seeded
      /\ DOMAIN Seeded = 1 .. Len(Seeded) /\ Len(Seeded) \in Nat
  <2>1. Chats /\ TablesOK(db) /\ x.status = "running" /\ step.op # "require" /\ step.needs \subseteq DOMAIN x.kept
    BY RunnerNames DEF SInv, Ended, Needing
  <2> QED BY <2>1, TradesOf, SeedFacts, RunnerNames DEF CInv, Accounts
<1>1. SeederHas(db, x.kept, v - 1) /\ Settled(d, L, g, root) /\ Moderating(d, L, x.kept, v - 1, g, h, l, root)
  BY DEF WInv, GInv
<1>2. Proper(db, q) /\ Fitting(db, q)
  BY <1>0, <1>1, CallProper, CallFits, RunnerNames DEF Known, SeederHas
<1>3. PICK y : Outcome(x, y) /\ CallKept("seeder", y, code, rows) /\ n = Advance(y, Seeded)
  BY <1>0, AfterCall, RunnerNames DEF Ended
<1>4. /\ KeptAfter(x, y, step, code, rows)
      /\ y.status = "next" /\ code \in step.expect => Learned(x, y, step, rows)
      /\ y.status # "next" => y.kept = x.kept
      /\ y.status = "next" /\ code \notin step.expect => code \in step.forgive /\ y.kept = x.kept
  BY <1>3 DEF CallKept
<1>5. Suits(q, root) /\ \A tp \in Targets : Suspends(q, tp) => v \in Sanctions /\ v - 1 >= l
  BY <1>0, <1>1, SeederSuits DEF Moderating
<1>6. /\ v - 1 \in Int /\ l \in Int
      /\ \A tp \in Targets : Suspends(q, tp) => Child(g, root) \in d.categories /\ v - 1 >= l /\ ~(v - 1 < l)
  <2>1. h \in Int /\ l \in Int /\ (v \in Sanctions => h < l)
    BY SanctionFacts
  <2>2. v \in Sanctions /\ v - 1 >= l => v - 1 >= h
    BY <1>0, <2>1
  <2> QED BY <1>0, <1>1, <1>5, <2>1, <2>2 DEF Moderating, KeepsChild
<1>7. ASSUME NEW answer, answer = Serve(d, q), code = answer.code, rows = answer.rows, e = answer.db, M = L
      PROVE  /\ Settled(e, M, g, root)
             /\ y.status # "next" => Moderating(e, M, y.kept, v - 1, g, h, l, root)
             /\ y.status = "next" => Moderating(e, M, y.kept, v, g, h, l, root)
  <2>0. InTurn(d, L, q, v - 1, g, l, root)
    BY <1>6 DEF InTurn
  <2>1. Settled(e, M, g, root) /\ Moderating(e, M, x.kept, v - 1, g, h, l, root)
    BY <1>0, <1>1, <1>5, <1>6, <1>7, <2>0, ModeratingStays
  <2>2. ASSUME y.status = "next", code \in step.expect
        PROVE  Moderating(e, M, y.kept, v, g, h, l, root)
    <3>1. v - 1 <= Len(Seeded)
      BY <1>0
    <3>2. Passed(e, x.kept, v - 1)
      BY <1>0, <1>1, <1>2, <1>6, <1>7, <3>1, HasStays DEF SeederHas
    <3> QED BY <1>0, <1>1, <1>4, <1>5, <1>7, <2>1, <2>2, <3>2, AnswerModerates
  <2>3. ASSUME y.status = "next", code \notin step.expect
        PROVE  Moderating(e, M, y.kept, v, g, h, l, root)
    BY <1>0, <1>4, <2>1, <2>3, UnansweredModerates
  <2> QED BY <1>4, <2>1, <2>2, <2>3
<1>8. ASSUME code \in {0, 429}, rows = {}, e = d, M \subseteq L \cup {q}
      PROVE  /\ Settled(e, M, g, root)
             /\ y.status # "next" => Moderating(e, M, y.kept, v - 1, g, h, l, root)
             /\ y.status = "next" => Moderating(e, M, y.kept, v, g, h, l, root)
  <2>1. Settled(e, M, g, root) /\ Moderating(e, M, x.kept, v - 1, g, h, l, root)
    BY <1>1, <1>5, <1>6, <1>8, AskedModerates
  <2>2. ASSUME y.status = "next", code \in step.expect
        PROVE  Moderating(e, M, y.kept, v, g, h, l, root)
    <3>1. \A key : Matches(x, step, key, {}) = {}
      BY DEF Matches
    <3>2. \A k \in DOMAIN y.kept : k \in DOMAIN x.kept /\ y.kept[k] = x.kept[k]
      BY <1>4, <1>8, <3>1 DEF KeptAfter, Found
    <3>3. DOMAIN x.kept \subseteq DOMAIN y.kept
      BY <1>4, <2>2 DEF Learned
    <3>4. DOMAIN y.kept = DOMAIN x.kept /\ \A k \in DOMAIN x.kept : y.kept[k] = x.kept[k]
      BY <3>2, <3>3
    <3>5. Moderating(e, M, x.kept, v, g, h, l, root)
      BY <1>0, <1>8, <2>1, <2>2, UnansweredModerates
    <3> QED BY <3>4, <3>5, SameModerates
  <2>3. ASSUME y.status = "next", code \notin step.expect
        PROVE  Moderating(e, M, y.kept, v, g, h, l, root)
    BY <1>0, <1>4, <2>1, <2>3, UnansweredModerates
  <2> QED BY <1>4, <2>1, <2>2, <2>3
<1>9. /\ Settled(e, M, g, root)
      /\ y.status # "next" => Moderating(e, M, y.kept, v - 1, g, h, l, root)
      /\ y.status = "next" => Moderating(e, M, y.kept, v, g, h, l, root)
  BY <1>7, <1>8 DEF Ended
<1>10. Moderating(e, M, n.kept, n.pc - 1, g, h, l, root)
  BY <1>0, <1>3, <1>9, MovesModerate
<1> QED BY <1>9, <1>10

LEMMA GInvPrimed ==
  ASSUME scenario' = scenario, NEW e, e = db', NEW M, M = late', NEW kept, kept = run'["seeder"].kept,
         NEW p, p = run'["seeder"].pc - 1,
         \A g, h, l, root : Past(g, h, l, root) => Settled(e, M, g, root) /\ Moderating(e, M, kept, p, g, h, l, root)
  PROVE  GInv'
<1>0. Seeded' = Seeded
  BY DEF Seeded
<1>1. /\ \A g, h, l, root : Past(g, h, l, root)' <=> Past(g, h, l, root)
      /\ Sanctions' = Sanctions
      /\ \A g, root : Child(g, root)' = Child(g, root)
  BY <1>0 DEF Past, Sanctions, Child
<1>2. Targets' = Targets
  BY <1>0, <1>1 DEF Targets
<1>3. ASSUME NEW g, NEW h, NEW l, NEW root, Past(g, h, l, root)
      PROVE  Settled(db, late, g, root)'
  <2>1. Settled(e, M, g, root)
    BY <1>3
  <2>2. \A q : Suits(q, root)' <=> Suits(q, root)
    BY <1>0, <1>1 DEF Suits
  <2>3. Untouched(db, late)' <=> Untouched(e, M)
    BY <1>2 DEF Untouched
  <2> QED BY <1>1, <2>1, <2>2, <2>3 DEF Settled, Rooted, Gated
<1>4. ASSUME NEW g, NEW h, NEW l, NEW root, Past(g, h, l, root)
      PROVE  Moderating(db, late, run["seeder"].kept, run["seeder"].pc - 1, g, h, l, root)'
  <2>1. Moderating(e, M, kept, p, g, h, l, root)
    BY <1>4
  <2>2. Untouched(db, late)' <=> Untouched(e, M)
    BY <1>2 DEF Untouched
  <2>3. \A k : Reached(db, k)' <=> Reached(e, k)
    BY <1>0 DEF Reached
  <2>4. Named(run["seeder"].kept)' /\ KeepsRoot(run["seeder"].kept, g, root)'
    BY <1>0, <2>1 DEF Moderating, Named, KeepsRoot
  <2>5. KeepsChild(db, late, run["seeder"].kept, run["seeder"].pc - 1, g, h, l, root)'
    BY <1>0, <1>1, <2>1, <2>2 DEF Moderating, KeepsChild
  <2>6. KeepsSessions(db, run["seeder"].kept)'
    BY <1>2, <2>1 DEF Moderating, KeepsSessions
  <2>7. KeepsListed(run["seeder"].kept, run["seeder"].pc - 1, l)' /\ Sanctioned(db, run["seeder"].pc - 1)'
    BY <1>0, <1>1, <2>1, <2>3 DEF Moderating, KeepsListed, Sanctioned
  <2> QED BY <2>4, <2>5, <2>6, <2>7 DEF Moderating
<1> QED BY <1>1, <1>3, <1>4 DEF GInv

\* One request less is on its way.
LEMMA FewerLate ==
  ASSUME NEW g, NEW h, NEW l, NEW root, NEW d, NEW L, NEW kept, NEW p, Settled(d, L, g, root),
         Moderating(d, L, kept, p, g, h, l, root), NEW M, M \subseteq L
  PROVE  Settled(d, M, g, root) /\ Moderating(d, M, kept, p, g, h, l, root)
<1>1. Untouched(d, L) => Untouched(d, M)
  BY DEF Untouched
<1>2. Settled(d, M, g, root)
  BY <1>1 DEF Settled, Gated
<1>3. KeepsChild(d, M, kept, p, g, h, l, root)
  BY <1>1 DEF Moderating, KeepsChild
<1> QED BY <1>2, <1>3 DEF Moderating

LEMMA CallGInv ==
  ASSUME CInv, SInv, RInv, WInv, GInv, NEW r \in Runners, Answered(r) \/ Throttled(r) \/ TimedOut(r)
  PROVE  GInv'
<1>1. PICK code, rows : Ended(r, code, rows)
  BY CallsEnd
<1> PICK x, z, q, e, M, n, d, L : /\ x = run[r] /\ z = run["seeder"] /\ q = RequestOf(x, StepOf(r)) /\ e = db' /\ M = late'
                                  /\ n = run'["seeder"] /\ d = db /\ L = late
  OBVIOUS
<1>2. /\ Known /\ DbOK(d) /\ x.status = "running" /\ scenario' = scenario
      /\ \/ e = Serve(d, q).db /\ M \subseteq L
         \/ e = d /\ M \subseteq L \cup {q}
  BY <1>1 DEF RInv, Ended, CInv, Accounts
<1>3. ASSUME NEW g, NEW h, NEW l, NEW root, Past(g, h, l, root)
      PROVE  Settled(e, M, g, root) /\ Moderating(e, M, n.kept, n.pc - 1, g, h, l, root)
  <2>1. CASE r = "seeder"
    BY <1>1, <1>2, <1>3, <2>1, OwnCallModerates
  <2>2. CASE r # "seeder"
    <3>1. n = z
      BY <1>1, <2>2, CallMoves, RunnerNames DEF OthersWait
    <3> PICK p : p = z.pc - 1
      OBVIOUS
    <3>2. Settled(d, L, g, root) /\ Moderating(d, L, z.kept, p, g, h, l, root)
      BY <1>3 DEF GInv
    <3>3. p \in Int
      BY RunnerNames DEF CInv, Runs, InScript
    <3>4. Suits(q, root) /\ \A tp \in Targets : ~Suspends(q, tp)
      BY <1>2, <1>3, <2>2, SimulatorSuits
    <3>5. CASE e = Serve(d, q).db /\ M \subseteq L
      <4> PICK kept : kept = z.kept
        OBVIOUS
      <4>1. DbOK(d) /\ Suits(q, root) /\ InTurn(d, L, q, p, g, l, root)
        BY <1>2, <3>4 DEF InTurn
      <4>2. Settled(d, L, g, root) /\ Moderating(d, L, kept, p, g, h, l, root) /\ p \in Int
        BY <3>2, <3>3
      <4>3. Settled(e, L, g, root) /\ Moderating(e, L, kept, p, g, h, l, root)
        BY <1>3, <3>5, <4>1, <4>2, ModeratingStays
      <4> QED BY <3>1, <3>5, <4>3, FewerLate
    <3>6. CASE e = d /\ M \subseteq L \cup {q}
      BY <3>1, <3>2, <3>4, <3>6, AskedModerates
    <3> QED BY <1>2, <3>5, <3>6
  <2> QED BY <2>1, <2>2
<1> QED BY <1>2, <1>3, GInvPrimed

LEMMA LateGInv ==
  ASSUME CInv, GInv, ServedLate
  PROVE  GInv'
<1> PICK d, e, z, L, M : d = db /\ e = db' /\ z = run["seeder"] /\ L = late /\ M = late'
  OBVIOUS
<1>1. PICK q \in L : /\ e = Serve(d, q).db /\ M = L \ {q}
                     /\ scenario' = scenario /\ run' = run
  BY DEF ServedLate
<1>2. DbOK(d)
  BY DEF CInv, Accounts
<1> PICK p : p = z.pc - 1
  OBVIOUS
<1>3. p \in Int
  BY RunnerNames DEF CInv, Runs, InScript
<1>4. ASSUME NEW g, NEW h, NEW l, NEW root, Past(g, h, l, root)
      PROVE  Settled(e, M, g, root) /\ Moderating(e, M, z.kept, p, g, h, l, root)
  <2>1. Settled(d, L, g, root) /\ Moderating(d, L, z.kept, p, g, h, l, root)
    BY <1>4 DEF GInv
  <2>2. Suits(q, root)
    BY <2>1 DEF Settled
  <2> PICK kept : kept = z.kept
    OBVIOUS
  <2>3. /\ Settled(d, L, g, root) /\ Moderating(d, L, kept, p, g, h, l, root)
        /\ M \subseteq L /\ e = Serve(d, q).db
        /\ InTurn(d, L, q, p, g, l, root)
    BY <1>1, <2>1 DEF InTurn
  <2>4. Settled(e, L, g, root) /\ Moderating(e, L, kept, p, g, h, l, root)
    BY <1>2, <1>3, <1>4, <2>2, <2>3, ModeratingStays
  <2> QED BY <2>3, <2>4, FewerLate
<1> QED BY <1>1, <1>4, GInvPrimed

\* The tables stay, and so do the late requests.
LEMMA StillGInv ==
  ASSUME GInv, scenario' = scenario, db' = db, late' = late, NEW n, n = run'["seeder"],
         \A g, h, l, root : Past(g, h, l, root) => Moderating(db, late, n.kept, n.pc - 1, g, h, l, root)
  PROVE  GInv'
<1>1. \A g, h, l, root : Past(g, h, l, root) =>
        Settled(db, late, g, root) /\ Moderating(db, late, n.kept, n.pc - 1, g, h, l, root)
  BY DEF GInv
<1> QED BY <1>1, GInvPrimed

\* Only an attempt that has created the child passes the test.
LEMMA CheckedGInv ==
  ASSUME CInv, SInv, GInv, NEW r \in Runners, Checked(r)
  PROVE  GInv'
<1>1. /\ run[r].status = "running" /\ StepOf(r).op = "require"
      /\ scenario' = scenario /\ db' = db /\ late' = late
  BY DEF Checked
<1>2. PICK y : /\ Outcome(run[r], y) /\ y.kept = run[r].kept
               /\ y.status = "next" => StepOf(r).save \cap DOMAIN run[r].kept # {}
               /\ run' = [run EXCEPT ![r] = Advance(y, ScriptOf(r))]
  BY CheckedOutcome
<1> PICK n, z, d, L : n = Advance(y, ScriptOf(r)) /\ z = run["seeder"] /\ d = db /\ L = late
  OBVIOUS
<1>3. OthersWait(r) /\ run'[r] = n
  BY <1>2, Moved
<1>4. \A g, h, l, root : Past(g, h, l, root) => Moderating(d, L, z.kept, z.pc - 1, g, h, l, root)
  BY DEF GInv
<1>5. CASE r = "seeder"
  <2>1. z.pc \in DOMAIN Seeded /\ StepOf("seeder") = Seeded[z.pc] /\ ScriptOf("seeder") = Seeded
    BY <1>1, <1>5, TradesOf, SeedFacts DEF SInv
  <2> PICK v : v = z.pc
    OBVIOUS
  <2>2. ASSUME NEW g, NEW h, NEW l, NEW root, Past(g, h, l, root), y.status = "next"
        PROVE  Moderating(d, L, y.kept, v, g, h, l, root)
    <3>1. v # l /\ v \notin Sanctions
      BY <1>1, <1>5, <2>1, <2>2 DEF Past, Calls, Sanctions, Moderations
    <3>2. v = h => Seeded[g].save \subseteq DOMAIN y.kept
      <4>0. CreatesChild(Seeded, g, h, root)
        BY <2>2, SanctionFacts
      <4>1. PICK name : Seeded[g].save = {name} /\ Seeded[h].save = {name}
        BY <4>0 DEF CreatesChild
      <4>2. v = h => name \in DOMAIN y.kept
        BY <1>2, <1>5, <2>1, <2>2, <4>1
      <4> QED BY <4>1, <4>2
    <3>3. Moderating(d, L, y.kept, v - 1, g, h, l, root)
      BY <1>2, <1>4, <1>5, <2>2
    <3>4. v \in DOMAIN Seeded
      BY <2>1
    <3> QED BY <2>2, <3>1, <3>2, <3>3, <3>4, QuietModerates
  <2>3. ASSUME NEW g, NEW h, NEW l, NEW root, Past(g, h, l, root)
        PROVE  Moderating(d, L, n.kept, n.pc - 1, g, h, l, root)
    <3>1. y.status # "next" => Moderating(d, L, y.kept, z.pc - 1, g, h, l, root)
      BY <1>2, <1>4, <1>5, <2>3
    <3>2. y.status = "next" => Moderating(d, L, y.kept, z.pc, g, h, l, root)
      BY <2>2, <2>3
    <3> QED BY <1>1, <1>2, <1>5, <2>1, <2>3, <3>1, <3>2, MovesModerate
  <2> QED BY <1>1, <1>3, <1>5, <2>3, StillGInv
<1>6. CASE r # "seeder"
  <2>1. run'["seeder"] = z
    BY <1>3, <1>6, RunnerNames DEF OthersWait
  <2> QED BY <1>1, <1>4, <2>1, StillGInv
<1> QED BY <1>5, <1>6

\* A seeder that starts has seen to nothing.
LEMMA BeginModerates ==
  ASSUME CInv, NEW g, NEW h, NEW l, NEW root, Past(g, h, l, root), NEW d, NEW L, NEW n, n = Begin(Seeded, Empty, <<>>)
  PROVE  Moderating(d, L, n.kept, n.pc - 1, g, h, l, root)
<1>0. PICK x : x = [Idle EXCEPT !.status = "next", !.kept = Empty, !.who = <<>>]
  OBVIOUS
<1>1. RunnerShape(x) /\ x.pc = 0 /\ x.status = "next" /\ DOMAIN x.kept = {}
  BY <1>0 DEF Idle, RunnerShape, Empty
<1>2. n = Advance(x, Seeded) /\ Len(Seeded) \in Nat /\ x.pc \in Nat
  BY <1>0, <1>1, SeedFacts DEF Begin
<1>3. /\ n.kept = x.kept
      /\ \/ n.pc = 0
         \/ /\ n.pc \in 1 .. Len(Seeded)
            /\ \A i \in 1 .. Len(Seeded) : Applies(Seeded[i], x.kept) => n.pc <= i
  <2>1. /\ n.kept = x.kept
        /\ \/ n.pc = x.pc
           \/ /\ n.pc \in x.pc + 1 .. Len(Seeded)
              /\ \A i \in x.pc + 1 .. Len(Seeded) : Applies(Seeded[i], x.kept) => n.pc <= i
    BY <1>1, <1>2, AdvanceStep
  <2> QED BY <1>1, <2>1
<1> PICK w, kept : w = n.pc - 1 /\ kept = n.kept
  OBVIOUS
<1>4. CASE n.pc = 0
  <2>1. w \in Int /\ w <= 0 /\ DOMAIN kept = {}
    BY <1>1, <1>3, <1>4
  <2>2. Moderating(d, L, kept, w, g, h, l, root)
    BY <2>1, ModeratingNothing
  <2> QED BY <2>2
<1>5. CASE /\ n.pc \in 1 .. Len(Seeded)
           /\ \A i \in 1 .. Len(Seeded) : Applies(Seeded[i], x.kept) => n.pc <= i
  <2> PICK p : p = 0
    OBVIOUS
  <2>1. p \in Nat /\ w \in Nat /\ p <= w /\ w <= Len(Seeded) /\ \A j \in p + 1 .. w : ~Applies(Seeded[j], kept)
    BY <1>2, <1>3, <1>5
  <2>2. p \in Int /\ p <= 0 /\ DOMAIN kept = {}
    BY <1>1, <1>3
  <2>3. Moderating(d, L, kept, p, g, h, l, root)
    BY <2>2, ModeratingNothing
  <2>4. Moderating(d, L, kept, w, g, h, l, root)
    BY <2>1, <2>3, SkipModerates
  <2> QED BY <2>4
<1> QED BY <1>3, <1>4, <1>5

LEMMA StartsGInv ==
  ASSUME CInv, GInv, StartVirtualUsers \/ StartPair \/ Crash \/ Rerun
  PROVE  GInv'
<1> PICK z, d, L : z = run["seeder"] /\ d = db /\ L = late
  OBVIOUS
<1>1. /\ scenario' = scenario /\ db' = d /\ late' = L
      /\ \A g, h, l, root : Past(g, h, l, root) => Moderating(d, L, z.kept, z.pc - 1, g, h, l, root)
  BY DEF StartVirtualUsers, StartPair, Crash, Rerun, GInv
<1>2. CASE StartVirtualUsers
  <2>1. run'["seeder"] = z
    BY <1>2, RunnerNames DEF StartVirtualUsers
  <2> QED BY <1>1, <2>1, StillGInv
<1>3. CASE StartPair
  <2>1. \E m : run' = [run EXCEPT !["pair"] = m]
    BY <1>3, Zenon DEF StartPair
  <2>2. run'["seeder"] = z
    BY <2>1, RunnerNames DEF CInv, Runs
  <2> QED BY <1>1, <2>2, StillGInv
<1>4. CASE Crash
  <2>1. PICK n : n = [run["seeder"] EXCEPT !.status = "crashed"] /\ run' = [run EXCEPT !["seeder"] = n]
    BY <1>4 DEF Crash, CInv, Runs
  <2>2. n.kept = z.kept /\ n.pc = z.pc
    BY <2>1, RunnerNames DEF CInv, Runs, InScript, RunnerShape
  <2>3. run'["seeder"] = n
    BY <2>1, RunnerNames, Moved
  <2> QED BY <1>1, <2>2, <2>3, StillGInv
<1>5. CASE Rerun
  <2>1. PICK n : n = Begin(Seeded, Empty, <<>>) /\ run' = [run EXCEPT !["seeder"] = n]
    BY <1>5 DEF Rerun, Seeded
  <2>2. run'["seeder"] = n
    BY <2>1, RunnerNames, Moved
  <2>3. \A g, h, l, root : Past(g, h, l, root) => Moderating(d, L, n.kept, n.pc - 1, g, h, l, root)
    BY <2>1, BeginModerates
  <2> QED BY <1>1, <2>2, <2>3, StillGInv
<1> QED BY <1>2, <1>3, <1>4, <1>5

LEMMA InitGInv == Init => GInv
<1> SUFFICES ASSUME Init PROVE GInv
  OBVIOUS
<1>0. CInv
  BY InitCInv
<1> PICK n, d, L : n = run["seeder"] /\ d = db /\ L = late
  OBVIOUS
<1>1. d = NewDb /\ L = {}
  BY DEF Init
<1>2. n = Idle \/ n = Begin(Seeded, Empty, <<>>)
  BY RunnerNames DEF Init, Seeded
<1>3. ASSUME NEW g, NEW h, NEW l, NEW root, Past(g, h, l, root)
      PROVE  Settled(d, L, g, root) /\ Moderating(d, L, n.kept, n.pc - 1, g, h, l, root)
  <2>1. Rooted(d, root)
    BY <1>1 DEF Rooted, NewDb
  <2>2. Targets \subseteq People
    BY <1>0, <1>3, SanctionFacts
  <2>3. \A tp \in People : d.status[tp] \in {"none", "active"}
    BY <1>1 DEF NewDb
  <2>4. Untouched(d, L)
    BY <1>1, <2>2, <2>3 DEF Untouched
  <2>5. Settled(d, L, g, root)
    BY <1>1, <2>1, <2>4 DEF Settled, Gated
  <2>6. CASE n = Idle
    <3> PICK p, kept : p = n.pc - 1 /\ kept = n.kept
      OBVIOUS
    <3>1. p \in Int /\ p <= 0 /\ DOMAIN kept = {}
      BY <2>6 DEF Idle, Empty
    <3>2. Moderating(d, L, kept, p, g, h, l, root)
      BY <1>0, <1>3, <3>1, ModeratingNothing
    <3> QED BY <2>5, <3>2
  <2>7. CASE n = Begin(Seeded, Empty, <<>>)
    BY <1>0, <1>3, <2>5, <2>7, BeginModerates
  <2> QED BY <1>2, <2>6, <2>7
<1> QED BY <1>3 DEF GInv

LEMMA NextGInv == CInv /\ SInv /\ RInv /\ WInv /\ GInv /\ [Next]_vars => GInv'
<1> SUFFICES ASSUME CInv, SInv, RInv, WInv, GInv, [Next]_vars PROVE GInv'
  OBVIOUS
<1>1. ASSUME NEW r \in Runners, RunnerStep(r) PROVE GInv'
  BY <1>1, CallGInv, CheckedGInv DEF RunnerStep
<1>2. CASE ServedLate
  BY <1>2, LateGInv
<1>3. CASE StartVirtualUsers \/ StartPair \/ Crash \/ Rerun
  BY <1>3, StartsGInv
<1>4. CASE UNCHANGED vars
  <2>1. scenario' = scenario /\ db' = db /\ run' = run /\ late' = late
    BY <1>4 DEF vars
  <2> PICK n : n = run'["seeder"]
    OBVIOUS
  <2>2. \A g, h, l, root : Past(g, h, l, root) => Moderating(db, late, n.kept, n.pc - 1, g, h, l, root)
    BY <2>1 DEF GInv
  <2> QED BY <2>1, <2>2, StillGInv
<1> QED BY <1>1, <1>2, <1>3, <1>4 DEF Next

\* A seeder past its writing phases has moderated the accounts its tables name.
LEMMA TargetsConverge ==
  ASSUME CInv, GInv, run["seeder"].pc > SeedWrites[scenario.tables], NEW t, t = Tables[scenario.tables]
  PROVE  TargetsDeclared(t)
<1> PICK w, p : w = SeedWrites[scenario.tables] /\ p = run["seeder"].pc - 1
  OBVIOUS
<1>1. SeedModerates(Seeded) /\ SeedDeclares(Seeded, t, w)
  BY SeedShape
<1>2. scenario.tables \in DOMAIN Tables /\ Len(Seeded) \in Nat /\ DOMAIN Seeded = 1 .. Len(Seeded)
  BY SeedFacts
<1>3. w \in Nat /\ w <= p /\ p \in Int /\ w <= Len(Seeded)
  <2>1. run["seeder"].pc \in Nat
    BY RunnerNames DEF CInv, Runs, InScript
  <2>2. w \in Nat /\ w <= Len(Seeded)
    BY <1>1, <1>2 DEF SeedDeclares, SeedWrites
  <2> QED BY <2>1, <2>2
<1> SUFFICES ASSUME NEW i \in 1 .. Len(t.targets)
             PROVE  /\ db.status[t.targets[i][1]] = t.targets[i][2]
                    /\ \E id \in DOMAIN db.warnings : id[1] = t.targets[i][1]
  BY DEF TargetsDeclared
<1>4. PICK u \in 1 .. w, v \in 1 .. w :
        /\ Seeded[u].op = "updateUserStatus" /\ Seeded[v].op = "createWarning"
        /\ <<Seeded[u].on, Seeded[u].val>> = t.targets[i] /\ Seeded[v].on = t.targets[i][1]
  BY <1>1 DEF SeedDeclares
<1>5. u \in DOMAIN Seeded /\ v \in DOMAIN Seeded /\ u <= p /\ v <= p
  BY <1>2, <1>3
<1>6. u \in Sanctions /\ v \in Sanctions
  BY <1>4, <1>5 DEF Sanctions, Moderations
<1>7. \E g, h, l, root : Past(g, h, l, root)
  <2>1. PICK r, g \in Calls(Seeded, "createCategory"), h \in Calls(Seeded, "require"), l \in Calls(Seeded, "listUsers") :
          ModeratesPast(Seeded, g, h, l, Seeded[r].val)
    BY <1>1, <1>6 DEF SeedModerates, Sanctions
  <2> QED BY <2>1 DEF Past
<1>8. Sanctioned(db, p)
  BY <1>7 DEF GInv, Moderating
<1>9. Reached(db, u) /\ Reached(db, v)
  BY <1>5, <1>6, <1>8 DEF Sanctioned
<1>10. t.targets[i][1] = Seeded[u].on /\ t.targets[i][2] = Seeded[u].val
  BY <1>4
<1> QED BY <1>4, <1>9, <1>10 DEF Reached

\* SeedConverges: the development seeder makes up in a later attempt for
\* whatever an interrupted one has left out.  Once an attempt is past its
\* writing phases, the products and reports its tables declare are there with
\* their statuses, the messages of every conversation are sent, and every
\* account to moderate has its status and its warning, however often the
\* seeder was stopped and whatever request of whom is served late.
THEOREM SeederConverges == Spec => []SeedConverges
<1>1. CInv /\ SInv /\ WInv /\ GInv => SeedConverges
  <2> SUFFICES ASSUME CInv, SInv, WInv, GInv, run["seeder"].pc > SeedWrites[scenario.tables], NEW t, t = Tables[scenario.tables]
               PROVE  ProductsDeclared(t) /\ ReportsDeclared(t) /\ MessagesDeclared(t) /\ TargetsDeclared(t)
    BY DEF SeedConverges
  <2> QED BY RowsConverge, TargetsConverge
<1>2. Init => WInv
  BY InitWInv
<1>3. Init => GInv
  BY InitGInv
<1>4. CInv /\ SInv /\ RInv /\ [Next]_vars => RInv'
  BY NextRInv
<1>5. CInv /\ SInv /\ RInv /\ WInv /\ [Next]_vars => WInv'
  BY NextWInv
<1>6. CInv /\ SInv /\ RInv /\ WInv /\ GInv /\ [Next]_vars => GInv'
  BY NextGInv
<1> QED BY <1>1, <1>2, <1>3, <1>4, <1>5, <1>6, InitRInv, ClientsInvariant, ClientsKnowTheChat, PTL DEF Spec
=============================================================================
