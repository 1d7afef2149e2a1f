-------------------------- MODULE ApiClientsProofs --------------------------
(***************************************************************************)
(* Proofs about the clients, for any scripts of the seeder, any number of  *)
(* virtual users and any faults: where a client can be in its script, that *)
(* it gets on whatever the answers are, what the simulator says of a ban   *)
(* it leaves, and that no program doubles a row but by a timeout.          *)
(***************************************************************************)
EXTENDS ApiClients, FiniteSetTheorems, WellFoundedInduction, SequenceTheorems, TLAPS

-----------------------------------------------------------------------------
(* A runner between two calls *)

RunnerShape(x) ==
  x = [pc |-> x.pc, status |-> x.status, kept |-> x.kept, password |-> x.password, tries |-> x.tries,
       calls |-> x.calls, failures |-> x.failures, error |-> x.error, who |-> x.who]

Counters(x) == x.tries \in 0 .. RETRY_ATTEMPTS - 1 /\ x.calls \in 0 .. AbortRetries

\* What no call changes, and what it only adds to.
SameRun(x, y) == y.who = x.who /\ x.failures \subseteq y.failures

LEMMA LeastOf ==
  ASSUME NEW S, S \subseteq Nat, S # {}
  PROVE  \E i \in S : \A j \in S : i <= j
<1>1. PICK i \in S : \A j \in S : <<j, i>> \notin OpToRel(<, Nat)
  BY NatLessThanWellFounded, WFMin
<1>2. \A j \in S : ~(j < i)
  BY <1>1 DEF OpToRel
<1> QED BY <1>2

\* The calls of the script that are made after position pc.
Rest(pc, kept, script) == {i \in pc + 1 .. Len(script) : Applies(script[i], kept)}

LEMMA AdvanceStep ==
  ASSUME NEW x, NEW script, RunnerShape(x), x.pc \in Nat, Len(script) \in Nat, NEW y, y = Advance(x, script)
  PROVE  /\ RunnerShape(y) /\ y.kept = x.kept /\ y.who = x.who /\ y.failures = x.failures
         /\ x.status # "next" => y = x
         /\ x.status = "next" =>
              \/ /\ y.status = "done" /\ y.pc = x.pc /\ y.tries = x.tries /\ y.calls = x.calls
                 /\ \A i \in x.pc + 1 .. Len(script) : ~Applies(script[i], x.kept)
              \/ /\ y.status = "running" /\ y.pc \in x.pc + 1 .. Len(script) /\ y.tries = 0 /\ y.calls = 0
                 /\ Applies(script[y.pc], x.kept)
                 /\ \A i \in x.pc + 1 .. Len(script) : Applies(script[i], x.kept) => y.pc <= i
<1> DEFINE rest == Rest(x.pc, x.kept, script)
           first == CHOOSE i \in rest : \A j \in rest : i <= j
<1>1. rest # {} => first \in rest /\ \A j \in rest : first <= j
  <2>1. rest \subseteq Nat
    BY DEF Rest
  <2> HIDE DEF rest
  <2> QED BY <2>1, LeastOf
<1>2. y = IF x.status # "next" THEN x
          ELSE IF rest = {} THEN [x EXCEPT !.status = "done"]
          ELSE [x EXCEPT !.status = "running", !.pc = first, !.tries = 0, !.calls = 0]
  BY DEF Advance, Rest
<1>3. rest = Rest(x.pc, x.kept, script)
  OBVIOUS
<1> HIDE DEF first, rest
<1>4. CASE x.status # "next"
  BY <1>2, <1>4
<1>5. CASE x.status = "next" /\ rest = {}
  <2>1. y = [x EXCEPT !.status = "done"]
    BY <1>2, <1>5
  <2>2. /\ RunnerShape(y) /\ y.kept = x.kept /\ y.who = x.who /\ y.failures = x.failures
        /\ y.status = "done" /\ y.pc = x.pc /\ y.tries = x.tries /\ y.calls = x.calls
    BY <2>1 DEF RunnerShape
  <2>3. \A i \in x.pc + 1 .. Len(script) : ~Applies(script[i], x.kept)
    BY <1>3, <1>5 DEF Rest
  <2> QED BY <1>5, <2>2, <2>3
<1>6. CASE x.status = "next" /\ rest # {}
  <2>1. y = [x EXCEPT !.status = "running", !.pc = first, !.tries = 0, !.calls = 0]
    BY <1>2, <1>6
  <2>2. /\ RunnerShape(y) /\ y.kept = x.kept /\ y.who = x.who /\ y.failures = x.failures
        /\ y.status = "running" /\ y.pc = first /\ y.tries = 0 /\ y.calls = 0
    BY <2>1 DEF RunnerShape
  <2>3. first \in x.pc + 1 .. Len(script) /\ Applies(script[first], x.kept)
        /\ \A i \in x.pc + 1 .. Len(script) : Applies(script[i], x.kept) => first <= i
    BY <1>1, <1>3, <1>6 DEF Rest
  <2> QED BY <1>6, <2>2, <2>3
<1> QED BY <1>4, <1>5, <1>6

-----------------------------------------------------------------------------
(* What an answer makes of a runner *)

LEMMA LearnStep ==
  ASSUME NEW x, NEW step, NEW rows, RunnerShape(x), NEW y, y = Learn(x, step, rows)
  PROVE  /\ RunnerShape(y) /\ y.pc = x.pc /\ y.status = x.status /\ y.tries = x.tries /\ y.calls = x.calls
         /\ y.failures = x.failures /\ y.who = x.who /\ DOMAIN x.kept \subseteq DOMAIN y.kept
<1> DEFINE found == {f \in step.find : Matches(x, step, f[2], rows) # {}}
           saved == IF rows = {} THEN {} ELSE step.save
           names == {f[1] : f \in found}
           value(n) == IF n \in names THEN Newest(Matches(x, step, (CHOOSE f \in found : f[1] = n)[2], rows))
                       ELSE IF n \in saved THEN Newest(rows) ELSE x.kept[n]
           kept == [n \in names \cup saved \cup DOMAIN x.kept |-> value(n)]
           password == IF step.op \in {"resetPassword", "changePassword"} THEN step.val ELSE x.password
<1>1. y = [x EXCEPT !.kept = kept, !.password = password]
  BY Zenon DEF Learn
<1> HIDE DEF value, names, saved
<1>2. DOMAIN x.kept \subseteq DOMAIN kept
  OBVIOUS
<1> HIDE DEF kept, password
<1> QED BY <1>1, <1>2 DEF RunnerShape

\* The same call again: in one more attempt, or one more try of this one.
Again(x, y) == y.calls > x.calls \/ (y.calls = x.calls /\ y.tries > x.tries)

Outcome(x, y) ==
  /\ RunnerShape(y) /\ y.pc = x.pc /\ Counters(y) /\ SameRun(x, y)
  /\ \/ y.status \in {"next", "failed", "hung", "skipped"}
     \/ (y.status = "running" /\ Again(x, y))

\* A call beside the chat keeps what it knew; only an event hangs, and only on
\* an answer; an unexpected answer is noted, unless the call is made again.
apiCallOutcome(x, step, code, y) ==
  /\ ~step.socket => DOMAIN x.kept \subseteq DOMAIN y.kept
  /\ y.status = "hung" => step.socket /\ code \notin step.expect /\ code # 0
  /\ code \notin step.expect =>
       y.status = "hung" \/ (y.status = "running" /\ y.kept = x.kept) \/ <<step.op, code>> \in y.failures
  /\ y.status = "failed" => code \notin step.expect /\ step.fatal
  /\ y.status = "skipped" => step.retry
  /\ y.status = "running" => step.retry \/ code = 429
  /\ code \in step.expect /\ ~step.retry => y.status = "next"

Noting(x, step, code) == [x EXCEPT !.failures = x.failures \cup {<<step.op, code>>}]

LEMMA apiCallStep ==
  ASSUME NEW x, NEW step, NEW code, NEW rows, RunnerShape(x), Counters(x), x.status = "running",
         NEW y, y = apiCall(x, step, code, rows)
  PROVE  Outcome(x, y) /\ apiCallOutcome(x, step, code, y)
<1> DEFINE expected == code \in step.expect
           noted == IF expected THEN Learn(x, step, rows) ELSE Noting(x, step, code)
<1>1. /\ RunnerShape(noted) /\ noted.pc = x.pc /\ noted.tries = x.tries /\ noted.calls = x.calls
      /\ noted.status = "running" /\ noted.who = x.who /\ x.failures \subseteq noted.failures
      /\ DOMAIN x.kept \subseteq DOMAIN noted.kept
      /\ ~expected => <<step.op, code>> \in noted.failures
  <2>1. CASE expected
    BY <2>1, LearnStep
  <2>2. CASE ~expected
    BY <2>2 DEF Noting, RunnerShape
  <2> QED BY <2>1, <2>2
<1>2. y = IF step.socket /\ ~expected /\ code # 0 THEN [x EXCEPT !.status = "hung"]
          ELSE IF code = 429 /\ ~expected /\ x.tries < Retries429 THEN [x EXCEPT !.tries = x.tries + 1]
          ELSE IF step.retry /\ code \in {0, 429} /\ x.calls < AbortRetries THEN CallAgain(noted)
          ELSE IF step.retry /\ expected /\ code = 429 THEN [x EXCEPT !.status = "skipped"]
          ELSE IF ~expected /\ step.fatal THEN Fail(noted, <<step.op, code>>)
          ELSE IF step.socket /\ ~expected
               THEN Finished([noted EXCEPT !.kept = [n \in DOMAIN noted.kept \ {BobSocket, Sockets} |-> noted.kept[n]]])
          ELSE Finished(noted)
  BY Zenon DEF apiCall, Noting
<1> HIDE DEF noted
<1>3. CASE step.socket /\ ~expected /\ code # 0
  <2>1. y = [x EXCEPT !.status = "hung"]
    BY <1>2, <1>3
  <2> QED BY <1>3, <2>1 DEF RunnerShape, Outcome, apiCallOutcome, Counters, SameRun
<1>4. CASE ~(step.socket /\ ~expected /\ code # 0) /\ code = 429 /\ ~expected /\ x.tries < Retries429
  <2>1. y = [x EXCEPT !.tries = x.tries + 1]
    BY <1>2, <1>4
  <2> QED BY <1>4, <2>1 DEF RunnerShape, Outcome, apiCallOutcome, Counters, SameRun, Again,
                            Retries429, RETRY_ATTEMPTS
<1> DEFINE later == /\ ~(step.socket /\ ~expected /\ code # 0)
                    /\ ~(code = 429 /\ ~expected /\ x.tries < Retries429)
<1>5. CASE later /\ step.retry /\ code \in {0, 429} /\ x.calls < AbortRetries
  <2>1. y = CallAgain(noted)
    BY <1>2, <1>5
  <2>2. /\ RunnerShape(y) /\ y.pc = noted.pc /\ y.status = "running" /\ y.tries = 0
        /\ y.calls = noted.calls + 1 /\ y.who = noted.who /\ y.failures = noted.failures /\ y.kept = noted.kept
    BY <1>1, <2>1 DEF CallAgain, RunnerShape
  <2> QED BY <1>1, <1>5, <2>2 DEF Outcome, apiCallOutcome, Counters, SameRun, Again, AbortRetries, RETRY_ATTEMPTS
<1>6. CASE later /\ ~(step.retry /\ code \in {0, 429} /\ x.calls < AbortRetries) /\ step.retry /\ expected /\ code = 429
  <2>1. y = [x EXCEPT !.status = "skipped"]
    BY <1>2, <1>6
  <2> QED BY <1>6, <2>1 DEF RunnerShape, Outcome, apiCallOutcome, Counters, SameRun
<1> DEFINE last == /\ later /\ ~(step.retry /\ code \in {0, 429} /\ x.calls < AbortRetries)
                   /\ ~(step.retry /\ expected /\ code = 429)
<1>7. CASE last /\ ~expected /\ step.fatal
  <2>1. y = Fail(noted, <<step.op, code>>)
    BY <1>2, <1>7
  <2>2. /\ RunnerShape(y) /\ y.pc = noted.pc /\ y.status = "failed" /\ y.tries = noted.tries
        /\ y.calls = noted.calls /\ y.who = noted.who /\ y.failures = noted.failures /\ y.kept = noted.kept
    BY <1>1, <2>1 DEF Fail, RunnerShape
  <2> QED BY <1>1, <1>7, <2>2 DEF Outcome, apiCallOutcome, Counters, SameRun
<1>8. CASE last /\ ~(~expected /\ step.fatal) /\ step.socket /\ ~expected
  <2> DEFINE kept == [n \in DOMAIN noted.kept \ {BobSocket, Sockets} |-> noted.kept[n]]
  <2>1. y = Finished([noted EXCEPT !.kept = kept])
    BY <1>2, <1>8
  <2> HIDE DEF kept
  <2>2. /\ RunnerShape(y) /\ y.pc = noted.pc /\ y.status = "next" /\ y.tries = noted.tries
        /\ y.calls = noted.calls /\ y.who = noted.who /\ y.failures = noted.failures
    BY <1>1, <2>1 DEF Finished, RunnerShape
  <2> QED BY <1>1, <1>8, <2>2 DEF Outcome, apiCallOutcome, Counters, SameRun
<1>9. CASE last /\ ~(~expected /\ step.fatal) /\ ~(step.socket /\ ~expected)
  <2>1. y = Finished(noted)
    BY <1>2, <1>9
  <2>2. /\ RunnerShape(y) /\ y.pc = noted.pc /\ y.status = "next" /\ y.tries = noted.tries
        /\ y.calls = noted.calls /\ y.who = noted.who /\ y.failures = noted.failures /\ y.kept = noted.kept
    BY <1>1, <2>1 DEF Finished, RunnerShape
  <2> QED BY <1>1, <1>9, <2>2 DEF Outcome, apiCallOutcome, Counters, SameRun
<1> QED BY <1>3, <1>4, <1>5, <1>6, <1>7, <1>8, <1>9

LEMMA requestStep ==
  ASSUME NEW x, NEW step, NEW code, NEW rows, RunnerShape(x), Counters(x), x.status = "running",
         NEW y, y = request(x, step, code, rows)
  PROVE  Outcome(x, y) /\ y.status # "hung"
<1>1. CASE code \in step.expect
  <2>1. y = Finished(Learn(x, step, rows))
    BY <1>1 DEF request
  <2> PICK z : z = Learn(x, step, rows)
    OBVIOUS
  <2>2. /\ RunnerShape(z) /\ z.pc = x.pc /\ z.tries = x.tries /\ z.calls = x.calls
        /\ z.failures = x.failures /\ z.who = x.who
    BY LearnStep
  <2> QED BY <2>1, <2>2 DEF Finished, RunnerShape, Outcome, Counters, SameRun
<1>2. CASE code \notin step.expect /\ code \in {0, 429} /\ step.retry /\ AttemptsLeft(x)
  <2>1. y = [x EXCEPT !.tries = x.tries + 1]
    BY <1>2 DEF request
  <2> QED BY <1>2, <2>1 DEF RunnerShape, Outcome, Counters, SameRun, Again, AttemptsLeft, RETRY_ATTEMPTS
<1>3. CASE code \notin step.expect /\ ~(code \in {0, 429} /\ step.retry /\ AttemptsLeft(x))
  <2>1. y = Finished(x) \/ y = Fail(x, <<step.op, code>>)
    BY <1>3 DEF request
  <2> QED BY <2>1 DEF Finished, Fail, RunnerShape, Outcome, Counters, SameRun
<1> QED BY <1>1, <1>2, <1>3

-----------------------------------------------------------------------------
(* What a request does to the accounts *)

AccountStatuses == {"none", "active", "paused", "banned"}
DbOK(d) == "status" \in DOMAIN d /\ d.status \in [People -> AccountStatuses]

\* The accounts are left as they are.
StatusKept(d, answer) == answer.db.status = d.status /\ "status" \in DOMAIN answer.db

LEMMA ReplyStep ==
  ASSUME NEW d, NEW e, NEW code, NEW rows, "status" \in DOMAIN e, e.status = d.status
  PROVE  StatusKept(d, Reply(e, code, rows))
BY DEF Reply, StatusKept

LEMMA generateTokensStep ==
  ASSUME NEW d, NEW p, "status" \in DOMAIN d
  PROVE  StatusKept(d, generateTokens(d, p))
BY DEF generateTokens, Reply, StatusKept

LEMMA SendCodeStep ==
  ASSUME NEW d, NEW p, NEW purpose, "status" \in DOMAIN d
  PROVE  StatusKept(d, SendCode(d, p, purpose))
BY DEF SendCode, Reply, StatusKept

\* The handlers of accounts that write no status.
LEMMA AccountHandlers ==
  ASSUME NEW d, NEW q, "status" \in DOMAIN d
  PROVE  /\ StatusKept(d, requestRegistrationOtp(d, q)) /\ StatusKept(d, resendRegistrationOtp(d, q))
         /\ StatusKept(d, login(d, q)) /\ StatusKept(d, requestPasswordResetOtp(d, q))
         /\ StatusKept(d, resetPassword(d, q)) /\ StatusKept(d, refresh(d, q)) /\ StatusKept(d, logout(d, q))
         /\ StatusKept(d, updateMe(d, q)) /\ StatusKept(d, changePassword(d, q))
         /\ StatusKept(d, getPublicProfile(d, q)) /\ StatusKept(d, AboutUser(d, q))
<1> USE DEF StatusKept
<1>1. \A code : StatusKept(d, Refuse(d, code)) /\ \A rows : StatusKept(d, Reply(d, code, rows))
  BY DEF Refuse, Reply
<1>2. StatusKept(d, requestRegistrationOtp(d, q))
  <2> PICK e : e = [d EXCEPT !.pending = d.pending \cup {q.on}]
    OBVIOUS
  <2>1. "status" \in DOMAIN e /\ e.status = d.status
    OBVIOUS
  <2>2. StatusKept(e, SendCode(e, q.on, "registration"))
    BY <2>1, SendCodeStep
  <2>3. requestRegistrationOtp(d, q) = Refuse(d, 409)
        \/ requestRegistrationOtp(d, q) = SendCode(e, q.on, "registration")
    BY DEF requestRegistrationOtp
  <2> QED BY <1>1, <2>1, <2>2, <2>3
<1>3. StatusKept(d, resendRegistrationOtp(d, q))
  BY <1>1, SendCodeStep DEF resendRegistrationOtp
<1>4. StatusKept(d, login(d, q))
  BY <1>1, generateTokensStep DEF login
<1>5. StatusKept(d, requestPasswordResetOtp(d, q))
  BY <1>1, SendCodeStep DEF requestPasswordResetOtp
<1>6. StatusKept(d, resetPassword(d, q))
  <2> PICK e : e = [d EXCEPT !.password[q.on] = q.val, !.codes = d.codes \ {<<q.on, "password_reset">>}]
    OBVIOUS
  <2>1. "status" \in DOMAIN e /\ e.status = d.status
    OBVIOUS
  <2>2. StatusKept(e, generateTokens(e, q.on))
    BY <2>1, generateTokensStep
  <2>3. (\E code : resetPassword(d, q) = Refuse(d, code)) \/ resetPassword(d, q) = generateTokens(e, q.on)
    BY DEF resetPassword
  <2> QED BY <1>1, <2>1, <2>2, <2>3
<1>7. StatusKept(d, refresh(d, q)) /\ StatusKept(d, logout(d, q))
  <2> PICK e : e = [d EXCEPT !.refresh = d.refresh \ {q.id}]
    OBVIOUS
  <2>1. "status" \in DOMAIN e /\ e.status = d.status
    OBVIOUS
  <2>2. StatusKept(e, generateTokens(e, q.id[1])) /\ StatusKept(e, Refuse(e, 401)) /\ StatusKept(e, Reply(e, 201, {}))
    BY <2>1, generateTokensStep DEF Refuse, Reply
  <2>3. refresh(d, q) = generateTokens(e, q.id[1]) \/ refresh(d, q) = Refuse(e, 401)
    BY DEF refresh
  <2>4. logout(d, q) = Reply(e, 201, {})
    BY DEF logout
  <2> QED BY <2>1, <2>2, <2>3, <2>4
<1>8. StatusKept(d, updateMe(d, q))
  BY <1>1 DEF updateMe
<1>9. StatusKept(d, changePassword(d, q))
  <2> PICK e : e = [d EXCEPT !.password[q.by] = q.val]
    OBVIOUS
  <2>1. "status" \in DOMAIN e /\ e.status = d.status
    OBVIOUS
  <2>2. \A rows : StatusKept(e, Reply(e, 200, rows))
    BY <2>1 DEF Reply
  <2>3. changePassword(d, q) = Refuse(d, 400) \/ \E rows : changePassword(d, q) = Reply(e, 200, rows)
    BY DEF changePassword
  <2> QED BY <1>1, <2>1, <2>2, <2>3
<1>10. StatusKept(d, getPublicProfile(d, q)) /\ StatusKept(d, AboutUser(d, q))
  BY <1>1 DEF getPublicProfile, AboutUser
<1> HIDE DEF StatusKept
<1> QED BY <1>2, <1>3, <1>4, <1>5, <1>6, <1>7, <1>8, <1>9, <1>10

\* The handlers of files and products.
LEMMA FileHandlers ==
  ASSUME NEW d, NEW q, "status" \in DOMAIN d
  PROVE  /\ StatusKept(d, createUploadIntent(d, q))
         /\ StatusKept(d, markUploaded(d, q))
         /\ StatusKept(d, getFile(d, q))
         /\ StatusKept(d, createProduct(d, q))
         /\ StatusKept(d, getProductById(d, q))
         /\ StatusKept(d, updateProduct(d, q))
         /\ StatusKept(d, deleteProduct(d, q))
         /\ StatusKept(d, updateProductStatus(d, q))
         /\ StatusKept(d, listMyProducts(d, q))
<1>1. StatusKept(d, createUploadIntent(d, q))
  BY DEF createUploadIntent, Refuse, Reply, StatusKept
<1>2. StatusKept(d, markUploaded(d, q))
  BY DEF markUploaded, Refuse, Reply, StatusKept
<1>3. StatusKept(d, getFile(d, q))
  BY DEF getFile, Refuse, Reply, StatusKept
<1>4. StatusKept(d, createProduct(d, q))
  BY DEF createProduct, Refuse, Reply, StatusKept
<1>5. StatusKept(d, getProductById(d, q))
  BY DEF getProductById, Refuse, Reply, StatusKept
<1>6. StatusKept(d, updateProduct(d, q))
  BY DEF updateProduct, Refuse, Reply, StatusKept
<1>7. StatusKept(d, deleteProduct(d, q))
  BY DEF deleteProduct, SetStatus, Refuse, Reply, StatusKept
<1>8. StatusKept(d, updateProductStatus(d, q))
  BY DEF updateProductStatus, SetStatus, Refuse, Reply, StatusKept
<1>9. StatusKept(d, listMyProducts(d, q))
  BY DEF listMyProducts, Refuse, Reply, StatusKept
<1> QED BY <1>1, <1>2, <1>3, <1>4, <1>5, <1>6, <1>7, <1>8, <1>9

\* The handlers of favorites, blocks and ratings.
LEMMA PeopleHandlers ==
  ASSUME NEW d, NEW q, "status" \in DOMAIN d
  PROVE  /\ StatusKept(d, addFavorite(d, q))
         /\ StatusKept(d, removeFavorite(d, q))
         /\ StatusKept(d, listFavorites(d, q))
         /\ StatusKept(d, blockUser(d, q))
         /\ StatusKept(d, unblockUser(d, q))
         /\ StatusKept(d, listBlockedUsers(d, q))
         /\ StatusKept(d, rateUser(d, q))
<1>1. StatusKept(d, addFavorite(d, q))
  BY DEF addFavorite, Refuse, Reply, StatusKept
<1>2. StatusKept(d, removeFavorite(d, q))
  BY DEF removeFavorite, Refuse, Reply, StatusKept
<1>3. StatusKept(d, listFavorites(d, q))
  BY DEF listFavorites, Refuse, Reply, StatusKept
<1>4. StatusKept(d, blockUser(d, q))
  BY DEF blockUser, Refuse, Reply, StatusKept
<1>5. StatusKept(d, unblockUser(d, q))
  BY DEF unblockUser, Refuse, Reply, StatusKept
<1>6. StatusKept(d, listBlockedUsers(d, q))
  BY DEF listBlockedUsers, Refuse, Reply, StatusKept
<1>7. StatusKept(d, rateUser(d, q))
  BY DEF rateUser, Refuse, Reply, StatusKept
<1> QED BY <1>1, <1>2, <1>3, <1>4, <1>5, <1>6, <1>7

\* The handlers of conversations and messages.
LEMMA ChatHandlers ==
  ASSUME NEW d, NEW q, "status" \in DOMAIN d
  PROVE  /\ StatusKept(d, getOrCreateConversation(d, q))
         /\ StatusKept(d, listMessages(d, q))
         /\ StatusKept(d, sendMessage(d, q))
         /\ StatusKept(d, markRead(d, q))
<1>1. StatusKept(d, getOrCreateConversation(d, q))
  BY DEF getOrCreateConversation, Refuse, Reply, StatusKept
<1>2. StatusKept(d, listMessages(d, q))
  BY DEF listMessages, InConversation, Refuse, Reply, StatusKept
<1>3. StatusKept(d, sendMessage(d, q))
  BY DEF sendMessage, InConversation, Refuse, Reply, StatusKept
<1>4. StatusKept(d, markRead(d, q))
  BY DEF markRead, InConversation, Refuse, Reply, StatusKept
<1> QED BY <1>1, <1>2, <1>3, <1>4

\* The handlers of reports, warnings and categories.
LEMMA BackOfficeHandlers ==
  ASSUME NEW d, NEW q, "status" \in DOMAIN d
  PROVE  /\ StatusKept(d, createReport(d, q))
         /\ StatusKept(d, getMyReports(d, q))
         /\ StatusKept(d, listReports(d, q))
         /\ StatusKept(d, updateReportStatus(d, q))
         /\ StatusKept(d, listUsers(d, q))
         /\ StatusKept(d, createWarning(d, q))
         /\ StatusKept(d, promoteAdmin(d, q))
         /\ StatusKept(d, createCategory(d, q))
         /\ StatusKept(d, listCategories(d, q))
<1>1. StatusKept(d, createReport(d, q))
  BY DEF createReport, Refuse, Reply, StatusKept
<1>2. StatusKept(d, getMyReports(d, q))
  BY DEF getMyReports, Refuse, Reply, StatusKept
<1>3. StatusKept(d, listReports(d, q))
  BY DEF listReports, Refuse, Reply, StatusKept
<1>4. StatusKept(d, updateReportStatus(d, q))
  BY DEF updateReportStatus, Refuse, Reply, StatusKept
<1>5. StatusKept(d, listUsers(d, q))
  BY DEF listUsers, Refuse, Reply, StatusKept
<1>6. StatusKept(d, createWarning(d, q))
  BY DEF createWarning, Refuse, Reply, StatusKept
<1>7. StatusKept(d, promoteAdmin(d, q))
  BY DEF promoteAdmin, Refuse, Reply, StatusKept
<1>8. StatusKept(d, createCategory(d, q))
  BY DEF createCategory, Refuse, Reply, StatusKept
<1>9. StatusKept(d, listCategories(d, q))
  BY DEF listCategories, Refuse, Reply, StatusKept
<1> QED BY <1>1, <1>2, <1>3, <1>4, <1>5, <1>6, <1>7, <1>8, <1>9

-----------------------------------------------------------------------------
(* Every request: only a status call, or the end of a registration, writes a status *)

LEMMA HandleKeepsStatus ==
  ASSUME NEW d, NEW q, "status" \in DOMAIN d, q.op \notin {"verifyRegistrationOtp", "updateUserStatus"}
  PROVE  StatusKept(d, Handle(d, q))
<1>1. StatusKept(d, InConversation(d, q, Reply(d, 200, {}))) /\ \A rows : StatusKept(d, Reply(d, 200, rows))
  BY DEF InConversation, Refuse, Reply, StatusKept
<1>2. Handle(d, q) \in
        {requestRegistrationOtp(d, q), resendRegistrationOtp(d, q), login(d, q), requestPasswordResetOtp(d, q),
         resetPassword(d, q), refresh(d, q), logout(d, q), updateMe(d, q), changePassword(d, q),
         getPublicProfile(d, q), AboutUser(d, q)}
        \cup {createUploadIntent(d, q), markUploaded(d, q), getFile(d, q), createProduct(d, q),
              getProductById(d, q), updateProduct(d, q), deleteProduct(d, q), updateProductStatus(d, q),
              listMyProducts(d, q)}
        \cup {addFavorite(d, q), removeFavorite(d, q), listFavorites(d, q), blockUser(d, q),
              unblockUser(d, q), listBlockedUsers(d, q), rateUser(d, q)}
        \cup {getOrCreateConversation(d, q), listMessages(d, q), sendMessage(d, q), markRead(d, q),
              InConversation(d, q, Reply(d, 200, {}))}
        \cup {createReport(d, q), getMyReports(d, q), listReports(d, q), updateReportStatus(d, q),
              listUsers(d, q), createWarning(d, q), promoteAdmin(d, q), createCategory(d, q),
              listCategories(d, q), Reply(d, 200, {}), Reply(d, 200, {Row(NoRow, "socket", NoKey)})}
  BY DEF Handle
<1> QED BY <1>1, <1>2, AccountHandlers, FileHandlers, PeopleHandlers, ChatHandlers, BackOfficeHandlers

LEMMA RefuseStep ==
  ASSUME NEW d, NEW code
  PROVE  Refuse(d, code).db = d /\ Refuse(d, code).code = code
BY DEF Refuse, Reply

LEMMA verifyRegistrationStep ==
  ASSUME NEW d, NEW q, DbOK(d), NEW e, e = verifyRegistrationOtp(d, q).db
  PROVE  "status" \in DOMAIN e /\ (e.status = d.status \/ e.status = [d.status EXCEPT ![q.on] = "active"])
<1> PICK f : f = [d EXCEPT !.status[q.on] = "active", !.pending = d.pending \ {q.on},
                           !.codes = d.codes \ {<<q.on, "registration">>}]
  OBVIOUS
<1>1. "status" \in DOMAIN f /\ f.status = [d.status EXCEPT ![q.on] = "active"]
  BY DEF DbOK
<1>2. StatusKept(f, generateTokens(f, q.on))
  BY <1>1, generateTokensStep
<1>3. (\E code : verifyRegistrationOtp(d, q) = Refuse(d, code))
      \/ verifyRegistrationOtp(d, q) = generateTokens(f, q.on)
  BY DEF verifyRegistrationOtp
<1> QED BY <1>1, <1>2, <1>3, RefuseStep DEF StatusKept, DbOK

StatusSet(d, q) == [d.status EXCEPT ![q.on] = q.val]

\* A status call sets the status of an account there is, for the administrator.
LEMMA updateUserStatusStep ==
  ASSUME NEW d, NEW q, DbOK(d), q.op = "updateUserStatus", NEW answer, answer = Serve(d, q)
  PROVE  /\ answer.code \in {200, 401, 403, 404}
         /\ answer.code = 200 \/ answer.db = d
         /\ answer.code = 200 =>
              /\ "status" \in DOMAIN answer.db
              /\ answer.db.status = StatusSet(d, q)
              /\ q.by = Admin /\ q.by # NoOne
         /\ q.by = Admin /\ q.by # NoOne /\ Exists(d, q.on) => answer.code = 200
<1>1. Handle(d, q) = updateUserStatus(d, q)
  BY DEF Handle
<1>2. Denied(q) = IF q.by = NoOne THEN 401 ELSE IF q.by # Admin THEN 403 ELSE 0
  BY DEF Denied, AuthPublic, OpenReads, OptionalReads, AdminRoutes
<1> PICK e : e = [d EXCEPT !.status[q.on] = q.val]
  OBVIOUS
<1>3. "status" \in DOMAIN e /\ e.status = StatusSet(d, q)
  BY DEF DbOK, StatusSet
<1>4. updateUserStatus(d, q) = IF ~Exists(d, q.on) THEN Refuse(d, 404) ELSE Reply(e, 200, {})
  BY DEF updateUserStatus
<1>5. Reply(e, 200, {}).db = e /\ Reply(e, 200, {}).code = 200
  BY DEF Reply
<1>6. CASE Denied(q) # 0
  <2>1. answer = Refuse(d, Denied(q)) /\ Denied(q) \in {401, 403}
    BY <1>2, <1>6 DEF Serve
  <2> QED BY <1>2, <1>6, <2>1, RefuseStep
<1>7. CASE Denied(q) = 0
  <2>1. answer = updateUserStatus(d, q) /\ q.by = Admin /\ q.by # NoOne
    BY <1>1, <1>2, <1>7 DEF Serve
  <2>2. CASE ~Exists(d, q.on)
    BY <1>4, <2>1, <2>2, RefuseStep
  <2>3. CASE Exists(d, q.on)
    BY <1>3, <1>4, <1>5, <2>1, <2>3
  <2> QED BY <2>2, <2>3
<1> QED BY <1>6, <1>7

\* The administrator bans the account q is about.
Bans(q, p) == q.op = "updateUserStatus" /\ q.on = p /\ q.val = "banned"

LEMMA ServeStep ==
  ASSUME NEW d, NEW q, DbOK(d), q.op = "updateUserStatus" => q.val \in AccountStatuses, NEW e, e = Serve(d, q).db
  PROVE  DbOK(e) /\ \A p \in People : e.status[p] = "banned" => d.status[p] = "banned" \/ Bans(q, p)
<1>1. CASE q.op = "updateUserStatus"
  <2> PICK answer : answer = Serve(d, q)
    OBVIOUS
  <2>1. answer.code = 200 \/ answer.db = d
    BY <1>1, updateUserStatusStep
  <2>2. CASE answer.code = 200
    <3>1. "status" \in DOMAIN e /\ e.status = StatusSet(d, q)
      BY <1>1, <2>2, updateUserStatusStep
    <3> QED BY <1>1, <3>1 DEF DbOK, StatusSet, Bans
  <2>3. CASE answer.db = d
    BY <2>3
  <2> QED BY <2>1, <2>2, <2>3
<1>2. CASE q.op # "updateUserStatus"
  <2>1. e = d \/ e = Handle(d, q).db
    BY RefuseStep DEF Serve
  <2>2. CASE q.op = "verifyRegistrationOtp"
    <3>1. Handle(d, q) = verifyRegistrationOtp(d, q)
      BY <2>2 DEF Handle
    <3>2. e = d \/ ("status" \in DOMAIN e
                    /\ (e.status = d.status \/ e.status = [d.status EXCEPT ![q.on] = "active"]))
      BY <2>1, <3>1, verifyRegistrationStep
    <3> QED BY <3>2 DEF DbOK, AccountStatuses
  <2>3. CASE q.op # "verifyRegistrationOtp"
    <3>1. StatusKept(d, Handle(d, q))
      BY <1>2, <2>3, HandleKeepsStatus DEF DbOK
    <3> QED BY <2>1, <3>1 DEF StatusKept, DbOK
  <2> QED BY <2>2, <2>3
<1> QED BY <1>1, <1>2

-----------------------------------------------------------------------------
(* The scripts: sequences of calls, and none of them bans anybody but where  *)
(* the simulator's flow 12 does                                              *)

Script(s) == s \in Seq(ToSet(s))
Other(step) == "op" \in DOMAIN step /\ step.op \notin {"updateUserStatus", "createCategory"}
NoStatusCall(step) ==
  "op" \in DOMAIN step /\ step.op # "updateUserStatus" /\ (step.op = "createCategory" => step.val \in SimCategories)
Harmless(s) == Script(s) /\ \A i \in DOMAIN s : NoStatusCall(s[i])

LEMMA Called ==
  /\ \A by, op, expect : op \notin {"updateUserStatus", "createCategory"} => Other(Call(by, op, expect))
  /\ \A op, expect : op \notin {"updateUserStatus", "createCategory"} => Other(Anyone(op, expect))
BY DEF Other, Call, Anyone

LEMMA Refined ==
  /\ \A step, x : Other(step) => Other(On(step, x))
  /\ \A step, x : Other(step) => Other(At(step, x))
  /\ \A step, x : Other(step) => Other(Val(step, x))
  /\ \A step, x : Other(step) => Other(Offer(step, x))
  /\ \A step, x : Other(step) => Other(Picture(step, x))
  /\ \A step, x : Other(step) => Other(Keep(step, x))
  /\ \A step, x : Other(step) => Other(Needs(step, x))
  /\ \A step, x : Other(step) => Other(Lacks(step, x))
  /\ \A step, x : Other(step) => Other(Find(step, x))
  /\ \A step : Other(step) => Other(Critical(step))
  /\ \A step : Other(step) => Other(Event(step))
  /\ \A step : Other(step) => Other(Retried(step))
  /\ \A step : Other(step) => NoStatusCall(step)
BY DEF Other, NoStatusCall, On, At, Val, Offer, Picture, Keep, Needs, Lacks, Find, Critical, Event, Retried

LEMMA Required ==
  ASSUME NEW names
  PROVE  NoStatusCall(Require(names))
<1>1. Other(Anyone("require", {}))
  BY Called
<1> QED BY <1>1 DEF Require, Other, NoStatusCall

LEMMA SeqIsScript ==
  ASSUME NEW S, NEW s \in Seq(S)
  PROVE  Script(s) /\ Len(s) \in Nat /\ DOMAIN s = 1 .. Len(s)
<1>1. Len(s) \in Nat /\ DOMAIN s = 1 .. Len(s) /\ s \in [1 .. Len(s) -> S]
  OBVIOUS
<1>2. s \in [1 .. Len(s) -> ToSet(s)]
  BY <1>1 DEF ToSet
<1> QED BY <1>1, <1>2 DEF Script

LEMMA ScriptLen ==
  ASSUME NEW s, Script(s)
  PROVE  Len(s) \in Nat /\ DOMAIN s = 1 .. Len(s)
BY DEF Script

LEMMA HarmlessConcat ==
  ASSUME NEW s, NEW t, Harmless(s), Harmless(t)
  PROVE  Harmless(s \o t)
<1> DEFINE S == ToSet(s) \cup ToSet(t)
<1>1. s \in Seq(S) /\ t \in Seq(S)
  BY DEF Harmless, Script
<1> HIDE DEF S
<1>2. s \o t \in Seq(S)
  BY <1>1
<1>3. \A i \in DOMAIN (s \o t) : NoStatusCall((s \o t)[i])
  BY <1>1 DEF Harmless
<1> QED BY <1>2, <1>3, SeqIsScript DEF Harmless

LEMMA flow01 == Harmless(flow01_anonymous)
<1>1. \A i \in 1 .. 4 : NoStatusCall(flow01_anonymous[i])
  BY Called, Refined DEF flow01_anonymous
<1>2. Script(flow01_anonymous) /\ DOMAIN flow01_anonymous = 1 .. 4
  BY DEF flow01_anonymous, Script, ToSet
<1> QED BY <1>1, <1>2 DEF Harmless

LEMMA registerUserCalls ==
  ASSUME NEW p, NEW withResend
  PROVE  Harmless(registerUser(p, withResend))
<1> DEFINE first == << Critical(On(Anyone("register", {201}), p)) >>
           resend == IF withResend THEN << On(Anyone("resendRegistrationOtp", {201}), p) >> ELSE << >>
           verify == << Critical(Keep(Val(On(Anyone("verifyRegistrationOtp", {201}), p), DevCode), Session(p))) >>
<1>1. Harmless(first) /\ Harmless(verify)
  <2>1. NoStatusCall(first[1]) /\ NoStatusCall(verify[1])
    BY Called, Refined
  <2>2. Script(first) /\ DOMAIN first = 1 .. 1 /\ Script(verify) /\ DOMAIN verify = 1 .. 1
    BY DEF Script, ToSet
  <2> QED BY <2>1, <2>2 DEF Harmless
<1>2. Harmless(resend)
  <2>1. CASE withResend
    <3>1. NoStatusCall(resend[1])
      BY <2>1, Called, Refined
    <3>2. Script(resend) /\ DOMAIN resend = 1 .. 1
      BY <2>1 DEF Script, ToSet
    <3> QED BY <3>1, <3>2 DEF Harmless
  <2>2. CASE ~withResend
    <3>1. resend = << >>
      BY <2>2
    <3>2. resend \in Seq({}) /\ Len(resend) = 0
      BY <3>1
    <3>3. Script(resend) /\ DOMAIN resend = 1 .. 0
      BY <3>2, SeqIsScript
    <3> QED BY <3>3 DEF Harmless
  <2> QED BY <2>1, <2>2
<1>3. registerUser(p, withResend) = first \o resend \o verify
  BY DEF registerUser
<1> HIDE DEF first, resend, verify
<1> QED BY <1>1, <1>2, <1>3, HarmlessConcat

LEMMA flow03 == Harmless(flow03_adminBootstrap)
<1>1. \A i \in 1 .. 1 : NoStatusCall(flow03_adminBootstrap[i])
  BY Called, Refined DEF flow03_adminBootstrap, Login
<1>2. Script(flow03_adminBootstrap) /\ DOMAIN flow03_adminBootstrap = 1 .. 1
  BY DEF flow03_adminBootstrap, Login, Script, ToSet
<1> QED BY <1>1, <1>2 DEF Harmless

LEMMA flow04 == Harmless(flow04_tokenLifecycle)
<1>1. \A i \in 1 .. 3 : NoStatusCall(flow04_tokenLifecycle[i])
  BY Called, Refined DEF flow04_tokenLifecycle, Login
<1>2. Script(flow04_tokenLifecycle) /\ DOMAIN flow04_tokenLifecycle = 1 .. 3
  BY DEF flow04_tokenLifecycle, Login, Script, ToSet
<1> QED BY <1>1, <1>2 DEF Harmless

LEMMA flow05 == Harmless(flow05_passwordReset)
<1>1. \A i \in 1 .. 2 : NoStatusCall(flow05_passwordReset[i])
  BY Called, Refined DEF flow05_passwordReset
<1>2. Script(flow05_passwordReset) /\ DOMAIN flow05_passwordReset = 1 .. 2
  BY DEF flow05_passwordReset, Script, ToSet
<1> QED BY <1>1, <1>2 DEF Harmless

LEMMA UploadCalls ==
  ASSUME NEW p, NEW purpose, NEW name
  PROVE  Harmless(UploadFile(p, purpose, name))
<1>1. \A i \in 1 .. 3 : NoStatusCall(UploadFile(p, purpose, name)[i])
  BY Called, Refined DEF UploadFile
<1>2. Script(UploadFile(p, purpose, name)) /\ DOMAIN UploadFile(p, purpose, name) = 1 .. 3
  BY DEF UploadFile, Script, ToSet
<1> QED BY <1>1, <1>2 DEF Harmless

LEMMA flow06 == Harmless(flow06_profile)
<1>1. \A i \in 1 .. 4 : NoStatusCall(flow06_profile[i])
  BY Called, Refined DEF flow06_profile, Login
<1>2. Script(flow06_profile) /\ DOMAIN flow06_profile = 1 .. 4
  BY DEF flow06_profile, Login, Script, ToSet
<1> QED BY <1>1, <1>2 DEF Harmless

LEMMA flow07a == Harmless(flow07_category)
<1>1. \A i \in 1 .. 3 : NoStatusCall(flow07_category[i])
  <2>1. NoStatusCall(flow07_category[1]) /\ NoStatusCall(flow07_category[2])
    BY DEF flow07_category, NoStatusCall, SimCategories, Lacks, Keep, Val, At, Call
  <2>2. NoStatusCall(flow07_category[3])
    BY Required DEF flow07_category
  <2>3. \A i \in 1 .. 3 : i = 1 \/ i = 2 \/ i = 3
    OBVIOUS
  <2> QED BY <2>1, <2>2, <2>3
<1>2. Script(flow07_category) /\ DOMAIN flow07_category = 1 .. 3
  BY DEF flow07_category, Script, ToSet
<1> QED BY <1>1, <1>2 DEF Harmless

LEMMA flow07b == Harmless(flow07_products)
<1>1. \A i \in 1 .. 8 : NoStatusCall(flow07_products[i])
  BY Called, Refined DEF flow07_products, CreateProduct
<1>2. Script(flow07_products) /\ DOMAIN flow07_products = 1 .. 8
  BY DEF flow07_products, CreateProduct, Script, ToSet
<1> QED BY <1>1, <1>2 DEF Harmless

LEMMA flow08a == Harmless(flow08_buyer)
<1>1. \A i \in 1 .. 6 : NoStatusCall(flow08_buyer[i])
  BY Called, Refined DEF flow08_buyer
<1>2. Script(flow08_buyer) /\ DOMAIN flow08_buyer = 1 .. 6
  BY DEF flow08_buyer, Script, ToSet
<1> QED BY <1>1, <1>2 DEF Harmless

LEMMA flow08b == Harmless(flow08_chat)
<1>1. \A i \in 1 .. 10 : NoStatusCall(flow08_chat[i])
  BY Called, Refined DEF flow08_chat
<1>2. Script(flow08_chat) /\ DOMAIN flow08_chat = 1 .. 10
  BY DEF flow08_chat, Script, ToSet
<1> QED BY <1>1, <1>2 DEF Harmless

LEMMA flow09 == Harmless(flow09_websocket)
<1>1. \A i \in 1 .. 6 : NoStatusCall(flow09_websocket[i])
  BY Called, Refined DEF flow09_websocket
<1>2. Script(flow09_websocket) /\ DOMAIN flow09_websocket = 1 .. 6
  BY DEF flow09_websocket, Script, ToSet
<1> QED BY <1>1, <1>2 DEF Harmless

LEMMA flow10 == Harmless(flow10_blocksAndSafety)
<1>1. \A i \in 1 .. 5 : NoStatusCall(flow10_blocksAndSafety[i])
  BY Called, Refined DEF flow10_blocksAndSafety
<1>2. Script(flow10_blocksAndSafety) /\ DOMAIN flow10_blocksAndSafety = 1 .. 5
  BY DEF flow10_blocksAndSafety, Script, ToSet
<1> QED BY <1>1, <1>2 DEF Harmless

LEMMA flow11 == Harmless(flow11_ratings)
<1>1. \A i \in 1 .. 3 : NoStatusCall(flow11_ratings[i])
  BY Called, Refined DEF flow11_ratings
<1>2. Script(flow11_ratings) /\ DOMAIN flow11_ratings = 1 .. 3
  BY DEF flow11_ratings, Script, ToSet
<1> QED BY <1>1, <1>2 DEF Harmless

LEMMA flow13 == Harmless(flow13_negativeChecks)
<1>1. \A i \in 1 .. 9 : NoStatusCall(flow13_negativeChecks[i])
  BY Called, Refined DEF flow13_negativeChecks
<1>2. Script(flow13_negativeChecks) /\ DOMAIN flow13_negativeChecks = 1 .. 9
  BY DEF flow13_negativeChecks, Script, ToSet
<1> QED BY <1>1, <1>2 DEF Harmless

LEMMA PairCalls ==
  ASSUME NEW a, NEW b, NEW k
  PROVE  Harmless(PairMessage(a, b, k))
<1>1. \A i \in 1 .. 2 : NoStatusCall(PairMessage(a, b, k)[i])
  BY Called, Refined DEF PairMessage
<1>2. Script(PairMessage(a, b, k)) /\ DOMAIN PairMessage(a, b, k) = 1 .. 2
  BY DEF PairMessage, Script, ToSet
<1> QED BY <1>1, <1>2 DEF Harmless

LEMMA UserCalls ==
  ASSUME NEW vu
  PROVE  Harmless(runConcurrentUserBaseline(vu))
<1> DEFINE entry == << Retried(On(Anyone("register", {201, 429}), vu)),
                       Retried(Keep(Val(On(Anyone("verifyRegistrationOtp", {201}), vu), DevCode), Session(vu))),
                       Retried(Login(vu, "first")),
                       Call(vu, "getMe", {200}) >>
<1>1. \A i \in 1 .. 4 : NoStatusCall(entry[i])
  BY Called, Refined DEF Login
<1>2. Script(entry) /\ DOMAIN entry = 1 .. 4
  BY DEF Script, ToSet
<1>3. runConcurrentUserBaseline(vu) = entry \o UploadFile(vu, "avatar", <<vu, "file">>)
  BY DEF runConcurrentUserBaseline
<1> HIDE DEF entry
<1>4. Harmless(entry)
  BY <1>1, <1>2 DEF Harmless
<1> QED BY <1>3, <1>4, UploadCalls, HarmlessConcat

LEMMA ChatPairCalls ==
  ASSUME NEW a, NEW b
  PROVE  Harmless(runConcurrentChatPair(a, b))
<1> DEFINE entry == << Critical(Keep(On(Call(a, "createConversation", {201}), b), Conversation)),
                       Call(a, "listConversations", {200}),
                       At(Call(a, "listMessages", {200}), Conversation),
                       Event(Critical(Call(a, "connect", {200}))),
                       Event(Critical(Call(b, "connect", {200}))),
                       Event(Critical(At(Call(a, "conversation.join", {200}), Conversation))),
                       Event(Critical(At(Call(b, "conversation.join", {200}), Conversation))) >>
<1>1. \A i \in 1 .. 7 : NoStatusCall(entry[i])
  BY Called, Refined
<1>2. Script(entry) /\ DOMAIN entry = 1 .. 7
  BY DEF Script, ToSet
<1>3. runConcurrentChatPair(a, b) = entry \o PairMessage(a, b, 0) \o PairMessage(a, b, 1)
  BY DEF runConcurrentChatPair
<1> HIDE DEF entry
<1>4. Harmless(entry)
  BY <1>1, <1>2 DEF Harmless
<1> QED BY <1>3, <1>4, PairCalls, HarmlessConcat

\* The flows before flow 12, in the order of main.
FlowsBefore ==
  flow01_anonymous \o flow02_registerUsers \o flow03_adminBootstrap \o flow04_tokenLifecycle
  \o flow05_passwordReset \o flow06_uploadsAndProfile \o flow07_seller \o flow08_buyerAndChat
  \o flow09_websocket \o flow10_blocksAndSafety \o flow11_ratings

LEMMA CallsBefore == Harmless(FlowsBefore)
<1>1. Harmless(flow02_registerUsers)
  BY registerUserCalls, HarmlessConcat DEF flow02_registerUsers
<1>2. Harmless(flow06_uploadsAndProfile)
  BY UploadCalls, flow06, HarmlessConcat DEF flow06_uploadsAndProfile, UploadAvatar, UploadImage
<1>3. Harmless(flow07_seller) /\ Harmless(flow08_buyerAndChat)
  BY flow07a, flow07b, flow08a, flow08b, HarmlessConcat DEF flow07_seller, flow08_buyerAndChat
<1>4. Harmless(flow01_anonymous \o flow02_registerUsers \o flow03_adminBootstrap \o flow04_tokenLifecycle)
  BY <1>1, flow01, flow03, flow04, HarmlessConcat
<1>5. Harmless(flow01_anonymous \o flow02_registerUsers \o flow03_adminBootstrap \o flow04_tokenLifecycle
               \o flow05_passwordReset \o flow06_uploadsAndProfile \o flow07_seller)
  BY <1>2, <1>3, <1>4, flow05, HarmlessConcat
<1> QED BY <1>3, <1>5, flow09, flow10, flow11, HarmlessConcat DEF FlowsBefore

\* Where flow 12 bans alice; the next call lifts the ban.
BanAt == Len(FlowsBefore) + 4
Ban == Val(On(Call(AdminPhone, "updateUserStatus", {200}), Alice), "banned")
Lift == Val(On(Call(AdminPhone, "updateUserStatus", {200}), Alice), "active")

LEMMA flow12 ==
  /\ Script(flow12_reportsAndAdmin) /\ DOMAIN flow12_reportsAndAdmin = 1 .. 9
  /\ flow12_reportsAndAdmin[4] = Ban /\ flow12_reportsAndAdmin[5] = Lift
  /\ \A i \in 1 .. 9 \ {4, 5} : NoStatusCall(flow12_reportsAndAdmin[i])
<1>1. \A i \in {1, 2, 3, 6, 7, 8, 9} : NoStatusCall(flow12_reportsAndAdmin[i])
  BY Called, Refined DEF flow12_reportsAndAdmin
<1>2. Script(flow12_reportsAndAdmin) /\ DOMAIN flow12_reportsAndAdmin = 1 .. 9
  BY DEF flow12_reportsAndAdmin, Script, ToSet
<1>3. flow12_reportsAndAdmin[4] = Ban /\ flow12_reportsAndAdmin[5] = Lift
  BY DEF flow12_reportsAndAdmin, Ban, Lift
<1>4. 1 .. 9 \ {4, 5} = {1, 2, 3, 6, 7, 8, 9}
  OBVIOUS
<1> QED BY <1>1, <1>2, <1>3, <1>4

LEMMA MainCalls ==
  /\ Script(MainScript) /\ Len(MainScript) \in Nat /\ BanAt \in Nat /\ BanAt + 1 \in 1 .. Len(MainScript)
  /\ MainScript[BanAt] = Ban /\ MainScript[BanAt + 1] = Lift
  /\ \A i \in 1 .. Len(MainScript) : i \notin {BanAt, BanAt + 1} => NoStatusCall(MainScript[i])
<1> DEFINE f == FlowsBefore  g == flow12_reportsAndAdmin  h == flow13_negativeChecks
           S == ToSet(f) \cup ToSet(g) \cup ToSet(h)
<1>1. MainScript = (f \o g) \o h
  BY DEF MainScript, FlowsBefore
<1>2. f \in Seq(S) /\ g \in Seq(S) /\ h \in Seq(S)
  BY CallsBefore, flow12, flow13 DEF Harmless, Script
<1>3. \A i \in 1 .. Len(f) : NoStatusCall(f[i])
  BY <1>2, CallsBefore DEF Harmless
<1>4. \A i \in 1 .. Len(h) : NoStatusCall(h[i])
  BY <1>2, flow13 DEF Harmless
<1>5. Len(g) = 9 /\ g[4] = Ban /\ g[5] = Lift /\ \A i \in 1 .. 9 : i \notin {4, 5} => NoStatusCall(g[i])
  BY <1>2, flow12
<1>6. BanAt = Len(f) + 4
  BY DEF BanAt
<1> HIDE DEF f, g, h, S
<1>7. MainScript \in Seq(S) /\ Len(MainScript) = Len(f) + 9 + Len(h)
  <2>1. f \o g \in Seq(S) /\ Len(f \o g) = Len(f) + 9
    <3>1. Len(g) = 9
      BY <1>5
    <3>2. f \o g \in Seq(S)
      BY <1>2
    <3>3. Len(f \o g) = Len(f) + Len(g)
      BY <1>2
    <3> QED BY <3>1, <3>2, <3>3
  <2> QED BY <1>1, <1>2, <2>1
<1>8. \A i \in 1 .. Len(MainScript) :
        MainScript[i] = IF i <= Len(f) THEN f[i] ELSE IF i <= Len(f) + 9 THEN g[i - Len(f)] ELSE h[i - Len(f) - 9]
  BY <1>1, <1>2, <1>5, <1>7
<1>9. Len(f) \in Nat /\ Len(h) \in Nat
  BY <1>2
<1>10. MainScript[BanAt] = Ban /\ MainScript[BanAt + 1] = Lift
  BY <1>5, <1>6, <1>7, <1>8, <1>9
<1>11. ASSUME NEW i \in 1 .. Len(MainScript), i \notin {BanAt, BanAt + 1}
       PROVE  NoStatusCall(MainScript[i])
  <2>1. CASE i <= Len(f)
    BY <1>3, <1>8, <1>9, <2>1
  <2>2. CASE i > Len(f) /\ i <= Len(f) + 9
    <3> PICK j : j = i - Len(f)
      OBVIOUS
    <3>1. j \in 1 .. 9 /\ j \notin {4, 5}
      BY <1>6, <1>9, <1>11, <2>2
    <3>2. MainScript[i] = g[j]
      BY <1>8, <1>9, <2>2
    <3> QED BY <1>5, <3>1, <3>2
  <2>3. CASE i > Len(f) + 9
    <3>1. i - Len(f) - 9 \in 1 .. Len(h)
      BY <1>7, <1>9, <2>3
    <3> QED BY <1>8, <1>9, <2>3, <3>1, <1>4
  <2> QED BY <1>9, <2>1, <2>2, <2>3
<1> QED BY <1>6, <1>7, <1>9, <1>10, <1>11, SeqIsScript

-----------------------------------------------------------------------------
(* The invariant *)

RunnerStatuses == {"idle", "running", "done", "failed", "skipped", "hung", "crashed"}

\* Of a runner x with this script: a running one is at one of its calls.
InScript(x, script) ==
  /\ RunnerShape(x) /\ Counters(x) /\ x.status \in RunnerStatuses /\ x.pc \in Nat
  /\ x.status = "idle" => x.pc = 0
  /\ x.status # "idle" => x.pc <= Len(script)
  /\ x.status = "running" => x.pc >= 1

Runs ==
  /\ run = [r \in Runners |-> run[r]]
  /\ \A r \in Runners : InScript(run[r], ScriptOf(r))
  /\ run["pair"].status # "idle" => run["pair"].who \in VUs \X VUs

Faults ==
  /\ net = [timeouts |-> net.timeouts, throttles |-> net.throttles, crashes |-> net.crashes, reruns |-> net.reruns]
  /\ net.timeouts \in 0 .. scenario.timeouts /\ net.throttles \in 0 .. scenario.throttles
  /\ IsFiniteSet(late) /\ Cardinality(late) <= scenario.timeouts - net.timeouts

\* The status call of flow 12 failed, and the program says so.
BanNoted == \E code \in {0, 429} : <<"updateUserStatus", code>> \in run["main"].failures

\* alice is banned for the time being: the program is about to lift the ban,
\* with the token that has just been good enough for the ban.
AboutToLift ==
  /\ run["main"].status = "running" /\ run["main"].pc = BanAt + 1
  /\ <<AdminPhone>> \in DOMAIN run["main"].kept /\ Admin = AdminPhone

Accounts ==
  /\ DbOK(db)
  /\ db.status[Alice] = "banned" => BanNoted \/ AboutToLift
  /\ \A q \in late :
       /\ q.op = "updateUserStatus" => q.val \in AccountStatuses
       /\ Bans(q, Alice) => BanNoted

CInv == scenario \in Scenarios /\ Runs /\ Faults /\ Accounts

-----------------------------------------------------------------------------
(* Runners and their scripts *)

LEMMA RunnerNames ==
  /\ {"main", "pair", "seeder"} \subseteq Runners /\ VUs \subseteq Runners
  /\ \A r \in Runners : r \notin {"main", "pair", "seeder"} => r \in VUs
  /\ \A u \in VUs : u \notin {"main", "pair", "seeder"}
BY RunnersAssumption DEF Runners

LEMMA Scripts ==
  ASSUME CInv, NEW r \in Runners, r = "pair" => run[r].status # "idle"
  PROVE  /\ Script(ScriptOf(r)) /\ Len(ScriptOf(r)) \in Nat
         /\ r \notin {"main", "seeder"} => Harmless(ScriptOf(r))
         /\ r = "main" => ScriptOf(r) = MainScript
         /\ r = "seeder" => scenario.tables \in DOMAIN Tables /\ ScriptOf(r) = SeedScripts[scenario.tables]
<1>1. CASE r = "main"
  <2>1. ScriptOf(r) = MainScript
    BY <1>1 DEF ScriptOf, MainSteps
  <2> QED BY <1>1, <2>1, MainCalls
<1>2. CASE r = "seeder"
  <2>1. ScriptOf(r) = SeedScripts[scenario.tables] /\ scenario.tables \in DOMAIN Tables
    BY <1>2, ScenarioAssumption DEF ScriptOf, CInv
  <2>2. Script(SeedScripts[scenario.tables])
    BY <2>1, SeedScriptAssumption DEF Script
  <2> QED BY <1>2, <2>1, <2>2, ScriptLen
<1>3. CASE r = "pair"
  <2>1. run[r].who \in VUs \X VUs
    BY <1>3 DEF CInv, Runs
  <2>2. ScriptOf(r) = runConcurrentChatPair(run[r].who[1], run[r].who[2])
    BY <1>3, <2>1 DEF ScriptOf, PairScripts
  <2>3. Harmless(ScriptOf(r))
    BY <2>2, ChatPairCalls
  <2> QED BY <1>3, <2>3, ScriptLen DEF Harmless
<1>4. CASE r \notin {"main", "seeder", "pair"}
  <2>1. r \in VUs
    BY <1>4, RunnerNames
  <2>2. ScriptOf(r) = runConcurrentUserBaseline(r)
    BY <1>4, <2>1 DEF ScriptOf, UserScripts
  <2>3. Harmless(ScriptOf(r))
    BY <2>2, UserCalls
  <2> QED BY <1>4, <2>3, ScriptLen DEF Harmless
<1> QED BY <1>1, <1>2, <1>3, <1>4

LEMMA SameScripts ==
  ASSUME scenario' = scenario, run'["pair"].who = run["pair"].who, NEW r \in Runners
  PROVE  ScriptOf(r)' = ScriptOf(r)
BY DEF ScriptOf

LEMMA BeginStep ==
  ASSUME NEW script, Len(script) \in Nat, NEW kept, NEW who, NEW y, y = Begin(script, kept, who)
  PROVE  /\ InScript(y, script) /\ y.status \in {"running", "done"} /\ y.who = who
         /\ y.kept = kept /\ y.failures = {}
<1>0. PICK x : x = [Idle EXCEPT !.status = "next", !.kept = kept, !.who = who]
  OBVIOUS
<1>1. /\ RunnerShape(x) /\ x.pc = 0 /\ x.status = "next" /\ x.tries = 0 /\ x.calls = 0
      /\ x.kept = kept /\ x.who = who /\ x.failures = {}
  BY <1>0 DEF Idle, RunnerShape
<1>2. y = Advance(x, script)
  BY <1>0 DEF Begin
<1>3. /\ RunnerShape(y) /\ y.kept = kept /\ y.who = who /\ y.failures = {} /\ y.tries = 0 /\ y.calls = 0
      /\ (y.status = "done" /\ y.pc = 0) \/ (y.status = "running" /\ y.pc \in 1 .. Len(script))
  <2>1. x.pc \in Nat
    BY <1>1
  <2>2. RunnerShape(y) /\ y.kept = x.kept /\ y.who = x.who /\ y.failures = x.failures
    BY <1>1, <1>2, <2>1, AdvanceStep
  <2>3. \/ y.status = "done" /\ y.pc = x.pc /\ y.tries = x.tries /\ y.calls = x.calls
        \/ y.status = "running" /\ y.pc \in x.pc + 1 .. Len(script) /\ y.tries = 0 /\ y.calls = 0
    BY <1>1, <1>2, <2>1, AdvanceStep
  <2> QED BY <1>1, <2>2, <2>3
<1> QED BY <1>3 DEF InScript, Counters, RunnerStatuses, RETRY_ATTEMPTS, AbortRetries

\* The calls that write a status, by whom they are made.
LEMMA StatusCalls ==
  ASSUME CInv, NEW r \in Runners, run[r].status = "running", StepOf(r).op = "updateUserStatus"
  PROVE  \/ r = "main" /\ run[r].pc = BanAt /\ StepOf(r) = Ban
         \/ r = "main" /\ run[r].pc = BanAt + 1 /\ StepOf(r) = Lift
         \/ r = "seeder" /\ StepOf(r).on # Alice /\ StepOf(r).val \in AccountStatuses
<1>1. Len(ScriptOf(r)) \in Nat /\ run[r].pc \in 1 .. Len(ScriptOf(r)) /\ DOMAIN ScriptOf(r) = 1 .. Len(ScriptOf(r))
  BY Scripts, ScriptLen DEF CInv, Runs, InScript
<1>2. CASE r = "main"
  <2>1. StepOf(r) = MainScript[run[r].pc] /\ run[r].pc \in 1 .. Len(MainScript)
    BY <1>1, <1>2, Scripts DEF StepOf
  <2> QED BY <1>2, <2>1, MainCalls DEF NoStatusCall
<1>3. CASE r = "seeder"
  <2>1. StepOf(r) = SeedScripts[scenario.tables][run[r].pc] /\ run[r].pc \in DOMAIN SeedScripts[scenario.tables]
        /\ scenario.tables \in DOMAIN Tables
    BY <1>1, <1>3, Scripts DEF StepOf
  <2> QED BY <1>3, <2>1, SeedScriptAssumption DEF AccountStatuses
<1>4. CASE r \notin {"main", "seeder"}
  BY <1>1, <1>4, Scripts DEF StepOf, Harmless, NoStatusCall
<1> QED BY <1>2, <1>3, <1>4

LEMMA StepBan ==
  /\ Ban.op = "updateUserStatus" /\ Ban.on = Alice /\ Ban.val = "banned" /\ Ban.by = AdminPhone
  /\ Ban.expect = {200} /\ ~Ban.fatal /\ ~Ban.retry /\ ~Ban.socket
BY DEF Ban, Val, On, Call

LEMMA StepLift ==
  /\ Lift.op = "updateUserStatus" /\ Lift.on = Alice /\ Lift.val = "active" /\ Lift.by = AdminPhone
  /\ Lift.expect = {200} /\ ~Lift.fatal /\ ~Lift.retry /\ ~Lift.socket
  /\ Lift.needs = {} /\ Lift.lacks = {} /\ ~Lift.changes
BY DEF Lift, Val, On, Call

-----------------------------------------------------------------------------
(* A runner receives an answer *)

LEMMA Received ==
  ASSUME CInv, NEW r \in Runners, run[r].status = "running", NEW code, NEW rows, Receive(r, code, rows)
  PROVE  \E y : /\ Outcome(run[r], y)
                /\ run' = [run EXCEPT ![r] = Advance(y, ScriptOf(r))]
                /\ r # "seeder" => apiCallOutcome(run[r], StepOf(r), code, y)
                /\ r = "seeder" => y.status # "hung"
<1>0. PICK y : /\ y = IF r = "seeder" THEN request(run[r], StepOf(r), code, rows)
                      ELSE apiCall(run[r], StepOf(r), code, rows)
               /\ run' = [run EXCEPT ![r] = Advance(y, ScriptOf(r))]
  BY DEF Receive, StepOf
<1>1. RunnerShape(run[r]) /\ Counters(run[r])
  BY DEF CInv, Runs, InScript
<1>2. CASE r = "seeder"
  <2>1. y = request(run[r], StepOf(r), code, rows)
    BY <1>0, <1>2
  <2>2. Outcome(run[r], y) /\ y.status # "hung"
    BY <1>1, <2>1, requestStep
  <2> QED BY <1>0, <1>2, <2>2
<1>3. CASE r # "seeder"
  <2>1. y = apiCall(run[r], StepOf(r), code, rows)
    BY <1>0, <1>3
  <2>2. Outcome(run[r], y) /\ apiCallOutcome(run[r], StepOf(r), code, y)
    BY <1>1, <2>1, apiCallStep
  <2> QED BY <1>0, <1>3, <2>2
<1> QED BY <1>2, <1>3

\* Only the runner of the step moves.
OthersWait(r) == run' = [s \in Runners |-> run'[s]] /\ \A s \in Runners : s # r => run'[s] = run[s]

LEMMA Moved ==
  ASSUME CInv, NEW r \in Runners, NEW n, run' = [run EXCEPT ![r] = n]
  PROVE  run'[r] = n /\ OthersWait(r)
<1>1. run = [s \in Runners |-> run[s]]
  BY DEF CInv, Runs
<1> QED BY <1>1 DEF OthersWait

\* What the end of a call makes of a runner, before and after Advance.
LEMMA Advanced ==
  ASSUME CInv, NEW r \in Runners, run[r].status = "running", NEW y, Outcome(run[r], y),
         NEW n, n = Advance(y, ScriptOf(r))
  PROVE  /\ InScript(n, ScriptOf(r)) /\ SameRun(run[r], n) /\ n.status # "idle"
         /\ n.failures = y.failures /\ n.kept = y.kept
         /\ y.status # "next" => n = y
         /\ GetsOn(run[r], n) \/ (n.status = "hung" /\ y.status = "hung")
<1> DEFINE x == run[r]  script == ScriptOf(r)
<1>1. Len(script) \in Nat /\ x.pc \in Nat /\ 1 <= x.pc /\ x.pc <= Len(script)
  BY Scripts DEF CInv, Runs, InScript
<1>2. RunnerShape(y) /\ y.pc = x.pc /\ Counters(y) /\ SameRun(x, y)
  BY DEF Outcome
<1>3. y.pc \in Nat
  BY <1>1, <1>2
<1> HIDE DEF x, script
<1>4. n = Advance(y, script)
  BY DEF script
<1>5. RunnerShape(n) /\ n.kept = y.kept /\ n.who = y.who /\ n.failures = y.failures
  BY <1>1, <1>2, <1>3, <1>4, AdvanceStep
<1>6. SameRun(x, n)
  BY <1>2, <1>5 DEF SameRun
<1>7. CASE y.status = "next"
  <2>1. \/ n.status = "done" /\ n.pc = y.pc /\ n.tries = y.tries /\ n.calls = y.calls
        \/ n.status = "running" /\ n.pc \in y.pc + 1 .. Len(script) /\ n.tries = 0 /\ n.calls = 0
    BY <1>1, <1>2, <1>3, <1>4, <1>7, AdvanceStep
  <2>2. InScript(n, script) /\ GetsOn(x, n) /\ n.status # "idle"
    BY <1>1, <1>2, <1>5, <2>1
    DEF InScript, GetsOn, Counters, RunnerStatuses, RETRY_ATTEMPTS, AbortRetries
  <2> QED BY <1>5, <1>6, <1>7, <2>2 DEF x, script
<1>8. CASE y.status # "next"
  <2>1. n = y
    BY <1>1, <1>2, <1>3, <1>4, <1>8, AdvanceStep
  <2>2. y.status \in {"failed", "hung", "skipped"} \/ (y.status = "running" /\ Again(x, y))
    BY <1>8 DEF Outcome, x
  <2>3. InScript(n, script) /\ n.status # "idle"
    BY <1>1, <1>2, <2>1, <2>2 DEF InScript, RunnerStatuses
  <2>4. GetsOn(x, n) \/ n.status = "hung"
    BY <1>2, <2>1, <2>2 DEF GetsOn, Again
  <2> QED BY <1>5, <1>6, <2>1, <2>3, <2>4 DEF x, script
<1> QED BY <1>7, <1>8

LEMMA ReceiveStep ==
  ASSUME CInv, NEW r \in Runners, run[r].status = "running", NEW code, NEW rows, Receive(r, code, rows)
  PROVE  /\ OthersWait(r) /\ InScript(run'[r], ScriptOf(r)) /\ SameRun(run[r], run'[r]) /\ run'[r].status # "idle"
         /\ \/ GetsOn(run[r], run'[r])
            \/ r # "seeder" /\ StepOf(r).socket /\ code \notin StepOf(r).expect /\ code # 0
<1>1. PICK y : /\ Outcome(run[r], y)
               /\ run' = [run EXCEPT ![r] = Advance(y, ScriptOf(r))]
               /\ r # "seeder" => apiCallOutcome(run[r], StepOf(r), code, y)
               /\ r = "seeder" => y.status # "hung"
  BY Received
<1>2. PICK n : n = Advance(y, ScriptOf(r))
  OBVIOUS
<1>3. OthersWait(r) /\ run'[r] = n
  BY <1>1, <1>2, Moved
<1>4. /\ InScript(n, ScriptOf(r)) /\ SameRun(run[r], n) /\ n.status # "idle"
      /\ GetsOn(run[r], n) \/ (n.status = "hung" /\ y.status = "hung")
  BY <1>1, <1>2, Advanced
<1> QED BY <1>1, <1>3, <1>4 DEF apiCallOutcome

\* The two status calls of flow 12: a failed one is noted or made again, and
\* after the ban comes the call that lifts it.
LEMMA BanReceives ==
  ASSUME CInv, NEW code, NEW rows, Receive("main", code, rows), run["main"].status = "running",
         run["main"].pc \in {BanAt, BanAt + 1}
  PROVE  /\ code \in {0, 429} =>
              \/ <<"updateUserStatus", code>> \in run'["main"].failures
              \/ /\ code = 429 /\ run'["main"].status = "running" /\ run'["main"].pc = run["main"].pc
                 /\ run'["main"].kept = run["main"].kept
         /\ code = 200 /\ run["main"].pc = BanAt =>
              /\ run'["main"].status = "running" /\ run'["main"].pc = BanAt + 1
              /\ DOMAIN run["main"].kept \subseteq DOMAIN run'["main"].kept
<1> DEFINE x == run["main"]  step == StepOf("main")
<1>0. "main" \in Runners /\ ScriptOf("main") = MainScript
  BY RunnerNames, Scripts
<1>1. step = MainScript[x.pc] /\ (step = Ban \/ step = Lift) /\ (x.pc = BanAt => step = Ban)
  BY <1>0, MainCalls DEF StepOf
<1>2. step.op = "updateUserStatus" /\ step.expect = {200} /\ ~step.fatal /\ ~step.retry /\ ~step.socket
  BY <1>1, StepBan, StepLift
<1>3. PICK y : /\ Outcome(x, y)
               /\ run' = [run EXCEPT !["main"] = Advance(y, MainScript)]
               /\ apiCallOutcome(x, step, code, y)
  BY <1>0, Received
<1>4. PICK n : n = Advance(y, MainScript)
  OBVIOUS
<1>5. run'["main"] = n
  BY <1>0, <1>3, <1>4, Moved
<1>6. /\ InScript(n, MainScript) /\ n.failures = y.failures /\ n.kept = y.kept
      /\ y.status # "next" => n = y
  BY <1>0, <1>3, <1>4, Advanced
<1>7. y.pc = x.pc
  BY <1>3 DEF Outcome
<1> HIDE DEF step, x
<1>8. CASE code \in {0, 429}
  <2>1. (code = 429 /\ y.status = "running" /\ y.kept = x.kept) \/ <<"updateUserStatus", code>> \in y.failures
    BY <1>2, <1>3, <1>8 DEF apiCallOutcome
  <2> QED BY <1>5, <1>6, <1>7, <1>8, <2>1 DEF x
<1>9. CASE code = 200 /\ x.pc = BanAt
  <2>1. y.status = "next" /\ DOMAIN x.kept \subseteq DOMAIN y.kept
    BY <1>2, <1>3, <1>9 DEF apiCallOutcome
  <2>2. y.pc \in Nat /\ Len(MainScript) \in Nat /\ RunnerShape(y) /\ y.pc = BanAt
    BY <1>3, <1>7, <1>9, MainCalls DEF Outcome
  <2>3. Applies(MainScript[BanAt + 1], y.kept) /\ BanAt + 1 \in y.pc + 1 .. Len(MainScript)
    BY <2>2, MainCalls, StepLift DEF Applies
  <2>4. n.status = "running" /\ n.pc \in y.pc + 1 .. Len(MainScript) /\ n.pc <= BanAt + 1
    <3>1. \/ /\ n.status = "done"
             /\ \A i \in y.pc + 1 .. Len(MainScript) : ~Applies(MainScript[i], y.kept)
          \/ /\ n.status = "running" /\ n.pc \in y.pc + 1 .. Len(MainScript)
             /\ \A i \in y.pc + 1 .. Len(MainScript) : Applies(MainScript[i], y.kept) => n.pc <= i
      BY <1>4, <2>1, <2>2, AdvanceStep
    <3> QED BY <2>3, <3>1
  <2> QED BY <1>5, <1>6, <1>9, <2>1, <2>2, <2>4 DEF x
<1> QED BY <1>8, <1>9 DEF x

-----------------------------------------------------------------------------
(* The invariant is kept, part by part *)

LEMMA RunsAfter ==
  ASSUME CInv, scenario' = scenario, NEW r \in Runners, run[r].status # "idle", OthersWait(r),
         InScript(run'[r], ScriptOf(r)), run'[r].who = run[r].who
  PROVE  Runs'
<1>1. run'["pair"].who = run["pair"].who
  BY RunnerNames DEF OthersWait
<1>2. \A s \in Runners : ScriptOf(s)' = ScriptOf(s)
  BY <1>1, SameScripts
<1>3. \A s \in Runners : InScript(run[s], ScriptOf(s))
  BY DEF CInv, Runs
<1>4. \A s \in Runners : InScript(run'[s], ScriptOf(s)')
  BY <1>2, <1>3 DEF OthersWait
<1>5. run'["pair"].status # "idle" => run'["pair"].who \in VUs \X VUs
  <2>1. CASE r = "pair"
    BY <2>1, <1>1 DEF CInv, Runs
  <2>2. CASE r # "pair"
    BY <2>2, RunnerNames DEF CInv, Runs, OthersWait
  <2> QED BY <2>1, <2>2
<1> QED BY <1>4, <1>5 DEF Runs, OthersWait

LEMMA FaultsAfter ==
  ASSUME CInv, scenario' = scenario, late' = late, net'.timeouts = net.timeouts,
         net' = [timeouts |-> net'.timeouts, throttles |-> net'.throttles,
                 crashes |-> net'.crashes, reruns |-> net'.reruns],
         net'.throttles \in 0 .. scenario.throttles
  PROVE  Faults'
BY DEF CInv, Faults

LEMMA NotedStays ==
  ASSUME BanNoted, run["main"].failures \subseteq run'["main"].failures
  PROVE  BanNoted'
BY DEF BanNoted

\* What a runner asks of an account; only flow 12 bans alice.
LEMMA RequestsMade ==
  ASSUME CInv, NEW r \in Runners, run[r].status = "running", NEW q, q = RequestOf(run[r], StepOf(r))
  PROVE  /\ q.op = "updateUserStatus" => q.val \in AccountStatuses
         /\ Bans(q, Alice) => r = "main" /\ run[r].pc = BanAt
         /\ r = "main" /\ run[r].pc \in {BanAt, BanAt + 1} =>
              /\ q.op = "updateUserStatus" /\ q.on = Alice
              /\ q.by = IF <<AdminPhone>> \in DOMAIN run[r].kept THEN AdminPhone ELSE NoOne
              /\ run[r].pc = BanAt + 1 => q.val = "active"
<1> DEFINE x == run[r]  step == StepOf(r)
<1>1. step.op = "updateUserStatus" =>
        \/ r = "main" /\ x.pc = BanAt /\ step = Ban
        \/ r = "main" /\ x.pc = BanAt + 1 /\ step = Lift
        \/ r = "seeder" /\ step.on # Alice /\ step.val \in AccountStatuses
  BY StatusCalls
<1>2. r = "main" =>
        (x.pc = BanAt => step = Ban) /\ (x.pc = BanAt + 1 => step = Lift)
  BY Scripts, MainCalls DEF StepOf
<1>0. q = RequestOf(x, step)
  OBVIOUS
<1> HIDE DEF x, step
<1>3. /\ q.op = step.op /\ q.on = step.on
      /\ step.op = "updateUserStatus" => q.val = step.val
      /\ q.by = IF <<step.by>> \in DOMAIN x.kept THEN step.by ELSE NoOne
  BY <1>0 DEF RequestOf
<1>4. Lift.val # "banned" /\ {"active", "banned"} \subseteq AccountStatuses
  BY StepLift DEF AccountStatuses
<1>5. q.op = "updateUserStatus" => q.val \in AccountStatuses
  BY <1>1, <1>3, <1>4, StepBan, StepLift
<1>6. Bans(q, Alice) => r = "main" /\ x.pc = BanAt
  BY <1>1, <1>3, <1>4 DEF Bans
<1>7. ASSUME r = "main", x.pc \in {BanAt, BanAt + 1}
      PROVE  /\ q.op = "updateUserStatus" /\ q.on = Alice
             /\ q.by = IF <<AdminPhone>> \in DOMAIN x.kept THEN AdminPhone ELSE NoOne
             /\ x.pc = BanAt + 1 => q.val = "active"
  BY <1>2, <1>3, <1>7, StepBan, StepLift
<1> QED BY <1>5, <1>6, <1>7 DEF x

\* What a call of a runner leaves of the run; the program's notes only grow.
LEMMA CallRuns ==
  ASSUME CInv, NEW r \in Runners, run[r].status = "running", scenario' = scenario,
         NEW code, NEW rows, Receive(r, code, rows)
  PROVE  /\ Runs' /\ run["main"].failures \subseteq run'["main"].failures
         /\ r # "main" => run'["main"] = run["main"]
<1>1. OthersWait(r) /\ InScript(run'[r], ScriptOf(r)) /\ SameRun(run[r], run'[r])
  BY ReceiveStep
<1>2. Runs'
  BY <1>1, RunsAfter DEF SameRun
<1> QED BY <1>1, <1>2, RunnerNames DEF OthersWait, SameRun

LEMMA AnsweredStep ==
  ASSUME CInv, NEW r \in Runners, Answered(r)
  PROVE  CInv'
<1>0. run[r].status = "running"
  BY DEF Answered, Calling
<1> DEFINE q == RequestOf(run[r], StepOf(r))
<1>1. PICK answer : answer = Serve(db, q) /\ db' = answer.db /\ Receive(r, answer.code, answer.rows)
  BY DEF Answered
<1>2. scenario' = scenario /\ net' = net /\ late' = late
  BY DEF Answered
<1>3. Runs' /\ run["main"].failures \subseteq run'["main"].failures /\ (r # "main" => run'["main"] = run["main"])
  BY <1>0, <1>1, <1>2, CallRuns
<1>4. /\ q.op = "updateUserStatus" => q.val \in AccountStatuses
      /\ Bans(q, Alice) => r = "main" /\ run[r].pc = BanAt
      /\ r = "main" /\ run[r].pc \in {BanAt, BanAt + 1} =>
           /\ q.op = "updateUserStatus" /\ q.on = Alice
           /\ q.by = IF <<AdminPhone>> \in DOMAIN run[r].kept THEN AdminPhone ELSE NoOne
           /\ run[r].pc = BanAt + 1 => q.val = "active"
  BY <1>0, RequestsMade
<1> HIDE DEF q
<1>5. /\ DbOK(db) /\ Alice \in People /\ (db.status[Alice] = "banned" => BanNoted \/ AboutToLift)
      /\ \A p \in late : /\ p.op = "updateUserStatus" => p.val \in AccountStatuses
                         /\ Bans(p, Alice) => BanNoted
  BY RunnersAssumption DEF CInv, Accounts
<1>6. DbOK(db') /\ (db'.status[Alice] = "banned" => db.status[Alice] = "banned" \/ Bans(q, Alice))
  BY <1>1, <1>4, <1>5, ServeStep
<1>7. BanNoted => BanNoted'
  BY <1>3, NotedStays
<1>8. db'.status[Alice] = "banned" => BanNoted' \/ AboutToLift'
  <2>1. CASE r # "main"
    <3>1. AboutToLift => AboutToLift'
      BY <1>3, <2>1 DEF AboutToLift
    <3> QED BY <1>4, <1>5, <1>6, <1>7, <2>1, <3>1
  <2>2. CASE r = "main" /\ run[r].pc = BanAt
    <3>1. ~AboutToLift
      BY <2>2, MainCalls DEF AboutToLift
    <3>2. CASE answer.code = 200
      <4>1. q.by = Admin /\ q.by # NoOne
        BY <1>1, <1>4, <1>5, <2>2, <3>2, updateUserStatusStep
      <4>2. <<AdminPhone>> \in DOMAIN run["main"].kept /\ Admin = AdminPhone
        BY <1>4, <2>2, <4>1
      <4>3. /\ run'["main"].status = "running" /\ run'["main"].pc = BanAt + 1
            /\ DOMAIN run["main"].kept \subseteq DOMAIN run'["main"].kept
        BY <1>0, <1>1, <2>2, <3>2, BanReceives
      <4> QED BY <4>2, <4>3 DEF AboutToLift
    <3>3. CASE answer.db = db
      BY <1>1, <1>5, <1>7, <3>1, <3>3
    <3>4. answer.code = 200 \/ answer.db = db
      BY <1>1, <1>4, <1>5, <2>2, updateUserStatusStep
    <3> QED BY <3>2, <3>3, <3>4
  <2>3. CASE r = "main" /\ run[r].pc = BanAt + 1
    <3>1. ~Bans(q, Alice)
      BY <1>4, <2>3, MainCalls
    <3>2. CASE AboutToLift /\ db.status[Alice] = "banned"
      <4>1. q.by = Admin /\ q.by # NoOne
        BY <1>4, <2>3, <3>2, PeopleAssumption DEF AboutToLift, NoOne
      <4>2. q.op = "updateUserStatus" /\ q.on = Alice /\ q.val = "active"
        BY <1>4, <2>3
      <4>3. Exists(db, q.on)
        BY <1>5, <3>2, <4>2 DEF Exists
      <4>4. answer.code = 200
        BY <1>1, <1>5, <4>1, <4>2, <4>3, updateUserStatusStep
      <4>5. db'.status = StatusSet(db, q)
        BY <1>1, <1>5, <4>2, <4>4, updateUserStatusStep
      <4>6. db'.status[Alice] = "active"
        BY <1>5, <4>2, <4>5 DEF StatusSet, DbOK
      <4> QED BY <4>6
    <3> QED BY <1>5, <1>6, <1>7, <3>1, <3>2
  <2>4. CASE r = "main" /\ run[r].pc \notin {BanAt, BanAt + 1}
    <3>1. ~AboutToLift /\ ~Bans(q, Alice)
      BY <1>4, <2>4 DEF AboutToLift
    <3> QED BY <1>5, <1>6, <1>7, <3>1
  <2> QED BY <2>1, <2>2, <2>3, <2>4
<1>9. Accounts'
  BY <1>2, <1>5, <1>6, <1>7, <1>8 DEF Accounts
<1>10. Faults'
  BY <1>2 DEF CInv, Faults
<1> QED BY <1>2, <1>3, <1>9, <1>10 DEF CInv

\* A call that did not reach a handler, code 0 or 429: the ban stays noted, or
\* the program makes the lifting call again.
LEMMA UnservedCall ==
  ASSUME CInv, NEW r \in Runners, run[r].status = "running", scenario' = scenario, db' = db,
         NEW code \in {0, 429}, NEW rows, Receive(r, code, rows)
  PROVE  /\ BanNoted => BanNoted'
         /\ db'.status[Alice] = "banned" => BanNoted' \/ AboutToLift'
         /\ code = 0 /\ r = "main" /\ run[r].pc = BanAt => BanNoted'
<1>1. Runs' /\ run["main"].failures \subseteq run'["main"].failures /\ (r # "main" => run'["main"] = run["main"])
  BY CallRuns
<1>2. BanNoted => BanNoted'
  BY <1>1, NotedStays
<1>3. db.status[Alice] = "banned" => BanNoted \/ AboutToLift
  BY DEF CInv, Accounts
<1>4. r = "main" /\ run[r].pc \in {BanAt, BanAt + 1} =>
        \/ BanNoted'
        \/ /\ code = 429 /\ run'["main"].status = "running" /\ run'["main"].pc = run["main"].pc
           /\ run'["main"].kept = run["main"].kept
  BY BanReceives DEF BanNoted
<1>5. AboutToLift => BanNoted' \/ AboutToLift'
  <2>1. CASE r = "main"
    BY <1>4, <2>1 DEF AboutToLift
  <2>2. CASE r # "main"
    BY <1>1, <2>2 DEF AboutToLift
  <2> QED BY <2>1, <2>2
<1> QED BY <1>2, <1>3, <1>4, <1>5

LEMMA ThrottledStep ==
  ASSUME CInv, NEW r \in Runners, Throttled(r)
  PROVE  CInv'
<1>1. /\ run[r].status = "running" /\ Receive(r, 429, {}) /\ net.throttles > 0
      /\ net' = IF scenario.endless THEN net ELSE [net EXCEPT !.throttles = net.throttles - 1]
      /\ scenario' = scenario /\ db' = db /\ late' = late
  BY DEF Throttled, Calling
<1>2. Runs'
  BY <1>1, CallRuns
<1>3. /\ BanNoted => BanNoted'
      /\ db'.status[Alice] = "banned" => BanNoted' \/ AboutToLift'
  BY <1>1, UnservedCall
<1>4. Accounts'
  BY <1>1, <1>3 DEF CInv, Accounts
<1>5. Faults'
  <2>1. /\ net = [timeouts |-> net.timeouts, throttles |-> net.throttles,
                  crashes |-> net.crashes, reruns |-> net.reruns]
        /\ net.throttles \in 0 .. scenario.throttles /\ scenario.throttles \in Nat
    BY ScenarioAssumption DEF CInv, Faults
  <2>2. /\ net'.timeouts = net.timeouts /\ net'.throttles \in 0 .. scenario.throttles
        /\ net' = [timeouts |-> net'.timeouts, throttles |-> net'.throttles,
                   crashes |-> net'.crashes, reruns |-> net'.reruns]
    BY <1>1, <2>1
  <2> QED BY <1>1, <2>2, FaultsAfter
<1> QED BY <1>1, <1>2, <1>4, <1>5 DEF CInv

LEMMA TimedOutStep ==
  ASSUME CInv, NEW r \in Runners, TimedOut(r)
  PROVE  CInv'
<1> DEFINE q == RequestOf(run[r], StepOf(r))
<1>1. /\ run[r].status = "running" /\ Receive(r, 0, {}) /\ net.timeouts > 0
      /\ net' = [net EXCEPT !.timeouts = net.timeouts - 1]
      /\ scenario' = scenario /\ db' = db /\ late' = late \cup {q}
  BY DEF TimedOut, Calling
<1>2. Runs'
  BY <1>1, CallRuns
<1>3. /\ BanNoted => BanNoted'
      /\ db'.status[Alice] = "banned" => BanNoted' \/ AboutToLift'
      /\ r = "main" /\ run[r].pc = BanAt => BanNoted'
  BY <1>1, UnservedCall
<1>4. /\ q.op = "updateUserStatus" => q.val \in AccountStatuses
      /\ Bans(q, Alice) => r = "main" /\ run[r].pc = BanAt
  BY <1>1, RequestsMade
<1> HIDE DEF q
<1>5. Accounts'
  BY <1>1, <1>3, <1>4 DEF CInv, Accounts
<1>6. Faults'
  <2>1. /\ net = [timeouts |-> net.timeouts, throttles |-> net.throttles,
                  crashes |-> net.crashes, reruns |-> net.reruns]
        /\ net.timeouts \in 0 .. scenario.timeouts /\ net.throttles \in 0 .. scenario.throttles
        /\ scenario.timeouts \in Nat
    BY ScenarioAssumption DEF CInv, Faults
  <2>2. /\ net'.timeouts = net.timeouts - 1 /\ net'.throttles = net.throttles
        /\ net' = [timeouts |-> net'.timeouts, throttles |-> net'.throttles,
                   crashes |-> net'.crashes, reruns |-> net'.reruns]
    BY <1>1, <2>1
  <2>3. IsFiniteSet(late) /\ Cardinality(late) <= scenario.timeouts - net.timeouts /\ Cardinality(late) \in Nat
    BY FS_CardinalityType DEF CInv, Faults
  <2>4. IsFiniteSet(late') /\ Cardinality(late') \in {Cardinality(late), Cardinality(late) + 1}
    BY <1>1, <2>3, FS_AddElement
  <2> QED BY <1>1, <2>1, <2>2, <2>3, <2>4 DEF Faults
<1> QED BY <1>1, <1>2, <1>5, <1>6 DEF CInv

LEMMA ServedLateStep ==
  ASSUME CInv, ServedLate
  PROVE  CInv'
<1>1. PICK q \in late : /\ db' = Serve(db, q).db /\ late' = late \ {q}
                        /\ scenario' = scenario /\ run' = run /\ net' = net
  BY DEF ServedLate
<1>2. /\ DbOK(db) /\ Alice \in People /\ (db.status[Alice] = "banned" => BanNoted \/ AboutToLift)
      /\ q.op = "updateUserStatus" => q.val \in AccountStatuses
      /\ Bans(q, Alice) => BanNoted
  BY RunnersAssumption DEF CInv, Accounts
<1>3. DbOK(db') /\ (db'.status[Alice] = "banned" => db.status[Alice] = "banned" \/ Bans(q, Alice))
  BY <1>1, <1>2, ServeStep
<1>4. (BanNoted => BanNoted') /\ (AboutToLift => AboutToLift')
  BY <1>1 DEF BanNoted, AboutToLift
<1>5. Accounts'
  BY <1>1, <1>2, <1>3, <1>4 DEF CInv, Accounts
<1>6. Runs'
  <2>1. \A r \in Runners : ScriptOf(r)' = ScriptOf(r)
    BY <1>1, SameScripts
  <2> QED BY <1>1, <2>1 DEF CInv, Runs
<1>7. Faults'
  <2>1. IsFiniteSet(late') /\ Cardinality(late') <= Cardinality(late)
        /\ Cardinality(late) \in Nat /\ Cardinality(late') \in Nat
    <3>1. IsFiniteSet(late)
      BY DEF CInv, Faults
    <3>2. IsFiniteSet(late \ {q}) /\ Cardinality(late \ {q}) = Cardinality(late) - 1
      BY <3>1, FS_RemoveElement
    <3>3. Cardinality(late) \in Nat /\ Cardinality(late \ {q}) \in Nat
      BY <3>1, <3>2, FS_CardinalityType
    <3> QED BY <1>1, <3>2, <3>3
  <2>2. net.timeouts \in 0 .. scenario.timeouts /\ scenario.timeouts \in Nat
    BY ScenarioAssumption DEF CInv, Faults
  <2> QED BY <1>1, <2>1, <2>2 DEF CInv, Faults
<1> QED BY <1>1, <1>5, <1>6, <1>7 DEF CInv

\* A check of the program is the end of a step that makes no call.
LEMMA CheckedOutcome ==
  ASSUME CInv, NEW r \in Runners, Checked(r)
  PROVE  \E y : /\ Outcome(run[r], y) /\ y.status # "hung" /\ y.failures = run[r].failures /\ y.kept = run[r].kept
                /\ y.status # "running"
                /\ y.status = "next" => StepOf(r).save \cap DOMAIN run[r].kept # {}
                /\ run' = [run EXCEPT ![r] = Advance(y, ScriptOf(r))]
<1>1. RunnerShape(run[r]) /\ Counters(run[r]) /\ Len(ScriptOf(r)) \in Nat /\ run[r].pc \in Nat
      /\ run[r].status = "running"
  BY Scripts DEF Checked, CInv, Runs, InScript
<1>2. ASSUME NEW x, RunnerShape(x), Counters(x), NEW e
      PROVE  /\ Outcome(x, Finished(x)) /\ Finished(x).status = "next" /\ Finished(x).failures = x.failures
             /\ Outcome(x, Fail(x, e)) /\ Fail(x, e).status = "failed" /\ Fail(x, e).failures = x.failures
             /\ Finished(x).kept = x.kept /\ Fail(x, e).kept = x.kept
  <2>1. PICK y : y = Finished(x)
    OBVIOUS
  <2>2. /\ RunnerShape(y) /\ y.pc = x.pc /\ y.tries = x.tries /\ y.calls = x.calls /\ y.who = x.who
        /\ y.status = "next" /\ y.failures = x.failures /\ y.kept = x.kept
    BY <1>2, <2>1 DEF Finished, RunnerShape
  <2>3. PICK z : z = Fail(x, e)
    OBVIOUS
  <2>4. /\ RunnerShape(z) /\ z.pc = x.pc /\ z.tries = x.tries /\ z.calls = x.calls /\ z.who = x.who
        /\ z.status = "failed" /\ z.failures = x.failures /\ z.kept = x.kept
    BY <1>2, <2>3 DEF Fail, RunnerShape
  <2>5. Outcome(x, y) /\ Outcome(x, z)
    BY <1>2, <2>2, <2>4 DEF Outcome, Counters, SameRun
  <2> QED BY <2>1, <2>2, <2>3, <2>4, <2>5
<1>3. PICK e : \/ /\ run' = [run EXCEPT ![r] = Advance(Finished(run[r]), ScriptOf(r))]
                  /\ StepOf(r).save \cap DOMAIN run[r].kept # {}
               \/ run' = [run EXCEPT ![r] = Fail(run[r], e)]
  BY DEF Checked
<1>4. Advance(Fail(run[r], e), ScriptOf(r)) = Fail(run[r], e)
  <2>1. PICK y : y = Fail(run[r], e)
    OBVIOUS
  <2>2. y.status # "next"
    BY <1>1, <1>2, <2>1
  <2> QED BY <2>1, <2>2, Zenon DEF Advance
<1> QED BY <1>1, <1>2, <1>3, <1>4

LEMMA CheckedStep ==
  ASSUME CInv, NEW r \in Runners, Checked(r)
  PROVE  CInv'
<1>1. /\ run[r].status = "running" /\ StepOf(r).op = "require"
      /\ scenario' = scenario /\ db' = db /\ net' = net /\ late' = late
  BY DEF Checked
<1>2. PICK y : /\ Outcome(run[r], y) /\ y.status # "hung" /\ y.failures = run[r].failures
               /\ run' = [run EXCEPT ![r] = Advance(y, ScriptOf(r))]
  BY CheckedOutcome
<1>3. PICK n : n = Advance(y, ScriptOf(r))
  OBVIOUS
<1>4. OthersWait(r) /\ run'[r] = n
  BY <1>2, <1>3, Moved
<1>5. InScript(n, ScriptOf(r)) /\ SameRun(run[r], n)
  BY <1>1, <1>2, <1>3, Advanced
<1>6. Runs'
  BY <1>1, <1>4, <1>5, RunsAfter DEF SameRun
<1>7. run["main"].failures \subseteq run'["main"].failures
  BY <1>4, <1>5, RunnerNames DEF OthersWait, SameRun
<1>8. BanNoted => BanNoted'
  BY <1>7, NotedStays
<1>9. AboutToLift => AboutToLift'
  <2>1. AboutToLift => r # "main"
    BY <1>1, Scripts, MainCalls, StepLift, RunnerNames DEF AboutToLift, StepOf
  <2> QED BY <1>4, <2>1, RunnerNames DEF AboutToLift, OthersWait
<1>10. Accounts'
  BY <1>1, <1>8, <1>9 DEF CInv, Accounts
<1>11. Faults'
  BY <1>1 DEF CInv, Faults
<1> QED BY <1>1, <1>6, <1>10, <1>11 DEF CInv

\* A client starts, or the seeder is interrupted: nothing the program of the
\* simulator knows of.
LEMMA BesideMain ==
  ASSUME CInv, run'["main"] = run["main"], scenario' = scenario, db' = db, late' = late,
         net'.timeouts = net.timeouts, net'.throttles = net.throttles,
         net' = [timeouts |-> net'.timeouts, throttles |-> net'.throttles,
                 crashes |-> net'.crashes, reruns |-> net'.reruns]
  PROVE  Faults' /\ Accounts' /\ scenario' \in Scenarios
<1>1. (BanNoted => BanNoted') /\ (AboutToLift => AboutToLift')
  BY DEF BanNoted, AboutToLift
<1>2. Accounts'
  BY <1>1 DEF CInv, Accounts
<1> QED BY <1>2, FaultsAfter DEF CInv, Faults

LEMMA NetShape ==
  ASSUME CInv
  PROVE  net = [timeouts |-> net.timeouts, throttles |-> net.throttles, crashes |-> net.crashes, reruns |-> net.reruns]
BY DEF CInv, Faults

LEMMA StartVirtualUsersStep ==
  ASSUME CInv, StartVirtualUsers
  PROVE  CInv'
<1>1. /\ run' = [r \in Runners |-> IF r \in VUs THEN Begin(UserScripts[r], Empty, <<>>) ELSE run[r]]
      /\ scenario' = scenario /\ db' = db /\ net' = net /\ late' = late
  BY DEF StartVirtualUsers
<1>2. /\ run' = [r \in Runners |-> run'[r]] /\ run'["main"] = run["main"] /\ run'["pair"] = run["pair"]
      /\ \A r \in Runners : r \notin VUs => run'[r] = run[r]
  BY <1>1, RunnerNames
<1>3. \A r \in Runners : ScriptOf(r)' = ScriptOf(r)
  BY <1>1, <1>2, SameScripts
<1>4. ASSUME NEW r \in Runners
      PROVE  InScript(run'[r], ScriptOf(r))
  <2>1. CASE r \notin VUs
    BY <1>2, <2>1 DEF CInv, Runs
  <2>2. CASE r \in VUs
    <3>1. ScriptOf(r) = UserScripts[r] /\ Len(ScriptOf(r)) \in Nat
      BY <2>2, RunnerNames, Scripts DEF ScriptOf
    <3>2. run'[r] = Begin(UserScripts[r], Empty, <<>>)
      BY <1>1, <2>2
    <3> QED BY <3>1, <3>2, BeginStep
  <2> QED BY <2>1, <2>2
<1>5. Runs'
  BY <1>2, <1>3, <1>4 DEF CInv, Runs
<1>6. Faults' /\ Accounts' /\ scenario' \in Scenarios
  BY <1>1, <1>2, NetShape, BesideMain
<1> QED BY <1>5, <1>6 DEF CInv

LEMMA StartPairStep ==
  ASSUME CInv, StartPair
  PROVE  CInv'
<1>1. PICK a, b, kept :
        /\ a \in VUs /\ b \in VUs
        /\ run' = [run EXCEPT !["pair"] = Begin(PairScripts[<<a, b>>], kept, <<a, b>>)]
        /\ scenario' = scenario /\ db' = db /\ net' = net /\ late' = late
  <2>1. PICK i, j, kept :
          /\ i \in eligible /\ j \in eligible
          /\ run' = [run EXCEPT !["pair"] =
                       Begin(PairScripts[<<VirtualUsers[i], VirtualUsers[j]>>], kept,
                             <<VirtualUsers[i], VirtualUsers[j]>>)]
          /\ scenario' = scenario /\ db' = db /\ net' = net /\ late' = late
    BY Zenon DEF StartPair
  <2>2. VirtualUsers[i] \in VUs /\ VirtualUsers[j] \in VUs
    BY <2>1, RunnersAssumption DEF eligible
  <2> QED BY <2>1, <2>2
<1>2. PICK n : n = Begin(PairScripts[<<a, b>>], kept, <<a, b>>)
  OBVIOUS
<1>3. OthersWait("pair") /\ run'["pair"] = n
  BY <1>1, <1>2, RunnerNames, Moved
<1>4. PairScripts[<<a, b>>] = runConcurrentChatPair(a, b)
  BY <1>1 DEF PairScripts
<1>5. Len(PairScripts[<<a, b>>]) \in Nat
  BY <1>4, ChatPairCalls, ScriptLen DEF Harmless
<1>6. InScript(n, PairScripts[<<a, b>>]) /\ n.who = <<a, b>>
  BY <1>2, <1>5, BeginStep
<1>7. ASSUME NEW r \in Runners
      PROVE  InScript(run'[r], ScriptOf(r)')
  <2>1. CASE r = "pair"
    BY <1>3, <1>6, <2>1 DEF ScriptOf
  <2>2. CASE r # "pair"
    <3>1. ScriptOf(r)' = ScriptOf(r)
      BY <1>1, <2>2 DEF ScriptOf
    <3> QED BY <1>3, <2>2, <3>1 DEF CInv, Runs, OthersWait
  <2> QED BY <2>1, <2>2
<1>8. Runs'
  BY <1>1, <1>3, <1>6, <1>7 DEF Runs, OthersWait
<1>9. Faults' /\ Accounts' /\ scenario' \in Scenarios
  BY <1>1, <1>3, NetShape, BesideMain, RunnerNames DEF OthersWait
<1> QED BY <1>8, <1>9 DEF CInv

LEMMA CrashStep ==
  ASSUME CInv, Crash
  PROVE  CInv'
<1> DEFINE x == run["seeder"]
<1>1. /\ x.status = "running" /\ net' = [net EXCEPT !.crashes = net.crashes - 1]
      /\ scenario' = scenario /\ db' = db /\ late' = late
  BY DEF Crash
<1>2. PICK n : n = [x EXCEPT !.status = "crashed"] /\ run' = [run EXCEPT !["seeder"] = n]
  BY DEF Crash, CInv, Runs
<1>3. OthersWait("seeder") /\ run'["seeder"] = n
  BY <1>2, RunnerNames, Moved
<1>4. InScript(x, ScriptOf("seeder"))
  BY RunnerNames DEF CInv, Runs
<1>5. InScript(n, ScriptOf("seeder")) /\ n.who = x.who
  BY <1>1, <1>2, <1>4 DEF InScript, RunnerShape, Counters, RunnerStatuses
<1>6. Runs'
  BY <1>1, <1>3, <1>5, RunnerNames, RunsAfter
<1>7. /\ net'.timeouts = net.timeouts /\ net'.throttles = net.throttles
      /\ net' = [timeouts |-> net'.timeouts, throttles |-> net'.throttles,
                 crashes |-> net'.crashes, reruns |-> net'.reruns]
  BY <1>1, NetShape
<1>8. Faults' /\ Accounts' /\ scenario' \in Scenarios
  BY <1>1, <1>3, <1>7, BesideMain, RunnerNames DEF OthersWait
<1> QED BY <1>6, <1>8 DEF CInv

LEMMA RerunStep ==
  ASSUME CInv, Rerun
  PROVE  CInv'
<1> DEFINE x == run["seeder"]  script == SeedScripts[scenario.tables]
<1>1. /\ x.status # "idle" /\ net' = [net EXCEPT !.reruns = net.reruns - 1]
      /\ run' = [run EXCEPT !["seeder"] = Begin(script, Empty, <<>>)]
      /\ scenario' = scenario /\ db' = db /\ late' = late
  BY DEF Rerun, Stopped
<1>2. PICK n : n = Begin(script, Empty, <<>>)
  OBVIOUS
<1>3. OthersWait("seeder") /\ run'["seeder"] = n
  BY <1>1, <1>2, RunnerNames, Moved
<1>4. ScriptOf("seeder") = script /\ Len(script) \in Nat
  BY RunnerNames, Scripts
<1>5. InScript(n, ScriptOf("seeder"))
  BY <1>2, <1>4, BeginStep
<1>6. Runs'
  <2>1. run'["pair"] = run["pair"]
    BY <1>3, RunnerNames DEF OthersWait
  <2>2. \A r \in Runners : ScriptOf(r)' = ScriptOf(r)
    BY <1>1, <2>1, SameScripts
  <2> QED BY <1>3, <1>5, <2>1, <2>2 DEF CInv, Runs, OthersWait
<1>7. /\ net'.timeouts = net.timeouts /\ net'.throttles = net.throttles
      /\ net' = [timeouts |-> net'.timeouts, throttles |-> net'.throttles,
                 crashes |-> net'.crashes, reruns |-> net'.reruns]
  BY <1>1, NetShape
<1>8. Faults' /\ Accounts' /\ scenario' \in Scenarios
  BY <1>1, <1>3, <1>7, BesideMain, RunnerNames DEF OthersWait
<1> QED BY <1>6, <1>8 DEF CInv

-----------------------------------------------------------------------------
(* The theorems *)

LEMMA InitCInv == Init => CInv
<1> SUFFICES ASSUME Init PROVE CInv
  OBVIOUS
<1>1. /\ scenario \in Scenarios /\ late = {} /\ db = NewDb
      /\ net = [timeouts |-> scenario.timeouts, throttles |-> scenario.throttles,
                crashes |-> scenario.crashes, reruns |-> scenario.reruns]
      /\ scenario.tables \in DOMAIN Tables /\ scenario.timeouts \in Nat /\ scenario.throttles \in Nat
  BY ScenarioAssumption DEF Init
<1>2. run = [r \in Runners |-> run[r]]
  BY DEF Init
<1>3. ASSUME NEW r \in Runners
      PROVE  \/ run[r] = Idle
             \/ r = "main" /\ run[r] = Begin(MainSteps, Empty, <<>>)
             \/ r = "seeder" /\ run[r] = Begin(SeedScripts[scenario.tables], Empty, <<>>)
  BY DEF Init
<1>4. run["pair"] = Idle
  BY <1>3, RunnerNames
<1>5. ASSUME NEW r \in Runners
      PROVE  InScript(run[r], ScriptOf(r))
  <2>1. CASE run[r] = Idle
    BY <2>1 DEF InScript, Idle, RunnerShape, Counters, RunnerStatuses, RETRY_ATTEMPTS, AbortRetries
  <2>2. CASE r = "main" /\ run[r] = Begin(MainSteps, Empty, <<>>)
    <3>1. ScriptOf(r) = MainSteps /\ Len(MainSteps) \in Nat
      BY <2>2, MainCalls DEF ScriptOf, MainSteps
    <3> QED BY <2>2, <3>1, BeginStep
  <2>3. CASE r = "seeder" /\ run[r] = Begin(SeedScripts[scenario.tables], Empty, <<>>)
    <3>1. ScriptOf(r) = SeedScripts[scenario.tables]
      BY <2>3 DEF ScriptOf
    <3>2. Len(SeedScripts[scenario.tables]) \in Nat
      BY <1>1, SeedScriptAssumption, ScriptLen DEF Script
    <3> QED BY <2>3, <3>1, <3>2, BeginStep
  <2> QED BY <1>3, <2>1, <2>2, <2>3
<1>6. Runs
  BY <1>2, <1>4, <1>5 DEF Runs, Idle
<1>7. Faults
  BY <1>1, FS_EmptySet DEF Faults
<1>8. Accounts
  <2>1. DbOK(NewDb) /\ \A p \in People : NewDb.status[p] # "banned"
    BY DEF DbOK, NewDb, AccountStatuses
  <2> QED BY <1>1, <2>1, RunnersAssumption DEF Accounts
<1> QED BY <1>1, <1>6, <1>7, <1>8 DEF CInv

LEMMA NextCInv == CInv /\ [Next]_vars => CInv'
<1> SUFFICES ASSUME CInv, [Next]_vars PROVE CInv'
  OBVIOUS
<1>1. ASSUME NEW r \in Runners, RunnerStep(r) PROVE CInv'
  BY <1>1, AnsweredStep, ThrottledStep, TimedOutStep, CheckedStep DEF RunnerStep
<1>2. CASE ServedLate
  BY <1>2, ServedLateStep
<1>3. CASE StartVirtualUsers
  BY <1>3, StartVirtualUsersStep
<1>4. CASE StartPair
  BY <1>4, StartPairStep
<1>5. CASE Crash
  BY <1>5, CrashStep
<1>6. CASE Rerun
  BY <1>6, RerunStep
<1>7. CASE UNCHANGED vars
  <2>1. scenario' = scenario /\ db' = db /\ run' = run /\ net' = net /\ late' = late
    BY <1>7 DEF vars
  <2>2. \A r \in Runners : ScriptOf(r)' = ScriptOf(r)
    BY <2>1, SameScripts
  <2>3. Runs'
    BY <2>1, <2>2 DEF CInv, Runs
  <2>4. Faults'
    BY <2>1 DEF CInv, Faults
  <2>5. Accounts'
    BY <2>1 DEF CInv, Accounts, BanNoted, AboutToLift
  <2> QED BY <2>1, <2>3, <2>4, <2>5 DEF CInv
<1> QED BY <1>1, <1>2, <1>3, <1>4, <1>5, <1>6, <1>7 DEF Next

\* For any seed tables with the script the assumption asks for, any virtual
\* users and any number of faults: every client is at a call of its script or
\* at an end, the faults are counted, and alice is banned only while flow 12
\* is between its two status calls or one of them is noted as failed.
THEOREM ClientsInvariant == Spec => []CInv
<1> QED BY InitCInv, NextCInv, PTL DEF Spec

\* simulate-flows and dev-seeder: the type invariant, above all the bounds of
\* the retry counters and the place of every client in its own script.
THEOREM ClientsTypeCorrect == Spec => []TypeOK
<1>1. CInv => TypeOK
  BY DEF CInv, Runs, Faults, Accounts, DbOK, AccountStatuses, InScript, Counters, RunnerStatuses, TypeOK
<1> QED BY <1>1, ClientsInvariant, PTL

\* simulate-flows, flow12_reportsAndAdmin: a run that has ended while alice is
\* banned has noted a status call that timed out or was throttled; any number
\* of timeouts, late calls and throttled calls, and a seeder beside it.
THEOREM BansAreReported == Spec => []BanIsReported
<1>1. CInv => BanIsReported
  BY DEF CInv, Accounts, BanNoted, AboutToLift, BanIsReported, Stopped
<1> QED BY <1>1, ClientsInvariant, PTL

\* The event r is waiting for the acknowledgement of is one the gateway
\* answers with an exception.
Unacknowledged(r) ==
  r # "seeder" /\ StepOf(r).socket /\ Serve(db, RequestOf(run[r], StepOf(r))).code \notin StepOf(r).expect

\* Both clients: a step of a running client brings it to a later call, to one
\* more of its attempts, to its end, or leaves it to wait for an event that is
\* answered with an exception.
GetsOnUnlessUnacknowledged ==
  [][\A r \in Runners : run'[r] # run[r] /\ run[r].status = "running" =>
       GetsOn(run[r], run'[r]) \/ Unacknowledged(r)]_vars

LEMMA NextGetsOn ==
  ASSUME CInv, [Next]_vars, NEW s \in Runners, run'[s] # run[s], run[s].status = "running"
  PROVE  GetsOn(run[s], run'[s]) \/ Unacknowledged(s)
<1>1. ASSUME NEW r \in Runners, RunnerStep(r)
      PROVE  GetsOn(run[s], run'[s]) \/ Unacknowledged(s)
  <2>1. ASSUME NEW code, NEW rows, run[r].status = "running", Receive(r, code, rows)
        PROVE  s = r /\ (GetsOn(run[s], run'[s])
                         \/ (r # "seeder" /\ StepOf(r).socket /\ code \notin StepOf(r).expect /\ code # 0))
    BY <2>1, ReceiveStep DEF OthersWait
  <2>2. CASE Answered(r)
    <3>1. PICK answer : answer = Serve(db, RequestOf(run[r], StepOf(r))) /\ Receive(r, answer.code, answer.rows)
      BY <2>2 DEF Answered
    <3> QED BY <2>1, <2>2, <3>1 DEF Answered, Calling, Unacknowledged
  <2>3. CASE Throttled(r)
    BY <2>1, <2>3 DEF Throttled, Calling
  <2>4. CASE TimedOut(r)
    BY <2>1, <2>4 DEF TimedOut, Calling
  <2>5. CASE Checked(r)
    <3>1. PICK y : /\ Outcome(run[r], y) /\ y.status # "hung" /\ y.failures = run[r].failures
                   /\ run' = [run EXCEPT ![r] = Advance(y, ScriptOf(r))]
      BY <2>5, CheckedOutcome
    <3>2. PICK n : n = Advance(y, ScriptOf(r))
      OBVIOUS
    <3>3. OthersWait(r) /\ run'[r] = n
      BY <3>1, <3>2, Moved
    <3>4. run[r].status = "running"
      BY <2>5 DEF Checked
    <3>5. GetsOn(run[r], n)
      BY <3>1, <3>2, <3>4, Advanced
    <3> QED BY <3>3, <3>5 DEF OthersWait
  <2> QED BY <1>1, <2>2, <2>3, <2>4, <2>5 DEF RunnerStep
<1>2. CASE ServedLate \/ UNCHANGED vars
  BY <1>2 DEF ServedLate, vars
<1>3. CASE StartVirtualUsers
  BY <1>3 DEF StartVirtualUsers
<1>4. CASE StartPair
  <2>1. run["pair"].status = "idle" /\ \E n : run' = [run EXCEPT !["pair"] = n]
    BY <1>4, Zenon DEF StartPair
  <2> QED BY <2>1, RunnerNames, Moved DEF OthersWait
<1>5. CASE Crash
  <2>1. PICK n : n = [run["seeder"] EXCEPT !.status = "crashed"] /\ run' = [run EXCEPT !["seeder"] = n]
    BY <1>5 DEF Crash, CInv, Runs
  <2>2. OthersWait("seeder") /\ run'["seeder"] = n
    BY <2>1, RunnerNames, Moved
  <2>3. n.status = "crashed"
    BY <2>1, RunnerNames DEF CInv, Runs, InScript, RunnerShape
  <2> QED BY <2>2, <2>3 DEF OthersWait, GetsOn
<1>6. CASE Rerun
  <2>1. run["seeder"].status # "running" /\ \E n : run' = [run EXCEPT !["seeder"] = n]
    BY <1>6, Zenon DEF Rerun, Stopped
  <2> QED BY <2>1, RunnerNames, Moved DEF OthersWait
<1> QED BY <1>1, <1>2, <1>3, <1>4, <1>5, <1>6 DEF Next

\* simulate-flows (apiCall, callWithRetry, emitWithAck) and dev-seeder
\* (SeedApiClient.request): no client repeats itself for ever, whatever the
\* throttler and the network do.
THEOREM RetriesRunOut == Spec => GetsOnUnlessUnacknowledged
<1>1. CInv /\ [Next]_vars =>
        [\A r \in Runners : run'[r] # run[r] /\ run[r].status = "running" =>
           GetsOn(run[r], run'[r]) \/ Unacknowledged(r)]_vars
  BY NextGetsOn
<1> QED BY <1>1, ClientsInvariant, PTL DEF Spec, GetsOnUnlessUnacknowledged

-----------------------------------------------------------------------------
(* Which tables a request writes *)

\* e is d but for these tables.
Touches(d, e, tables) == DOMAIN e = DOMAIN d /\ \A f \in DOMAIN d \ tables : e[f] = d[f]

\* The tables no invariant below looks into, but for the statuses.
OtherTables == {"status", "password", "pending", "codes", "issued", "refresh", "files", "favorites",
                "ratings"}

Writes(op) ==
  CASE op \in {"createProduct", "updateProduct", "deleteProduct", "updateProductStatus"} -> {"products"}
    [] op \in {"createReport", "updateReportStatus"} -> {"reports"}
    [] op \in {"message.send", "message.read"} -> {"messages"}
    [] op = "createConversation" -> {"conversations"}
    [] op = "createWarning" -> {"warnings"}
    [] op = "createCategory" -> {"categories"}
    [] op \in {"blockUser", "unblockUser"} -> {"blocks"}
    [] OTHER -> OtherTables

LEMMA ReplyTouches ==
  ASSUME NEW d
  PROVE  /\ \A tables, code : Touches(d, Refuse(d, code).db, tables)
         /\ \A tables, code, rows : Touches(d, Reply(d, code, rows).db, tables)
         /\ \A tables, code, rows, e : Touches(d, e, tables) => Touches(d, Reply(e, code, rows).db, tables)
BY DEF Touches, Refuse, Reply

LEMMA TokensTouch ==
  ASSUME NEW d, NEW e, Touches(d, e, OtherTables)
  PROVE  /\ \A p : Touches(d, generateTokens(e, p).db, OtherTables)
         /\ \A p, purpose : Touches(d, SendCode(e, p, purpose).db, OtherTables)
<1>1. ASSUME NEW p PROVE Touches(d, generateTokens(e, p).db, OtherTables)
  BY DEF generateTokens, Reply, Touches, OtherTables
<1>2. ASSUME NEW p, NEW purpose PROVE Touches(d, SendCode(e, p, purpose).db, OtherTables)
  BY DEF SendCode, Reply, Touches, OtherTables
<1> QED BY <1>1, <1>2

LEMMA AccountsTouch ==
  ASSUME NEW d, NEW q
  PROVE  /\ Touches(d, requestRegistrationOtp(d, q).db, OtherTables)
         /\ Touches(d, resendRegistrationOtp(d, q).db, OtherTables)
         /\ Touches(d, verifyRegistrationOtp(d, q).db, OtherTables)
         /\ Touches(d, login(d, q).db, OtherTables)
         /\ Touches(d, requestPasswordResetOtp(d, q).db, OtherTables)
         /\ Touches(d, resetPassword(d, q).db, OtherTables)
         /\ Touches(d, refresh(d, q).db, OtherTables)
         /\ Touches(d, logout(d, q).db, OtherTables)
         /\ Touches(d, updateMe(d, q).db, OtherTables)
         /\ Touches(d, changePassword(d, q).db, OtherTables)
         /\ Touches(d, getPublicProfile(d, q).db, OtherTables)
         /\ Touches(d, AboutUser(d, q).db, OtherTables)
         /\ Touches(d, updateUserStatus(d, q).db, OtherTables)
<1>0. Touches(d, d, OtherTables)
  BY DEF Touches
<1>1. Touches(d, requestRegistrationOtp(d, q).db, OtherTables)
  <2> PICK e : e = [d EXCEPT !.pending = d.pending \cup {q.on}]
    OBVIOUS
  <2>1. Touches(d, e, OtherTables)
    BY DEF Touches, OtherTables
  <2>2. requestRegistrationOtp(d, q) \in {Refuse(d, 409), SendCode(e, q.on, "registration")}
    BY DEF requestRegistrationOtp
  <2> QED BY <2>1, <2>2, ReplyTouches, TokensTouch
<1>2. Touches(d, resendRegistrationOtp(d, q).db, OtherTables)
  BY <1>0, ReplyTouches, TokensTouch DEF resendRegistrationOtp
<1>3. Touches(d, verifyRegistrationOtp(d, q).db, OtherTables)
  <2> PICK e : e = [d EXCEPT !.status[q.on] = "active", !.pending = d.pending \ {q.on},
                             !.codes = d.codes \ {<<q.on, "registration">>}]
    OBVIOUS
  <2>1. Touches(d, e, OtherTables)
    BY DEF Touches, OtherTables
  <2>2. verifyRegistrationOtp(d, q) \in {Refuse(d, 400), Refuse(d, 409), generateTokens(e, q.on)}
    BY DEF verifyRegistrationOtp
  <2>3. Touches(d, generateTokens(e, q.on).db, OtherTables)
    BY <2>1, TokensTouch
  <2>4. Touches(d, Refuse(d, 400).db, OtherTables) /\ Touches(d, Refuse(d, 409).db, OtherTables)
    BY DEF Refuse, Reply, Touches
  <2> QED BY <2>2, <2>3, <2>4
<1>4. Touches(d, login(d, q).db, OtherTables)
  <2>1. login(d, q) \in {Refuse(d, 401), generateTokens(d, q.on)}
    BY DEF login
  <2>2. Touches(d, Refuse(d, 401).db, OtherTables) /\ Touches(d, generateTokens(d, q.on).db, OtherTables)
    BY <1>0, ReplyTouches, TokensTouch
  <2> QED BY <2>1, <2>2
<1>5. Touches(d, requestPasswordResetOtp(d, q).db, OtherTables)
  BY <1>0, ReplyTouches, TokensTouch DEF requestPasswordResetOtp
<1>6. Touches(d, resetPassword(d, q).db, OtherTables)
  <2> PICK e : e = [d EXCEPT !.password[q.on] = q.val, !.codes = d.codes \ {<<q.on, "password_reset">>}]
    OBVIOUS
  <2>1. Touches(d, e, OtherTables)
    BY DEF Touches, OtherTables
  <2>2. resetPassword(d, q) \in {Refuse(d, 400), Refuse(d, 401), generateTokens(e, q.on)}
    BY DEF resetPassword
  <2>3. Touches(d, generateTokens(e, q.on).db, OtherTables)
    BY <2>1, TokensTouch
  <2>4. Touches(d, Refuse(d, 400).db, OtherTables) /\ Touches(d, Refuse(d, 401).db, OtherTables)
    BY DEF Refuse, Reply, Touches
  <2> QED BY <2>2, <2>3, <2>4
<1>7. Touches(d, refresh(d, q).db, OtherTables)
  <2> PICK e : e = [d EXCEPT !.refresh = d.refresh \ {q.id}]
    OBVIOUS
  <2>1. Touches(d, e, OtherTables)
    BY DEF Touches, OtherTables
  <2>2. refresh(d, q) \in {Reply(e, 401, {}), generateTokens(e, q.id[1])}
    BY DEF refresh, Refuse
  <2>3. Touches(d, generateTokens(e, q.id[1]).db, OtherTables) /\ Touches(d, Reply(e, 401, {}).db, OtherTables)
    BY <2>1, ReplyTouches, TokensTouch
  <2> QED BY <2>2, <2>3
<1>8. Touches(d, logout(d, q).db, OtherTables)
  BY DEF logout, Reply, Touches, OtherTables
<1>9. Touches(d, updateMe(d, q).db, OtherTables)
  <2>1. \/ \E code : updateMe(d, q) = Refuse(d, code)
        \/ updateMe(d, q) = Reply(d, 200, {})
    BY DEF updateMe
  <2> QED BY <2>1, ReplyTouches
<1>10. Touches(d, changePassword(d, q).db, OtherTables)
  BY DEF changePassword, Refuse, Reply, Touches, OtherTables
<1>11. Touches(d, getPublicProfile(d, q).db, OtherTables) /\ Touches(d, AboutUser(d, q).db, OtherTables)
  <2>1. {getPublicProfile(d, q), AboutUser(d, q)} \subseteq {Refuse(d, 404), Reply(d, 200, {})}
    BY DEF getPublicProfile, AboutUser
  <2> QED BY <2>1 DEF Refuse, Reply, Touches
<1>12. Touches(d, updateUserStatus(d, q).db, OtherTables)
  BY DEF updateUserStatus, Refuse, Reply, Touches, OtherTables
<1> QED BY <1>1, <1>2, <1>3, <1>4, <1>5, <1>6, <1>7, <1>8, <1>9, <1>10, <1>11, <1>12

\* The handlers that write one of the other tables, or none.
LEMMA OthersTouch ==
  ASSUME NEW d, NEW q
  PROVE  /\ Touches(d, createUploadIntent(d, q).db, OtherTables)
         /\ Touches(d, markUploaded(d, q).db, OtherTables)
         /\ Touches(d, getFile(d, q).db, OtherTables)
         /\ Touches(d, getProductById(d, q).db, OtherTables)
         /\ Touches(d, listMyProducts(d, q).db, OtherTables)
         /\ Touches(d, addFavorite(d, q).db, OtherTables)
         /\ Touches(d, removeFavorite(d, q).db, OtherTables)
         /\ Touches(d, listFavorites(d, q).db, OtherTables)
         /\ Touches(d, listBlockedUsers(d, q).db, OtherTables)
         /\ Touches(d, rateUser(d, q).db, OtherTables)
         /\ Touches(d, listMessages(d, q).db, OtherTables)
         /\ Touches(d, InConversation(d, q, Reply(d, 200, {})).db, OtherTables)
         /\ Touches(d, getMyReports(d, q).db, OtherTables)
         /\ Touches(d, listReports(d, q).db, OtherTables)
         /\ Touches(d, listUsers(d, q).db, OtherTables)
         /\ Touches(d, promoteAdmin(d, q).db, OtherTables)
         /\ Touches(d, listCategories(d, q).db, OtherTables)
<1>1. Touches(d, createUploadIntent(d, q).db, OtherTables)
  BY DEF createUploadIntent, Refuse, Reply, Touches, OtherTables
<1>2. Touches(d, markUploaded(d, q).db, OtherTables)
  BY DEF markUploaded, Refuse, Reply, Touches, OtherTables
<1>3. /\ Touches(d, getFile(d, q).db, OtherTables) /\ Touches(d, getProductById(d, q).db, OtherTables)
      /\ Touches(d, listMyProducts(d, q).db, OtherTables)
  BY DEF getFile, getProductById, listMyProducts, Refuse, Reply, Touches
<1>4. Touches(d, addFavorite(d, q).db, OtherTables)
  BY DEF addFavorite, Refuse, Reply, Touches, OtherTables
<1>5. Touches(d, removeFavorite(d, q).db, OtherTables)
  BY DEF removeFavorite, Refuse, Reply, Touches, OtherTables
<1>6. Touches(d, listFavorites(d, q).db, OtherTables) /\ Touches(d, listBlockedUsers(d, q).db, OtherTables)
  BY ReplyTouches DEF listFavorites, listBlockedUsers
<1>7. Touches(d, rateUser(d, q).db, OtherTables)
  BY DEF rateUser, Refuse, Reply, Touches, OtherTables
<1>8. Touches(d, listMessages(d, q).db, OtherTables)
      /\ Touches(d, InConversation(d, q, Reply(d, 200, {})).db, OtherTables)
  BY ReplyTouches DEF listMessages, InConversation
<1>9. /\ Touches(d, getMyReports(d, q).db, OtherTables) /\ Touches(d, listReports(d, q).db, OtherTables)
      /\ Touches(d, listUsers(d, q).db, OtherTables) /\ Touches(d, promoteAdmin(d, q).db, OtherTables)
      /\ Touches(d, listCategories(d, q).db, OtherTables)
  BY DEF getMyReports, listReports, listUsers, promoteAdmin, listCategories, Refuse, Reply, Touches
<1> QED BY <1>1, <1>2, <1>3, <1>4, <1>5, <1>6, <1>7, <1>8, <1>9

LEMMA WritersTouch ==
  ASSUME NEW d, NEW q
  PROVE  /\ Touches(d, createProduct(d, q).db, {"products"}) /\ Touches(d, updateProduct(d, q).db, {"products"})
         /\ Touches(d, deleteProduct(d, q).db, {"products"})
         /\ Touches(d, updateProductStatus(d, q).db, {"products"})
         /\ Touches(d, createReport(d, q).db, {"reports"}) /\ Touches(d, updateReportStatus(d, q).db, {"reports"})
         /\ Touches(d, sendMessage(d, q).db, {"messages"}) /\ Touches(d, markRead(d, q).db, {"messages"})
         /\ Touches(d, getOrCreateConversation(d, q).db, {"conversations"})
         /\ Touches(d, createWarning(d, q).db, {"warnings"}) /\ Touches(d, createCategory(d, q).db, {"categories"})
         /\ Touches(d, blockUser(d, q).db, {"blocks"}) /\ Touches(d, unblockUser(d, q).db, {"blocks"})
<1>1. Touches(d, createProduct(d, q).db, {"products"}) /\ Touches(d, updateProduct(d, q).db, {"products"})
  BY DEF createProduct, updateProduct, Refuse, Reply, Touches
<1>2. Touches(d, deleteProduct(d, q).db, {"products"}) /\ Touches(d, updateProductStatus(d, q).db, {"products"})
  BY DEF deleteProduct, updateProductStatus, SetStatus, Refuse, Reply, Touches
<1>3. Touches(d, createReport(d, q).db, {"reports"}) /\ Touches(d, updateReportStatus(d, q).db, {"reports"})
  BY DEF createReport, updateReportStatus, Refuse, Reply, Touches
<1>4. Touches(d, sendMessage(d, q).db, {"messages"}) /\ Touches(d, markRead(d, q).db, {"messages"})
  BY DEF sendMessage, markRead, InConversation, Refuse, Reply, Touches
<1>5. Touches(d, getOrCreateConversation(d, q).db, {"conversations"})
  BY DEF getOrCreateConversation, Refuse, Reply, Touches
<1>6. Touches(d, createWarning(d, q).db, {"warnings"}) /\ Touches(d, createCategory(d, q).db, {"categories"})
  BY DEF createWarning, createCategory, Refuse, Reply, Touches
<1>7. Touches(d, blockUser(d, q).db, {"blocks"}) /\ Touches(d, unblockUser(d, q).db, {"blocks"})
  BY DEF blockUser, unblockUser, Refuse, Reply, Touches
<1> QED BY <1>1, <1>2, <1>3, <1>4, <1>5, <1>6, <1>7

\* Every request writes the tables of its route and no other.
LEMMA ServeTouches ==
  ASSUME NEW d, NEW q
  PROVE  Touches(d, Serve(d, q).db, Writes(q.op))
<1>1. CASE Writes(q.op) # OtherTables
  <2>1. q.op \in {"createProduct", "updateProduct", "deleteProduct", "updateProductStatus", "createReport",
                  "updateReportStatus", "message.send", "message.read", "createConversation", "createWarning",
                  "createCategory", "blockUser", "unblockUser"}
    BY <1>1 DEF Writes
  <2>2. Touches(d, Handle(d, q).db, Writes(q.op))
    BY <2>1, WritersTouch DEF Handle, Writes
  <2> QED BY <2>2, ReplyTouches DEF Serve
<1>2. CASE Writes(q.op) = OtherTables
  <2>1. q.op \notin {"createProduct", "updateProduct", "deleteProduct", "updateProductStatus", "createReport",
                     "updateReportStatus", "message.send", "message.read", "createConversation", "createWarning",
                     "createCategory", "blockUser", "unblockUser"}
    BY <1>2 DEF Writes, OtherTables
  <2>2. Handle(d, q) \in
          {requestRegistrationOtp(d, q), resendRegistrationOtp(d, q), verifyRegistrationOtp(d, q), login(d, q),
           requestPasswordResetOtp(d, q), resetPassword(d, q), refresh(d, q), logout(d, q), updateMe(d, q),
           changePassword(d, q), getPublicProfile(d, q), AboutUser(d, q), updateUserStatus(d, q)}
          \cup {createUploadIntent(d, q), markUploaded(d, q), getFile(d, q), getProductById(d, q),
                listMyProducts(d, q), addFavorite(d, q), removeFavorite(d, q), listFavorites(d, q),
                listBlockedUsers(d, q), rateUser(d, q), listMessages(d, q),
                InConversation(d, q, Reply(d, 200, {})), getMyReports(d, q), listReports(d, q),
                listUsers(d, q), promoteAdmin(d, q), listCategories(d, q)}
          \cup {Reply(d, 200, {}), Reply(d, 200, {Row(NoRow, "socket", NoKey)})}
    BY <2>1 DEF Handle
  <2>3. /\ Touches(d, Reply(d, 200, {}).db, OtherTables)
        /\ Touches(d, Reply(d, 200, {Row(NoRow, "socket", NoKey)}).db, OtherTables)
    BY DEF Reply, Touches
  <2>4. Touches(d, Handle(d, q).db, OtherTables)
    BY <2>2, <2>3, AccountsTouch, OthersTouch
  <2> QED BY <1>2, <2>4, ReplyTouches DEF Serve
<1> QED BY <1>1, <1>2

-----------------------------------------------------------------------------
(* Tables whose rows are numbered per creator *)

RowsOf(table, p) == {id \in DOMAIN table : id[1] = p}
Numbered(table) ==
  /\ IsFiniteSet(DOMAIN table)
  /\ \A id \in DOMAIN table : id = <<id[1], id[2]>> /\ id[2] \in 1 .. Cardinality(RowsOf(table, id[1]))

\* new is old with one more row.
Added(old, new, id, row) ==
  /\ id \notin DOMAIN old /\ DOMAIN new = DOMAIN old \cup {id} /\ new[id] = row
  /\ \A j \in DOMAIN old : new[j] = old[j]

\* new has the rows of old, and these fields of theirs.
Kept(old, new, fields) == DOMAIN new = DOMAIN old /\ \A id \in DOMAIN old, f \in fields : new[id][f] = old[id][f]

LEMMA NumberedAdd ==
  ASSUME NEW table, Numbered(table), NEW p, NEW row, NEW new, new = AddRow(table, FreshId(table, p), row)
  PROVE  Added(table, new, FreshId(table, p), row) /\ Numbered(new) /\ FreshId(table, p)[1] = p
<1> DEFINE n == Cardinality(RowsOf(table, p))
<1>1. IsFiniteSet(RowsOf(table, p)) /\ n \in Nat
  <2>1. RowsOf(table, p) \subseteq DOMAIN table /\ IsFiniteSet(DOMAIN table)
    BY DEF RowsOf, Numbered
  <2> QED BY <2>1, FS_Subset, FS_CardinalityType
<1>2. FreshId(table, p) = <<p, 1 + n>>
  BY DEF FreshId, RowsOf
<1> PICK id : id = FreshId(table, p)
  OBVIOUS
<1>3. id = <<p, 1 + n>> /\ id[1] = p /\ id[2] = n + 1
  BY <1>1, <1>2
<1>4. id \notin DOMAIN table
  <2>1. ASSUME id \in DOMAIN table PROVE FALSE
    <3>1. id[2] \in 1 .. Cardinality(RowsOf(table, id[1]))
      BY <2>1 DEF Numbered
    <3>2. id[2] \in 1 .. n
      BY <1>3, <3>1
    <3> HIDE DEF n
    <3> QED BY <1>1, <1>3, <3>2
  <2> QED BY <2>1
<1>5. Added(table, new, id, row)
  <2>1. new = AddRow(table, id, row)
    OBVIOUS
  <2>2. DOMAIN new = DOMAIN table \cup {id}
    BY <2>1 DEF AddRow
  <2>3. new[id] = row /\ \A j \in DOMAIN table : new[j] = table[j]
    BY <1>4, <2>1 DEF AddRow
  <2> QED BY <1>4, <2>2, <2>3 DEF Added
<1>6. IsFiniteSet(DOMAIN new)
  BY <1>5, FS_AddElement DEF Added, Numbered
<1>7. RowsOf(new, p) = RowsOf(table, p) \cup {id} /\ id \notin RowsOf(table, p)
      /\ \A o : o # p => RowsOf(new, o) = RowsOf(table, o)
  BY <1>3, <1>5 DEF RowsOf, Added
<1>8. Cardinality(RowsOf(new, p)) = n + 1
  BY <1>1, <1>7, FS_AddElement
<1> HIDE DEF n
<1>9. ASSUME NEW j \in DOMAIN new
      PROVE  j = <<j[1], j[2]>> /\ j[2] \in 1 .. Cardinality(RowsOf(new, j[1]))
  <2>1. CASE j = id
    BY <1>1, <1>3, <1>8, <2>1
  <2>2. CASE j \in DOMAIN table /\ j[1] = p
    <3>1. j = <<j[1], j[2]>> /\ j[2] \in 1 .. n
      BY <2>2 DEF Numbered, n
    <3> QED BY <1>1, <1>8, <2>2, <3>1
  <2>3. CASE j \in DOMAIN table /\ j[1] # p
    BY <1>7, <2>3 DEF Numbered
  <2> QED BY <1>5, <2>1, <2>2, <2>3 DEF Added
<1> QED BY <1>3, <1>5, <1>6, <1>9 DEF Numbered

LEMMA NumberedSame ==
  ASSUME NEW table, Numbered(table), NEW new, DOMAIN new = DOMAIN table
  PROVE  Numbered(new)
BY DEF Numbered, RowsOf

RowTables == {"products", "reports", "messages", "warnings", "conversations", "blocks", "status"}
AProduct(row) == row = [key |-> row.key, status |-> row.status]
AReport(row) == row = [about |-> row.about, key |-> row.key, status |-> row.status]
AMessage(row) == row = [by |-> row.by, key |-> row.key, read |-> row.read]

\* The rows of the tables have their fields and their numbers.
TablesOK(d) ==
  /\ RowTables \subseteq DOMAIN d
  /\ Numbered(d.products) /\ Numbered(d.reports) /\ Numbered(d.messages)
  /\ \A id \in DOMAIN d.products : AProduct(d.products[id])
  /\ \A id \in DOMAIN d.reports : AReport(d.reports[id])
  /\ \A id \in DOMAIN d.messages : AMessage(d.messages[id])

\* The message q asks for has been sent.
MessageAdded(d, q, answer) ==
  \E id : /\ q.op = "message.send" /\ answer.code = 200 /\ answer.rows = {Row(id, q.val, NoKey)}
         /\ q.by # NoOne /\ q.id[1] \in d.conversations /\ q.by \in q.id[1] /\ id[1] = q.id[1]
         /\ Added(d.messages, answer.db.messages, id, [by |-> q.by, key |-> q.val, read |-> FALSE])
         /\ Numbered(answer.db.messages)

LEMMA MessagesServed ==
  ASSUME NEW d, TablesOK(d), NEW q, NEW answer, answer = Serve(d, q), NEW e, e = answer.db
  PROVE  \/ /\ Kept(d.messages, e.messages, {"by", "key"}) /\ (q.op = "message.send" => answer.code # 200)
            /\ \A id \in DOMAIN d.messages : AMessage(e.messages[id])
         \/ MessageAdded(d, q, answer)
<1>0. "messages" \in DOMAIN d /\ Numbered(d.messages) /\ \A id \in DOMAIN d.messages : AMessage(d.messages[id])
  BY DEF TablesOK, RowTables
<1>1. CASE e.messages = d.messages /\ (q.op = "message.send" => answer.code # 200)
  BY <1>0, <1>1 DEF Kept
<1>2. CASE q.op = "message.send"
  <2>1. \/ answer.db = d /\ answer.code # 200
        \/ answer = sendMessage(d, q) /\ assertConversationParticipant(d, q) = 0 /\ q.by # NoOne
    BY <1>2 DEF Serve, Handle, Denied, Refuse, Reply, sendMessage, InConversation,
                assertConversationParticipant, AuthPublic, OpenReads, OptionalReads, AdminRoutes
  <2>2. CASE answer = sendMessage(d, q) /\ assertConversationParticipant(d, q) = 0 /\ q.by # NoOne
    <3> PICK id, row : id = FreshId(d.messages, q.id[1]) /\ row = [by |-> q.by, key |-> q.val, read |-> FALSE]
      OBVIOUS
    <3>1. answer = Reply([d EXCEPT !.messages = AddRow(d.messages, id, row)], 200, {Row(id, q.val, NoKey)})
      BY <2>2 DEF sendMessage, InConversation
    <3>2. e.messages = AddRow(d.messages, id, row) /\ answer.code = 200 /\ answer.rows = {Row(id, q.val, NoKey)}
      BY <1>0, <3>1 DEF Reply
    <3>3. Added(d.messages, e.messages, id, row) /\ Numbered(e.messages) /\ id[1] = q.id[1]
      BY <1>0, <3>2, NumberedAdd
    <3>4. q.id[1] \in d.conversations /\ q.by \in q.id[1]
      BY <2>2 DEF assertConversationParticipant
    <3> QED BY <1>2, <2>2, <3>2, <3>3, <3>4 DEF MessageAdded
  <2> QED BY <1>1, <2>1, <2>2
<1>3. CASE q.op = "message.read"
  <2>1. \/ answer.db = d
        \/ q.id \in DOMAIN d.messages /\ answer.db = [d EXCEPT !.messages[q.id].read = TRUE]
    BY <1>3 DEF Serve, Handle, Refuse, Reply, markRead, InConversation
  <2>2. CASE q.id \in DOMAIN d.messages /\ answer.db = [d EXCEPT !.messages[q.id].read = TRUE]
    <3>1. e.messages = [d.messages EXCEPT ![q.id].read = TRUE]
      BY <1>0, <2>2
    <3>2. Kept(d.messages, e.messages, {"by", "key"}) /\ \A id \in DOMAIN d.messages : AMessage(e.messages[id])
      <4>1. PICK row, n, yes : row = d.messages[q.id] /\ n = [row EXCEPT !.read = yes] /\ yes = TRUE
        OBVIOUS
      <4>2. AMessage(row) /\ e.messages = [d.messages EXCEPT ![q.id] = n]
        BY <1>0, <2>2, <3>1, <4>1
      <4>3. n = [by |-> row.by, key |-> row.key, read |-> yes]
        BY <4>1, <4>2 DEF AMessage
      <4>4. n.by = row.by /\ n.key = row.key /\ AMessage(n)
        BY <4>3 DEF AMessage
      <4> QED BY <1>0, <2>2, <4>1, <4>2, <4>4 DEF Kept
    <3> QED BY <1>3, <3>2
  <2> QED BY <1>1, <1>3, <2>1, <2>2
<1>4. CASE q.op \notin {"message.send", "message.read"}
  <2>1. "messages" \notin Writes(q.op)
    BY <1>4 DEF Writes, OtherTables
  <2>2. e.messages = d.messages
    BY <1>0, <2>1, ServeTouches DEF Touches
  <2> QED BY <1>1, <1>4, <2>2
<1> QED BY <1>2, <1>3, <1>4

\* An answered createConversation has its conversation in the table.
Conversing(q, answer, e) ==
  q.op = "createConversation" /\ answer.code = 201 =>
    /\ q.by # NoOne /\ answer.rows = {Row(<<{q.by, q.on}, 0>>, "conversation", NoKey)}
    /\ {q.by, q.on} \in e.conversations

LEMMA ConversationsServed ==
  ASSUME NEW d, TablesOK(d), NEW q, NEW answer, answer = Serve(d, q), NEW e, e = answer.db
  PROVE  d.conversations \subseteq e.conversations /\ Conversing(q, answer, e)
<1> USE DEF Conversing
<1>0. "conversations" \in DOMAIN d
  BY DEF TablesOK, RowTables
<1>1. CASE q.op = "createConversation"
  <2> PICK pair, row : pair = {q.by, q.on} /\ row = Row(<<pair, 0>>, "conversation", NoKey)
    OBVIOUS
  <2>1. \/ answer.db = d /\ answer.code # 201
        \/ q.by # NoOne /\ answer = Reply([d EXCEPT !.conversations = d.conversations \cup {pair}], 201, {row})
    BY <1>1 DEF Serve, Handle, Denied, Refuse, Reply, getOrCreateConversation, AboutAnother,
                AuthPublic, OpenReads, OptionalReads, AdminRoutes
  <2>2. CASE answer.db = d /\ answer.code # 201
    BY <2>2
  <2>3. CASE q.by # NoOne /\ answer = Reply([d EXCEPT !.conversations = d.conversations \cup {pair}], 201, {row})
    <3>1. e = [d EXCEPT !.conversations = d.conversations \cup {pair}] /\ answer.rows = {row}
      BY <2>3 DEF Reply
    <3>2. e.conversations = d.conversations \cup {pair}
      BY <1>0, <3>1
    <3> QED BY <2>3, <3>1, <3>2
  <2> QED BY <2>1, <2>2, <2>3
<1>2. CASE q.op # "createConversation"
  <2>1. "conversations" \notin Writes(q.op)
    BY <1>2 DEF Writes, OtherTables
  <2>2. e.conversations = d.conversations
    BY <1>0, <2>1, ServeTouches DEF Touches
  <2> QED BY <1>2, <2>2
<1> QED BY <1>1, <1>2

LEMMA BlocksServed ==
  ASSUME NEW d, TablesOK(d), NEW q, NEW e, e = Serve(d, q).db
  PROVE  \A b \in e.blocks : b \in d.blocks \/ (q.op = "blockUser" /\ b = <<q.by, q.on>>)
<1>0. "blocks" \in DOMAIN d
  BY DEF TablesOK, RowTables
<1>1. CASE q.op = "blockUser"
  BY <1>0, <1>1 DEF Serve, Handle, Refuse, Reply, blockUser
<1>2. CASE q.op = "unblockUser"
  BY <1>0, <1>2 DEF Serve, Handle, Refuse, Reply, unblockUser
<1>3. CASE q.op \notin {"blockUser", "unblockUser"}
  <2>1. "blocks" \notin Writes(q.op)
    BY <1>3 DEF Writes, OtherTables
  <2>2. e.blocks = d.blocks
    BY <1>0, <2>1, ServeTouches DEF Touches
  <2> QED BY <2>2
<1> QED BY <1>1, <1>2, <1>3

ReportAdded(d, q, answer) ==
  \E id : /\ q.op = "createReport" /\ answer.code = 201 /\ answer.rows = {Row(id, q.val, "open")}
         /\ q.by # NoOne /\ id[1] = q.by
         /\ Added(d.reports, answer.db.reports, id, [about |-> q.on, key |-> q.val, status |-> "open"])
         /\ Numbered(answer.db.reports)

LEMMA ReportsServed ==
  ASSUME NEW d, TablesOK(d), NEW q, NEW answer, answer = Serve(d, q), NEW e, e = answer.db
  PROVE  \/ /\ Kept(d.reports, e.reports, {"about", "key"}) /\ (q.op = "createReport" => answer.code # 201)
            /\ \A id \in DOMAIN d.reports : AReport(e.reports[id])
         \/ ReportAdded(d, q, answer)
<1>0. "reports" \in DOMAIN d /\ Numbered(d.reports) /\ \A id \in DOMAIN d.reports : AReport(d.reports[id])
  BY DEF TablesOK, RowTables
<1>1. CASE e.reports = d.reports /\ (q.op = "createReport" => answer.code # 201)
  BY <1>0, <1>1 DEF Kept
<1>2. CASE q.op = "createReport"
  <2>1. \/ answer.db = d /\ answer.code # 201
        \/ answer = createReport(d, q) /\ AboutAnother(d, q) = 0 /\ q.by # NoOne
    BY <1>2 DEF Serve, Handle, Denied, Refuse, Reply, createReport, AboutAnother, AuthPublic, OpenReads,
                OptionalReads, AdminRoutes
  <2>2. CASE answer = createReport(d, q) /\ AboutAnother(d, q) = 0 /\ q.by # NoOne
    <3> PICK id, row : id = FreshId(d.reports, q.by) /\ row = [about |-> q.on, key |-> q.val, status |-> "open"]
      OBVIOUS
    <3>1. answer = Reply([d EXCEPT !.reports = AddRow(d.reports, id, row)], 201, {Row(id, q.val, "open")})
      BY <2>2 DEF createReport
    <3>2. e.reports = AddRow(d.reports, id, row) /\ answer.code = 201 /\ answer.rows = {Row(id, q.val, "open")}
      BY <1>0, <3>1 DEF Reply
    <3>3. Added(d.reports, e.reports, id, row) /\ Numbered(e.reports) /\ id[1] = q.by
      BY <1>0, <3>2, NumberedAdd
    <3> QED BY <1>2, <2>2, <3>2, <3>3 DEF ReportAdded
  <2> QED BY <1>1, <2>1, <2>2
<1>3. CASE q.op = "updateReportStatus"
  <2>1. answer.db = d \/ (q.id \in DOMAIN d.reports /\ answer.db = [d EXCEPT !.reports[q.id].status = q.val])
    BY <1>3 DEF Serve, Handle, Refuse, Reply, updateReportStatus
  <2>2. CASE q.id \in DOMAIN d.reports /\ answer.db = [d EXCEPT !.reports[q.id].status = q.val]
    <3>1. e.reports = [d.reports EXCEPT ![q.id].status = q.val]
      BY <1>0, <2>2
    <3>2. Kept(d.reports, e.reports, {"about", "key"}) /\ \A id \in DOMAIN d.reports : AReport(e.reports[id])
      BY <1>0, <2>2, <3>1 DEF Kept, AReport
    <3> QED BY <1>3, <3>2
  <2> QED BY <1>1, <1>3, <2>1, <2>2
<1>4. CASE q.op \notin {"createReport", "updateReportStatus"}
  <2>1. "reports" \notin Writes(q.op)
    BY <1>4 DEF Writes, OtherTables
  <2>2. e.reports = d.reports
    BY <1>0, <2>1, ServeTouches DEF Touches
  <2> QED BY <1>1, <1>4, <2>2
<1> QED BY <1>2, <1>3, <1>4

\* What a write of one product makes of its row.
Rewrites(q, row, key, status) ==
  \/ q.op = "updateProduct" /\ key = q.val /\ status = row.status
  \/ q.op = "deleteProduct" /\ key = row.key /\ status = "deleted"
  \/ q.op = "updateProductStatus" /\ key = row.key /\ status = q.val

ProductAdded(d, q, answer) ==
  \E id : /\ q.op = "createProduct" /\ answer.code = 201 /\ answer.rows = {Row(id, q.val, "available")}
         /\ q.by # NoOne /\ id[1] = q.by
         /\ Added(d.products, answer.db.products, id, [key |-> q.val, status |-> "available"])
         /\ Numbered(answer.db.products)

ProductWritten(d, q, answer) ==
  \E key, status : /\ q.id \in DOMAIN d.products /\ q.id[1] = q.by /\ q.op # "createProduct" /\ q.by # NoOne
                  /\ Rewrites(q, d.products[q.id], key, status)
                  /\ answer.db.products = [d.products EXCEPT ![q.id] = [key |-> key, status |-> status]]

LEMMA ProductsServed ==
  ASSUME NEW d, TablesOK(d), NEW q, NEW answer, answer = Serve(d, q), NEW e, e = answer.db
  PROVE  \/ e.products = d.products /\ (q.op = "createProduct" => answer.code # 201)
         \/ ProductAdded(d, q, answer)
         \/ ProductWritten(d, q, answer)
<1>0. "products" \in DOMAIN d /\ Numbered(d.products)
      /\ \A id \in DOMAIN d.products : AProduct(d.products[id])
  BY DEF TablesOK, RowTables
<1>2. CASE q.op = "createProduct"
  <2>1. \/ answer.db = d /\ answer.code # 201
        \/ answer = createProduct(d, q) /\ syncProductImages(d, q) = 0 /\ q.by # NoOne
    BY <1>2 DEF Serve, Handle, Denied, Refuse, Reply, createProduct, syncProductImages, AuthPublic, OpenReads,
                OptionalReads, AdminRoutes
  <2>2. CASE answer = createProduct(d, q) /\ syncProductImages(d, q) = 0 /\ q.by # NoOne
    <3> PICK id, row : id = FreshId(d.products, q.by) /\ row = [key |-> q.val, status |-> "available"]
      OBVIOUS
    <3>1. answer = Reply([d EXCEPT !.products = AddRow(d.products, id, row)], 201, {Row(id, q.val, "available")})
      BY <2>2 DEF createProduct
    <3>2. e.products = AddRow(d.products, id, row) /\ answer.code = 201 /\ answer.rows = {Row(id, q.val, "available")}
      BY <1>0, <3>1 DEF Reply
    <3>3. Added(d.products, e.products, id, row) /\ Numbered(e.products) /\ id[1] = q.by
      BY <1>0, <3>2, NumberedAdd
    <3> QED BY <1>2, <2>2, <3>2, <3>3 DEF ProductAdded
  <2> QED BY <1>2, <2>1, <2>2
<1>3. CASE q.op \in {"updateProduct", "deleteProduct", "updateProductStatus"}
  <2>1. \/ answer.db = d
        \/ /\ Owned(d, q) = 0
           /\ \/ q.op = "updateProduct" /\ answer.db = [d EXCEPT !.products[q.id].key = q.val]
              \/ q.op = "deleteProduct" /\ answer.db = [d EXCEPT !.products[q.id].status = "deleted"]
              \/ q.op = "updateProductStatus" /\ answer.db = [d EXCEPT !.products[q.id].status = q.val]
    BY <1>3 DEF Serve, Handle, Refuse, Reply, updateProduct, deleteProduct, updateProductStatus, SetStatus
  <2>4. q.by = NoOne => answer.db = d
    BY <1>3 DEF Serve, Denied, Refuse, Reply, AuthPublic, OpenReads, OptionalReads
  <2>2. CASE answer.db = d
    BY <1>3, <2>2
  <2>3. CASE Owned(d, q) = 0 /\ answer.db # d
    <3>1. q.id \in DOMAIN d.products /\ q.id[1] = q.by
      BY <2>3 DEF Owned, Visible
    <3>2. PICK row : row = d.products[q.id]
      OBVIOUS
    <3>3. row = [key |-> row.key, status |-> row.status]
      BY <1>0, <3>1, <3>2 DEF AProduct
    <3>4. \/ q.op = "updateProduct" /\ e.products = [d.products EXCEPT ![q.id] = [row EXCEPT !.key = q.val]]
          \/ q.op = "deleteProduct" /\ e.products = [d.products EXCEPT ![q.id] = [row EXCEPT !.status = "deleted"]]
          \/ q.op = "updateProductStatus" /\ e.products = [d.products EXCEPT ![q.id] = [row EXCEPT !.status = q.val]]
      BY <1>0, <2>1, <2>3, <3>2
    <3>5. /\ [row EXCEPT !.key = q.val] = [key |-> q.val, status |-> row.status]
          /\ [row EXCEPT !.status = "deleted"] = [key |-> row.key, status |-> "deleted"]
          /\ [row EXCEPT !.status = q.val] = [key |-> row.key, status |-> q.val]
      BY <3>3
    <3>6. \E key, status : /\ Rewrites(q, row, key, status)
                           /\ e.products = [d.products EXCEPT ![q.id] = [key |-> key, status |-> status]]
      <4>1. CASE q.op = "updateProduct"
        <5>1. e.products = [d.products EXCEPT ![q.id] = [key |-> q.val, status |-> row.status]]
          BY <3>4, <3>5, <4>1
        <5> QED BY <4>1, <5>1 DEF Rewrites
      <4>2. CASE q.op = "deleteProduct"
        <5>1. e.products = [d.products EXCEPT ![q.id] = [key |-> row.key, status |-> "deleted"]]
          BY <3>4, <3>5, <4>2
        <5> QED BY <4>2, <5>1 DEF Rewrites
      <4>3. CASE q.op = "updateProductStatus"
        <5>1. e.products = [d.products EXCEPT ![q.id] = [key |-> row.key, status |-> q.val]]
          BY <3>4, <3>5, <4>3
        <5> QED BY <4>3, <5>1 DEF Rewrites
      <4> QED BY <1>3, <4>1, <4>2, <4>3
    <3> QED BY <1>3, <2>3, <2>4, <3>1, <3>2, <3>6 DEF ProductWritten
  <2> QED BY <2>1, <2>2, <2>3
<1>4. CASE q.op \notin {"createProduct", "updateProduct", "deleteProduct", "updateProductStatus"}
  <2>1. "products" \notin Writes(q.op)
    BY <1>4 DEF Writes, OtherTables
  <2>2. e.products = d.products
    BY <1>0, <2>1, ServeTouches DEF Touches
  <2> QED BY <1>4, <2>2
<1> QED BY <1>2, <1>3, <1>4

LEMMA TablesServed ==
  ASSUME NEW d, TablesOK(d), NEW q, NEW e, e = Serve(d, q).db
  PROVE  TablesOK(e)
<1> PICK answer : answer = Serve(d, q)
  OBVIOUS
<1>1. RowTables \subseteq DOMAIN e
  BY ServeTouches DEF TablesOK, Touches
<1>2. Numbered(e.messages) /\ \A id \in DOMAIN e.messages : AMessage(e.messages[id])
  <2>1. CASE Kept(d.messages, e.messages, {"by", "key"}) /\ \A id \in DOMAIN d.messages : AMessage(e.messages[id])
    BY <2>1, NumberedSame DEF Kept, TablesOK
  <2>2. CASE MessageAdded(d, q, answer)
    BY <2>2 DEF MessageAdded, Added, TablesOK, AMessage
  <2> QED BY <2>1, <2>2, MessagesServed
<1>3. Numbered(e.reports) /\ \A id \in DOMAIN e.reports : AReport(e.reports[id])
  <2>1. CASE Kept(d.reports, e.reports, {"about", "key"}) /\ \A id \in DOMAIN d.reports : AReport(e.reports[id])
    BY <2>1, NumberedSame DEF Kept, TablesOK
  <2>2. CASE ReportAdded(d, q, answer)
    BY <2>2 DEF ReportAdded, Added, TablesOK, AReport
  <2> QED BY <2>1, <2>2, ReportsServed
<1>4. Numbered(e.products) /\ \A id \in DOMAIN e.products : AProduct(e.products[id])
  <2>1. CASE e.products = d.products
    BY <2>1 DEF TablesOK
  <2>2. CASE ProductAdded(d, q, answer)
    BY <2>2 DEF ProductAdded, Added, TablesOK, AProduct
  <2>3. CASE ProductWritten(d, q, answer)
    <3>1. DOMAIN e.products = DOMAIN d.products
      BY <2>3 DEF ProductWritten
    <3>2. \A id \in DOMAIN e.products : AProduct(e.products[id])
      BY <2>3 DEF ProductWritten, TablesOK, AProduct
    <3> QED BY <3>1, <3>2, NumberedSame DEF TablesOK
  <2> QED BY <2>1, <2>2, <2>3, ProductsServed
<1> QED BY <1>1, <1>2, <1>3, <1>4 DEF TablesOK

-----------------------------------------------------------------------------
(* What a client knows after an answer *)

\* The value is the row of a listing that step looks up for the name n.
Found(x, step, n, rows, value) ==
  \E f \in step.find : /\ f[1] = n /\ Matches(x, step, f[2], rows) # {}
                       /\ value = Newest(Matches(x, step, f[2], rows))

\* Every name is known from before, saved from the answer, or found in it.
KeptAfter(x, y, step, code, rows) ==
  \A n \in DOMAIN y.kept :
    \/ n \in DOMAIN x.kept /\ y.kept[n] = x.kept[n]
    \/ code \in step.expect /\ n \in step.save /\ rows # {} /\ y.kept[n] = Newest(rows)
    \/ code \in step.expect /\ Found(x, step, n, rows, y.kept[n])

\* What the answer has to say is known.
Learned(x, y, step, rows) ==
  /\ DOMAIN x.kept \subseteq DOMAIN y.kept
  /\ rows # {} => step.save \subseteq DOMAIN y.kept
  /\ \A f \in step.find : Matches(x, step, f[2], rows) # {} => f[1] \in DOMAIN y.kept
  /\ \A n \in DOMAIN y.kept : n \in step.save /\ rows # {} /\ (\A f \in step.find : f[1] # n) => y.kept[n] = Newest(rows)
  /\ \A n \in DOMAIN y.kept : (\E f \in step.find : f[1] = n /\ Matches(x, step, f[2], rows) # {}) =>
                                Found(x, step, n, rows, y.kept[n])

LEMMA LearnKeeps ==
  ASSUME NEW x, NEW step, NEW rows, NEW code \in step.expect, RunnerShape(x), NEW y, y = Learn(x, step, rows)
  PROVE  KeptAfter(x, y, step, code, rows) /\ Learned(x, y, step, rows)
<1> DEFINE found == {f \in step.find : Matches(x, step, f[2], rows) # {}}
           saved == IF rows = {} THEN {} ELSE step.save
           names == {f[1] : f \in found}
           value(n) == IF n \in names THEN Newest(Matches(x, step, (CHOOSE f \in found : f[1] = n)[2], rows))
                       ELSE IF n \in saved THEN Newest(rows) ELSE x.kept[n]
           kept == [n \in names \cup saved \cup DOMAIN x.kept |-> value(n)]
           password == IF step.op \in {"resetPassword", "changePassword"} THEN step.val ELSE x.password
<1>1. y = [x EXCEPT !.kept = kept, !.password = password]
  BY Zenon DEF Learn
<1>2. y.kept = kept
  <2> HIDE DEF kept, password
  <2> QED BY <1>1 DEF RunnerShape
<1>3. ASSUME NEW n \in names
      PROVE  Found(x, step, n, rows, value(n))
  <2>1. \E f \in found : f[1] = n
    OBVIOUS
  <2>2. PICK f : f = CHOOSE g \in found : g[1] = n
    OBVIOUS
  <2>3. f \in found /\ f[1] = n
    BY <2>1, <2>2
  <2>4. value(n) = Newest(Matches(x, step, f[2], rows))
    BY <2>2
  <2> QED BY <2>3, <2>4 DEF Found
<1>4. \A n : n \notin names /\ n \in saved => value(n) = Newest(rows)
  OBVIOUS
<1>5. \A n : n \notin names /\ n \notin saved => value(n) = x.kept[n]
  OBVIOUS
<1>6. /\ DOMAIN kept = names \cup saved \cup DOMAIN x.kept
      /\ \A n \in DOMAIN kept : kept[n] = value(n)
  OBVIOUS
<1>7. /\ \A f \in step.find : Matches(x, step, f[2], rows) # {} => f[1] \in names
      /\ \A n \in names : \E f \in step.find : f[1] = n
      /\ saved = IF rows = {} THEN {} ELSE step.save
  OBVIOUS
<1> HIDE DEF value, kept, names, saved
<1>8. KeptAfter(x, y, step, code, rows)
  BY <1>2, <1>3, <1>4, <1>5, <1>6, <1>7 DEF KeptAfter
<1>9. Learned(x, y, step, rows)
  <2>1. DOMAIN x.kept \subseteq DOMAIN y.kept /\ (rows # {} => step.save \subseteq DOMAIN y.kept)
    BY <1>2, <1>6, <1>7
  <2>2. \A f \in step.find : Matches(x, step, f[2], rows) # {} => f[1] \in DOMAIN y.kept
    BY <1>2, <1>6, <1>7
  <2>3. \A n \in DOMAIN y.kept : n \in step.save /\ rows # {} /\ (\A f \in step.find : f[1] # n) => y.kept[n] = Newest(rows)
    BY <1>2, <1>4, <1>6, <1>7
  <2>4. \A n \in DOMAIN y.kept : (\E f \in step.find : f[1] = n /\ Matches(x, step, f[2], rows) # {}) =>
                                Found(x, step, n, rows, y.kept[n])
    BY <1>2, <1>3, <1>6, <1>7
  <2> QED BY <2>1, <2>2, <2>3, <2>4 DEF Learned
<1> QED BY <1>8, <1>9

\* A call of the simulator: what it knows, and what going on to the next call
\* says of the answer.
LEMMA apiCallKeeps ==
  ASSUME NEW x, NEW step, NEW code, NEW rows, RunnerShape(x), x.status = "running",
         NEW y, y = apiCall(x, step, code, rows)
  PROVE  /\ KeptAfter(x, y, step, code, rows)
         /\ DOMAIN x.kept \ {BobSocket, Sockets} \subseteq DOMAIN y.kept
         /\ y.status = "running" => DOMAIN x.kept \subseteq DOMAIN y.kept
         /\ y.status = "next" /\ step.fatal => code \in step.expect
         /\ y.status = "next" /\ code \in step.expect => Learned(x, y, step, rows)
<1> DEFINE expected == code \in step.expect
           noted == IF expected THEN Learn(x, step, rows) ELSE Noting(x, step, code)
<1>1. RunnerShape(noted) /\ noted.status = "running"
  <2>1. CASE expected
    BY <2>1, LearnStep
  <2>2. CASE ~expected
    BY <2>2 DEF Noting, RunnerShape
  <2> QED BY <2>1, <2>2
<1>2. KeptAfter(x, noted, step, code, rows) /\ DOMAIN x.kept \subseteq DOMAIN noted.kept
      /\ (expected => Learned(x, noted, step, rows))
  <2>1. CASE expected
    <3>1. noted = Learn(x, step, rows)
      BY <2>1
    <3>2. KeptAfter(x, noted, step, code, rows) /\ Learned(x, noted, step, rows)
      BY <2>1, <3>1, LearnKeeps
    <3> QED BY <3>2 DEF Learned
  <2>2. CASE ~expected
    <3>1. noted.kept = x.kept
      BY <2>2 DEF Noting, RunnerShape
    <3> QED BY <2>2, <3>1 DEF KeptAfter
  <2> QED BY <2>1, <2>2
<1>3. y = IF step.socket /\ ~expected /\ code # 0 THEN [x EXCEPT !.status = "hung"]
          ELSE IF code = 429 /\ ~expected /\ x.tries < Retries429 THEN [x EXCEPT !.tries = x.tries + 1]
          ELSE IF step.retry /\ code \in {0, 429} /\ x.calls < AbortRetries THEN CallAgain(noted)
          ELSE IF step.retry /\ expected /\ code = 429 THEN [x EXCEPT !.status = "skipped"]
          ELSE IF ~expected /\ step.fatal THEN Fail(noted, <<step.op, code>>)
          ELSE IF step.socket /\ ~expected
               THEN Finished([noted EXCEPT !.kept = [n \in DOMAIN noted.kept \ {BobSocket, Sockets} |-> noted.kept[n]]])
          ELSE Finished(noted)
  BY Zenon DEF apiCall, Noting
<1> HIDE DEF noted
<1>4. CASE y.kept = x.kept /\ y.status # "next"
  BY <1>4 DEF KeptAfter
<1>5. CASE y.kept = noted.kept /\ (y.status = "next" /\ step.fatal => expected)
  BY <1>2, <1>5 DEF KeptAfter, Learned
<1>6. CASE /\ ~expected /\ ~step.fatal /\ y.status = "next" /\ y.kept = [n \in DOMAIN noted.kept \ {BobSocket, Sockets} |-> noted.kept[n]]
  BY <1>2, <1>6 DEF KeptAfter
<1>7. \/ y.kept = x.kept /\ y.status # "next"
      \/ y.kept = noted.kept /\ (y.status = "next" /\ step.fatal => expected)
      \/ /\ ~expected /\ ~step.fatal /\ y.status = "next" /\ y.kept = [n \in DOMAIN noted.kept \ {BobSocket, Sockets} |-> noted.kept[n]]
  <2> DEFINE kept == [n \in DOMAIN noted.kept \ {BobSocket, Sockets} |-> noted.kept[n]]
  <2>1. /\ [x EXCEPT !.tries = x.tries + 1].kept = x.kept /\ [x EXCEPT !.tries = x.tries + 1].status = "running"
        /\ [x EXCEPT !.status = "hung"].kept = x.kept /\ [x EXCEPT !.status = "hung"].status = "hung"
        /\ [x EXCEPT !.status = "skipped"].kept = x.kept /\ [x EXCEPT !.status = "skipped"].status = "skipped"
    BY DEF RunnerShape
  <2>2. CallAgain(noted).kept = noted.kept /\ CallAgain(noted).status = "running"
    BY <1>1 DEF CallAgain, RunnerShape
  <2>3. \A e : Fail(noted, e).kept = noted.kept /\ Fail(noted, e).status = "failed"
    BY <1>1 DEF Fail, RunnerShape
  <2>4. Finished(noted).kept = noted.kept /\ Finished(noted).status = "next"
    BY <1>1 DEF Finished, RunnerShape
  <2>5. \A k : Finished([noted EXCEPT !.kept = k]).kept = k /\ Finished([noted EXCEPT !.kept = k]).status = "next"
    BY <1>1 DEF Finished, RunnerShape
  <2> HIDE DEF kept
  <2>6. y \in {[x EXCEPT !.status = "hung"], [x EXCEPT !.tries = x.tries + 1], CallAgain(noted),
               [x EXCEPT !.status = "skipped"], Fail(noted, <<step.op, code>>)}
        \/ (~(~expected /\ step.fatal) /\ ~expected /\ y = Finished([noted EXCEPT !.kept = kept]))
        \/ (~(~expected /\ step.fatal) /\ y = Finished(noted))
    BY <1>3 DEF kept
  <2>7. CASE y \in {[x EXCEPT !.status = "hung"], [x EXCEPT !.tries = x.tries + 1], [x EXCEPT !.status = "skipped"]}
    BY <2>1, <2>7
  <2>8. CASE y = CallAgain(noted) \/ y = Fail(noted, <<step.op, code>>)
    BY <2>2, <2>3, <2>8
  <2>9. CASE ~(~expected /\ step.fatal) /\ ~expected /\ y = Finished([noted EXCEPT !.kept = kept])
    BY <2>5, <2>9 DEF kept
  <2>10. CASE ~(~expected /\ step.fatal) /\ y = Finished(noted)
    BY <2>4, <2>10
  <2> QED BY <2>6, <2>7, <2>8, <2>9, <2>10
<1> QED BY <1>4, <1>5, <1>6, <1>7

\* A call of the seeder: the same, and a call made again finds it as it was.
LEMMA requestKeeps ==
  ASSUME NEW x, NEW step, NEW code, NEW rows, RunnerShape(x), x.status = "running",
         NEW y, y = request(x, step, code, rows)
  PROVE  /\ KeptAfter(x, y, step, code, rows) /\ DOMAIN x.kept \subseteq DOMAIN y.kept
         /\ y.status \in {"running", "next", "failed"}
         /\ y.status # "next" => y.kept = x.kept
         /\ y.status = "next" => \/ code \in step.expect /\ Learned(x, y, step, rows)
                                 \/ code \in step.forgive \ step.expect /\ y.kept = x.kept
<1>1. CASE code \in step.expect
  <2> PICK z : z = Learn(x, step, rows)
    OBVIOUS
  <2>1. y = Finished(z) /\ RunnerShape(z)
    BY <1>1, LearnStep DEF request
  <2>2. KeptAfter(x, z, step, code, rows) /\ Learned(x, z, step, rows)
    BY <1>1, LearnKeeps
  <2>3. y.kept = z.kept /\ y.status = "next"
    BY <2>1 DEF Finished, RunnerShape
  <2> QED BY <1>1, <2>2, <2>3 DEF KeptAfter, Learned
<1>2. CASE code \notin step.expect
  <2>1. \/ y = [x EXCEPT !.tries = x.tries + 1]
        \/ code \in step.forgive /\ y = Finished(x)
        \/ \E e : y = Fail(x, e)
    BY <1>2 DEF request
  <2>2. /\ y.kept = x.kept /\ y.status \in {"running", "next", "failed"}
        /\ y.status = "next" => code \in step.forgive
    BY <2>1 DEF Finished, Fail, RunnerShape
  <2> QED BY <1>2, <2>2 DEF KeptAfter
<1> QED BY <1>1, <1>2

\* A call is made again only when it got no answer, or was throttled.
LEMMA CalledAgain ==
  ASSUME NEW x, NEW step, NEW code, NEW rows, RunnerShape(x), x.status = "running", NEW y, y.status = "running",
         y = apiCall(x, step, code, rows) \/ y = request(x, step, code, rows)
  PROVE  code \in {0, 429}
<1>1. CASE y = request(x, step, code, rows)
  <2>1. CASE code \in step.expect
    <3>1. y = Finished(Learn(x, step, rows)) /\ RunnerShape(Learn(x, step, rows))
      BY <1>1, <2>1, LearnStep DEF request
    <3> QED BY <3>1 DEF Finished, RunnerShape
  <2>2. CASE code \notin step.expect
    <3>1. code \in {0, 429} \/ y = Finished(x) \/ y = Fail(x, <<step.op, code>>)
      BY <1>1, <2>2 DEF request
    <3>2. Finished(x).status = "next" /\ \A e : Fail(x, e).status = "failed"
      BY DEF Finished, Fail, RunnerShape
    <3> QED BY <3>1, <3>2
  <2> QED BY <2>1, <2>2
<1>2. CASE y = apiCall(x, step, code, rows)
  <2> DEFINE expected == code \in step.expect
             noted == IF expected THEN Learn(x, step, rows) ELSE Noting(x, step, code)
             cut == [n \in DOMAIN noted.kept \ {BobSocket, Sockets} |-> noted.kept[n]]
  <2>1. RunnerShape(noted)
    <3>1. CASE expected
      BY <3>1, LearnStep
    <3>2. CASE ~expected
      BY <3>2 DEF Noting, RunnerShape
    <3> QED BY <3>1, <3>2
  <2>2. y = IF step.socket /\ ~expected /\ code # 0 THEN [x EXCEPT !.status = "hung"]
            ELSE IF code = 429 /\ ~expected /\ x.tries < Retries429 THEN [x EXCEPT !.tries = x.tries + 1]
            ELSE IF step.retry /\ code \in {0, 429} /\ x.calls < AbortRetries THEN CallAgain(noted)
            ELSE IF step.retry /\ expected /\ code = 429 THEN [x EXCEPT !.status = "skipped"]
            ELSE IF ~expected /\ step.fatal THEN Fail(noted, <<step.op, code>>)
            ELSE IF step.socket /\ ~expected THEN Finished([noted EXCEPT !.kept = cut])
            ELSE Finished(noted)
    BY <1>2, Zenon DEF apiCall, Noting
  <2> HIDE DEF noted, cut
  <2>3. \/ code \in {0, 429} \/ y = [x EXCEPT !.status = "hung"] \/ y = [x EXCEPT !.status = "skipped"]
        \/ y = Fail(noted, <<step.op, code>>) \/ y = Finished([noted EXCEPT !.kept = cut]) \/ y = Finished(noted)
    BY <2>2
  <2>4. /\ [x EXCEPT !.status = "hung"].status = "hung" /\ [x EXCEPT !.status = "skipped"].status = "skipped"
        /\ \A e : Fail(noted, e).status = "failed"
        /\ Finished(noted).status = "next" /\ Finished([noted EXCEPT !.kept = cut]).status = "next"
    BY <2>1 DEF RunnerShape, Fail, Finished
  <2> QED BY <2>3, <2>4
<1> QED BY <1>1, <1>2

\* What an answer leaves a runner with, before it goes on.
CallKept(r, y, code, rows) ==
  LET x == run[r]  step == StepOf(r) IN
  /\ KeptAfter(x, y, step, code, rows)
  /\ DOMAIN x.kept \ {BobSocket, Sockets} \subseteq DOMAIN y.kept
  /\ y.status = "running" => DOMAIN x.kept \subseteq DOMAIN y.kept
  /\ y.status = "next" /\ code \in step.expect => Learned(x, y, step, rows)
  /\ r # "seeder" /\ y.status = "next" /\ step.fatal => code \in step.expect
  /\ r = "seeder" /\ y.status # "next" => y.kept = x.kept
  /\ r = "seeder" /\ y.status = "next" /\ code \notin step.expect => code \in step.forgive /\ y.kept = x.kept
  /\ y.status = "running" => code \in {0, 429}

LEMMA ReceiveKeeps ==
  ASSUME CInv, NEW r \in Runners, run[r].status = "running", NEW code, NEW rows, Receive(r, code, rows)
  PROVE  \E y : Outcome(run[r], y) /\ CallKept(r, y, code, rows) /\ run'[r] = Advance(y, ScriptOf(r)) /\ OthersWait(r)
<1>0. PICK y : /\ y = IF r = "seeder" THEN request(run[r], StepOf(r), code, rows)
                      ELSE apiCall(run[r], StepOf(r), code, rows)
               /\ run' = [run EXCEPT ![r] = Advance(y, ScriptOf(r))]
  BY DEF Receive, StepOf
<1>1. RunnerShape(run[r]) /\ Counters(run[r])
  BY DEF CInv, Runs, InScript
<1> PICK n : n = Advance(y, ScriptOf(r))
  OBVIOUS
<1>2. run'[r] = n /\ OthersWait(r)
  BY <1>0, Moved
<1>3. CASE r = "seeder"
  <2>1. y = request(run[r], StepOf(r), code, rows)
    BY <1>0, <1>3
  <2>2. Outcome(run[r], y)
    BY <1>1, <2>1, requestStep
  <2>3. PICK x, step : x = run[r] /\ step = StepOf(r)
    OBVIOUS
  <2>4. /\ KeptAfter(x, y, step, code, rows) /\ DOMAIN x.kept \subseteq DOMAIN y.kept
        /\ y.status # "next" => y.kept = x.kept
        /\ y.status = "next" => \/ code \in step.expect /\ Learned(x, y, step, rows)
                                \/ code \in step.forgive \ step.expect /\ y.kept = x.kept
    BY <1>1, <2>1, <2>3, requestKeeps
  <2>5. code \in step.expect /\ y.status = "next" => Learned(x, y, step, rows)
    BY <2>4
  <2>6. CallKept(r, y, code, rows)
    <3>1. y.status = "running" => code \in {0, 429}
      BY <1>1, <2>1, CalledAgain
    <3> QED BY <1>3, <2>3, <2>4, <2>5, <3>1 DEF CallKept
  <2> QED BY <1>2, <2>2, <2>6
<1>4. CASE r # "seeder"
  <2>1. y = apiCall(run[r], StepOf(r), code, rows)
    BY <1>0, <1>4
  <2>2. Outcome(run[r], y)
    BY <1>1, <2>1, apiCallStep
  <2>3. CallKept(r, y, code, rows)
    <3>1. y.status = "running" => code \in {0, 429}
      BY <1>1, <2>1, CalledAgain
    <3> QED BY <1>1, <1>4, <2>1, <3>1, apiCallKeeps DEF CallKept
  <2> QED BY <1>2, <2>2, <2>3
<1> QED BY <1>3, <1>4

-----------------------------------------------------------------------------
(* Scripts made of others *)

\* s is the part of script that follows position o.
PartOf(s, script, o) == \A i \in 1 .. Len(s) : script[o + i] = s[i]

LEMMA ConcatAt ==
  ASSUME NEW s, NEW t, Script(s), Script(t)
  PROVE  /\ Script(s \o t) /\ Len(s \o t) = Len(s) + Len(t) /\ Len(s) \in Nat /\ Len(t) \in Nat
         /\ PartOf(s, s \o t, 0) /\ PartOf(t, s \o t, Len(s))
<1> DEFINE S == ToSet(s) \cup ToSet(t)
<1>1. s \in Seq(S) /\ t \in Seq(S)
  BY DEF Script
<1> HIDE DEF S
<1>2. s \o t \in Seq(S) /\ Len(s \o t) = Len(s) + Len(t) /\ Len(s) \in Nat /\ Len(t) \in Nat
  BY <1>1
<1>3. \A i \in 1 .. Len(s \o t) : (s \o t)[i] = IF i <= Len(s) THEN s[i] ELSE t[i - Len(s)]
  BY <1>1
<1>4. PartOf(t, s \o t, Len(s))
  BY <1>2, <1>3 DEF PartOf
<1>5. PartOf(s, s \o t, 0)
  BY <1>2, <1>3 DEF PartOf
<1>6. Script(s \o t)
  BY <1>2, SeqIsScript
<1> QED BY <1>2, <1>4, <1>5, <1>6


-----------------------------------------------------------------------------
(* The calls of the simulator and of its virtual users *)

\* The calls some later argument looks at.
Noted == {"blockUser", "createProduct", "updateProduct", "updateProductStatus", "deleteProduct",
          "createReport", "updateReportStatus", "message.send"}

Even == <<"message", "even">>
Odd == <<"message", "odd">>
MessageNames == {Message, Even, Odd}
ChatNames == {Conversation} \cup MessageNames

\* The names of the rows that a later call needs and that something is said of.
KeptNames == ChatNames \cup {Product1, Product2}

\* Neither one of these calls, nor an event, nor about a row some call needs again.
Plain(step) ==
  /\ {"op", "save", "find", "socket"} \subseteq DOMAIN step
  /\ step.op \notin Noted /\ ~step.socket
  /\ step.save \cap KeptNames = {} /\ \A f \in step.find : f[1] \notin KeptNames

AllPlain(s) == \A step \in ToSet(s) : Plain(step)

LEMMA PlainCalled ==
  /\ \A by, op, expect : op \notin Noted => Plain(Call(by, op, expect))
  /\ \A op, expect : op \notin Noted => Plain(Anyone(op, expect))
BY DEF Plain, Call, Anyone

LEMMA PlainRefined ==
  /\ \A step, x : Plain(step) => Plain(On(step, x))
  /\ \A step, x : Plain(step) => Plain(At(step, x))
  /\ \A step, x : Plain(step) => Plain(Val(step, x))
  /\ \A step, x : Plain(step) => Plain(Offer(step, x))
  /\ \A step, x : Plain(step) => Plain(Picture(step, x))
  /\ \A step, x : Plain(step) /\ x \notin KeptNames => Plain(Keep(step, x))
  /\ \A step, x : Plain(step) => Plain(Needs(step, x))
  /\ \A step, x : Plain(step) => Plain(Lacks(step, x))
  /\ \A step, x : Plain(step) /\ (\A f \in x : f[1] \notin KeptNames) => Plain(Find(step, x))
  /\ \A step : Plain(step) => Plain(Critical(step))
  /\ \A step : Plain(step) => Plain(Retried(step))
BY DEF Plain, On, At, Val, Offer, Picture, Keep, Needs, Lacks, Find, Critical, Retried

LEMMA PlainRequired ==
  ASSUME NEW names, names \cap KeptNames = {}
  PROVE  Plain(Require(names))
<1>1. Plain(Anyone("require", {}))
  BY PlainCalled DEF Noted
<1> QED BY <1>1 DEF Require, Plain

\* The names the simulator keeps other rows under.
LEMMA OtherNames ==
  /\ {Otp, Category, Parent, Leaf, Avatar, Image, Changed} \cap KeptNames = {}
  /\ {Session(Alice), Session(Bob), Session(AdminPhone)} \cap KeptNames = {}
  /\ {BobSocket, Sockets} \cap KeptNames = {} /\ {Product1, Product2} \cap ChatNames = {}
BY DEF KeptNames, ChatNames, MessageNames, Message, Even, Odd, Conversation, Otp, Category, Parent, Leaf, Avatar,
       Image, Product1, Product2, Changed, Session, Alice, Bob, AdminPhone, BobSocket, Sockets

\* The calls of a script made of two.
LEMMA ConcatSteps ==
  ASSUME NEW s, NEW t, Script(s), Script(t)
  PROVE  Script(s \o t) /\ ToSet(s \o t) = ToSet(s) \cup ToSet(t)
<1>1. /\ Script(s \o t) /\ Len(s \o t) = Len(s) + Len(t) /\ Len(s) \in Nat /\ Len(t) \in Nat
      /\ PartOf(s, s \o t, 0) /\ PartOf(t, s \o t, Len(s))
  BY ConcatAt
<1>2. DOMAIN s = 1 .. Len(s) /\ DOMAIN t = 1 .. Len(t) /\ DOMAIN (s \o t) = 1 .. Len(s) + Len(t)
  BY <1>1, ScriptLen
<1>3. ASSUME NEW i \in DOMAIN (s \o t)
      PROVE  (s \o t)[i] \in ToSet(s) \cup ToSet(t)
  <2>1. CASE i <= Len(s)
    BY <1>1, <1>2, <2>1 DEF PartOf, ToSet
  <2>2. CASE i > Len(s)
    <3>1. i - Len(s) \in 1 .. Len(t) /\ i = Len(s) + (i - Len(s))
      BY <1>1, <1>2, <2>2
    <3> QED BY <1>1, <1>2, <3>1 DEF PartOf, ToSet
  <2> QED BY <1>1, <1>2, <2>1, <2>2
<1>4. ASSUME NEW i \in DOMAIN s
      PROVE  s[i] \in ToSet(s \o t)
  BY <1>1, <1>2 DEF PartOf, ToSet
<1>5. ASSUME NEW i \in DOMAIN t
      PROVE  t[i] \in ToSet(s \o t)
  <2>1. Len(s) + i \in DOMAIN (s \o t)
    BY <1>1, <1>2
  <2> QED BY <1>1, <1>2, <2>1 DEF PartOf, ToSet
<1> QED BY <1>1, <1>3, <1>4, <1>5 DEF ToSet

LEMMA PlainRegister ==
  ASSUME NEW p, Session(p) \notin KeptNames, NEW withResend
  PROVE  AllPlain(registerUser(p, withResend))
<1> DEFINE first == << Critical(On(Anyone("register", {201}), p)) >>
           resend == IF withResend THEN << On(Anyone("resendRegistrationOtp", {201}), p) >> ELSE << >>
           verify == << Critical(Keep(Val(On(Anyone("verifyRegistrationOtp", {201}), p), DevCode), Session(p))) >>
<1>1. Plain(first[1]) /\ Plain(verify[1])
  BY PlainCalled, PlainRefined DEF Noted
<1>2. Plain(On(Anyone("resendRegistrationOtp", {201}), p))
  BY PlainCalled, PlainRefined DEF Noted
<1>3. AllPlain(first) /\ AllPlain(verify) /\ AllPlain(resend)
  BY <1>1, <1>2 DEF AllPlain, ToSet
<1>4. Script(first) /\ Script(verify) /\ Script(resend)
  <2>1. Script(resend)
    <3>1. CASE withResend
      BY <3>1 DEF Script, ToSet
    <3>2. CASE ~withResend
      <4>1. resend = << >>
        BY <3>2
      <4>2. resend \in Seq({})
        BY <4>1
      <4> QED BY <4>2, SeqIsScript
    <3> QED BY <3>1, <3>2
  <2> QED BY <2>1 DEF Script, ToSet
<1>5. registerUser(p, withResend) = (first \o resend) \o verify
  BY DEF registerUser
<1> HIDE DEF first, resend, verify
<1> QED BY <1>3, <1>4, <1>5, ConcatSteps DEF AllPlain

LEMMA PlainUpload ==
  ASSUME NEW p, NEW purpose, NEW name, name \notin KeptNames
  PROVE  AllPlain(UploadFile(p, purpose, name))
<1>1. \A i \in 1 .. 3 : Plain(UploadFile(p, purpose, name)[i])
  BY PlainCalled, PlainRefined DEF UploadFile, Noted
<1> QED BY <1>1 DEF AllPlain, ToSet, UploadFile

LEMMA PlainFlows ==
  /\ AllPlain(flow01_anonymous) /\ AllPlain(flow03_adminBootstrap) /\ AllPlain(flow04_tokenLifecycle)
  /\ AllPlain(flow05_passwordReset) /\ AllPlain(flow06_profile) /\ AllPlain(flow07_category)
  /\ AllPlain(flow08_buyer) /\ AllPlain(flow11_ratings)
<1>1. AllPlain(flow01_anonymous)
  <2>1. \A i \in 1 .. 4 : Plain(flow01_anonymous[i])
    BY PlainCalled, PlainRefined, OtherNames DEF flow01_anonymous, Noted
  <2> QED BY <2>1 DEF AllPlain, ToSet, flow01_anonymous
<1>2. AllPlain(flow03_adminBootstrap)
  <2>1. \A i \in 1 .. 1 : Plain(flow03_adminBootstrap[i])
    BY PlainCalled, PlainRefined, OtherNames DEF flow03_adminBootstrap, Noted, Login
  <2> QED BY <2>1 DEF AllPlain, ToSet, flow03_adminBootstrap, Login
<1>3. AllPlain(flow04_tokenLifecycle)
  <2>1. \A i \in 1 .. 3 : Plain(flow04_tokenLifecycle[i])
    BY PlainCalled, PlainRefined, OtherNames DEF flow04_tokenLifecycle, Noted, Login
  <2> QED BY <2>1 DEF AllPlain, ToSet, flow04_tokenLifecycle, Login
<1>4. AllPlain(flow05_passwordReset)
  <2>1. \A i \in 1 .. 2 : Plain(flow05_passwordReset[i])
    BY PlainCalled, PlainRefined, OtherNames DEF flow05_passwordReset, Noted
  <2> QED BY <2>1 DEF AllPlain, ToSet, flow05_passwordReset
<1>5. AllPlain(flow06_profile)
  <2>1. \A i \in 1 .. 4 : Plain(flow06_profile[i])
    BY PlainCalled, PlainRefined, OtherNames DEF flow06_profile, Noted, Login
  <2> QED BY <2>1 DEF AllPlain, ToSet, flow06_profile, Login
<1>6. AllPlain(flow07_category)
  <2>1. \A i \in 1 .. 3 : Plain(flow07_category[i])
    BY PlainCalled, PlainRefined, OtherNames, PlainRequired DEF flow07_category, Noted
  <2> QED BY <2>1 DEF AllPlain, ToSet, flow07_category
<1>7. AllPlain(flow08_buyer)
  <2>1. \A i \in 1 .. 6 : Plain(flow08_buyer[i])
    BY PlainCalled, PlainRefined, OtherNames DEF flow08_buyer, Noted
  <2> QED BY <2>1 DEF AllPlain, ToSet, flow08_buyer
<1>8. AllPlain(flow11_ratings)
  <2>1. \A i \in 1 .. 3 : Plain(flow11_ratings[i])
    BY PlainCalled, PlainRefined, OtherNames DEF flow11_ratings, Noted
  <2> QED BY <2>1 DEF AllPlain, ToSet, flow11_ratings
<1> QED BY <1>1, <1>2, <1>3, <1>4, <1>5, <1>6, <1>7, <1>8

\* Neither an event nor of any use to the chat.
Silent(step) ==
  /\ {"op", "save", "find", "socket"} \subseteq DOMAIN step
  /\ ~step.socket /\ step.save \cap ChatNames = {} /\ \A f \in step.find : f[1] \notin ChatNames

AllSilent(s) == \A step \in ToSet(s) : Silent(step)

LEMMA SilentCalled ==
  /\ \A by, op, expect : Silent(Call(by, op, expect)) /\ Silent(Anyone(op, expect))
  /\ \A step : Plain(step) => Silent(step)
BY DEF Silent, Plain, KeptNames, Call, Anyone

LEMMA SilentRefined ==
  /\ \A step, x : Silent(step) => Silent(On(step, x))
  /\ \A step, x : Silent(step) => Silent(At(step, x))
  /\ \A step, x : Silent(step) => Silent(Val(step, x))
  /\ \A step, x : Silent(step) => Silent(Offer(step, x))
  /\ \A step, x : Silent(step) => Silent(Picture(step, x))
  /\ \A step, x : Silent(step) /\ x \notin ChatNames => Silent(Keep(step, x))
  /\ \A step : Silent(step) => Silent(Critical(step))
BY DEF Silent, On, At, Val, Offer, Picture, Keep, Critical

LEMMA SilentFlows ==
  /\ AllSilent(flow07_products) /\ AllSilent(flow10_blocksAndSafety)
  /\ AllSilent(flow12_reportsAndAdmin) /\ AllSilent(flow13_negativeChecks)
<1>1. AllSilent(flow07_products)
  <2>1. \A i \in 1 .. 8 : Silent(flow07_products[i])
    BY SilentCalled, SilentRefined, OtherNames DEF flow07_products, CreateProduct
  <2> QED BY <2>1 DEF AllSilent, ToSet, flow07_products, CreateProduct
<1>2. AllSilent(flow10_blocksAndSafety)
  <2>1. \A i \in 1 .. 5 : Silent(flow10_blocksAndSafety[i])
    BY SilentCalled, SilentRefined, OtherNames DEF flow10_blocksAndSafety
  <2> QED BY <2>1 DEF AllSilent, ToSet, flow10_blocksAndSafety
<1>3. AllSilent(flow12_reportsAndAdmin)
  <2>1. \A i \in 1 .. 9 : Silent(flow12_reportsAndAdmin[i])
    BY SilentCalled, SilentRefined, OtherNames DEF flow12_reportsAndAdmin
  <2> QED BY <2>1 DEF AllSilent, ToSet, flow12_reportsAndAdmin
<1>4. AllSilent(flow13_negativeChecks)
  <2>1. \A i \in 1 .. 9 : Silent(flow13_negativeChecks[i])
    BY SilentCalled, SilentRefined, OtherNames DEF flow13_negativeChecks
  <2> QED BY <2>1 DEF AllSilent, ToSet, flow13_negativeChecks
<1> QED BY <1>1, <1>2, <1>3, <1>4

\* Who sends the message kept under this name, in a chat that a has opened with b.
Sender(n, a, b) == IF n = Odd THEN b ELSE a

\* An event the gateway acknowledges when the chat is as far as the call needs it.
Acked(step, a, b) ==
  /\ step.expect = {200} /\ step.by \in {a, b}
  /\ \/ step.op = "connect"
     \/ /\ step.op \in {"conversation.join", "message.send"}
        /\ step.row = Conversation /\ Conversation \in step.needs
     \/ /\ step.op = "message.read"
        /\ step.row \in MessageNames /\ step.row \in step.needs /\ step.by # Sender(step.row, a, b)

\* A call of a program that chats as a with b, or the other way round.
ChatStep(step, a, b) ==
  /\ Conversation \in step.save =>
       step.op = "createConversation" /\ step.by = a /\ step.on = b /\ step.expect = {201}
  /\ \A n \in MessageNames \cap step.save :
       /\ step.op = "message.send" /\ step.by = Sender(n, a, b) /\ step.expect = {200}
       /\ step.row = Conversation /\ Conversation \in step.needs
  /\ \A f \in step.find : f[1] \notin ChatNames
  /\ step.socket => Acked(step, a, b)

LEMMA SilentChats ==
  ASSUME NEW step, Silent(step), NEW a, NEW b
  PROVE  ChatStep(step, a, b)
BY DEF Silent, ChatStep, ChatNames

\* flows 8 and 9: bob opens the conversation, sends the message, and alice reads it.
LEMMA ChatFlows ==
  /\ \A step \in ToSet(flow08_chat) : ChatStep(step, Bob, Alice) /\ step.op # "blockUser" /\ ~step.socket
  /\ \A step \in ToSet(flow09_websocket) : ChatStep(step, Bob, Alice) /\ step.op # "blockUser"
<1>1. \A step \in ToSet(flow08_chat) : ChatStep(step, Bob, Alice) /\ step.op # "blockUser" /\ ~step.socket
  <2>1. ASSUME NEW i \in 1 .. 10, i # 2
        PROVE  Plain(flow08_chat[i])
    BY <2>1, PlainCalled, PlainRefined, OtherNames DEF flow08_chat, Noted
  <2>2. /\ flow08_chat[2].save = {Conversation} /\ flow08_chat[2].find = {} /\ ~flow08_chat[2].socket
        /\ flow08_chat[2].op = "createConversation" /\ flow08_chat[2].by = Bob /\ flow08_chat[2].on = Alice
        /\ flow08_chat[2].expect = {201}
    BY DEF flow08_chat, Keep, Offer, On, Call
  <2>3. Conversation \notin MessageNames
    BY DEF MessageNames, Message, Even, Odd, Conversation
  <2>4. ChatStep(flow08_chat[2], Bob, Alice)
    BY <2>2, <2>3 DEF ChatStep
  <2>5. DOMAIN flow08_chat = 1 .. 10
    BY DEF flow08_chat
  <2>6. ASSUME NEW i \in 1 .. 10
        PROVE  ChatStep(flow08_chat[i], Bob, Alice) /\ flow08_chat[i].op # "blockUser" /\ ~flow08_chat[i].socket
    <3>1. CASE i = 2
      BY <2>2, <2>4, <3>1
    <3>2. CASE i # 2
      <4>1. Plain(flow08_chat[i]) /\ Silent(flow08_chat[i])
        BY <2>1, <3>2, SilentCalled
      <4> QED BY <4>1, SilentChats DEF Plain, Noted
    <3> QED BY <3>1, <3>2
  <2> QED BY <2>5, <2>6 DEF ToSet
<1>2. \A step \in ToSet(flow09_websocket) : ChatStep(step, Bob, Alice) /\ step.op # "blockUser"
  <2>1. \A i \in 1 .. 2 : /\ flow09_websocket[i].save \in {{BobSocket}, {Sockets}} /\ flow09_websocket[i].find = {}
                          /\ flow09_websocket[i].op = "connect" /\ flow09_websocket[i].by \in {Alice, Bob}
                          /\ flow09_websocket[i].expect = {200}
    <3>1. /\ flow09_websocket[1].save = {BobSocket} /\ flow09_websocket[1].find = {}
          /\ flow09_websocket[1].op = "connect" /\ flow09_websocket[1].by = Bob
          /\ flow09_websocket[1].expect = {200}
      BY DEF flow09_websocket, Event, Needs, Keep, Call
    <3>2. /\ flow09_websocket[2].save = {Sockets} /\ flow09_websocket[2].find = {}
          /\ flow09_websocket[2].op = "connect" /\ flow09_websocket[2].by = Alice
          /\ flow09_websocket[2].expect = {200}
      BY DEF flow09_websocket, Event, Needs, Keep, Call
    <3>3. \A i \in 1 .. 2 : i = 1 \/ i = 2
      OBVIOUS
    <3> QED BY <3>1, <3>2, <3>3
  <2>2. \A i \in 3 .. 5 : /\ flow09_websocket[i].save = (IF i = 5 THEN {Message} ELSE {})
                          /\ flow09_websocket[i].find = {}
                          /\ flow09_websocket[i].op = (IF i = 5 THEN "message.send" ELSE "conversation.join")
                          /\ flow09_websocket[i].by = (IF i = 4 THEN Alice ELSE Bob)
                          /\ flow09_websocket[i].expect = {200} /\ flow09_websocket[i].row = Conversation
                          /\ Conversation \in flow09_websocket[i].needs
    <3>1. /\ flow09_websocket[3].save = {} /\ flow09_websocket[3].find = {}
          /\ flow09_websocket[3].op = "conversation.join" /\ flow09_websocket[3].by = Bob
          /\ flow09_websocket[3].expect = {200} /\ flow09_websocket[3].row = Conversation
          /\ Conversation \in flow09_websocket[3].needs
      BY DEF flow09_websocket, Event, Needs, Keep, Call, Val, At
    <3>2. /\ flow09_websocket[4].save = {} /\ flow09_websocket[4].find = {}
          /\ flow09_websocket[4].op = "conversation.join" /\ flow09_websocket[4].by = Alice
          /\ flow09_websocket[4].expect = {200} /\ flow09_websocket[4].row = Conversation
          /\ Conversation \in flow09_websocket[4].needs
      BY DEF flow09_websocket, Event, Needs, Keep, Call, Val, At
    <3>3. /\ flow09_websocket[5].save = {Message} /\ flow09_websocket[5].find = {}
          /\ flow09_websocket[5].op = "message.send" /\ flow09_websocket[5].by = Bob
          /\ flow09_websocket[5].expect = {200} /\ flow09_websocket[5].row = Conversation
          /\ Conversation \in flow09_websocket[5].needs
      BY DEF flow09_websocket, Event, Needs, Keep, Call, Val, At
    <3> SUFFICES ASSUME NEW i \in 3 .. 5
                 PROVE  /\ flow09_websocket[i].save = (IF i = 5 THEN {Message} ELSE {})
                        /\ flow09_websocket[i].find = {}
                        /\ flow09_websocket[i].op = (IF i = 5 THEN "message.send" ELSE "conversation.join")
                        /\ flow09_websocket[i].by = (IF i = 4 THEN Alice ELSE Bob)
                        /\ flow09_websocket[i].expect = {200} /\ flow09_websocket[i].row = Conversation
                        /\ Conversation \in flow09_websocket[i].needs
      OBVIOUS
    <3>4. CASE i = 3
      BY <3>1, <3>4
    <3>5. CASE i = 4
      BY <3>2, <3>5
    <3>6. CASE i = 5
      BY <3>3, <3>6
    <3> QED BY <3>4, <3>5, <3>6
  <2>3. /\ flow09_websocket[6].save = {} /\ flow09_websocket[6].find = {}
        /\ flow09_websocket[6].op = "message.read" /\ flow09_websocket[6].by = Alice
        /\ flow09_websocket[6].expect = {200} /\ flow09_websocket[6].row = Message
        /\ Message \in flow09_websocket[6].needs
    BY DEF flow09_websocket, Event, Needs, Keep, Call, Val, At
  <2>4. Message # Odd /\ Alice # Bob /\ Conversation \notin MessageNames
    BY DEF MessageNames, Message, Even, Odd, Conversation, Alice, Bob
  <2>5. \A i \in 1 .. 2 : ChatStep(flow09_websocket[i], Bob, Alice)
    BY <2>1, OtherNames DEF ChatStep, Acked, KeptNames, ChatNames
  <2>6. \A i \in 3 .. 5 : ChatStep(flow09_websocket[i], Bob, Alice)
    BY <2>2, <2>4 DEF ChatStep, Acked, Sender, MessageNames
  <2>7. ChatStep(flow09_websocket[6], Bob, Alice)
    BY <2>3, <2>4 DEF ChatStep, Acked, Sender, MessageNames
  <2>8. DOMAIN flow09_websocket = 1 .. 6
    BY DEF flow09_websocket
  <2>9. ASSUME NEW i \in 1 .. 6
        PROVE  ChatStep(flow09_websocket[i], Bob, Alice) /\ flow09_websocket[i].op # "blockUser"
    <3>1. i \in 1 .. 2 \/ i \in 3 .. 5 \/ i = 6
      OBVIOUS
    <3> QED BY <2>1, <2>2, <2>3, <2>5, <2>6, <2>7, <3>1
  <2> QED BY <2>8, <2>9 DEF ToSet
<1> QED BY <1>1, <1>2

\* The calls up to position n of a script, and those after it.
Upto(s, n) == {s[i] : i \in 1 .. n}
After(s, n) == {s[i] : i \in n + 1 .. Len(s)}

LEMMA Extended ==
  ASSUME NEW s, NEW t, Script(s), Script(t), NEW n \in Nat, n <= Len(s)
  PROVE  /\ Script(s \o t) /\ n <= Len(s \o t) /\ Upto(s \o t, n) = Upto(s, n)
         /\ After(s \o t, n) = After(s, n) \cup ToSet(t)
<1>1. /\ Script(s \o t) /\ Len(s \o t) = Len(s) + Len(t) /\ Len(s) \in Nat /\ Len(t) \in Nat
      /\ PartOf(s, s \o t, 0) /\ PartOf(t, s \o t, Len(s))
  BY ConcatAt
<1>2. n <= Len(s \o t) /\ DOMAIN t = 1 .. Len(t)
  BY <1>1, ScriptLen
<1>3. \A i \in 1 .. n : (s \o t)[i] = s[i]
  BY <1>1 DEF PartOf
<1>4. ASSUME NEW i \in n + 1 .. Len(s \o t)
      PROVE  (s \o t)[i] \in After(s, n) \cup ToSet(t)
  <2>1. CASE i <= Len(s)
    BY <1>1, <2>1 DEF PartOf, After
  <2>2. CASE i > Len(s)
    <3>1. i - Len(s) \in 1 .. Len(t) /\ i = Len(s) + (i - Len(s))
      BY <1>1, <2>2
    <3> QED BY <1>1, <1>2, <3>1 DEF PartOf, ToSet
  <2> QED BY <1>1, <2>1, <2>2
<1>5. \A i \in n + 1 .. Len(s) : s[i] \in After(s \o t, n)
  BY <1>1 DEF PartOf, After
<1>6. \A i \in 1 .. Len(t) : t[i] \in After(s \o t, n)
  <2>1. \A i \in 1 .. Len(t) : Len(s) + i \in n + 1 .. Len(s \o t)
    BY <1>1
  <2> QED BY <1>1, <2>1 DEF PartOf, After
<1>7. Upto(s \o t, n) = Upto(s, n)
  BY <1>3 DEF Upto
<1>8. After(s \o t, n) = After(s, n) \cup ToSet(t)
  BY <1>2, <1>4, <1>5, <1>6 DEF After, ToSet
<1> QED BY <1>1, <1>2, <1>7, <1>8

LEMMA WholeScript ==
  ASSUME NEW s, Script(s)
  PROVE  Len(s) \in Nat /\ Upto(s, Len(s)) = ToSet(s) /\ After(s, Len(s)) = {}
BY ScriptLen DEF Upto, After, ToSet

\* Registering alice and bob; everything before the blocks; the flows after.
Early == flow01_anonymous \o flow02_registerUsers
UpToChat ==
  Early \o flow03_adminBootstrap \o flow04_tokenLifecycle
  \o flow05_passwordReset \o flow06_uploadsAndProfile \o flow07_seller \o flow08_buyerAndChat
  \o flow09_websocket
Verify(p) == Critical(Keep(Val(On(Anyone("verifyRegistrationOtp", {201}), p), DevCode), Session(p)))

LEMMA FlowScripts ==
  /\ Script(flow01_anonymous) /\ Script(flow02_registerUsers) /\ Script(flow03_adminBootstrap)
  /\ Script(flow04_tokenLifecycle) /\ Script(flow05_passwordReset) /\ Script(flow06_uploadsAndProfile)
  /\ Script(flow07_seller) /\ Script(flow08_buyerAndChat) /\ Script(flow09_websocket)
  /\ Script(flow10_blocksAndSafety) /\ Script(flow11_ratings) /\ Script(flow12_reportsAndAdmin)
  /\ Script(flow13_negativeChecks)
<1>1. Script(flow02_registerUsers)
  BY registerUserCalls, HarmlessConcat DEF flow02_registerUsers, Harmless
<1>2. Script(flow06_uploadsAndProfile)
  BY UploadCalls, flow06, HarmlessConcat DEF flow06_uploadsAndProfile, UploadAvatar, UploadImage, Harmless
<1>3. Script(flow07_seller) /\ Script(flow08_buyerAndChat)
  BY flow07a, flow07b, flow08a, flow08b, HarmlessConcat DEF flow07_seller, flow08_buyerAndChat, Harmless
<1> QED BY <1>1, <1>2, <1>3, flow01, flow03, flow04, flow05, flow09, flow10, flow11, flow12, flow13 DEF Harmless

LEMMA ComposedFlows ==
  /\ AllPlain(flow02_registerUsers) /\ {Verify(Alice), Verify(Bob)} \subseteq ToSet(flow02_registerUsers)
  /\ AllPlain(flow06_uploadsAndProfile)
  /\ \A step \in ToSet(flow07_seller) : Silent(step) /\ step.op # "blockUser"
  /\ \A step \in ToSet(flow08_buyerAndChat) : ChatStep(step, Bob, Alice) /\ step.op # "blockUser" /\ ~step.socket
<1>1. AllPlain(flow02_registerUsers) /\ {Verify(Alice), Verify(Bob)} \subseteq ToSet(flow02_registerUsers)
  <2>1. ASSUME NEW p, NEW withResend
        PROVE  Script(registerUser(p, withResend)) /\ Verify(p) \in ToSet(registerUser(p, withResend))
    <3> DEFINE first == << Critical(On(Anyone("register", {201}), p)) >>
               resend == IF withResend THEN << On(Anyone("resendRegistrationOtp", {201}), p) >> ELSE << >>
    <3>1. registerUser(p, withResend) = (first \o resend) \o << Verify(p) >>
      BY DEF registerUser, Verify
    <3>2. Script(first) /\ Script(<< Verify(p) >>) /\ Verify(p) \in ToSet(<< Verify(p) >>)
      BY DEF Script, ToSet
    <3>3. Script(resend)
      <4>1. CASE withResend
        BY <4>1 DEF Script, ToSet
      <4>2. CASE ~withResend
        <5>1. resend = << >>
          BY <4>2
        <5>2. resend \in Seq({})
          BY <5>1
        <5> QED BY <5>2, SeqIsScript
      <4> QED BY <4>1, <4>2
    <3> HIDE DEF first, resend
    <3> QED BY <3>1, <3>2, <3>3, ConcatSteps
  <2> PICK f, g : f = registerUser(Alice, TRUE) /\ g = registerUser(Bob, FALSE)
    OBVIOUS
  <2>2. Script(f) /\ Verify(Alice) \in ToSet(f) /\ AllPlain(f)
    BY <2>1, PlainRegister, OtherNames
  <2>3. Script(g) /\ Verify(Bob) \in ToSet(g) /\ AllPlain(g)
    BY <2>1, PlainRegister, OtherNames
  <2>4. flow02_registerUsers = f \o g
    BY DEF flow02_registerUsers
  <2>5. ToSet(flow02_registerUsers) = ToSet(f) \cup ToSet(g)
    BY <2>2, <2>3, <2>4, ConcatSteps
  <2> QED BY <2>2, <2>3, <2>5 DEF AllPlain
<1>2. AllPlain(flow06_uploadsAndProfile)
  <2>1. AllPlain(UploadAvatar) /\ AllPlain(UploadImage) /\ Script(UploadAvatar) /\ Script(UploadImage)
    BY PlainUpload, UploadCalls, OtherNames DEF UploadAvatar, UploadImage, Harmless
  <2>2. AllPlain(flow06_profile) /\ Script(flow06_profile)
    BY PlainFlows, flow06 DEF Harmless
  <2> QED BY <2>1, <2>2, ConcatSteps DEF flow06_uploadsAndProfile, AllPlain
<1>3. \A step \in ToSet(flow07_seller) : Silent(step) /\ step.op # "blockUser"
  <2>1. Script(flow07_category) /\ Script(flow07_products) /\ AllPlain(flow07_category) /\ AllSilent(flow07_products)
    BY flow07a, flow07b, PlainFlows, SilentFlows DEF Harmless
  <2>2. \A i \in 1 .. 8 : flow07_products[i].op # "blockUser"
    <3>1. flow07_products[1].op = "createProduct" /\ flow07_products[2].op = "createProduct"
      BY DEF flow07_products, CreateProduct, Critical, Keep, Picture, Val, Call
    <3>2. flow07_products[3].op = "updateProduct" /\ flow07_products[4].op = "updateProductStatus"
      BY DEF flow07_products, Val, At, Call
    <3>3. \A i \in 6 .. 8 : flow07_products[i].op = "listMyProducts"
      BY DEF flow07_products, Call
    <3>5. flow07_products[5].op = "deleteProduct"
      BY DEF flow07_products, At, Call
    <3>4. \A i \in 1 .. 8 : i \in {1, 2, 3, 4, 5} \/ i \in 6 .. 8
      OBVIOUS
    <3> QED BY <3>1, <3>2, <3>3, <3>4, <3>5
  <2>3. \A step \in ToSet(flow07_products) : step.op # "blockUser"
    BY <2>2 DEF ToSet, flow07_products, CreateProduct
  <2> QED BY <2>1, <2>3, ConcatSteps, SilentCalled DEF flow07_seller, AllPlain, AllSilent, Plain, Noted
<1>4. \A step \in ToSet(flow08_buyerAndChat) : ChatStep(step, Bob, Alice) /\ step.op # "blockUser" /\ ~step.socket
  <2>1. Script(flow08_buyer) /\ Script(flow08_chat) /\ AllPlain(flow08_buyer)
    BY flow08a, flow08b, PlainFlows DEF Harmless
  <2>2. \A step \in ToSet(flow08_buyer) : ChatStep(step, Bob, Alice) /\ step.op # "blockUser" /\ ~step.socket
    BY <2>1, SilentCalled, SilentChats DEF AllPlain, Plain, Noted
  <2> QED BY <2>1, <2>2, ConcatSteps, ChatFlows DEF flow08_buyerAndChat
<1> QED BY <1>1, <1>2, <1>3, <1>4

\* Only bob blocks somebody.
BlocksAsBob(step) == {"op", "by"} \subseteq DOMAIN step /\ (step.op = "blockUser" => step.by = Bob)

LEMMA BlockCalls ==
  /\ \A by, op, expect : op # "blockUser" \/ by = Bob => BlocksAsBob(Call(by, op, expect))
  /\ \A op, expect : op # "blockUser" => BlocksAsBob(Anyone(op, expect))
  /\ \A step, x : BlocksAsBob(step) => BlocksAsBob(On(step, x))
  /\ \A step, x : BlocksAsBob(step) => BlocksAsBob(At(step, x))
  /\ \A step, x : BlocksAsBob(step) => BlocksAsBob(Val(step, x))
  /\ \A step, x : BlocksAsBob(step) => BlocksAsBob(Offer(step, x))
BY DEF BlocksAsBob, Call, Anyone, On, At, Val, Offer

LEMMA BlockFlows ==
  /\ \A step \in ToSet(flow10_blocksAndSafety) : BlocksAsBob(step)
  /\ \A step \in ToSet(flow12_reportsAndAdmin) : BlocksAsBob(step)
  /\ \A step \in ToSet(flow13_negativeChecks) : BlocksAsBob(step)
<1>1. \A step \in ToSet(flow10_blocksAndSafety) : BlocksAsBob(step)
  <2>1. \A i \in 1 .. 5 : BlocksAsBob(flow10_blocksAndSafety[i])
    BY BlockCalls DEF flow10_blocksAndSafety
  <2> QED BY <2>1 DEF ToSet, flow10_blocksAndSafety
<1>2. \A step \in ToSet(flow12_reportsAndAdmin) : BlocksAsBob(step)
  <2>1. \A i \in 1 .. 9 : BlocksAsBob(flow12_reportsAndAdmin[i])
    BY BlockCalls DEF flow12_reportsAndAdmin
  <2> QED BY <2>1 DEF ToSet, flow12_reportsAndAdmin
<1>3. \A step \in ToSet(flow13_negativeChecks) : BlocksAsBob(step)
  <2>1. \A i \in 1 .. 9 : BlocksAsBob(flow13_negativeChecks[i])
    BY BlockCalls DEF flow13_negativeChecks
  <2> QED BY <2>1 DEF ToSet, flow13_negativeChecks
<1> QED BY <1>1, <1>2, <1>3

\* Where a call of the simulator is, and what kind of call it is.
LEMMA MainChat ==
  /\ Script(MainScript) /\ Len(Early) \in Nat /\ Len(UpToChat) \in Nat
  /\ Len(Early) <= Len(UpToChat) /\ Len(UpToChat) <= Len(MainScript)
  /\ \A step \in ToSet(MainScript) : ChatStep(step, Bob, Alice)
  /\ \A step \in Upto(MainScript, Len(Early)) : ~step.socket
  /\ {Verify(Alice), Verify(Bob)} \subseteq Upto(MainScript, Len(Early))
  /\ \A step \in Upto(MainScript, Len(UpToChat)) : step.op # "blockUser"
  /\ \A step \in After(MainScript, Len(UpToChat)) : ~step.socket /\ (step.op = "blockUser" => step.by = Bob)
<1> DEFINE m3 == Early \o flow03_adminBootstrap
           m4 == m3 \o flow04_tokenLifecycle
           m5 == m4 \o flow05_passwordReset
           m6 == m5 \o flow06_uploadsAndProfile
           m7 == m6 \o flow07_seller
           m8 == m7 \o flow08_buyerAndChat
           m10 == UpToChat \o flow10_blocksAndSafety
           m11 == m10 \o flow11_ratings
           m12 == m11 \o flow12_reportsAndAdmin
           n == Len(Early)
           k == Len(UpToChat)
<1>1. UpToChat = m8 \o flow09_websocket /\ MainScript = m12 \o flow13_negativeChecks
  BY DEF UpToChat, MainScript, Early
<1>2. /\ Script(Early) /\ n \in Nat /\ Upto(Early, n) = ToSet(Early) /\ After(Early, n) = {}
      /\ ToSet(Early) = ToSet(flow01_anonymous) \cup ToSet(flow02_registerUsers)
  BY FlowScripts, ConcatSteps, WholeScript DEF Early
<1> HIDE DEF n, k, m3, m4, m5, m6, m7, m8, m10, m11, m12
<1>3. /\ Script(m3) /\ n <= Len(m3) /\ Upto(m3, n) = ToSet(Early) /\ ToSet(m3) = ToSet(Early) \cup ToSet(flow03_adminBootstrap)
  <2>1. Script(Early \o flow03_adminBootstrap) /\ n <= Len(Early \o flow03_adminBootstrap)
        /\ Upto(Early \o flow03_adminBootstrap, n) = ToSet(Early)
    BY <1>2, FlowScripts, Extended DEF n
  <2> QED BY <1>2, <2>1, FlowScripts, ConcatSteps DEF m3
<1>4. /\ Script(m4) /\ n <= Len(m4) /\ Upto(m4, n) = ToSet(Early) /\ ToSet(m4) = ToSet(m3) \cup ToSet(flow04_tokenLifecycle)
  <2>1. Script(m3 \o flow04_tokenLifecycle) /\ n <= Len(m3 \o flow04_tokenLifecycle) /\ Upto(m3 \o flow04_tokenLifecycle, n) = ToSet(Early)
    BY <1>2, <1>3, FlowScripts, Extended
  <2> QED BY <1>3, <2>1, FlowScripts, ConcatSteps DEF m4
<1>5. /\ Script(m5) /\ n <= Len(m5) /\ Upto(m5, n) = ToSet(Early) /\ ToSet(m5) = ToSet(m4) \cup ToSet(flow05_passwordReset)
  <2>1. Script(m4 \o flow05_passwordReset) /\ n <= Len(m4 \o flow05_passwordReset) /\ Upto(m4 \o flow05_passwordReset, n) = ToSet(Early)
    BY <1>2, <1>4, FlowScripts, Extended
  <2> QED BY <1>4, <2>1, FlowScripts, ConcatSteps DEF m5
<1>6. /\ Script(m6) /\ n <= Len(m6) /\ Upto(m6, n) = ToSet(Early) /\ ToSet(m6) = ToSet(m5) \cup ToSet(flow06_uploadsAndProfile)
  <2>1. Script(m5 \o flow06_uploadsAndProfile) /\ n <= Len(m5 \o flow06_uploadsAndProfile) /\ Upto(m5 \o flow06_uploadsAndProfile, n) = ToSet(Early)
    BY <1>2, <1>5, FlowScripts, Extended
  <2> QED BY <1>5, <2>1, FlowScripts, ConcatSteps DEF m6
<1>7. /\ Script(m7) /\ n <= Len(m7) /\ Upto(m7, n) = ToSet(Early) /\ ToSet(m7) = ToSet(m6) \cup ToSet(flow07_seller)
  <2>1. Script(m6 \o flow07_seller) /\ n <= Len(m6 \o flow07_seller) /\ Upto(m6 \o flow07_seller, n) = ToSet(Early)
    BY <1>2, <1>6, FlowScripts, Extended
  <2> QED BY <1>6, <2>1, FlowScripts, ConcatSteps DEF m7
<1>8. /\ Script(m8) /\ n <= Len(m8) /\ Upto(m8, n) = ToSet(Early) /\ ToSet(m8) = ToSet(m7) \cup ToSet(flow08_buyerAndChat)
  <2>1. Script(m7 \o flow08_buyerAndChat) /\ n <= Len(m7 \o flow08_buyerAndChat) /\ Upto(m7 \o flow08_buyerAndChat, n) = ToSet(Early)
    BY <1>2, <1>7, FlowScripts, Extended
  <2> QED BY <1>7, <2>1, FlowScripts, ConcatSteps DEF m8
<1>9. /\ Script(UpToChat) /\ n <= k /\ k \in Nat /\ Upto(UpToChat, n) = ToSet(Early)
      /\ ToSet(UpToChat) = ToSet(m8) \cup ToSet(flow09_websocket)
      /\ Upto(UpToChat, k) = ToSet(UpToChat) /\ After(UpToChat, k) = {}
  <2>1. Script(UpToChat) /\ n <= Len(UpToChat) /\ Upto(UpToChat, n) = ToSet(Early)
    BY <1>1, <1>2, <1>8, FlowScripts, Extended
  <2> QED BY <1>1, <1>8, <2>1, FlowScripts, ConcatSteps, WholeScript DEF k
<1>10. /\ Script(m10) /\ n <= Len(m10) /\ k <= Len(m10) /\ Upto(m10, n) = ToSet(Early)
       /\ Upto(m10, k) = ToSet(UpToChat) /\ After(m10, k) = ToSet(flow10_blocksAndSafety)
       /\ ToSet(m10) = ToSet(UpToChat) \cup ToSet(flow10_blocksAndSafety)
  <2>1. /\ Script(UpToChat \o flow10_blocksAndSafety) /\ n <= Len(UpToChat \o flow10_blocksAndSafety)
        /\ Upto(UpToChat \o flow10_blocksAndSafety, n) = ToSet(Early)
    BY <1>2, <1>9, FlowScripts, Extended DEF k
  <2>2. /\ k <= Len(UpToChat \o flow10_blocksAndSafety)
        /\ Upto(UpToChat \o flow10_blocksAndSafety, k) = ToSet(UpToChat)
        /\ After(UpToChat \o flow10_blocksAndSafety, k) = ToSet(flow10_blocksAndSafety)
    <3>1. k <= Len(UpToChat)
      BY <1>9 DEF k
    <3>2. After(UpToChat \o flow10_blocksAndSafety, k) = After(UpToChat, k) \cup ToSet(flow10_blocksAndSafety)
      BY <1>9, <3>1, FlowScripts, Extended
    <3> QED BY <1>9, <3>1, <3>2, FlowScripts, Extended
  <2> QED BY <1>9, <2>1, <2>2, FlowScripts, ConcatSteps DEF m10
<1>11. /\ Script(m11) /\ n <= Len(m11) /\ k <= Len(m11) /\ Upto(m11, n) = ToSet(Early)
       /\ Upto(m11, k) = ToSet(UpToChat) /\ After(m11, k) = After(m10, k) \cup ToSet(flow11_ratings)
       /\ ToSet(m11) = ToSet(m10) \cup ToSet(flow11_ratings)
  <2>1. Script(m10 \o flow11_ratings) /\ n <= Len(m10 \o flow11_ratings) /\ Upto(m10 \o flow11_ratings, n) = ToSet(Early)
    BY <1>2, <1>10, FlowScripts, Extended
  <2>2. /\ k <= Len(m10 \o flow11_ratings) /\ Upto(m10 \o flow11_ratings, k) = ToSet(UpToChat)
        /\ After(m10 \o flow11_ratings, k) = After(m10, k) \cup ToSet(flow11_ratings)
    BY <1>9, <1>10, FlowScripts, Extended
  <2> QED BY <1>10, <2>1, <2>2, FlowScripts, ConcatSteps DEF m11
<1>12. /\ Script(m12) /\ n <= Len(m12) /\ k <= Len(m12) /\ Upto(m12, n) = ToSet(Early)
       /\ Upto(m12, k) = ToSet(UpToChat) /\ After(m12, k) = After(m11, k) \cup ToSet(flow12_reportsAndAdmin)
       /\ ToSet(m12) = ToSet(m11) \cup ToSet(flow12_reportsAndAdmin)
  <2>1. Script(m11 \o flow12_reportsAndAdmin) /\ n <= Len(m11 \o flow12_reportsAndAdmin) /\ Upto(m11 \o flow12_reportsAndAdmin, n) = ToSet(Early)
    BY <1>2, <1>11, FlowScripts, Extended
  <2>2. /\ k <= Len(m11 \o flow12_reportsAndAdmin) /\ Upto(m11 \o flow12_reportsAndAdmin, k) = ToSet(UpToChat)
        /\ After(m11 \o flow12_reportsAndAdmin, k) = After(m11, k) \cup ToSet(flow12_reportsAndAdmin)
    BY <1>9, <1>11, FlowScripts, Extended
  <2> QED BY <1>11, <2>1, <2>2, FlowScripts, ConcatSteps DEF m12
<1>13. /\ Script(MainScript) /\ k <= Len(MainScript) /\ Upto(MainScript, n) = ToSet(Early)
       /\ Upto(MainScript, k) = ToSet(UpToChat)
       /\ After(MainScript, k) = After(m12, k) \cup ToSet(flow13_negativeChecks)
       /\ ToSet(MainScript) = ToSet(m12) \cup ToSet(flow13_negativeChecks)
  <2>1. Script(MainScript) /\ Upto(MainScript, n) = ToSet(Early)
    BY <1>1, <1>2, <1>12, FlowScripts, Extended
  <2>2. /\ k <= Len(MainScript) /\ Upto(MainScript, k) = ToSet(UpToChat)
        /\ After(MainScript, k) = After(m12, k) \cup ToSet(flow13_negativeChecks)
    BY <1>1, <1>9, <1>12, FlowScripts, Extended
  <2> QED BY <1>1, <1>12, <2>1, <2>2, FlowScripts, ConcatSteps
<1>14. \A step : Plain(step) => ChatStep(step, Bob, Alice) /\ ~step.socket /\ step.op # "blockUser"
  BY SilentCalled, SilentChats DEF Plain, Noted
<1>15. \A step : Silent(step) => ChatStep(step, Bob, Alice) /\ ~step.socket
  BY SilentChats DEF Silent
<1>16. AllPlain(Early)
  BY <1>2, PlainFlows, ComposedFlows DEF AllPlain
<1>17. \A step \in ToSet(UpToChat) : ChatStep(step, Bob, Alice) /\ step.op # "blockUser"
  <2>1. \A step \in ToSet(m6) : ChatStep(step, Bob, Alice) /\ step.op # "blockUser"
    BY <1>3, <1>4, <1>5, <1>6, <1>14, <1>16, PlainFlows, ComposedFlows DEF AllPlain
  <2> QED BY <1>7, <1>8, <1>9, <1>15, <2>1, ComposedFlows, ChatFlows
<1>18. \A step \in After(MainScript, k) : ChatStep(step, Bob, Alice) /\ ~step.socket
  BY <1>10, <1>11, <1>12, <1>13, <1>14, <1>15, PlainFlows, SilentFlows DEF AllPlain, AllSilent
<1>19. \A step \in ToSet(MainScript) : ChatStep(step, Bob, Alice)
  BY <1>10, <1>11, <1>12, <1>13, <1>14, <1>15, <1>17, PlainFlows, SilentFlows DEF AllPlain, AllSilent
<1>20. {Verify(Alice), Verify(Bob)} \subseteq ToSet(Early)
  BY <1>2, ComposedFlows
<1>21. \A step \in After(MainScript, k) : step.op = "blockUser" => step.by = Bob
  BY <1>10, <1>11, <1>12, <1>13, <1>14, PlainFlows, BlockFlows DEF AllPlain, BlocksAsBob
<1> QED BY <1>2, <1>9, <1>13, <1>14, <1>16, <1>17, <1>18, <1>19, <1>20, <1>21 DEF n, k, AllPlain

\* What a pair of virtual users does.
LEMMA PairChat ==
  ASSUME NEW a, NEW b, a # b
  PROVE  /\ Script(runConcurrentChatPair(a, b))
         /\ \A step \in ToSet(runConcurrentChatPair(a, b)) : ChatStep(step, a, b) /\ step.op # "blockUser"
<1> DEFINE entry == << Critical(Keep(On(Call(a, "createConversation", {201}), b), Conversation)),
                       Call(a, "listConversations", {200}),
                       At(Call(a, "listMessages", {200}), Conversation),
                       Event(Critical(Call(a, "connect", {200}))),
                       Event(Critical(Call(b, "connect", {200}))),
                       Event(Critical(At(Call(a, "conversation.join", {200}), Conversation))),
                       Event(Critical(At(Call(b, "conversation.join", {200}), Conversation))) >>
<1>0. Conversation \notin MessageNames /\ Even # Odd /\ {Even, Odd} \subseteq MessageNames
  BY DEF MessageNames, Message, Even, Odd, Conversation
<1>1. Script(entry) /\ DOMAIN entry = 1 .. 7
  BY DEF Script, ToSet
<1>2. ChatStep(entry[1], a, b) /\ entry[1].op # "blockUser"
  <2>1. /\ entry[1].save = {Conversation} /\ entry[1].find = {} /\ ~entry[1].socket
        /\ entry[1].op = "createConversation" /\ entry[1].by = a /\ entry[1].on = b /\ entry[1].expect = {201}
    BY DEF Critical, Keep, On, Call
  <2> QED BY <1>0, <2>1 DEF ChatStep
<1>3. \A i \in 2 .. 3 : ChatStep(entry[i], a, b) /\ entry[i].op # "blockUser"
  <2>1. \A i \in 2 .. 3 : Plain(entry[i])
    BY PlainCalled, PlainRefined DEF Noted
  <2> QED BY <2>1, SilentCalled, SilentChats DEF Plain, Noted
<1>4. \A i \in 4 .. 5 : ChatStep(entry[i], a, b) /\ entry[i].op # "blockUser"
  <2>1. \A i \in 4 .. 5 : /\ entry[i].save = {} /\ entry[i].find = {} /\ entry[i].op = "connect"
                          /\ entry[i].by \in {a, b} /\ entry[i].expect = {200}
    <3>1. /\ entry[4].save = {} /\ entry[4].find = {} /\ entry[4].op = "connect"
          /\ entry[4].by = a /\ entry[4].expect = {200}
      BY DEF Critical, Event, Call
    <3>2. /\ entry[5].save = {} /\ entry[5].find = {} /\ entry[5].op = "connect"
          /\ entry[5].by = b /\ entry[5].expect = {200}
      BY DEF Critical, Event, Call
    <3>3. \A i \in 4 .. 5 : i = 4 \/ i = 5
      OBVIOUS
    <3> HIDE DEF entry
    <3> QED BY <3>1, <3>2, <3>3
  <2> QED BY <2>1 DEF ChatStep, Acked
<1>5. \A i \in 6 .. 7 : ChatStep(entry[i], a, b) /\ entry[i].op # "blockUser"
  <2>1. \A i \in 6 .. 7 : /\ entry[i].save = {} /\ entry[i].find = {} /\ entry[i].op = "conversation.join"
                          /\ entry[i].by \in {a, b} /\ entry[i].expect = {200} /\ entry[i].row = Conversation
                          /\ Conversation \in entry[i].needs
    <3>1. /\ entry[6].save = {} /\ entry[6].find = {} /\ entry[6].op = "conversation.join" /\ entry[6].by = a
          /\ entry[6].expect = {200} /\ entry[6].row = Conversation /\ Conversation \in entry[6].needs
      BY DEF Critical, Event, Call, At
    <3>2. /\ entry[7].save = {} /\ entry[7].find = {} /\ entry[7].op = "conversation.join" /\ entry[7].by = b
          /\ entry[7].expect = {200} /\ entry[7].row = Conversation /\ Conversation \in entry[7].needs
      BY DEF Critical, Event, Call, At
    <3>3. \A i \in 6 .. 7 : i = 6 \/ i = 7
      OBVIOUS
    <3> HIDE DEF entry
    <3> QED BY <3>1, <3>2, <3>3
  <2> QED BY <2>1 DEF ChatStep, Acked
<1>6. \A step \in ToSet(entry) : ChatStep(step, a, b) /\ step.op # "blockUser"
  <2>1. \A i \in 1 .. 7 : i = 1 \/ i \in 2 .. 3 \/ i \in 4 .. 5 \/ i \in 6 .. 7
    OBVIOUS
  <2>2. \A i \in 1 .. 7 : ChatStep(entry[i], a, b) /\ entry[i].op # "blockUser"
    <3> HIDE DEF entry
    <3> QED BY <1>2, <1>3, <1>4, <1>5, <2>1
  <2> HIDE DEF entry
  <2> QED BY <1>1, <2>2 DEF ToSet
<1> HIDE DEF entry
<1>7. ASSUME NEW i \in {0, 1}
      PROVE  /\ Script(PairMessage(a, b, i))
             /\ \A step \in ToSet(PairMessage(a, b, i)) : ChatStep(step, a, b) /\ step.op # "blockUser"
  <2>1. PICK from, to, name, key :
          /\ PairMessage(a, b, i) =
               << Event(Critical(Keep(Val(At(Call(from, "message.send", {200}), Conversation), key), name))),
                  Event(Critical(At(Call(to, "message.read", {200}), name))) >>
          /\ name \in {Even, Odd} /\ from = Sender(name, a, b) /\ to \in {a, b} \ {from}
    <3>1. CASE i = 0
      <4>1. 0 % 2 = 0
        OBVIOUS
      <4>2. PairMessage(a, b, 0) =
              << Event(Critical(Keep(Val(At(Call(a, "message.send", {200}), Conversation), "fromA"), Even))),
                 Event(Critical(At(Call(b, "message.read", {200}), Even))) >>
        BY <4>1, Zenon DEF PairMessage, Even
      <4> QED BY <1>0, <3>1, <4>2 DEF Sender
    <3>2. CASE i = 1
      <4>1. 1 % 2 # 0
        OBVIOUS
      <4>2. PairMessage(a, b, 1) =
              << Event(Critical(Keep(Val(At(Call(b, "message.send", {200}), Conversation), "fromB"), Odd))),
                 Event(Critical(At(Call(a, "message.read", {200}), Odd))) >>
        BY <4>1, Zenon DEF PairMessage, Odd
      <4> QED BY <1>0, <3>2, <4>2 DEF Sender
    <3> QED BY <3>1, <3>2
  <2> PICK s, send, read :
        /\ s = PairMessage(a, b, i)
        /\ send = Event(Critical(Keep(Val(At(Call(from, "message.send", {200}), Conversation), key), name)))
        /\ read = Event(Critical(At(Call(to, "message.read", {200}), name)))
    OBVIOUS
  <2>0. s[1] = send /\ s[2] = read
    <3>1. s = << send, read >>
      BY <2>1, Zenon
    <3> QED BY <3>1
  <2>2. Script(s) /\ DOMAIN s = 1 .. 2
    BY <2>1 DEF Script, ToSet
  <2>3. /\ s[1].save = {name} /\ s[1].find = {} /\ s[1].op = "message.send" /\ s[1].by = from
        /\ s[1].expect = {200} /\ s[1].row = Conversation /\ Conversation \in s[1].needs
    BY <2>0 DEF Event, Critical, Keep, Val, At, Call
  <2>4. /\ s[2].save = {} /\ s[2].find = {} /\ s[2].op = "message.read" /\ s[2].by = to
        /\ s[2].expect = {200} /\ s[2].row = name /\ name \in s[2].needs
    BY <2>0 DEF Event, Critical, Keep, Val, At, Call
  <2>5. from \in {a, b}
    BY <2>1 DEF Sender
  <2>6. ChatStep(s[1], a, b) /\ s[1].op # "blockUser"
    BY <1>0, <2>1, <2>3, <2>5 DEF ChatStep, Acked
  <2>7. ChatStep(s[2], a, b) /\ s[2].op # "blockUser"
    BY <1>0, <2>1, <2>4 DEF ChatStep, Acked
  <2> QED BY <2>2, <2>6, <2>7 DEF ToSet
<1>8. runConcurrentChatPair(a, b) = (entry \o PairMessage(a, b, 0)) \o PairMessage(a, b, 1)
  BY DEF runConcurrentChatPair, entry
<1>9. /\ Script(entry \o PairMessage(a, b, 0))
      /\ ToSet(entry \o PairMessage(a, b, 0)) = ToSet(entry) \cup ToSet(PairMessage(a, b, 0))
  BY <1>1, <1>7, ConcatSteps
<1>10. /\ Script(runConcurrentChatPair(a, b))
       /\ ToSet(runConcurrentChatPair(a, b)) = ToSet(entry \o PairMessage(a, b, 0)) \cup ToSet(PairMessage(a, b, 1))
  BY <1>7, <1>8, <1>9, ConcatSteps
<1> QED BY <1>6, <1>7, <1>9, <1>10

LEMMA UserPlain ==
  ASSUME NEW vu, Session(vu) \notin KeptNames
  PROVE  Script(runConcurrentUserBaseline(vu)) /\ AllPlain(runConcurrentUserBaseline(vu))
<1> DEFINE entry == << Retried(On(Anyone("register", {201, 429}), vu)),
                       Retried(Keep(Val(On(Anyone("verifyRegistrationOtp", {201}), vu), DevCode), Session(vu))),
                       Retried(Login(vu, "first")),
                       Call(vu, "getMe", {200}) >>
<1>1. \A i \in 1 .. 4 : Plain(entry[i])
  BY PlainCalled, PlainRefined DEF Login, Noted
<1>2. Script(entry) /\ DOMAIN entry = 1 .. 4
  BY DEF Script, ToSet
<1>3. runConcurrentUserBaseline(vu) = entry \o UploadFile(vu, "avatar", <<vu, "file">>)
  BY DEF runConcurrentUserBaseline
<1> HIDE DEF entry
<1>4. AllPlain(entry)
  BY <1>1, <1>2 DEF AllPlain, ToSet
<1>5. <<vu, "file">> \notin KeptNames
  BY DEF KeptNames, ChatNames, MessageNames, Message, Even, Odd, Conversation, Product1, Product2
<1>6. Script(UploadFile(vu, "avatar", <<vu, "file">>)) /\ AllPlain(UploadFile(vu, "avatar", <<vu, "file">>))
  BY <1>5, UploadCalls, PlainUpload DEF Harmless
<1> QED BY <1>2, <1>3, <1>4, <1>6, ConcatSteps DEF AllPlain

-----------------------------------------------------------------------------
(* What the programs that chat know of the tables *)

\* Of a program x that chats as a with b: the conversation it keeps is in the
\* table, and the messages it keeps are, by their senders.
TalksAs(x, a, b, d) ==
  /\ Conversation \in DOMAIN x.kept => x.kept[Conversation].id[1] = {a, b} /\ {a, b} \in d.conversations
  /\ \A n \in MessageNames \cap DOMAIN x.kept :
       LET id == x.kept[n].id IN
       /\ id[1] = {a, b} /\ {a, b} \in d.conversations
       /\ id \in DOMAIN d.messages /\ d.messages[id].by = Sender(n, a, b)

\* The program ends when a registration fails: past it, it has the session.
Verified(x) ==
  \A i \in 1 .. x.pc - 1 : MainScript[i] \in {Verify(Alice), Verify(Bob)} => MainScript[i].save \subseteq DOMAIN x.kept

Chats ==
  /\ TalksAs(run["main"], Bob, Alice, db) /\ Verified(run["main"])
  /\ run["pair"].status # "idle" =>
       LET a == run["pair"].who[1]  b == run["pair"].who[2] IN
       /\ a # b /\ {Session(a), Session(b)} \subseteq DOMAIN run["pair"].kept
       /\ TalksAs(run["pair"], a, b, db)

\* Alice and bob block nobody before flow 10, and a virtual user never.
MayBlock(p) == p \notin VUs /\ (p \in {Alice, Bob} => run["main"].pc > Len(UpToChat))
Blocking ==
  /\ \A b \in db.blocks : MayBlock(b[1])
  /\ \A q \in late : q.op = "blockUser" => MayBlock(q.by)

\* A call is made only when the rows it needs are known.
Needing == \A r \in Runners : run[r].status = "running" => StepOf(r).needs \subseteq DOMAIN run[r].kept

SInv == TablesOK(db) /\ Blocking /\ Needing /\ Chats

LEMMA NewestOne ==
  ASSUME NEW row
  PROVE  Newest({row}) = row
<1>1. \E r \in {row} : \A other \in {row} : r = other \/ r.id[2] > other.id[2]
  OBVIOUS
<1>2. Newest({row}) \in {row}
  BY <1>1 DEF Newest
<1> QED BY <1>2

LEMMA RequestFields ==
  ASSUME NEW x, NEW step, NEW q, q = RequestOf(x, step)
  PROVE  /\ q.op = step.op /\ q.on = step.on /\ q.id = RowIn(x, step.row) /\ q.img = RowIn(x, step.img)
         /\ q.by = IF <<step.by>> \in DOMAIN x.kept THEN step.by ELSE NoOne
         /\ step.op # "login" => q.val = step.val
BY DEF RequestOf

\* How far a runner gets with what a call has left it with.
LEMMA MovesOn ==
  ASSUME CInv, NEW r \in Runners, run[r].status = "running", NEW y, Outcome(run[r], y),
         NEW n, n = Advance(y, ScriptOf(r))
  PROVE  /\ n.kept = y.kept /\ n.who = run[r].who /\ n.pc \in Nat /\ n.pc >= run[r].pc /\ n.pc <= Len(ScriptOf(r))
         /\ y.status # "next" => n = y /\ n.pc = run[r].pc
         /\ y.status = "next" =>
              /\ \A i \in run[r].pc + 1 .. n.pc - 1 : ~Applies(ScriptOf(r)[i], n.kept)
              /\ n.status = "running" => n.pc > run[r].pc /\ Applies(ScriptOf(r)[n.pc], n.kept)
              /\ n.status = "done" => /\ n.pc = run[r].pc
                                      /\ \A i \in run[r].pc + 1 .. Len(ScriptOf(r)) : ~Applies(ScriptOf(r)[i], n.kept)
              /\ n.status \in {"running", "done"}
<1> DEFINE x == run[r]  script == ScriptOf(r)
<1>1. Len(script) \in Nat /\ x.pc \in Nat /\ 1 <= x.pc /\ x.pc <= Len(script)
  BY Scripts DEF CInv, Runs, InScript
<1>2. RunnerShape(y) /\ y.pc = x.pc /\ y.who = x.who
  BY DEF Outcome, SameRun
<1>3. n = Advance(y, script) /\ y.pc \in Nat
  BY <1>1, <1>2
<1> HIDE DEF x, script
<1>4. /\ n.kept = y.kept /\ n.who = y.who /\ (y.status # "next" => n = y)
      /\ y.status = "next" =>
           \/ /\ n.status = "done" /\ n.pc = y.pc
              /\ \A i \in y.pc + 1 .. Len(script) : ~Applies(script[i], y.kept)
           \/ /\ n.status = "running" /\ n.pc \in y.pc + 1 .. Len(script) /\ Applies(script[n.pc], y.kept)
              /\ \A i \in y.pc + 1 .. Len(script) : Applies(script[i], y.kept) => n.pc <= i
  BY <1>1, <1>2, <1>3, AdvanceStep
<1>5. CASE y.status = "next"
  BY <1>1, <1>2, <1>4, <1>5 DEF x, script
<1>6. CASE y.status # "next"
  BY <1>1, <1>2, <1>4, <1>6 DEF x, script
<1> QED BY <1>5, <1>6

LEMMA AfterCall ==
  ASSUME CInv, NEW r \in Runners, run[r].status = "running", NEW code, NEW rows, Receive(r, code, rows)
  PROVE  \E y : /\ Outcome(run[r], y) /\ CallKept(r, y, code, rows) /\ OthersWait(r)
                /\ run'[r] = Advance(y, ScriptOf(r)) /\ run'[r].kept = y.kept
BY ReceiveKeeps, MovesOn

\* The needs of the next call are known.
LEMMA NeedsAfter ==
  ASSUME CInv, NEW r \in Runners, run[r].status = "running", StepOf(r).needs \subseteq DOMAIN run[r].kept,
         NEW y, Outcome(run[r], y), run'[r] = Advance(y, ScriptOf(r)),
         y.status = "running" => DOMAIN run[r].kept \subseteq DOMAIN y.kept
  PROVE  run'[r].status = "running" => ScriptOf(r)[run'[r].pc].needs \subseteq DOMAIN run'[r].kept
<1> PICK n : n = Advance(y, ScriptOf(r))
  OBVIOUS
<1>1. CASE y.status = "next"
  BY <1>1, MovesOn DEF Applies
<1>2. CASE y.status # "next"
  BY <1>2, MovesOn DEF StepOf
<1> QED BY <1>1, <1>2

\* What a program knows of the chat stays true, whatever is served.
LEMMA TalksLater ==
  ASSUME NEW d, TablesOK(d), NEW q, NEW e, e = Serve(d, q).db, NEW x, NEW a, NEW b, TalksAs(x, a, b, d)
  PROVE  TalksAs(x, a, b, e)
<1> PICK answer : answer = Serve(d, q)
  OBVIOUS
<1>1. d.conversations \subseteq e.conversations
  BY ConversationsServed
<1>2. \A id \in DOMAIN d.messages : id \in DOMAIN e.messages /\ e.messages[id].by = d.messages[id].by
  <2>1. CASE Kept(d.messages, e.messages, {"by", "key"})
    BY <2>1 DEF Kept
  <2>2. CASE MessageAdded(d, q, answer)
    BY <2>2 DEF MessageAdded, Added
  <2> QED BY <2>1, <2>2, MessagesServed
<1> QED BY <1>1, <1>2 DEF TalksAs

\* What a program comes to know of the chat by an answer.
LEMMA TalksServed ==
  ASSUME NEW d, TablesOK(d), NEW x, NEW step, NEW a, NEW b, ChatStep(step, a, b), TalksAs(x, a, b, d),
         step.needs \subseteq DOMAIN x.kept, NEW q, q = RequestOf(x, step),
         NEW answer, answer = Serve(d, q), NEW e, e = answer.db,
         NEW y, KeptAfter(x, y, step, answer.code, answer.rows)
  PROVE  TalksAs(y, a, b, e)
<1>1. TalksAs(x, a, b, e)
  BY TalksLater
<1>2. /\ q.op = step.op /\ q.on = step.on /\ q.id = RowIn(x, step.row)
      /\ q.by = step.by \/ q.by = NoOne
  BY DEF RequestOf
<1>3. \A n \in ChatNames \cap DOMAIN y.kept :
        \/ n \in DOMAIN x.kept /\ y.kept[n] = x.kept[n]
        \/ /\ answer.code \in step.expect /\ n \in step.save /\ answer.rows # {}
           /\ y.kept[n] = Newest(answer.rows)
  BY DEF KeptAfter, Found, ChatStep
<1>4. ASSUME Conversation \in DOMAIN y.kept
      PROVE  y.kept[Conversation].id[1] = {a, b} /\ {a, b} \in e.conversations
  <2>1. CASE Conversation \in DOMAIN x.kept /\ y.kept[Conversation] = x.kept[Conversation]
    BY <1>1, <2>1 DEF TalksAs
  <2>2. CASE /\ answer.code \in step.expect /\ Conversation \in step.save /\ answer.rows # {}
             /\ y.kept[Conversation] = Newest(answer.rows)
    <3>1. step.op = "createConversation" /\ step.by = a /\ step.on = b /\ answer.code = 201
      BY <2>2 DEF ChatStep
    <3>2. /\ q.by # NoOne /\ answer.rows = {Row(<<{q.by, q.on}, 0>>, "conversation", NoKey)}
          /\ {q.by, q.on} \in e.conversations
      <4>1. q.op = "createConversation" /\ answer.code = 201
        BY <1>2, <3>1
      <4>2. Conversing(q, answer, e)
        BY ConversationsServed
      <4> QED BY <4>1, <4>2 DEF Conversing
    <3>3. q.by = a /\ q.on = b
      BY <1>2, <3>1, <3>2
    <3>4. y.kept[Conversation] = Row(<<{a, b}, 0>>, "conversation", NoKey)
      BY <2>2, <3>2, <3>3, NewestOne
    <3>5. y.kept[Conversation].id = <<{a, b}, 0>>
      BY <3>4 DEF Row
    <3> QED BY <3>2, <3>3, <3>5
  <2> QED BY <1>3, <1>4, <2>1, <2>2 DEF ChatNames
<1>5. ASSUME NEW n \in MessageNames \cap DOMAIN y.kept
      PROVE  /\ y.kept[n].id[1] = {a, b} /\ {a, b} \in e.conversations
             /\ y.kept[n].id \in DOMAIN e.messages /\ e.messages[y.kept[n].id].by = Sender(n, a, b)
  <2>1. CASE n \in DOMAIN x.kept /\ y.kept[n] = x.kept[n]
    BY <1>1, <2>1 DEF TalksAs
  <2>2. CASE answer.code \in step.expect /\ n \in step.save /\ answer.rows # {} /\ y.kept[n] = Newest(answer.rows)
    <3>1. /\ step.op = "message.send" /\ step.by = Sender(n, a, b) /\ answer.code = 200
          /\ step.row = Conversation /\ Conversation \in DOMAIN x.kept
      BY <2>2 DEF ChatStep
    <3>2. MessageAdded(d, q, answer)
      BY <1>2, <3>1, MessagesServed
    <3>3. PICK id : /\ answer.rows = {Row(id, q.val, NoKey)} /\ q.by # NoOne
                    /\ q.id[1] \in d.conversations /\ id[1] = q.id[1]
                    /\ Added(d.messages, e.messages, id, [by |-> q.by, key |-> q.val, read |-> FALSE])
      BY <3>2 DEF MessageAdded
    <3>4. q.id = x.kept[Conversation].id
      BY <1>2, <3>1 DEF RowIn
    <3>5. id[1] = {a, b} /\ {a, b} \in e.conversations
      BY <1>1, <3>1, <3>3, <3>4 DEF TalksAs
    <3>6. y.kept[n] = Row(id, q.val, NoKey)
      BY <2>2, <3>3, NewestOne
    <3>7. y.kept[n].id = id
      BY <3>6 DEF Row
    <3>8. id \in DOMAIN e.messages /\ e.messages[id].by = q.by
      BY <3>3 DEF Added
    <3>9. q.by = Sender(n, a, b)
      BY <1>2, <3>1, <3>3
    <3> QED BY <3>5, <3>7, <3>8, <3>9
  <2> QED BY <1>3, <2>1, <2>2 DEF ChatNames
<1> QED BY <1>4, <1>5 DEF TalksAs

\* Where the calls of the simulator that matter to the chat are.
LEMMA MainAt ==
  /\ Script(MainScript) /\ Len(MainScript) \in Nat /\ Len(Early) \in Nat /\ Len(UpToChat) \in Nat
  /\ Len(Early) <= Len(UpToChat) /\ Len(UpToChat) <= Len(MainScript)
  /\ \A i \in 1 .. Len(MainScript) :
       /\ ChatStep(MainScript[i], Bob, Alice)
       /\ MainScript[i].socket => i > Len(Early) /\ i <= Len(UpToChat)
       /\ MainScript[i].op = "blockUser" => i > Len(UpToChat) /\ MainScript[i].by = Bob
  /\ \A p \in {Alice, Bob} : \E i \in 1 .. Len(Early) : MainScript[i] = Verify(p)
<1>1. Script(MainScript) /\ Len(MainScript) \in Nat /\ DOMAIN MainScript = 1 .. Len(MainScript)
  BY MainChat, ScriptLen
<1>2. ASSUME NEW i \in 1 .. Len(MainScript)
      PROVE  /\ ChatStep(MainScript[i], Bob, Alice)
             /\ MainScript[i].socket => i > Len(Early) /\ i <= Len(UpToChat)
             /\ MainScript[i].op = "blockUser" => i > Len(UpToChat) /\ MainScript[i].by = Bob
  <2>1. ChatStep(MainScript[i], Bob, Alice)
    BY <1>1, MainChat DEF ToSet
  <2>2. CASE i <= Len(Early)
    BY <1>1, <2>1, <2>2, MainChat DEF Upto
  <2>3. CASE i > Len(Early) /\ i <= Len(UpToChat)
    BY <1>1, <2>1, <2>3, MainChat DEF Upto
  <2>4. CASE i > Len(UpToChat)
    <3>1. MainScript[i] \in After(MainScript, Len(UpToChat))
      BY <1>1, <2>4, MainChat DEF After
    <3> QED BY <2>1, <2>4, <3>1, MainChat
  <2> QED BY <1>1, <2>2, <2>3, <2>4, MainChat
<1>3. \A p \in {Alice, Bob} : \E i \in 1 .. Len(Early) : MainScript[i] = Verify(p)
  BY MainChat DEF Upto
<1> QED BY <1>1, <1>2, <1>3, MainChat

LEMMA VerifyCall ==
  ASSUME NEW p, NEW step, step = Verify(p)
  PROVE  /\ step.save = {<<p>>} /\ step.op = "verifyRegistrationOtp" /\ step.expect = {201} /\ step.fatal
         /\ \A kept : Applies(step, kept)
<1>1. /\ step.save = {<<p>>} /\ step.op = "verifyRegistrationOtp" /\ step.expect = {201} /\ step.fatal
      /\ step.needs = {} /\ step.lacks = {} /\ step.changes = FALSE
  BY DEF Verify, Critical, Keep, Val, On, Anyone, Call, Session
<1> QED BY <1>1 DEF Applies

LEMMA VerifiedAfter ==
  ASSUME CInv, run["main"].status = "running", Verified(run["main"]), NEW y, Outcome(run["main"], y),
         DOMAIN run["main"].kept \ {BobSocket, Sockets} \subseteq DOMAIN y.kept,
         y.status = "next" /\ StepOf("main") \in {Verify(Alice), Verify(Bob)} => StepOf("main").save \subseteq DOMAIN y.kept,
         NEW n, n = Advance(y, ScriptOf("main"))
  PROVE  Verified(n)
<1> DEFINE x == run["main"]
<1>0. "main" \in Runners /\ ScriptOf("main") = MainScript /\ StepOf("main") = MainScript[x.pc] /\ x.pc \in Nat /\ x.pc >= 1
  BY RunnerNames, Scripts DEF StepOf, CInv, Runs, InScript
<1>1. /\ n.kept = y.kept /\ n.pc \in Nat
      /\ y.status # "next" => n.pc = x.pc
      /\ y.status = "next" => \A i \in x.pc + 1 .. n.pc - 1 : ~Applies(MainScript[i], n.kept)
  BY <1>0, MovesOn
<1> HIDE DEF x
<1>2. ASSUME NEW i \in 1 .. n.pc - 1, MainScript[i] \in {Verify(Alice), Verify(Bob)}
      PROVE  MainScript[i].save \subseteq DOMAIN n.kept
  <2>1. PICK p \in {Alice, Bob} : MainScript[i] = Verify(p)
    BY <1>2
  <2>2. MainScript[i].save = {<<p>>} /\ \A kept : Applies(MainScript[i], kept)
    BY <2>1, VerifyCall
  <2>3. CASE i < x.pc
    <3>1. MainScript[i].save \subseteq DOMAIN x.kept
      BY <1>0, <1>2, <2>3 DEF Verified, x
    <3>2. <<p>> \notin {BobSocket, Sockets}
      BY DEF BobSocket, Sockets, Alice, Bob
    <3> QED BY <1>1, <2>2, <3>1, <3>2 DEF x
  <2>4. CASE i = x.pc
    BY <1>0, <1>1, <1>2, <2>4
  <2>5. CASE i > x.pc
    BY <1>0, <1>1, <2>2, <2>5
  <2> QED BY <1>0, <2>3, <2>4, <2>5
<1> QED BY <1>2 DEF Verified

\* An accepted code is answered with the tokens of the account.
LEMMA VerifyAnswered ==
  ASSUME NEW d, NEW q, q.op = "verifyRegistrationOtp", NEW answer, answer = Serve(d, q), answer.code = 201
  PROVE  answer.rows # {}
<1>1. answer = verifyRegistrationOtp(d, q)
  BY DEF Serve, Handle, Denied, AuthPublic, OpenReads, OptionalReads
<1>2. \/ answer.code # 201
      \/ \E row : answer.rows = {row}
  BY <1>1 DEF verifyRegistrationOtp, Refuse, Reply, generateTokens
<1> QED BY <1>2

\* A call of x is answered with code and rows, and leaves the tables as in e:
\* it is served, or refused or lost before a handler has run.
Replied(d, x, step, code, rows, e) ==
  \/ \E answer : /\ answer = Serve(d, RequestOf(x, step))
                 /\ code = answer.code /\ rows = answer.rows /\ e = answer.db
  \/ code \in {0, 429} /\ rows = {} /\ e = d

LEMMA TalksAfterCall ==
  ASSUME NEW d, TablesOK(d), NEW x, NEW step, NEW a, NEW b, ChatStep(step, a, b), TalksAs(x, a, b, d),
         step.needs \subseteq DOMAIN x.kept, NEW code, NEW rows, NEW e, Replied(d, x, step, code, rows, e),
         NEW y, KeptAfter(x, y, step, code, rows)
  PROVE  TalksAs(y, a, b, e)
<1>1. ASSUME NEW answer, answer = Serve(d, RequestOf(x, step)), code = answer.code, rows = answer.rows, e = answer.db
      PROVE  TalksAs(y, a, b, e)
  BY <1>1, TalksServed
<1>2. CASE code \in {0, 429} /\ rows = {} /\ e = d
  <2>1. \A n \in ChatNames \cap DOMAIN y.kept : n \in DOMAIN x.kept /\ y.kept[n] = x.kept[n]
    BY <1>2 DEF KeptAfter, Found, ChatStep
  <2>2. Conversation \in DOMAIN y.kept => Conversation \in DOMAIN x.kept /\ y.kept[Conversation] = x.kept[Conversation]
    BY <2>1 DEF ChatNames
  <2>3. \A n \in MessageNames \cap DOMAIN y.kept : n \in DOMAIN x.kept /\ y.kept[n] = x.kept[n]
    BY <2>1 DEF ChatNames
  <2>4. Conversation \in DOMAIN y.kept => y.kept[Conversation].id[1] = {a, b} /\ {a, b} \in d.conversations
    BY <2>2 DEF TalksAs
  <2>5. ASSUME NEW n \in MessageNames \cap DOMAIN y.kept
        PROVE  /\ y.kept[n].id[1] = {a, b} /\ {a, b} \in d.conversations
               /\ y.kept[n].id \in DOMAIN d.messages /\ d.messages[y.kept[n].id].by = Sender(n, a, b)
    BY <2>3 DEF TalksAs
  <2>6. TalksAs(y, a, b, d)
    <3> HIDE <1>2
    <3> QED BY <2>4, <2>5 DEF TalksAs
  <2> QED BY <1>2, <2>6
<1> QED BY <1>1, <1>2 DEF Replied

\* What the tables are after a call.
LEMMA RepliedTables ==
  ASSUME NEW d, TablesOK(d), NEW x, NEW step, NEW code, NEW rows, NEW e, Replied(d, x, step, code, rows, e)
  PROVE  /\ TablesOK(e)
         /\ \A z, a, b : TalksAs(z, a, b, d) => TalksAs(z, a, b, e)
         /\ \A b \in e.blocks : b \in d.blocks \/ (step.op = "blockUser" /\ b = <<RequestOf(x, step).by, step.on>>)
         /\ step.op = "verifyRegistrationOtp" /\ code = 201 => rows # {}
<1> PICK q : q = RequestOf(x, step)
  OBVIOUS
<1>1. q.op = step.op /\ q.on = step.on
  BY DEF RequestOf
<1>2. ASSUME NEW answer, answer = Serve(d, q), code = answer.code, rows = answer.rows, e = answer.db
      PROVE  /\ TablesOK(e)
             /\ \A z, a, b : TalksAs(z, a, b, d) => TalksAs(z, a, b, e)
             /\ \A b \in e.blocks : b \in d.blocks \/ (step.op = "blockUser" /\ b = <<q.by, step.on>>)
             /\ step.op = "verifyRegistrationOtp" /\ code = 201 => rows # {}
  <2>1. TablesOK(e)
    BY <1>2, TablesServed
  <2>2. \A z, a, b : TalksAs(z, a, b, d) => TalksAs(z, a, b, e)
    BY <1>2, TalksLater
  <2>3. \A b \in e.blocks : b \in d.blocks \/ (q.op = "blockUser" /\ b = <<q.by, q.on>>)
    BY <1>2, BlocksServed
  <2>4. q.op = "verifyRegistrationOtp" /\ answer.code = 201 => answer.rows # {}
    BY <1>2, VerifyAnswered
  <2> QED BY <1>1, <1>2, <2>1, <2>2, <2>3, <2>4
<1>3. CASE code \in {0, 429} /\ rows = {} /\ e = d
  BY <1>3
<1> QED BY <1>2, <1>3 DEF Replied

\* A moved runner has what its next call needs, and the others keep theirs.
LEMMA NeedingAfter ==
  ASSUME CInv, Needing, NEW r \in Runners, run[r].status = "running", NEW y, Outcome(run[r], y),
         y.status = "running" => DOMAIN run[r].kept \subseteq DOMAIN y.kept,
         OthersWait(r), run'[r] = Advance(y, ScriptOf(r)), scenario' = scenario
  PROVE  Needing'
<1>1. run'[r].status = "running" => ScriptOf(r)[run'[r].pc].needs \subseteq DOMAIN run'[r].kept
  <2>1. StepOf(r).needs \subseteq DOMAIN run[r].kept
    BY DEF Needing
  <2> QED BY <2>1, NeedsAfter
<1>2. PICK n : n = Advance(y, ScriptOf(r))
  OBVIOUS
<1>3. run'["pair"].who = run["pair"].who
  <2>1. n.who = run[r].who
    BY <1>2, MovesOn
  <2> QED BY <1>2, <2>1, RunnerNames DEF OthersWait
<1>4. \A s \in Runners : ScriptOf(s)' = ScriptOf(s)
  BY <1>3, SameScripts
<1>5. \A s \in Runners : StepOf(s)' = ScriptOf(s)[run'[s].pc]
  BY <1>4 DEF StepOf
<1> QED BY <1>1, <1>5 DEF Needing, OthersWait, StepOf

\* What kind of call a running program is at.
LEMMA CallsOf ==
  ASSUME CInv, Chats, NEW r \in Runners, run[r].status = "running"
  PROVE  /\ r = "main" => /\ ChatStep(StepOf(r), Bob, Alice)
                          /\ StepOf(r).socket => run[r].pc > Len(Early) /\ run[r].pc <= Len(UpToChat)
                          /\ StepOf(r).op = "blockUser" => run[r].pc > Len(UpToChat) /\ StepOf(r).by = Bob
         /\ r = "pair" => ChatStep(StepOf(r), run[r].who[1], run[r].who[2]) /\ StepOf(r).op # "blockUser"
         /\ r \in VUs => Plain(StepOf(r))
         /\ r = "seeder" => StepOf(r).by \notin VUs \cup {Alice, Bob}
<1>1. /\ Script(ScriptOf(r)) /\ DOMAIN ScriptOf(r) = 1 .. Len(ScriptOf(r)) /\ Len(ScriptOf(r)) \in Nat
      /\ run[r].pc \in 1 .. Len(ScriptOf(r)) /\ StepOf(r) = ScriptOf(r)[run[r].pc]
  BY Scripts, ScriptLen DEF CInv, Runs, InScript, StepOf
<1>2. CASE r = "main"
  BY <1>1, <1>2, Scripts, MainAt, RunnerNames
<1>3. CASE r = "pair"
  <2>1. run[r].who \in VUs \X VUs /\ run[r].who[1] # run[r].who[2]
    BY <1>3 DEF CInv, Runs, Chats
  <2>2. ScriptOf(r) = runConcurrentChatPair(run[r].who[1], run[r].who[2])
    BY <1>3, <2>1 DEF ScriptOf, PairScripts
  <2> QED BY <1>1, <1>3, <2>1, <2>2, PairChat, RunnerNames DEF ToSet
<1>4. CASE r \in VUs
  <2>1. ScriptOf(r) = runConcurrentUserBaseline(r)
    BY <1>4, RunnerNames DEF ScriptOf, UserScripts
  <2>2. Session(r) \notin KeptNames
    <3>1. Session(r) \notin {Conversation, Message, Product1, Product2}
      BY <1>4, RunnersAssumption
    <3>2. Session(r) \notin {Even, Odd}
      BY DEF Session, Even, Odd
    <3> QED BY <3>1, <3>2 DEF KeptNames, ChatNames, MessageNames
  <2>3. Plain(StepOf(r))
    BY <1>1, <2>1, <2>2, UserPlain DEF AllPlain, ToSet
  <2> QED BY <1>4, <2>3, RunnerNames
<1>5. CASE r = "seeder"
  <2>1. ScriptOf(r) = SeedScripts[scenario.tables] /\ scenario.tables \in DOMAIN Tables
    BY <1>5, Scripts
  <2> QED BY <1>1, <1>5, <2>1, SeedScriptAssumption, RunnerNames
<1> QED BY <1>2, <1>3, <1>4, <1>5, RunnerNames

LEMMA BlockingCall ==
  ASSUME CInv, Chats, NEW r \in Runners, run[r].status = "running", StepOf(r).op = "blockUser",
         NEW q, q = RequestOf(run[r], StepOf(r))
  PROVE  MayBlock(q.by)
<1>1. q.by = StepOf(r).by \/ q.by = NoOne
  BY DEF RequestOf
<1>2. MayBlock(NoOne)
  BY PeopleAssumption, RunnersAssumption DEF MayBlock, NoOne, Bob
<1>3. r = "main" => MayBlock(StepOf(r).by)
  BY CallsOf, RunnersAssumption DEF MayBlock
<1>4. r = "seeder" => MayBlock(StepOf(r).by)
  BY CallsOf DEF MayBlock
<1>5. r \in {"main", "seeder"}
  BY CallsOf, RunnerNames DEF Plain, Noted
<1> QED BY <1>1, <1>2, <1>3, <1>4, <1>5

\* The simulator does not go back.
LEMMA BlockingStays ==
  ASSUME run'["main"].pc >= run["main"].pc, run["main"].pc \in Nat, run'["main"].pc \in Nat, NEW p, MayBlock(p)
  PROVE  MayBlock(p)'
BY MainChat DEF MayBlock

\* What the programs know of the chat after one of them has moved.
LEMMA ChatsAfter ==
  ASSUME CInv, Chats, NEW r \in Runners, run[r].status = "running", NEW y, Outcome(run[r], y),
         OthersWait(r), run'[r] = Advance(y, ScriptOf(r)),
         \A z, a, b : TalksAs(z, a, b, db) => TalksAs(z, a, b, db'),
         r = "main" => TalksAs(y, Bob, Alice, db'),
         r = "pair" => TalksAs(y, run[r].who[1], run[r].who[2], db'),
         DOMAIN run[r].kept \ {BobSocket, Sockets} \subseteq DOMAIN y.kept,
         r = "main" /\ y.status = "next" /\ StepOf(r) \in {Verify(Alice), Verify(Bob)} => StepOf(r).save \subseteq DOMAIN y.kept
  PROVE  Chats'
<1> PICK n : n = Advance(y, ScriptOf(r))
  OBVIOUS
<1>1. n.kept = y.kept /\ n.who = run[r].who /\ run'[r] = n
  BY MovesOn
<1>2. \A a, b : TalksAs(y, a, b, db') => TalksAs(n, a, b, db')
  BY <1>1 DEF TalksAs
<1>3. TalksAs(run'["main"], Bob, Alice, db') /\ Verified(run'["main"])
  <2>1. CASE r = "main"
    <3>1. Verified(n)
      BY <2>1, VerifiedAfter DEF Chats
    <3> QED BY <1>1, <1>2, <2>1, <3>1
  <2>2. CASE r # "main"
    <3>1. run'["main"] = run["main"]
      BY <2>2, RunnerNames DEF OthersWait
    <3> QED BY <3>1 DEF Chats
  <2> QED BY <2>1, <2>2
<1>4. ASSUME run'["pair"].status # "idle"
      PROVE  /\ run'["pair"].who[1] # run'["pair"].who[2]
             /\ {Session(run'["pair"].who[1]), Session(run'["pair"].who[2])} \subseteq DOMAIN run'["pair"].kept
             /\ TalksAs(run'["pair"], run'["pair"].who[1], run'["pair"].who[2], db')
  <2>1. CASE r = "pair"
    <3> PICK a, b : a = run[r].who[1] /\ b = run[r].who[2]
      OBVIOUS
    <3>1. a \in VUs /\ b \in VUs /\ a # b /\ {Session(a), Session(b)} \subseteq DOMAIN run[r].kept
      BY <2>1 DEF Chats, CInv, Runs
    <3>2. {Session(a), Session(b)} \subseteq DOMAIN n.kept
      BY <1>1, <3>1, RunnersAssumption
    <3> QED BY <1>1, <1>2, <2>1, <3>1, <3>2
  <2>2. CASE r # "pair"
    <3>1. run'["pair"] = run["pair"]
      BY <2>2, RunnerNames DEF OthersWait
    <3> QED BY <1>4, <3>1 DEF Chats
  <2> QED BY <2>1, <2>2
<1> QED BY <1>3, <1>4 DEF Chats

\* No call takes from a program what it needs later.
LEMMA CallSInv ==
  ASSUME CInv, SInv, NEW r \in Runners, run[r].status = "running", scenario' = scenario,
         NEW code, NEW rows, Receive(r, code, rows), Replied(db, run[r], StepOf(r), code, rows, db'),
         late' \subseteq late \cup {RequestOf(run[r], StepOf(r))}
  PROVE  SInv'
<1>1. TablesOK(db) /\ Blocking /\ Needing /\ Chats
  BY DEF SInv
<1>2. PICK y : /\ Outcome(run[r], y) /\ CallKept(r, y, code, rows) /\ OthersWait(r)
               /\ run'[r] = Advance(y, ScriptOf(r))
  BY AfterCall
<1> PICK x, step, q, n, e : x = run[r] /\ step = StepOf(r) /\ q = RequestOf(x, step) /\ n = Advance(y, ScriptOf(r)) /\ e = db'
  OBVIOUS
<1>3. /\ KeptAfter(x, y, step, code, rows) /\ DOMAIN x.kept \ {BobSocket, Sockets} \subseteq DOMAIN y.kept
      /\ y.status = "running" => DOMAIN x.kept \subseteq DOMAIN y.kept
      /\ y.status = "next" /\ code \in step.expect => Learned(x, y, step, rows)
      /\ r # "seeder" /\ y.status = "next" /\ step.fatal => code \in step.expect
  BY <1>2 DEF CallKept
<1>4. /\ TablesOK(e) /\ \A z, a, b : TalksAs(z, a, b, db) => TalksAs(z, a, b, e)
      /\ \A b \in e.blocks : b \in db.blocks \/ (step.op = "blockUser" /\ b = <<q.by, step.on>>)
      /\ step.op = "verifyRegistrationOtp" /\ code = 201 => rows # {}
  BY <1>1, RepliedTables
<1>5. Needing'
  BY <1>1, <1>2, <1>3, NeedingAfter
<1>6. \A a, b : ChatStep(step, a, b) /\ TalksAs(x, a, b, db) => TalksAs(y, a, b, e)
  <2>1. step.needs \subseteq DOMAIN x.kept
    BY <1>1 DEF Needing
  <2> QED BY <1>1, <1>3, <2>1, TalksAfterCall
<1>7. Chats'
  <2>1. r = "main" => TalksAs(y, Bob, Alice, e)
    BY <1>1, <1>6, CallsOf DEF Chats
  <2>2. r = "pair" => TalksAs(y, run[r].who[1], run[r].who[2], e)
    BY <1>1, <1>6, CallsOf DEF Chats
  <2>3. ASSUME r = "main", y.status = "next", step \in {Verify(Alice), Verify(Bob)}
        PROVE  step.save \subseteq DOMAIN y.kept
    <3>1. step.op = "verifyRegistrationOtp" /\ step.expect = {201} /\ step.fatal
      BY <2>3, VerifyCall
    <3>2. code = 201 /\ rows # {} /\ Learned(x, y, step, rows)
      BY <1>3, <1>4, <2>3, <3>1
    <3> QED BY <3>2 DEF Learned
  <2> QED BY <1>1, <1>2, <1>3, <1>4, <2>1, <2>2, <2>3, ChatsAfter
<1>8. /\ run'["main"].pc >= run["main"].pc /\ run["main"].pc \in Nat /\ run'["main"].pc \in Nat
  <2>1. run["main"].pc \in Nat
    BY RunnerNames DEF CInv, Runs, InScript
  <2>2. n.pc \in Nat /\ n.pc >= x.pc
    BY <1>2, MovesOn
  <2> QED BY <1>2, <2>1, <2>2, RunnerNames DEF OthersWait
<1>9. Blocking'
  <2>1. \A p : MayBlock(p) => MayBlock(p)'
    BY <1>8, BlockingStays
  <2>2. step.op = "blockUser" => MayBlock(q.by)
    BY <1>1, BlockingCall
  <2>3. \A b \in e.blocks : MayBlock(b[1])
    BY <1>1, <1>4, <2>2 DEF Blocking
  <2>4. q.op = step.op
    BY DEF RequestOf
  <2>5. \A p \in late' : p.op = "blockUser" => MayBlock(p.by)
    BY <1>1, <2>2, <2>4 DEF Blocking
  <2> QED BY <2>1, <2>3, <2>5 DEF Blocking
<1> QED BY <1>4, <1>5, <1>7, <1>9 DEF SInv

LEMMA CallsSInv ==
  ASSUME CInv, SInv, NEW r \in Runners, Answered(r) \/ Throttled(r) \/ TimedOut(r)
  PROVE  SInv'
<1>1. CASE Answered(r)
  <2>1. PICK answer : /\ answer = Serve(db, RequestOf(run[r], StepOf(r))) /\ db' = answer.db
                      /\ Receive(r, answer.code, answer.rows)
    BY <1>1 DEF Answered
  <2>2. run[r].status = "running" /\ scenario' = scenario /\ late' = late
    BY <1>1 DEF Answered, Calling
  <2>3. Replied(db, run[r], StepOf(r), answer.code, answer.rows, db')
    BY <2>1 DEF Replied
  <2> QED BY <2>1, <2>2, <2>3, CallSInv
<1>2. CASE Throttled(r)
  <2>1. run[r].status = "running" /\ scenario' = scenario /\ late' = late /\ db' = db /\ Receive(r, 429, {})
    BY <1>2 DEF Throttled, Calling
  <2>2. Replied(db, run[r], StepOf(r), 429, {}, db')
    BY <2>1 DEF Replied
  <2> QED BY <2>1, <2>2, CallSInv
<1>3. CASE TimedOut(r)
  <2>1. /\ run[r].status = "running" /\ scenario' = scenario /\ db' = db /\ Receive(r, 0, {})
        /\ late' = late \cup {RequestOf(run[r], StepOf(r))}
    BY <1>3 DEF TimedOut, Calling
  <2>2. Replied(db, run[r], StepOf(r), 0, {}, db')
    BY <2>1 DEF Replied
  <2> QED BY <2>1, <2>2, CallSInv
<1> QED BY <1>1, <1>2, <1>3

LEMMA CheckedSInv ==
  ASSUME CInv, SInv, NEW r \in Runners, Checked(r)
  PROVE  SInv'
<1>1. /\ run[r].status = "running" /\ StepOf(r).op = "require"
      /\ scenario' = scenario /\ db' = db /\ late' = late
  BY DEF Checked
<1>2. PICK y : /\ Outcome(run[r], y) /\ y.kept = run[r].kept /\ y.status # "running"
               /\ run' = [run EXCEPT ![r] = Advance(y, ScriptOf(r))]
  BY CheckedOutcome
<1>3. PICK n : n = Advance(y, ScriptOf(r))
  OBVIOUS
<1>4. OthersWait(r) /\ run'[r] = n
  BY <1>2, <1>3, Moved
<1>5. TablesOK(db) /\ Blocking /\ Needing /\ Chats
  BY DEF SInv
<1>6. Needing'
  BY <1>1, <1>2, <1>3, <1>4, <1>5, NeedingAfter
<1>7. \A a, b : TalksAs(run[r], a, b, db) => TalksAs(y, a, b, db')
  BY <1>1, <1>2 DEF TalksAs
<1>8. StepOf(r) \notin {Verify(Alice), Verify(Bob)}
  BY <1>1, VerifyCall
<1>9. Chats'
  <2>1. \A z, a, b : TalksAs(z, a, b, db) => TalksAs(z, a, b, db')
    BY <1>1
  <2>2. r = "main" => TalksAs(y, Bob, Alice, db')
    BY <1>5, <1>7 DEF Chats
  <2>3. r = "pair" => TalksAs(y, run[r].who[1], run[r].who[2], db')
    BY <1>1, <1>5, <1>7 DEF Chats
  <2> QED BY <1>1, <1>2, <1>3, <1>4, <1>5, <1>8, <2>1, <2>2, <2>3, ChatsAfter
<1>10. run'["main"].pc >= run["main"].pc /\ run["main"].pc \in Nat /\ run'["main"].pc \in Nat
  <2>1. run["main"].pc \in Nat
    BY RunnerNames DEF CInv, Runs, InScript
  <2>2. n.pc \in Nat /\ n.pc >= run[r].pc
    BY <1>1, <1>2, <1>3, MovesOn
  <2> QED BY <1>4, <2>1, <2>2, RunnerNames DEF OthersWait
<1>11. Blocking'
  <2>1. \A p : MayBlock(p) => MayBlock(p)'
    BY <1>10, BlockingStays
  <2> QED BY <1>1, <1>5, <2>1 DEF Blocking
<1> QED BY <1>1, <1>5, <1>6, <1>9, <1>11 DEF SInv

\* Of a call served late only the tables know.
LEMMA LateSInv ==
  ASSUME CInv, SInv, ServedLate
  PROVE  SInv'
<1>1. PICK q \in late : /\ db' = Serve(db, q).db /\ late' = late \ {q}
                        /\ scenario' = scenario /\ run' = run
  BY DEF ServedLate
<1>2. TablesOK(db) /\ Blocking /\ Needing /\ Chats
  BY DEF SInv
<1>3. PICK e : e = db'
  OBVIOUS
<1>4. TablesOK(e)
  BY <1>1, <1>2, <1>3, TablesServed
<1>5. \A x, a, b : TalksAs(x, a, b, db) => TalksAs(x, a, b, e)
  BY <1>1, <1>2, <1>3, TalksLater
<1>6. \A b \in e.blocks : b \in db.blocks \/ (q.op = "blockUser" /\ b = <<q.by, q.on>>)
  BY <1>1, <1>2, <1>3, BlocksServed
<1>7. \A p : MayBlock(p)' <=> MayBlock(p)
  BY <1>1 DEF MayBlock
<1>8. Blocking'
  <2>1. \A b \in e.blocks : MayBlock(b[1])
    BY <1>2, <1>6 DEF Blocking
  <2>2. \A p \in late' : p.op = "blockUser" => MayBlock(p.by)
    BY <1>1, <1>2 DEF Blocking
  <2> QED BY <1>3, <1>7, <2>1, <2>2 DEF Blocking
<1>9. Needing'
  <2>1. \A r \in Runners : StepOf(r)' = StepOf(r)
    BY <1>1, SameScripts DEF StepOf
  <2> QED BY <1>1, <1>2, <2>1 DEF Needing
<1>10. Chats'
  <2>1. TalksAs(run["main"], Bob, Alice, e)
    BY <1>2, <1>5 DEF Chats
  <2>2. run["pair"].status # "idle" => TalksAs(run["pair"], run["pair"].who[1], run["pair"].who[2], e)
    BY <1>2, <1>5 DEF Chats
  <2> QED BY <1>1, <1>2, <1>3, <2>1, <2>2 DEF Chats
<1> QED BY <1>3, <1>4, <1>8, <1>9, <1>10 DEF SInv

\* The start of a script.
LEMMA BeginNeeds ==
  ASSUME NEW script, Len(script) \in Nat, NEW kept, NEW who, NEW y, y = Begin(script, kept, who), y.status = "running"
  PROVE  script[y.pc].needs \subseteq DOMAIN y.kept
<1>0. PICK x : x = [Idle EXCEPT !.status = "next", !.kept = kept, !.who = who]
  OBVIOUS
<1>1. RunnerShape(x) /\ x.pc = 0 /\ x.status = "next" /\ x.kept = kept
  BY <1>0 DEF Idle, RunnerShape
<1>2. y = Advance(x, script)
  BY <1>0 DEF Begin
<1>3. y.kept = x.kept /\ Applies(script[y.pc], x.kept)
  <2>1. x.pc \in Nat
    BY <1>1
  <2> QED BY <1>1, <1>2, <2>1, AdvanceStep
<1> QED BY <1>3 DEF Applies

\* A client starts or the seeder is interrupted: the tables stay, and so does
\* what the programs that chat know, but for the pair that starts.
LEMMA StartsSInv ==
  ASSUME CInv, SInv, scenario' = scenario, db' = db, late' = late, run'["main"] = run["main"],
         \A r \in Runners : \/ run'[r] = run[r]
                            \/ run'[r].status = "running" => ScriptOf(r)'[run'[r].pc].needs \subseteq DOMAIN run'[r].kept,
         \A r \in Runners : run'[r] = run[r] => ScriptOf(r)' = ScriptOf(r),
         \/ run'["pair"] = run["pair"]
         \/ \E a, b : /\ a # b /\ a \in VUs /\ b \in VUs /\ run'["pair"].who = <<a, b>>
                      /\ DOMAIN run'["pair"].kept = {Session(a), Session(b)}
  PROVE  SInv'
<1>1. TablesOK(db) /\ Blocking /\ Needing /\ Chats
  BY DEF SInv
<1>2. Blocking'
  BY <1>1 DEF Blocking, MayBlock
<1>3. Needing'
  <2>1. ASSUME NEW r \in Runners, run'[r].status = "running"
        PROVE  ScriptOf(r)'[run'[r].pc].needs \subseteq DOMAIN run'[r].kept
    <3>1. CASE run'[r] = run[r]
      BY <1>1, <2>1, <3>1 DEF Needing, StepOf
    <3>2. CASE run'[r] # run[r]
      BY <2>1, <3>2
    <3> QED BY <3>1, <3>2
  <2> QED BY <2>1 DEF Needing, StepOf
<1>4. TalksAs(run'["main"], Bob, Alice, db') /\ Verified(run'["main"])
  BY <1>1 DEF Chats
<1>5. ASSUME run'["pair"].status # "idle"
      PROVE  /\ run'["pair"].who[1] # run'["pair"].who[2]
             /\ {Session(run'["pair"].who[1]), Session(run'["pair"].who[2])} \subseteq DOMAIN run'["pair"].kept
             /\ TalksAs(run'["pair"], run'["pair"].who[1], run'["pair"].who[2], db')
  <2>1. CASE run'["pair"] = run["pair"]
    BY <1>1, <1>5, <2>1 DEF Chats
  <2>2. ASSUME NEW a, NEW b, a # b, a \in VUs, b \in VUs, run'["pair"].who = <<a, b>>,
               DOMAIN run'["pair"].kept = {Session(a), Session(b)}
        PROVE  /\ run'["pair"].who[1] # run'["pair"].who[2]
               /\ {Session(run'["pair"].who[1]), Session(run'["pair"].who[2])} \subseteq DOMAIN run'["pair"].kept
               /\ TalksAs(run'["pair"], run'["pair"].who[1], run'["pair"].who[2], db')
    <3>1. \A u \in VUs : Session(u) \notin {Conversation, Message}
      BY RunnersAssumption
    <3>2. \A u : Session(u) \notin {Even, Odd}
      BY DEF Session, Even, Odd
    <3>3. Conversation \notin DOMAIN run'["pair"].kept /\ MessageNames \cap DOMAIN run'["pair"].kept = {}
      BY <2>2, <3>1, <3>2 DEF MessageNames
    <3>4. TalksAs(run'["pair"], a, b, db')
      BY <3>3 DEF TalksAs
    <3> QED BY <2>2, <3>4
  <2> QED BY <2>1, <2>2
<1>6. Chats'
  BY <1>4, <1>5 DEF Chats
<1> QED BY <1>1, <1>2, <1>3, <1>6 DEF SInv

LEMMA StartVirtualUsersSInv ==
  ASSUME CInv, SInv, StartVirtualUsers
  PROVE  SInv'
<1>1. /\ run' = [r \in Runners |-> IF r \in VUs THEN Begin(UserScripts[r], Empty, <<>>) ELSE run[r]]
      /\ scenario' = scenario /\ db' = db /\ late' = late
  BY DEF StartVirtualUsers
<1>2. /\ run'["main"] = run["main"] /\ run'["pair"] = run["pair"]
      /\ \A r \in Runners : r \notin VUs => run'[r] = run[r]
  BY <1>1, RunnerNames
<1>3. \A r \in Runners : ScriptOf(r)' = ScriptOf(r)
  BY <1>1, <1>2, SameScripts
<1>4. ASSUME NEW r \in VUs, run'[r].status = "running"
      PROVE  ScriptOf(r)[run'[r].pc].needs \subseteq DOMAIN run'[r].kept
  <2>1. r \in Runners /\ ScriptOf(r) = UserScripts[r] /\ Len(ScriptOf(r)) \in Nat
    BY RunnerNames, Scripts DEF ScriptOf
  <2>2. run'[r] = Begin(UserScripts[r], Empty, <<>>)
    BY <1>1, <2>1
  <2> QED BY <1>4, <2>1, <2>2, BeginNeeds
<1> QED BY <1>1, <1>2, <1>3, <1>4, StartsSInv

LEMMA StartPairSInv ==
  ASSUME CInv, SInv, StartPair
  PROVE  SInv'
<1>1. PICK a, b, kept :
        /\ a \in VUs /\ b \in VUs /\ a # b /\ DOMAIN kept = {Session(a), Session(b)}
        /\ run' = [run EXCEPT !["pair"] = Begin(PairScripts[<<a, b>>], kept, <<a, b>>)]
        /\ scenario' = scenario /\ db' = db /\ late' = late
  <2>1. PICK i, j, a, b, kept :
          /\ i \in eligible /\ j \in eligible /\ i < j /\ a = VirtualUsers[i] /\ b = VirtualUsers[j]
          /\ kept = [n \in {Session(a), Session(b)} |-> run[n[1]].kept[n]]
          /\ run' = [run EXCEPT !["pair"] = Begin(PairScripts[<<a, b>>], kept, <<a, b>>)]
          /\ scenario' = scenario /\ db' = db /\ late' = late
    BY Zenon DEF StartPair
  <2>2. i \in DOMAIN VirtualUsers /\ j \in DOMAIN VirtualUsers /\ i \in Int /\ j \in Int /\ i # j
    BY <2>1, RunnersAssumption DEF eligible
  <2>3. a \in VUs /\ b \in VUs
    BY <2>1, <2>2, RunnersAssumption
  <2>4. a # b
    BY <2>1, <2>2, RunnersAssumption
  <2>5. DOMAIN kept = {Session(a), Session(b)}
    BY <2>1
  <2> QED BY <2>1, <2>3, <2>4, <2>5
<1>2. PICK n : n = Begin(PairScripts[<<a, b>>], kept, <<a, b>>)
  OBVIOUS
<1>3. OthersWait("pair") /\ run'["pair"] = n
  BY <1>1, <1>2, RunnerNames, Moved
<1>4. Len(PairScripts[<<a, b>>]) \in Nat
  <2>1. PairScripts[<<a, b>>] = runConcurrentChatPair(a, b)
    BY <1>1 DEF PairScripts
  <2> QED BY <2>1, ChatPairCalls, ScriptLen DEF Harmless
<1>5. n.who = <<a, b>> /\ n.kept = kept
  BY <1>2, <1>4, BeginStep
<1>6. ScriptOf("pair")' = PairScripts[<<a, b>>]
  BY <1>3, <1>5 DEF ScriptOf
<1>7. n.status = "running" => PairScripts[<<a, b>>][n.pc].needs \subseteq DOMAIN n.kept
  BY <1>2, <1>4, BeginNeeds
<1>8. \A r \in Runners : r # "pair" => ScriptOf(r)' = ScriptOf(r)
  BY <1>1 DEF ScriptOf
<1>9. run'["pair"] = run["pair"] => ScriptOf("pair")' = ScriptOf("pair")
  BY <1>1, SameScripts, RunnerNames
<1> QED BY <1>1, <1>3, <1>5, <1>6, <1>7, <1>8, <1>9, RunnerNames, StartsSInv DEF OthersWait

LEMMA SeederSInv ==
  ASSUME CInv, SInv, Crash \/ Rerun
  PROVE  SInv'
<1>1. scenario' = scenario /\ db' = db /\ late' = late
  BY DEF Crash, Rerun
<1>2. PICK n : /\ run' = [run EXCEPT !["seeder"] = n]
               /\ n.status = "running" => ScriptOf("seeder")[n.pc].needs \subseteq DOMAIN n.kept
  <2>1. CASE Crash
    <3>1. PICK n : n = [run["seeder"] EXCEPT !.status = "crashed"] /\ run' = [run EXCEPT !["seeder"] = n]
      BY <2>1 DEF Crash, CInv, Runs
    <3>2. n.status = "crashed"
      BY <3>1, RunnerNames DEF CInv, Runs, InScript, RunnerShape
    <3> QED BY <3>1, <3>2
  <2>2. CASE Rerun
    <3>1. PICK n : /\ n = Begin(SeedScripts[scenario.tables], Empty, <<>>)
                   /\ run' = [run EXCEPT !["seeder"] = n]
      BY <2>2 DEF Rerun
    <3>2. ScriptOf("seeder") = SeedScripts[scenario.tables] /\ Len(ScriptOf("seeder")) \in Nat
      BY RunnerNames, Scripts
    <3> QED BY <3>1, <3>2, BeginNeeds
  <2> QED BY <2>1, <2>2
<1>3. OthersWait("seeder") /\ run'["seeder"] = n
  BY <1>2, RunnerNames, Moved
<1>4. run'["pair"] = run["pair"] /\ run'["main"] = run["main"]
  BY <1>3, RunnerNames DEF OthersWait
<1>5. \A r \in Runners : ScriptOf(r)' = ScriptOf(r)
  BY <1>1, <1>4, SameScripts
<1> QED BY <1>1, <1>2, <1>3, <1>4, <1>5, StartsSInv DEF OthersWait

LEMMA InitSInv == Init => SInv
<1> SUFFICES ASSUME Init PROVE SInv
  OBVIOUS
<1>0. CInv
  BY InitCInv
<1>1. db = NewDb /\ late = {}
  BY DEF Init
<1>2. ASSUME NEW r \in Runners
      PROVE  \/ run[r] = Idle
             \/ r = "main" /\ run[r] = Begin(MainSteps, Empty, <<>>)
             \/ r = "seeder" /\ run[r] = Begin(SeedScripts[scenario.tables], Empty, <<>>)
  BY DEF Init
<1>3. TablesOK(db)
  <2>1. Numbered(Empty)
    BY FS_EmptySet DEF Numbered, Empty
  <2> QED BY <1>1, <2>1 DEF TablesOK, NewDb, RowTables, Empty
<1>4. Blocking
  BY <1>1 DEF Blocking, NewDb
<1>5. Needing
  <2>1. ASSUME NEW r \in Runners, run[r].status = "running"
        PROVE  StepOf(r).needs \subseteq DOMAIN run[r].kept
    <3>1. run[r] # Idle
      BY <2>1 DEF Idle
    <3>2. Len(ScriptOf(r)) \in Nat
      BY <1>0, <1>2, <2>1, <3>1, Scripts, RunnerNames
    <3>3. run[r] = Begin(ScriptOf(r), Empty, <<>>)
      BY <1>2, <3>1 DEF ScriptOf
    <3> QED BY <2>1, <3>2, <3>3, BeginNeeds DEF StepOf
  <2> QED BY <2>1 DEF Needing
<1>6. Chats
  <2>1. run["pair"].status = "idle"
    BY <1>2, RunnerNames DEF Idle
  <2>2. run["main"] = Idle \/ run["main"] = Begin(MainSteps, Empty, <<>>)
    BY <1>2, RunnerNames
  <2>3. DOMAIN run["main"].kept = {} /\ Verified(run["main"])
    <3>1. CASE run["main"] = Idle
      BY <3>1 DEF Idle, Empty, Verified
    <3>2. CASE run["main"] = Begin(MainSteps, Empty, <<>>)
      <4>1. Len(MainSteps) \in Nat
        BY MainCalls DEF MainSteps
      <4>2. PICK x : x = [Idle EXCEPT !.status = "next", !.kept = Empty, !.who = <<>>]
        OBVIOUS
      <4>3. RunnerShape(x) /\ x.pc = 0 /\ x.pc \in Nat /\ x.status = "next" /\ x.kept = Empty
        BY <4>2 DEF Idle, RunnerShape
      <4> PICK y : y = run["main"]
        OBVIOUS
      <4>4. y = Advance(x, MainSteps)
        BY <3>2, <4>2 DEF Begin
      <4>5. /\ y.kept = x.kept
            /\ \/ y.pc = 0
               \/ y.pc \in 1 .. Len(MainSteps) /\ \A i \in 1 .. Len(MainSteps) : Applies(MainSteps[i], x.kept) => y.pc <= i
        BY <4>1, <4>3, <4>4, AdvanceStep
      <4>6. \A i \in 1 .. y.pc - 1 : ~Applies(MainScript[i], x.kept)
        BY <4>1, <4>5 DEF MainSteps
      <4>7. Verified(y)
        BY <4>6, VerifyCall DEF Verified
      <4> QED BY <4>3, <4>5, <4>7 DEF Empty
    <3> QED BY <2>2, <3>1, <3>2
  <2>4. TalksAs(run["main"], Bob, Alice, db)
    BY <2>3 DEF TalksAs
  <2> QED BY <2>1, <2>3, <2>4 DEF Chats
<1> QED BY <1>3, <1>4, <1>5, <1>6 DEF SInv

LEMMA NextSInv == CInv /\ SInv /\ [Next]_vars => SInv'
<1> SUFFICES ASSUME CInv, SInv, [Next]_vars PROVE SInv'
  OBVIOUS
<1>1. ASSUME NEW r \in Runners, RunnerStep(r) PROVE SInv'
  BY <1>1, CallsSInv, CheckedSInv DEF RunnerStep
<1>2. CASE ServedLate
  BY <1>2, LateSInv
<1>3. CASE StartVirtualUsers
  BY <1>3, StartVirtualUsersSInv
<1>4. CASE StartPair
  BY <1>4, StartPairSInv
<1>5. CASE Crash \/ Rerun
  BY <1>5, SeederSInv
<1>6. CASE UNCHANGED vars
  <2>1. scenario' = scenario /\ db' = db /\ run' = run /\ late' = late
    BY <1>6 DEF vars
  <2>2. \A r \in Runners : ScriptOf(r)' = ScriptOf(r)
    BY <2>1, SameScripts
  <2>3. Needing'
    BY <2>1, <2>2 DEF SInv, Needing, StepOf
  <2>4. Blocking' /\ Chats'
    BY <2>1 DEF SInv, Blocking, MayBlock, Chats
  <2> QED BY <2>1, <2>3, <2>4 DEF SInv
<1> QED BY <1>1, <1>2, <1>3, <1>4, <1>5, <1>6 DEF Next

\* Any number of clients, faults and late calls: the rows of the tables keep
\* their numbers, nobody of a chat has blocked the other while they chat, and
\* the conversation and the messages a program keeps are in the tables.
THEOREM ClientsKnowTheChat == Spec => []SInv
<1> QED BY InitSInv, NextSInv, ClientsInvariant, PTL DEF Spec

-----------------------------------------------------------------------------
(* No event is left unacknowledged *)

\* An event that is as far as its chat needs it is answered with an ack.
LEMMA AckedServed ==
  ASSUME NEW d, NEW x, NEW a \in People, NEW b \in People, TalksAs(x, a, b, d), NEW step, Acked(step, a, b),
         step.needs \subseteq DOMAIN x.kept, {<<a>>, <<b>>} \subseteq DOMAIN x.kept,
         <<a, b>> \notin d.blocks, <<b, a>> \notin d.blocks
  PROVE  Serve(d, RequestOf(x, step)).code \in step.expect
<1> PICK q, answer : q = RequestOf(x, step) /\ answer = Serve(d, q)
  OBVIOUS
<1>1. /\ q.op = step.op /\ q.id = RowIn(x, step.row) /\ q.by = step.by
      /\ step.by \in {a, b} /\ step.expect = {200}
  BY DEF RequestOf, Acked
<1>2. q.by # NoOne /\ q.op \notin AdminRoutes
  <2>1. q.by # NoOne
    BY <1>1, PeopleAssumption DEF NoOne
  <2>2. q.op \in {"connect", "conversation.join", "message.send", "message.read"}
    BY <1>1 DEF Acked
  <2> QED BY <2>1, <2>2 DEF AdminRoutes
<1>3. answer = Handle(d, q)
  BY <1>2 DEF Serve, Denied
<1>4. ASSUME q.id[1] = {a, b}, {a, b} \in d.conversations
      PROVE  assertConversationParticipant(d, q) = 0
  BY <1>1, <1>4 DEF assertConversationParticipant, hasBlockBetweenUsers
<1>5. CASE step.op = "connect"
  <2>1. \E row : answer = Reply(d, 200, {row})
    BY <1>1, <1>3, <1>5 DEF Handle
  <2> QED BY <1>1, <2>1 DEF Reply
<1>6. CASE step.op \in {"conversation.join", "message.send"} /\ step.row = Conversation /\ Conversation \in step.needs
  <2>1. q.id[1] = {a, b} /\ {a, b} \in d.conversations
    BY <1>1, <1>6 DEF RowIn, TalksAs
  <2>2. assertConversationParticipant(d, q) = 0
    BY <1>4, <2>1
  <2>3. CASE step.op = "conversation.join"
    <3>1. answer = InConversation(d, q, Reply(d, 200, {}))
      BY <1>1, <1>3, <2>3 DEF Handle
    <3> QED BY <1>1, <2>2, <3>1 DEF InConversation, Reply
  <2>4. CASE step.op = "message.send"
    <3>1. answer = sendMessage(d, q)
      BY <1>1, <1>3, <2>4 DEF Handle
    <3>2. \E e, rows : answer = Reply(e, 200, rows)
      BY <2>2, <3>1 DEF InConversation, sendMessage
    <3> QED BY <1>1, <3>2 DEF Reply
  <2> QED BY <1>6, <2>3, <2>4
<1>7. CASE /\ step.op = "message.read" /\ step.row \in MessageNames /\ step.row \in step.needs
           /\ step.by # Sender(step.row, a, b)
  <2>1. /\ q.id[1] = {a, b} /\ {a, b} \in d.conversations
        /\ q.id \in DOMAIN d.messages /\ d.messages[q.id].by # q.by
    <3>1. step.row \in MessageNames \cap DOMAIN x.kept /\ q.id = x.kept[step.row].id
      BY <1>1, <1>7 DEF RowIn
    <3>2. /\ x.kept[step.row].id[1] = {a, b} /\ {a, b} \in d.conversations
          /\ x.kept[step.row].id \in DOMAIN d.messages
          /\ d.messages[x.kept[step.row].id].by = Sender(step.row, a, b)
      BY <3>1 DEF TalksAs
    <3> QED BY <1>1, <1>7, <3>1, <3>2
  <2>2. assertConversationParticipant(d, q) = 0
    BY <1>4, <2>1
  <2>3. \E e, rows : answer = Reply(e, 200, rows)
    BY <1>1, <1>3, <1>7, <2>1, <2>2 DEF Handle, InConversation, markRead
  <2> QED BY <1>1, <2>3 DEF Reply
<1> QED BY <1>5, <1>6, <1>7 DEF Acked

LEMMA AllAcknowledged ==
  ASSUME CInv, SInv, NEW r \in Runners, run[r].status = "running"
  PROVE  ~Unacknowledged(r)
<1>1. TablesOK(db) /\ Blocking /\ Needing /\ Chats
  BY DEF SInv
<1>2. StepOf(r).needs \subseteq DOMAIN run[r].kept
  BY <1>1 DEF Needing
<1>3. CASE r = "main" /\ StepOf(r).socket
  <2>1. /\ ChatStep(StepOf(r), Bob, Alice) /\ run[r].pc > Len(Early) /\ run[r].pc <= Len(UpToChat) /\ run[r].pc \in Nat
    BY <1>1, <1>3, CallsOf DEF CInv, Runs, InScript
  <2>2. Acked(StepOf(r), Bob, Alice)
    BY <1>3, <2>1 DEF ChatStep
  <2>3. ASSUME NEW p \in {Alice, Bob}
        PROVE  <<p>> \in DOMAIN run[r].kept
    <3>1. PICK i \in 1 .. Len(Early) : MainScript[i] = Verify(p)
      BY MainAt
    <3>2. i \in 1 .. run[r].pc - 1
      BY <2>1, <3>1, MainAt
    <3>3. MainScript[i].save \subseteq DOMAIN run[r].kept
      BY <1>1, <1>3, <3>1, <3>2 DEF Chats, Verified
    <3> QED BY <3>1, <3>3, VerifyCall
  <2>4. ~MayBlock(Alice) /\ ~MayBlock(Bob)
    BY <1>3, <2>1, MainAt DEF MayBlock
  <2>5. <<Alice, Bob>> \notin db.blocks /\ <<Bob, Alice>> \notin db.blocks
    BY <1>1, <2>4 DEF Blocking
  <2>6. TalksAs(run[r], Bob, Alice, db)
    BY <1>1, <1>3 DEF Chats
  <2>7. Alice \in People /\ Bob \in People
    BY RunnersAssumption
  <2> QED BY <1>2, <2>2, <2>3, <2>5, <2>6, <2>7, AckedServed DEF Unacknowledged
<1>4. CASE r = "pair" /\ StepOf(r).socket
  <2> PICK a, b : a = run[r].who[1] /\ b = run[r].who[2]
    OBVIOUS
  <2>1. a \in VUs /\ b \in VUs /\ {Session(a), Session(b)} \subseteq DOMAIN run[r].kept /\ TalksAs(run[r], a, b, db)
    BY <1>1, <1>4 DEF Chats, CInv, Runs
  <2>2. ChatStep(StepOf(r), a, b)
    BY <1>1, <1>4, CallsOf
  <2>3. Acked(StepOf(r), a, b)
    BY <1>4, <2>2 DEF ChatStep
  <2>4. <<a, b>> \notin db.blocks /\ <<b, a>> \notin db.blocks
    BY <1>1, <2>1 DEF Blocking, MayBlock
  <2>5. a \in People /\ b \in People
    BY <2>1, RunnersAssumption
  <2>6. {<<a>>, <<b>>} \subseteq DOMAIN run[r].kept
    BY <2>1 DEF Session
  <2> QED BY <1>2, <2>1, <2>3, <2>4, <2>5, <2>6, AckedServed DEF Unacknowledged
<1>5. CASE r \in VUs
  BY <1>1, <1>5, CallsOf DEF Plain, Unacknowledged
<1> QED BY <1>3, <1>4, <1>5, RunnerNames DEF Unacknowledged

\* simulate-flows (apiCall, callWithRetry, emitWithAck) and dev-seeder
\* (SeedApiClient.request): for any virtual users, any seed tables and any
\* number of timeouts, throttled and late calls, no client repeats itself for
\* ever and no event of the scripts goes unacknowledged: the other side of the
\* conversation has not blocked it, and the row the event is about exists.
THEOREM AllClientsGetOn == Spec => ClientsGetOn
<1>1. CInv /\ SInv /\ [Next]_vars =>
        [\A r \in Runners : run'[r] # run[r] /\ run[r].status = "running" => GetsOn(run[r], run'[r])]_vars
  BY NextGetsOn, AllAcknowledged
<1> QED BY <1>1, ClientsInvariant, ClientsKnowTheChat, PTL DEF Spec, ClientsGetOn

-----------------------------------------------------------------------------
(* Every row once: what the clients and the late calls may still add *)

Seeded == SeedScripts[scenario.tables]
TableOf(op) == CASE op = "createProduct" -> "products" [] op = "createReport" -> "reports" [] OTHER -> "messages"
CreatedTables == {"products", "reports", "messages"}

\* Whose row a request creates: a conversation's, or that of its caller.
OwnerOf(q) == IF q.op = "message.send" THEN q.id[1] ELSE q.by

\* Alice renames one product of hers; both names are the same product's.
Name(t, o, k) == IF t = "products" /\ o = Alice /\ k = "UsedLaptopUpdated" THEN "UsedLaptop" ELSE k

\* The rows of a table under a name, the late requests for one more, and both.
RowsAs(d, t, o, k) == {id \in DOMAIN d[t] : id[1] = o /\ Name(t, o, d[t][id].key) = k}
Asks(q, t, o, k) == q.op \in Creates /\ TableOf(q.op) = t /\ OwnerOf(q) = o /\ Name(t, o, q.val) = k
Sending(L, t, o, k) == {q \in L : Asks(q, t, o, k)}
Total(d, L, t, o, k) == Cardinality(RowsAs(d, t, o, k)) + Cardinality(Sending(L, t, o, k))

\* A request renames no product, deletes none of the seeder's.
Proper(d, q) ==
  /\ q.op = "updateProduct" =>
       /\ q.id \in DOMAIN d.products
       /\ q.by = NoOne \/ q.id[1] # q.by \/ Name("products", q.id[1], q.val) = Name("products", q.id[1], d.products[q.id].key)
  /\ q.op = "deleteProduct" => q.by \in {Alice, Bob, NoOne}
  /\ q.op = "updateProductStatus" => q.val # "deleted"

\* The product a program keeps under n, if any, is in the table under the name k.
Holds(d, x, n, k) ==
  n \in DOMAIN x.kept =>
    /\ x.kept[n].id \in DOMAIN d.products
    /\ Name("products", x.kept[n].id[1], d.products[x.kept[n].id].key) = Name("products", x.kept[n].id[1], k)

\* What the simulator and the seeder know of the rows they write to.
MainKnows(d, x) ==
  /\ Holds(d, x, Product1, "UsedLaptop")
  /\ Product2 \in DOMAIN x.kept => x.kept[Product2].id \in DOMAIN d.products /\ x.kept[Product2].id[1] # Bob
Strangers(o) == \E p \in o : p \notin VUs \cup {Alice, Bob}
SeederKnows(d, x) ==
  \A i \in DOMAIN Seeded :
    /\ Seeded[i].op = "updateProduct" => Holds(d, x, Seeded[i].row, Seeded[i].row)
    /\ Seeded[i].op = "message.send" /\ Seeded[i].row \in DOMAIN x.kept => Strangers(x.kept[Seeded[i].row].id[1])

\* Whose rows a program creates: no two programs create the same.
Mine(r, t, o) ==
  CASE r = "main" -> IF t = "messages" THEN o = {Bob, Alice} ELSE o \in {Alice, Bob}
    [] r = "pair" -> t = "messages" /\ \E a, b \in VUs : o = {a, b}
    [] r = "seeder" -> IF t = "messages" THEN Strangers(o) ELSE o \notin VUs \cup {Alice, Bob}
    [] OTHER -> FALSE

\* A call that has still to be made has no row yet, but for the late ones.
Ahead(t, o, k) == Total(db, late, t, o, k) <= TimeoutsSeen
AheadOf(r, step) == \A o : Mine(r, TableOf(step.op), o) => Ahead(TableOf(step.op), o, step.val)

MainAhead ==
  run["main"].status = "running" =>
    \A i \in run["main"].pc .. Len(MainScript) : MainScript[i].op \in Creates => AheadOf("main", MainScript[i])
PairAhead ==
  /\ run["pair"].status = "idle" => \A o, k : Mine("pair", "messages", o) => Ahead("messages", o, k)
  /\ run["pair"].status = "running" =>
       \A i \in run["pair"].pc .. Len(ScriptOf("pair")) :
         ScriptOf("pair")[i].op \in Creates => AheadOf("pair", ScriptOf("pair")[i])

\* A call of the seeder that creates a row is armed once the listing before it
\* has been read without that row.
OwnerAt(x, step) == IF step.op = "message.send" THEN x.kept[step.row].id[1] ELSE step.by
Armed(x, i) ==
  /\ Seeded[i].op \in Creates /\ Seeded[i].needs \subseteq DOMAIN x.kept
  /\ Seeded[i].lacks \cap DOMAIN x.kept = {}
  /\ \E l \in 1 .. x.pc - 1 : ListedFirst(Seeded, l, i)
SeederAhead ==
  run["seeder"].status = "running" =>
    /\ StepOf("seeder").lacks \cap DOMAIN run["seeder"].kept = {}
    /\ \A i \in run["seeder"].pc .. Len(Seeded) :
         Armed(run["seeder"], i) => Ahead(TableOf(Seeded[i].op), OwnerAt(run["seeder"], Seeded[i]), Seeded[i].val)

\* Only alice and bob delete products.
NoDeleted(d) == \A id \in DOMAIN d.products : d.products[id].status = "deleted" => id[1] \in {Alice, Bob, NoOne}

\* What holds of the rows of the tables, and what the programs know of them.
Known ==
  /\ NoDeleted(db) /\ \A q \in late : Proper(db, q)
  /\ MainKnows(db, run["main"]) /\ SeederKnows(db, run["seeder"])

RInv ==
  /\ Known
  /\ \A t \in CreatedTables : \A o, k : Total(db, late, t, o, k) <= 1 + TimeoutsSeen
  /\ MainAhead /\ PairAhead /\ SeederAhead

-----------------------------------------------------------------------------
(* The calls of the simulator that write rows *)

\* A call about a product or a row that somebody creates is one of these.
Trades(step) ==
  /\ step.op \in Creates => ~step.retry /\ step.val # "UsedLaptopUpdated"
  /\ step.op = "createProduct" => step.by = Alice /\ step.expect = {201}
  /\ step.op = "createReport" => step.by = Bob /\ 201 \in step.expect
  /\ step.op = "message.send" => step.socket
  /\ step.op = "updateProduct" =>
       /\ step.row \in step.needs
       /\ \/ step.by = Alice /\ step.row = Product1 /\ step.val = "UsedLaptopUpdated"
          \/ step.by = Bob /\ step.row = Product2
  /\ step.op = "deleteProduct" => step.by \in {Alice, Bob}
  /\ step.op = "updateProductStatus" => step.val # "deleted" /\ step.by = Alice
  /\ step.op # "updateReportStatus"
  /\ Product1 \in step.save => step.op = "createProduct" /\ step.val = "UsedLaptop"
  /\ Product2 \in step.save => step.op = "createProduct"
  /\ \A f \in step.find : f[1] \notin {Product1, Product2}

TradeOps == {"createProduct", "createReport", "message.send", "updateProduct", "deleteProduct", "updateProductStatus",
             "updateReportStatus"}

LEMMA NoTrade ==
  ASSUME NEW step, step.op \notin TradeOps, step.save \cap {Product1, Product2} = {},
         \A f \in step.find : f[1] \notin {Product1, Product2}
  PROVE  Trades(step) /\ step.op \notin Creates
BY DEF Trades, TradeOps, Creates

LEMMA PlainTrades ==
  ASSUME NEW step, Plain(step)
  PROVE  Trades(step) /\ step.op \notin Creates
<1>1. step.op \notin TradeOps /\ step.save \cap {Product1, Product2} = {}
      /\ \A f \in step.find : f[1] \notin {Product1, Product2}
  BY DEF Plain, Noted, TradeOps, KeptNames
<1> QED BY <1>1, NoTrade

\* Every created row of s is created by one call, and is one of those in M.
MadeOnce(s, M) ==
  /\ Script(s)
  /\ \A i, j \in DOMAIN s : s[i].op \in Creates /\ s[j].op = s[i].op /\ s[j].val = s[i].val => i = j
  /\ \A i \in DOMAIN s : s[i].op \in Creates => <<s[i].op, s[i].val>> \in M

LEMMA MadeByNone ==
  ASSUME NEW s, Script(s), \A step \in ToSet(s) : step.op \notin Creates
  PROVE  MadeOnce(s, {})
BY DEF MadeOnce, ToSet

LEMMA MadeConcat ==
  ASSUME NEW s, NEW t, NEW M, NEW N, MadeOnce(s, M), MadeOnce(t, N), M \cap N = {}
  PROVE  MadeOnce(s \o t, M \cup N)
<1>1. Script(s) /\ Script(t)
  BY DEF MadeOnce
<1> PICK st, m, n : st = s \o t /\ m = Len(s) /\ n = Len(t)
  OBVIOUS
<1>2. Script(st) /\ Len(st) = m + n /\ m \in Nat /\ n \in Nat /\ PartOf(s, st, 0) /\ PartOf(t, st, m)
  BY <1>1, ConcatAt
<1>3. DOMAIN s = 1 .. m /\ DOMAIN t = 1 .. n /\ DOMAIN st = 1 .. m + n
  BY <1>1, <1>2, ScriptLen
<1>4. ASSUME NEW i \in DOMAIN st
      PROVE  \/ i \in DOMAIN s /\ st[i] = s[i]
             \/ i - m \in DOMAIN t /\ i > m /\ st[i] = t[i - m]
  <2>1. CASE i <= m
    BY <1>2, <1>3, <2>1 DEF PartOf
  <2>2. CASE i > m
    <3>1. i - m \in 1 .. n /\ i = m + (i - m)
      BY <1>2, <1>3, <2>2
    <3> QED BY <1>2, <1>3, <2>2, <3>1 DEF PartOf
  <2> QED BY <1>2, <1>3, <2>1, <2>2
<1>5. ASSUME NEW i \in DOMAIN st, st[i].op \in Creates
      PROVE  \/ i \in DOMAIN s /\ st[i] = s[i] /\ <<st[i].op, st[i].val>> \in M
             \/ i - m \in DOMAIN t /\ st[i] = t[i - m] /\ <<st[i].op, st[i].val>> \in N
  BY <1>4, <1>5 DEF MadeOnce
<1>6. ASSUME NEW i \in DOMAIN st, NEW j \in DOMAIN st, st[i].op \in Creates, st[j].op = st[i].op, st[j].val = st[i].val
      PROVE  i = j
  <2>1. /\ \/ i \in DOMAIN s /\ st[i] = s[i] /\ <<st[i].op, st[i].val>> \in M
           \/ i - m \in DOMAIN t /\ st[i] = t[i - m] /\ <<st[i].op, st[i].val>> \in N
        /\ \/ j \in DOMAIN s /\ st[j] = s[j] /\ <<st[i].op, st[i].val>> \in M
           \/ j - m \in DOMAIN t /\ st[j] = t[j - m] /\ <<st[i].op, st[i].val>> \in N
    BY <1>5, <1>6
  <2>2. CASE i \in DOMAIN s /\ st[i] = s[i] /\ j \in DOMAIN s /\ st[j] = s[j]
    BY <1>6, <2>2 DEF MadeOnce
  <2>3. CASE i - m \in DOMAIN t /\ st[i] = t[i - m] /\ j - m \in DOMAIN t /\ st[j] = t[j - m]
    <3>1. i - m = j - m
      BY <1>6, <2>3 DEF MadeOnce
    <3> QED BY <1>2, <1>3, <3>1
  <2> QED BY <2>1, <2>2, <2>3
<1>7. \A i \in DOMAIN st : st[i].op \in Creates => <<st[i].op, st[i].val>> \in M \cup N
  BY <1>5
<1> QED BY <1>2, <1>6, <1>7 DEF MadeOnce

SellerMarks == {<<"createProduct", "UsedLaptop">>, <<"createProduct", "VintageCamera">>}

LEMMA ProductFlow ==
  /\ \A step \in ToSet(flow07_products) : Trades(step)
  /\ MadeOnce(flow07_products, SellerMarks)
<1> PICK s : s = flow07_products
  OBVIOUS
<1>0. Product1 # Product2
  BY DEF Product1, Product2
<1>1. /\ s[1].op = "createProduct" /\ s[1].by = Alice /\ s[1].val = "UsedLaptop" /\ s[1].expect = {201}
      /\ ~s[1].retry /\ s[1].save = {Product1} /\ s[1].find = {}
  BY DEF flow07_products, CreateProduct, Critical, Keep, Picture, Val, Call
<1>2. /\ s[2].op = "createProduct" /\ s[2].by = Alice /\ s[2].val = "VintageCamera" /\ s[2].expect = {201}
      /\ ~s[2].retry /\ s[2].save = {Product2} /\ s[2].find = {}
  BY DEF flow07_products, CreateProduct, Critical, Keep, Picture, Val, Call
<1>3. /\ s[3].op = "updateProduct" /\ s[3].by = Alice /\ s[3].val = "UsedLaptopUpdated" /\ s[3].row = Product1
      /\ Product1 \in s[3].needs /\ s[3].save = {} /\ s[3].find = {}
  BY DEF flow07_products, Val, At, Call
<1>4. /\ s[4].op = "updateProductStatus" /\ s[4].by = Alice /\ s[4].val = "sold"
      /\ s[4].save = {} /\ s[4].find = {}
  BY DEF flow07_products, Val, At, Call
<1>5. s[5].op = "deleteProduct" /\ s[5].by = Alice /\ s[5].save = {} /\ s[5].find = {}
  BY DEF flow07_products, At, Call
<1>6. s[6].op = "listMyProducts" /\ s[6].save = {} /\ s[6].find = {}
  BY DEF flow07_products, Call
<1>7. s[7] = s[6] /\ s[8] = s[6]
  BY DEF flow07_products
<1>8. Script(s) /\ DOMAIN s = 1 .. 8
  BY flow07b DEF Harmless, flow07_products
<1>9. Trades(s[1]) /\ Trades(s[2])
  BY <1>0, <1>1, <1>2 DEF Trades, Creates
<1>10. Trades(s[3]) /\ Trades(s[4]) /\ Trades(s[5])
  BY <1>3, <1>4, <1>5 DEF Trades, Creates
<1>11. Trades(s[6])
  BY <1>6 DEF Trades, Creates
<1>12. \A i \in 1 .. 8 : i = 1 \/ i = 2 \/ i = 3 \/ i = 4 \/ i = 5 \/ i = 6 \/ i = 7 \/ i = 8
  OBVIOUS
<1>13. \A i \in 1 .. 8 : Trades(s[i])
  BY <1>7, <1>9, <1>10, <1>11, <1>12
<1>14. \A i \in 1 .. 8 : s[i].op \in Creates => i = 1 \/ i = 2
  BY <1>3, <1>4, <1>5, <1>6, <1>7, <1>12 DEF Creates
<1>15. MadeOnce(s, SellerMarks)
  <2>1. ASSUME NEW i \in DOMAIN s, NEW j \in DOMAIN s, s[i].op \in Creates, s[j].op = s[i].op, s[j].val = s[i].val
        PROVE  i = j
    <3>1. (i = 1 \/ i = 2) /\ (j = 1 \/ j = 2)
      BY <1>8, <1>14, <2>1
    <3> QED BY <1>1, <1>2, <2>1, <3>1
  <2>2. <<s[1].op, s[1].val>> \in SellerMarks /\ <<s[2].op, s[2].val>> \in SellerMarks
    BY <1>1, <1>2 DEF SellerMarks
  <2>3. \A i \in DOMAIN s : s[i].op \in Creates => <<s[i].op, s[i].val>> \in SellerMarks
    BY <1>8, <1>14, <2>2
  <2> QED BY <1>8, <2>1, <2>3 DEF MadeOnce
<1> QED BY <1>8, <1>13, <1>15 DEF ToSet

\* A flow of calls that trade in nothing.
Idles(s) == \A step \in ToSet(s) : Trades(step) /\ step.op \notin Creates

LEMMA IdleFlows ==
  Idles(flow08_chat) /\ Idles(flow10_blocksAndSafety) /\ (\A s : AllPlain(s) => Idles(s))
<1>1. Idles(flow08_chat)
  <2>1. ASSUME NEW i \in 1 .. 10, i # 2
        PROVE  Plain(flow08_chat[i])
    BY <2>1, PlainCalled, PlainRefined, OtherNames DEF flow08_chat, Noted
  <2>2. flow08_chat[2].op = "createConversation" /\ flow08_chat[2].save = {Conversation} /\ flow08_chat[2].find = {}
    BY DEF flow08_chat, Keep, Offer, On, Call
  <2>3. Trades(flow08_chat[2]) /\ flow08_chat[2].op \notin Creates
    <3>1. flow08_chat[2].op \notin TradeOps
      BY <2>2 DEF TradeOps
    <3>2. flow08_chat[2].save \cap {Product1, Product2} = {}
      BY <2>2 DEF Conversation, Product1, Product2
    <3> QED BY <2>2, <3>1, <3>2, NoTrade
  <2>4. DOMAIN flow08_chat = 1 .. 10
    BY DEF flow08_chat
  <2>5. ASSUME NEW i \in 1 .. 10
        PROVE  Trades(flow08_chat[i]) /\ flow08_chat[i].op \notin Creates
    <3>1. CASE i = 2
      BY <2>3, <3>1
    <3>2. CASE i # 2
      BY <2>1, <3>2, PlainTrades
    <3> QED BY <3>1, <3>2
  <2> QED BY <2>4, <2>5 DEF Idles, ToSet
<1>2. Idles(flow10_blocksAndSafety)
  <2> PICK s : s = flow10_blocksAndSafety
    OBVIOUS
  <2>1. s[1].op = "blockUser" /\ s[1].save = {} /\ s[1].find = {}
    BY DEF flow10_blocksAndSafety, On, Call
  <2>2. Trades(s[1]) /\ s[1].op \notin Creates
    <3>1. s[1].op \notin TradeOps
      BY <2>1 DEF TradeOps
    <3> QED BY <2>1, <3>1, NoTrade
  <2>3. ASSUME NEW i \in 2 .. 5
        PROVE  Plain(s[i])
    BY PlainCalled, PlainRefined DEF flow10_blocksAndSafety, Noted
  <2>4. DOMAIN s = 1 .. 5
    BY DEF flow10_blocksAndSafety
  <2>5. ASSUME NEW i \in 1 .. 5
        PROVE  Trades(s[i]) /\ s[i].op \notin Creates
    <3>1. CASE i = 1
      BY <2>2, <3>1
    <3>2. CASE i # 1
      BY <2>3, <3>2, PlainTrades
    <3> QED BY <3>1, <3>2
  <2> QED BY <2>4, <2>5 DEF Idles, ToSet
<1>3. \A s : AllPlain(s) => Idles(s)
  BY PlainTrades DEF AllPlain, Idles
<1> QED BY <1>1, <1>2, <1>3

LEMMA SocketFlow ==
  /\ \A step \in ToSet(flow09_websocket) : Trades(step)
  /\ MadeOnce(flow09_websocket, {<<"message.send", "Hello">>})
<1> PICK s : s = flow09_websocket
  OBVIOUS
<1>1. s[1].op = "connect" /\ s[1].save = {BobSocket} /\ s[1].find = {}
  BY DEF flow09_websocket, Event, Needs, Keep, Call
<1>2. s[2].op = "connect" /\ s[2].save = {Sockets} /\ s[2].find = {}
  BY DEF flow09_websocket, Event, Needs, Keep, Call
<1>3. s[3].op = "conversation.join" /\ s[3].save = {} /\ s[3].find = {}
  BY DEF flow09_websocket, Event, Needs, At, Call
<1>4. s[4].op = "conversation.join" /\ s[4].save = {} /\ s[4].find = {}
  BY DEF flow09_websocket, Event, Needs, At, Call
<1>5. s[5].op = "message.send" /\ s[5].save = {Message} /\ s[5].find = {} /\ s[5].val = "Hello"
      /\ ~s[5].retry /\ s[5].socket
  BY DEF flow09_websocket, Event, Needs, Keep, Call, Val, At
<1>6. s[6].op = "message.read" /\ s[6].save = {} /\ s[6].find = {}
  BY DEF flow09_websocket, Event, Needs, At, Call
<1>7. {BobSocket, Sockets, Message} \cap {Product1, Product2} = {}
  BY DEF BobSocket, Sockets, Message, Product1, Product2
<1>8. \A i \in 1 .. 6 : i = 1 \/ i = 2 \/ i = 3 \/ i = 4 \/ i = 5 \/ i = 6
  OBVIOUS
<1>9. \A i \in 1 .. 6 : i # 5 => s[i].op \notin TradeOps
  BY <1>1, <1>2, <1>3, <1>4, <1>6, <1>8 DEF TradeOps
<1>10. \A i \in 1 .. 6 : s[i].save \cap {Product1, Product2} = {} /\ s[i].find = {}
  <2>1. \A i \in 1 .. 6 : s[i].save \subseteq {BobSocket, Sockets, Message} /\ s[i].find = {}
    BY <1>1, <1>2, <1>3, <1>4, <1>5, <1>6, <1>8
  <2> QED BY <1>7, <2>1
<1>11. \A i \in 1 .. 6 : i # 5 => Trades(s[i]) /\ s[i].op \notin Creates
  BY <1>9, <1>10, NoTrade
<1>12. Trades(s[5])
  BY <1>5, <1>7 DEF Trades, Creates
<1>13. Script(s) /\ DOMAIN s = 1 .. 6
  BY flow09 DEF Harmless, flow09_websocket
<1>14. MadeOnce(s, {<<"message.send", "Hello">>})
  BY <1>5, <1>11, <1>13 DEF MadeOnce
<1>15. \A i \in DOMAIN s : Trades(s[i])
  BY <1>11, <1>12, <1>13
<1> QED BY <1>14, <1>15 DEF ToSet

LEMMA ReportFlow ==
  /\ \A step \in ToSet(flow12_reportsAndAdmin) : Trades(step)
  /\ MadeOnce(flow12_reportsAndAdmin, {<<"createReport", "SimulatedReport">>})
<1> PICK s : s = flow12_reportsAndAdmin
  OBVIOUS
<1>1. s[1].op = "createReport" /\ s[1].by = Bob /\ s[1].expect = {201} /\ s[1].val = "SimulatedReport" /\ ~s[1].retry
      /\ s[1].save = {} /\ s[1].find = {}
  BY DEF flow12_reportsAndAdmin, Val, On, Call
<1>2. Trades(s[1])
  BY <1>1 DEF Trades, Creates
<1>3. ASSUME NEW i \in 2 .. 9
      PROVE  Plain(s[i])
  BY PlainCalled, PlainRefined DEF flow12_reportsAndAdmin, Noted
<1>4. Script(s) /\ DOMAIN s = 1 .. 9
  BY flow12 DEF flow12_reportsAndAdmin
<1>5. \A i \in 1 .. 9 : i = 1 \/ i \in 2 .. 9
  OBVIOUS
<1>6. \A i \in 1 .. 9 : i # 1 => Trades(s[i]) /\ s[i].op \notin Creates
  BY <1>3, <1>5, PlainTrades
<1>7. MadeOnce(s, {<<"createReport", "SimulatedReport">>})
  BY <1>1, <1>4, <1>6 DEF MadeOnce
<1>8. \A i \in DOMAIN s : Trades(s[i])
  BY <1>2, <1>4, <1>6
<1> QED BY <1>7, <1>8 DEF ToSet

LEMMA NegativeFlow ==
  /\ \A step \in ToSet(flow13_negativeChecks) : Trades(step)
  /\ MadeOnce(flow13_negativeChecks, {<<"createReport", "DuplicateReport">>})
<1> PICK s : s = flow13_negativeChecks
  OBVIOUS
<1>1. s[6].op = "updateProduct" /\ s[6].by = Bob /\ s[6].row = Product2 /\ Product2 \in s[6].needs
      /\ s[6].save = {} /\ s[6].find = {}
  BY DEF flow13_negativeChecks, At, Call
<1>2. s[7].op = "deleteProduct" /\ s[7].by = Bob /\ s[7].save = {} /\ s[7].find = {}
  BY DEF flow13_negativeChecks, At, Call
<1>3. s[9].op = "createReport" /\ s[9].by = Bob /\ 201 \in s[9].expect /\ s[9].val = "DuplicateReport" /\ ~s[9].retry
      /\ s[9].save = {} /\ s[9].find = {}
  BY DEF flow13_negativeChecks, Val, On, Call
<1>4. Trades(s[6]) /\ Trades(s[7]) /\ Trades(s[9])
  BY <1>1, <1>2, <1>3 DEF Trades, Creates
<1>5. s[6].op \notin Creates /\ s[7].op \notin Creates
  BY <1>1, <1>2 DEF Creates
<1>6. ASSUME NEW i \in 1 .. 5
      PROVE  Plain(s[i])
  BY PlainCalled, PlainRefined, OtherNames DEF flow13_negativeChecks, Noted
<1>7. Plain(s[8])
  BY PlainCalled, PlainRefined DEF flow13_negativeChecks, Noted
<1>8. Script(s) /\ DOMAIN s = 1 .. 9
  BY flow13 DEF Harmless, flow13_negativeChecks
<1>9. \A i \in 1 .. 9 : i \in 1 .. 5 \/ i = 6 \/ i = 7 \/ i = 8 \/ i = 9
  OBVIOUS
<1>10. \A i \in 1 .. 9 : i # 9 => Trades(s[i]) /\ s[i].op \notin Creates
  BY <1>4, <1>5, <1>6, <1>7, <1>9, PlainTrades
<1>11. MadeOnce(s, {<<"createReport", "DuplicateReport">>})
  BY <1>3, <1>8, <1>10 DEF MadeOnce
<1>12. \A i \in DOMAIN s : Trades(s[i])
  BY <1>4, <1>8, <1>10
<1> QED BY <1>11, <1>12 DEF ToSet

\* Every row of the simulator has one call that creates it.
LEMMA MainTrades ==
  /\ \A step \in ToSet(MainScript) : Trades(step)
  /\ \E M : MadeOnce(MainScript, M)
<1> DEFINE m6 == Early \o flow03_adminBootstrap \o flow04_tokenLifecycle \o flow05_passwordReset
                 \o flow06_uploadsAndProfile
           M9 == SellerMarks \cup {<<"message.send", "Hello">>}
           M12 == M9 \cup {<<"createReport", "SimulatedReport">>}
           M13 == M12 \cup {<<"createReport", "DuplicateReport">>}
<1>1. \A s, t : AllPlain(s) /\ AllPlain(t) /\ Script(s) /\ Script(t) => AllPlain(s \o t) /\ Script(s \o t)
  BY ConcatSteps DEF AllPlain
<1>2. AllPlain(m6) /\ Script(m6)
  <2>1. AllPlain(Early) /\ Script(Early)
    BY <1>1, PlainFlows, ComposedFlows, FlowScripts DEF Early
  <2>2. AllPlain(Early \o flow03_adminBootstrap) /\ Script(Early \o flow03_adminBootstrap)
    BY <1>1, <2>1, PlainFlows, FlowScripts
  <2> DEFINE m4 == Early \o flow03_adminBootstrap \o flow04_tokenLifecycle
             m5 == m4 \o flow05_passwordReset
  <2>3. AllPlain(m4) /\ Script(m4)
    BY <1>1, <2>2, PlainFlows, FlowScripts
  <2>4. m5 = m4 \o flow05_passwordReset /\ m6 = m5 \o flow06_uploadsAndProfile
    OBVIOUS
  <2> HIDE DEF m4
  <2>5. AllPlain(m5) /\ Script(m5)
    BY <1>1, <2>3, PlainFlows, FlowScripts
  <2> HIDE DEF m5, m6
  <2> QED BY <1>1, <2>4, <2>5, ComposedFlows, FlowScripts
<1> PICK m7, m8, m9, m10, m11, m12 :
      /\ m7 = m6 \o flow07_seller /\ m8 = m7 \o flow08_buyerAndChat /\ m9 = m8 \o flow09_websocket
      /\ m10 = m9 \o flow10_blocksAndSafety /\ m11 = m10 \o flow11_ratings
      /\ m12 = m11 \o flow12_reportsAndAdmin
  OBVIOUS
<1>3. m9 = UpToChat
  BY DEF UpToChat, Early
<1>4. MainScript = m12 \o flow13_negativeChecks
  BY DEF MainScript, Early
<1> HIDE DEF m6
<1>5. \A s, t, M, N : MadeOnce(s, M) /\ MadeOnce(t, N) /\ M \cap N = {} => MadeOnce(s \o t, M \cup N)
  BY MadeConcat
<1>6. \A s, t, M : MadeOnce(s, M) /\ Script(t) /\ Idles(t) => MadeOnce(s \o t, M)
  <2>1. ASSUME NEW s, NEW t, NEW M, MadeOnce(s, M), Script(t), Idles(t)
        PROVE  MadeOnce(s \o t, M)
    <3>1. MadeOnce(t, {})
      BY <2>1, MadeByNone DEF Idles
    <3>2. MadeOnce(s \o t, M \cup {})
      BY <2>1, <3>1, MadeConcat
    <3>3. M \cup {} = M
      OBVIOUS
    <3> QED BY <3>2, <3>3
  <2> QED BY <2>1
<1>7. \A s, t : Script(s) /\ Script(t) /\ (\A step \in ToSet(s) : Trades(step)) /\ (\A step \in ToSet(t) : Trades(step)) =>
                  Script(s \o t) /\ \A step \in ToSet(s \o t) : Trades(step)
  BY ConcatSteps
<1>8. Script(flow07_products) /\ Script(flow07_category) /\ Script(flow08_chat) /\ Script(flow08_buyer)
  BY flow07a, flow07b, flow08a, flow08b DEF Harmless
<1>9. MadeOnce(flow07_seller, SellerMarks) /\ \A step \in ToSet(flow07_seller) : Trades(step)
  <2>1. Idles(flow07_category) /\ MadeOnce(flow07_category, {})
    BY <1>8, PlainFlows, IdleFlows, MadeByNone DEF Idles
  <2>2. {} \cap SellerMarks = {} /\ {} \cup SellerMarks = SellerMarks
    OBVIOUS
  <2>3. MadeOnce(flow07_category \o flow07_products, {} \cup SellerMarks)
    BY <1>5, <2>1, <2>2, ProductFlow
  <2> QED BY <1>7, <1>8, <2>1, <2>2, <2>3, ProductFlow DEF flow07_seller, Idles
<1>10. Idles(flow08_buyerAndChat)
  <2>1. Idles(flow08_buyer) /\ Idles(flow08_chat)
    BY PlainFlows, IdleFlows
  <2> QED BY <1>8, <2>1, ConcatSteps DEF flow08_buyerAndChat, Idles
<1>11. Idles(flow11_ratings) /\ Idles(flow10_blocksAndSafety)
  BY PlainFlows, IdleFlows
<1>12. MadeOnce(m6, {}) /\ Idles(m6)
  BY <1>2, IdleFlows, MadeByNone DEF Idles
<1>13. MadeOnce(m8, SellerMarks)
  <2>1. {} \cap SellerMarks = {} /\ {} \cup SellerMarks = SellerMarks
    OBVIOUS
  <2>2. MadeOnce(m7, {} \cup SellerMarks)
    BY <1>5, <1>9, <1>12, <2>1
  <2> QED BY <1>6, <1>10, <2>1, <2>2, FlowScripts
<1>14. MadeOnce(m11, M9)
  <2>1. SellerMarks \cap {<<"message.send", "Hello">>} = {}
    BY DEF SellerMarks
  <2>2. MadeOnce(m9, M9)
    BY <1>5, <1>13, <2>1, SocketFlow
  <2> HIDE DEF M9
  <2> QED BY <1>6, <1>11, <2>2, FlowScripts
<1>15. MadeOnce(MainScript, M13)
  <2>1. M9 \cap {<<"createReport", "SimulatedReport">>} = {}
    BY DEF SellerMarks
  <2>2. M12 \cap {<<"createReport", "DuplicateReport">>} = {}
    BY DEF SellerMarks
  <2> HIDE DEF M9
  <2>3. MadeOnce(m12, M12)
    BY <1>5, <1>14, <2>1, ReportFlow
  <2> HIDE DEF M12
  <2> QED BY <1>4, <1>5, <2>2, <2>3, NegativeFlow
<1>16. \A step \in ToSet(MainScript) : Trades(step)
  <2> DEFINE Good(s) == Script(s) /\ \A step \in ToSet(s) : Trades(step)
  <2>1. \A s, t : Good(s) /\ Good(t) => Good(s \o t)
    BY <1>7
  <2>2. Good(m6) /\ Good(flow07_seller) /\ Good(flow08_buyerAndChat) /\ Good(flow09_websocket)
        /\ Good(flow10_blocksAndSafety) /\ Good(flow11_ratings) /\ Good(flow12_reportsAndAdmin)
        /\ Good(flow13_negativeChecks)
    BY <1>2, <1>9, <1>10, <1>11, <1>12, FlowScripts, SocketFlow, ReportFlow, NegativeFlow DEF Idles
  <2> HIDE DEF Good
  <2>3. Good(m7) /\ Good(m8) /\ Good(m9) /\ Good(m10)
    BY <2>1, <2>2
  <2>4. Good(m11) /\ Good(m12) /\ Good(MainScript)
    BY <1>4, <2>1, <2>2, <2>3
  <2> QED BY <2>4 DEF Good
<1> QED BY <1>15, <1>16

\* A pair of virtual users sends messages, each of them once.
Chatting(step) == step.op \in TradeOps => step.op = "message.send" /\ ~step.retry /\ step.socket

LEMMA PairTrades ==
  ASSUME NEW a, NEW b, a # b
  PROVE  /\ \A step \in ToSet(runConcurrentChatPair(a, b)) : Chatting(step)
         /\ \E M : MadeOnce(runConcurrentChatPair(a, b), M)
<1> DEFINE entry == << Critical(Keep(On(Call(a, "createConversation", {201}), b), Conversation)),
                       Call(a, "listConversations", {200}),
                       At(Call(a, "listMessages", {200}), Conversation),
                       Event(Critical(Call(a, "connect", {200}))),
                       Event(Critical(Call(b, "connect", {200}))),
                       Event(Critical(At(Call(a, "conversation.join", {200}), Conversation))),
                       Event(Critical(At(Call(b, "conversation.join", {200}), Conversation))) >>
<1>1. Script(entry) /\ DOMAIN entry = 1 .. 7
  BY DEF Script, ToSet
<1>2. /\ entry[1].op = "createConversation" /\ entry[2].op = "listConversations" /\ entry[3].op = "listMessages"
      /\ entry[4].op = "connect" /\ entry[5].op = "connect"
      /\ entry[6].op = "conversation.join" /\ entry[7].op = "conversation.join"
  <2>1. entry[1].op = "createConversation"
    BY DEF Critical, Keep, On, Call
  <2>2. entry[2].op = "listConversations" /\ entry[3].op = "listMessages"
    BY DEF At, Call
  <2>3. entry[4].op = "connect" /\ entry[5].op = "connect"
    BY DEF Event, Critical, Call
  <2>4. entry[6].op = "conversation.join" /\ entry[7].op = "conversation.join"
    BY DEF Event, Critical, At, Call
  <2> QED BY <2>1, <2>2, <2>3, <2>4
<1>3. \A step \in ToSet(entry) : step.op \notin TradeOps
  <2> HIDE DEF entry
  <2>1. \A i \in 1 .. 7 : i = 1 \/ i = 2 \/ i = 3 \/ i = 4 \/ i = 5 \/ i = 6 \/ i = 7
    OBVIOUS
  <2>2. \A i \in 1 .. 7 : entry[i].op \notin TradeOps
    BY <1>2, <2>1 DEF TradeOps
  <2> QED BY <1>1, <2>2 DEF ToSet
<1>4. MadeOnce(entry, {})
  <2> HIDE DEF entry
  <2> QED BY <1>1, <1>3, MadeByNone DEF TradeOps, Creates
<1>5. ASSUME NEW from, NEW to, NEW name, NEW key, NEW s,
             s = << Event(Critical(Keep(Val(At(Call(from, "message.send", {200}), Conversation), key), name))),
                    Event(Critical(At(Call(to, "message.read", {200}), name))) >>
      PROVE  MadeOnce(s, {<<"message.send", key>>}) /\ \A step \in ToSet(s) : Chatting(step)
  <2>1. s[1].op = "message.send" /\ s[1].val = key /\ ~s[1].retry /\ s[1].socket
    BY <1>5 DEF Event, Critical, Keep, Val, At, Call
  <2>2. s[2].op = "message.read"
    BY <1>5 DEF Event, Critical, At, Call
  <2>3. Script(s) /\ DOMAIN s = 1 .. 2
    BY <1>5 DEF Script, ToSet
  <2>4. \A i \in 1 .. 2 : i = 1 \/ i = 2
    OBVIOUS
  <2> HIDE <1>5
  <2>5. \A i \in 1 .. 2 : s[i].op \in TradeOps => i = 1
    BY <2>2, <2>4 DEF TradeOps
  <2>6. \A step \in ToSet(s) : Chatting(step)
    BY <2>1, <2>3, <2>5 DEF ToSet, Chatting
  <2>7. MadeOnce(s, {<<"message.send", key>>})
    BY <2>1, <2>3, <2>5 DEF MadeOnce, TradeOps, Creates
  <2> QED BY <2>6, <2>7
<1>6. MadeOnce(PairMessage(a, b, 0), {<<"message.send", "fromA">>}) /\ \A step \in ToSet(PairMessage(a, b, 0)) : Chatting(step)
  <2>1. 0 % 2 = 0
    OBVIOUS
  <2>2. PairMessage(a, b, 0) =
          << Event(Critical(Keep(Val(At(Call(a, "message.send", {200}), Conversation), "fromA"), Even))),
             Event(Critical(At(Call(b, "message.read", {200}), Even))) >>
    BY <2>1, Zenon DEF PairMessage, Even
  <2> QED BY <1>5, <2>2
<1>7. MadeOnce(PairMessage(a, b, 1), {<<"message.send", "fromB">>}) /\ \A step \in ToSet(PairMessage(a, b, 1)) : Chatting(step)
  <2>1. 1 % 2 # 0
    OBVIOUS
  <2>2. PairMessage(a, b, 1) =
          << Event(Critical(Keep(Val(At(Call(b, "message.send", {200}), Conversation), "fromB"), Odd))),
             Event(Critical(At(Call(a, "message.read", {200}), Odd))) >>
    BY <2>1, Zenon DEF PairMessage, Odd
  <2> QED BY <1>5, <2>2
<1>8. runConcurrentChatPair(a, b) = (entry \o PairMessage(a, b, 0)) \o PairMessage(a, b, 1)
  BY DEF runConcurrentChatPair, entry
<1> PICK e0, e1, A, B : /\ e0 = entry \o PairMessage(a, b, 0) /\ e1 = e0 \o PairMessage(a, b, 1)
                        /\ A = {<<"message.send", "fromA">>} /\ B = {<<"message.send", "fromB">>}
  OBVIOUS
<1> HIDE DEF entry
<1>9. MadeOnce(e0, A)
  <2>1. {} \cap A = {} /\ {} \cup A = A
    OBVIOUS
  <2>2. MadeOnce(e0, {} \cup A)
    BY <1>4, <1>6, <2>1, MadeConcat
  <2> QED BY <2>1, <2>2
<1>10. MadeOnce(e1, A \cup B)
  <2>1. A \cap B = {}
    OBVIOUS
  <2> QED BY <1>7, <1>9, <2>1, MadeConcat
<1>11. \A step \in ToSet(e1) : Chatting(step)
  <2>1. ToSet(e0) = ToSet(entry) \cup ToSet(PairMessage(a, b, 0)) /\ ToSet(e1) = ToSet(e0) \cup ToSet(PairMessage(a, b, 1))
    BY <1>4, <1>6, <1>7, <1>9, ConcatSteps DEF MadeOnce
  <2>2. \A step \in ToSet(entry) : Chatting(step)
    BY <1>3 DEF Chatting
  <2> QED BY <1>6, <1>7, <2>1, <2>2
<1> QED BY <1>8, <1>10, <1>11

-----------------------------------------------------------------------------
(* The rows after a request *)

\* A request that creates a row has been answered with it.
Made(q, code) == q.by # NoOne /\ code = IF q.op = "message.send" THEN 200 ELSE 201

\* The products stay, under their names.
LEMMA ProductsStay ==
  ASSUME NEW d, TablesOK(d), NEW q, Proper(d, q), NEW e, e = Serve(d, q).db, NEW id \in DOMAIN d.products
  PROVE  /\ id \in DOMAIN e.products
         /\ Name("products", id[1], e.products[id].key) = Name("products", id[1], d.products[id].key)
<1> PICK answer : answer = Serve(d, q)
  OBVIOUS
<1>1. CASE e.products = d.products
  BY <1>1
<1>2. CASE ProductAdded(d, q, answer)
  BY <1>2 DEF ProductAdded, Added
<1>3. CASE ProductWritten(d, q, answer)
  <2>1. PICK key, status : /\ q.id \in DOMAIN d.products /\ q.id[1] = q.by /\ q.by # NoOne
                           /\ Rewrites(q, d.products[q.id], key, status)
                           /\ e.products = [d.products EXCEPT ![q.id] = [key |-> key, status |-> status]]
    BY <1>3 DEF ProductWritten
  <2>2. CASE id = q.id
    <3>1. e.products[id].key = key
      BY <2>1, <2>2
    <3>2. key = d.products[id].key \/ (q.op = "updateProduct" /\ key = q.val)
      BY <2>1, <2>2 DEF Rewrites
    <3>3. q.op = "updateProduct" => Name("products", id[1], q.val) = Name("products", id[1], d.products[id].key)
      BY <2>1, <2>2 DEF Proper
    <3> QED BY <2>1, <3>1, <3>2, <3>3
  <2>3. CASE id # q.id
    BY <2>1, <2>3
  <2> QED BY <2>2, <2>3
<1> QED BY <1>1, <1>2, <1>3, ProductsServed

\* Nobody else's product is deleted.
LEMMA DeletedServed ==
  ASSUME NEW d, TablesOK(d), NoDeleted(d), NEW q, Proper(d, q), NEW e, e = Serve(d, q).db
  PROVE  NoDeleted(e)
<1> PICK answer : answer = Serve(d, q)
  OBVIOUS
<1>1. CASE e.products = d.products
  BY <1>1 DEF NoDeleted
<1>2. CASE ProductAdded(d, q, answer)
  BY <1>2 DEF ProductAdded, Added, NoDeleted
<1>3. CASE ProductWritten(d, q, answer)
  <2>1. PICK key, status : /\ q.id \in DOMAIN d.products /\ q.id[1] = q.by /\ q.by # NoOne
                           /\ Rewrites(q, d.products[q.id], key, status)
                           /\ e.products = [d.products EXCEPT ![q.id] = [key |-> key, status |-> status]]
    BY <1>3 DEF ProductWritten
  <2>2. status = "deleted" => q.id[1] \in {Alice, Bob, NoOne}
    BY <2>1 DEF Rewrites, Proper, NoDeleted
  <2> QED BY <2>1, <2>2 DEF NoDeleted
<1> QED BY <1>1, <1>2, <1>3, ProductsServed

\* A request adds at most one row to the rows of a name, and only the one it
\* asks for.
LEMMA RowsServed ==
  ASSUME NEW d, TablesOK(d), NEW q, Proper(d, q), NEW answer, answer = Serve(d, q), NEW e, e = answer.db,
         NEW t \in CreatedTables, NEW o, NEW k
  PROVE  /\ \E id : RowsAs(e, t, o, k) \subseteq RowsAs(d, t, o, k) \cup {id}
         /\ ~(Asks(q, t, o, k) /\ Made(q, answer.code)) => RowsAs(e, t, o, k) \subseteq RowsAs(d, t, o, k)
<1>1. CASE t = "products"
  <2>1. CASE ProductAdded(d, q, answer)
    <3>1. PICK id : /\ q.op = "createProduct" /\ answer.code = 201 /\ q.by # NoOne /\ id[1] = q.by
                    /\ Added(d.products, e.products, id, [key |-> q.val, status |-> "available"])
      BY <2>1 DEF ProductAdded
    <3>2. RowsAs(e, t, o, k) \subseteq RowsAs(d, t, o, k) \cup {id}
      BY <1>1, <3>1 DEF RowsAs, Added
    <3>3. id \in RowsAs(e, t, o, k) => q.by = o /\ Name(t, o, q.val) = k
      BY <1>1, <3>1 DEF RowsAs, Added
    <3>4. q.by = o /\ Name(t, o, q.val) = k => Asks(q, t, o, k) /\ Made(q, answer.code)
      BY <1>1, <3>1 DEF Asks, Made, TableOf, OwnerOf, Creates
    <3> QED BY <3>2, <3>3, <3>4
  <2>2. CASE ~ProductAdded(d, q, answer)
    <3>1. DOMAIN e.products = DOMAIN d.products
      <4>1. CASE e.products = d.products
        BY <4>1
      <4>2. CASE ProductWritten(d, q, answer)
        <5>1. PICK key, status : e.products = [d.products EXCEPT ![q.id] = [key |-> key, status |-> status]]
          BY <4>2 DEF ProductWritten
        <5> QED BY <5>1
      <4> QED BY <2>2, <4>1, <4>2, ProductsServed
    <3>2. \A id \in DOMAIN d.products : Name(t, id[1], e.products[id].key) = Name(t, id[1], d.products[id].key)
      BY <1>1, ProductsStay
    <3> QED BY <1>1, <3>1, <3>2 DEF RowsAs
  <2> QED BY <2>1, <2>2
<1>2. CASE t = "reports"
  <2>1. CASE ReportAdded(d, q, answer)
    <3>1. PICK id : /\ q.op = "createReport" /\ answer.code = 201 /\ q.by # NoOne /\ id[1] = q.by
                    /\ Added(d.reports, e.reports, id, [about |-> q.on, key |-> q.val, status |-> "open"])
      BY <2>1 DEF ReportAdded
    <3>2. RowsAs(e, t, o, k) \subseteq RowsAs(d, t, o, k) \cup {id}
      BY <1>2, <3>1 DEF RowsAs, Added
    <3>3. id \in RowsAs(e, t, o, k) => q.by = o /\ Name(t, o, q.val) = k
      BY <1>2, <3>1 DEF RowsAs, Added
    <3>4. q.by = o /\ Name(t, o, q.val) = k => Asks(q, t, o, k) /\ Made(q, answer.code)
      BY <1>2, <3>1 DEF Asks, Made, TableOf, OwnerOf, Creates
    <3> QED BY <3>2, <3>3, <3>4
  <2>2. CASE Kept(d.reports, e.reports, {"about", "key"})
    BY <1>2, <2>2 DEF RowsAs, Kept
  <2> QED BY <2>1, <2>2, ReportsServed
<1>3. CASE t = "messages"
  <2>1. CASE MessageAdded(d, q, answer)
    <3>1. PICK id : /\ q.op = "message.send" /\ answer.code = 200 /\ q.by # NoOne /\ id[1] = q.id[1]
                    /\ Added(d.messages, e.messages, id, [by |-> q.by, key |-> q.val, read |-> FALSE])
      BY <2>1 DEF MessageAdded
    <3>2. RowsAs(e, t, o, k) \subseteq RowsAs(d, t, o, k) \cup {id}
      BY <1>3, <3>1 DEF RowsAs, Added
    <3>3. id \in RowsAs(e, t, o, k) => q.id[1] = o /\ Name(t, o, q.val) = k
      BY <1>3, <3>1 DEF RowsAs, Added
    <3>4. q.id[1] = o /\ Name(t, o, q.val) = k => Asks(q, t, o, k) /\ Made(q, answer.code)
      BY <1>3, <3>1 DEF Asks, Made, TableOf, OwnerOf, Creates
    <3> QED BY <3>2, <3>3, <3>4
  <2>2. CASE Kept(d.messages, e.messages, {"by", "key"})
    BY <1>3, <2>2 DEF RowsAs, Kept
  <2> QED BY <2>1, <2>2, MessagesServed
<1> QED BY <1>1, <1>2, <1>3 DEF CreatedTables

LEMMA RowsFinite ==
  ASSUME NEW d, TablesOK(d), NEW t \in CreatedTables, NEW o, NEW k
  PROVE  IsFiniteSet(RowsAs(d, t, o, k)) /\ Cardinality(RowsAs(d, t, o, k)) \in Nat
<1>1. IsFiniteSet(DOMAIN d[t])
  BY DEF CreatedTables, TablesOK, Numbered
<1>2. RowsAs(d, t, o, k) \subseteq DOMAIN d[t]
  BY DEF RowsAs
<1> QED BY <1>1, <1>2, FS_Subset, FS_CardinalityType

LEMMA SendingFinite ==
  ASSUME NEW L, IsFiniteSet(L), NEW t, NEW o, NEW k
  PROVE  /\ IsFiniteSet(Sending(L, t, o, k)) /\ Cardinality(Sending(L, t, o, k)) \in Nat
         /\ Cardinality(Sending(L, t, o, k)) <= Cardinality(L)
<1>1. Sending(L, t, o, k) \subseteq L
  BY DEF Sending
<1> QED BY <1>1, FS_Subset, FS_CardinalityType

LEMMA OneMore ==
  ASSUME NEW S, IsFiniteSet(S), NEW x
  PROVE  IsFiniteSet(S \cup {x}) /\ Cardinality(S \cup {x}) <= Cardinality(S) + 1 /\ Cardinality(S \cup {x}) \in Nat
<1> PICK T : T = S \cup {x}
  OBVIOUS
<1>1. IsFiniteSet(T) /\ Cardinality(S) \in Nat /\ Cardinality(T) \in Nat
  BY FS_AddElement, FS_CardinalityType
<1>2. x \in S => Cardinality(T) = Cardinality(S)
  <2>1. x \in S => T = S
    OBVIOUS
  <2> QED BY <2>1
<1>3. x \notin S => Cardinality(T) = Cardinality(S) + 1
  BY FS_AddElement
<1> QED BY <1>1, <1>2, <1>3

\* An answered request: one row more of what it asks for, no other.
LEMMA TotalServed ==
  ASSUME NEW d, TablesOK(d), NEW q, Proper(d, q), NEW answer, answer = Serve(d, q), NEW e, e = answer.db,
         NEW L, IsFiniteSet(L), NEW t \in CreatedTables, NEW o, NEW k
  PROVE  /\ Total(d, L, t, o, k) \in Nat /\ Total(e, L, t, o, k) \in Nat
         /\ Total(e, L, t, o, k) <= Total(d, L, t, o, k) + 1
         /\ ~(Asks(q, t, o, k) /\ Made(q, answer.code)) => Total(e, L, t, o, k) <= Total(d, L, t, o, k)
<1> PICK A, B, S : A = RowsAs(d, t, o, k) /\ B = RowsAs(e, t, o, k) /\ S = Cardinality(Sending(L, t, o, k))
  OBVIOUS
<1>1. TablesOK(e)
  BY TablesServed
<1>2. IsFiniteSet(A) /\ IsFiniteSet(B) /\ Cardinality(A) \in Nat /\ Cardinality(B) \in Nat /\ S \in Nat
  BY <1>1, RowsFinite, SendingFinite
<1>3. Total(d, L, t, o, k) = Cardinality(A) + S /\ Total(e, L, t, o, k) = Cardinality(B) + S
  BY DEF Total
<1>4. Cardinality(B) <= Cardinality(A) + 1
  <2>1. PICK id : B \subseteq A \cup {id}
    BY RowsServed
  <2>2. IsFiniteSet(A \cup {id}) /\ Cardinality(A \cup {id}) <= Cardinality(A) + 1 /\ Cardinality(A \cup {id}) \in Nat
    BY <1>2, OneMore
  <2>3. Cardinality(B) <= Cardinality(A \cup {id})
    BY <2>1, <2>2, FS_Subset
  <2> QED BY <1>2, <2>2, <2>3
<1>5. ~(Asks(q, t, o, k) /\ Made(q, answer.code)) => Cardinality(B) <= Cardinality(A)
  BY <1>2, RowsServed, FS_Subset
<1> QED BY <1>2, <1>3, <1>4, <1>5

\* A request that is still under way: at most one more.
LEMMA TotalSent ==
  ASSUME NEW d, TablesOK(d), NEW q, NEW L, IsFiniteSet(L), NEW t \in CreatedTables, NEW o, NEW k
  PROVE  Total(d, L \cup {q}, t, o, k) \in Nat /\ Total(d, L, t, o, k) \in Nat
         /\ Total(d, L \cup {q}, t, o, k) <= Total(d, L, t, o, k) + 1
<1> PICK A, S, N : A = Cardinality(RowsAs(d, t, o, k)) /\ S = Sending(L, t, o, k) /\ N = Sending(L \cup {q}, t, o, k)
  OBVIOUS
<1>1. N \subseteq S \cup {q} /\ IsFiniteSet(L \cup {q})
  BY FS_AddElement DEF Sending
<1>2. A \in Nat /\ IsFiniteSet(S) /\ Cardinality(S) \in Nat /\ Cardinality(N) \in Nat
  BY <1>1, RowsFinite, SendingFinite
<1>3. IsFiniteSet(S \cup {q}) /\ Cardinality(S \cup {q}) <= Cardinality(S) + 1 /\ Cardinality(S \cup {q}) \in Nat
  BY <1>2, OneMore
<1>4. Cardinality(N) <= Cardinality(S \cup {q})
  BY <1>1, <1>3, FS_Subset
<1>5. Total(d, L, t, o, k) = A + Cardinality(S) /\ Total(d, L \cup {q}, t, o, k) = A + Cardinality(N)
  BY DEF Total
<1> QED BY <1>2, <1>3, <1>4, <1>5

\* A late request that is served: a row instead of a request.
LEMMA TotalLate ==
  ASSUME NEW d, TablesOK(d), NEW L, IsFiniteSet(L), NEW q \in L, Proper(d, q), NEW e, e = Serve(d, q).db,
         NEW t \in CreatedTables, NEW o, NEW k
  PROVE  /\ Total(e, L \ {q}, t, o, k) \in Nat /\ Total(d, L, t, o, k) \in Nat
         /\ Total(e, L \ {q}, t, o, k) <= Total(d, L, t, o, k)
<1> PICK answer : answer = Serve(d, q)
  OBVIOUS
<1> PICK M : M = L \ {q}
  OBVIOUS
<1>1. IsFiniteSet(M)
  BY FS_Subset
<1>2. /\ Total(d, M, t, o, k) \in Nat /\ Total(e, M, t, o, k) \in Nat
      /\ Total(e, M, t, o, k) <= Total(d, M, t, o, k) + 1
      /\ ~Asks(q, t, o, k) => Total(e, M, t, o, k) <= Total(d, M, t, o, k)
  BY <1>1, TotalServed
<1> PICK A, S, N : A = Cardinality(RowsAs(d, t, o, k)) /\ S = Sending(L, t, o, k) /\ N = Sending(M, t, o, k)
  OBVIOUS
<1>3. N = S \ {q} /\ (Asks(q, t, o, k) => q \in S) /\ (~Asks(q, t, o, k) => N = S)
  BY DEF Sending
<1>4. A \in Nat /\ IsFiniteSet(S) /\ Cardinality(S) \in Nat /\ Cardinality(N) \in Nat
  BY <1>1, RowsFinite, SendingFinite
<1>5. Asks(q, t, o, k) => Cardinality(N) = Cardinality(S) - 1
  BY <1>3, <1>4, FS_RemoveElement
<1>6. Total(d, L, t, o, k) = A + Cardinality(S) /\ Total(d, M, t, o, k) = A + Cardinality(N)
  BY DEF Total
<1> QED BY <1>2, <1>3, <1>4, <1>5, <1>6

-----------------------------------------------------------------------------
(* The rows and the late requests after a call *)

\* A call of r ends with code and rows: it is answered, refused, or given up.
Ended(r, code, rows) ==
  LET q == RequestOf(run[r], StepOf(r)) IN
  /\ run[r].status = "running" /\ StepOf(r).op # "require" /\ Receive(r, code, rows) /\ scenario' = scenario
  /\ \/ /\ \E answer : answer = Serve(db, q) /\ code = answer.code /\ rows = answer.rows /\ db' = answer.db
        /\ late' = late /\ net'.timeouts = net.timeouts
     \/ /\ code \in {0, 429} /\ rows = {} /\ db' = db
        /\ \/ late' = late /\ net'.timeouts = net.timeouts
           \/ late' = late \cup {q} /\ net'.timeouts = net.timeouts - 1

LEMMA CallsEnd ==
  ASSUME CInv, NEW r \in Runners, Answered(r) \/ Throttled(r) \/ TimedOut(r)
  PROVE  \E code, rows : Ended(r, code, rows)
<1> PICK q : q = RequestOf(run[r], StepOf(r))
  OBVIOUS
<1>1. CASE Answered(r)
  <2>1. PICK answer : answer = Serve(db, q) /\ db' = answer.db /\ Receive(r, answer.code, answer.rows)
    BY <1>1 DEF Answered
  <2> PICK code, rows : code = answer.code /\ rows = answer.rows
    OBVIOUS
  <2>2. /\ run[r].status = "running" /\ StepOf(r).op # "require" /\ scenario' = scenario
        /\ late' = late /\ net'.timeouts = net.timeouts
    BY <1>1 DEF Answered, Calling
  <2>3. \E a : a = Serve(db, q) /\ code = a.code /\ rows = a.rows /\ db' = a.db
    BY <2>1
  <2>4. Receive(r, code, rows)
    BY <2>1
  <2>5. Ended(r, code, rows)
    BY <2>2, <2>3, <2>4 DEF Ended
  <2> QED BY <2>5
<1>2. CASE Throttled(r)
  <2>1. /\ run[r].status = "running" /\ StepOf(r).op # "require" /\ scenario' = scenario /\ Receive(r, 429, {})
        /\ db' = db /\ late' = late /\ net' = IF scenario.endless THEN net ELSE [net EXCEPT !.throttles = net.throttles - 1]
    BY <1>2 DEF Throttled, Calling
  <2>2. net'.timeouts = net.timeouts
    BY <2>1, NetShape
  <2>3. Ended(r, 429, {})
    BY <2>1, <2>2 DEF Ended
  <2> QED BY <2>3
<1>3. CASE TimedOut(r)
  <2>1. /\ run[r].status = "running" /\ StepOf(r).op # "require" /\ scenario' = scenario /\ Receive(r, 0, {})
        /\ db' = db /\ late' = late \cup {q} /\ net' = [net EXCEPT !.timeouts = net.timeouts - 1]
    BY <1>3 DEF TimedOut, Calling
  <2>2. net'.timeouts = net.timeouts - 1
    BY <2>1, NetShape
  <2>3. Ended(r, 0, {})
    BY <2>1, <2>2 DEF Ended
  <2> QED BY <2>3
<1> QED BY <1>1, <1>2, <1>3

LEMMA TimeoutsCounted ==
  ASSUME CInv
  PROVE  TimeoutsSeen \in Nat /\ IsFiniteSet(late) /\ Cardinality(late) <= TimeoutsSeen
<1>1. scenario.timeouts \in Nat /\ net.timeouts \in 0 .. scenario.timeouts
  BY ScenarioAssumption DEF CInv, Faults
<1>2. IsFiniteSet(late) /\ Cardinality(late) <= scenario.timeouts - net.timeouts
  BY DEF CInv, Faults
<1> QED BY <1>1, <1>2 DEF TimeoutsSeen

\* More rows and late requests than before: by a timeout, or for the row asked for.
LEMMA TotalsAfter ==
  ASSUME CInv, SInv, NEW r \in Runners, NEW code, NEW rows, Ended(r, code, rows),
         NEW q, q = RequestOf(run[r], StepOf(r)), Proper(db, q), NEW t \in CreatedTables, NEW o, NEW k
  PROVE  /\ Total(db, late, t, o, k) \in Nat /\ Total(db', late', t, o, k) \in Nat /\ TimeoutsSeen' \in Int
         /\ Asks(q, t, o, k) /\ Made(q, code) =>
              TimeoutsSeen' = TimeoutsSeen /\ Total(db', late', t, o, k) <= Total(db, late, t, o, k) + 1
         /\ ~(Asks(q, t, o, k) /\ Made(q, code)) =>
              Total(db', late', t, o, k) + TimeoutsSeen <= Total(db, late, t, o, k) + TimeoutsSeen'
<1>1. TablesOK(db) /\ IsFiniteSet(late) /\ TimeoutsSeen \in Nat /\ scenario' = scenario
  BY TimeoutsCounted DEF SInv, Ended
<1>2. net.timeouts \in Int /\ scenario.timeouts \in Int
  BY ScenarioAssumption DEF CInv, Faults
<1>3. CASE late' = late /\ net'.timeouts = net.timeouts /\ db' = db /\ code \in {0, 429}
  <2>1. TimeoutsSeen' = TimeoutsSeen
    BY <1>1, <1>3 DEF TimeoutsSeen
  <2>2. Total(db', late', t, o, k) = Total(db, late, t, o, k)
    BY <1>3
  <2>3. Total(db, late, t, o, k) \in Nat
    BY <1>1, RowsFinite, SendingFinite DEF Total
  <2> QED BY <1>1, <2>1, <2>2, <2>3
<1>4. CASE late' = late \cup {q} /\ net'.timeouts = net.timeouts - 1 /\ db' = db /\ code \in {0, 429}
  <2>1. TimeoutsSeen' = TimeoutsSeen + 1
    BY <1>1, <1>2, <1>4 DEF TimeoutsSeen
  <2> PICK A, B : A = Total(db, late, t, o, k) /\ B = Total(db', late', t, o, k)
    OBVIOUS
  <2>2. A \in Nat /\ B \in Nat /\ B <= A + 1
    <3>1. PICK d, L : d = db /\ L = late
      OBVIOUS
    <3>2. Total(d, L \cup {q}, t, o, k) \in Nat /\ Total(d, L, t, o, k) \in Nat
          /\ Total(d, L \cup {q}, t, o, k) <= Total(d, L, t, o, k) + 1
      BY <1>1, <3>1, TotalSent
    <3>3. A = Total(d, L, t, o, k) /\ B = Total(d, L \cup {q}, t, o, k)
      BY <1>4, <3>1
    <3> QED BY <3>2, <3>3
  <2>3. ~Made(q, code)
    BY <1>4 DEF Made
  <2> QED BY <1>1, <2>1, <2>2, <2>3
<1>5. ASSUME NEW answer, answer = Serve(db, q), code = answer.code, db' = answer.db,
             late' = late, net'.timeouts = net.timeouts
      PROVE  /\ Total(db, late, t, o, k) \in Nat /\ Total(db', late', t, o, k) \in Nat /\ TimeoutsSeen' \in Int
             /\ Asks(q, t, o, k) /\ Made(q, code) =>
                  TimeoutsSeen' = TimeoutsSeen /\ Total(db', late', t, o, k) <= Total(db, late, t, o, k) + 1
             /\ ~(Asks(q, t, o, k) /\ Made(q, code)) =>
                  Total(db', late', t, o, k) + TimeoutsSeen <= Total(db, late, t, o, k) + TimeoutsSeen'
  <2>1. TimeoutsSeen' = TimeoutsSeen
    BY <1>1, <1>5 DEF TimeoutsSeen
  <2> PICK A, B, e : A = Total(db, late, t, o, k) /\ e = db' /\ B = Total(e, late, t, o, k)
    OBVIOUS
  <2>2. /\ A \in Nat /\ B \in Nat /\ B <= A + 1
        /\ ~(Asks(q, t, o, k) /\ Made(q, answer.code)) => B <= A
    BY <1>1, <1>5, TotalServed
  <2> QED BY <1>1, <1>5, <2>1, <2>2
<1> QED BY <1>3, <1>4, <1>5 DEF Ended

-----------------------------------------------------------------------------
(* Every program creates rows of its own *)

LEMMA SeedFacts ==
  ASSUME CInv
  PROVE  /\ scenario.tables \in DOMAIN Tables /\ ScriptOf("seeder") = Seeded /\ Script(Seeded)
         /\ DOMAIN Seeded = 1 .. Len(Seeded) /\ Len(Seeded) \in Nat /\ SeedsOnce(Seeded) /\ SeedNames(Seeded)
         /\ \A i \in DOMAIN Seeded : /\ Seeded[i].by \notin VUs \cup {Alice, Bob} /\ Seeded[i].op # "deleteProduct"
                                     /\ Seeded[i].op = "updateProductStatus" => Seeded[i].val # "deleted"
<1>1. scenario.tables \in DOMAIN Tables /\ ScriptOf("seeder") = SeedScripts[scenario.tables]
      /\ Script(ScriptOf("seeder")) /\ Len(ScriptOf("seeder")) \in Nat
  BY RunnerNames, Scripts
<1> PICK n, s : n = scenario.tables /\ s = SeedScripts[n]
  OBVIOUS
<1>2. SeedsOnce(s) /\ SeedNames(s)
  BY <1>1, SeedScriptAssumption
<1>3. \A i \in DOMAIN s : /\ s[i].by \notin VUs \cup {Alice, Bob} /\ s[i].op # "deleteProduct"
                          /\ s[i].op = "updateProductStatus" => s[i].val # "deleted"
  BY <1>1, SeedScriptAssumption
<1>4. Seeded = s /\ ScriptOf("seeder") = s
  BY <1>1 DEF Seeded
<1> QED BY <1>1, <1>2, <1>3, <1>4, ScriptLen

\* What the call of a running program trades in.
LEMMA TradesOf ==
  ASSUME CInv, Chats, NEW r \in Runners, run[r].status = "running"
  PROVE  /\ run[r].pc \in 1 .. Len(ScriptOf(r)) /\ StepOf(r) = ScriptOf(r)[run[r].pc]
         /\ r = "main" => Trades(StepOf(r)) /\ ChatStep(StepOf(r), Bob, Alice) /\ ScriptOf(r) = MainScript
         /\ r = "pair" => /\ Chatting(StepOf(r)) /\ ChatStep(StepOf(r), run[r].who[1], run[r].who[2])
                          /\ run[r].who \in VUs \X VUs /\ \E M : MadeOnce(ScriptOf(r), M)
         /\ r \in VUs => StepOf(r).op \notin TradeOps
         /\ r = "seeder" => ScriptOf(r) = Seeded /\ run[r].pc \in DOMAIN Seeded /\ StepOf(r) = Seeded[run[r].pc]
<1>1. /\ Script(ScriptOf(r)) /\ DOMAIN ScriptOf(r) = 1 .. Len(ScriptOf(r)) /\ Len(ScriptOf(r)) \in Nat
      /\ run[r].pc \in 1 .. Len(ScriptOf(r)) /\ StepOf(r) = ScriptOf(r)[run[r].pc]
  BY Scripts, ScriptLen DEF CInv, Runs, InScript, StepOf
<1>2. r = "main" => Trades(StepOf(r)) /\ ChatStep(StepOf(r), Bob, Alice) /\ ScriptOf(r) = MainScript
  BY <1>1, Scripts, MainTrades, CallsOf DEF ToSet
<1>3. ASSUME r = "pair"
      PROVE  /\ Chatting(StepOf(r)) /\ ChatStep(StepOf(r), run[r].who[1], run[r].who[2])
             /\ run[r].who \in VUs \X VUs /\ \E M : MadeOnce(ScriptOf(r), M)
  <2>1. run[r].who \in VUs \X VUs /\ run[r].who[1] # run[r].who[2]
    BY <1>3 DEF CInv, Runs, Chats
  <2> PICK a, b, s : a = run[r].who[1] /\ b = run[r].who[2] /\ s = ScriptOf(r)
    OBVIOUS
  <2>2. s = runConcurrentChatPair(a, b)
    BY <1>3, <2>1 DEF ScriptOf, PairScripts
  <2>3. (\A step \in ToSet(s) : Chatting(step)) /\ \E M : MadeOnce(s, M)
    BY <2>1, <2>2, PairTrades
  <2>4. Chatting(StepOf(r))
    BY <1>1, <2>3 DEF ToSet
  <2> QED BY <1>3, <2>1, <2>3, <2>4, CallsOf
<1>4. r \in VUs => StepOf(r).op \notin TradeOps
  BY CallsOf DEF Plain, Noted, TradeOps
<1>5. r = "seeder" => ScriptOf(r) = Seeded /\ run[r].pc \in DOMAIN Seeded /\ StepOf(r) = Seeded[run[r].pc]
  BY <1>1, SeedFacts
<1> QED BY <1>1, <1>2, <1>3, <1>4, <1>5

\* No two programs create rows of the same owner.
LEMMA RowsOfOne ==
  ASSUME NEW r, NEW s, r # s, NEW t, NEW o, Mine(r, t, o)
  PROVE  ~Mine(s, t, o)
<1>1. VUs \cap {Alice, Bob} = {}
  BY RunnersAssumption
<1>2. CASE r = "main"
  BY <1>1, <1>2 DEF Mine, Strangers
<1>3. CASE r = "pair"
  BY <1>1, <1>3 DEF Mine, Strangers
<1>4. CASE r = "seeder"
  BY <1>1, <1>4 DEF Mine, Strangers
<1> QED BY <1>2, <1>3, <1>4 DEF Mine

\* The row that a call asks for, and gets, is one of its program's own.
LEMMA CreatesMine ==
  ASSUME CInv, SInv, SeederKnows(db, run["seeder"]), NEW r \in Runners, run[r].status = "running", NEW step, step = StepOf(r),
         step.op \in Creates, NEW q, q = RequestOf(run[r], step), q.by # NoOne
  PROVE  /\ r \in {"main", "pair", "seeder"} /\ Mine(r, TableOf(step.op), OwnerOf(q))
         /\ q.op = step.op /\ q.val = step.val
         /\ Name(TableOf(step.op), OwnerOf(q), q.val) = q.val
         /\ r = "seeder" => OwnerOf(q) = OwnerAt(run[r], step)
<1>0. Chats /\ step.needs \subseteq DOMAIN run[r].kept
  BY DEF SInv, Needing
<1> PICK x : x = run[r]
  OBVIOUS
<1>1. q.op = step.op /\ q.id = RowIn(x, step.row) /\ q.by = step.by /\ q.val = step.val
  <2>1. step.op # "login" /\ q = RequestOf(x, step)
    BY DEF Creates
  <2>2. /\ q.op = step.op /\ q.id = RowIn(x, step.row) /\ q.by = IF <<step.by>> \in DOMAIN x.kept THEN step.by ELSE NoOne
        /\ step.op # "login" => q.val = step.val
    BY <2>1 DEF RequestOf
  <2> QED BY <2>1, <2>2
<1>2. CASE r = "main"
  <2>1. Trades(step) /\ ChatStep(step, Bob, Alice)
    BY <1>0, <1>2, TradesOf
  <2>2. CASE step.op = "message.send"
    <3>1. step.row = Conversation /\ Conversation \in DOMAIN x.kept
      BY <1>0, <2>1, <2>2 DEF Trades, ChatStep, Acked
    <3>2. q.id[1] = {Bob, Alice}
      BY <1>0, <1>1, <1>2, <3>1 DEF Chats, TalksAs, RowIn
    <3>3. OwnerOf(q) = {Bob, Alice} /\ TableOf(step.op) = "messages"
      BY <1>1, <2>2, <3>2 DEF OwnerOf, TableOf
    <3>4. Name(TableOf(step.op), OwnerOf(q), q.val) = q.val
      BY <1>1, <2>1 DEF Name, Trades
    <3> QED BY <1>1, <1>2, <3>3, <3>4 DEF Mine
  <2>3. CASE step.op # "message.send"
    <3>1. OwnerOf(q) \in {Alice, Bob} /\ TableOf(step.op) # "messages"
      BY <1>1, <2>1, <2>3 DEF OwnerOf, TableOf, Trades, Creates
    <3>2. Name(TableOf(step.op), OwnerOf(q), q.val) = q.val
      BY <1>1, <2>1 DEF Name, Trades
    <3> QED BY <1>1, <1>2, <3>1, <3>2 DEF Mine
  <2> QED BY <2>2, <2>3
<1>3. CASE r = "pair"
  <2> PICK a, b : a = x.who[1] /\ b = x.who[2]
    OBVIOUS
  <2>1. Chatting(step) /\ ChatStep(step, a, b) /\ a \in VUs /\ b \in VUs
    BY <1>0, <1>3, TradesOf
  <2>2. step.op = "message.send" /\ step.row = Conversation /\ Conversation \in DOMAIN x.kept
    BY <1>0, <2>1 DEF Chatting, ChatStep, Acked, TradeOps, Creates
  <2>3. TalksAs(x, a, b, db)
    BY <1>0, <1>3 DEF Chats
  <2>4. q.id[1] = {a, b}
    BY <1>1, <2>2, <2>3 DEF TalksAs, RowIn
  <2>5. OwnerOf(q) = {a, b} /\ TableOf(step.op) = "messages"
    BY <1>1, <2>2, <2>4 DEF OwnerOf, TableOf
  <2>6. Name(TableOf(step.op), OwnerOf(q), q.val) = q.val
    BY <2>5 DEF Name
  <2> QED BY <1>1, <1>3, <2>1, <2>5, <2>6 DEF Mine
<1>4. CASE r = "seeder"
  <2>1. step = Seeded[x.pc] /\ x.pc \in DOMAIN Seeded
    BY <1>0, <1>4, TradesOf
  <2>2. step.by \notin VUs \cup {Alice, Bob}
    BY <2>1, SeedFacts
  <2>3. CASE step.op = "message.send"
    <3>1. step.row \in DOMAIN x.kept
      BY <1>0, <2>1, <2>3, SeedFacts DEF SeedsOnce
    <3>2. q.id[1] = x.kept[step.row].id[1] /\ Strangers(q.id[1])
      BY <1>1, <1>4, <2>1, <2>3, <3>1 DEF SeederKnows, RowIn
    <3>3. OwnerOf(q) = q.id[1] /\ OwnerAt(x, step) = q.id[1] /\ TableOf(step.op) = "messages"
      BY <1>1, <2>3, <3>2 DEF OwnerOf, OwnerAt, TableOf
    <3>4. Name(TableOf(step.op), OwnerOf(q), q.val) = q.val
      BY <3>3 DEF Name
    <3>5. Mine(r, TableOf(step.op), OwnerOf(q))
      BY <1>4, <3>2, <3>3 DEF Mine
    <3> QED BY <1>1, <1>4, <3>3, <3>4, <3>5
  <2>4. CASE step.op # "message.send"
    <3>1. OwnerOf(q) = step.by /\ OwnerAt(x, step) = step.by /\ TableOf(step.op) # "messages"
      BY <1>1, <2>4 DEF OwnerOf, OwnerAt, TableOf, Creates
    <3>2. Name(TableOf(step.op), OwnerOf(q), q.val) = q.val
      BY <2>2, <3>1 DEF Name
    <3> QED BY <1>1, <1>4, <2>2, <3>1, <3>2 DEF Mine
  <2> QED BY <2>3, <2>4
<1>5. CASE r \in VUs
  BY <1>0, <1>5, TradesOf DEF TradeOps, Creates
<1> QED BY <1>2, <1>3, <1>4, <1>5, RunnerNames

\* Alice renames the one product, under the name that counts as the other's;
\* the seeder renames none, and deletes none.
LEMMA CallProper ==
  ASSUME CInv, SInv, MainKnows(db, run["main"]), SeederKnows(db, run["seeder"]), NEW r \in Runners,
         run[r].status = "running", NEW q, q = RequestOf(run[r], StepOf(r))
  PROVE  Proper(db, q)
<1> PICK x, step : x = run[r] /\ step = StepOf(r)
  OBVIOUS
<1>0. Chats /\ step.needs \subseteq DOMAIN x.kept
  BY DEF SInv, Needing
<1>1. /\ q.op = step.op /\ q.id = RowIn(x, step.row) /\ q.by \in {step.by, NoOne}
      /\ q.op # "login" => q.val = step.val
  BY DEF RequestOf
<1>2. CASE r = "main"
  <2>1. Trades(step)
    BY <1>0, <1>2, TradesOf
  <2>2. CASE q.op = "updateProduct"
    <3>1. step.row \in DOMAIN x.kept /\ q.val = step.val
      BY <1>0, <1>1, <2>1, <2>2 DEF Trades
    <3>2. q.id = x.kept[step.row].id
      BY <1>1, <3>1 DEF RowIn
    <3>3. CASE step.by = Alice /\ step.row = Product1 /\ step.val = "UsedLaptopUpdated"
      <4>1. /\ q.id \in DOMAIN db.products
            /\ Name("products", q.id[1], db.products[q.id].key) = Name("products", q.id[1], "UsedLaptop")
        BY <1>2, <3>1, <3>2, <3>3 DEF MainKnows, Holds
      <4>2. q.id[1] = Alice => Name("products", q.id[1], "UsedLaptop") = Name("products", q.id[1], q.val)
        BY <3>1, <3>3 DEF Name
      <4> QED BY <1>1, <2>2, <3>3, <4>1, <4>2 DEF Proper
    <3>4. CASE step.by = Bob /\ step.row = Product2
      <4>1. q.id \in DOMAIN db.products /\ q.id[1] # Bob
        BY <1>2, <3>1, <3>2, <3>4 DEF MainKnows
      <4> QED BY <1>1, <2>2, <3>4, <4>1 DEF Proper
    <3> QED BY <1>1, <2>1, <2>2, <3>3, <3>4 DEF Trades
  <2>3. CASE q.op # "updateProduct"
    BY <1>1, <2>1, <2>3 DEF Trades, Proper
  <2> QED BY <2>2, <2>3
<1>3. CASE r = "pair"
  BY <1>0, <1>1, <1>3, TradesOf DEF Chatting, TradeOps, Proper
<1>4. CASE r = "seeder"
  <2>1. x.pc \in DOMAIN Seeded /\ step = Seeded[x.pc]
    BY <1>0, <1>4, TradesOf
  <2>2. CASE q.op = "updateProduct"
    <3>1. step.row \in DOMAIN x.kept /\ step.val = step.row /\ q.val = step.row
      BY <1>0, <1>1, <2>1, <2>2, SeedFacts DEF SeedNames
    <3>2. q.id = x.kept[step.row].id
      BY <1>1, <3>1 DEF RowIn
    <3>3. Holds(db, x, step.row, step.row)
      BY <1>1, <1>4, <2>1, <2>2 DEF SeederKnows
    <3>4. /\ q.id \in DOMAIN db.products
          /\ Name("products", q.id[1], db.products[q.id].key) = Name("products", q.id[1], q.val)
      BY <3>1, <3>2, <3>3 DEF Holds
    <3> QED BY <2>2, <3>4 DEF Proper
  <2>3. CASE q.op # "updateProduct"
    BY <1>1, <2>1, <2>3, SeedFacts DEF Proper
  <2> QED BY <2>2, <2>3
<1>5. CASE r \in VUs
  BY <1>0, <1>1, <1>5, TradesOf DEF TradeOps, Proper
<1> QED BY <1>2, <1>3, <1>4, <1>5, RunnerNames

\* A row is created only by the call that is still ahead of its program.
LEMMA AskedAhead ==
  ASSUME CInv, SInv, RInv, NEW r \in Runners, run[r].status = "running", NEW q, q = RequestOf(run[r], StepOf(r)),
         NEW t, NEW o, NEW k, Asks(q, t, o, k), q.by # NoOne
  PROVE  /\ Ahead(t, o, k) /\ Mine(r, t, o)
         /\ StepOf(r).op \in Creates /\ TableOf(StepOf(r).op) = t /\ StepOf(r).val = k
         /\ r = "seeder" => o = OwnerAt(run[r], StepOf(r))
<1> PICK x, step : x = run[r] /\ step = StepOf(r)
  OBVIOUS
<1>0. Chats /\ step.needs \subseteq DOMAIN x.kept
  BY DEF SInv, Needing
<1>1. q.op = step.op
  BY DEF RequestOf
<1>2. step.op \in Creates /\ t = TableOf(step.op) /\ o = OwnerOf(q) /\ k = Name(t, o, q.val)
  BY <1>1 DEF Asks
<1>3. /\ r \in {"main", "pair", "seeder"} /\ Mine(r, t, o) /\ k = step.val
      /\ r = "seeder" => o = OwnerAt(x, step)
  BY <1>2, CreatesMine DEF RInv, Known
<1>4. x.pc \in 1 .. Len(ScriptOf(r)) /\ step = ScriptOf(r)[x.pc] /\ Len(ScriptOf(r)) \in Nat
  BY <1>0, TradesOf, Scripts
<1>5. x.pc \in x.pc .. Len(ScriptOf(r))
  BY <1>4
<1>6. CASE r = "main"
  <2>1. ScriptOf(r) = MainScript
    BY <1>0, <1>6, TradesOf
  <2>2. AheadOf("main", step)
    BY <1>2, <1>4, <1>5, <1>6, <2>1 DEF RInv, MainAhead
  <2> QED BY <1>2, <1>3, <1>6, <2>2 DEF AheadOf
<1>7. CASE r = "pair"
  <2>1. AheadOf("pair", step)
    BY <1>2, <1>4, <1>5, <1>7 DEF RInv, PairAhead
  <2> QED BY <1>2, <1>3, <1>7, <2>1 DEF AheadOf
<1>8. CASE r = "seeder"
  <2>1. ScriptOf(r) = Seeded /\ x.pc \in DOMAIN Seeded /\ step = Seeded[x.pc]
    BY <1>0, <1>8, TradesOf
  <2>2. \E l \in 1 .. x.pc - 1 : ListedFirst(Seeded, l, x.pc)
    BY <1>2, <2>1, SeedFacts DEF SeedsOnce
  <2>3. step.lacks \cap DOMAIN x.kept = {}
    BY <1>8 DEF RInv, SeederAhead
  <2>4. Armed(x, x.pc)
    BY <1>0, <1>2, <2>1, <2>2, <2>3 DEF Armed
  <2>5. Ahead(TableOf(step.op), OwnerAt(x, step), step.val)
    BY <1>5, <1>8, <2>1, <2>4 DEF RInv, SeederAhead
  <2> QED BY <1>2, <1>3, <1>8, <2>5
<1> QED BY <1>2, <1>3, <1>6, <1>7, <1>8

-----------------------------------------------------------------------------
(* What the simulator and the seeder know of the rows they write to *)

LEMMA KnownStays ==
  ASSUME NEW d, TablesOK(d), NEW q, Proper(d, q), NEW e, e = Serve(d, q).db
  PROVE  /\ \A p : Proper(d, p) => Proper(e, p)
         /\ \A x : MainKnows(d, x) => MainKnows(e, x)
         /\ \A x : SeederKnows(d, x) => SeederKnows(e, x)
<1>1. \A id \in DOMAIN d.products :
        /\ id \in DOMAIN e.products
        /\ Name("products", id[1], e.products[id].key) = Name("products", id[1], d.products[id].key)
  BY ProductsStay
<1>2. \A p : Proper(d, p) => Proper(e, p)
  BY <1>1 DEF Proper
<1>3. ASSUME NEW x, NEW n, NEW k, Holds(d, x, n, k)
      PROVE  Holds(e, x, n, k)
  BY <1>1, <1>3 DEF Holds
<1>4. \A x : MainKnows(d, x) => MainKnows(e, x)
  BY <1>1, <1>3 DEF MainKnows
<1>5. \A x : SeederKnows(d, x) => SeederKnows(e, x)
  BY <1>3 DEF SeederKnows
<1> QED BY <1>2, <1>4, <1>5

\* The products the simulator keeps are those it has created.
LEMMA MainLearns ==
  ASSUME NEW d, TablesOK(d), NEW x, MainKnows(d, x), NEW step, Trades(step), NEW q, q = RequestOf(x, step), Proper(d, q),
         NEW answer, answer = Serve(d, q), NEW e, e = answer.db,
         NEW y, KeptAfter(x, y, step, answer.code, answer.rows)
  PROVE  MainKnows(e, y)
<1>1. MainKnows(e, x)
  BY KnownStays
<1>2. q.op = step.op /\ q.by \in {step.by, NoOne} /\ (step.op # "login" => q.val = step.val)
  BY DEF RequestOf
<1>3. ASSUME NEW n \in {Product1, Product2}, n \in DOMAIN y.kept
      PROVE  \/ n \in DOMAIN x.kept /\ y.kept[n] = x.kept[n]
             \/ /\ n \in step.save /\ y.kept[n].id \in DOMAIN e.products /\ y.kept[n].id[1] = Alice
                /\ e.products[y.kept[n].id].key = step.val
  <2>1. CASE n \in DOMAIN x.kept /\ y.kept[n] = x.kept[n]
    BY <2>1
  <2>2. CASE answer.code \in step.expect /\ n \in step.save /\ answer.rows # {} /\ y.kept[n] = Newest(answer.rows)
    <3>1. step.op = "createProduct" /\ step.by = Alice /\ answer.code = 201
      BY <2>2 DEF Trades
    <3>2. ProductAdded(d, q, answer)
      <4>1. q.op = "createProduct"
        BY <1>2, <3>1
      <4>2. ~ProductWritten(d, q, answer)
        BY <4>1 DEF ProductWritten
      <4> QED BY <3>1, <4>1, <4>2, ProductsServed
    <3>3. PICK id : /\ answer.rows = {Row(id, q.val, "available")} /\ q.by # NoOne /\ id[1] = q.by
                    /\ Added(d.products, e.products, id, [key |-> q.val, status |-> "available"])
      BY <3>2 DEF ProductAdded
    <3>4. y.kept[n] = Row(id, q.val, "available")
      BY <2>2, <3>3, NewestOne
    <3>5. y.kept[n].id = id
      BY <3>4 DEF Row
    <3>6. id \in DOMAIN e.products /\ e.products[id].key = q.val
      BY <3>3 DEF Added
    <3>7. q.val = step.val /\ id[1] = Alice
      BY <1>2, <3>1, <3>3
    <3> QED BY <2>2, <3>5, <3>6, <3>7
  <2>3. ~Found(x, step, n, answer.rows, y.kept[n])
    BY DEF Found, Trades
  <2> QED BY <1>3, <2>1, <2>2, <2>3 DEF KeptAfter
<1>4. Alice # Bob /\ Product1 # Product2
  BY DEF Alice, Bob, Product1, Product2
<1>5. Holds(e, y, Product1, "UsedLaptop")
  <2>1. CASE Product1 \in DOMAIN x.kept /\ y.kept[Product1] = x.kept[Product1]
    BY <1>1, <2>1 DEF MainKnows, Holds
  <2>2. CASE Product1 \in step.save
    BY <1>1, <1>3, <2>2 DEF Trades, Holds, MainKnows
  <2> QED BY <1>3, <2>1, <2>2 DEF Holds
<1>6. Product2 \in DOMAIN y.kept => y.kept[Product2].id \in DOMAIN e.products /\ y.kept[Product2].id[1] # Bob
  BY <1>1, <1>3, <1>4 DEF MainKnows
<1> QED BY <1>5, <1>6 DEF MainKnows

\* Of rows with different numbers one is the newest.
LEMMA NewestOf ==
  ASSUME NEW rows, rows # {}, NEW B \in Nat, \A row \in rows : row.id[2] \in 1 .. B,
         \A row, other \in rows : row.id[2] = other.id[2] => row = other
  PROVE  Newest(rows) \in rows
<1> DEFINE P == {B - row.id[2] : row \in rows}
<1>1. P \subseteq Nat /\ P # {}
  OBVIOUS
<1>2. PICK i \in P : \A j \in P : i <= j
  <2> HIDE DEF P
  <2> QED BY <1>1, LeastOf
<1>3. PICK row \in rows : i = B - row.id[2]
  BY <1>2
<1>4. ASSUME NEW other \in rows
      PROVE  row = other \/ row.id[2] > other.id[2]
  <2>1. i <= B - other.id[2]
    BY <1>2
  <2>2. row.id[2] \in 1 .. B /\ other.id[2] \in 1 .. B
    OBVIOUS
  <2>3. row.id[2] >= other.id[2]
    BY <1>3, <2>1, <2>2
  <2> QED BY <2>2, <2>3
<1>5. \E r \in rows : \A other \in rows : r = other \/ r.id[2] > other.id[2]
  BY <1>3, <1>4
<1> QED BY <1>5 DEF Newest

\* What the seeder finds in the listing of its products is one of them.
LEMMA FoundListed ==
  ASSUME NEW d, TablesOK(d), NEW q, q.op = "listMyProducts", NEW answer, answer = Serve(d, q), NEW key,
         NEW x, NEW step, step.op = "listMyProducts", NEW found, found = Matches(x, step, key, answer.rows), found # {},
         NEW value, value = Newest(found), NEW e, e = answer.db
  PROVE  value.id \in DOMAIN e.products /\ e.products[value.id].key = key
<1>0. \A row \in found : row \in answer.rows /\ row.key = key
  BY DEF Matches
<1> DEFINE mine == {i \in DOMAIN d.products : Visible(d, i) /\ i[1] = q.by}
<1>1. answer = Refuse(d, 401) \/ answer = Reply(d, 200, {ProductRow(d, id) : id \in mine})
  BY DEF Serve, Denied, Handle, listMyProducts, AuthPublic, OpenReads, OptionalReads, AdminRoutes
<1>2. answer.db = d /\ answer.rows = {ProductRow(d, id) : id \in mine}
  BY <1>0, <1>1 DEF Refuse, Reply
<1>3. \A id : ProductRow(d, id).id = id /\ ProductRow(d, id).key = d.products[id].key
  BY DEF ProductRow, Row
<1> PICK B : B = Cardinality(RowsOf(d.products, q.by))
  OBVIOUS
<1>4. B \in Nat /\ \A id \in mine : id = <<q.by, id[2]>> /\ id[2] \in 1 .. B
  <2>1. RowsOf(d.products, q.by) \subseteq DOMAIN d.products /\ Numbered(d.products)
    BY DEF RowsOf, TablesOK
  <2>2. B \in Nat
    BY <2>1, FS_Subset, FS_CardinalityType DEF Numbered
  <2> QED BY <2>1, <2>2 DEF Numbered
<1>5. ASSUME NEW row \in found
      PROVE  row.id \in mine /\ row = ProductRow(d, row.id) /\ d.products[row.id].key = key
  BY <1>0, <1>2, <1>3
<1>6. Newest(found) \in found
  <2>1. \A row \in found : row.id[2] \in 1 .. B
    BY <1>4, <1>5
  <2>2. ASSUME NEW row \in found, NEW other \in found, row.id[2] = other.id[2]
        PROVE  row = other
    <3>1. row.id = other.id
      BY <1>4, <1>5, <2>2
    <3> QED BY <1>5, <3>1
  <2> QED BY <1>4, <2>1, <2>2, NewestOf
<1> QED BY <1>2, <1>5, <1>6

\* What the seeder keeps of its products and conversations is what it has
\* created, or found under the name.
LEMMA SeederLearns ==
  ASSUME CInv, NEW d, TablesOK(d), NEW x, SeederKnows(d, x), NEW p \in DOMAIN Seeded, NEW step, step = Seeded[p],
         step.op # "require", NEW q, q = RequestOf(x, step), Proper(d, q),
         NEW answer, answer = Serve(d, q), NEW e, e = answer.db,
         NEW y, KeptAfter(x, y, step, answer.code, answer.rows)
  PROVE  SeederKnows(e, y)
<1>1. SeederKnows(e, x) /\ SeedNames(Seeded) /\ SeedsOnce(Seeded)
  BY KnownStays, SeedFacts
<1>2. /\ q.op = step.op /\ q.by \in {step.by, NoOne} /\ (step.op # "login" => q.val = step.val)
  BY DEF RequestOf
<1>3. ASSUME NEW i \in DOMAIN Seeded, Seeded[i].op = "updateProduct", Seeded[i].row \in DOMAIN y.kept
      PROVE  Holds(e, y, Seeded[i].row, Seeded[i].row)
  <2> PICK n : n = Seeded[i].row
    OBVIOUS
  <2>0. /\ n \in step.save => step.op = "createProduct" /\ step.val = n
        /\ \A f \in step.find : f[1] = n => step.op = "listMyProducts" /\ f[2] = n
    BY <1>1, <1>3 DEF SeedNames
  <2>1. CASE n \in DOMAIN x.kept /\ y.kept[n] = x.kept[n]
    <3>1. Holds(e, x, n, n)
      BY <1>1, <1>3 DEF SeederKnows
    <3> QED BY <2>1, <3>1 DEF Holds
  <2>2. CASE answer.code \in step.expect /\ n \in step.save /\ answer.rows # {} /\ y.kept[n] = Newest(answer.rows)
    <3>1. step.op = "createProduct" /\ step.val = n
      BY <2>0, <2>2
    <3>2. answer.code = 201
      BY <1>1, <2>2, <3>1 DEF SeedsOnce, Creates
    <3>3. ProductAdded(d, q, answer)
      <4>1. q.op = "createProduct"
        BY <1>2, <3>1
      <4>2. ~ProductWritten(d, q, answer)
        BY <4>1 DEF ProductWritten
      <4> QED BY <3>2, <4>1, <4>2, ProductsServed
    <3>4. PICK id : /\ answer.rows = {Row(id, q.val, "available")}
                    /\ Added(d.products, e.products, id, [key |-> q.val, status |-> "available"])
      BY <3>3 DEF ProductAdded
    <3>5. y.kept[n] = Row(id, q.val, "available")
      BY <2>2, <3>4, NewestOne
    <3>6. y.kept[n].id = id
      BY <3>5 DEF Row
    <3>7. id \in DOMAIN e.products /\ e.products[id].key = q.val
      BY <3>4 DEF Added
    <3> QED BY <1>2, <3>1, <3>6, <3>7 DEF Holds
  <2>3. CASE Found(x, step, n, answer.rows, y.kept[n])
    <3>1. PICK f \in step.find : /\ f[1] = n /\ Matches(x, step, f[2], answer.rows) # {}
                                 /\ y.kept[n] = Newest(Matches(x, step, f[2], answer.rows))
      BY <2>3 DEF Found
    <3>2. step.op = "listMyProducts" /\ f[2] = n
      BY <2>0, <3>1
    <3>3. Matches(x, step, n, answer.rows) # {} /\ y.kept[n] = Newest(Matches(x, step, n, answer.rows))
      BY <3>1, <3>2
    <3>4. q.op = "listMyProducts"
      BY <1>2, <3>2
    <3>5. y.kept[n].id \in DOMAIN e.products /\ e.products[y.kept[n].id].key = n
      BY <3>2, <3>3, <3>4, FoundListed
    <3> QED BY <3>5 DEF Holds
  <2> QED BY <1>3, <2>1, <2>2, <2>3 DEF KeptAfter
<1>4. ASSUME NEW i \in DOMAIN Seeded, Seeded[i].op = "message.send", Seeded[i].row \in DOMAIN y.kept
      PROVE  Strangers(y.kept[Seeded[i].row].id[1])
  <2> PICK n : n = Seeded[i].row
    OBVIOUS
  <2>0. /\ n \in step.save => step.op = "createConversation" /\ step.expect = {201}
        /\ \A f \in step.find : f[1] # n
    BY <1>1, <1>4 DEF SeedNames
  <2>1. CASE n \in DOMAIN x.kept /\ y.kept[n] = x.kept[n]
    BY <1>1, <1>4, <2>1 DEF SeederKnows
  <2>2. CASE answer.code \in step.expect /\ n \in step.save /\ answer.rows # {} /\ y.kept[n] = Newest(answer.rows)
    <3>1. q.op = "createConversation" /\ answer.code = 201
      BY <1>2, <2>0, <2>2
    <3>2. q.by # NoOne /\ answer.rows = {Row(<<{q.by, q.on}, 0>>, "conversation", NoKey)}
      BY <3>1, ConversationsServed DEF Conversing
    <3>3. y.kept[n] = Row(<<{q.by, q.on}, 0>>, "conversation", NoKey)
      BY <2>2, <3>2, NewestOne
    <3>4. y.kept[n].id[1] = {q.by, q.on}
      BY <3>3 DEF Row
    <3>5. q.by \notin VUs \cup {Alice, Bob}
      BY <1>2, <3>2, SeedFacts
    <3> QED BY <3>4, <3>5 DEF Strangers
  <2>3. ~Found(x, step, n, answer.rows, y.kept[n])
    BY <2>0 DEF Found
  <2> QED BY <1>4, <2>1, <2>2, <2>3 DEF KeptAfter
<1>5. \A i \in DOMAIN Seeded : Seeded[i].op = "updateProduct" => Holds(e, y, Seeded[i].row, Seeded[i].row)
  BY <1>3 DEF Holds
<1> QED BY <1>4, <1>5 DEF SeederKnows

\* A call that is refused or given up tells nothing.
LEMMA Untold ==
  ASSUME CInv, NEW d, NEW x, NEW step, NEW y, NEW code, KeptAfter(x, y, step, code, {})
  PROVE  /\ Trades(step) /\ MainKnows(d, x) => MainKnows(d, y)
         /\ (\E p \in DOMAIN Seeded : step = Seeded[p]) /\ SeederKnows(d, x) => SeederKnows(d, y)
<1>1. ASSUME Trades(step), MainKnows(d, x)
      PROVE  MainKnows(d, y)
  <2>1. \A n \in {Product1, Product2} : n \in DOMAIN y.kept => n \in DOMAIN x.kept /\ y.kept[n] = x.kept[n]
    BY <1>1 DEF KeptAfter, Found, Trades
  <2> QED BY <1>1, <2>1 DEF MainKnows, Holds
<1>2. ASSUME NEW p \in DOMAIN Seeded, step = Seeded[p], SeederKnows(d, x)
      PROVE  SeederKnows(d, y)
  <2>0. SeedNames(Seeded)
    BY SeedFacts
  <2>1. ASSUME NEW i \in DOMAIN Seeded, Seeded[i].op \in {"updateProduct", "message.send"},
               Seeded[i].row \in DOMAIN y.kept
        PROVE  Seeded[i].row \in DOMAIN x.kept /\ y.kept[Seeded[i].row] = x.kept[Seeded[i].row]
    <3> PICK n : n = Seeded[i].row
      OBVIOUS
    <3>1. \A f \in step.find : f[1] = n => step.op = "listMyProducts"
      BY <1>2, <2>0, <2>1 DEF SeedNames
    <3>2. \A key : step.op = "listMyProducts" => Matches(x, step, key, {}) = {}
      BY DEF Matches
    <3>3. ~Found(x, step, n, {}, y.kept[n])
      BY <3>1, <3>2 DEF Found
    <3> QED BY <2>1, <3>3 DEF KeptAfter
  <2>2. \A i \in DOMAIN Seeded : Seeded[i].op = "updateProduct" => Holds(d, y, Seeded[i].row, Seeded[i].row)
    BY <1>2, <2>1 DEF SeederKnows, Holds
  <2>3. \A i \in DOMAIN Seeded : Seeded[i].op = "message.send" /\ Seeded[i].row \in DOMAIN y.kept =>
                                   Strangers(y.kept[Seeded[i].row].id[1])
    BY <1>2, <2>1 DEF SeederKnows
  <2> QED BY <2>2, <2>3 DEF SeederKnows
<1> QED BY <1>1, <1>2

LEMMA KnownPrimed ==
  ASSUME scenario' = scenario, NEW e, e = db', NEW x, x.kept = run'["main"].kept,
         NEW z, z.kept = run'["seeder"].kept,
         NoDeleted(e), \A q \in late' : Proper(e, q), MainKnows(e, x), SeederKnows(e, z)
  PROVE  Known'
<1>1. Seeded' = Seeded
  BY DEF Seeded
<1>2. MainKnows(e, run'["main"])
  BY DEF MainKnows, Holds
<1>3. SeederKnows(e, run'["seeder"])
  BY DEF SeederKnows, Holds
<1>4. SeederKnows(db, run["seeder"])'
  BY <1>1, <1>3 DEF SeederKnows
<1> QED BY <1>2, <1>4 DEF Known

LEMMA KnownAfter ==
  ASSUME CInv, SInv, Known, NEW r \in Runners, NEW code, NEW rows, Ended(r, code, rows)
  PROVE  Known'
<1> PICK x, step, q, e : x = run[r] /\ step = StepOf(r) /\ q = RequestOf(x, step) /\ e = db'
  OBVIOUS
<1>1. PICK y : /\ KeptAfter(x, y, step, code, rows) /\ OthersWait(r) /\ run'[r].kept = y.kept
  BY AfterCall DEF Ended, CallKept
<1>2. TablesOK(db) /\ Chats /\ x.status = "running" /\ step.op # "require" /\ scenario' = scenario
  BY DEF SInv, Ended
<1>3. Proper(db, q)
  BY <1>2, CallProper DEF Known
<1>4. \/ e = Serve(db, q).db
      \/ e = db
  BY DEF Ended
<1>5. NoDeleted(e) /\ (\A p : Proper(db, p) => Proper(e, p)) /\ (\A z : MainKnows(db, z) => MainKnows(e, z))
      /\ (\A z : SeederKnows(db, z) => SeederKnows(e, z))
  BY <1>2, <1>3, <1>4, KnownStays, DeletedServed DEF Known
<1>6. \A p \in late' : Proper(e, p)
  <2>1. late' \subseteq late \cup {q}
    BY DEF Ended
  <2> QED BY <1>3, <1>5, <2>1 DEF Known
<1>7. ASSUME r = "main"
      PROVE  MainKnows(e, y)
  <2>1. Trades(step) /\ MainKnows(db, x)
    BY <1>2, <1>7, TradesOf DEF Known
  <2>2. ASSUME NEW answer, answer = Serve(db, q), code = answer.code, rows = answer.rows, e = answer.db
        PROVE  MainKnows(e, y)
    BY <1>1, <1>2, <1>3, <2>1, <2>2, MainLearns
  <2>3. CASE rows = {} /\ e = db
    BY <1>1, <2>1, <2>3, Untold
  <2> QED BY <2>2, <2>3 DEF Ended
<1>8. ASSUME r = "seeder"
      PROVE  SeederKnows(e, y)
  <2>1. x.pc \in DOMAIN Seeded /\ step = Seeded[x.pc] /\ SeederKnows(db, x)
    BY <1>2, <1>8, TradesOf DEF Known
  <2>2. ASSUME NEW answer, answer = Serve(db, q), code = answer.code, rows = answer.rows, e = answer.db
        PROVE  SeederKnows(e, y)
    BY <1>1, <1>2, <1>3, <2>1, <2>2, SeederLearns
  <2>3. CASE rows = {} /\ e = db
    BY <1>1, <2>1, <2>3, Untold
  <2> QED BY <2>2, <2>3 DEF Ended
<1>9. CASE r = "main"
  <2>1. run'["seeder"] = run["seeder"]
    BY <1>1, <1>9, RunnerNames DEF OthersWait
  <2> QED BY <1>1, <1>2, <1>5, <1>6, <1>7, <1>9, <2>1, KnownPrimed DEF Known
<1>10. CASE r = "seeder"
  <2>1. run'["main"] = run["main"]
    BY <1>1, <1>10, RunnerNames DEF OthersWait
  <2> QED BY <1>1, <1>2, <1>5, <1>6, <1>8, <1>10, <2>1, KnownPrimed DEF Known
<1>11. CASE r \notin {"main", "seeder"}
  <2>1. run'["main"] = run["main"] /\ run'["seeder"] = run["seeder"]
    BY <1>1, <1>11, RunnerNames DEF OthersWait
  <2> QED BY <1>2, <1>5, <1>6, <2>1, KnownPrimed DEF Known
<1> QED BY <1>9, <1>10, <1>11

-----------------------------------------------------------------------------
(* The rows that are still ahead after a call *)

LEMMA CallMoves ==
  ASSUME CInv, NEW r \in Runners, NEW code, NEW rows, Ended(r, code, rows)
  PROVE  /\ OthersWait(r) /\ run'[r].who = run[r].who /\ run'[r].status # "idle"
         /\ run[r].pc \in Nat /\ run'[r].pc \in Nat /\ run'[r].pc >= run[r].pc
         /\ run'[r].status = "running" /\ code \notin {0, 429} => run'[r].pc > run[r].pc
         /\ \A s \in Runners : ScriptOf(s)' = ScriptOf(s)
<1>1. run[r].status = "running" /\ scenario' = scenario /\ run[r].pc \in Nat
  BY DEF Ended, CInv, Runs, InScript
<1>2. PICK y : /\ Outcome(run[r], y) /\ CallKept(r, y, code, rows) /\ OthersWait(r)
               /\ run'[r] = Advance(y, ScriptOf(r))
  BY <1>1, AfterCall DEF Ended
<1> PICK n : n = run'[r]
  OBVIOUS
<1>3. n.status # "idle" /\ n.who = run[r].who /\ n.pc \in Nat /\ n.pc >= run[r].pc
      /\ (y.status # "next" => n = y) /\ (y.status = "next" /\ n.status = "running" => n.pc > run[r].pc)
  BY <1>1, <1>2, MovesOn, Advanced
<1>4. n.status = "running" /\ code \notin {0, 429} => n.pc > run[r].pc
  BY <1>2, <1>3 DEF CallKept
<1>5. run'["pair"].who = run["pair"].who
  BY <1>2, <1>3, RunnerNames DEF OthersWait
<1>6. \A s \in Runners : ScriptOf(s)' = ScriptOf(s)
  BY <1>1, <1>5, SameScripts
<1> QED BY <1>1, <1>2, <1>3, <1>4, <1>6

LEMMA TablesOf == \A op : TableOf(op) \in CreatedTables
BY DEF TableOf, CreatedTables

\* A row is still ahead when it is not the one asked for.
LEMMA AheadStays ==
  ASSUME CInv, SInv, RInv, NEW r \in Runners, NEW code, NEW rows, Ended(r, code, rows),
         NEW q, q = RequestOf(run[r], StepOf(r)), NEW t \in CreatedTables, NEW o, NEW k, Ahead(t, o, k),
         ~(Asks(q, t, o, k) /\ Made(q, code))
  PROVE  Total(db', late', t, o, k) <= TimeoutsSeen'
<1>1. run[r].status = "running" /\ TimeoutsSeen \in Nat
  BY TimeoutsCounted DEF Ended
<1>2. Proper(db, q)
  BY <1>1, CallProper DEF RInv, Known
<1> PICK A, B, T, U : A = Total(db, late, t, o, k) /\ B = Total(db', late', t, o, k) /\ T = TimeoutsSeen /\ U = TimeoutsSeen'
  OBVIOUS
<1>3. A \in Nat /\ B \in Nat /\ U \in Int /\ B + T <= A + U
  BY <1>2, TotalsAfter
<1>4. A <= T
  BY DEF Ahead
<1> QED BY <1>1, <1>3, <1>4

\* The rows ahead of the other programs stay ahead.
LEMMA OthersAhead ==
  ASSUME CInv, SInv, RInv, NEW r \in Runners, NEW code, NEW rows, Ended(r, code, rows),
         NEW s, s # r, NEW t \in CreatedTables, NEW o, NEW k, Mine(s, t, o), Ahead(t, o, k)
  PROVE  Total(db', late', t, o, k) <= TimeoutsSeen'
<1> PICK q : q = RequestOf(run[r], StepOf(r))
  OBVIOUS
<1>1. ~(Asks(q, t, o, k) /\ Made(q, code))
  <2>1. ASSUME Asks(q, t, o, k), Made(q, code) PROVE FALSE
    <3>1. run[r].status = "running" /\ q.by # NoOne
      BY <2>1 DEF Ended, Made
    <3>2. Mine(r, t, o)
      BY <2>1, <3>1, AskedAhead
    <3> QED BY <3>2, RowsOfOne
  <2> QED BY <2>1
<1> QED BY <1>1, AheadStays

\* As many rows as timeouts, and one more.
LEMMA TotalsBounded ==
  ASSUME CInv, SInv, RInv, NEW r \in Runners, NEW code, NEW rows, Ended(r, code, rows),
         NEW t \in CreatedTables, NEW o, NEW k
  PROVE  Total(db', late', t, o, k) <= 1 + TimeoutsSeen'
<1> PICK q : q = RequestOf(run[r], StepOf(r))
  OBVIOUS
<1>1. run[r].status = "running" /\ TimeoutsSeen \in Nat
  BY TimeoutsCounted DEF Ended
<1>2. Proper(db, q)
  BY <1>1, CallProper DEF RInv, Known
<1> PICK A, B, T, U : A = Total(db, late, t, o, k) /\ B = Total(db', late', t, o, k) /\ T = TimeoutsSeen /\ U = TimeoutsSeen'
  OBVIOUS
<1>3. /\ A \in Nat /\ B \in Nat /\ U \in Int
      /\ Asks(q, t, o, k) /\ Made(q, code) => U = T /\ B <= A + 1
      /\ ~(Asks(q, t, o, k) /\ Made(q, code)) => B + T <= A + U
  BY <1>2, TotalsAfter
<1>4. A <= 1 + T
  BY DEF RInv
<1>5. Asks(q, t, o, k) /\ Made(q, code) => A <= T
  BY <1>1, AskedAhead DEF Made, Ahead
<1> QED BY <1>1, <1>3, <1>4, <1>5

\* The calls of one script that create a row are for different ones.
LEMMA AheadOfScript ==
  ASSUME CInv, SInv, RInv, NEW r \in Runners, NEW code, NEW rows, Ended(r, code, rows), run'[r].status = "running",
         NEW script, script = ScriptOf(r), NEW M, MadeOnce(script, M),
         NEW i, i \in run'[r].pc .. Len(script), script[i].op \in Creates, AheadOf(r, script[i])
  PROVE  AheadOf(r, script[i])'
<1> PICK q, step, later : q = RequestOf(run[r], StepOf(r)) /\ step = StepOf(r) /\ later = script[i]
  OBVIOUS
<1>1. /\ run[r].pc \in Nat /\ run'[r].pc \in Nat /\ run'[r].pc >= run[r].pc
      /\ code \notin {0, 429} => run'[r].pc > run[r].pc
  BY CallMoves
<1>2. /\ run[r].status = "running" /\ Chats /\ run[r].pc \in 1 .. Len(script) /\ step = script[run[r].pc]
      /\ Script(script) /\ DOMAIN script = 1 .. Len(script) /\ Len(script) \in Nat
  BY TradesOf, ScriptLen DEF Ended, SInv, MadeOnce
<1>3. i \in DOMAIN script /\ run[r].pc \in DOMAIN script /\ i \in Nat
  BY <1>1, <1>2
<1>4. ASSUME NEW o, Mine(r, TableOf(later.op), o), Asks(q, TableOf(later.op), o, later.val), Made(q, code)
      PROVE  FALSE
  <2>1. code \notin {0, 429} /\ q.by # NoOne
    BY <1>4 DEF Made
  <2> PICK t, k : t = TableOf(later.op) /\ k = later.val
    OBVIOUS
  <2>2. step.op \in Creates /\ TableOf(step.op) = TableOf(later.op) /\ step.val = later.val
    <3>1. Asks(q, t, o, k)
      BY <1>4
    <3>2. q.by # NoOne /\ run[r].status = "running"
      BY <1>2, <2>1
    <3>3. StepOf(r).op \in Creates /\ TableOf(StepOf(r).op) = t /\ StepOf(r).val = k
      BY <3>1, <3>2, AskedAhead
    <3> QED BY <3>3
  <2>3. later.op = step.op
    BY <2>2 DEF TableOf, Creates
  <2>4. i = run[r].pc
    BY <1>2, <1>3, <2>2, <2>3 DEF MadeOnce
  <2> QED BY <1>1, <1>3, <2>1, <2>4
<1>5. ASSUME NEW o, Mine(r, TableOf(later.op), o)
      PROVE  Total(db', late', TableOf(later.op), o, later.val) <= TimeoutsSeen'
  <2>1. Ahead(TableOf(later.op), o, later.val)
    BY <1>5 DEF AheadOf
  <2> QED BY <1>4, <1>5, <2>1, AheadStays, TablesOf
<1> QED BY <1>5 DEF AheadOf, Ahead

LEMMA MainAheadAfter ==
  ASSUME CInv, SInv, RInv, NEW r \in Runners, NEW code, NEW rows, Ended(r, code, rows)
  PROVE  MainAhead'
<1>1. SUFFICES ASSUME run'["main"].status = "running",
                      NEW i \in run'["main"].pc .. Len(MainScript), MainScript[i].op \in Creates
               PROVE  AheadOf("main", MainScript[i])'
  BY DEF MainAhead
<1>2. CASE r = "main"
  <2>1. run[r].status = "running" /\ Chats
    BY DEF Ended, SInv
  <2>2. PICK M : MadeOnce(MainScript, M)
    BY MainTrades
  <2>3. ScriptOf(r) = MainScript
    BY <1>2, <2>1, TradesOf
  <2>4. run[r].pc \in Nat /\ run'[r].pc \in Nat /\ run'[r].pc >= run[r].pc
    BY CallMoves
  <2>5. Len(MainScript) \in Nat
    BY MainAt
  <2>6. i \in run["main"].pc .. Len(MainScript)
    BY <1>2, <2>4, <2>5
  <2>7. AheadOf(r, MainScript[i])
    BY <1>1, <1>2, <2>1, <2>6 DEF RInv, MainAhead
  <2> QED BY <1>1, <1>2, <2>2, <2>3, <2>7, AheadOfScript
<1>3. CASE r # "main"
  <2>1. run'["main"] = run["main"]
    BY <1>3, CallMoves, RunnerNames DEF OthersWait
  <2> PICK step : step = MainScript[i]
    OBVIOUS
  <2>2. AheadOf("main", step)
    BY <1>1, <2>1 DEF RInv, MainAhead
  <2>3. ASSUME NEW o, Mine("main", TableOf(step.op), o)
        PROVE  Total(db', late', TableOf(step.op), o, step.val) <= TimeoutsSeen'
    BY <1>3, <2>2, <2>3, OthersAhead, TablesOf DEF AheadOf
  <2> QED BY <2>3 DEF AheadOf, Ahead
<1> QED BY <1>2, <1>3

LEMMA PairAheadAfter ==
  ASSUME CInv, SInv, RInv, NEW r \in Runners, NEW code, NEW rows, Ended(r, code, rows)
  PROVE  PairAhead'
<1> PICK script : script = ScriptOf("pair")
  OBVIOUS
<1>0. ScriptOf("pair")' = script
  BY CallMoves, RunnerNames
<1>1. ASSUME run'["pair"].status = "idle", NEW o, NEW k, Mine("pair", "messages", o)
      PROVE  Total(db', late', "messages", o, k) <= TimeoutsSeen'
  <2>1. r # "pair" /\ run'["pair"] = run["pair"]
    BY <1>1, CallMoves, RunnerNames DEF OthersWait
  <2>2. Ahead("messages", o, k)
    BY <1>1, <2>1 DEF RInv, PairAhead
  <2>3. "messages" \in CreatedTables
    BY DEF CreatedTables
  <2> QED BY <1>1, <2>1, <2>2, <2>3, OthersAhead
<1>2. ASSUME run'["pair"].status = "running", NEW i \in run'["pair"].pc .. Len(script), script[i].op \in Creates
      PROVE  AheadOf("pair", script[i])'
  <2>1. CASE r = "pair"
    <3>1. run[r].status = "running" /\ Chats
      BY DEF Ended, SInv
    <3>2. PICK M : MadeOnce(script, M)
      BY <2>1, <3>1, TradesOf
    <3>3. run[r].pc \in Nat /\ run'[r].pc \in Nat /\ run'[r].pc >= run[r].pc
      BY CallMoves
    <3>4. Len(script) \in Nat
      BY <3>2, ScriptLen DEF MadeOnce
    <3>5. i \in run["pair"].pc .. Len(script)
      BY <2>1, <3>3, <3>4
    <3>6. AheadOf(r, script[i])
      BY <1>2, <2>1, <3>1, <3>5 DEF RInv, PairAhead
    <3> QED BY <1>2, <2>1, <3>2, <3>6, AheadOfScript
  <2>2. CASE r # "pair"
    <3>1. run'["pair"] = run["pair"]
      BY <2>2, CallMoves, RunnerNames DEF OthersWait
    <3> PICK step : step = script[i]
      OBVIOUS
    <3>2. AheadOf("pair", step)
      BY <1>2, <3>1 DEF RInv, PairAhead
    <3>3. ASSUME NEW o, Mine("pair", TableOf(step.op), o)
          PROVE  Total(db', late', TableOf(step.op), o, step.val) <= TimeoutsSeen'
      BY <2>2, <3>2, <3>3, OthersAhead, TablesOf DEF AheadOf
    <3> QED BY <3>3 DEF AheadOf, Ahead
  <2> QED BY <2>1, <2>2
<1> QED BY <1>0, <1>1, <1>2 DEF PairAhead, Ahead

-----------------------------------------------------------------------------
(* What the seeder has listed and not found is ahead of it *)

Unlisted(rows, key) == \A row \in rows : row.key # key
ListedFor(op, q) == IF op = "message.send" THEN q.id[1] ELSE q.by

\* A listing that shows no row of a name: there is none.
LEMMA ListedNone ==
  ASSUME NEW d, NoDeleted(d), NEW op \in Creates, NEW q, q.op = ListingOf(op), q.by # Alice, q.by # Bob, NEW key,
         NEW answer, answer = Serve(d, q), answer.code = 200, Unlisted(answer.rows, key)
  PROVE  q.by # NoOne /\ answer.db = d /\ RowsAs(d, TableOf(op), ListedFor(op, q), key) = {}
<1>0. \A row \in answer.rows : row.key # key
  BY DEF Unlisted
<1>1. q.op \in {"listMyProducts", "getMyReports", "listMessages"}
  BY DEF ListingOf, Creates
<1>2. answer.code # 200 \/ (q.by # NoOne /\ answer = Handle(d, q))
  BY <1>1 DEF Serve, Denied, AuthPublic, OpenReads, OptionalReads, AdminRoutes, Refuse, Reply
<1>3. \A t, o, k : o \notin {Alice, Bob} => Name(t, o, k) = k
  BY DEF Name
<1>4. CASE op = "createProduct"
  <2>1. answer = listMyProducts(d, q)
    BY <1>2, <1>4 DEF ListingOf, Handle
  <2>2. answer.db = d /\ answer.rows = {ProductRow(d, id) : id \in {i \in DOMAIN d.products : Visible(d, i) /\ i[1] = q.by}}
    BY <2>1 DEF listMyProducts, Reply
  <2>3. ASSUME NEW id \in DOMAIN d.products, id[1] = q.by
        PROVE  d.products[id].key # key
    <3>1. Visible(d, id)
      BY <1>2, <2>3 DEF Visible, NoDeleted
    <3>2. ProductRow(d, id) \in answer.rows
      BY <2>2, <2>3, <3>1
    <3> QED BY <1>0, <3>2 DEF ProductRow, Row
  <2> QED BY <1>2, <1>3, <1>4, <2>2, <2>3 DEF RowsAs, TableOf, ListedFor
<1>5. CASE op = "createReport"
  <2>1. answer = getMyReports(d, q)
    BY <1>2, <1>5 DEF ListingOf, Handle
  <2>2. answer.db = d /\ answer.rows = {Row(id, d.reports[id].key, d.reports[id].status) :
                                          id \in {i \in DOMAIN d.reports : i[1] = q.by}}
    BY <2>1 DEF getMyReports, Reply
  <2>3. ASSUME NEW id \in DOMAIN d.reports, id[1] = q.by
        PROVE  d.reports[id].key # key
    <3>1. Row(id, d.reports[id].key, d.reports[id].status) \in answer.rows
      BY <2>2, <2>3
    <3> QED BY <1>0, <3>1 DEF Row
  <2> QED BY <1>2, <1>3, <1>5, <2>2, <2>3 DEF RowsAs, TableOf, ListedFor
<1>6. CASE op = "message.send"
  <2>1. answer = listMessages(d, q)
    BY <1>2, <1>6 DEF ListingOf, Handle
  <2>2. \/ answer.code \in {403, 404}
        \/ answer = Reply(d, 200, {Row(id, d.messages[id].key, NoKey) : id \in {i \in DOMAIN d.messages : i[1] = q.id[1]}})
    BY <2>1 DEF listMessages, InConversation, assertConversationParticipant, Refuse, Reply
  <2>3. answer.db = d /\ answer.rows = {Row(id, d.messages[id].key, NoKey) :
                                          id \in {i \in DOMAIN d.messages : i[1] = q.id[1]}}
    BY <2>2 DEF Reply
  <2>4. ASSUME NEW id \in DOMAIN d.messages, id[1] = q.id[1]
        PROVE  d.messages[id].key # key
    <3>1. Row(id, d.messages[id].key, NoKey) \in answer.rows
      BY <2>3, <2>4
    <3> QED BY <1>0, <3>1 DEF Row
  <2>5. \A k : Name("messages", q.id[1], k) = k
    BY DEF Name
  <2> QED BY <1>2, <1>6, <2>3, <2>4, <2>5 DEF RowsAs, TableOf, ListedFor
<1> QED BY <1>4, <1>5, <1>6 DEF Creates

\* A call that is armed after a step was armed before it, unless the step has
\* just read the listing.
LEMMA SeederMoves ==
  ASSUME CInv, SInv, NEW x, x = run["seeder"], x.status = "running", NEW y, Outcome(x, y), NEW n, n = Advance(y, Seeded),
         n.status = "running", DOMAIN x.kept \subseteq DOMAIN y.kept, y.status # "next" => y.kept = x.kept,
         \A name \in DOMAIN y.kept : (name \in DOMAIN x.kept /\ y.kept[name] = x.kept[name]) \/ Learns(Seeded[x.pc], name),
         NEW i, i \in n.pc .. Len(Seeded), Armed(n, i)
  PROVE  /\ OwnerAt(n, Seeded[i]) = OwnerAt(x, Seeded[i])
         /\ \/ Armed(x, i) /\ i \in x.pc .. Len(Seeded)
            \/ /\ y.status = "next" /\ ListedFirst(Seeded, x.pc, i)
               /\ Seeded[i].needs \subseteq DOMAIN x.kept
<1>0. /\ ScriptOf("seeder") = Seeded /\ DOMAIN Seeded = 1 .. Len(Seeded) /\ Len(Seeded) \in Nat /\ SeedsOnce(Seeded)
      /\ "seeder" \in Runners /\ x.pc \in 1 .. Len(Seeded)
  BY SeedFacts, TradesOf, RunnerNames DEF SInv
<1>1. /\ n.kept = y.kept /\ n.pc \in Nat /\ n.pc >= x.pc
      /\ y.status # "next" => n = y /\ n.pc = x.pc
      /\ y.status = "next" => n.pc > x.pc /\ \A l \in x.pc + 1 .. n.pc - 1 : ~Applies(Seeded[l], n.kept)
  BY <1>0, MovesOn
<1>2. i \in Nat /\ i >= n.pc /\ i \in x.pc .. Len(Seeded) /\ i \in DOMAIN Seeded
  BY <1>0, <1>1
<1> PICK step : step = Seeded[i]
  OBVIOUS
<1>3. /\ step.op \in Creates /\ step.needs \subseteq DOMAIN n.kept /\ step.lacks \cap DOMAIN n.kept = {}
      /\ \E l \in 1 .. n.pc - 1 : ListedFirst(Seeded, l, i)
  BY DEF Armed
<1>4. step.op = "message.send" => step.row \in step.needs
  BY <1>0, <1>2, <1>3 DEF SeedsOnce
<1>5. step.lacks \cap DOMAIN x.kept = {}
  BY <1>1, <1>3
<1>6. CASE y.status # "next"
  <2>1. n.kept = x.kept /\ n.pc = x.pc
    BY <1>1, <1>6
  <2>2. Armed(x, i) /\ OwnerAt(n, step) = OwnerAt(x, step)
    BY <2>1 DEF Armed, OwnerAt
  <2> QED BY <1>2, <2>2
<1>7. CASE y.status = "next"
  <2>1. PICK l \in 1 .. n.pc - 1 : ListedFirst(Seeded, l, i)
    BY <1>3
  <2>2. l <= x.pc
    <3>1. CASE l \in x.pc + 1 .. n.pc - 1
      <4>1. Applies(Seeded[l], n.kept)
        BY <1>3, <2>1 DEF Applies, ListedFirst
      <4> QED BY <1>1, <1>7, <3>1, <4>1
    <3> QED BY <1>0, <1>1, <3>1
  <2>3. x.pc \in l .. i - 1
    BY <1>0, <1>1, <1>2, <1>7, <2>2
  <2>4. \A name \in step.needs : ~Learns(Seeded[x.pc], name)
    BY <2>1, <2>3 DEF ListedFirst
  <2>5. step.needs \subseteq DOMAIN x.kept /\ \A name \in step.needs : n.kept[name] = x.kept[name]
    BY <1>1, <1>3, <2>4
  <2>6. OwnerAt(n, step) = OwnerAt(x, step)
    BY <1>4, <2>5 DEF OwnerAt
  <2>7. CASE l = x.pc
    BY <1>7, <2>1, <2>5, <2>6, <2>7
  <2>8. CASE l < x.pc
    <3>1. l \in 1 .. x.pc - 1
      BY <1>0, <2>8
    <3>2. Armed(x, i)
      BY <1>3, <1>5, <2>1, <2>5, <3>1 DEF Armed
    <3> QED BY <1>2, <2>6, <3>2
  <2> QED BY <1>0, <2>2, <2>7, <2>8
<1> QED BY <1>6, <1>7

\* The seeder makes a call only for a row it lacks.
LEMMA SeederLacks ==
  ASSUME CInv, SInv, NEW x, x = run["seeder"], x.status = "running", NEW y, Outcome(x, y), NEW n, n = Advance(y, Seeded),
         n.status = "running", y.status # "next" => y.kept = x.kept, Seeded[x.pc].lacks \cap DOMAIN x.kept = {}
  PROVE  Seeded[n.pc].lacks \cap DOMAIN n.kept = {}
<1>0. ScriptOf("seeder") = Seeded /\ "seeder" \in Runners
  BY SeedFacts, RunnerNames
<1>1. /\ n.kept = y.kept
      /\ y.status # "next" => n = y /\ n.pc = x.pc
      /\ y.status = "next" => Applies(Seeded[n.pc], n.kept)
  BY <1>0, MovesOn
<1> QED BY <1>1 DEF Applies

LEMMA SeederAheadPrimed ==
  ASSUME CInv, scenario' = scenario, NEW n, n = run'["seeder"],
         n.status = "running" => Seeded[n.pc].lacks \cap DOMAIN n.kept = {},
         \A i \in n.pc .. Len(Seeded) : n.status = "running" /\ Armed(n, i) =>
           Total(db', late', TableOf(Seeded[i].op), OwnerAt(n, Seeded[i]), Seeded[i].val) <= TimeoutsSeen'
  PROVE  SeederAhead'
<1>1. Seeded' = Seeded /\ ScriptOf("seeder")' = Seeded
  BY SeedFacts, SameScripts DEF Seeded, ScriptOf
<1>2. StepOf("seeder")' = Seeded[n.pc]
  BY <1>1 DEF StepOf
<1>3. \A i : Armed(run["seeder"], i)' <=> Armed(n, i)
  BY <1>1 DEF Armed
<1>4. \A step : OwnerAt(run["seeder"], step)' = OwnerAt(n, step)
  BY DEF OwnerAt
<1>5. ASSUME run'["seeder"].status = "running", NEW i, i \in run'["seeder"].pc .. Len(Seeded)', Armed(run["seeder"], i)'
      PROVE  Ahead(TableOf(Seeded[i].op), OwnerAt(run["seeder"], Seeded[i]), Seeded[i].val)'
  <2>1. i \in n.pc .. Len(Seeded) /\ Armed(n, i)
    BY <1>1, <1>3, <1>5
  <2>2. Total(db', late', TableOf(Seeded[i].op), OwnerAt(n, Seeded[i]), Seeded[i].val) <= TimeoutsSeen'
    BY <1>5, <2>1
  <2> QED BY <1>1, <2>2 DEF Ahead, OwnerAt
<1>6. run'["seeder"].status = "running" => StepOf("seeder")'.lacks \cap DOMAIN run'["seeder"].kept = {}
  BY <1>2
<1> QED BY <1>5, <1>6 DEF SeederAhead

\* The rows the seeder is armed for are its own.
LEMMA ArmedMine ==
  ASSUME CInv, SInv, NEW x, SeederKnows(db, x), NEW i \in DOMAIN Seeded, Armed(x, i)
  PROVE  Mine("seeder", TableOf(Seeded[i].op), OwnerAt(x, Seeded[i]))
<1> PICK step : step = Seeded[i]
  OBVIOUS
<1>1. step.op \in Creates /\ step.needs \subseteq DOMAIN x.kept /\ SeedsOnce(Seeded)
  BY SeedFacts DEF Armed
<1>2. CASE step.op = "message.send"
  <2>1. step.row \in DOMAIN x.kept
    BY <1>1, <1>2 DEF SeedsOnce
  <2>2. Strangers(x.kept[step.row].id[1])
    BY <1>2, <2>1 DEF SeederKnows
  <2> QED BY <1>2, <2>2 DEF Mine, OwnerAt, TableOf
<1>3. CASE step.op # "message.send"
  <2>1. step.by \notin VUs \cup {Alice, Bob}
    BY SeedFacts
  <2> QED BY <1>1, <1>3, <2>1 DEF Mine, OwnerAt, TableOf, Creates
<1> QED BY <1>2, <1>3

\* The listing that arms a call shows that its row is not there.
LEMMA SeederReads ==
  ASSUME CInv, SInv, RInv, NEW code, NEW rows, Ended("seeder", code, rows), NEW x, x = run["seeder"],
         NEW y, CallKept("seeder", y, code, rows), y.status = "next",
         NEW i \in DOMAIN Seeded, ListedFirst(Seeded, x.pc, i), Seeded[i].op \in Creates,
         Seeded[i].needs \subseteq DOMAIN x.kept, Seeded[i].lacks \cap DOMAIN y.kept = {}
  PROVE  Total(db', late', TableOf(Seeded[i].op), OwnerAt(x, Seeded[i]), Seeded[i].val) <= TimeoutsSeen'
<1> PICK later, step, q : later = Seeded[i] /\ step = Seeded[x.pc] /\ q = RequestOf(x, step)
  OBVIOUS
<1>0. /\ x.status = "running" /\ "seeder" \in Runners /\ StepOf("seeder") = step /\ x.pc \in DOMAIN Seeded
      /\ SeedsOnce(Seeded) /\ Chats
  BY TradesOf, RunnerNames, SeedFacts DEF Ended, SInv
<1>1. /\ step.op = ListingOf(later.op) /\ step.row = later.row /\ step.expect = {200} /\ step.forgive = {}
      /\ later.op # "message.send" => step.by = later.by
      /\ \E name \in later.lacks : <<name, later.val>> \in step.find
  BY DEF ListedFirst
<1>2. code = 200 /\ Learned(x, y, step, rows)
  BY <1>0, <1>1 DEF CallKept
<1>3. PICK answer : /\ answer = Serve(db, q) /\ code = answer.code /\ rows = answer.rows /\ db' = answer.db
                    /\ late' = late /\ net'.timeouts = net.timeouts /\ scenario' = scenario
  BY <1>0, <1>2 DEF Ended
<1>4. \A row \in rows : row.key # later.val
  <2>1. PICK name \in later.lacks : <<name, later.val>> \in step.find
    BY <1>1
  <2>2. name \notin DOMAIN y.kept
    BY <2>1
  <2>3. Matches(x, step, later.val, rows) = {}
    BY <1>2, <2>1, <2>2 DEF Learned
  <2>4. step.op \notin {"listFavorites", "listCategories"}
    BY <1>1 DEF ListingOf, Creates
  <2> QED BY <2>3, <2>4 DEF Matches
<1>5. /\ q.op = step.op /\ q.id = RowIn(x, step.row) /\ q.by \in {step.by, NoOne}
  BY DEF RequestOf
<1>6. step.by \notin {Alice, Bob} /\ NoOne \notin {Alice, Bob}
  BY <1>0, SeedFacts, PeopleAssumption, RunnersAssumption DEF NoOne
<1> PICK d, o, t, op, key : /\ d = db /\ o = ListedFor(later.op, q) /\ t = TableOf(later.op)
                            /\ op = later.op /\ key = later.val
  OBVIOUS
<1>7. q.by # NoOne /\ answer.db = d /\ RowsAs(d, t, o, later.val) = {}
  <2>1. NoDeleted(d) /\ q.by # Alice /\ q.by # Bob /\ answer.code = 200 /\ q.op = ListingOf(op)
    BY <1>1, <1>2, <1>3, <1>5, <1>6 DEF RInv, Known
  <2>2. op \in Creates /\ answer = Serve(d, q) /\ Unlisted(answer.rows, key)
    BY <1>3, <1>4 DEF Unlisted
  <2>3. q.by # NoOne /\ answer.db = d /\ RowsAs(d, TableOf(op), ListedFor(op, q), key) = {}
    BY <2>1, <2>2, ListedNone
  <2> QED BY <2>3
<1>8. OwnerAt(x, later) = o
  <2>1. CASE later.op = "message.send"
    <3>1. later.row \in DOMAIN x.kept
      BY <1>0, <2>1 DEF SeedsOnce
    <3> QED BY <1>1, <1>5, <2>1, <3>1 DEF OwnerAt, RowIn, ListedFor
  <2>2. CASE later.op # "message.send"
    BY <1>1, <1>5, <1>7, <2>2 DEF OwnerAt, ListedFor
  <2> QED BY <2>1, <2>2
<1>9. TimeoutsSeen' = TimeoutsSeen
  BY <1>3 DEF TimeoutsSeen
<1>10. Total(d, late, t, o, later.val) <= TimeoutsSeen
  <2>1. /\ IsFiniteSet(late) /\ Cardinality(late) <= TimeoutsSeen /\ TimeoutsSeen \in Nat
    BY TimeoutsCounted
  <2> PICK S : S = Cardinality(Sending(late, t, o, later.val))
    OBVIOUS
  <2>2. S \in Nat /\ S <= Cardinality(late) /\ Cardinality(late) \in Nat
    BY <2>1, SendingFinite, FS_CardinalityType
  <2>3. Total(d, late, t, o, later.val) = 0 + S
    BY <1>7, FS_EmptySet DEF Total
  <2> QED BY <2>1, <2>2, <2>3
<1>11. db' = d /\ late' = late
  BY <1>3, <1>7
<1> QED BY <1>8, <1>9, <1>10, <1>11

LEMMA SeederAheadAfter ==
  ASSUME CInv, SInv, RInv, NEW r \in Runners, NEW code, NEW rows, Ended(r, code, rows)
  PROVE  SeederAhead'
<1> PICK x, n : x = run["seeder"] /\ n = run'["seeder"]
  OBVIOUS
<1>0. scenario' = scenario /\ SeederAhead /\ SeederKnows(db, x) /\ DOMAIN Seeded = 1 .. Len(Seeded) /\ Chats
  BY SeedFacts DEF Ended, RInv, Known, SInv
<1>1. CASE r # "seeder"
  <2>1. n = x
    BY <1>1, CallMoves, RunnerNames DEF OthersWait
  <2>2. n.status = "running" => x.pc \in DOMAIN Seeded /\ StepOf("seeder") = Seeded[x.pc]
    BY <1>0, <2>1, TradesOf, RunnerNames
  <2>3. n.status = "running" => Seeded[n.pc].lacks \cap DOMAIN n.kept = {}
    BY <1>0, <2>1, <2>2 DEF SeederAhead
  <2>4. ASSUME n.status = "running", NEW i \in n.pc .. Len(Seeded), Armed(n, i)
        PROVE  Total(db', late', TableOf(Seeded[i].op), OwnerAt(n, Seeded[i]), Seeded[i].val) <= TimeoutsSeen'
    <3>1. i \in DOMAIN Seeded
      BY <1>0, <2>1, <2>2, <2>4
    <3> PICK t, o, k : t = TableOf(Seeded[i].op) /\ o = OwnerAt(n, Seeded[i]) /\ k = Seeded[i].val
      OBVIOUS
    <3>2. Ahead(t, o, k)
      BY <1>0, <2>1, <2>4 DEF SeederAhead
    <3>3. Mine("seeder", t, o)
      BY <1>0, <2>1, <2>4, <3>1, ArmedMine
    <3>4. t \in CreatedTables
      BY TablesOf
    <3> QED BY <1>1, <3>2, <3>3, <3>4, OthersAhead
  <2> QED BY <1>0, <2>3, <2>4, SeederAheadPrimed
<1>2. CASE r = "seeder"
  <2>1. /\ x.status = "running" /\ x.pc \in DOMAIN Seeded /\ StepOf("seeder") = Seeded[x.pc] /\ ScriptOf("seeder") = Seeded
        /\ Ended("seeder", code, rows)
    BY <1>0, <1>2, TradesOf DEF Ended
  <2>2. PICK y : Outcome(x, y) /\ CallKept("seeder", y, code, rows) /\ n = Advance(y, Seeded)
    BY <1>2, <2>1, AfterCall DEF Ended
  <2>3. /\ DOMAIN x.kept \subseteq DOMAIN y.kept /\ (y.status # "next" => y.kept = x.kept)
        /\ \A name \in DOMAIN y.kept : (name \in DOMAIN x.kept /\ y.kept[name] = x.kept[name]) \/ Learns(Seeded[x.pc], name)
    BY <2>1, <2>2 DEF CallKept, Learned, KeptAfter, Found, Learns
  <2>4. n.status = "running" => Seeded[n.pc].lacks \cap DOMAIN n.kept = {}
    <3>1. Seeded[x.pc].lacks \cap DOMAIN x.kept = {}
      BY <1>0, <2>1 DEF SeederAhead
    <3> QED BY <2>1, <2>2, <2>3, <3>1, SeederLacks
  <2>5. ASSUME n.status = "running", NEW i \in n.pc .. Len(Seeded), Armed(n, i)
        PROVE  Total(db', late', TableOf(Seeded[i].op), OwnerAt(n, Seeded[i]), Seeded[i].val) <= TimeoutsSeen'
    <3>1. n.pc \in Nat /\ n.pc >= x.pc /\ (code \notin {0, 429} => n.pc > x.pc)
      BY <1>2, <2>5, CallMoves
    <3>2. i \in DOMAIN Seeded /\ i >= n.pc /\ i \in Nat /\ x.pc \in Nat
      BY <1>0, <2>1, <3>1
    <3>3. /\ OwnerAt(n, Seeded[i]) = OwnerAt(x, Seeded[i])
          /\ \/ Armed(x, i) /\ i \in x.pc .. Len(Seeded)
             \/ /\ y.status = "next" /\ ListedFirst(Seeded, x.pc, i)
                /\ Seeded[i].needs \subseteq DOMAIN x.kept
      BY <2>1, <2>2, <2>3, <2>5, SeederMoves
    <3> PICK t, o, k : t = TableOf(Seeded[i].op) /\ o = OwnerAt(x, Seeded[i]) /\ k = Seeded[i].val
      OBVIOUS
    <3>4. CASE Armed(x, i) /\ i \in x.pc .. Len(Seeded)
      <4>1. Ahead(t, o, k)
        BY <1>0, <2>1, <3>4 DEF SeederAhead
      <4> PICK q, step : q = RequestOf(run[r], StepOf(r)) /\ step = Seeded[x.pc]
        OBVIOUS
      <4>2. ASSUME Asks(q, t, o, k), Made(q, code) PROVE FALSE
        <5>1. q.by # NoOne /\ code \notin {0, 429} /\ run[r].status = "running"
          BY <1>2, <2>1, <4>2 DEF Made
        <5>2. StepOf(r).op \in Creates /\ TableOf(StepOf(r).op) = t /\ StepOf(r).val = k
          BY <4>2, <5>1, AskedAhead
        <5>3. step.op \in Creates /\ TableOf(step.op) = TableOf(Seeded[i].op) /\ step.val = Seeded[i].val
          BY <1>2, <2>1, <5>2
        <5>4. Seeded[i].op \in Creates
          BY <3>4 DEF Armed
        <5>5. Seeded[i].op = step.op
          BY <5>3, <5>4 DEF TableOf, Creates
        <5>6. i = x.pc
          BY <2>1, <3>2, <5>3, <5>4, <5>5, SeedFacts DEF SeedsOnce
        <5> QED BY <3>1, <3>2, <5>1, <5>6
      <4>3. t \in CreatedTables
        BY TablesOf
      <4>4. Total(db', late', t, o, k) <= TimeoutsSeen'
        BY <4>1, <4>2, <4>3, AheadStays
      <4> QED BY <3>3, <4>4
    <3>5. CASE /\ y.status = "next" /\ ListedFirst(Seeded, x.pc, i)
               /\ Seeded[i].needs \subseteq DOMAIN x.kept
      <4>1. n.kept = y.kept
        BY <1>2, <2>1, <2>2, MovesOn
      <4>2. Seeded[i].op \in Creates /\ Seeded[i].lacks \cap DOMAIN y.kept = {}
        BY <2>5, <4>1 DEF Armed
      <4>3. Total(db', late', t, o, k) <= TimeoutsSeen'
        BY <2>1, <2>2, <3>2, <3>5, <4>2, SeederReads
      <4> QED BY <3>3, <4>3
    <3> QED BY <3>3, <3>4, <3>5
  <2> QED BY <1>0, <2>4, <2>5, SeederAheadPrimed
<1> QED BY <1>1, <1>2

LEMMA CallRInv ==
  ASSUME CInv, SInv, RInv, NEW r \in Runners, Answered(r) \/ Throttled(r) \/ TimedOut(r)
  PROVE  RInv'
<1>1. PICK code, rows : Ended(r, code, rows)
  BY CallsEnd
<1>2. Known'
  BY <1>1, KnownAfter DEF RInv
<1>3. \A t \in CreatedTables : \A o, k : Total(db', late', t, o, k) <= 1 + TimeoutsSeen'
  BY <1>1, TotalsBounded
<1>4. MainAhead' /\ PairAhead' /\ SeederAhead'
  BY <1>1, MainAheadAfter, PairAheadAfter, SeederAheadAfter
<1> QED BY <1>2, <1>3, <1>4 DEF RInv

-----------------------------------------------------------------------------
(* The steps that make no call *)

\* What is ahead before a step is ahead after it, as far as rows and late
\* requests go.
Steady ==
  /\ scenario' = scenario
  /\ \A t \in CreatedTables : \A o, k : Total(db', late', t, o, k) <= 1 + TimeoutsSeen'
  /\ \A t \in CreatedTables : \A o, k : Ahead(t, o, k) => Total(db', late', t, o, k) <= TimeoutsSeen'

LEMMA StillSteady ==
  ASSUME RInv, scenario' = scenario, db' = db, late' = late, net'.timeouts = net.timeouts
  PROVE  Steady
<1>1. TimeoutsSeen' = TimeoutsSeen
  BY DEF TimeoutsSeen
<1>2. \A t, o, k : Total(db', late', t, o, k) = Total(db, late, t, o, k)
  OBVIOUS
<1> QED BY <1>1, <1>2 DEF Steady, RInv, Ahead

LEMMA LateSteady ==
  ASSUME CInv, SInv, RInv, ServedLate
  PROVE  Steady /\ Known'
<1> PICK d, e, T : d = db /\ e = db' /\ T = TimeoutsSeen
  OBVIOUS
<1>1. PICK q \in late : /\ e = Serve(d, q).db /\ late' = late \ {q}
                        /\ scenario' = scenario /\ run' = run /\ net' = net
  BY DEF ServedLate
<1>2. TablesOK(d) /\ IsFiniteSet(late) /\ T \in Nat /\ TimeoutsSeen' = T /\ Proper(d, q)
  BY <1>1, TimeoutsCounted DEF SInv, RInv, Known, TimeoutsSeen
<1>3. ASSUME NEW t \in CreatedTables, NEW o, NEW k
      PROVE  /\ Total(e, late \ {q}, t, o, k) <= 1 + T
             /\ Total(d, late, t, o, k) <= T => Total(e, late \ {q}, t, o, k) <= T
  <2> PICK A, B : A = Total(d, late, t, o, k) /\ B = Total(e, late \ {q}, t, o, k)
    OBVIOUS
  <2>1. A \in Nat /\ B \in Nat /\ B <= A
    BY <1>1, <1>2, TotalLate
  <2>2. A <= 1 + T
    BY DEF RInv
  <2> QED BY <1>2, <2>1, <2>2
<1>4. Steady
  BY <1>1, <1>2, <1>3 DEF Steady, Ahead
<1>5. NoDeleted(e) /\ (\A p : Proper(d, p) => Proper(e, p)) /\ (\A z : MainKnows(d, z) => MainKnows(e, z))
      /\ (\A z : SeederKnows(d, z) => SeederKnows(e, z))
  BY <1>1, <1>2, KnownStays, DeletedServed DEF RInv, Known
<1>6. \A p \in late' : Proper(e, p)
  BY <1>1, <1>5 DEF RInv, Known
<1>7. Known'
  BY <1>1, <1>5, <1>6, KnownPrimed DEF RInv, Known
<1> QED BY <1>4, <1>7

\* A program that is no further than its script says knows what it knew; the
\* seeder may start again, with nothing.
LEMMA StillKnown ==
  ASSUME Known, scenario' = scenario, db' = db, late' = late, run'["main"].kept = run["main"].kept,
         \/ run'["seeder"].kept = run["seeder"].kept
         \/ DOMAIN run'["seeder"].kept = {}
  PROVE  Known'
<1> PICK e, x, z : e = db' /\ x = run'["main"] /\ z = run'["seeder"]
  OBVIOUS
<1>1. MainKnows(e, x)
  BY DEF Known, MainKnows, Holds
<1>2. SeederKnows(e, z)
  <2>1. CASE z.kept = run["seeder"].kept
    BY <2>1 DEF Known, SeederKnows, Holds
  <2>2. CASE DOMAIN z.kept = {}
    BY <2>2 DEF SeederKnows, Holds
  <2> QED BY <2>1, <2>2
<1>3. NoDeleted(e) /\ \A q \in late' : Proper(e, q)
  BY DEF Known
<1> QED BY <1>1, <1>2, <1>3, KnownPrimed

LEMMA MainSteady ==
  ASSUME CInv, RInv, Steady, NEW x, x = run["main"], NEW n, n = run'["main"], n.pc \in Nat,
         n.status = "running" => x.status = "running" /\ n.pc >= x.pc
  PROVE  MainAhead'
<1>1. x.pc \in Nat /\ Len(MainScript) \in Nat
  BY RunnerNames, MainAt DEF CInv, Runs, InScript
<1>2. ASSUME n.status = "running", NEW i \in n.pc .. Len(MainScript), MainScript[i].op \in Creates
      PROVE  AheadOf("main", MainScript[i])'
  <2> PICK step : step = MainScript[i]
    OBVIOUS
  <2>1. i \in x.pc .. Len(MainScript)
    BY <1>1, <1>2
  <2>2. AheadOf("main", step)
    BY <1>2, <2>1 DEF RInv, MainAhead
  <2>3. \A o : Mine("main", TableOf(step.op), o) => Total(db', late', TableOf(step.op), o, step.val) <= TimeoutsSeen'
    BY <2>2, TablesOf DEF AheadOf, Steady
  <2> QED BY <2>3 DEF AheadOf, Ahead
<1> QED BY <1>2 DEF MainAhead

LEMMA PairSteady ==
  ASSUME CInv, RInv, Steady, NEW x, x = run["pair"], NEW n, n = run'["pair"], NEW script, script = ScriptOf("pair")',
         n.pc \in Nat, n.status = "idle" => x.status = "idle",
         n.status = "running" =>
           \/ x.status = "running" /\ script = ScriptOf("pair") /\ n.pc >= x.pc
           \/ x.status = "idle" /\ n.pc >= 1 /\ \E a, b \in VUs : a # b /\ script = runConcurrentChatPair(a, b)
  PROVE  PairAhead'
<1>1. "messages" \in CreatedTables /\ x.pc \in Nat
  BY RunnerNames DEF CreatedTables, CInv, Runs, InScript
<1>2. ASSUME n.status = "idle", NEW o, NEW k, Mine("pair", "messages", o)
      PROVE  Total(db', late', "messages", o, k) <= TimeoutsSeen'
  BY <1>1, <1>2 DEF RInv, PairAhead, Steady
<1>3. ASSUME n.status = "running", NEW i \in n.pc .. Len(script), script[i].op \in Creates
      PROVE  AheadOf("pair", script[i])'
  <2> PICK step : step = script[i]
    OBVIOUS
  <2>1. \/ x.status = "running" /\ script = ScriptOf("pair") /\ n.pc >= x.pc
        \/ x.status = "idle" /\ n.pc >= 1 /\ \E a, b \in VUs : a # b /\ script = runConcurrentChatPair(a, b)
    BY <1>3
  <2>2. CASE x.status = "running" /\ script = ScriptOf("pair") /\ n.pc >= x.pc
    <3>1. Len(script) \in Nat
      BY <2>2, Scripts, RunnerNames
    <3>2. i \in x.pc .. Len(script)
      BY <1>1, <1>3, <2>2, <3>1
    <3>3. AheadOf("pair", step)
      BY <1>3, <2>2, <3>2 DEF RInv, PairAhead
    <3>4. \A o : Mine("pair", TableOf(step.op), o) => Total(db', late', TableOf(step.op), o, step.val) <= TimeoutsSeen'
      BY <3>3, TablesOf DEF AheadOf, Steady
    <3> QED BY <3>4 DEF AheadOf, Ahead
  <2>3. ASSUME x.status = "idle", n.pc >= 1, NEW a \in VUs, NEW b \in VUs, a # b, script = runConcurrentChatPair(a, b)
        PROVE  AheadOf("pair", script[i])'
    <3>1. (\A s \in ToSet(script) : Chatting(s)) /\ \E M : MadeOnce(script, M)
      BY <2>3, PairTrades
    <3>2. Len(script) \in Nat /\ DOMAIN script = 1 .. Len(script)
      BY <3>1, ScriptLen DEF MadeOnce
    <3>3. i \in DOMAIN script
      BY <1>3, <2>3, <3>2
    <3>4. step.op = "message.send"
      BY <1>3, <3>1, <3>3 DEF ToSet, Chatting, TradeOps, Creates
    <3>5. TableOf(step.op) = "messages"
      BY <3>4 DEF TableOf
    <3>6. \A o : Mine("pair", "messages", o) => Total(db', late', "messages", o, step.val) <= TimeoutsSeen'
      BY <1>1, <2>3 DEF RInv, PairAhead, Steady
    <3> QED BY <3>5, <3>6 DEF AheadOf, Ahead
  <2> QED BY <2>1, <2>2, <2>3
<1> QED BY <1>2, <1>3 DEF PairAhead, Ahead

LEMMA SeederSteady ==
  ASSUME CInv, RInv, Steady, NEW x, x = run["seeder"], NEW n, n = run'["seeder"],
         n.status = "running" => Seeded[n.pc].lacks \cap DOMAIN n.kept = {},
         \A i \in n.pc .. Len(Seeded) : n.status = "running" /\ Armed(n, i) =>
           /\ x.status = "running" /\ i \in x.pc .. Len(Seeded) /\ Armed(x, i)
           /\ OwnerAt(n, Seeded[i]) = OwnerAt(x, Seeded[i])
  PROVE  SeederAhead'
<1>1. scenario' = scenario
  BY DEF Steady
<1>2. ASSUME n.status = "running", NEW i \in n.pc .. Len(Seeded), Armed(n, i)
      PROVE  Total(db', late', TableOf(Seeded[i].op), OwnerAt(n, Seeded[i]), Seeded[i].val) <= TimeoutsSeen'
  <2>1. Ahead(TableOf(Seeded[i].op), OwnerAt(n, Seeded[i]), Seeded[i].val)
    BY <1>2 DEF RInv, SeederAhead
  <2> QED BY <2>1, TablesOf DEF Steady
<1> QED BY <1>1, <1>2, SeederAheadPrimed

\* A program that does nothing.
LEMMA WaitSteady ==
  ASSUME CInv, SInv, RInv, Steady
  PROVE  /\ run'["main"] = run["main"] => MainAhead'
         /\ run'["pair"] = run["pair"] => PairAhead'
         /\ run'["seeder"] = run["seeder"] => SeederAhead'
<1>1. /\ {"main", "pair", "seeder"} \subseteq Runners /\ scenario' = scenario
      /\ \A r \in Runners : run[r].pc \in Nat
  BY RunnerNames DEF CInv, Runs, InScript, Steady
<1>2. ASSUME run'["main"] = run["main"] PROVE MainAhead'
  BY <1>1, <1>2, MainSteady
<1>3. ASSUME run'["pair"] = run["pair"] PROVE PairAhead'
  <2>1. ScriptOf("pair")' = ScriptOf("pair")
    BY <1>1, <1>3, SameScripts
  <2> PICK x, n, script : x = run["pair"] /\ n = run'["pair"] /\ script = ScriptOf("pair")'
    OBVIOUS
  <2>2. x.status \in {"idle", "running"} \/ n.status \notin {"idle", "running"}
    BY <1>3
  <2> QED BY <1>1, <1>3, <2>1, PairSteady
<1>4. ASSUME run'["seeder"] = run["seeder"] PROVE SeederAhead'
  <2> PICK x : x = run["seeder"]
    OBVIOUS
  <2>1. x.status = "running" => StepOf("seeder") = Seeded[x.pc]
    BY <1>1, TradesOf DEF SInv
  <2>2. x.status = "running" => Seeded[x.pc].lacks \cap DOMAIN x.kept = {}
    BY <2>1 DEF RInv, SeederAhead
  <2> QED BY <1>4, <2>2, SeederSteady
<1> QED BY <1>2, <1>3, <1>4

LEMMA LateRInv ==
  ASSUME CInv, SInv, RInv, ServedLate
  PROVE  RInv'
<1>1. run' = run /\ Steady /\ Known'
  BY LateSteady DEF ServedLate
<1>2. MainAhead' /\ PairAhead' /\ SeederAhead'
  BY <1>1, WaitSteady
<1> QED BY <1>1, <1>2 DEF RInv, Steady

LEMMA CheckedRInv ==
  ASSUME CInv, SInv, RInv, NEW r \in Runners, Checked(r)
  PROVE  RInv'
<1>1. /\ run[r].status = "running" /\ StepOf(r).op = "require"
      /\ scenario' = scenario /\ db' = db /\ late' = late /\ net'.timeouts = net.timeouts
  BY DEF Checked
<1>2. PICK y : /\ Outcome(run[r], y) /\ y.kept = run[r].kept /\ y.status # "running"
               /\ run' = [run EXCEPT ![r] = Advance(y, ScriptOf(r))]
  BY CheckedOutcome
<1> PICK n : n = Advance(y, ScriptOf(r))
  OBVIOUS
<1>3. OthersWait(r) /\ run'[r] = n
  BY <1>2, Moved
<1>4. n.kept = run[r].kept /\ n.who = run[r].who /\ n.pc \in Nat /\ n.pc >= run[r].pc /\ n.status # "idle"
  BY <1>1, <1>2, MovesOn, Advanced
<1>5. run'["main"].kept = run["main"].kept /\ run'["seeder"].kept = run["seeder"].kept
      /\ run'["pair"].who = run["pair"].who
  BY <1>3, <1>4, RunnerNames DEF OthersWait
<1>6. Known /\ Steady
  BY <1>1, StillSteady DEF RInv
<1>7. Known'
  BY <1>1, <1>5, <1>6, StillKnown
<1>8. MainAhead'
  <2>1. CASE r = "main"
    BY <1>1, <1>3, <1>4, <1>6, <2>1, MainSteady
  <2>2. CASE r # "main"
    BY <1>3, <1>6, <2>2, WaitSteady, RunnerNames DEF OthersWait
  <2> QED BY <2>1, <2>2
<1>9. PairAhead'
  <2>1. CASE r = "pair"
    <3>1. ScriptOf("pair")' = ScriptOf("pair")
      BY <1>1, <1>5, SameScripts, RunnerNames
    <3> PICK x, script : x = run["pair"] /\ script = ScriptOf("pair")'
      OBVIOUS
    <3> QED BY <1>1, <1>3, <1>4, <1>6, <2>1, <3>1, PairSteady
  <2>2. CASE r # "pair"
    BY <1>3, <1>6, <2>2, WaitSteady, RunnerNames DEF OthersWait
  <2> QED BY <2>1, <2>2
<1>10. SeederAhead'
  <2>1. CASE r = "seeder"
    <3> PICK x : x = run["seeder"]
      OBVIOUS
    <3>1. /\ x.status = "running" /\ x.pc \in DOMAIN Seeded /\ StepOf("seeder") = Seeded[x.pc]
          /\ ScriptOf("seeder") = Seeded /\ Seeded[x.pc].op = "require"
      BY <1>1, <2>1, TradesOf DEF SInv
    <3>2. Seeded[x.pc].lacks \cap DOMAIN x.kept = {}
      BY <3>1 DEF RInv, SeederAhead
    <3>3. n.status = "running" => Seeded[n.pc].lacks \cap DOMAIN n.kept = {}
      BY <1>2, <2>1, <3>1, <3>2, SeederLacks
    <3>4. ASSUME n.status = "running", NEW i \in n.pc .. Len(Seeded), Armed(n, i)
          PROVE  /\ x.status = "running" /\ i \in x.pc .. Len(Seeded) /\ Armed(x, i)
                 /\ OwnerAt(n, Seeded[i]) = OwnerAt(x, Seeded[i])
      <4>1. ~ListedFirst(Seeded, x.pc, i)
        BY <3>1 DEF ListedFirst, ListingOf
      <4>2. /\ Outcome(x, y) /\ n = Advance(y, Seeded) /\ DOMAIN x.kept \subseteq DOMAIN y.kept /\ y.kept = x.kept
            /\ \A name \in DOMAIN y.kept : (name \in DOMAIN x.kept /\ y.kept[name] = x.kept[name]) \/ Learns(Seeded[x.pc], name)
        BY <1>2, <2>1, <3>1
      <4> QED BY <3>1, <3>4, <4>1, <4>2, SeederMoves
    <3> QED BY <1>3, <1>6, <2>1, <3>3, <3>4, SeederSteady
  <2>2. CASE r # "seeder"
    BY <1>3, <1>6, <2>2, WaitSteady, RunnerNames DEF OthersWait
  <2> QED BY <2>1, <2>2
<1> QED BY <1>6, <1>7, <1>8, <1>9, <1>10 DEF RInv, Steady

LEMMA StartVirtualUsersRInv ==
  ASSUME CInv, SInv, RInv, StartVirtualUsers
  PROVE  RInv'
<1>1. /\ run' = [r \in Runners |-> IF r \in VUs THEN Begin(UserScripts[r], Empty, <<>>) ELSE run[r]]
      /\ scenario' = scenario /\ db' = db /\ late' = late /\ net'.timeouts = net.timeouts
  BY DEF StartVirtualUsers
<1>2. run'["main"] = run["main"] /\ run'["pair"] = run["pair"] /\ run'["seeder"] = run["seeder"]
  BY <1>1, RunnerNames
<1>3. Steady
  BY <1>1, StillSteady
<1>4. Known'
  BY <1>1, <1>2, StillKnown DEF RInv
<1>5. MainAhead' /\ PairAhead' /\ SeederAhead'
  BY <1>2, <1>3, WaitSteady
<1> QED BY <1>3, <1>4, <1>5 DEF RInv, Steady

LEMMA StartPairRInv ==
  ASSUME CInv, SInv, RInv, StartPair
  PROVE  RInv'
<1>1. PICK a, b, kept :
        /\ a \in VUs /\ b \in VUs /\ a # b
        /\ run' = [run EXCEPT !["pair"] = Begin(PairScripts[<<a, b>>], kept, <<a, b>>)]
        /\ scenario' = scenario /\ db' = db /\ late' = late /\ net'.timeouts = net.timeouts
  <2>1. PICK i, j, a, b, kept :
          /\ i \in eligible /\ j \in eligible /\ i < j /\ a = VirtualUsers[i] /\ b = VirtualUsers[j]
          /\ kept = [n \in {Session(a), Session(b)} |-> run[n[1]].kept[n]]
          /\ run' = [run EXCEPT !["pair"] = Begin(PairScripts[<<a, b>>], kept, <<a, b>>)]
          /\ scenario' = scenario /\ db' = db /\ late' = late /\ net' = net
    BY Zenon DEF StartPair
  <2>2. i \in DOMAIN VirtualUsers /\ j \in DOMAIN VirtualUsers /\ i \in Int /\ j \in Int /\ i # j
    BY <2>1, RunnersAssumption DEF eligible
  <2>3. a \in VUs /\ b \in VUs /\ a # b
    BY <2>1, <2>2, RunnersAssumption
  <2> QED BY <2>1, <2>3
<1>2. PICK n, script : script = PairScripts[<<a, b>>] /\ n = Begin(script, kept, <<a, b>>)
  OBVIOUS
<1>3. OthersWait("pair") /\ run'["pair"] = n
  BY <1>1, <1>2, RunnerNames, Moved
<1>4. script = runConcurrentChatPair(a, b) /\ Len(script) \in Nat
  <2>1. script = runConcurrentChatPair(a, b)
    BY <1>1, <1>2 DEF PairScripts
  <2> QED BY <2>1, ChatPairCalls, ScriptLen DEF Harmless
<1>5. n.who = <<a, b>> /\ n.status # "idle" /\ n.pc \in Nat /\ (n.status = "running" => n.pc >= 1)
  BY <1>2, <1>4, BeginStep DEF InScript
<1>6. ScriptOf("pair")' = script
  BY <1>2, <1>3, <1>5 DEF ScriptOf
<1>7. run'["main"] = run["main"] /\ run'["seeder"] = run["seeder"] /\ run["pair"].status = "idle"
  BY <1>3, RunnerNames DEF OthersWait, StartPair
<1>8. Steady
  BY <1>1, StillSteady
<1>9. Known'
  BY <1>1, <1>7, StillKnown DEF RInv
<1>10. MainAhead' /\ SeederAhead'
  BY <1>7, <1>8, WaitSteady
<1>11. PairAhead'
  <2> PICK x : x = run["pair"]
    OBVIOUS
  <2>1. \E c, d \in VUs : c # d /\ script = runConcurrentChatPair(c, d)
    BY <1>1, <1>4
  <2> QED BY <1>3, <1>5, <1>6, <1>7, <1>8, <2>1, PairSteady
<1> QED BY <1>8, <1>9, <1>10, <1>11 DEF RInv, Steady

\* A seeder that starts has listed nothing.
LEMMA BeginUnarmed ==
  ASSUME CInv, NEW n, n = Begin(Seeded, Empty, <<>>)
  PROVE  /\ DOMAIN n.kept = {} /\ (n.status = "running" => Seeded[n.pc].lacks \cap DOMAIN n.kept = {})
         /\ n.status = "running" => \A i : ~Armed(n, i)
<1>0. PICK x : x = [Idle EXCEPT !.status = "next", !.kept = Empty, !.who = <<>>]
  OBVIOUS
<1>1. RunnerShape(x) /\ x.pc = 0 /\ x.status = "next" /\ x.kept = Empty /\ DOMAIN x.kept = {}
  BY <1>0 DEF Idle, RunnerShape, Empty
<1>2. n = Advance(x, Seeded) /\ Len(Seeded) \in Nat /\ x.pc \in Nat
  BY <1>0, <1>1, SeedFacts DEF Begin
<1>3. /\ n.kept = x.kept
      /\ n.status = "running" => /\ n.pc \in 1 .. Len(Seeded)
                                 /\ \A i \in 1 .. Len(Seeded) : Applies(Seeded[i], x.kept) => n.pc <= i
  <2>1. n.kept = x.kept /\ n.status \in {"running", "done"}
    BY <1>1, <1>2, AdvanceStep
  <2>2. n.status = "running" => /\ n.pc \in x.pc + 1 .. Len(Seeded)
                                /\ \A i \in x.pc + 1 .. Len(Seeded) : Applies(Seeded[i], x.kept) => n.pc <= i
    BY <1>1, <1>2, AdvanceStep
  <2> QED BY <1>1, <2>1, <2>2
<1>4. ASSUME n.status = "running", NEW i, Armed(n, i)
      PROVE  FALSE
  <2>1. PICK l \in 1 .. n.pc - 1 : ListedFirst(Seeded, l, i)
    BY <1>4 DEF Armed
  <2>2. Seeded[i].needs \subseteq {}
    BY <1>1, <1>3, <1>4 DEF Armed
  <2>3. Applies(Seeded[l], x.kept)
    BY <1>1, <2>1, <2>2 DEF Applies, ListedFirst
  <2> QED BY <1>2, <1>3, <1>4, <2>1, <2>3
<1> QED BY <1>1, <1>3, <1>4

LEMMA SeederRInv ==
  ASSUME CInv, SInv, RInv, Crash \/ Rerun
  PROVE  RInv'
<1>1. scenario' = scenario /\ db' = db /\ late' = late
  BY DEF Crash, Rerun
<1>2. net'.timeouts = net.timeouts
  BY NetShape DEF Crash, Rerun
<1>3. PICK n : /\ run' = [run EXCEPT !["seeder"] = n]
               /\ \/ n.kept = run["seeder"].kept
                  \/ DOMAIN n.kept = {}
               /\ n.status = "running" => Seeded[n.pc].lacks \cap DOMAIN n.kept = {} /\ \A i : ~Armed(n, i)
  <2>1. CASE Crash
    <3>1. PICK n : n = [run["seeder"] EXCEPT !.status = "crashed"] /\ run' = [run EXCEPT !["seeder"] = n]
      BY <2>1 DEF Crash, CInv, Runs
    <3>2. n.status = "crashed" /\ n.kept = run["seeder"].kept
      BY <3>1, RunnerNames DEF CInv, Runs, InScript, RunnerShape
    <3> QED BY <3>1, <3>2
  <2>2. CASE Rerun
    <3>1. PICK n : n = Begin(Seeded, Empty, <<>>) /\ run' = [run EXCEPT !["seeder"] = n]
      BY <2>2 DEF Rerun, Seeded
    <3> QED BY <3>1, BeginUnarmed
  <2> QED BY <2>1, <2>2
<1>4. OthersWait("seeder") /\ run'["seeder"] = n
  BY <1>3, RunnerNames, Moved
<1>5. run'["pair"] = run["pair"] /\ run'["main"] = run["main"]
  BY <1>4, RunnerNames DEF OthersWait
<1>6. Steady
  BY <1>1, <1>2, StillSteady
<1>7. Known'
  BY <1>1, <1>3, <1>4, <1>5, StillKnown DEF RInv
<1>8. MainAhead' /\ PairAhead'
  BY <1>5, <1>6, WaitSteady
<1>9. SeederAhead'
  BY <1>3, <1>4, <1>6, SeederSteady
<1> QED BY <1>6, <1>7, <1>8, <1>9 DEF RInv, Steady

LEMMA InitRInv == Init => RInv
<1> SUFFICES ASSUME Init PROVE RInv
  OBVIOUS
<1>0. CInv
  BY InitCInv
<1>1. db = NewDb /\ late = {} /\ TimeoutsSeen = 0
  <2>1. scenario.timeouts \in Nat
    BY <1>0, ScenarioAssumption DEF CInv
  <2> QED BY <2>1 DEF Init, TimeoutsSeen
<1>2. ASSUME NEW t \in CreatedTables, NEW o, NEW k
      PROVE  Total(db, late, t, o, k) = 0
  <2>1. RowsAs(db, t, o, k) = {} /\ Sending(late, t, o, k) = {}
    BY <1>1 DEF RowsAs, Sending, NewDb, Empty, CreatedTables
  <2> QED BY <2>1, FS_EmptySet DEF Total
<1>3. \A t \in CreatedTables : \A o, k : Ahead(t, o, k)
  BY <1>1, <1>2 DEF Ahead
<1>4. MainAhead /\ PairAhead
  BY <1>3, TablesOf DEF MainAhead, PairAhead, AheadOf, CreatedTables
<1>5. ASSUME NEW r \in {"main", "seeder"}
      PROVE  DOMAIN run[r].kept = {}
  <2>1. \/ run[r] = Idle
        \/ run[r] = Begin(ScriptOf(r), Empty, <<>>)
    BY <1>5, RunnerNames DEF Init, ScriptOf
  <2>2. Len(ScriptOf(r)) \in Nat
    BY <1>0, Scripts, RunnerNames
  <2>3. CASE run[r] = Idle
    BY <2>3 DEF Idle, Empty
  <2>4. CASE run[r] = Begin(ScriptOf(r), Empty, <<>>)
    BY <2>2, <2>4, BeginStep DEF Empty
  <2> QED BY <2>1, <2>3, <2>4
<1>6. Known
  <2>1. DOMAIN db.products = {}
    BY <1>1 DEF NewDb, Empty
  <2> QED BY <1>1, <1>5, <2>1 DEF Known, NoDeleted, MainKnows, SeederKnows, Holds
<1>7. SeederAhead
  BY <1>3, <1>5, TablesOf DEF SeederAhead
<1> QED BY <1>1, <1>2, <1>4, <1>6, <1>7 DEF RInv

LEMMA NextRInv == CInv /\ SInv /\ RInv /\ [Next]_vars => RInv'
<1> SUFFICES ASSUME CInv, SInv, RInv, [Next]_vars PROVE RInv'
  OBVIOUS
<1>1. ASSUME NEW r \in Runners, RunnerStep(r) PROVE RInv'
  BY <1>1, CallRInv, CheckedRInv DEF RunnerStep
<1>2. CASE ServedLate
  BY <1>2, LateRInv
<1>3. CASE StartVirtualUsers
  BY <1>3, StartVirtualUsersRInv
<1>4. CASE StartPair
  BY <1>4, StartPairRInv
<1>5. CASE Crash \/ Rerun
  BY <1>5, SeederRInv
<1>6. CASE UNCHANGED vars
  <2>1. scenario' = scenario /\ db' = db /\ run' = run /\ late' = late /\ net'.timeouts = net.timeouts
    BY <1>6 DEF vars
  <2>2. Steady /\ Known'
    BY <2>1, StillSteady, StillKnown DEF RInv
  <2>3. MainAhead' /\ PairAhead' /\ SeederAhead'
    BY <2>1, <2>2, WaitSteady
  <2> QED BY <2>2, <2>3 DEF RInv, Steady
<1> QED BY <1>1, <1>2, <1>3, <1>4, <1>5, <1>6 DEF Next

\* What the totals say of the rows of a table that carry the same key.
LEMMA RowsBounded ==
  ASSUME CInv, SInv, RInv, NEW t \in CreatedTables, NEW table, table = db[t], NEW o, NEW key
  PROVE  Copies(table, o, key) <= 1 + TimeoutsSeen
<1> PICK k : k = Name(t, o, key)
  OBVIOUS
<1> PICK C, R, S, T : /\ C = {id \in DOMAIN table : id[1] = o /\ table[id].key = key} /\ R = RowsAs(db, t, o, k)
                      /\ S = Cardinality(Sending(late, t, o, k)) /\ T = TimeoutsSeen
  OBVIOUS
<1>1. C \subseteq R
  BY DEF RowsAs
<1>2. IsFiniteSet(R) /\ Cardinality(R) \in Nat /\ S \in Nat /\ T \in Nat
  BY RowsFinite, SendingFinite, TimeoutsCounted DEF SInv
<1>3. Cardinality(C) \in Nat /\ Cardinality(C) <= Cardinality(R)
  BY <1>1, <1>2, FS_Subset, FS_CardinalityType
<1>4. Cardinality(R) + S <= 1 + T
  BY DEF RInv, Total
<1> QED BY <1>2, <1>3, <1>4 DEF Copies

\* dev-seeder and simulate-flows, with any tables, any number of virtual users,
\* faults, crashes and re-runs: a product of a name, a report of a reason and
\* a message are there once, but for the calls that timed out and were made
\* again.  RInv counts the rows together with the requests still under way.
THEOREM RowsOnce == Spec => []OneRowPerKey
<1>1. CInv /\ SInv /\ RInv => OneRowPerKey
  <2> SUFFICES ASSUME CInv, SInv, RInv PROVE OneRowPerKey
    OBVIOUS
  <2>1. {"products", "reports", "messages"} \subseteq CreatedTables
    BY DEF CreatedTables
  <2>2. \A o, key : /\ Copies(db.products, o, key) <= 1 + TimeoutsSeen
                    /\ Copies(db.reports, o, key) <= 1 + TimeoutsSeen
                    /\ Copies(db.messages, o, key) <= 1 + TimeoutsSeen
    BY <2>1, RowsBounded
  <2> QED BY <2>2 DEF OneRowPerKey
<1>2. Init => RInv
  BY InitRInv
<1>3. CInv /\ SInv /\ RInv /\ [Next]_vars => RInv'
  BY NextRInv
<1> QED BY <1>1, <1>2, <1>3, ClientsInvariant, ClientsKnowTheChat, PTL DEF Spec

=============================================================================
