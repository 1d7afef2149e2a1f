---------------------------- MODULE Credentials ----------------------------
(***************************************************************************)
(* One-time codes, pending registrations and passwords of one phone number *)
(* (rows of different phones never meet), with the console OTP provider:   *)
(* AuthService, ConsoleOtpSender, the attempts counter of AuthStateStore,  *)
(* UsersService.changePassword and the hourly OtpCleanupTask. Tokens are   *)
(* module Sessions; Redis copies of the counter are never read back.       *)
(***************************************************************************)
EXTENDS Naturals, FiniteSets

CONSTANTS
  MaxOtps,      \* bound: rows ever inserted into auth_otps
  MaxPending,   \* bound: rows ever inserted into pending_registrations
  MaxAttempts,  \* OTP_MAX_ATTEMPTS
  Passwords,    \* values of password_hash
  NoPassword,
  Purposes,     \* the purposes in play, among 'registration' and 'password_reset'
  Slots,        \* requests in flight at the same time
  Failing       \* the steps whose query may throw; "purge" is the cleanup's second

ASSUME OtpsAssumption == MaxOtps \in Nat /\ MaxPending \in Nat
ASSUME AttemptsAssumption == MaxAttempts \in Nat \ {0}
ASSUME PasswordAssumption == NoPassword \notin Passwords
ASSUME PurposesAssumption == Purposes \subseteq {"registration", "password_reset"} /\ Purposes # {}

VARIABLES
  account,   \* the users row with this phone, if any
  pending,   \* the pending_registrations row with this phone, if any
  otp,       \* auth_otps, by id; ids and created_at grow together
  attempts,  \* auth_otp_attempts by purpose, 0 for no row or an expired one
  slot,      \* requests in flight
  cron       \* whether OtpCleanupTask is between its two DELETEs

vars == <<account, pending, otp, attempts, slot, cron>>

Ids == 1..MaxOtps
\* Ages of a row with an expires_at: not reached, passed, passed a day ago.
Age == {"valid", "expired", "old"}
PC == {"idle", "regUpsert", "regOtp", "regCleanup", "sendOtp", "wrong", "lockClear",
       "clear", "verifyTx", "resetTx", "resetWrite", "changeWrite"}

Account == [exists: BOOLEAN, active: BOOLEAN, deleted: BOOLEAN, pwd: Passwords \cup {NoPassword}]
Pending == [id: 0..MaxPending, live: BOOLEAN, age: Age, pwd: Passwords \cup {NoPassword}]
Otp == [state: {"none", "unused", "used", "purged"}, purpose: Purposes, age: Age]
Request == [pc: PC, purpose: Purposes, pwd: Passwords \cup {NoPassword},
            otp: 0..MaxOtps, pid: 0..MaxPending]

AnyPurpose == CHOOSE p \in Purposes : TRUE
Idle == [pc |-> "idle", purpose |-> AnyPurpose, pwd |-> NoPassword, otp |-> 0, pid |-> 0]

-----------------------------------------------------------------------------
Rows(purpose) == {i \in Ids : otp[i].state \in {"unused", "used"} /\ otp[i].purpose = purpose}

\* Mutant: WHERE ... AND used_at IS NULL
MutIsLatest(i, purpose) ==
  otp[i].state = "unused" /\ i \in Rows(purpose) /\ \A k \in Rows(purpose) : otp[k].state = "unused" => k <= i

\* ORDER BY created_at DESC LIMIT 1
IsLatest(i, purpose) == i \in Rows(purpose) /\ \A k \in Rows(purpose) : k <= i

\* What checkVerification requires of the row before it compares codes.
Acceptable(i, purpose) ==
  IsLatest(i, purpose) /\ otp[i].state = "unused" /\ otp[i].age = "valid"

NextId == Cardinality({i \in Ids : otp[i].state # "none"}) + 1

Finish(s) == slot' = [slot EXCEPT ![s] = Idle]
Goto(s, pc) == slot' = [slot EXCEPT ![s].pc = pc]

Start(s, pc, purpose, pwd) ==
  /\ slot[s].pc = "idle"
  /\ slot' = [slot EXCEPT ![s] = [Idle EXCEPT !.pc = pc, !.purpose = purpose, !.pwd = pwd]]

\* startVerification: INSERT INTO auth_otps. The code is known to the caller
\* by the id of its row.
startVerification(purpose) ==
  /\ NextId \in Ids
  /\ otp' = [otp EXCEPT ![NextId] = [state |-> "unused", purpose |-> purpose, age |-> "valid"]]

\* Bounds: a request that will insert a row starts only while one is left.
Starting(pcs) == Cardinality({s \in Slots : slot[s].pc \in pcs})
Room == NextId + Starting({"regUpsert", "regOtp", "sendOtp"}) <= MaxOtps
PendingRoom == pending.id + Starting({"regUpsert"}) < MaxPending

-----------------------------------------------------------------------------
(* Registration *)

\* requestRegistrationOtp: no users row, deleted ones included; bcrypt follows.
requestRegistrationOtp(s, pwd) ==
  /\ "registration" \in Purposes /\ Room /\ PendingRoom
  /\ ~account.exists
  /\ Start(s, "regUpsert", "registration", pwd)
  /\ UNCHANGED <<account, pending, otp, attempts, cron>>

\* INSERT ... ON CONFLICT (phone) DO UPDATE ... RETURNING id: an existing row
\* keeps its id and takes over the new name and password. PendingRoom has seen
\* to it that an id is left.
UpsertPending(s) ==
  LET id == IF pending.live THEN pending.id ELSE pending.id + 1 IN
  /\ slot[s].pc = "regUpsert" /\ id <= MaxPending
  /\ pending' = [id |-> id, live |-> TRUE, age |-> "valid", pwd |-> slot[s].pwd]
  /\ slot' = [slot EXCEPT ![s].pc = "regOtp", ![s].pid = id]
  /\ UNCHANGED <<account, otp, attempts, cron>>

\* The provider stores the code, or throws.
RegistrationOtp(s) ==
  /\ slot[s].pc = "regOtp"
  /\ \/ startVerification("registration") /\ Finish(s)
     \/ "regOtp" \in Failing /\ UNCHANGED otp /\ Goto(s, "regCleanup")
  /\ UNCHANGED <<account, pending, attempts, cron>>

\* catch: DELETE by id; a failure of the DELETE is only logged.
RegistrationCleanup(s) ==
  /\ slot[s].pc = "regCleanup"
  /\ \/ pending' = IF pending.live /\ pending.id = slot[s].pid
                     THEN [pending EXCEPT !.live = FALSE, !.age = "valid", !.pwd = NoPassword]
                     ELSE pending
     \/ "regCleanup" \in Failing /\ UNCHANGED pending
  /\ Finish(s)
  /\ UNCHANGED <<account, otp, attempts, cron>>

\* resendRegistrationOtp, and requestPasswordResetOtp: a SELECT, then a code.
resendRegistrationOtp(s) ==
  /\ "registration" \in Purposes /\ Room
  /\ pending.live /\ pending.age = "valid"
  /\ Start(s, "sendOtp", "registration", NoPassword)
  /\ UNCHANGED <<account, pending, otp, attempts, cron>>

requestPasswordResetOtp(s) ==
  /\ "password_reset" \in Purposes /\ Room
  /\ account.exists /\ ~account.deleted
  /\ Start(s, "sendOtp", "password_reset", NoPassword)
  /\ UNCHANGED <<account, pending, otp, attempts, cron>>

SendOtp(s) ==
  /\ slot[s].pc = "sendOtp"
  /\ startVerification(slot[s].purpose)
  /\ Finish(s)
  /\ UNCHANGED <<account, pending, attempts, cron>>

-----------------------------------------------------------------------------
(* Verification *)

\* checkVerification: the row is read, then code k is compared with it. The
\* early rejections change nothing. pwd is the new password of a reset.
checkVerification(s, purpose, k, pwd) ==
  /\ slot[s].pc = "idle"
  /\ \E i \in Ids :
       /\ Acceptable(i, purpose)
       /\ k = i \/ attempts[purpose] <= MaxAttempts  \* bound: the counter of a request that dies
       /\ slot' = [slot EXCEPT ![s] =
            [pc |-> IF k = i THEN "clear" ELSE "wrong", purpose |-> purpose,
             pwd |-> IF k = i THEN pwd ELSE NoPassword, otp |-> i, pid |-> 0]]
  /\ UNCHANGED <<account, pending, otp, attempts, cron>>

\* Mutant: one attempt too many before the counter is cleared.
MutReachesLimit(n) == n > MaxAttempts

ReachesLimit(n) == n >= MaxAttempts

\* incrementOtpAttempts: one upsert, whose RETURNING decides; the caller's
\* message tells the user that the code is invalidated.
incrementOtpAttempts(s) ==
  LET n == attempts[slot[s].purpose] + 1 IN
  /\ slot[s].pc = "wrong"
  /\ attempts' = [attempts EXCEPT ![slot[s].purpose] = n]
  /\ IF ReachesLimit(n) THEN Goto(s, "lockClear") ELSE Finish(s)
  /\ UNCHANGED <<account, pending, otp, cron>>

\* Mutant: the clear takes back one attempt.
MutCleared(n) == n - 1

\* clearOtpAttempts: DELETE FROM auth_otp_attempts
Cleared(n) == 0

\* clearOtpAttempts after the limit: the counter restarts, the code stays.
LockClear(s) ==
  /\ slot[s].pc = "lockClear"
  /\ attempts' = [attempts EXCEPT ![slot[s].purpose] = Cleared(@)]
  /\ Finish(s)
  /\ UNCHANGED <<account, pending, otp, cron>>

\* clearOtpAttempts after the right code.
ClearAttempts(s) ==
  /\ slot[s].pc = "clear"
  /\ attempts' = [attempts EXCEPT ![slot[s].purpose] = Cleared(@)]
  /\ Goto(s, IF slot[s].purpose = "registration" THEN "verifyTx" ELSE "resetTx")
  /\ UNCHANGED <<account, pending, otp, cron>>

\* UPDATE auth_otps SET used_at, which does not ask whether it was NULL and
\* finds no row once the cleanup took it.
MarkUsed(s) ==
  otp' = [otp EXCEPT ![slot[s].otp] = IF @.state = "purged" THEN @
                                        ELSE [@ EXCEPT !.state = "used", !.age = "valid"]]

\* Mutant: an upsert of the account instead of an INSERT.
MutInsertable == pending.live /\ pending.age = "valid"

\* The pending row, locked FOR UPDATE, and users.phone UNIQUE.
Insertable == pending.live /\ pending.age = "valid" /\ ~account.exists

\* verifyRegistrationOtp: the transaction, or its rollback.
verifyRegistrationOtp(s) ==
  /\ slot[s].pc = "verifyTx"
  /\ IF Insertable
       THEN /\ account' = [exists |-> TRUE, active |-> TRUE, deleted |-> FALSE, pwd |-> pending.pwd]
            /\ pending' = [pending EXCEPT !.live = FALSE, !.age = "valid", !.pwd = NoPassword]
            /\ MarkUsed(s)
       ELSE UNCHANGED <<account, pending, otp>>
  /\ Finish(s)
  /\ UNCHANGED <<attempts, cron>>

\* resetPassword, first half of the transaction: a SELECT without lock.
ResetRead(s) ==
  /\ slot[s].pc = "resetTx"
  /\ IF account.exists /\ ~account.deleted /\ account.active
       THEN Goto(s, "resetWrite") ELSE Finish(s)
  /\ UNCHANGED <<account, pending, otp, attempts, cron>>

\* Its second half, after bcrypt: the writes, by id, commit together.
resetPassword(s) ==
  /\ slot[s].pc = "resetWrite"
  /\ account' = [account EXCEPT !.pwd = slot[s].pwd]
  /\ MarkUsed(s)
  /\ Finish(s)
  /\ UNCHANGED <<pending, attempts, cron>>

\* changePassword: the SELECT and the comparison with the old password.
changePassword(s, old, new) ==
  /\ account.exists /\ ~account.deleted /\ account.pwd = old
  /\ Start(s, "changeWrite", AnyPurpose, new)
  /\ UNCHANGED <<account, pending, otp, attempts, cron>>

ChangeWrite(s) ==
  /\ slot[s].pc = "changeWrite"
  /\ account' = IF account.deleted THEN account ELSE [account EXCEPT !.pwd = slot[s].pwd]
  /\ Finish(s)
  /\ UNCHANGED <<pending, otp, attempts, cron>>

\* deleteMe or deleteUser, from module Sessions.
DeleteAccount ==
  /\ account.exists /\ ~account.deleted
  /\ account' = [account EXCEPT !.deleted = TRUE]
  /\ UNCHANGED <<pending, otp, attempts, slot, cron>>

\* updateUserStatus, from module Sessions.
ToggleStatus ==
  /\ account.exists /\ ~account.deleted
  /\ account' = [account EXCEPT !.active = ~@]
  /\ UNCHANGED <<pending, otp, attempts, slot, cron>>

\* A query throws between two steps of a request. startVerification's failure
\* in requestRegistrationOtp is caught: RegistrationOtp.
Abort(s) ==
  /\ slot[s].pc \in Failing \ {"idle", "regOtp", "regCleanup"}
  /\ Finish(s)
  /\ UNCHANGED <<account, pending, otp, attempts, cron>>

-----------------------------------------------------------------------------
(* Time and the cleanup task *)

Older(age) == IF age = "valid" THEN "expired" ELSE "old"

\* Every code lives otpTtlMinutes, so older codes are at least as far. The age
\* of a used code is not read any more.
AgeOtp(i) ==
  /\ otp[i].state = "unused" /\ otp[i].age # "old"
  /\ \A k \in 1..(i - 1) : otp[k].state = "unused" /\ otp[k].age # "old"
                             => otp[i].age = "valid" /\ otp[k].age = "expired"
  /\ otp' = [otp EXCEPT ![i].age = Older(@)]
  /\ UNCHANGED <<account, pending, attempts, slot, cron>>

AgePending ==
  /\ pending.live /\ pending.age # "old"
  /\ pending' = [pending EXCEPT !.age = Older(@)]
  /\ UNCHANGED <<account, otp, attempts, slot, cron>>

\* An expired counter row counts as none.
AgeAttempts(p) ==
  /\ attempts[p] > 0
  /\ attempts' = [attempts EXCEPT ![p] = 0]
  /\ UNCHANGED <<account, pending, otp, slot, cron>>

\* Mutant: the test on expires_at is lost.
MutPurgeable(o) == o.state \in {"unused", "used"}

Purgeable(o) == o.state = "used" \/ (o.state = "unused" /\ o.age = "old")

\* Mutant: the pending row is looked for before it is a day old, never after.
MutAbandoned == pending.live /\ pending.age = "expired"

Abandoned == pending.live /\ pending.age = "old"

Purged == [state |-> "purged", purpose |-> AnyPurpose, age |-> "valid"]

\* purgeExpiredOtps, first DELETE.
purgeExpiredOtps ==
  /\ cron = "idle" /\ cron' = "pending"
  /\ otp' = [i \in Ids |-> IF Purgeable(otp[i]) THEN Purged ELSE otp[i]]
  /\ UNCHANGED <<account, pending, attempts, slot>>

\* Second DELETE; when it fails, the first stands.
PurgePending ==
  /\ cron = "pending" /\ cron' = "idle"
  /\ \/ pending' = IF Abandoned
                     THEN [pending EXCEPT !.live = FALSE, !.age = "valid", !.pwd = NoPassword]
                     ELSE pending
     \/ "purge" \in Failing /\ UNCHANGED pending
  /\ UNCHANGED <<account, otp, attempts, slot>>

-----------------------------------------------------------------------------
\* A fresh phone; for password resets alone, a phone with an account.
Init ==
  /\ \E pwd \in Passwords :
       account = IF "registration" \in Purposes
                   THEN [exists |-> FALSE, active |-> TRUE, deleted |-> FALSE, pwd |-> NoPassword]
                   ELSE [exists |-> TRUE, active |-> TRUE, deleted |-> FALSE, pwd |-> pwd]
  /\ pending = [id |-> 0, live |-> FALSE, age |-> "valid", pwd |-> NoPassword]
  /\ otp = [i \in Ids |-> [state |-> "none", purpose |-> AnyPurpose, age |-> "valid"]]
  /\ attempts = [p \in Purposes |-> 0]
  /\ slot = [s \in Slots |-> Idle]
  /\ cron = "idle"

Progress(s) ==
  \/ UpsertPending(s) \/ RegistrationOtp(s) \/ RegistrationCleanup(s) \/ SendOtp(s)
  \/ incrementOtpAttempts(s) \/ LockClear(s) \/ ClearAttempts(s)
  \/ verifyRegistrationOtp(s) \/ ResetRead(s) \/ resetPassword(s) \/ ChangeWrite(s)

\* Codes are presented by their row's id; 0 is a code that was never sent.
Arrive(s) ==
  \/ \E pwd \in Passwords : requestRegistrationOtp(s, pwd)
  \/ resendRegistrationOtp(s)
  \/ requestPasswordResetOtp(s)
  \/ \E k \in 0..MaxOtps :
       \/ checkVerification(s, "registration", k, NoPassword)
       \/ \E pwd \in Passwords : checkVerification(s, "password_reset", k, pwd)
  \/ \E old, new \in Passwords : changePassword(s, old, new)

Next ==
  \/ \E s \in Slots : Progress(s) \/ Arrive(s) \/ Abort(s)
  \/ DeleteAccount \/ ToggleStatus
  \/ \E i \in Ids : AgeOtp(i)
  \/ AgePending
  \/ \E p \in Purposes : AgeAttempts(p)
  \/ purgeExpiredOtps \/ PurgePending

Spec == Init /\ [][Next]_vars

\* The cron fires every hour and does not fail for ever; a code's time passes.
\* No fairness of the requests or of the pending row's time is needed.
Fairness ==
  /\ WF_vars(purgeExpiredOtps) /\ WF_vars(PurgePending)
  /\ SF_vars(PurgePending /\ ~(pending'.live /\ pending'.age = "old"))
  /\ \A i \in Ids : WF_vars(AgeOtp(i))

FairSpec == Spec /\ Fairness

-----------------------------------------------------------------------------
(* Properties *)

\* Every table and every request has its shape.
TypeOK ==
  /\ account \in Account
  /\ pending \in Pending
  /\ otp \in [Ids -> Otp]
  /\ attempts \in [Purposes -> Nat]
  /\ slot \in [Slots -> Request]
  /\ cron \in {"idle", "pending"}

\* A registration that was under way when the account appeared, by another
\* request, never changes the account's password.
RegistrationKeepsAccount ==
  [][account.exists /\ account'.pwd # account.pwd =>
       \E s \in Slots : slot[s].pc \in {"resetWrite", "changeWrite"} /\ slot'[s].pc = "idle"]_vars

\* A request has just been told 'Too many attempts - OTP invalidated'.
LockedAnswer(s) == slot[s].pc = "lockClear" /\ slot'[s].pc = "idle"

\* A code that checkVerification would accept stops being accepted only by its
\* use, its expiry or a newer code: not by guesses below the limit, and not by
\* the cleanup. What the limit does to it is LimitEndsCode.
ValidCodeStaysValid ==
  [][\A p \in Purposes, i \in Ids :
       Acceptable(i, p) /\ ~Acceptable(i, p)' =>
         \/ otp'[i].state = "used"
         \/ otp'[i].age # "valid"
         \/ \E k \in Ids : k > i /\ (k \in Rows(p))'
         \/ \E s \in Slots : LockedAnswer(s) /\ slot[s].otp = i]_vars

\* console-otp.sender: 'Too many attempts - OTP invalidated'. The code whose
\* guesses have reached the limit is not accepted after that answer.
LimitEndsCode ==
  [][\A s \in Slots, i \in Ids, p \in Purposes :
       LockedAnswer(s) /\ slot[s].otp = i /\ slot[s].purpose = p => ~Acceptable(i, p)']_vars

\* A superseded code is accepted again only when every newer code was used and
\* purged: the hourly cleanup may bring it back, nothing else does.
RevivedOnlyAfterUse ==
  [][\A p \in Purposes : \A i \in Rows(p) :
       ~Acceptable(i, p) /\ Acceptable(i, p)' =>
         \A k \in Rows(p) : k > i => otp[k].state = "used"]_vars

\* The counter is at its limit only while the request that brought it there is
\* about to clear it, however many wrong codes are counted at the same time
\* (unless that DELETE fails).
LimitIsBeingCleared ==
  \A p \in Purposes :
    attempts[p] >= MaxAttempts => \E s \in Slots : slot[s].pc = "lockClear" /\ slot[s].purpose = p

\* Every code row leaves the table in the end, used or not.
CodesArePurged ==
  \A i \in Ids : otp[i].state \in {"unused", "used"} ~> otp[i].state = "purged"

\* A registration abandoned for a day is removed or taken up again.
AbandonedPendingGoes ==
  (pending.live /\ pending.age = "old") ~> ~(pending.live /\ pending.age = "old")

\* purgeExpiredOtps is all that empties the two tables; an hour in which its
\* second DELETE throws only delays the rest.
CleanupCompletes == CodesArePurged /\ AbandonedPendingGoes

\* 'One-time password': no password is set on the strength of a code that has
\* already set one.
OneTimePassword ==
  [][\A s \in Slots :
       slot[s].pc = "resetWrite" /\ slot'[s].pc = "idle" /\ account' # account
         => otp[slot[s].otp].state # "used"]_vars
=============================================================================
