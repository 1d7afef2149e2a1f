------------------------- MODULE CredentialsProofs -------------------------
(***************************************************************************)
(* Proofs about Credentials, for any number of codes, passwords and        *)
(* requests. What happens to auth_otps is one of five changes (OtpChange); *)
(* each keeps the ids in use gapless and older codes at least as old as    *)
(* newer ones, which is why the latest row is the one to ask.              *)
(***************************************************************************)
EXTENDS Credentials, FiniteSetTheorems, TLAPS

\* The ids in use are the first ones.
Gapless == \E n \in 0..MaxOtps : {i \in Ids : otp[i].state # "none"} = 1..n

\* A code is never further from its expiry than a later one.
OlderFirst ==
  \A i, k \in Ids : k < i /\ otp[i].state = "unused" /\ otp[k].state = "unused" =>
    /\ otp[k].age = "valid" => otp[i].age = "valid"
    /\ otp[i].age = "old" => otp[k].age = "old"

\* A request that has compared its code knows an existing row, and only a
\* phone that may register is being registered.
RequestsOK ==
  \A s \in Slots :
    /\ slot[s].pc \in {"clear", "verifyTx", "resetTx", "resetWrite"}
         => slot[s].otp \in Ids /\ otp[slot[s].otp].state # "none"
    /\ slot[s].pc \in {"regUpsert", "regOtp"} => "registration" \in Purposes

Inv == TypeOK /\ Gapless /\ OlderFirst /\ RequestsOK

\* UPDATE auth_otps SET used_at, for one row.
Used(o) == IF o.state = "purged" THEN o ELSE [o EXCEPT !.state = "used", !.age = "valid"]

Inserted == \E p \in Purposes : startVerification(p)
Marked == \E i \in Ids : otp[i].state # "none" /\ otp' = [otp EXCEPT ![i] = Used(otp[i])]
Aged == \E i \in Ids : AgeOtp(i)
Swept == otp' = [i \in Ids |-> IF Purgeable(otp[i]) THEN Purged ELSE otp[i]]

OtpChange == UNCHANGED otp \/ Inserted \/ Marked \/ Aged \/ Swept

-----------------------------------------------------------------------------
(* The codes *)

LEMMA AnyPurposeType == AnyPurpose \in Purposes
BY PurposesAssumption DEF AnyPurpose

LEMMA IdleType == Idle \in Request /\ Idle.pc = "idle"
BY AnyPurposeType, OtpsAssumption DEF Idle, Request, PC

\* The id of the next code is the first free one.
LEMMA NextIsFresh ==
  ASSUME TypeOK, Gapless, NextId \in Ids
  PROVE  otp[NextId].state = "none" /\ {i \in Ids : otp[i].state # "none"} = 1..(NextId - 1)
<1>1. PICK n \in 0..MaxOtps : {i \in Ids : otp[i].state # "none"} = 1..n
  BY DEF Gapless
<1>2. Cardinality(1..n) = n
  <2>1. 1 \in Int /\ n \in Int
    BY OtpsAssumption
  <2>2. Cardinality(1..n) = IF 1 > n THEN 0 ELSE n - 1 + 1
    BY <2>1, FS_Interval
  <2> QED BY <2>1, <2>2, OtpsAssumption
<1>3. NextId = n + 1
  BY <1>1, <1>2 DEF NextId
<1> HIDE DEF NextId
<1>4. NextId \notin 1..n /\ NextId - 1 = n
  BY <1>3, OtpsAssumption
<1> QED BY <1>1, <1>4

\* What a new row is, and that it is above all others.
LEMMA InsertedRow ==
  ASSUME TypeOK, Gapless, Inserted
  PROVE  \E i \in Ids, p \in Purposes :
           /\ otp'[i] = [state |-> "unused", purpose |-> p, age |-> "valid"]
           /\ otp[i].state = "none"
           /\ \A k \in Ids : k # i => otp'[k] = otp[k]
           /\ {k \in Ids : otp[k].state # "none"} = 1..(i - 1)
           /\ otp' \in [Ids -> Otp]
<1>1. PICK p \in Purposes : startVerification(p)
  BY DEF Inserted
<1>2. NextId \in Ids
  BY <1>1 DEF startVerification
<1>3. otp' = [otp EXCEPT ![NextId] = [state |-> "unused", purpose |-> p, age |-> "valid"]]
  BY <1>1 DEF startVerification
<1>4. otp[NextId].state = "none" /\ {i \in Ids : otp[i].state # "none"} = 1..(NextId - 1)
  BY <1>2, NextIsFresh
<1> PICK i \in Ids : i = NextId
  BY <1>2
<1> HIDE DEF NextId
<1>5. [state |-> "unused", purpose |-> p, age |-> "valid"] \in Otp
  BY DEF Otp, Age
<1>6. otp \in [Ids -> Otp]
  BY DEF TypeOK
<1>7. otp' \in [Ids -> Otp] /\ otp'[i] = [state |-> "unused", purpose |-> p, age |-> "valid"]
      /\ \A k \in Ids : k # i => otp'[k] = otp[k]
  BY <1>3, <1>5, <1>6
<1> QED BY <1>4, <1>7

\* How a single row may change.
LEMMA MarkedRow ==
  ASSUME TypeOK, Marked
  PROVE  \E i \in Ids :
           /\ otp[i].state # "none" /\ otp'[i].state \in {"used", "purged"}
           /\ otp'[i].purpose = otp[i].purpose
           /\ otp[i].state # "purged" => otp'[i].state = "used"
           /\ \A k \in Ids : k # i => otp'[k] = otp[k]
           /\ otp' \in [Ids -> Otp]
<1>1. PICK i \in Ids : otp[i].state # "none" /\ otp' = [otp EXCEPT ![i] = Used(otp[i])]
  BY DEF Marked
<1>2. otp \in [Ids -> Otp] /\ otp[i] \in Otp
  BY DEF TypeOK
<1>3. Used(otp[i]) \in Otp /\ Used(otp[i]).state \in {"used", "purged"} /\ Used(otp[i]).purpose = otp[i].purpose
      /\ (otp[i].state # "purged" => Used(otp[i]).state = "used")
  BY <1>2 DEF Used, Otp, Age
<1> QED BY <1>1, <1>2, <1>3

LEMMA AgedRow ==
  ASSUME TypeOK, NEW i \in Ids, AgeOtp(i)
  PROVE  /\ otp'[i].state = "unused" /\ otp[i].state = "unused" /\ otp[i].age # "old"
         /\ otp'[i].purpose = otp[i].purpose
         /\ otp'[i].age = IF otp[i].age = "valid" THEN "expired" ELSE "old"
         /\ \A k \in Ids : k # i => otp'[k] = otp[k]
         /\ otp' \in [Ids -> Otp]
<1>1. otp \in [Ids -> Otp] /\ otp[i] \in Otp
  BY DEF TypeOK
<1> QED BY <1>1 DEF AgeOtp, Older, Otp, Age

LEMMA SweptRow ==
  ASSUME TypeOK, Swept, NEW i \in Ids
  PROVE  /\ Purgeable(otp[i]) => otp'[i].state = "purged"
         /\ ~Purgeable(otp[i]) => otp'[i] = otp[i]
         /\ otp'[i] \in Otp
<1>1. Purged \in Otp /\ Purged.state = "purged"
  BY AnyPurposeType DEF Purged, Otp, Age
<1> QED BY <1>1 DEF Swept, TypeOK

LEMMA SweptType == TypeOK /\ Swept => otp' \in [Ids -> Otp]
<1> SUFFICES ASSUME TypeOK, Swept PROVE otp' \in [Ids -> Otp]
  OBVIOUS
<1>1. \A i \in Ids : otp'[i] \in Otp
  BY SweptRow
<1> QED BY <1>1 DEF Swept

\* Every change of auth_otps keeps the three facts about it; rows never vanish
\* without a trace.
CodesOK == /\ otp' \in [Ids -> Otp] /\ Gapless' /\ OlderFirst'
           /\ \A i \in Ids : otp[i].state # "none" => otp'[i].state # "none"

LEMMA CodesKept == ASSUME TypeOK, Gapless, OlderFirst, OtpChange PROVE CodesOK
<1>1. CASE UNCHANGED otp
  BY <1>1 DEF CodesOK, TypeOK, Gapless, OlderFirst
<1>2. CASE Inserted
  <2>1. PICK i \in Ids, p \in Purposes :
           /\ otp'[i] = [state |-> "unused", purpose |-> p, age |-> "valid"]
           /\ otp[i].state = "none"
           /\ \A k \in Ids : k # i => otp'[k] = otp[k]
           /\ {k \in Ids : otp[k].state # "none"} = 1..(i - 1)
           /\ otp' \in [Ids -> Otp]
    BY <1>2, InsertedRow
  <2>2. otp'[i].state = "unused" /\ otp'[i].age = "valid"
    BY <2>1
  <2>3. {k \in Ids : otp'[k].state # "none"} = 1..(i - 1) \cup {i}
    BY <2>1, <2>2
  <2>4. 1..(i - 1) \cup {i} = 1..i /\ i \in 0..MaxOtps
    BY OtpsAssumption DEF Ids
  <2>5. Gapless'
    BY <2>3, <2>4 DEF Gapless
  <2>6. ASSUME NEW k \in Ids, k > i PROVE otp'[k].state = "none"
    BY <2>1, <2>3, <2>4, <2>6, OtpsAssumption DEF Ids
  <2>7. OlderFirst'
    <3> SUFFICES ASSUME NEW j \in Ids, NEW k \in Ids, k < j, otp'[j].state = "unused", otp'[k].state = "unused"
                 PROVE  /\ otp'[k].age = "valid" => otp'[j].age = "valid"
                        /\ otp'[j].age = "old" => otp'[k].age = "old"
      BY DEF OlderFirst
    <3>1. CASE j = i
      BY <2>2, <3>1
    <3>2. CASE j # i
      <4>1. k # i
        BY <2>6, <3>2
      <4> QED BY <2>1, <3>2, <4>1 DEF OlderFirst
    <3> QED BY <3>1, <3>2
  <2> QED BY <2>1, <2>2, <2>5, <2>7 DEF CodesOK
<1>3. CASE Marked
  <2>1. PICK i \in Ids :
           /\ otp[i].state # "none" /\ otp'[i].state \in {"used", "purged"}
           /\ \A k \in Ids : k # i => otp'[k] = otp[k]
           /\ otp' \in [Ids -> Otp]
    BY <1>3, MarkedRow
  <2>2. {k \in Ids : otp'[k].state # "none"} = {k \in Ids : otp[k].state # "none"}
    BY <2>1
  <2>3. OlderFirst'
    BY <2>1 DEF OlderFirst
  <2> QED BY <2>1, <2>2, <2>3 DEF CodesOK, Gapless
<1>4. CASE Aged
  <2>1. PICK i \in Ids : AgeOtp(i)
    BY <1>4 DEF Aged
  <2>2. /\ otp'[i].state = "unused" /\ otp[i].state = "unused" /\ otp[i].age # "old"
        /\ otp'[i].age = IF otp[i].age = "valid" THEN "expired" ELSE "old"
        /\ \A k \in Ids : k # i => otp'[k] = otp[k]
        /\ otp' \in [Ids -> Otp]
    BY <2>1, AgedRow
  <2>3. {k \in Ids : otp'[k].state # "none"} = {k \in Ids : otp[k].state # "none"}
    BY <2>2
  <2>4. \A k \in Ids : k < i /\ otp[k].state = "unused" /\ otp[k].age # "old" => otp[i].age = "valid" /\ otp[k].age = "expired"
    BY <2>1, OtpsAssumption DEF AgeOtp, Ids
  <2>5. OlderFirst'
    <3> SUFFICES ASSUME NEW j \in Ids, NEW k \in Ids, k < j, otp'[j].state = "unused", otp'[k].state = "unused"
                 PROVE  /\ otp'[k].age = "valid" => otp'[j].age = "valid"
                        /\ otp'[j].age = "old" => otp'[k].age = "old"
      BY DEF OlderFirst
    <3>1. CASE j = i
      <4>1. k # i
        BY <3>1, OtpsAssumption DEF Ids
      <4> QED BY <2>2, <2>4, <3>1, <4>1
    <3>2. CASE j # i /\ k = i
      BY <2>2, <3>2 DEF OlderFirst
    <3>3. CASE j # i /\ k # i
      BY <2>2, <3>3 DEF OlderFirst
    <3> QED BY <3>1, <3>2, <3>3
  <2> QED BY <2>2, <2>3, <2>5 DEF CodesOK, Gapless
<1>5. CASE Swept
  <2>1. \A k \in Ids : otp[k].state # "none" <=> otp'[k].state # "none"
    BY <1>5, SweptRow DEF Purgeable
  <2>2. {k \in Ids : otp'[k].state # "none"} = {k \in Ids : otp[k].state # "none"}
    BY <2>1
  <2>3. \A k \in Ids : otp'[k].state = "unused" => otp'[k] = otp[k]
    BY <1>5, SweptRow DEF Purgeable
  <2>4. OlderFirst'
    BY <2>3 DEF OlderFirst
  <2> QED BY <1>5, <2>1, <2>2, <2>4, SweptType DEF CodesOK, Gapless
<1> QED BY <1>1, <1>2, <1>3, <1>4, <1>5 DEF OtpChange

-----------------------------------------------------------------------------
(* Requests *)

RequestOK(x, o) ==
  /\ x.pc \in {"clear", "verifyTx", "resetTx", "resetWrite"} => x.otp \in Ids /\ o[x.otp].state # "none"
  /\ x.pc \in {"regUpsert", "regOtp"} => "registration" \in Purposes

RequestsStay == slot' \in [Slots -> Request] /\ RequestsOK'

\* A step of request s leaves the others as they were.
LEMMA MovedOK ==
  ASSUME Inv, CodesOK, NEW s \in Slots, NEW n \in Request, slot' = [slot EXCEPT ![s] = n], RequestOK(n, otp')
  PROVE  RequestsStay
<1>1. slot \in [Slots -> Request]
  BY DEF Inv, TypeOK
<1>2. slot' \in [Slots -> Request] /\ slot'[s] = n /\ \A r \in Slots : r # s => slot'[r] = slot[r]
  BY <1>1
<1>3. RequestsOK'
  <2> SUFFICES ASSUME NEW r \in Slots PROVE RequestOK(slot'[r], otp')
    BY DEF RequestsOK, RequestOK
  <2>1. CASE r = s
    BY <1>2, <2>1
  <2>2. CASE r # s
    BY <1>2, <2>2 DEF Inv, RequestsOK, RequestOK, CodesOK
  <2> QED BY <2>1, <2>2
<1> QED BY <1>2, <1>3 DEF RequestsStay

LEMMA FinishOK == ASSUME Inv, CodesOK, NEW s \in Slots, Finish(s) PROVE RequestsStay
BY IdleType, MovedOK DEF Finish, RequestOK

LEMMA StayOK == ASSUME Inv, CodesOK, UNCHANGED slot PROVE RequestsStay
BY DEF Inv, TypeOK, RequestsOK, CodesOK, RequestsStay

LEMMA GotoOK ==
  ASSUME Inv, CodesOK, NEW s \in Slots, NEW pc \in PC, Goto(s, pc),
         pc \in {"clear", "verifyTx", "resetTx", "resetWrite"} =>
           slot[s].pc \in {"clear", "verifyTx", "resetTx", "resetWrite"},
         pc \notin {"regUpsert", "regOtp"}
  PROVE  RequestsStay
<1> DEFINE n == [slot[s] EXCEPT !.pc = pc]
<1>1. slot[s] \in Request /\ RequestOK(slot[s], otp)
  BY DEF Inv, TypeOK, RequestsOK, RequestOK
<1>2. n \in Request /\ n.pc = pc /\ n.otp = slot[s].otp
  BY <1>1 DEF Request
<1>3. slot' = [slot EXCEPT ![s] = n]
  BY DEF Goto
<1>4. RequestOK(n, otp')
  BY <1>1, <1>2 DEF RequestOK, CodesOK
<1> QED BY <1>2, <1>3, <1>4, MovedOK

\* A new request without a row of its own.
LEMMA StartOK ==
  ASSUME Inv, CodesOK, NEW s \in Slots, NEW pc \in {"regUpsert", "sendOtp", "changeWrite"},
         NEW p \in Purposes, NEW pwd \in Passwords \cup {NoPassword}, Start(s, pc, p, pwd),
         pc = "regUpsert" => "registration" \in Purposes
  PROVE  RequestsStay
<1> DEFINE n == [Idle EXCEPT !.pc = pc, !.purpose = p, !.pwd = pwd]
<1>1. n \in Request /\ n.pc = pc
  BY IdleType DEF Request, PC
<1>2. slot' = [slot EXCEPT ![s] = n]
  BY DEF Start
<1>3. RequestOK(n, otp')
  BY <1>1 DEF RequestOK
<1> QED BY <1>1, <1>2, <1>3, MovedOK

-----------------------------------------------------------------------------
(* The invariant *)

\* A step keeps the invariant when it keeps its four parts apart.
Parts == /\ OtpChange /\ account' \in Account /\ pending' \in Pending
         /\ attempts' \in [Purposes -> Nat] /\ cron' \in {"idle", "pending"}

Keeps == Inv' /\ OtpChange

LEMMA PartsOK == ASSUME Inv, Parts, CodesOK => RequestsStay PROVE Keeps
<1>1. CodesOK
  BY CodesKept DEF Inv, Parts
<1> QED BY <1>1 DEF Inv, Parts, CodesOK, RequestsStay, TypeOK, Keeps

LEMMA MarkUsedIsMarked ==
  ASSUME Inv, NEW s \in Slots, slot[s].pc \in {"verifyTx", "resetWrite"}, MarkUsed(s)
  PROVE  Marked
<1>1. slot[s].otp \in Ids /\ otp[slot[s].otp].state # "none"
  BY DEF Inv, RequestsOK
<1>2. otp' = [otp EXCEPT ![slot[s].otp] = Used(otp[slot[s].otp])]
  BY <1>1 DEF MarkUsed, Used, Inv, TypeOK
<1> QED BY <1>1, <1>2 DEF Marked

LEMMA RegistrationSteps ==
  ASSUME Inv, NEW s \in Slots, UpsertPending(s) \/ RegistrationOtp(s) \/ RegistrationCleanup(s) \/ SendOtp(s)
  PROVE  Keeps
<1>0. slot[s] \in Request /\ pending \in Pending /\ account \in Account /\ attempts \in [Purposes -> Nat]
      /\ cron \in {"idle", "pending"} /\ RequestOK(slot[s], otp)
  BY DEF Inv, TypeOK, RequestsOK, RequestOK
<1>1. CASE UpsertPending(s)
  <2> PICK id \in Nat : id = (IF pending.live THEN pending.id ELSE pending.id + 1)
    BY <1>0, OtpsAssumption DEF Pending
  <2>1. id \in 0..MaxPending
    BY <1>0, <1>1, OtpsAssumption DEF UpsertPending
  <2> DEFINE n == [slot[s] EXCEPT !.pc = "regOtp", !.pid = id]
  <2>2. n \in Request /\ n.pc = "regOtp"
    BY <1>0, <2>1 DEF Request, PC
  <2>3. slot' = [slot EXCEPT ![s] = n]
    BY <1>1 DEF UpsertPending, Inv, TypeOK
  <2>4. pending' \in Pending
    BY <1>0, <1>1, <2>1 DEF UpsertPending, Pending, Request, Age
  <2>5. RequestOK(n, otp')
    BY <1>0, <1>1, <2>2 DEF UpsertPending, RequestOK
  <2>6. Parts
    BY <1>0, <1>1, <2>4 DEF UpsertPending, Parts, OtpChange
  <2> QED BY <2>2, <2>3, <2>5, <2>6, MovedOK, PartsOK
<1>2. CASE RegistrationOtp(s)
  <2>1. "registration" \in Purposes
    BY <1>0, <1>2 DEF RegistrationOtp, RequestOK
  <2>2. Parts
    BY <1>0, <1>2, <2>1 DEF RegistrationOtp, Parts, OtpChange, Inserted
  <2>3. Finish(s) \/ Goto(s, "regCleanup")
    BY <1>2 DEF RegistrationOtp
  <2>4. CodesOK => RequestsStay
    BY <2>3, FinishOK, GotoOK DEF PC
  <2> QED BY <2>2, <2>4, PartsOK
<1>3. CASE RegistrationCleanup(s)
  <2>1. pending' \in Pending
    BY <1>0, <1>3 DEF RegistrationCleanup, Pending, Age
  <2>2. Parts
    BY <1>0, <1>3, <2>1 DEF RegistrationCleanup, Parts, OtpChange
  <2> QED BY <1>3, <2>2, FinishOK, PartsOK DEF RegistrationCleanup
<1>4. CASE SendOtp(s)
  <2>1. slot[s].purpose \in Purposes /\ startVerification(slot[s].purpose)
    BY <1>0, <1>4 DEF SendOtp, Request
  <2>2. Inserted
    BY <2>1 DEF Inserted
  <2>3. Parts
    BY <1>0, <1>4, <2>2 DEF SendOtp, Parts, OtpChange
  <2> QED BY <1>4, <2>3, FinishOK, PartsOK DEF SendOtp
<1> QED BY <1>1, <1>2, <1>3, <1>4

LEMMA VerificationSteps ==
  ASSUME Inv, NEW s \in Slots,
         \/ incrementOtpAttempts(s) \/ LockClear(s) \/ ClearAttempts(s) \/ verifyRegistrationOtp(s)
         \/ ResetRead(s) \/ resetPassword(s) \/ ChangeWrite(s)
  PROVE  Keeps
<1>0. slot[s] \in Request /\ pending \in Pending /\ account \in Account /\ attempts \in [Purposes -> Nat]
      /\ cron \in {"idle", "pending"} /\ slot[s].purpose \in Purposes /\ slot[s].pwd \in Passwords \cup {NoPassword}
  BY DEF Inv, TypeOK, Request
<1>1. CASE incrementOtpAttempts(s)
  <2>1. Parts
    BY <1>0, <1>1 DEF incrementOtpAttempts, Parts, OtpChange
  <2>2. Finish(s) \/ Goto(s, "lockClear")
    BY <1>1 DEF incrementOtpAttempts
  <2>3. CodesOK => RequestsStay
    BY <2>2, FinishOK, GotoOK DEF PC
  <2> QED BY <2>1, <2>3, PartsOK
<1>2. CASE LockClear(s)
  <2>1. Parts
    BY <1>0, <1>2 DEF LockClear, Parts, OtpChange, Cleared
  <2> QED BY <1>2, <2>1, FinishOK, PartsOK DEF LockClear
<1>3. CASE ClearAttempts(s)
  <2>1. Parts
    BY <1>0, <1>3 DEF ClearAttempts, Parts, OtpChange, Cleared
  <2>2. slot[s].pc = "clear" /\ (Goto(s, "verifyTx") \/ Goto(s, "resetTx"))
    BY <1>3 DEF ClearAttempts
  <2>3. CodesOK => RequestsStay
    BY <2>2, GotoOK DEF PC
  <2> QED BY <2>1, <2>3, PartsOK
<1>4. CASE verifyRegistrationOtp(s)
  <2>1. OtpChange
    BY <1>4, MarkUsedIsMarked DEF verifyRegistrationOtp, OtpChange
  <2>2. account' \in Account /\ pending' \in Pending
    <3>1. CASE Insertable
      <4>1. account' = [exists |-> TRUE, active |-> TRUE, deleted |-> FALSE, pwd |-> pending.pwd]
            /\ pending' = [pending EXCEPT !.live = FALSE, !.age = "valid", !.pwd = NoPassword]
        BY <1>4, <3>1 DEF verifyRegistrationOtp
      <4> QED BY <1>0, <4>1 DEF Account, Pending, Age
    <3>2. CASE ~Insertable
      BY <1>0, <1>4, <3>2 DEF verifyRegistrationOtp
    <3> QED BY <3>1, <3>2
  <2>3. Parts
    BY <1>0, <1>4, <2>1, <2>2 DEF verifyRegistrationOtp, Parts
  <2> QED BY <1>4, <2>3, FinishOK, PartsOK DEF verifyRegistrationOtp
<1>5. CASE ResetRead(s)
  <2>1. Parts
    BY <1>0, <1>5 DEF ResetRead, Parts, OtpChange
  <2>2. slot[s].pc = "resetTx" /\ (Finish(s) \/ Goto(s, "resetWrite"))
    BY <1>5 DEF ResetRead
  <2>3. CodesOK => RequestsStay
    BY <2>2, FinishOK, GotoOK DEF PC
  <2> QED BY <2>1, <2>3, PartsOK
<1>6. CASE resetPassword(s)
  <2>1. Marked
    BY <1>6, MarkUsedIsMarked DEF resetPassword
  <2>2. account' \in Account
    BY <1>0, <1>6 DEF resetPassword, Account
  <2>3. Parts
    BY <1>0, <1>6, <2>1, <2>2 DEF resetPassword, Parts, OtpChange
  <2> QED BY <1>6, <2>3, FinishOK, PartsOK DEF resetPassword
<1>7. CASE ChangeWrite(s)
  <2>1. account' \in Account
    BY <1>0, <1>7 DEF ChangeWrite, Account
  <2>2. Parts
    BY <1>0, <1>7, <2>1 DEF ChangeWrite, Parts, OtpChange
  <2> QED BY <1>7, <2>2, FinishOK, PartsOK DEF ChangeWrite
<1> QED BY <1>1, <1>2, <1>3, <1>4, <1>5, <1>6, <1>7

\* The comparison of a code: the row it is compared with exists.
LEMMA CheckOK ==
  ASSUME Inv, NEW s \in Slots, NEW p, NEW k, NEW pwd \in Passwords \cup {NoPassword}, checkVerification(s, p, k, pwd)
  PROVE  Keeps
<1>1. PICK i \in Ids : /\ Acceptable(i, p)
                       /\ slot' = [slot EXCEPT ![s] =
                            [pc |-> IF k = i THEN "clear" ELSE "wrong", purpose |-> p,
                             pwd |-> IF k = i THEN pwd ELSE NoPassword, otp |-> i, pid |-> 0]]
  BY DEF checkVerification
<1> DEFINE n == [pc |-> IF k = i THEN "clear" ELSE "wrong", purpose |-> p,
                 pwd |-> IF k = i THEN pwd ELSE NoPassword, otp |-> i, pid |-> 0]
<1>2. p \in Purposes /\ otp[i].state = "unused"
  BY <1>1 DEF Acceptable, IsLatest, Rows, Inv, TypeOK, Otp
<1>3. n \in Request /\ n.otp = i /\ n.pc \in {"clear", "wrong"}
  BY <1>2, OtpsAssumption DEF Request, PC, Ids
<1>4. Parts
  BY DEF checkVerification, Parts, OtpChange, Inv, TypeOK
<1>5. RequestOK(n, otp')
  BY <1>2, <1>3 DEF RequestOK, checkVerification
<1> QED BY <1>1, <1>3, <1>4, <1>5, MovedOK, PartsOK

LEMMA ArrivalSteps == ASSUME Inv, NEW s \in Slots, Arrive(s) PROVE Keeps
<1>0. ASSUME UNCHANGED <<account, pending, otp, attempts, cron>> PROVE Parts
  BY <1>0 DEF Parts, OtpChange, Inv, TypeOK
<1>1. ASSUME NEW pwd \in Passwords, requestRegistrationOtp(s, pwd) PROVE Keeps
  <2>1. "registration" \in Purposes /\ Start(s, "regUpsert", "registration", pwd) /\ Parts
    BY <1>0, <1>1 DEF requestRegistrationOtp
  <2>2. CodesOK => RequestsStay
    BY <2>1, StartOK
  <2> QED BY <2>1, <2>2, PartsOK
<1>2. ASSUME resendRegistrationOtp(s) PROVE Keeps
  <2>1. "registration" \in Purposes /\ Start(s, "sendOtp", "registration", NoPassword) /\ Parts
    BY <1>0, <1>2 DEF resendRegistrationOtp
  <2>2. CodesOK => RequestsStay
    BY <2>1, StartOK
  <2> QED BY <2>1, <2>2, PartsOK
<1>3. ASSUME requestPasswordResetOtp(s) PROVE Keeps
  <2>1. "password_reset" \in Purposes /\ Start(s, "sendOtp", "password_reset", NoPassword) /\ Parts
    BY <1>0, <1>3 DEF requestPasswordResetOtp
  <2>2. CodesOK => RequestsStay
    BY <2>1, StartOK
  <2> QED BY <2>1, <2>2, PartsOK
<1>4. ASSUME NEW k \in 0..MaxOtps,
             \/ checkVerification(s, "registration", k, NoPassword)
             \/ \E pwd \in Passwords : checkVerification(s, "password_reset", k, pwd)
      PROVE  Keeps
  BY <1>4, CheckOK
<1>5. ASSUME NEW old \in Passwords, NEW new \in Passwords, changePassword(s, old, new) PROVE Keeps
  <2>1. Start(s, "changeWrite", AnyPurpose, new) /\ Parts
    BY <1>0, <1>5 DEF changePassword
  <2>2. CodesOK => RequestsStay
    BY <2>1, AnyPurposeType, StartOK
  <2> QED BY <2>1, <2>2, PartsOK
<1> QED BY <1>1, <1>2, <1>3, <1>4, <1>5 DEF Arrive

LEMMA OtherSteps ==
  ASSUME Inv, \/ DeleteAccount \/ ToggleStatus \/ (\E i \in Ids : AgeOtp(i)) \/ AgePending
              \/ (\E p \in Purposes : AgeAttempts(p)) \/ purgeExpiredOtps \/ PurgePending
  PROVE  Keeps
<1>0. pending \in Pending /\ account \in Account /\ attempts \in [Purposes -> Nat] /\ cron \in {"idle", "pending"}
  BY DEF Inv, TypeOK
<1>1. OtpChange
  BY DEF OtpChange, Aged, Swept, DeleteAccount, ToggleStatus, AgePending, AgeAttempts, purgeExpiredOtps, PurgePending
<1>2. account' \in Account
  BY <1>0 DEF Account, DeleteAccount, ToggleStatus, AgeOtp, AgePending, AgeAttempts, purgeExpiredOtps, PurgePending
<1>3. pending' \in Pending
  BY <1>0 DEF Pending, Age, Older, DeleteAccount, ToggleStatus, AgeOtp, AgePending, AgeAttempts, purgeExpiredOtps, PurgePending
<1>4. attempts' \in [Purposes -> Nat]
  BY <1>0 DEF DeleteAccount, ToggleStatus, AgeOtp, AgePending, AgeAttempts, purgeExpiredOtps, PurgePending
<1>5. cron' \in {"idle", "pending"} /\ UNCHANGED slot
  BY <1>0 DEF DeleteAccount, ToggleStatus, AgeOtp, AgePending, AgeAttempts, purgeExpiredOtps, PurgePending
<1> QED BY <1>1, <1>2, <1>3, <1>4, <1>5, StayOK, PartsOK DEF Parts

LEMMA InitInv == Init => Inv
<1> SUFFICES ASSUME Init PROVE Inv
  OBVIOUS
<1>1. account \in Account
  BY DEF Init, Account
<1>2. pending \in Pending /\ attempts \in [Purposes -> Nat] /\ cron \in {"idle", "pending"}
  BY OtpsAssumption DEF Init, Pending, Age
<1>3. otp \in [Ids -> Otp] /\ \A i \in Ids : otp[i].state = "none"
  BY AnyPurposeType DEF Init, Otp, Age
<1>4. slot \in [Slots -> Request] /\ \A s \in Slots : slot[s].pc = "idle"
  BY IdleType DEF Init
<1>5. Gapless
  <2>1. {i \in Ids : otp[i].state # "none"} = 1..0
    BY <1>3
  <2> QED BY <2>1, OtpsAssumption DEF Gapless
<1> QED BY <1>1, <1>2, <1>3, <1>4, <1>5 DEF Inv, TypeOK, OlderFirst, RequestsOK

LEMMA InvStep == Inv /\ [Next]_vars => Keeps
<1> SUFFICES ASSUME Inv, [Next]_vars PROVE Keeps
  OBVIOUS
<1>1. CASE UNCHANGED vars
  BY <1>1 DEF vars, Keeps, OtpChange, Inv, TypeOK, Gapless, OlderFirst, RequestsOK
<1>2. ASSUME NEW s \in Slots, Progress(s) PROVE Keeps
  BY <1>2, RegistrationSteps, VerificationSteps DEF Progress
<1>3. ASSUME NEW s \in Slots, Arrive(s) PROVE Keeps
  BY <1>3, ArrivalSteps
<1>4. ASSUME NEW s \in Slots, Abort(s) PROVE Keeps
  <2>1. Parts /\ Finish(s)
    BY <1>4 DEF Abort, Parts, OtpChange, Inv, TypeOK
  <2> QED BY <2>1, FinishOK, PartsOK
<1> QED BY <1>1, <1>2, <1>3, <1>4, OtherSteps DEF Next

\* The inductive invariant: types, gapless ids, older codes expire first, and
\* a request that goes on holds an existing row.
THEOREM CredentialsInvariant == Spec => []Inv
<1>1. Inv /\ [Next]_vars => Inv'
  BY InvStep DEF Keeps
<1> QED BY <1>1, InitInv, PTL DEF Spec

\* Every table and every request keeps its shape, for all bounds.
THEOREM CredentialsTypeCorrect == Spec => []TypeOK
<1>1. Inv => TypeOK
  BY DEF Inv
<1> QED BY <1>1, CredentialsInvariant, PTL

-----------------------------------------------------------------------------
(* Codes *)

\* An acceptable row that did not change is superseded, or still acceptable.
LEMMA Superseded ==
  ASSUME NEW p, NEW i \in Ids, Acceptable(i, p), ~Acceptable(i, p)', otp'[i] = otp[i]
  PROVE  \E k \in Ids : k > i /\ (k \in Rows(p))'
<1>1. i \in Rows(p)' /\ otp'[i].state = "unused" /\ otp'[i].age = "valid"
  BY DEF Acceptable, IsLatest, Rows
<1>2. PICK k \in Rows(p)' : ~(k <= i)
  BY <1>1 DEF Acceptable, IsLatest
<1>3. k \in Ids /\ k > i
  BY <1>2, OtpsAssumption DEF Rows, Ids
<1> QED BY <1>2, <1>3

LEMMA ValidStep == ASSUME Inv, OtpChange, NEW p \in Purposes, NEW i \in Ids, Acceptable(i, p), ~Acceptable(i, p)'
                   PROVE  \/ otp'[i].state = "used" \/ otp'[i].age # "valid"
                          \/ \E k \in Ids : k > i /\ (k \in Rows(p))'
<1>0. TypeOK /\ Gapless /\ otp[i].state = "unused" /\ otp[i].age = "valid"
  BY DEF Inv, Acceptable
<1>1. CASE UNCHANGED otp
  BY <1>1, Superseded
<1>2. CASE Inserted
  <2>1. otp'[i] = otp[i]
    BY <1>0, <1>2, InsertedRow
  <2> QED BY <2>1, Superseded
<1>3. CASE Marked
  <2>1. otp'[i] = otp[i] \/ otp'[i].state = "used"
    BY <1>0, <1>3, MarkedRow
  <2> QED BY <2>1, Superseded
<1>4. CASE Aged
  <2>1. otp'[i] = otp[i] \/ otp'[i].age # "valid"
    BY <1>0, <1>4, AgedRow DEF Aged
  <2> QED BY <2>1, Superseded
<1>5. CASE Swept
  <2>1. otp'[i] = otp[i]
    BY <1>0, <1>5, SweptRow DEF Purgeable
  <2> QED BY <2>1, Superseded
<1> QED BY <1>1, <1>2, <1>3, <1>4, <1>5 DEF OtpChange

\* checkVerification accepts a code until it is used, expires, is superseded or
\* its guesses reach the limit: below it wrong guesses do not take it away, and
\* the hourly cleanup never does.
THEOREM CodesStayValid == Spec => ValidCodeStaysValid
<1>1. Inv /\ [Next]_vars =>
        [\A p \in Purposes, i \in Ids :
           Acceptable(i, p) /\ ~Acceptable(i, p)' =>
             \/ otp'[i].state = "used"
             \/ otp'[i].age # "valid"
             \/ \E k \in Ids : k > i /\ (k \in Rows(p))'
             \/ \E s \in Slots : LockedAnswer(s) /\ slot[s].otp = i]_vars
  BY InvStep, ValidStep DEF Keeps
<1> QED BY <1>1, CredentialsInvariant, PTL DEF Spec, ValidCodeStaysValid

\* A row that becomes acceptable was unused and valid before, and superseded.
LEMMA RevivedStep ==
  ASSUME Inv, OtpChange, NEW p \in Purposes, NEW i \in Rows(p), ~Acceptable(i, p), Acceptable(i, p)',
         NEW k \in Rows(p), k > i
  PROVE  otp[k].state = "used"
<1>0. /\ i \in Ids /\ k \in Ids /\ i < k /\ TypeOK /\ Gapless
      /\ otp[i].state \in {"unused", "used"} /\ otp[k].state \in {"unused", "used"}
      /\ otp[i].purpose = p /\ otp[k].purpose = p
      /\ otp'[i].state = "unused" /\ otp'[i].age = "valid"
  BY OtpsAssumption DEF Inv, Acceptable, Rows, Ids
<1>1. k \notin Rows(p)'
  BY <1>0, OtpsAssumption DEF Acceptable, IsLatest, Ids
<1>2. CASE UNCHANGED otp
  BY <1>0, <1>1, <1>2 DEF Rows
<1>3. CASE Inserted
  <2>1. otp'[k] = otp[k]
    BY <1>0, <1>3, InsertedRow
  <2> QED BY <1>0, <1>1, <2>1 DEF Rows
<1>4. CASE Marked
  <2>1. otp'[k] = otp[k] \/ (otp'[k].state = "used" /\ otp'[k].purpose = otp[k].purpose)
    BY <1>0, <1>4, MarkedRow
  <2> QED BY <1>0, <1>1, <2>1 DEF Rows
<1>5. CASE Aged
  <2>1. otp'[k] = otp[k] \/ (otp'[k].state = "unused" /\ otp'[k].purpose = otp[k].purpose)
    BY <1>0, <1>5, AgedRow DEF Aged
  <2> QED BY <1>0, <1>1, <2>1 DEF Rows
<1>6. CASE Swept
  <2>1. otp[i].state = "unused" /\ otp[i].age = "valid"
    BY <1>0, <1>6, SweptRow
  <2>2. Purgeable(otp[k])
    BY <1>0, <1>1, <1>6, SweptRow DEF Rows
  <2>3. otp[k].state = "unused" => otp[k].age = "valid"
    BY <1>0, <2>1 DEF Inv, OlderFirst
  <2> QED BY <1>0, <2>2, <2>3 DEF Purgeable
<1> QED BY <1>2, <1>3, <1>4, <1>5, <1>6 DEF OtpChange

\* A superseded code comes back only when every newer one was used and purged.
THEOREM RevivalNeedsUse == Spec => RevivedOnlyAfterUse
<1>1. Inv /\ [Next]_vars =>
        [\A p \in Purposes : \A i \in Rows(p) :
           ~Acceptable(i, p) /\ Acceptable(i, p)' => \A k \in Rows(p) : k > i => otp[k].state = "used"]_vars
  BY InvStep, RevivedStep DEF Keeps
<1> QED BY <1>1, CredentialsInvariant, PTL DEF Spec, RevivedOnlyAfterUse

-----------------------------------------------------------------------------
(* Passwords *)

\* Only resetPassword and changePassword change the password of an account
\* that exists; a late verifyRegistrationOtp is rolled back.
THEOREM RegistrationLeavesAccount == Spec => RegistrationKeepsAccount
<1> DEFINE A == account.exists /\ account'.pwd # account.pwd =>
                  \E s \in Slots : slot[s].pc \in {"resetWrite", "changeWrite"} /\ slot'[s].pc = "idle"
<1>1. Inv /\ [Next]_vars => [A]_vars
  <2> SUFFICES ASSUME Inv, Next, account.exists, account'.pwd # account.pwd PROVE A
    OBVIOUS
  <2>1. ASSUME NEW s \in Slots, Finish(s) PROVE slot'[s].pc = "idle"
    BY <2>1, IdleType DEF Finish, Inv, TypeOK
  <2>2. ASSUME NEW s \in Slots, resetPassword(s) \/ ChangeWrite(s) PROVE A
    BY <2>1, <2>2 DEF resetPassword, ChangeWrite
  <2>3. ASSUME NEW s \in Slots, Arrive(s) \/ Abort(s) PROVE FALSE
    BY <2>3 DEF Arrive, Abort, requestRegistrationOtp, resendRegistrationOtp, requestPasswordResetOtp,
                checkVerification, changePassword
  <2>4. ASSUME NEW s \in Slots, \/ UpsertPending(s) \/ RegistrationOtp(s) \/ RegistrationCleanup(s) \/ SendOtp(s)
                                \/ incrementOtpAttempts(s) \/ LockClear(s) \/ ClearAttempts(s) \/ ResetRead(s)
        PROVE FALSE
    BY <2>4 DEF UpsertPending, RegistrationOtp, RegistrationCleanup, SendOtp, incrementOtpAttempts,
                LockClear, ClearAttempts, ResetRead
  <2>5. ASSUME NEW s \in Slots, verifyRegistrationOtp(s) PROVE FALSE
    BY <2>5 DEF verifyRegistrationOtp, Insertable
  <2>6. ~(DeleteAccount \/ ToggleStatus)
    BY DEF DeleteAccount, ToggleStatus, Inv, TypeOK, Account
  <2>7. ~((\E i \in Ids : AgeOtp(i)) \/ AgePending \/ (\E p \in Purposes : AgeAttempts(p))
          \/ purgeExpiredOtps \/ PurgePending)
    BY DEF AgeOtp, AgePending, AgeAttempts, purgeExpiredOtps, PurgePending
  <2> HIDE DEF A
  <2> QED BY <2>2, <2>3, <2>4, <2>5, <2>6, <2>7 DEF Next, Progress
<1> QED BY <1>1, CredentialsInvariant, PTL DEF Spec, RegistrationKeepsAccount

-----------------------------------------------------------------------------
(* The attempts counter *)

LEMMA LimitStep == Inv /\ "lockClear" \notin Failing /\ LimitIsBeingCleared /\ [Next]_vars => LimitIsBeingCleared'
<1> SUFFICES ASSUME Inv, "lockClear" \notin Failing, LimitIsBeingCleared, [Next]_vars,
                    NEW p \in Purposes, attempts'[p] >= MaxAttempts
             PROVE  \E s \in Slots : slot'[s].pc = "lockClear" /\ slot'[s].purpose = p
  BY DEF LimitIsBeingCleared
<1> DEFINE Good == \E s \in Slots : slot'[s].pc = "lockClear" /\ slot'[s].purpose = p
           Locked(s) == slot[s].pc = "lockClear" /\ slot[s].purpose = p
<1>0. slot \in [Slots -> Request] /\ attempts \in [Purposes -> Nat] /\ MaxAttempts \in Nat /\ MaxAttempts > 0
  BY AttemptsAssumption DEF Inv, TypeOK
<1>1. ASSUME attempts'[p] = attempts[p], UNCHANGED slot PROVE Good
  BY <1>1 DEF LimitIsBeingCleared
<1>2. ASSUME NEW s \in Slots, NEW n, attempts'[p] = attempts[p], slot' = [slot EXCEPT ![s] = n], slot[s].pc # "lockClear"
      PROVE  Good
  <2>1. PICK r \in Slots : Locked(r)
    BY <1>2 DEF LimitIsBeingCleared
  <2> QED BY <1>0, <1>2, <2>1
<1>3. ASSUME NEW s \in Slots, Progress(s) PROVE Good
  <2>1. CASE incrementOtpAttempts(s)
    <3>1. CASE slot[s].purpose = p
      <4>1. attempts'[p] = attempts[p] + 1
        BY <1>0, <2>1, <3>1 DEF incrementOtpAttempts
      <4>2. ReachesLimit(attempts[p] + 1)
        BY <4>1 DEF ReachesLimit
      <4>3. Goto(s, "lockClear")
        BY <2>1, <3>1, <4>2 DEF incrementOtpAttempts
      <4>4. slot'[s].pc = "lockClear" /\ slot'[s].purpose = p
        BY <1>0, <3>1, <4>3 DEF Goto, Request
      <4> QED BY <4>4
    <3>2. CASE slot[s].purpose # p
      <4>1. attempts'[p] = attempts[p] /\ slot[s].pc # "lockClear"
        BY <1>0, <2>1, <3>2 DEF incrementOtpAttempts
      <4>2. Finish(s) \/ Goto(s, "lockClear")
        BY <2>1 DEF incrementOtpAttempts
      <4> QED BY <1>2, <4>1, <4>2 DEF Finish, Goto
    <3> QED BY <3>1, <3>2
  <2>2. CASE LockClear(s)
    <3>1. slot[s].purpose # p
      BY <1>0, <2>2 DEF LockClear, Cleared
    <3>2. attempts'[p] = attempts[p] /\ slot' = [slot EXCEPT ![s] = Idle]
      BY <1>0, <2>2, <3>1 DEF LockClear, Finish
    <3>3. PICK r \in Slots : Locked(r)
      BY <3>2 DEF LimitIsBeingCleared
    <3>4. r # s /\ slot'[r] = slot[r]
      BY <1>0, <3>1, <3>2, <3>3
    <3> QED BY <3>3, <3>4
  <2>3. CASE ClearAttempts(s)
    <3>1. slot[s].purpose # p
      BY <1>0, <2>3 DEF ClearAttempts, Cleared
    <3>2. attempts'[p] = attempts[p] /\ slot[s].pc # "lockClear" /\ \E pc \in PC : Goto(s, pc)
      BY <1>0, <2>3, <3>1 DEF ClearAttempts, PC
    <3> QED BY <1>2, <3>2 DEF Goto
  <2>4. CASE \/ UpsertPending(s) \/ RegistrationOtp(s) \/ RegistrationCleanup(s) \/ SendOtp(s)
             \/ verifyRegistrationOtp(s) \/ ResetRead(s) \/ resetPassword(s) \/ ChangeWrite(s)
    <3>1. UNCHANGED attempts /\ slot[s].pc # "lockClear"
      BY <2>4 DEF UpsertPending, RegistrationOtp, RegistrationCleanup, SendOtp, verifyRegistrationOtp,
                  ResetRead, resetPassword, ChangeWrite
    <3>2. \E n : slot' = [slot EXCEPT ![s] = n]
      <4>1. CASE UpsertPending(s)
        <5> DEFINE i == IF pending.live THEN pending.id ELSE pending.id + 1
        <5>1. slot' = [slot EXCEPT ![s].pc = "regOtp", ![s].pid = i]
          BY <4>1 DEF UpsertPending
        <5> HIDE DEF i
        <5>2. slot' = [slot EXCEPT ![s] = [slot[s] EXCEPT !.pc = "regOtp", !.pid = i]]
          BY <1>0, <5>1
        <5> QED BY <5>2
      <4>2. CASE \/ RegistrationOtp(s) \/ RegistrationCleanup(s) \/ SendOtp(s)
                 \/ verifyRegistrationOtp(s) \/ ResetRead(s) \/ resetPassword(s) \/ ChangeWrite(s)
        <5>1. Finish(s) \/ \E pc \in PC : Goto(s, pc)
          BY <4>2 DEF RegistrationOtp, RegistrationCleanup, SendOtp, verifyRegistrationOtp,
                      ResetRead, resetPassword, ChangeWrite, PC
        <5> QED BY <5>1 DEF Finish, Goto
      <4> QED BY <2>4, <4>1, <4>2
    <3> QED BY <1>2, <3>1, <3>2
  <2> HIDE DEF Good
  <2> QED BY <1>3, <2>1, <2>2, <2>3, <2>4 DEF Progress
<1>4. ASSUME NEW s \in Slots, Arrive(s) PROVE Good
  <2>1. UNCHANGED attempts /\ slot[s].pc # "lockClear"
    BY <1>4 DEF Arrive, Start, requestRegistrationOtp, resendRegistrationOtp, requestPasswordResetOtp,
                checkVerification, changePassword
  <2>2. \E n : slot' = [slot EXCEPT ![s] = n]
    BY <1>4 DEF Arrive, Start, requestRegistrationOtp, resendRegistrationOtp, requestPasswordResetOtp,
                checkVerification, changePassword
  <2> QED BY <1>2, <2>1, <2>2
<1>5. ASSUME NEW s \in Slots, Abort(s) PROVE Good
  <2>1. UNCHANGED attempts /\ slot[s].pc # "lockClear" /\ slot' = [slot EXCEPT ![s] = Idle]
    BY <1>5 DEF Abort, Finish
  <2> QED BY <1>2, <2>1
<1>6. ASSUME DeleteAccount \/ ToggleStatus \/ (\E i \in Ids : AgeOtp(i)) \/ AgePending \/ purgeExpiredOtps \/ PurgePending
      PROVE Good
  <2>1. UNCHANGED <<attempts, slot>>
    BY <1>6 DEF DeleteAccount, ToggleStatus, AgeOtp, AgePending, purgeExpiredOtps, PurgePending
  <2> QED BY <1>1, <2>1
<1>7. ASSUME NEW q \in Purposes, AgeAttempts(q) PROVE Good
  <2>1. q # p
    BY <1>0, <1>7 DEF AgeAttempts
  <2>2. attempts'[p] = attempts[p] /\ UNCHANGED slot
    BY <1>0, <1>7, <2>1 DEF AgeAttempts
  <2> QED BY <1>1, <2>2
<1>8. ASSUME UNCHANGED vars PROVE Good
  BY <1>1, <1>8 DEF vars
<1> HIDE DEF Good
<1>9. Good
  BY <1>3, <1>4, <1>5, <1>6, <1>7, <1>8 DEF Next
<1> QED BY <1>9 DEF Good

\* Whatever else fails, as long as the DELETE at the limit does not, the counter
\* is at its limit only while the request that brought it there is about to
\* clear it.
THEOREM LimitGetsCleared == "lockClear" \notin Failing => (Spec => []LimitIsBeingCleared)
<1>1. Init => LimitIsBeingCleared
  BY AttemptsAssumption DEF Init, LimitIsBeingCleared
<1>2. CASE "lockClear" \in Failing
  BY <1>2
<1>3. CASE "lockClear" \notin Failing
  <2>1. Inv /\ LimitIsBeingCleared /\ [Next]_vars => LimitIsBeingCleared'
    BY <1>3, LimitStep
  <2> QED BY <1>1, <2>1, CredentialsInvariant, PTL DEF Spec
<1> QED BY <1>2, <1>3
=============================================================================
