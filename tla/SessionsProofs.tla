--------------------------- MODULE SessionsProofs ---------------------------
(* Proofs about Sessions, for any accounts, tokens, requests and bounds, with *)
(* failing queries or without.                                              *)
EXTENDS Sessions, TLAPS

-----------------------------------------------------------------------------
(* The inductive invariant *)

\* What a request holds when it waits at a given step.
RequestsOK ==
  \A s \in Slots :
    /\ slot[s].pc \in {"generateTokens", "adminGuard", "adminOp", "deleteMe",
                       "promote", "demote"} => slot[s].user \in Users
    /\ slot[s].pc \in {"refreshRead", "logout"} => slot[s].jti \in Jtis /\ Issued(slot[s].jti)
    /\ slot[s].pc \in {"promote", "demote"} => slot[s].target \in Users

\* Claims, signed or about to be, are not ahead of the row r of their account,
\* and at its current version they do not exceed its role.
Behind(r, admin, ver) ==
  /\ r.exists
  /\ ver <= r.ver
  /\ ver = r.ver /\ admin => r.admin

TokensBehind ==
  \A j \in Jtis : Issued(j) => Behind(user[payload[j].sub], payload[j].admin, payload[j].ver)

RequestsBehind ==
  \A s \in Slots :
    slot[s].pc = "generateTokens" => Behind(user[slot[s].user], slot[s].admin, slot[s].ver)

Inv == TypeOK /\ RequestsOK /\ TokensBehind /\ RequestsBehind

-----------------------------------------------------------------------------
(* Steps of the users table *)

\* What one step may turn the row r of an account into.
Grows(r, n) ==
  r.exists =>
    /\ n.exists
    /\ n.ver >= r.ver
    /\ r.deleted => n.deleted
    /\ r.admin /\ n.ver = r.ver => n.admin

\* The rows the statements write are rows.
LEMMA WritesTyped ==
  ASSUME NEW r \in Account
  PROVE  /\ Registered \in Account /\ Seeded(r) \in Account
         /\ Promoted(r) \in Account /\ Demoted(r) \in Account /\ Deleted(r) \in Account
<1>1. Registered \in Account
  BY DEF Account, Status, Registered
<1>2. [Registered EXCEPT !.admin = TRUE] \in Account
  BY <1>1 DEF Account
<1>3. [r EXCEPT !.status = "active", !.admin = TRUE] \in Account
  BY DEF Account, Status
<1>4. Seeded(r) \in Account
  BY <1>2, <1>3 DEF Seeded
<1>5. r.ver + 1 \in Nat
  BY DEF Account
<1>6. ASSUME NEW n \in Nat, NEW b \in BOOLEAN
      PROVE  /\ [r EXCEPT !.admin = b, !.ver = n] \in Account
             /\ [r EXCEPT !.deleted = b, !.ver = n] \in Account
  BY DEF Account
<1>7. /\ [r EXCEPT !.admin = TRUE, !.ver = r.ver + 1] \in Account
      /\ [r EXCEPT !.admin = FALSE, !.ver = r.ver + 1] \in Account
      /\ [r EXCEPT !.deleted = TRUE, !.ver = r.ver + 1] \in Account
  BY <1>5, <1>6
<1> QED BY <1>1, <1>4, <1>7 DEF Promoted, Demoted, Deleted

\* A free slot is a request that waits at no step.
LEMMA IdleTyped == Idle \in Request /\ Idle.pc = "idle"
  BY DEF Idle, Request, PC

\* Type correctness is inductive together with what a request holds.
LEMMA TypeStep == TypeOK /\ RequestsOK /\ [Next]_vars => TypeOK'
<1> SUFFICES ASSUME TypeOK, RequestsOK, [Next]_vars PROVE TypeOK'
  OBVIOUS
<1> USE UsersAssumption, JtisAssumption, InactiveAssumption
<1>1. CASE UNCHANGED vars
  BY <1>1 DEF vars, TypeOK
<1>2. ASSUME NEW s \in Slots, Progress(s) PROVE TypeOK'
  <2>1. CASE RefreshRead(s)
    <3> DEFINE p == payload[slot[s].jti]
               n == [slot[s] EXCEPT !.pc = "generateTokens", !.user = p.sub,
                                    !.admin = user[p.sub].admin, !.ver = user[p.sub].ver]
    <3>1. p.sub \in Users /\ user[p.sub] \in Account /\ slot[s] \in Request
      BY <2>1 DEF RefreshRead, RequestsOK, TypeOK, Issued, Payload
    <3>2. n \in Request
      BY <3>1 DEF Request, PC, Account
    <3>3. slot' \in [Slots -> Request]
      BY <2>1, <3>2, IdleTyped DEF RefreshRead, TypeOK
    <3> QED BY <2>1, <3>3 DEF RefreshRead, TypeOK
  <2>2. ASSUME NEW j \in Jtis, IssueTokens(s, j) PROVE TypeOK'
    BY <2>2, IdleTyped DEF IssueTokens, generateTokens, Finish, TypeOK, RequestsOK, Request, RefreshRow, RowState, Payload
  <2>3. CASE LogoutRevoke(s)
    BY <2>3, IdleTyped DEF LogoutRevoke, revokeRefreshTokenJti, Finish, TypeOK, RequestsOK, RefreshRow, RowState
  <2>4. CASE canActivate(s)
    BY <2>4, IdleTyped DEF canActivate, TypeOK, Request, PC
  <2>5. CASE RoleWrite(s)
    BY <2>5, IdleTyped, WritesTyped DEF RoleWrite, Finish, TypeOK, RequestsOK
  <2>6. CASE slot[s].pc = "deleteMe" /\ deleteUser(s, slot[s].user)
    BY <2>6, IdleTyped, WritesTyped DEF deleteUser, Finish, TypeOK, RequestsOK
  <2> QED BY <1>2, <2>1, <2>2, <2>3, <2>4, <2>5, <2>6 DEF Progress
<1>3. ASSUME NEW s \in Slots, AdminOp(s) PROVE TypeOK'
  <2> PICK t \in Users : \/ promoteAdmin(s, t) \/ demoteAdmin(s, t) \/ deleteUser(s, t)
                         \/ \E st \in Status : updateUserStatus(s, t, st)
    BY <1>3 DEF AdminOp
  <2>1. CASE promoteAdmin(s, t)
    BY <2>1, IdleTyped DEF promoteAdmin, TypeOK, Request, PC
  <2>2. CASE demoteAdmin(s, t)
    BY <2>2, IdleTyped DEF demoteAdmin, TypeOK, Request, PC
  <2>3. CASE deleteUser(s, t)
    BY <2>3, IdleTyped, WritesTyped DEF deleteUser, Finish, TypeOK
  <2>4. ASSUME NEW st \in Status, updateUserStatus(s, t, st) PROVE TypeOK'
    BY <2>4, IdleTyped DEF updateUserStatus, Finish, TypeOK, Account
  <2> QED BY <2>1, <2>2, <2>3, <2>4
<1>4. ASSUME NEW s \in Slots, Arrive(s) PROVE TypeOK'
  <2>1. ASSUME NEW u \in Users, login(s, u) \/ resetPassword(s, u) PROVE TypeOK'
    <3>1. user[u].admin \in BOOLEAN /\ user[u].ver \in Nat
      BY DEF TypeOK, Account
    <3>2. [Idle EXCEPT !.pc = "generateTokens", !.user = u, !.admin = user[u].admin,
                       !.ver = user[u].ver] \in Request
      BY <3>1, IdleTyped DEF Request, PC
    <3> QED BY <2>1, <3>2 DEF login, resetPassword, TypeOK
  <2>2. ASSUME NEW j \in Jtis, refresh(s, j) PROVE TypeOK'
    <3>1. [Idle EXCEPT !.pc = "refreshRead", !.jti = j] \in Request
      BY IdleTyped DEF Request, PC
    <3>2. row' \in [Jtis -> RefreshRow]
      BY <2>2 DEF refresh, consumeRefreshTokenJti, TypeOK, RefreshRow, RowState
    <3> QED BY <2>2, <3>1, <3>2, IdleTyped DEF refresh, TypeOK
  <2>3. ASSUME NEW j \in Jtis, NEW k \in Jtis, logout(s, k, j) PROVE TypeOK'
    BY <2>3, IdleTyped DEF logout, TypeOK, Request, PC
  <2>4. ASSUME NEW j \in Jtis, NEW pc \in {"adminGuard", "deleteMe"}, Authenticated(s, j, pc) PROVE TypeOK'
    BY <2>4, IdleTyped DEF Authenticated, TypeOK, Request, PC, Payload
  <2> QED BY <1>4, <2>1, <2>2, <2>3, <2>4 DEF Arrive
<1>5. ASSUME NEW s \in Slots, Abort(s) PROVE TypeOK'
  BY <1>5, IdleTyped DEF Abort, Finish, TypeOK
<1>6. ASSUME NEW u \in Users, NEW j \in Jtis, verifyRegistrationOtp(u, j) PROVE TypeOK'
  BY <1>6, WritesTyped DEF verifyRegistrationOtp, generateTokens, TypeOK, RefreshRow, RowState, Payload
<1>7. ASSUME NEW j \in Jtis, Expire(j) PROVE TypeOK'
  BY <1>7 DEF Expire, TypeOK, RefreshRow, RowState
<1>8. ASSUME NEW u \in Users, seedAdminUser(u) PROVE TypeOK'
  BY <1>8, WritesTyped DEF seedAdminUser, TypeOK
<1> QED BY <1>1, <1>2, <1>3, <1>4, <1>5, <1>6, <1>7, <1>8 DEF Next

\* Every statement on an account's row moves it forward.
LEMMA WritesGrow ==
  ASSUME NEW r \in Account, NEW st \in Status
  PROVE  /\ Grows(r, r) /\ Grows(r, Seeded(r)) /\ Grows(r, Promoted(r))
         /\ Grows(r, Demoted(r)) /\ Grows(r, Deleted(r)) /\ Grows(r, [r EXCEPT !.status = st])
<1>1. r.ver \in Nat /\ r.ver + 1 > r.ver /\ r.ver + 1 # r.ver
  BY DEF Account
<1>2. Grows(r, r) /\ Grows(r, [r EXCEPT !.status = st]) /\ Grows(r, Seeded(r))
  BY <1>1 DEF Grows, Account, Seeded
<1>3. Grows(r, Promoted(r))
  BY <1>1 DEF Grows, Account, Promoted
<1>4. Grows(r, Demoted(r))
  BY <1>1 DEF Grows, Account, Demoted
<1>5. Grows(r, Deleted(r))
  BY <1>1 DEF Grows, Account, Deleted
<1> QED BY <1>2, <1>3, <1>4, <1>5

\* Claims that were behind a row stay behind it.
LEMMA BehindGrows ==
  ASSUME NEW r \in Account, NEW n \in Account, NEW admin \in BOOLEAN, NEW ver \in Nat,
         Grows(r, n), Behind(r, admin, ver)
  PROVE  Behind(n, admin, ver)
  BY DEF Grows, Behind, Account

\* No step of any request takes an account's row back.
LEMMA AccountStep ==
  TypeOK /\ RequestsOK /\ [Next]_vars => \A u \in Users : Grows(user[u], user'[u])
<1> SUFFICES ASSUME TypeOK, RequestsOK, [Next]_vars, NEW u \in Users
             PROVE  Grows(user[u], user'[u])
  OBVIOUS
<1>0. /\ user[u] \in Account /\ user \in [Users -> Account]
      /\ Grows(user[u], user[u]) /\ Grows(user[u], Seeded(user[u]))
      /\ Grows(user[u], Promoted(user[u])) /\ Grows(user[u], Demoted(user[u]))
      /\ Grows(user[u], Deleted(user[u]))
      /\ \A st \in Status : Grows(user[u], [user[u] EXCEPT !.status = st])
  BY WritesGrow DEF TypeOK, Status
<1>1. CASE user' = user
  BY <1>0, <1>1
<1>2. ASSUME NEW s \in Slots, RoleWrite(s) PROVE Grows(user[u], user'[u])
  BY <1>0, <1>2 DEF RoleWrite
<1>3. ASSUME NEW s \in Slots, NEW t \in Users, deleteUser(s, t) PROVE Grows(user[u], user'[u])
  BY <1>0, <1>3 DEF deleteUser
<1>4. ASSUME NEW s \in Slots, NEW t \in Users, NEW st \in Status, updateUserStatus(s, t, st)
      PROVE  Grows(user[u], user'[u])
  BY <1>0, <1>4 DEF updateUserStatus
<1>5. ASSUME NEW v \in Users, NEW j \in Jtis, verifyRegistrationOtp(v, j)
      PROVE  Grows(user[u], user'[u])
  BY <1>0, <1>5 DEF verifyRegistrationOtp, Grows
<1>6. ASSUME NEW v \in Users, seedAdminUser(v) PROVE Grows(user[u], user'[u])
  BY <1>0, <1>6 DEF seedAdminUser
<1>7. ASSUME NEW s \in Slots, Progress(s) \/ AdminOp(s) \/ Arrive(s) \/ Abort(s)
      PROVE  Grows(user[u], user'[u])
  <2>1. CASE slot[s].pc = "deleteMe" /\ deleteUser(s, slot[s].user)
    BY <1>3, <2>1 DEF RequestsOK
  <2>2. CASE AdminOp(s)
    BY <1>1, <1>3, <1>4, <2>2 DEF AdminOp, promoteAdmin, demoteAdmin
  <2>3. CASE Arrive(s) \/ Abort(s)
    BY <1>1, <2>3 DEF Arrive, Abort, login, resetPassword, refresh, logout, Authenticated
  <2> QED BY <1>1, <1>2, <1>7, <2>1, <2>2, <2>3
          DEF Progress, RefreshRead, IssueTokens, LogoutRevoke, canActivate
<1> QED BY <1>1, <1>5, <1>6, <1>7 DEF Next, Expire, vars

-----------------------------------------------------------------------------
(* Steps of the tokens and of the requests *)

\* A step signs tokens only at the end of a registration, login, reset or refresh.
LEMMA TokenStep ==
  TypeOK /\ RequestsOK /\ [Next]_vars =>
    \/ UNCHANGED <<payload, parent>>
    \/ \E u \in Users, j \in Jtis : verifyRegistrationOtp(u, j)
    \/ \E s \in Slots, j \in Jtis : IssueTokens(s, j)
<1> SUFFICES ASSUME [Next]_vars, ~UNCHANGED <<payload, parent>>,
                    ~(\E u \in Users, j \in Jtis : verifyRegistrationOtp(u, j))
             PROVE  \E s \in Slots, j \in Jtis : IssueTokens(s, j)
  OBVIOUS
<1>1. ~UNCHANGED vars
  BY DEF vars
<1>2. PICK s \in Slots : Progress(s) \/ AdminOp(s) \/ Arrive(s) \/ Abort(s)
  BY <1>1 DEF Next, Expire, seedAdminUser
<1>3. ~AdminOp(s) /\ ~Arrive(s) /\ ~Abort(s)
  BY DEF AdminOp, promoteAdmin, demoteAdmin, deleteUser, updateUserStatus,
         Arrive, Abort, login, resetPassword, refresh, logout, Authenticated
<1> QED BY <1>2, <1>3 DEF Progress, RefreshRead, LogoutRevoke, canActivate, RoleWrite, deleteUser

\* A token once signed stays signed with the same claims.
LEMMA IssuedStays ==
  TypeOK /\ RequestsOK /\ [Next]_vars =>
    \A j \in Jtis : Issued(j) => payload'[j] = payload[j] /\ parent'[j] = parent[j] /\ Issued(j)'
<1> SUFFICES ASSUME TypeOK, RequestsOK, [Next]_vars, NEW j \in Jtis, Issued(j)
             PROVE  payload'[j] = payload[j] /\ parent'[j] = parent[j] /\ Issued(j)'
  OBVIOUS
<1>1. payload'[j] = payload[j] /\ parent'[j] = parent[j]
  <2>1. CASE UNCHANGED <<payload, parent>>
    BY <2>1
  <2>2. ASSUME NEW u \in Users, NEW k \in Jtis, verifyRegistrationOtp(u, k)
        PROVE  payload'[j] = payload[j] /\ parent'[j] = parent[j]
    BY <2>2 DEF verifyRegistrationOtp, generateTokens, FreshJti, TypeOK
  <2>3. ASSUME NEW s \in Slots, NEW k \in Jtis, IssueTokens(s, k)
        PROVE  payload'[j] = payload[j] /\ parent'[j] = parent[j]
    BY <2>3 DEF IssueTokens, generateTokens, FreshJti, TypeOK
  <2> QED BY <2>1, <2>2, <2>3, TokenStep
<1> QED BY <1>1 DEF Issued

\* What a request holds when it waits at a step is inductive.
LEMMA RequestStep == TypeOK /\ RequestsOK /\ [Next]_vars => RequestsOK'
<1> SUFFICES ASSUME TypeOK, RequestsOK, [Next]_vars, NEW r \in Slots
             PROVE  /\ slot'[r].pc \in {"generateTokens", "adminGuard", "adminOp", "deleteMe",
                                        "promote", "demote"} => slot'[r].user \in Users
                    /\ slot'[r].pc \in {"refreshRead", "logout"}
                         => slot'[r].jti \in Jtis /\ Issued(slot[r].jti)'
                    /\ slot'[r].pc \in {"promote", "demote"} => slot'[r].target \in Users
  BY DEF RequestsOK
<1> DEFINE OK == /\ slot'[r].pc \in {"generateTokens", "adminGuard", "adminOp", "deleteMe",
                                      "promote", "demote"} => slot'[r].user \in Users
                 /\ slot'[r].pc \in {"refreshRead", "logout"}
                      => slot'[r].jti \in Jtis /\ Issued(slot'[r].jti)
                 /\ slot'[r].pc \in {"promote", "demote"} => slot'[r].target \in Users
<1>0. SUFFICES OK
  BY IssuedStays DEF Issued
<1>1. CASE slot'[r] = slot[r] \/ slot'[r] = Idle
  BY <1>1 DEF RequestsOK, Idle
<1>2. ASSUME NEW s \in Slots, Progress(s) PROVE OK
  <2>1. CASE RefreshRead(s)
    BY <2>1 DEF RefreshRead, RequestsOK, TypeOK, Request, Payload, Issued, Idle
  <2>2. CASE canActivate(s)
    BY <2>2 DEF canActivate, RequestsOK, TypeOK, Request, Idle
  <2> QED BY <1>1, <1>2, <2>1, <2>2
          DEF Progress, IssueTokens, LogoutRevoke, RoleWrite, deleteUser, Finish, TypeOK
<1>3. ASSUME NEW s \in Slots, AdminOp(s) PROVE OK
  <2>1. ASSUME NEW t \in Users, promoteAdmin(s, t) \/ demoteAdmin(s, t) PROVE OK
    <3>1. slot[s].user \in Users /\ slot[s] \in Request
      BY <2>1 DEF promoteAdmin, demoteAdmin, RequestsOK, TypeOK
    <3>2. PICK pc \in {"promote", "demote"} :
            \/ slot' = [slot EXCEPT ![s] = Idle]
            \/ slot' = [slot EXCEPT ![s] = [@ EXCEPT !.pc = pc, !.target = t]]
      BY <2>1 DEF promoteAdmin, demoteAdmin
    <3>3. CASE slot' = [slot EXCEPT ![s] = Idle] \/ r # s
      BY <1>1, <3>2, <3>3 DEF TypeOK
    <3>4. CASE slot' = [slot EXCEPT ![s] = [@ EXCEPT !.pc = pc, !.target = t]] /\ r = s
      <4>1. slot'[r].pc = pc /\ slot'[r].target = t /\ slot'[r].user = slot[s].user
        BY <3>1, <3>4 DEF TypeOK, Request
      <4> QED BY <3>1, <4>1
    <3> QED BY <3>2, <3>3, <3>4
  <2> QED BY <1>1, <1>3, <2>1 DEF AdminOp, updateUserStatus, deleteUser, Finish, TypeOK
<1>4. ASSUME NEW s \in Slots, Arrive(s) PROVE OK
  <2>1. ASSUME NEW u \in Users, login(s, u) \/ resetPassword(s, u) PROVE OK
    BY <2>1 DEF login, resetPassword, RequestsOK, TypeOK, Idle
  <2>2. ASSUME NEW j \in Jtis, refresh(s, j) PROVE OK
    BY <2>2 DEF refresh, RequestsOK, TypeOK, Idle
  <2>3. ASSUME NEW j \in Jtis, NEW k \in Jtis, logout(s, k, j) PROVE OK
    BY <2>3 DEF logout, RequestsOK, TypeOK, Idle
  <2>4. ASSUME NEW j \in Jtis, NEW pc \in {"adminGuard", "deleteMe"}, Authenticated(s, j, pc) PROVE OK
    BY <2>4 DEF Authenticated, validate, Issued, RequestsOK, TypeOK, Idle, Payload
  <2> QED BY <1>4, <2>1, <2>2, <2>3, <2>4 DEF Arrive
<1>5. ASSUME NEW s \in Slots, Abort(s) PROVE OK
  BY <1>1, <1>5 DEF Abort, Finish, TypeOK
<1> HIDE DEF OK
<1> QED BY <1>1, <1>2, <1>3, <1>4, <1>5 DEF Next, verifyRegistrationOtp, Expire, seedAdminUser, vars

\* What a request has read stays behind the account's row until it is signed.
LEMMA RequestsBehindStep == Inv /\ [Next]_vars => RequestsBehind'
<1> SUFFICES ASSUME Inv, [Next]_vars, NEW r \in Slots, slot'[r].pc = "generateTokens"
             PROVE  Behind(user'[slot'[r].user], slot'[r].admin, slot'[r].ver)
  BY DEF RequestsBehind
<1> USE DEF Inv
<1>0. TypeOK' /\ RequestsOK' /\ \A u \in Users : Grows(user[u], user'[u])
  BY TypeStep, RequestStep, AccountStep
<1>1. CASE slot'[r] = slot[r]
  <2>1. /\ slot[r].user \in Users /\ slot[r].admin \in BOOLEAN /\ slot[r].ver \in Nat
        /\ Behind(user[slot[r].user], slot[r].admin, slot[r].ver)
    BY <1>1 DEF RequestsOK, RequestsBehind, TypeOK, Request
  <2>2. user[slot[r].user] \in Account /\ user'[slot[r].user] \in Account
    BY <1>0, <2>1 DEF TypeOK
  <2> QED BY <1>0, <1>1, <2>1, <2>2, BehindGrows
<1>2. CASE /\ slot'[r].user \in Users /\ user' = user /\ user[slot'[r].user].exists
           /\ slot'[r].admin = user[slot'[r].user].admin /\ slot'[r].ver = user[slot'[r].user].ver
  BY <1>2 DEF Behind, TypeOK, Account
<1>3. ASSUME NEW s \in Slots, slot' = [slot EXCEPT ![s] = Idle] PROVE slot'[r] = slot[r]
  BY <1>3 DEF TypeOK, Idle
<1>4. ASSUME NEW s \in Slots, NEW u \in Users, login(s, u) \/ resetPassword(s, u)
      PROVE  Behind(user'[slot'[r].user], slot'[r].admin, slot'[r].ver)
  <2>1. CASE r = s
    <3>1. slot'[r] = [Idle EXCEPT !.pc = "generateTokens", !.user = u,
                                  !.admin = user[u].admin, !.ver = user[u].ver]
      BY <1>4, <2>1 DEF login, resetPassword, TypeOK
    <3>2. slot'[r].user = u /\ slot'[r].admin = user[u].admin /\ slot'[r].ver = user[u].ver
      BY <3>1, IdleTyped DEF Request
    <3> QED BY <1>2, <1>4, <3>2 DEF login, resetPassword, Loginable, Visible
  <2>2. CASE r # s
    BY <1>1, <1>4, <2>2 DEF login, resetPassword, TypeOK
  <2> QED BY <2>1, <2>2
<1>5. ASSUME NEW s \in Slots, RefreshRead(s)
      PROVE  Behind(user'[slot'[r].user], slot'[r].admin, slot'[r].ver)
  <2>1. CASE r = s
    <3> DEFINE p == payload[slot[s].jti]
    <3>1. p.sub \in Users /\ Refreshable(p)
      BY <1>5, <2>1 DEF RefreshRead, RequestsOK, TypeOK, Issued, Payload, Idle
    <3>2. slot'[r].user = p.sub /\ slot'[r].admin = user[p.sub].admin /\ slot'[r].ver = user[p.sub].ver
      BY <1>5, <2>1, <3>1 DEF RefreshRead, TypeOK, Request
    <3> QED BY <1>2, <1>5, <3>1, <3>2 DEF RefreshRead, Refreshable, Visible
  <2>2. CASE r # s
    BY <1>1, <1>5, <2>2 DEF RefreshRead, TypeOK
  <2> QED BY <2>1, <2>2
<1>6. ASSUME NEW s \in Slots,
             canActivate(s) \/ \E t \in Users : promoteAdmin(s, t) \/ demoteAdmin(s, t)
      PROVE  slot'[r] = slot[r]
  <2>1. slot'[s].pc # "generateTokens"
    <3>1. CASE canActivate(s)
      BY <3>1, IdleTyped DEF canActivate, TypeOK, Request
    <3>2. ASSUME NEW t \in Users, promoteAdmin(s, t) PROVE slot'[s].pc # "generateTokens"
      BY <3>2, IdleTyped DEF promoteAdmin, TypeOK, Request
    <3>3. ASSUME NEW t \in Users, demoteAdmin(s, t) PROVE slot'[s].pc # "generateTokens"
      BY <3>3, IdleTyped DEF demoteAdmin, TypeOK, Request
    <3> QED BY <1>6, <3>1, <3>2, <3>3
  <2> QED BY <1>6, <2>1 DEF canActivate, promoteAdmin, demoteAdmin, TypeOK
<1>7. ASSUME NEW s \in Slots,
             \E j, k \in Jtis, pc \in {"adminGuard", "deleteMe"} :
                refresh(s, j) \/ logout(s, k, j) \/ Authenticated(s, j, pc)
      PROVE  slot'[r] = slot[r]
  <2>1. slot'[s].pc # "generateTokens"
    <3>1. ASSUME NEW j \in Jtis, refresh(s, j) PROVE slot'[s].pc # "generateTokens"
      BY <3>1, IdleTyped DEF refresh, TypeOK, Request
    <3>2. ASSUME NEW j \in Jtis, NEW k \in Jtis, logout(s, k, j) PROVE slot'[s].pc # "generateTokens"
      BY <3>2, IdleTyped DEF logout, TypeOK, Request
    <3>3. ASSUME NEW j \in Jtis, NEW pc \in {"adminGuard", "deleteMe"}, Authenticated(s, j, pc)
          PROVE  slot'[s].pc # "generateTokens"
      BY <3>3, IdleTyped DEF Authenticated, TypeOK, Request
    <3> QED BY <1>7, <3>1, <3>2, <3>3
  <2> QED BY <1>7, <2>1 DEF refresh, logout, Authenticated, TypeOK
<1>8. ASSUME NEW s \in Slots, Progress(s) \/ AdminOp(s) \/ Abort(s)
      PROVE  Behind(user'[slot'[r].user], slot'[r].admin, slot'[r].ver)
  BY <1>1, <1>3, <1>5, <1>6, <1>8
     DEF Progress, AdminOp, Abort, IssueTokens, LogoutRevoke, RoleWrite, deleteUser, updateUserStatus, Finish
<1>9. ASSUME NEW s \in Slots, Arrive(s)
      PROVE  Behind(user'[slot'[r].user], slot'[r].admin, slot'[r].ver)
  BY <1>1, <1>4, <1>7, <1>9 DEF Arrive
<1> QED BY <1>1, <1>8, <1>9 DEF Next, verifyRegistrationOtp, Expire, seedAdminUser, vars

\* Signed claims stay behind the account's row.
LEMMA TokensBehindStep == Inv /\ [Next]_vars => TokensBehind'
<1> SUFFICES ASSUME Inv, [Next]_vars, NEW j \in Jtis, Issued(j)'
             PROVE  Behind(user'[payload'[j].sub], payload'[j].admin, payload'[j].ver)
  BY DEF TokensBehind
<1> USE DEF Inv
<1>0. TypeOK' /\ \A u \in Users : Grows(user[u], user'[u])
  BY TypeStep, AccountStep
<1>1. CASE Issued(j)
  <2>1. payload'[j] = payload[j]
    BY <1>1, IssuedStays
  <2>2. /\ payload[j].sub \in Users /\ payload[j].admin \in BOOLEAN /\ payload[j].ver \in Nat
        /\ Behind(user[payload[j].sub], payload[j].admin, payload[j].ver)
    BY <1>1 DEF TokensBehind, TypeOK, Payload, Issued
  <2>3. user[payload[j].sub] \in Account /\ user'[payload[j].sub] \in Account
    BY <1>0, <2>2 DEF TypeOK
  <2> QED BY <1>0, <2>1, <2>2, <2>3, BehindGrows
<1>2. CASE ~Issued(j)
  <2>1. ASSUME NEW u \in Users, NEW k \in Jtis, verifyRegistrationOtp(u, k)
        PROVE  Behind(user'[payload'[j].sub], payload'[j].admin, payload'[j].ver)
    <3>1. payload'[j] = [sub |-> u, admin |-> FALSE, ver |-> 0] /\ user'[u] = Registered
      BY <1>2, <2>1 DEF verifyRegistrationOtp, generateTokens, Issued, TypeOK
    <3> QED BY <3>1 DEF Behind, Registered
  <2>2. ASSUME NEW s \in Slots, NEW k \in Jtis, IssueTokens(s, k)
        PROVE  Behind(user'[payload'[j].sub], payload'[j].admin, payload'[j].ver)
    <3>1. /\ payload'[j] = [sub |-> slot[s].user, admin |-> slot[s].admin, ver |-> slot[s].ver]
          /\ user' = user
      BY <1>2, <2>2 DEF IssueTokens, generateTokens, Issued, TypeOK
    <3>2. Behind(user[slot[s].user], slot[s].admin, slot[s].ver)
      BY <2>2 DEF IssueTokens, RequestsBehind
    <3> QED BY <3>1, <3>2
  <2> QED BY <1>2, <2>1, <2>2, TokenStep DEF Issued
<1> QED BY <1>1, <1>2

-----------------------------------------------------------------------------
(* Theorems *)

\* The empty database and free slots satisfy the inductive invariant.
LEMMA InvInit == Init => Inv
<1> SUFFICES ASSUME Init PROVE Inv
  OBVIOUS
<1>1. TypeOK
  <2>1. user \in [Users -> Account]
    BY DEF Init, Account, Status
  <2> QED BY <2>1, IdleTyped DEF Init, TypeOK, RefreshRow, RowState, Payload
<1> QED BY <1>1 DEF Init, Inv, RequestsOK, TokensBehind, RequestsBehind, Issued, Idle

\* Inv holds in every reachable state, whatever the sets and the bounds.
THEOREM SessionsInvariant == Spec => []Inv
<1>1. Inv /\ [Next]_vars => Inv'
  BY TypeStep, RequestStep, TokensBehindStep, RequestsBehindStep DEF Inv
<1> QED BY InvInit, <1>1, PTL DEF Spec

\* Type correctness of the users and refresh-token tables, the claims and the
\* requests in flight.
THEOREM TypeCorrect == Spec => []TypeOK
<1>1. Inv => TypeOK
  BY DEF Inv
<1> QED BY <1>1, SessionsInvariant, PTL

\* No token JwtStrategy.validate accepts claims more than its account's role.
THEOREM ClaimsHonest == Spec => []ClaimNeverExceedsRole
<1>1. Inv => ClaimNeverExceedsRole
  BY DEF Inv, ClaimNeverExceedsRole, TokensBehind, Behind, validate
<1> QED BY <1>1, SessionsInvariant, PTL

\* A token that JwtStrategy.validate rejects as stale is rejected for ever.
THEOREM StaleTokensStayStale == Spec => StaleForever
<1>1. Inv /\ [Next]_vars =>
        [\A j \in Jtis : Issued(j) /\ ~validate(j) => ~validate(j)']_vars
  <2> SUFFICES ASSUME Inv, [Next]_vars, NEW j \in Jtis, Issued(j), ~validate(j)
               PROVE  ~validate(j)'
    OBVIOUS
  <2> DEFINE u == payload[j].sub
  <2>1. u \in Users /\ payload'[j] = payload[j] /\ Grows(user[u], user'[u])
    BY IssuedStays, AccountStep DEF Inv, TypeOK, Payload, Issued
  <2>2. user[u].exists /\ payload[j].ver <= user[u].ver
    BY DEF Inv, TokensBehind, Behind
  <2>3. user[u].ver \in Nat /\ user'[u].ver \in Nat /\ payload[j].ver \in Nat
    BY <2>1, TypeStep DEF Inv, TypeOK, Account, Payload
  <2>4. user[u].deleted \/ payload[j].ver < user[u].ver
    BY <2>2, <2>3 DEF validate, Visible
  <2>5. user'[u].deleted \/ payload[j].ver < user'[u].ver
    BY <2>1, <2>2, <2>3, <2>4 DEF Grows
  <2> QED BY <2>1, <2>3, <2>5 DEF validate, Visible
<1> QED BY <1>1, SessionsInvariant, PTL DEF Spec, StaleForever

-----------------------------------------------------------------------------
(* Sessions rotates refresh tokens the way RefreshTokens promises. *)

-----------------------------------------------------------------------------
(* What a step does to rotation *)

\* A row is stored together with its token.
RowsIssued == \A j \in Jtis : row[j].state # "none" => Issued(j)

RotationInv == Inv /\ RowsIssued /\ SpentOnce

\* Every request buys after the step what it bought before.
SameBuyers ==
  \A r \in Slots : /\ Buying(r)' <=> Buying(r)
                   /\ Buying(r) => slot'[r].jti = slot[r].jti

\* A request that was buying ends without a token.
GivesUp ==
  \E s \in Slots : /\ Buying(s) /\ ~Buying(s)'
                   /\ \A r \in Slots : r # s => slot'[r] = slot[r]

Ends == \E j \in Jtis : row[j].state = "live" /\ row' = [row EXCEPT ![j].state = "dead"]

\* The six ways a step may look to somebody who watches the refresh tokens.
Kinds ==
  \/ UNCHANGED <<row, payload, parent>> /\ SameBuyers
  \/ UNCHANGED <<row, payload, parent>> /\ GivesUp
  \/ UNCHANGED <<payload, parent>> /\ SameBuyers /\ Ends
  \/ \E s \in Slots, j \in Jtis : refresh(s, j)
  \/ \E s \in Slots, j \in Jtis : IssueTokens(s, j)
  \/ \E u \in Users, j \in Jtis : verifyRegistrationOtp(u, j)

\* A free slot buys nothing.
LEMMA IdleBuysNothing ==
  ASSUME TypeOK, NEW s \in Slots, slot[s].pc \notin {"refreshRead", "generateTokens"},
         NEW n \in Request, n.pc \notin {"refreshRead", "generateTokens"} \/ n.jti = NoJti,
         slot' = [slot EXCEPT ![s] = n]
  PROVE  SameBuyers
  BY DEF TypeOK, SameBuyers, Buying

\* A request that ends has been buying, and gives up, or has not.
LEMMA EndsOrGivesUp ==
  ASSUME TypeOK, NEW s \in Slots, slot' = [slot EXCEPT ![s] = Idle]
  PROVE  SameBuyers \/ GivesUp
<1>1. ~Buying(s)'
  BY IdleTyped DEF TypeOK, Buying
<1>2. \A r \in Slots : r # s => slot'[r] = slot[r]
  BY DEF TypeOK
<1>3. CASE Buying(s)
  BY <1>1, <1>2, <1>3 DEF GivesUp
<1>4. CASE ~Buying(s)
  BY <1>1, <1>2, <1>4 DEF SameBuyers, Buying
<1> QED BY <1>3, <1>4

\* Every step of Sessions is of one of the six kinds.
LEMMA StepKinds == TypeOK /\ RequestsOK /\ [Next]_vars => Kinds
<1> SUFFICES ASSUME TypeOK, RequestsOK, [Next]_vars PROVE Kinds
  OBVIOUS
<1> USE JtisAssumption
<1>1. CASE UNCHANGED vars
  BY <1>1 DEF vars, Kinds, SameBuyers, Buying
<1>2. ASSUME NEW s \in Slots, Progress(s) PROVE Kinds
  <2>1. CASE RefreshRead(s)
    <3> DEFINE p == payload[slot[s].jti]
               n == [slot[s] EXCEPT !.pc = "generateTokens", !.user = p.sub,
                                    !.admin = user[p.sub].admin, !.ver = user[p.sub].ver]
    <3>1. CASE slot' = [slot EXCEPT ![s] = n]
      <4>1. n.pc = "generateTokens" /\ n.jti = slot[s].jti
        BY DEF TypeOK, Request
      <4>2. slot[s].pc = "refreshRead" /\ slot'[s] = n /\ \A r \in Slots : r # s => slot'[r] = slot[r]
        BY <2>1, <3>1 DEF RefreshRead, TypeOK
      <4> HIDE DEF n
      <4>3. SameBuyers
        BY <4>1, <4>2 DEF SameBuyers, Buying
      <4> QED BY <2>1, <4>3 DEF Kinds, RefreshRead
    <3>2. CASE slot' = [slot EXCEPT ![s] = Idle]
      BY <2>1, <3>2, EndsOrGivesUp DEF Kinds, RefreshRead
    <3> QED BY <2>1, <3>1, <3>2 DEF RefreshRead
  <2>2. CASE LogoutRevoke(s)
    <3>1. SameBuyers
      BY <2>2, IdleTyped, IdleBuysNothing DEF LogoutRevoke, Finish
    <3>2. slot[s].jti \in Jtis
      BY <2>2 DEF LogoutRevoke, RequestsOK
    <3>3. row' = row \/ Ends
      <4>1. CASE row[slot[s].jti].state = "live"
        BY <2>2, <3>2, <4>1 DEF LogoutRevoke, revokeRefreshTokenJti, Ends, TypeOK
      <4>2. CASE row[slot[s].jti].state # "live"
        BY <2>2, <3>2, <4>2 DEF LogoutRevoke, revokeRefreshTokenJti, TypeOK, RefreshRow
      <4> QED BY <4>1, <4>2
    <3> QED BY <2>2, <3>1, <3>3 DEF Kinds, LogoutRevoke
  <2>3. CASE canActivate(s)
    <3>1. [slot[s] EXCEPT !.pc = "adminOp"] \in Request /\ [slot[s] EXCEPT !.pc = "adminOp"].pc = "adminOp"
      BY DEF TypeOK, Request, PC
    <3>2. SameBuyers
      BY <2>3, <3>1, IdleTyped, IdleBuysNothing DEF canActivate
    <3> QED BY <2>3, <3>2 DEF Kinds, canActivate
  <2>4. CASE RoleWrite(s)
    BY <2>4, IdleTyped, IdleBuysNothing DEF RoleWrite, Finish, Kinds
  <2>5. CASE slot[s].pc = "deleteMe" /\ deleteUser(s, slot[s].user)
    BY <2>5, IdleTyped, IdleBuysNothing DEF deleteUser, Finish, Kinds
  <2> QED BY <1>2, <2>1, <2>2, <2>3, <2>4, <2>5 DEF Progress, Kinds
<1>3. ASSUME NEW s \in Slots, AdminOp(s) PROVE Kinds
  <2>1. ASSUME NEW t \in Users, promoteAdmin(s, t) \/ demoteAdmin(s, t) PROVE Kinds
    <3>1. PICK pc \in {"promote", "demote"} :
            \/ slot' = [slot EXCEPT ![s] = Idle]
            \/ slot' = [slot EXCEPT ![s] = [@ EXCEPT !.pc = pc, !.target = t]]
      BY <2>1 DEF promoteAdmin, demoteAdmin
    <3> DEFINE n == [slot[s] EXCEPT !.pc = pc, !.target = t]
    <3>2. n \in Request /\ n.pc = pc
      BY DEF TypeOK, Request, PC
    <3>3. slot[s].pc = "adminOp" /\ UNCHANGED <<row, payload, parent>>
      BY <2>1 DEF promoteAdmin, demoteAdmin
    <3>4. SameBuyers
      BY <3>1, <3>2, <3>3, IdleTyped, IdleBuysNothing
    <3> QED BY <3>3, <3>4 DEF Kinds
  <2>2. ASSUME NEW t \in Users, deleteUser(s, t) PROVE Kinds
    BY <2>2, IdleTyped, IdleBuysNothing DEF deleteUser, Finish, Kinds
  <2>3. ASSUME NEW t \in Users, NEW st \in Status, updateUserStatus(s, t, st) PROVE Kinds
    BY <2>3, IdleTyped, IdleBuysNothing DEF updateUserStatus, Finish, Kinds
  <2> QED BY <1>3, <2>1, <2>2, <2>3 DEF AdminOp
<1>4. ASSUME NEW s \in Slots, Arrive(s) PROVE Kinds
  <2>1. ASSUME NEW u \in Users, login(s, u) \/ resetPassword(s, u) PROVE Kinds
    <3> DEFINE n == [Idle EXCEPT !.pc = "generateTokens", !.user = u, !.admin = user[u].admin,
                                 !.ver = user[u].ver]
    <3>1. user[u].admin \in BOOLEAN /\ user[u].ver \in Nat
      BY DEF TypeOK, Account
    <3>2. n \in Request /\ n.jti = NoJti
      BY <3>1 DEF Idle, Request, PC
    <3>3. slot[s].pc = "idle" /\ slot' = [slot EXCEPT ![s] = n] /\ UNCHANGED <<row, payload, parent>>
      BY <2>1 DEF login, resetPassword
    <3> HIDE DEF n
    <3> QED BY <3>2, <3>3, IdleBuysNothing DEF Kinds
  <2>2. ASSUME NEW j \in Jtis, refresh(s, j) PROVE Kinds
    BY <2>2 DEF Kinds
  <2>3. ASSUME NEW j \in Jtis, NEW k \in Jtis, logout(s, k, j) PROVE Kinds
    <3>1. [Idle EXCEPT !.pc = "logout", !.jti = j] \in Request /\ [Idle EXCEPT !.pc = "logout", !.jti = j].pc = "logout"
      BY IdleTyped DEF Request, PC
    <3> QED BY <2>3, <3>1, IdleBuysNothing DEF logout, Kinds
  <2>4. ASSUME NEW j \in Jtis, NEW pc \in {"adminGuard", "deleteMe"}, Authenticated(s, j, pc) PROVE Kinds
    <3> DEFINE n == [Idle EXCEPT !.pc = pc, !.user = payload[j].sub]
    <3>1. n \in Request /\ n.pc = pc
      BY IdleTyped DEF Request, PC, TypeOK, Payload
    <3> QED BY <2>4, <3>1, IdleBuysNothing DEF Authenticated, Kinds
  <2> QED BY <1>4, <2>1, <2>2, <2>3, <2>4 DEF Arrive
<1>5. ASSUME NEW s \in Slots, Abort(s) PROVE Kinds
  BY <1>5, EndsOrGivesUp DEF Abort, Finish, Kinds
<1>6. ASSUME NEW j \in Jtis, Expire(j) PROVE Kinds
  BY <1>6 DEF Expire, Kinds, Ends, SameBuyers, Buying
<1>7. ASSUME NEW u \in Users, seedAdminUser(u) PROVE Kinds
  BY <1>7 DEF seedAdminUser, Kinds, SameBuyers, Buying
<1> QED BY <1>1, <1>2, <1>3, <1>4, <1>5, <1>6, <1>7 DEF Next, Kinds

-----------------------------------------------------------------------------
(* A token is spent once *)

\* SpentOnce about one token p, in a form that a step can be compared with.
Spent(p) ==
  /\ \A j, k \in Jtis : parent[j] = p /\ parent[k] = p => j = k
  /\ \A s, t \in Slots : Buying(s) /\ Buying(t) /\ slot[s].jti = p /\ slot[t].jti = p => s = t
  /\ \A j \in Jtis, s \in Slots : ~(parent[j] = p /\ Buying(s) /\ slot[s].jti = p)
  /\ \A j \in Jtis : parent[j] = p => row[p].state = "dead"
  /\ \A s \in Slots : Buying(s) /\ slot[s].jti = p => row[p].state = "dead"

\* The two forms say the same.
LEMMA SpentEach == SpentOnce <=> \A p \in Jtis : Spent(p)
  BY JtisAssumption DEF SpentOnce, Spent, Buying

\* A token that nobody has seen, or whose row is usable, has neither successor nor buyer.
LEMMA UnspentIsFree ==
  ASSUME RowsIssued, NEW p \in Jtis, Spent(p), ~Issued(p) \/ row[p].state # "dead"
  PROVE  /\ \A j \in Jtis : parent[j] # p
         /\ \A s \in Slots : Buying(s) => slot[s].jti # p
  BY DEF RowsIssued, Spent

\* Rows and tokens keep together, and no step spends a token twice.
LEMMA RotationStep == RotationInv /\ [Next]_vars => RowsIssued' /\ SpentOnce'
<1> SUFFICES ASSUME Inv, RowsIssued, SpentOnce, [Next]_vars, NEW p \in Jtis
             PROVE  (row'[p].state # "none" => Issued(p)') /\ Spent(p)'
  <2>1. SpentOnce' <=> \A q \in Jtis : Spent(q)'
    BY JtisAssumption DEF SpentOnce, Spent, Buying
  <2> QED BY <2>1 DEF RotationInv, RowsIssued
<1>1. Kinds /\ TypeOK /\ RequestsOK /\ \A q \in Jtis : Spent(q)
  BY StepKinds, SpentEach DEF Inv
<1>2. Issued(p) => Issued(p)'
  BY IssuedStays DEF Inv
<1> USE <1>1, <1>2
<1>3. CASE UNCHANGED <<row, payload, parent>> /\ SameBuyers
  BY <1>3 DEF RowsIssued, Spent, SameBuyers
<1>4. CASE UNCHANGED <<row, payload, parent>> /\ GivesUp
  <2>1. \A r \in Slots : Buying(r)' => Buying(r) /\ slot'[r].jti = slot[r].jti
    BY <1>4 DEF GivesUp, Buying
  <2> QED BY <1>4, <2>1 DEF RowsIssued, Spent
<1>5. CASE UNCHANGED <<payload, parent>> /\ SameBuyers /\ Ends
  <2>1. /\ row[p].state = "dead" => row'[p].state = "dead"
        /\ row'[p].state # "none" => row[p].state # "none"
    BY <1>5 DEF Ends, TypeOK, RefreshRow
  <2> QED BY <1>5, <2>1 DEF RowsIssued, Spent, SameBuyers
<1>6. ASSUME NEW s \in Slots, NEW j \in Jtis, refresh(s, j)
      PROVE  (row'[p].state # "none" => Issued(p)') /\ Spent(p)'
  <2>1. /\ Issued(j) /\ row[j].state = "live" /\ UNCHANGED <<payload, parent>>
        /\ row'[j].state = "dead" /\ \A q \in Jtis : q # j => row'[q] = row[q]
    BY <1>6 DEF refresh, consumeRefreshTokenJti, TypeOK, RefreshRow
  <2>2. /\ \A r \in Slots : r # s => slot'[r] = slot[r]
        /\ Buying(s)' => slot'[s].jti = j
    BY <1>6, IdleTyped DEF refresh, Buying, TypeOK, Request, Idle
  <2>3. Spent(j)
    OBVIOUS
  <2>4. /\ \A k \in Jtis : parent[k] # j
        /\ \A r \in Slots : Buying(r) => slot[r].jti # j
    BY <2>1, <2>3, UnspentIsFree
  <2>5. \A r \in Slots : r # s => (Buying(r)' <=> Buying(r))
    BY <2>2 DEF Buying
  <2>6. CASE p = j
    BY <2>1, <2>2, <2>4, <2>5, <2>6 DEF Spent
  <2>7. CASE p # j
    BY <2>1, <2>2, <2>5, <2>7 DEF Spent, RowsIssued
  <2> QED BY <2>6, <2>7
<1>7. ASSUME NEW s \in Slots, NEW j \in Jtis, IssueTokens(s, j)
      PROVE  (row'[p].state # "none" => Issued(p)') /\ Spent(p)'
  <2>1. /\ ~Issued(j) /\ Issued(j)' /\ slot[s].pc = "generateTokens"
        /\ row'[j].state = "live" /\ \A q \in Jtis : q # j => row'[q] = row[q]
        /\ parent'[j] = slot[s].jti /\ \A q \in Jtis : q # j => parent'[q] = parent[q]
    BY <1>7, UsersAssumption
       DEF IssueTokens, generateTokens, FreshJti, Issued, TypeOK, RefreshRow, RequestsOK
  <2>2. /\ \A r \in Slots : r # s => slot'[r] = slot[r]
        /\ ~Buying(s)'
    BY <1>7, IdleTyped DEF IssueTokens, Finish, Buying, TypeOK
  <2>3. \A r \in Slots : Buying(r)' => Buying(r) /\ slot'[r].jti = slot[r].jti
    BY <2>2 DEF Buying
  <2>4. /\ \A k \in Jtis : parent[k] # j
        /\ \A r \in Slots : Buying(r) => slot[r].jti # j
    BY <2>1, UnspentIsFree
  <2>5. slot[s].jti = p => Buying(s)
    BY <2>1, JtisAssumption DEF Buying
  <2>6. CASE p = j
    BY <2>1, <2>2, <2>3, <2>4, <2>5, <2>6 DEF Spent
  <2>7. CASE p # j
    <3>1. CASE slot[s].jti = p
      <4>1. Buying(s) /\ row'[p].state = "dead"
        BY <2>1, <2>5, <2>7, <3>1 DEF Spent
      <4>2. \A k \in Jtis : parent'[k] = p => k = j
        BY <2>1, <2>5, <3>1 DEF Spent
      <4>3. \A r \in Slots : ~(Buying(r)' /\ slot'[r].jti = p)
        BY <2>2, <2>3, <3>1, <4>1 DEF Spent
      <4> QED BY <2>1, <2>7, <4>1, <4>2, <4>3 DEF Spent, RowsIssued
    <3>2. CASE slot[s].jti # p
      BY <2>1, <2>3, <2>7, <3>2 DEF Spent, RowsIssued
    <3> QED BY <3>1, <3>2
  <2> QED BY <2>6, <2>7
<1>8. ASSUME NEW u \in Users, NEW j \in Jtis, verifyRegistrationOtp(u, j)
      PROVE  (row'[p].state # "none" => Issued(p)') /\ Spent(p)'
  <2>1. /\ ~Issued(j) /\ Issued(j)' /\ UNCHANGED slot
        /\ row'[j].state = "live" /\ \A q \in Jtis : q # j => row'[q] = row[q]
        /\ parent'[j] = NoJti /\ \A q \in Jtis : q # j => parent'[q] = parent[q]
    BY <1>8, UsersAssumption
       DEF verifyRegistrationOtp, generateTokens, FreshJti, Issued, TypeOK, RefreshRow
  <2>2. \A r \in Slots : Buying(r)' <=> Buying(r)
    BY <2>1 DEF Buying
  <2>3. /\ \A k \in Jtis : parent[k] # j
        /\ \A r \in Slots : Buying(r) => slot[r].jti # j
    BY <2>1, UnspentIsFree
  <2>4. CASE p = j
    BY <2>1, <2>2, <2>3, <2>4, JtisAssumption DEF Spent
  <2>5. CASE p # j
    BY <2>1, <2>2, <2>5, JtisAssumption DEF Spent, RowsIssued
  <2> QED BY <2>4, <2>5
<1> QED BY <1>3, <1>4, <1>5, <1>6, <1>7, <1>8 DEF Kinds

\* Before the first request nothing is spent.
LEMMA RotationInit == Init => RotationInv
<1> SUFFICES ASSUME Init PROVE RotationInv
  OBVIOUS
<1>1. \A s \in Slots : ~Buying(s)
  BY DEF Init, Idle, Buying
<1>2. \A p \in Jtis : Spent(p)
  BY <1>1, JtisAssumption DEF Init, Spent
<1> QED BY <1>2, InvInit, SpentEach DEF Init, RotationInv, RowsIssued

\* Rotation's inductive invariant, in every reachable state.
THEOREM RotationInvariant == Spec => []RotationInv
<1>1. RotationInv /\ [Next]_vars => Inv'
  BY TypeStep, RequestStep, TokensBehindStep, RequestsBehindStep DEF RotationInv, Inv
<1>2. RotationInv /\ [Next]_vars => RotationInv'
  BY <1>1, RotationStep DEF RotationInv
<1> QED BY RotationInit, <1>2, PTL DEF Spec

\* A refresh token yields at most one successor, over all interleavings of
\* refresh with itself, with logout and with expiry, and with failed queries.
THEOREM TokensSpentOnce == Spec => []SpentOnce
<1>1. RotationInv => SpentOnce
  BY DEF RotationInv
<1> QED BY <1>1, RotationInvariant, PTL

\* A consumed, revoked or expired row is never usable again.
THEOREM DeadRowsNeverRevive == Spec => DeadRowsStayDead
<1>1. RotationInv /\ [Next]_vars =>
        [\A j \in Jtis : row[j].state = "dead" => row'[j].state # "live"]_vars
  <2> SUFFICES ASSUME RotationInv, [Next]_vars, NEW j \in Jtis, row[j].state = "dead"
               PROVE  row'[j].state # "live"
    OBVIOUS
  <2>1. Kinds /\ Issued(j) /\ TypeOK
    BY StepKinds DEF RotationInv, Inv, RowsIssued
  <2>2. ASSUME Ends PROVE row'[j].state # "live"
    BY <2>1, <2>2 DEF Ends, TypeOK, RefreshRow
  <2>3. ASSUME NEW s \in Slots, NEW k \in Jtis, refresh(s, k) PROVE row'[j].state # "live"
    BY <2>1, <2>3 DEF refresh, consumeRefreshTokenJti, TypeOK, RefreshRow
  <2>4. ASSUME NEW s \in Slots, NEW k \in Jtis, IssueTokens(s, k) PROVE row'[j].state # "live"
    BY <2>1, <2>4 DEF IssueTokens, generateTokens, FreshJti, TypeOK
  <2>5. ASSUME NEW u \in Users, NEW k \in Jtis, verifyRegistrationOtp(u, k) PROVE row'[j].state # "live"
    BY <2>1, <2>5 DEF verifyRegistrationOtp, generateTokens, FreshJti, TypeOK
  <2> QED BY <2>1, <2>2, <2>3, <2>4, <2>5 DEF Kinds
<1> QED BY <1>1, RotationInvariant, PTL DEF Spec, DeadRowsStayDead

-----------------------------------------------------------------------------
(* Sessions implements RefreshTokens *)

IssuedSet == {j \in Jtis : Issued(j)}
LiveSet == {j \in Jtis : row[j].state = "live"}
OwedSet == {slot[s].jti : s \in {r \in Slots : Buying(r)}}

\* Requests that buy what they bought owe what they owed.
LEMMA SameOwed == SameBuyers => OwedSet' = OwedSet
  BY DEF SameBuyers, OwedSet

\* Each step of Sessions is a step of RefreshTokens or leaves its state alone.
LEMMA RefinementStep == RotationInv /\ [Next]_vars => [Abstract!Next]_(Abstract!state)
<1> SUFFICES ASSUME RotationInv, [Next]_vars PROVE [Abstract!Next]_(Abstract!state)
  OBVIOUS
<1>1. Kinds /\ TypeOK /\ RequestsOK /\ RowsIssued /\ \A q \in Jtis : Spent(q)
  BY StepKinds, SpentEach DEF RotationInv, Inv
<1> USE <1>1
<1>2. ASSUME UNCHANGED <<IssuedSet, LiveSet, OwedSet, parent>>
      PROVE  UNCHANGED Abstract!state
  BY <1>2 DEF Abstract!state, IssuedSet, LiveSet, OwedSet
<1>3. ASSUME UNCHANGED <<payload, parent>> PROVE UNCHANGED <<IssuedSet, parent>>
  BY <1>3 DEF IssuedSet, Issued
<1>4. CASE UNCHANGED <<row, payload, parent>> /\ SameBuyers
  BY <1>2, <1>3, <1>4, SameOwed DEF LiveSet
<1>5. CASE UNCHANGED <<row, payload, parent>> /\ GivesUp
  <2> PICK s \in Slots : Buying(s) /\ ~Buying(s)' /\ \A r \in Slots : r # s => slot'[r] = slot[r]
    BY <1>5 DEF GivesUp
  <2>1. PICK p \in Jtis : p = slot[s].jti
    BY DEF Buying, TypeOK, Request
  <2>2. \A r \in Slots : Buying(r)' <=> r # s /\ Buying(r)
    BY DEF Buying
  <2>3. \A r \in Slots : Buying(r) /\ r # s => slot[r].jti # slot[s].jti
    BY <2>1 DEF Spent
  <2>4. OwedSet' = OwedSet \ {p} /\ p \in OwedSet
    BY <2>1, <2>2, <2>3 DEF OwedSet
  <2>5. UNCHANGED <<IssuedSet, LiveSet, parent>>
    BY <1>3, <1>5 DEF LiveSet
  <2>6. Abstract!Forfeit(p)
    BY <2>4, <2>5 DEF Abstract!Forfeit, IssuedSet, LiveSet, OwedSet
  <2> QED BY <2>1, <2>6 DEF Abstract!Next
<1>6. CASE UNCHANGED <<payload, parent>> /\ SameBuyers /\ Ends
  <2> PICK j \in Jtis : row[j].state = "live" /\ row' = [row EXCEPT ![j].state = "dead"]
    BY <1>6 DEF Ends
  <2>1. row'[j].state = "dead" /\ \A q \in Jtis : q # j => row'[q] = row[q]
    BY DEF TypeOK, RefreshRow
  <2>2. j \in LiveSet /\ LiveSet' = LiveSet \ {j}
    BY <2>1 DEF LiveSet
  <2>3. UNCHANGED <<IssuedSet, OwedSet, parent>>
    BY <1>3, <1>6, SameOwed
  <2>4. Abstract!Lapse(j)
    BY <2>2, <2>3 DEF Abstract!Lapse, IssuedSet, LiveSet, OwedSet
  <2> QED BY <2>4 DEF Abstract!Next
<1>7. ASSUME NEW s \in Slots, NEW j \in Jtis, refresh(s, j) PROVE Abstract!Next
  <2>1. /\ row[j].state = "live" /\ UNCHANGED <<payload, parent>> /\ slot[s].pc = "idle"
        /\ row'[j].state = "dead" /\ \A q \in Jtis : q # j => row'[q] = row[q]
    BY <1>7 DEF refresh, consumeRefreshTokenJti, TypeOK, RefreshRow
  <2>2. /\ \A r \in Slots : r # s => slot'[r] = slot[r]
        /\ Buying(s)' => slot'[s].jti = j
    BY <1>7, IdleTyped DEF refresh, Buying, TypeOK, Request, Idle
  <2>3. j \in LiveSet /\ LiveSet' = LiveSet \ {j} /\ UNCHANGED <<IssuedSet, parent>>
    BY <1>3, <2>1 DEF LiveSet
  <2>4. \A r \in Slots : r # s => (Buying(r)' <=> Buying(r))
    BY <2>2 DEF Buying
  <2>5. ~Buying(s)
    BY <2>1 DEF Buying
  <2>6. CASE Buying(s)'
    <3>1. OwedSet' = OwedSet \cup {j}
      BY <2>2, <2>4, <2>5, <2>6 DEF OwedSet
    <3>2. Abstract!Spend(j)
      BY <2>3, <3>1 DEF Abstract!Spend, IssuedSet, LiveSet, OwedSet
    <3> QED BY <3>2 DEF Abstract!Next
  <2>7. CASE ~Buying(s)'
    <3>1. OwedSet' = OwedSet
      BY <2>2, <2>4, <2>5, <2>7 DEF OwedSet
    <3>2. Abstract!Lapse(j)
      BY <2>3, <3>1 DEF Abstract!Lapse, IssuedSet, LiveSet, OwedSet
    <3> QED BY <3>2 DEF Abstract!Next
  <2> QED BY <2>6, <2>7
<1>8. ASSUME NEW s \in Slots, NEW j \in Jtis, IssueTokens(s, j) PROVE Abstract!Next
  <2>1. /\ ~Issued(j) /\ Issued(j)' /\ slot[s].pc = "generateTokens"
        /\ row'[j].state = "live" /\ \A q \in Jtis : q # j => row'[q] = row[q]
        /\ parent' = [parent EXCEPT ![j] = slot[s].jti]
        /\ \A q \in Jtis : q # j => payload'[q] = payload[q]
    BY <1>8, UsersAssumption
       DEF IssueTokens, generateTokens, FreshJti, Issued, TypeOK, RefreshRow, RequestsOK
  <2>2. /\ \A r \in Slots : r # s => slot'[r] = slot[r]
        /\ ~Buying(s)'
    BY <1>8, IdleTyped DEF IssueTokens, Finish, Buying, TypeOK
  <2>3. \A r \in Slots : Buying(r)' <=> r # s /\ Buying(r)
    BY <2>2 DEF Buying
  <2>4. j \notin IssuedSet /\ IssuedSet' = IssuedSet \cup {j} /\ LiveSet' = LiveSet \cup {j}
    BY <2>1 DEF IssuedSet, LiveSet, Issued
  <2>5. CASE slot[s].jti = NoJti
    <3>1. ~Buying(s)
      BY <2>5 DEF Buying
    <3>2. OwedSet' = OwedSet
      BY <2>2, <2>3, <3>1 DEF OwedSet
    <3>3. Abstract!Issue(j)
      BY <2>1, <2>4, <2>5, <3>2 DEF Abstract!Issue, IssuedSet, LiveSet, OwedSet
    <3> QED BY <3>3 DEF Abstract!Next
  <2>6. CASE slot[s].jti # NoJti
    <3>1. Buying(s) /\ slot[s].jti \in Jtis
      BY <2>1, <2>6 DEF Buying, TypeOK, Request
    <3>2. \A r \in Slots : Buying(r) /\ r # s => slot[r].jti # slot[s].jti
      BY <3>1 DEF Spent
    <3>3. OwedSet' = OwedSet \ {slot[s].jti} /\ slot[s].jti \in OwedSet
      BY <2>2, <2>3, <3>1, <3>2 DEF OwedSet
    <3>4. Abstract!Succeed(slot[s].jti, j)
      BY <2>1, <2>4, <3>3 DEF Abstract!Succeed, IssuedSet, LiveSet, OwedSet
    <3> QED BY <3>1, <3>4 DEF Abstract!Next
  <2> QED BY <2>5, <2>6
<1>9. ASSUME NEW u \in Users, NEW j \in Jtis, verifyRegistrationOtp(u, j) PROVE Abstract!Next
  <2>1. /\ ~Issued(j) /\ Issued(j)' /\ UNCHANGED slot
        /\ row'[j].state = "live" /\ \A q \in Jtis : q # j => row'[q] = row[q]
        /\ parent' = [parent EXCEPT ![j] = NoJti]
        /\ \A q \in Jtis : q # j => payload'[q] = payload[q]
    BY <1>9, UsersAssumption
       DEF verifyRegistrationOtp, generateTokens, FreshJti, Issued, TypeOK, RefreshRow
  <2>2. j \notin IssuedSet /\ IssuedSet' = IssuedSet \cup {j} /\ LiveSet' = LiveSet \cup {j}
    BY <2>1 DEF IssuedSet, LiveSet, Issued
  <2>3. OwedSet' = OwedSet
    BY <2>1 DEF OwedSet, Buying
  <2>4. Abstract!Issue(j)
    BY <2>1, <2>2, <2>3 DEF Abstract!Issue, IssuedSet, LiveSet, OwedSet
  <2> QED BY <2>4 DEF Abstract!Next
<1> QED BY <1>4, <1>5, <1>6, <1>7, <1>8, <1>9 DEF Kinds

\* refresh, with its separate queries, interleavings and failures, implements
\* refresh tokens that are good for one refresh.
THEOREM RotationIsOneShot == Spec => OneShotTokens
<1>1. Init => Abstract!Init
  <2> SUFFICES ASSUME Init PROVE Abstract!Init
    OBVIOUS
  <2>1. \A s \in Slots : ~Buying(s)
    BY DEF Init, Idle, Buying
  <2> QED BY <2>1 DEF Init, Abstract!Init, Issued
<1> QED BY <1>1, RotationInvariant, RefinementStep, PTL DEF Spec, OneShotTokens, Abstract!Spec

-----------------------------------------------------------------------------
(* A refresh keeps its session; a demotion is of somebody else *)

\* A request is moved by a step of its own only.
LEMMA OwnSteps ==
  TypeOK /\ RequestsOK /\ [Next]_vars =>
    \A r \in Slots : slot'[r] = slot[r] \/ Progress(r) \/ AdminOp(r) \/ Arrive(r) \/ Abort(r)
<1> SUFFICES ASSUME TypeOK, RequestsOK, [Next]_vars, NEW r \in Slots, slot'[r] # slot[r]
             PROVE  Progress(r) \/ AdminOp(r) \/ Arrive(r) \/ Abort(r)
  OBVIOUS
<1>1. PICK s \in Slots : Progress(s) \/ AdminOp(s) \/ Arrive(s) \/ Abort(s)
  BY DEF Next, vars, verifyRegistrationOtp, Expire, seedAdminUser
<1>2. CASE Progress(s)
  BY <1>2 DEF Progress, RefreshRead, IssueTokens, LogoutRevoke, canActivate, RoleWrite, deleteUser,
              Finish, TypeOK
<1>3. CASE AdminOp(s)
  BY <1>3 DEF AdminOp, promoteAdmin, demoteAdmin, deleteUser, updateUserStatus, Finish, TypeOK
<1>4. CASE Arrive(s)
  BY <1>4 DEF Arrive, login, resetPassword, refresh, logout, Authenticated, TypeOK
<1>5. CASE Abort(s)
  BY <1>5 DEF Abort, Finish, TypeOK
<1> QED BY <1>1, <1>2, <1>3, <1>4, <1>5

\* A request comes to the signing of tokens from login, a reset or refresh only,
\* and to a demotion from demoteAdmin only.
LEMMA WaysIn ==
  ASSUME TypeOK, RequestsOK, [Next]_vars, NEW r \in Slots, slot'[r] # slot[r]
  PROVE  /\ slot'[r].pc = "generateTokens" => RefreshRead(r) \/ \E u \in Users : login(r, u)
         /\ slot'[r].pc = "demote" => \E t \in Users : demoteAdmin(r, t)
<1> DEFINE Tail == slot'[r].pc \notin {"generateTokens", "demote"}
<1>1. ASSUME slot' = [slot EXCEPT ![r] = Idle] PROVE Tail
  BY <1>1, IdleTyped DEF TypeOK
<1>2. CASE Progress(r)
  <2>1. CASE RefreshRead(r)
    <3>1. slot'[r].pc # "demote"
      BY <2>1, IdleTyped DEF RefreshRead, TypeOK, Request
    <3> QED BY <2>1, <3>1
  <2>2. CASE canActivate(r)
    BY <2>2, IdleTyped DEF canActivate, TypeOK, Request
  <2> QED BY <1>1, <1>2, <2>1, <2>2 DEF Progress, IssueTokens, LogoutRevoke, RoleWrite, deleteUser, Finish
<1>3. CASE AdminOp(r)
  <2>1. ASSUME NEW t \in Users, promoteAdmin(r, t) PROVE Tail
    BY <2>1, IdleTyped DEF promoteAdmin, TypeOK, Request
  <2>2. ASSUME NEW t \in Users, demoteAdmin(r, t) PROVE slot'[r].pc # "generateTokens"
    BY <2>2, IdleTyped DEF demoteAdmin, TypeOK, Request
  <2> QED BY <1>1, <1>3, <2>1, <2>2 DEF AdminOp, deleteUser, updateUserStatus, Finish
<1>4. CASE Arrive(r)
  <2>1. ASSUME NEW u \in Users, login(r, u) PROVE slot'[r].pc # "demote"
    BY <2>1, IdleTyped DEF login, TypeOK, Request
  <2>2. ASSUME NEW j \in Jtis, refresh(r, j) PROVE Tail
    BY <2>2, IdleTyped DEF refresh, TypeOK, Request
  <2>3. ASSUME NEW j \in Jtis, NEW k \in Jtis, logout(r, k, j) PROVE Tail
    BY <2>3, IdleTyped DEF logout, TypeOK, Request
  <2>4. ASSUME NEW j \in Jtis, NEW pc \in {"adminGuard", "deleteMe"}, Authenticated(r, j, pc) PROVE Tail
    BY <2>4, IdleTyped DEF Authenticated, TypeOK, Request
  <2> QED BY <1>4, <2>1, <2>2, <2>3, <2>4 DEF Arrive, resetPassword
<1>5. CASE Abort(r)
  BY <1>1, <1>5 DEF Abort, Finish
<1> QED BY <1>2, <1>3, <1>4, <1>5, OwnSteps

\* What a refresh is about to sign is for the session of the token it spent.
BuyersKeep ==
  \A s \in Slots : slot[s].pc = "generateTokens" /\ slot[s].jti # NoJti =>
    /\ Issued(slot[s].jti)
    /\ slot[s].user = payload[slot[s].jti].sub
    /\ slot[s].ver = payload[slot[s].jti].ver

SessionInv == RotationInv /\ BuyersKeep /\ RotationKeepsSession

\* A refresh reads the account its token names, at the version it names.
LEMMA BuyersKeepStep == RotationInv /\ BuyersKeep /\ [Next]_vars => BuyersKeep'
<1> SUFFICES ASSUME RotationInv, BuyersKeep, [Next]_vars, NEW r \in Slots,
                    slot'[r].pc = "generateTokens", slot'[r].jti # NoJti
             PROVE  /\ Issued(slot[r].jti)'
                    /\ slot'[r].user = payload'[slot'[r].jti].sub
                    /\ slot'[r].ver = payload'[slot'[r].jti].ver
  BY DEF BuyersKeep
<1>1. TypeOK /\ RequestsOK /\ TypeOK' /\ \A j \in Jtis : Issued(j) => payload'[j] = payload[j]
  BY IssuedStays, TypeStep DEF RotationInv, Inv
<1>2. slot'[r].jti \in Jtis
  BY <1>1 DEF TypeOK, Request
<1>3. SUFFICES /\ Issued(slot'[r].jti)
               /\ slot'[r].user = payload[slot'[r].jti].sub
               /\ slot'[r].ver = payload[slot'[r].jti].ver
  BY <1>1, <1>2, <1>3 DEF Issued
<1>4. CASE slot'[r] = slot[r]
  BY <1>4 DEF BuyersKeep
<1>5. ASSUME NEW u \in Users, login(r, u) PROVE FALSE
  <2> DEFINE n == [Idle EXCEPT !.pc = "generateTokens", !.user = u, !.admin = user[u].admin,
                               !.ver = user[u].ver]
  <2>1. n.jti = NoJti /\ slot'[r] = n
    BY <1>1, <1>5 DEF login, TypeOK, Idle
  <2> QED BY <2>1
<1>6. CASE RefreshRead(r)
  <2> DEFINE p == payload[slot[r].jti]
  <2>1. Refreshable(p) /\ slot[r].jti \in Jtis /\ Issued(slot[r].jti)
    BY <1>1, <1>6 DEF RefreshRead, RequestsOK, TypeOK, Idle
  <2>2. slot'[r].jti = slot[r].jti /\ slot'[r].user = p.sub /\ slot'[r].ver = user[p.sub].ver
    BY <1>1, <1>6, <2>1 DEF RefreshRead, TypeOK, Request
  <2> QED BY <2>1, <2>2 DEF Refreshable
<1> QED BY <1>1, <1>4, <1>5, <1>6, WaysIn

\* Whatever happens to the account meanwhile, a chain of refreshes stays with
\* one account and one token_version.
THEOREM RefreshKeepsSession == Spec => []RotationKeepsSession
<1>1. Init => SessionInv
  <2> SUFFICES ASSUME Init PROVE BuyersKeep /\ RotationKeepsSession
    BY RotationInit DEF SessionInv
  <2> QED BY DEF Init, BuyersKeep, RotationKeepsSession, Idle
<1>2. SessionInv /\ [Next]_vars => RotationKeepsSession'
  <2> SUFFICES ASSUME SessionInv, [Next]_vars, NEW j \in Jtis, parent'[j] # NoJti
               PROVE  /\ payload'[j].sub = payload'[parent'[j]].sub
                      /\ payload'[j].ver = payload'[parent'[j]].ver
    BY DEF RotationKeepsSession
  <2>1. /\ TypeOK /\ RequestsOK /\ RowsIssued /\ TypeOK' /\ \A q \in Jtis : Spent(q)
        /\ \A k \in Jtis : Issued(k) => payload'[k] = payload[k]
    BY IssuedStays, TypeStep, SpentEach DEF SessionInv, RotationInv, Inv
  <2>2. CASE parent'[j] = parent[j] /\ payload'[j] = payload[j]
    <3>1. parent[j] \in Jtis /\ row[parent[j]].state = "dead"
      BY <2>1, <2>2 DEF TypeOK, Spent
    <3>2. payload'[parent[j]] = payload[parent[j]]
      BY <2>1, <3>1 DEF RowsIssued
    <3> QED BY <2>2, <3>2 DEF SessionInv, RotationKeepsSession
  <2>3. ASSUME NEW u \in Users, NEW k \in Jtis, verifyRegistrationOtp(u, k), k = j PROVE FALSE
    BY <2>1, <2>3 DEF verifyRegistrationOtp, generateTokens, TypeOK
  <2>4. ASSUME NEW s \in Slots, NEW k \in Jtis, IssueTokens(s, k), k = j
        PROVE  /\ payload'[j].sub = payload'[parent'[j]].sub
               /\ payload'[j].ver = payload'[parent'[j]].ver
    <3>1. /\ slot[s].pc = "generateTokens" /\ parent'[j] = slot[s].jti
          /\ payload'[j].sub = slot[s].user /\ payload'[j].ver = slot[s].ver
      BY <2>1, <2>4 DEF IssueTokens, generateTokens, TypeOK
    <3>2. /\ Issued(slot[s].jti) /\ slot[s].jti \in Jtis
          /\ slot[s].user = payload[slot[s].jti].sub /\ slot[s].ver = payload[slot[s].jti].ver
      BY <2>1, <3>1 DEF SessionInv, BuyersKeep, TypeOK, Request
    <3> QED BY <2>1, <3>1, <3>2
  <2>5. ASSUME NEW u \in Users, NEW k \in Jtis, verifyRegistrationOtp(u, k), k # j
        PROVE  parent'[j] = parent[j] /\ payload'[j] = payload[j]
    BY <2>1, <2>5 DEF verifyRegistrationOtp, generateTokens, TypeOK
  <2>6. ASSUME NEW s \in Slots, NEW k \in Jtis, IssueTokens(s, k), k # j
        PROVE  parent'[j] = parent[j] /\ payload'[j] = payload[j]
    BY <2>1, <2>6 DEF IssueTokens, generateTokens, TypeOK
  <2> QED BY <2>1, <2>2, <2>3, <2>4, <2>5, <2>6, TokenStep
<1>3. SessionInv /\ [Next]_vars /\ RotationInv' => SessionInv'
  BY <1>2, BuyersKeepStep DEF SessionInv
<1>4. SessionInv => RotationKeepsSession
  BY DEF SessionInv
<1> QED BY <1>1, <1>3, <1>4, RotationInvariant, PTL DEF Spec

\* Nobody is about to demote himself.
DemotesOthers == \A s \in Slots : slot[s].pc = "demote" => slot[s].user # slot[s].target

\* demoteAdmin leaves the system without an admin only in a race: the admin who
\* asked has lost the role, or his account, between AdminGuard and the UPDATE.
THEOREM LastAdminFallsInARace == Spec => LastAdminByRace
<1>1. Init => DemotesOthers
  BY DEF Init, Idle, DemotesOthers
<1>2. Inv /\ DemotesOthers /\ [Next]_vars => DemotesOthers'
  <2> SUFFICES ASSUME Inv, DemotesOthers, [Next]_vars, NEW r \in Slots, slot'[r].pc = "demote"
               PROVE  slot'[r].user # slot'[r].target
    BY DEF DemotesOthers
  <2>1. CASE slot'[r] = slot[r]
    BY <2>1 DEF DemotesOthers
  <2>2. ASSUME NEW t \in Users, demoteAdmin(r, t) PROVE slot'[r].user # slot'[r].target
    <3>1. slot[r].user # t /\ slot'[r] = [slot[r] EXCEPT !.pc = "demote", !.target = t]
      BY <2>2, IdleTyped DEF demoteAdmin, Inv, TypeOK
    <3> QED BY <3>1 DEF Inv, TypeOK, Request
  <2> QED BY <2>1, <2>2, WaysIn DEF Inv
<1>3. Inv /\ DemotesOthers /\ [Next]_vars =>
        [\A s \in Slots :
           slot[s].pc = "demote" /\ slot'[s] # slot[s] /\ Admins # {} /\ Admins' = {}
             => slot[s].user \notin Admins]_vars
  <2> SUFFICES ASSUME Inv, DemotesOthers, [Next]_vars, NEW s \in Slots, slot[s].pc = "demote",
                      slot'[s] # slot[s], Admins' = {}, slot[s].user \in Admins
               PROVE  FALSE
    OBVIOUS
  <2>1. Progress(s) \/ AdminOp(s) \/ Arrive(s) \/ Abort(s)
    BY OwnSteps DEF Inv
  <2>2. RoleWrite(s) \/ Abort(s)
    BY <2>1 DEF Progress, AdminOp, Arrive, RefreshRead, IssueTokens, LogoutRevoke, canActivate,
         deleteUser, promoteAdmin, demoteAdmin, updateUserStatus, login, resetPassword, refresh,
         logout, Authenticated
  <2>3. user'[slot[s].user] = user[slot[s].user]
    <3>1. slot[s].user \in Users /\ slot[s].user # slot[s].target
      BY DEF Admins, DemotesOthers
    <3> QED BY <2>2, <3>1 DEF RoleWrite, Abort, Inv, TypeOK
  <2> QED BY <2>3 DEF Admins, Visible
<1> QED BY <1>1, <1>2, <1>3, SessionsInvariant, PTL DEF Spec, LastAdminByRace
=============================================================================
