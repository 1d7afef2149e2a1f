------------------------------ MODULE Sessions ------------------------------
(***************************************************************************)
(* Accounts, JWTs and refresh-token rows: what AuthService, AuthStateStore,*)
(* JwtStrategy, AdminGuard, AdminService and the admin seeder do to the    *)
(* tables users and auth_refresh_tokens.                                   *)
(*                                                                         *)
(* Every awaited query is one atomic step of a request (a slot); what the  *)
(* handler has read lives in the slot and may be stale when it is used.    *)
(* A statement or transaction that PostgreSQL isolates is one step.        *)
(* Passwords and one-time codes are checked in module Credentials: here a  *)
(* login or a reset simply may pass that check.                            *)
(***************************************************************************)
EXTENDS Naturals, FiniteSets

CONSTANTS
  Users,       \* account identities (users.phone is UNIQUE, rows are never removed)
  NoUser,      \* the absent account
  Jtis,        \* identifiers drawn by randomBytes(16); the pool bounds the tokens issued
  NoJti,       \* the absent identifier
  Slots,       \* requests in flight at the same time
  Inactive,    \* the values of users.status other than 'active'
  MaxVersion,  \* an administrative write starts only below this token_version
  Faults       \* whether a query may throw, ending its request

ASSUME UsersAssumption == NoUser \notin Users
ASSUME JtisAssumption == NoJti \notin Jtis
ASSUME InactiveAssumption == "active" \notin Inactive
ASSUME BoundAssumption == MaxVersion \in Nat /\ Faults \in BOOLEAN

VARIABLES
  user,     \* users: one row per account
  row,      \* auth_refresh_tokens: one row per jti
  payload,  \* the claims signed into the access and refresh JWT carrying this jti
  parent,   \* history: the jti whose refresh produced this one
  slot      \* requests in flight

vars == <<user, row, payload, parent, slot>>

Status == {"active"} \cup Inactive
\* dead: deleted, revoked or expired, which no query tells apart.
RowState == {"none", "live", "dead"}
PC == {"idle", "refreshRead", "generateTokens", "logout", "deleteMe",
       "adminGuard", "adminOp", "promote", "demote"}

Account == [exists: BOOLEAN, status: Status, admin: BOOLEAN, ver: Nat, deleted: BOOLEAN]
\* dead: revoked or expired, which every query refuses alike.
RefreshRow == [state: RowState, user: Users \cup {NoUser}]
Payload == [sub: Users \cup {NoUser}, admin: BOOLEAN, ver: Nat]
Request == [pc: PC, user: Users \cup {NoUser}, target: Users \cup {NoUser},
            admin: BOOLEAN, ver: Nat, jti: Jtis \cup {NoJti}]

Idle == [pc |-> "idle", user |-> NoUser, target |-> NoUser,
         admin |-> FALSE, ver |-> 0, jti |-> NoJti]

-----------------------------------------------------------------------------
(* Guards *)

Issued(j) == payload[j].sub # NoUser

\* WHERE ... AND deleted_at IS NULL
Visible(u) == user[u].exists /\ ~user[u].deleted

\* The query of login and of resetPassword, and their test on status.
Loginable(u) == Visible(u) /\ user[u].status = "active"

\* A bearer token passes JwtStrategy.validate. The status of the account is
\* not consulted, and expiry can only make fewer tokens pass.
validate(j) ==
  /\ Issued(j)
  /\ Visible(payload[j].sub)
  /\ user[payload[j].sub].ver = payload[j].ver

\* Mutant: any jti may be drawn, as if a rotation kept the jti it was given.
MutFreshJti(j) == TRUE

\* 128 random bits: never drawn before.
FreshJti(j) == ~Issued(j)

\* Bound: a request that will draw a jti starts only while one is left for it.
Room ==
  Cardinality({j \in Jtis : ~Issued(j)})
    > Cardinality({s \in Slots : slot[s].pc \in {"refreshRead", "generateTokens"}})

-----------------------------------------------------------------------------
(* What the statements write *)

\* Mutant: a status the column's CHECK does not allow.
MutRegistered == [exists |-> TRUE, status |-> "pending", admin |-> FALSE, ver |-> 0, deleted |-> FALSE]

Registered == [exists |-> TRUE, status |-> "active", admin |-> FALSE, ver |-> 0, deleted |-> FALSE]

\* Mutant: seeding rewrites the whole row, token_version included.
MutSeeded(r) == [Registered EXCEPT !.admin = TRUE, !.deleted = r.deleted]

\* seedAdminUser: the INSERT when there is no row, then the UPDATE, which
\* clears neither deleted_at nor bumps token_version.
Seeded(r) == IF r.exists THEN [r EXCEPT !.status = "active", !.admin = TRUE]
                         ELSE [Registered EXCEPT !.admin = TRUE]

Promoted(r) == IF r.deleted THEN r ELSE [r EXCEPT !.admin = TRUE, !.ver = @ + 1]

\* Mutant: the demotion forgets token_version.
MutDemoted(r) == IF r.deleted THEN r ELSE [r EXCEPT !.admin = FALSE]

Demoted(r) == IF r.deleted THEN r ELSE [r EXCEPT !.admin = FALSE, !.ver = @ + 1]

Deleted(r) == IF r.deleted THEN r ELSE [r EXCEPT !.deleted = TRUE, !.ver = @ + 1]

\* Mutant: the row is looked up but not removed.
MutConsume(j) == row

\* DELETE ... WHERE revoked_at IS NULL AND expires_at > NOW() RETURNING user_id
consumeRefreshTokenJti(j) == [row EXCEPT ![j].state = "dead"]

\* UPDATE ... SET revoked_at: nothing to update once the row is gone, and an
\* expired refresh JWT fails its verification before the query.
revokeRefreshTokenJti(j) ==
  [row EXCEPT ![j].state = IF @ = "live" THEN "dead" ELSE @]

\* generateTokens: both JWTs carry the same claims; saveRefreshTokenJti stores
\* the row. from is the jti whose refresh asked for them, for history only.
generateTokens(j, u, admin, ver, from) ==
  /\ FreshJti(j)
  /\ payload' = [payload EXCEPT ![j] = [sub |-> u, admin |-> admin, ver |-> ver]]
  /\ row' = [row EXCEPT ![j] = [state |-> "live", user |-> u]]
  /\ parent' = [parent EXCEPT ![j] = from]

Finish(s) == slot' = [slot EXCEPT ![s] = Idle]

-----------------------------------------------------------------------------
(* Authentication *)

\* verifyRegistrationOtp: one transaction inserts the account and its tokens.
verifyRegistrationOtp(u, j) ==
  /\ Room
  /\ ~user[u].exists
  /\ user' = [user EXCEPT ![u] = Registered]
  /\ generateTokens(j, u, FALSE, 0, NoJti)
  /\ UNCHANGED slot

\* login: SELECT, then the password comparison.
login(s, u) ==
  /\ slot[s].pc = "idle" /\ Room
  /\ Loginable(u)
  /\ slot' = [slot EXCEPT ![s] = [Idle EXCEPT
        !.pc = "generateTokens", !.user = u, !.admin = user[u].admin, !.ver = user[u].ver]]
  /\ UNCHANGED <<user, row, payload, parent>>

\* resetPassword after its code was accepted: a SELECT that takes no lock; the
\* UPDATE and the token rows follow and commit together in IssueTokens.
resetPassword(s, u) == login(s, u)

\* refresh: the row is consumed by one DELETE ... RETURNING.
refresh(s, j) ==
  /\ slot[s].pc = "idle" /\ Room
  /\ Issued(j) /\ row[j].state = "live"
  /\ row' = consumeRefreshTokenJti(j)
  /\ slot' = [slot EXCEPT ![s] = IF row[j].user = payload[j].sub
                                   THEN [Idle EXCEPT !.pc = "refreshRead", !.jti = j]
                                   ELSE Idle]
  /\ UNCHANGED <<user, payload, parent>>

\* Mutant: token_version is not compared.
MutRefreshable(p) == Visible(p.sub) /\ user[p.sub].status = "active"

Refreshable(p) ==
  Visible(p.sub) /\ user[p.sub].status = "active" /\ user[p.sub].ver = p.ver

\* Mutant: the row it has just removed is required to be still there.
MutRefreshRead(s) ==
  /\ slot[s].pc = "refreshRead" /\ row[slot[s].jti].state # "live"
  /\ Finish(s)
  /\ UNCHANGED <<user, row, payload, parent>>

\* refresh, second query: the account as it is now decides.
RefreshRead(s) ==
  LET p == payload[slot[s].jti] IN
  /\ slot[s].pc = "refreshRead"
  /\ slot' = [slot EXCEPT ![s] =
        IF Refreshable(p)
          THEN [@ EXCEPT !.pc = "generateTokens", !.user = p.sub,
                         !.admin = user[p.sub].admin, !.ver = user[p.sub].ver]
          ELSE Idle]
  /\ UNCHANGED <<user, row, payload, parent>>

\* The tail of login, resetPassword and refresh: tokens for what was read.
IssueTokens(s, j) ==
  /\ slot[s].pc = "generateTokens"
  /\ generateTokens(j, slot[s].user, slot[s].admin, slot[s].ver, slot[s].jti)
  /\ Finish(s)
  /\ UNCHANGED user

\* logout: any accepted access token k, and a refresh token j in the body.
logout(s, k, j) ==
  /\ slot[s].pc = "idle"
  /\ validate(k) /\ Issued(j)
  /\ slot' = [slot EXCEPT ![s] = [Idle EXCEPT !.pc = "logout", !.jti = j]]
  /\ UNCHANGED <<user, row, payload, parent>>

LogoutRevoke(s) ==
  /\ slot[s].pc = "logout"
  /\ row' = revokeRefreshTokenJti(slot[s].jti)
  /\ Finish(s)
  /\ UNCHANGED <<user, payload, parent>>

\* The refresh JWT and its row reach the end of jwtRefreshTtl.
Expire(j) ==
  /\ row[j].state = "live"
  /\ row' = [row EXCEPT ![j].state = "dead"]
  /\ UNCHANGED <<user, payload, parent, slot>>

-----------------------------------------------------------------------------
(* Account administration *)

\* JwtAuthGuard lets the request through to a handler or to AdminGuard.
Authenticated(s, j, pc) ==
  /\ slot[s].pc = "idle"
  /\ validate(j)
  /\ slot' = [slot EXCEPT ![s] = [Idle EXCEPT !.pc = pc, !.user = payload[j].sub]]
  /\ UNCHANGED <<user, row, payload, parent>>

\* AdminGuard.canActivate re-reads is_admin, whatever the token claims.
canActivate(s) ==
  /\ slot[s].pc = "adminGuard"
  /\ slot' = [slot EXCEPT ![s] = IF user[slot[s].user].admin
                                   THEN [@ EXCEPT !.pc = "adminOp"] ELSE Idle]
  /\ UNCHANGED <<user, row, payload, parent>>

Bounded(t) == user[t].ver < MaxVersion

\* promoteAdmin: the SELECT and its two early returns.
promoteAdmin(s, t) ==
  /\ slot[s].pc = "adminOp" /\ Bounded(t)
  /\ slot' = [slot EXCEPT ![s] = IF Visible(t) /\ ~user[t].admin
                                   THEN [@ EXCEPT !.pc = "promote", !.target = t] ELSE Idle]
  /\ UNCHANGED <<user, row, payload, parent>>

\* Mutant: the test on oneself is missing.
MutDemoteAdmin(s, t) ==
  /\ slot[s].pc = "adminOp" /\ Bounded(t)
  /\ slot' = [slot EXCEPT ![s] = IF Visible(t) /\ user[t].admin
                                   THEN [@ EXCEPT !.pc = "demote", !.target = t] ELSE Idle]
  /\ UNCHANGED <<user, row, payload, parent>>

\* demoteAdmin: nobody demotes himself.
demoteAdmin(s, t) ==
  /\ slot[s].pc = "adminOp" /\ Bounded(t)
  /\ slot' = [slot EXCEPT ![s] = IF slot[s].user # t /\ Visible(t) /\ user[t].admin
                                   THEN [@ EXCEPT !.pc = "demote", !.target = t] ELSE Idle]
  /\ UNCHANGED <<user, row, payload, parent>>

\* The UPDATE that follows, which does not repeat the test on is_admin.
RoleWrite(s) ==
  LET t == slot[s].target IN
  /\ \/ slot[s].pc = "promote" /\ user' = [user EXCEPT ![t] = Promoted(@)]
     \/ slot[s].pc = "demote"  /\ user' = [user EXCEPT ![t] = Demoted(@)]
  /\ Finish(s)
  /\ UNCHANGED <<row, payload, parent>>

\* updateUserStatus: one UPDATE, token_version untouched.
updateUserStatus(s, t, st) ==
  /\ slot[s].pc = "adminOp"
  /\ user' = IF Visible(t) THEN [user EXCEPT ![t].status = st] ELSE user
  /\ Finish(s)
  /\ UNCHANGED <<row, payload, parent>>

\* deleteUser and deleteMe: one UPDATE.
deleteUser(s, t) ==
  /\ \/ slot[s].pc = "adminOp" /\ Bounded(t)
     \/ slot[s].pc = "deleteMe" /\ slot[s].user = t
  /\ user' = IF user[t].exists THEN [user EXCEPT ![t] = Deleted(@)] ELSE user
  /\ Finish(s)
  /\ UNCHANGED <<row, payload, parent>>

\* npm run seed:admin, one transaction beside the running server.
seedAdminUser(u) ==
  /\ user' = [user EXCEPT ![u] = Seeded(@)]
  /\ UNCHANGED <<row, payload, parent, slot>>

\* A query throws, or the process stops, between two steps of a request.
Abort(s) ==
  /\ Faults /\ slot[s].pc # "idle"
  /\ Finish(s)
  /\ UNCHANGED <<user, row, payload, parent>>

-----------------------------------------------------------------------------
Init ==
  /\ user = [u \in Users |-> [exists |-> FALSE, status |-> "active", admin |-> FALSE,
                              ver |-> 0, deleted |-> FALSE]]
  /\ row = [j \in Jtis |-> [state |-> "none", user |-> NoUser]]
  /\ payload = [j \in Jtis |-> [sub |-> NoUser, admin |-> FALSE, ver |-> 0]]
  /\ parent = [j \in Jtis |-> NoJti]
  /\ slot = [s \in Slots |-> Idle]

\* The steps of a request that is under way.
Progress(s) ==
  \/ RefreshRead(s)
  \/ \E j \in Jtis : IssueTokens(s, j)
  \/ LogoutRevoke(s)
  \/ canActivate(s)
  \/ RoleWrite(s)
  \/ slot[s].pc = "deleteMe" /\ deleteUser(s, slot[s].user)

AdminOp(s) ==
  \E t \in Users :
    \/ promoteAdmin(s, t)
    \/ demoteAdmin(s, t)
    \/ deleteUser(s, t)
    \/ \E st \in Status : updateUserStatus(s, t, st)

Arrive(s) ==
  \/ \E u \in Users : login(s, u) \/ resetPassword(s, u)
  \/ \E j \in Jtis : refresh(s, j)
  \/ \E j, k \in Jtis : logout(s, k, j)
  \/ \E j \in Jtis, pc \in {"adminGuard", "deleteMe"} : Authenticated(s, j, pc)

Next ==
  \/ \E s \in Slots : Progress(s) \/ AdminOp(s) \/ Arrive(s) \/ Abort(s)
  \/ \E u \in Users, j \in Jtis : verifyRegistrationOtp(u, j)
  \/ \E j \in Jtis : Expire(j)
  \/ \E u \in Users : seedAdminUser(u)

Spec == Init /\ [][Next]_vars

\* The event loop runs every request to its end when no query throws; users
\* and administrators owe the server nothing.
Fairness == \A s \in Slots : WF_vars(Progress(s)) /\ WF_vars(AdminOp(s))

FairSpec == Spec /\ Fairness

-----------------------------------------------------------------------------
(* The promise: a refresh token is good for one refresh *)

Buying(s) == slot[s].pc \in {"refreshRead", "generateTokens"} /\ slot[s].jti # NoJti

Abstract == INSTANCE RefreshTokens WITH
  Tokens <- Jtis, None <- NoJti,
  issued <- {j \in Jtis : Issued(j)},
  live <- {j \in Jtis : row[j].state = "live"},
  owed <- {slot[s].jti : s \in {r \in Slots : Buying(r)}},
  heir <- parent

-----------------------------------------------------------------------------
(* Properties *)

\* Every table, token and request has its shape.
TypeOK ==
  /\ user \in [Users -> Account]
  /\ row \in [Jtis -> RefreshRow]
  /\ payload \in [Jtis -> Payload]
  /\ parent \in [Jtis -> Jtis \cup {NoJti}]
  /\ slot \in [Slots -> Request]

\* A token that JwtStrategy accepts claims isAdmin only for an account that is
\* an admin now: FilesService trusts the claim without reading the row. The
\* claim may have been read long before the token was signed.
ClaimNeverExceedsRole ==
  \A j \in Jtis : validate(j) /\ payload[j].admin => user[payload[j].sub].admin

\* A refresh token buys at most one successor: rotation, retries and logout
\* racing on one jti never give two, and what bought a successor is gone.
SpentOnce ==
  \A p \in Jtis :
    LET children == {j \in Jtis : parent[j] = p}
        buying == {s \in Slots : slot[s].pc \in {"refreshRead", "generateTokens"}
                                 /\ slot[s].jti = p}
    IN  /\ \A j, k \in children : j = k
        /\ \A s, t \in buying : s = t
        /\ children = {} \/ buying = {}
        /\ children # {} \/ buying # {} => row[p].state = "dead"

\* A chain of refreshes stays with one account and one token_version: after a
\* promotion, demotion or deletion no earlier refresh token leads to a token
\* of the new version.
RotationKeepsSession ==
  \A j \in Jtis : parent[j] # NoJti =>
    /\ payload[j].sub = payload[parent[j]].sub
    /\ payload[j].ver = payload[parent[j]].ver

\* 'Token is stale' is for ever: no later promotion, demotion, re-seeding or
\* late write makes a rejected token acceptable again.
StaleForever ==
  [][\A j \in Jtis : Issued(j) /\ ~validate(j) => ~validate(j)']_vars

\* A consumed, revoked or expired row never becomes usable again.
DeadRowsStayDead ==
  [][\A j \in Jtis : row[j].state = "dead"
                       => row'[j].state # "live"]_vars

\* refresh, consumeRefreshTokenJti and generateTokens, a query at a time and in
\* any interleaving, do what RefreshTokens says in single steps: a token
\* leaves the live ones before its successor exists, and has one at most.
OneShotTokens == Abstract!Spec

Admins == {u \in Users : Visible(u) /\ user[u].admin}

\* demoteAdmin keeps nobody but the actor from being demoted, and does not look
\* again before its UPDATE. A demotion leaves the system without an admin only
\* when the one who asked for it has lost the role since AdminGuard read it.
LastAdminByRace ==
  [][\A s \in Slots :
       slot[s].pc = "demote" /\ slot'[s] # slot[s] /\ Admins # {} /\ Admins' = {}
         => slot[s].user \notin Admins]_vars

\* When no query fails, a refresh that has spent its token ends in a new one,
\* unless the account was inactive, deleted or at another token_version.
RotationCompletes ==
  \A p \in Jtis :
    (\E s \in Slots : slot[s].pc = "refreshRead" /\ slot[s].jti = p) ~>
      \/ \E j \in Jtis : parent[j] = p
      \/ Issued(p) /\ ~Refreshable(payload[p])
=============================================================================
