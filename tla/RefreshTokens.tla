--------------------------- MODULE RefreshTokens ---------------------------
(***************************************************************************)
(* What rotating refresh tokens promise: a token is issued once and is     *)
(* good for one refresh; that refresh yields at most one successor.        *)
(* Sessions implements this with rows, requests and separate queries.      *)
(***************************************************************************)
CONSTANTS Tokens,   \* the identifiers a token can have
          None      \* no token

VARIABLES issued,   \* tokens handed out so far
          live,     \* tokens a refresh would accept
          owed,     \* spent tokens whose refresh has not been answered
          heir      \* token -> the token it was obtained with, or None

state == <<issued, live, owed, heir>>

Init ==
  /\ issued = {} /\ live = {} /\ owed = {}
  /\ heir = [t \in Tokens |-> None]

\* A registration, login or password reset.
Issue(t) ==
  /\ t \notin issued
  /\ issued' = issued \cup {t} /\ live' = live \cup {t}
  /\ heir' = [heir EXCEPT ![t] = None]
  /\ UNCHANGED owed

\* A refresh takes the token away before anything else.
Spend(t) ==
  /\ t \in live
  /\ live' = live \ {t} /\ owed' = owed \cup {t}
  /\ UNCHANGED <<issued, heir>>

\* The refresh of p is answered with t.
Succeed(p, t) ==
  /\ p \in owed /\ t \notin issued
  /\ owed' = owed \ {p}
  /\ issued' = issued \cup {t} /\ live' = live \cup {t}
  /\ heir' = [heir EXCEPT ![t] = p]

\* The refresh of p is refused, or fails.
Forfeit(p) ==
  /\ p \in owed
  /\ owed' = owed \ {p}
  /\ UNCHANGED <<issued, live, heir>>

\* A logout, or the end of the token's life.
Lapse(t) ==
  /\ t \in live
  /\ live' = live \ {t}
  /\ UNCHANGED <<issued, owed, heir>>

Next ==
  \/ \E t \in Tokens : Issue(t) \/ Spend(t) \/ Forfeit(t) \/ Lapse(t)
  \/ \E p, t \in Tokens : Succeed(p, t)

Spec == Init /\ [][Next]_state
=============================================================================
