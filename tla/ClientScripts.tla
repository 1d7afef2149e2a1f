--------------------------- MODULE ClientScripts ---------------------------
(***************************************************************************)
(* The vocabulary the simulator and the dev seeder are written in.  Both   *)
(* are straight-line programs around one call each: a step is a request    *)
(* with the codes its author expects, what it keeps of the answer, and     *)
(* when it is skipped.  Names of kept rows are tuples of strings.          *)
(***************************************************************************)
EXTENDS Integers, Sequences, FiniteSets

DevCode == "000000"
NoVal == ""

\* by calls op; the answer is expected to be one of expect.
Call(by, op, expect) ==
  [by |-> by, op |-> op, expect |-> expect,
   on |-> "nobody",        \* the account in the path or the body
   row |-> <<>>,           \* the kept row in the path or the body, <<>> for none
   img |-> <<>>,           \* the kept row of an image
   val |-> NoVal,          \* the field of the body that matters
   save |-> {},            \* names the answer's row is kept under
   find |-> {},            \* <<name, key>>: rows looked up in a listing
   needs |-> {},           \* skipped unless these are kept
   lacks |-> {},           \* skipped if one of these is kept
   changes |-> FALSE,      \* skipped if the kept row has status val already
   fatal |-> FALSE,        \* an unexpected answer ends the program
   forgive |-> {},         \* unexpected codes that are caught
   retry |-> FALSE,        \* the client's retry loop is around the call
   socket |-> FALSE]       \* an event on the chat socket

Anyone(op, expect) == Call("nobody", op, expect)
\* Needs, Keep and the like refine a step.
On(step, person) == [step EXCEPT !.on = person]
At(step, name) == [step EXCEPT !.row = name, !.needs = @ \cup {name}]
Offer(step, name) == [step EXCEPT !.row = name]      \* without a row when it is not kept
Picture(step, name) == [step EXCEPT !.img = name]
Val(step, val) == [step EXCEPT !.val = val]
Keep(step, name) == [step EXCEPT !.save = @ \cup {name}]
Needs(step, name) == [step EXCEPT !.needs = @ \cup {name}]
Lacks(step, name) == [step EXCEPT !.lacks = @ \cup {name}]
Find(step, pairs) == [step EXCEPT !.find = pairs]
Changes(step) == [step EXCEPT !.changes = TRUE]
Critical(step) == [step EXCEPT !.fatal = TRUE]
Forgive(step, codes) == [step EXCEPT !.forgive = codes]
Event(step) == [step EXCEPT !.socket = TRUE, !.retry = FALSE]

\* A check of the program itself: it ends unless one of the names is kept.
Require(names) == [Anyone("require", {}) EXCEPT !.save = names]

AllCodes == {0, 200, 201, 400, 401, 403, 404, 409, 429}
=============================================================================
