--------------------------- MODULE DeliveryPromise ---------------------------
(***************************************************************************)
(* What a run of the program promises to whoever reads its output: a list  *)
(* of documents is planned before the first one is written, only documents *)
(* of the plan are written, front to back, and a run that does not say it  *)
(* failed has written all of them.                                         *)
(***************************************************************************)
EXTENDS Integers, Sequences

VARIABLES plan,      \* the list of documents to be written: none yet, or {list}
          written,   \* the generated documents the reader has got
          outcome    \* "working", "delivered", or "refused" when the run says it failed

vars == <<plan, written, outcome>>

Begins(s, t) == Len(s) =< Len(t) /\ \A i \in 1 .. Len(s) : s[i] = t[i]

Init ==
  /\ plan = {}
  /\ written = <<>>
  /\ outcome = "working"

Plan ==
  /\ outcome = "working"
  /\ plan = {}
  /\ \E list \in plan' : plan' = {list}
  /\ UNCHANGED <<written, outcome>>

Grows == Begins(written, written') /\ \E list \in plan : Begins(written', list)

Write ==
  /\ outcome = "working"
  /\ Grows
  /\ UNCHANGED <<plan, outcome>>

Deliver ==
  /\ outcome = "working"
  /\ outcome' = "delivered"
  /\ Grows
  /\ \E list \in plan : Len(written') = Len(list)
  /\ UNCHANGED plan

\* A refusal may come in the middle of the writing.
Refuse ==
  /\ outcome = "working"
  /\ outcome' = "refused"
  /\ UNCHANGED <<plan, written>>

Next == Plan \/ Write \/ Deliver \/ Refuse

Spec == Init /\ [][Next]_vars
=============================================================================
