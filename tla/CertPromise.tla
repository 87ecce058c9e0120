----------------------------- MODULE CertPromise -----------------------------
(***************************************************************************)
(* What cert-manager integration promises, without lists, loops or lookup: *)
(* every demand (a webhook with its service) is met by a certificate for   *)
(* the service and the service itself, both at once and in no particular   *)
(* order, and nothing is delivered while a demand is unmet.                *)
(***************************************************************************)
VARIABLES demands,    \* set of <<webhook, service>> pairs, fixed
          met,        \* the demands met so far
          certified,  \* services with a certificate
          served,     \* services that are part of the delivery
          outcome     \* "working", "delivered" or "aborted"

vars == <<demands, met, certified, served, outcome>>

Services(pairs) == {d[2] : d \in pairs}

Init ==
  /\ met = {}
  /\ certified = {}
  /\ served = {}
  /\ outcome = "working"

Meet(d) ==
  /\ outcome = "working"
  /\ met' = met \cup {d}
  /\ certified' = certified \cup {d[2]}
  /\ served' = served \cup {d[2]}
  /\ UNCHANGED <<demands, outcome>>

Deliver ==
  /\ outcome = "working"
  /\ met = demands
  /\ outcome' = "delivered"
  /\ UNCHANGED <<demands, met, certified, served>>

\* An aborted run delivers nothing.
Abort ==
  /\ outcome = "working"
  /\ outcome' = "aborted"
  /\ certified' = {}
  /\ served' = {}
  /\ UNCHANGED <<demands, met>>

Next == (\E d \in demands \ met : Meet(d)) \/ Deliver \/ Abort

Spec == Init /\ [][Next]_vars
=============================================================================
