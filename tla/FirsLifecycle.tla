---------------------------- MODULE FirsLifecycle ----------------------------
(***************************************************************************)
(* What the tax authority (FIRS) may rely on: the access point asks it to  *)
(* transmit only what it has signed, and to confirm only what it has       *)
(* transmitted.  An IRN never goes back a stage.  The access point is to   *)
(* implement this whatever its uploads, retries, crashes and modifications *)
(* do to its own records.                                                  *)
(***************************************************************************)
CONSTANT IRNs

VARIABLES
  signed,       \* IRNs FIRS has signed
  transmitted,  \* IRNs FIRS has transmitted
  confirmed     \* IRNs FIRS has confirmed

lifecycle == <<signed, transmitted, confirmed>>

Init == signed = {} /\ transmitted = {} /\ confirmed = {}

Sign(i) ==
  /\ signed' = signed \cup {i}
  /\ UNCHANGED <<transmitted, confirmed>>

Transmit(i) ==
  /\ i \in signed
  /\ transmitted' = transmitted \cup {i}
  /\ UNCHANGED <<signed, confirmed>>

Confirm(i) ==
  /\ i \in transmitted
  /\ confirmed' = confirmed \cup {i}
  /\ UNCHANGED <<signed, transmitted>>

Next == \E i \in IRNs : Sign(i) \/ Transmit(i) \/ Confirm(i)

Spec == Init /\ [][Next]_lifecycle
=============================================================================
