--------------------------- MODULE MCZohoWebhook ---------------------------
(***************************************************************************)
(* The instance of ZohoWebhook that TLC checks.                            *)
(***************************************************************************)
EXTENDS ZohoWebhook, TLC

Symmetry == Permutations(Deliveries)

\* At most one kind of mishap in a behaviour.
OneMishap == Cardinality(mishaps) <= 1

\* Goroutines share nothing but what FIRS has done: a second one gets as far as
\* the conversion.
OneGoroutine ==
  Cardinality({d \in Deliveries :
    work[d].pc \in {"call", "record", "correct"} \/ work[d].stage # Validated}) <= 1
Bounds == OneMishap /\ OneGoroutine
=============================================================================
