--------------------------- MODULE MCSubscription ---------------------------
(***************************************************************************)
(* Subscription on small instances: one or two references, whose plans     *)
(* differ, two or three webhook deliveries and up to three uploads.        *)
(***************************************************************************)
EXTENDS Subscription, TLC

CONSTANTS First, Small, Large

\* The first reference buys the small plan and the second the large one.
MCQuota == [r \in Refs |-> IF r = First THEN Small ELSE Large]

\* Goroutines and uploads are interchangeable.
Symmetry == Permutations(Deliveries) \cup Permutations(Requests)
=============================================================================
