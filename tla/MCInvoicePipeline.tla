-------------------------- MODULE MCInvoicePipeline --------------------------
(***************************************************************************)
(* InvoicePipeline on small instances, and what the texts of the handlers  *)
(* say of modifications.                                                   *)
(***************************************************************************)
EXTENDS InvoicePipeline, TLC

\* Requests are interchangeable, and so are payment updates.
Symmetry == Permutations(Ops) \cup Permutations(Payments)

\* Histories are followed until a second kind of mishap is noted.
OneMishap == Cardinality(mishaps) <= 1

\* One request after another, none of which crashes, and nothing gets lost.
Sequential == mishaps \cap {"overlap", "crossed", "crash", "unanswered", "unsaved"} = {}
SequentialSpec == Init /\ [][Next /\ Sequential']_vars

\* An IRN that was rejected on FIRS is not submitted for signing again: "invoice
\* can only be modified on a different day from its creation", and the day is
\* all that makes the IRN of the new version a new one.
RejectedIsNotSigned ==
  [][\A u \in Ops :
       op[u].pc = "call" /\ op'[u].pc = "record" /\ op[u].stage = Signed
         => firsPay[op[u].irn] # "REJECTED"]_vars
=============================================================================
