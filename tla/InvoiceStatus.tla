---------------------------- MODULE InvoiceStatus ----------------------------
(***************************************************************************)
(* The stages of an invoice record and what the handlers read off them     *)
(* (src/internal/data/entities/invoice.go): the upload of one invoice and  *)
(* the workers of a bulk upload go by the same rules.  A record has the    *)
(* stage tried last in cur and the outcome of each stage in hist.          *)
(***************************************************************************)
EXTENDS Integers

\* CurrentStatus: the position of the last stage tried, from signed_irn on.
SignedIRN == 0
Validated == 1
Signed == 2
Transmitted == 3
Confirmed == 4
Stages == 1..4

Pending == [s \in Stages |-> "pending"]

\* Mutants: only a confirmed invoice is settled, or a signed one is not.
Blocked_Confirmed(row) == row.cur = Confirmed
Blocked_NotSigned(row) == row.cur \in {Transmitted, Confirmed}

\* HasFailedStatus looks at the signing entry alone.
HasFailedStatus(row) == row.hist[Signed] = "failed"

\* The status from which a record may not be overwritten.
Blocked(row) ==
  /\ row.cur \in {Signed, Transmitted, Confirmed}
  /\ ~(row.cur = Signed /\ HasFailedStatus(row))

\* Mutants: resuming with the stage last tried, or with the one after signing.
ResumeAt_Current(row) == row.cur
ResumeAt_Transmit(row) == IF row.cur = Signed THEN Transmitted ELSE Validated

\* The stage at which UncompletedFirsProcesses resumes a record.  The gate lets
\* no other status through, so its answers to the others are not needed: a
\* signed record is done, and a status the code does not know is an error.
ResumeAt(row) == IF row.cur = Signed THEN Signed ELSE Validated

\* Mutant: the caller of an invoice that failed to sign is told it is signed.
AnswersSigned_Tried(stage) == stage >= Signed

\* What a caller is told when the pipeline ends at a stage: after the signing
\* every end counts as a signed invoice.
AnswersSigned(stage) == stage > Signed
=============================================================================
