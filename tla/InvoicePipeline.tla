--------------------------- MODULE InvoicePipeline ---------------------------
(***************************************************************************)
(* One invoice number of one business: the requests that upload, prepare   *)
(* or modify it, the pipeline of FIRS calls they run, the payment updates  *)
(* and deletions beside them (src/internal/app/invoice,                    *)
(* src/internal/data/repositories/invoice.go).                             *)
(*                                                                         *)
(* A request holds a copy of the record, sends one FIRS call at a time and *)
(* saves the whole copy after each answer; nothing is locked between.  An  *)
(* IRN is the invoice number, the service and the date, so here it is the  *)
(* day it was generated.  A payload may declare the status of its payment, *)
(* and a missing one counts as pending.                                    *)
(***************************************************************************)
EXTENDS InvoiceStatus, FiniteSets

CONSTANTS
  Ops,        \* requests, each one upload, preparation or modification
  Payments,   \* requests that update a payment status
  RowIds,     \* ids a new record may get; a look-up finds the smallest
  MaxDay,     \* bound on the days
  Supplied,   \* IRNs that payloads may bring along
  Declared    \* payment statuses that payloads may declare

ASSUME RowIdsAssumption == RowIds \subseteq Nat \ {0}
ASSUME MaxDayAssumption == MaxDay \in Nat

IRNs == 0..MaxDay
ASSUME SuppliedAssumption == Supplied \subseteq IRNs
PayStatus == {"PENDING", "PAID", "REJECTED", "PARTIAL"}
ASSUME DeclaredAssumption == Declared \subseteq PayStatus \ {"PARTIAL"}

\* irn and pay are columns; the stored payload is here the IRN in it, data, and
\* the payment status in it, said.
Record == [live: BOOLEAN, cur: {SignedIRN} \cup Stages,
           hist: [Stages -> {"pending", "success", "failed"}],
           irn: IRNs, data: IRNs, pay: PayStatus, said: PayStatus, created: IRNs]

VARIABLES
  rows,       \* the records ever inserted for the invoice number
  used,       \* the ids they have
  day,        \* the current day
  done,       \* done[s]: IRNs for which FIRS performed stage s
  firsPay,    \* payment status FIRS holds for each IRN, none before it has one
  op,         \* the requests
  payment,    \* the payment updates
  resigned,   \* history: IRNs submitted for signing after FIRS had signed them
  mishaps     \* history: what happened besides one upload after another

vars == <<rows, used, day, done, firsPay, op, payment, resigned, mishaps>>

NoRecord == [live |-> FALSE, cur |-> SignedIRN, hist |-> Pending, irn |-> 0,
             data |-> 0, pay |-> "PENDING", said |-> "PENDING", created |-> 0]

Kinds == {"upload", "prepare", "modify"}
Op == [kind: Kinds,
       pc: {"new", "deprecate", "write", "call", "record", "done", "dead"},
       id: RowIds \cup {0}, copy: Record, irn: IRNs, stage: Stages,
       ok: BOOLEAN, answer: {"none", "previous", "prepared", "signed", "error"}]
Payment == [pc: {"new", "sent", "store", "done"}, irn: IRNs,
            status: PayStatus, id: RowIds \cup {0}, data: IRNs]
Mishaps == {"overlap", "crossed", "crash", "unanswered", "unsaved", "deprecated",
            "modified", "deleted", "prepared", "orphan", "restated"}

TypeOK ==
  /\ rows \in [RowIds -> Record]
  /\ used \subseteq RowIds
  /\ day \in IRNs
  /\ done \in [Stages -> SUBSET IRNs]
  /\ firsPay \in [IRNs -> PayStatus \cup {"none"}]
  /\ op \in [Ops -> Op]
  /\ payment \in [Payments -> Payment]
  /\ resigned \subseteq IRNs
  /\ mishaps \subseteq Mishaps

Init ==
  /\ rows = [i \in RowIds |-> NoRecord]
  /\ used = {}
  /\ day = 0
  /\ done = [s \in Stages |-> {}]
  /\ firsPay = [i \in IRNs |-> "none"]
  /\ op = [u \in Ops |-> [kind |-> "upload", pc |-> "new", id |-> 0,
                          copy |-> NoRecord, irn |-> 0, stage |-> Validated,
                          ok |-> FALSE, answer |-> "none"]]
  /\ payment = [p \in Payments |-> [pc |-> "new", irn |-> 0,
                                    status |-> "PENDING", id |-> 0, data |-> 0]]
  /\ resigned = {}
  /\ mishaps = {}

Live == {i \in used : rows[i].live}
Active(u) == op[u].pc \notin {"new", "done", "dead"}
Paying(p) == payment[p].pc \in {"sent", "store"}

\* The record with the payload of a request.
Carry(row, irn, status) == [row EXCEPT !.data = irn, !.said = status]

\* InitNewInvoiceStatus: everything up to the IRN is done.
Fresh(row, irn, status) ==
  [Carry(row, irn, status) EXCEPT !.cur = SignedIRN, !.hist = Pending]

\* gorm Save of a whole row.  When the row was soft-deleted meanwhile the
\* update matches nothing and the insert that follows brings it back.
Save(i, row) == rows' = [rows EXCEPT ![i] = [row EXCEPT !.live = TRUE]]

Note(kind, test) == mishaps' = IF test THEN mishaps \cup {kind} ELSE mishaps

\* A request starts while another holds a copy or a payment is under way.
NoteStart ==
  mishaps' = mishaps \cup {k \in {"overlap", "crossed"} :
                            \/ k = "overlap" /\ \E v \in Ops : Active(v)
                            \/ k = "crossed" /\ \E p \in Payments : Paying(p)}

-----------------------------------------------------------------------------
(* UploadInvoice, SystemIntegrator and ModifyInvoice up to the record *)

\* Mutant: the record there is goes unnoticed.
FindByNumber_Blind == 0

\* FindInvoiceByNumberAndBusinessID: the first record of the number, 0 for none.
FindByNumber ==
  IF Live = {} THEN 0 ELSE CHOOSE i \in Live : \A j \in Live : i <= j

\* The record is looked up by its number; the gate answers what is settled.
Load(u, kind) ==
  /\ op[u].pc = "new"
  /\ LET i == FindByNumber
         row == IF i = 0 THEN NoRecord ELSE rows[i]
         to(pc, answer) ==
           op' = [op EXCEPT ![u] = [@ EXCEPT !.kind = kind, !.pc = pc, !.id = i,
                                             !.copy = row, !.answer = answer]]
     IN \/ kind # "modify" /\ ~Blocked(row) /\ to("write", "none")
        \/ kind # "modify" /\ Blocked(row) /\ to("done", "previous")
        \/ kind = "modify" /\ i = 0 /\ to("done", "error")
        \/ kind = "modify" /\ i # 0 /\ ~Blocked(row) /\ to("write", "none")
        \/ kind = "modify" /\ Blocked(row) /\ row.created = day /\ to("done", "error")
        \/ kind = "modify" /\ Blocked(row) /\ row.created # day /\ to("deprecate", "none")
  /\ NoteStart
  /\ UNCHANGED <<rows, used, day, done, firsPay, payment, resigned>>

\* DeprecateInvoiceOnNRS: the old IRN is rejected on FIRS, or the request ends.
Deprecate(u) ==
  /\ op[u].pc = "deprecate"
  /\ \/ /\ firsPay' = [firsPay EXCEPT ![op[u].copy.irn] = "REJECTED"]
        /\ op' = [op EXCEPT ![u].pc = "write"]
     \/ /\ \E s \in {"REJECTED", firsPay[op[u].copy.irn]} :
             firsPay' = [firsPay EXCEPT ![op[u].copy.irn] = s]
        /\ op' = [op EXCEPT ![u].pc = "done", ![u].answer = "error"]
  /\ mishaps' = mishaps \cup {"deprecated"}
  /\ UNCHANGED <<rows, used, day, done, payment, resigned>>

\* IRN generation or the first write fails: the request ends with an error.
Refuse(u) ==
  /\ op[u].pc = "write"
  /\ op' = [op EXCEPT ![u].pc = "done", ![u].answer = "error"]
  /\ UNCHANGED <<rows, used, day, done, firsPay, payment, resigned, mishaps>>

\* The IRN of the payload: that of the day, unless it brings one along, which
\* a modification does not heed.
PayloadIRN(u) == {day} \cup IF op[u].kind = "modify" THEN {} ELSE Supplied

\* What a written record leaves the request to do.
Proceed(u, i, row, stage) ==
  op' = [op EXCEPT ![u] = [@ EXCEPT
           !.id = i, !.copy = [row EXCEPT !.live = TRUE], !.irn = row.data, !.stage = stage,
           !.pc = IF op[u].kind = "prepare" THEN "done" ELSE "call",
           !.answer = IF op[u].kind = "prepare" THEN "prepared" ELSE "none"]]

\* A new record under an id no record has (CreateInvoice of a uuid).  Its
\* payment status is the one the payload declares.
Insert(u) ==
  /\ op[u].pc = "write" /\ op[u].id = 0
  /\ \E i \in RowIds \ used, irn \in PayloadIRN(u), status \in Declared :
       LET row == [Fresh(NoRecord, irn, status) EXCEPT !.irn = irn, !.created = day,
                                                       !.pay = status]
       IN /\ Save(i, row)
          /\ used' = used \cup {i}
          /\ Proceed(u, i, row, Validated)
  /\ Note("prepared", op[u].kind = "prepare")
  /\ UNCHANGED <<day, done, firsPay, payment, resigned>>

\* CreateInvoice for an existing record: a new payload, but the status, IRN and
\* payment status it had, even when the payload declares another one.
Overwrite(u) ==
  /\ op[u].pc = "write" /\ op[u].id # 0 /\ op[u].kind = "upload"
  /\ \E irn \in PayloadIRN(u), status \in Declared :
       LET row == Carry(op[u].copy, irn, status)
       IN /\ Save(op[u].id, row)
          /\ Proceed(u, op[u].id, row, ResumeAt(row))
          /\ Note("restated", status # row.pay)
  /\ UNCHANGED <<used, day, done, firsPay, payment, resigned>>

\* ReplaceInvoiceRecord, and the overwriting branch of SystemIntegratorInvoice:
\* a fresh status and IRN under the id, creation day and payment status it had.
Replace(u) ==
  /\ op[u].pc = "write" /\ op[u].id # 0 /\ op[u].kind # "upload"
  /\ \E irn \in PayloadIRN(u), status \in Declared :
       LET row == [Fresh(op[u].copy, irn, status) EXCEPT !.irn = irn]
       IN /\ Save(op[u].id, row)
          /\ Proceed(u, op[u].id, row, Validated)
          /\ mishaps' = mishaps
               \cup {IF op[u].kind = "modify" THEN "modified" ELSE "prepared"}
               \cup {k \in {"restated"} : status # row.pay}
  /\ UNCHANGED <<used, day, done, firsPay, payment, resigned>>

-----------------------------------------------------------------------------
(* FirsAllInOneProcess and UncompletedFirsProcesses *)

\* The payment status FIRS holds once it has signed a payload: the one declared
\* there, unless it signed the IRN before and keeps the one it has.
SignedPay(u) ==
  {op[u].copy.said} \cup {firsPay[i] : i \in {op[u].irn} \cap done[Signed]}

\* One call to FIRS.  It may perform the stage and answer so, refuse it, or
\* perform it while the answer is lost on the way.
Call(u) ==
  LET s == op[u].stage
      irn == op[u].irn
  IN /\ op[u].pc = "call"
     /\ \E performed, ok \in BOOLEAN :
          /\ ok => performed
          /\ done' = [done EXCEPT ![s] = IF performed THEN @ \cup {irn} ELSE @]
          /\ IF performed /\ s = Signed
             THEN \E status \in SignedPay(u) : firsPay' = [firsPay EXCEPT ![irn] = status]
             ELSE UNCHANGED firsPay
          /\ op' = [op EXCEPT ![u].pc = "record", ![u].ok = ok]
          /\ Note("unanswered", performed /\ ~ok)
     /\ resigned' = IF s = Signed /\ irn \in done[Signed]
                    THEN resigned \cup {irn} ELSE resigned
     /\ UNCHANGED <<rows, used, day, payment>>

\* Mutant: a refusal is recorded like a success.
Recorded_Success(u) ==
  [op[u].copy EXCEPT !.cur = op[u].stage, !.hist[op[u].stage] = "success"]

\* The copy with the status of the stage.
Recorded(u) ==
  [op[u].copy EXCEPT !.cur = op[u].stage,
                     !.hist[op[u].stage] = IF op[u].ok THEN "success" ELSE "failed"]

\* UpdateInvoiceStatus of the copy, saved whole; the error of the save is
\* dropped.  A failure ends the request, a success goes to the next stage.
RecordAnswer(u) ==
  LET s == op[u].stage
      more == op[u].ok /\ s # Confirmed
  IN /\ op[u].pc = "record"
     /\ \E saved \in BOOLEAN :
          /\ IF saved THEN Save(op[u].id, Recorded(u)) ELSE UNCHANGED rows
          /\ Note("unsaved", ~saved)
     /\ op' = [op EXCEPT ![u] = [@ EXCEPT
                 !.copy = Recorded(u),
                 !.pc = IF more THEN "call" ELSE "done",
                 !.stage = IF more THEN s + 1 ELSE s,
                 !.answer = IF more THEN "none" ELSE IF AnswersSigned(s) THEN "signed" ELSE "error"]]
     /\ UNCHANGED <<used, day, done, firsPay, payment, resigned>>

\* The process restarts: the request is gone, its writes and calls stay.
Crash(u) ==
  /\ Active(u)
  /\ op' = [op EXCEPT ![u].pc = "dead"]
  /\ mishaps' = mishaps \cup {"crash"}
  /\ UNCHANGED <<rows, used, day, done, firsPay, payment, resigned>>

-----------------------------------------------------------------------------
(* UpdateInvoice: a payment status, first on FIRS and then in the record *)

\* GetInvoiceByIRN answers no error for a record it does not find, so the
\* handler goes on for every IRN.
SendPayment(p, irn, status) ==
  /\ payment[p].pc = "new"
  /\ \E performed, ok \in BOOLEAN :
       /\ ok => performed
       /\ firsPay' = IF performed THEN [firsPay EXCEPT ![irn] = status] ELSE firsPay
       /\ payment' = [payment EXCEPT ![p] = [@ EXCEPT !.pc = IF ok THEN "sent" ELSE "done",
                                                      !.irn = irn, !.status = status]]
       /\ mishaps' = mishaps \cup {k \in {"crossed", "orphan", "unanswered"} :
            \/ k = "crossed" /\ ((\E u \in Ops : Active(u)) \/ \E q \in Payments : Paying(q))
            \/ k = "orphan" /\ \A i \in Live : rows[i].irn # irn
            \/ k = "unanswered" /\ performed /\ ~ok}
  /\ UNCHANGED <<rows, used, day, done, op, resigned>>

\* UpdateStoredInvoicePaymentStatus reads the record of the IRN ...
FindPaid(p) ==
  LET found == {i \in Live : rows[i].irn = payment[p].irn}
  IN /\ payment[p].pc = "sent"
     /\ \/ /\ found = {}
           /\ payment' = [payment EXCEPT ![p].pc = "done"]
        \/ \E i \in found :
             /\ \A j \in found : i <= j
             /\ payment' = [payment EXCEPT ![p] = [@ EXCEPT !.pc = "store", !.id = i,
                                                            !.data = rows[i].data]]
     /\ UNCHANGED <<rows, used, day, done, firsPay, op, resigned, mishaps>>

\* Mutant: the payload is stored and the payment status column forgotten.
WithPayment_Payload(row, p) == Carry(row, payment[p].data, payment[p].status)

WithPayment(row, p) ==
  [Carry(row, payment[p].data, payment[p].status) EXCEPT !.pay = payment[p].status]

\* ... and updates its payload and payment status, if it is still there.
StorePayment(p) ==
  LET i == payment[p].id
  IN /\ payment[p].pc = "store"
     /\ \E saved \in BOOLEAN :
          /\ rows' = IF saved /\ rows[i].live
                     THEN [rows EXCEPT ![i] = WithPayment(rows[i], p)]
                     ELSE rows
          /\ Note("unsaved", ~saved)
     /\ payment' = [payment EXCEPT ![p].pc = "done"]
     /\ UNCHANGED <<used, day, done, firsPay, op, resigned>>

\* DeleteInvoice soft-deletes a record whatever its status.
Delete(i) ==
  /\ i \in Live
  /\ rows' = [rows EXCEPT ![i].live = FALSE]
  /\ mishaps' = mishaps \cup {"deleted"}
  /\ UNCHANGED <<used, day, done, firsPay, op, payment, resigned>>

Tick ==
  /\ day < MaxDay
  /\ day' = day + 1
  /\ UNCHANGED <<rows, used, done, firsPay, op, payment, resigned, mishaps>>

-----------------------------------------------------------------------------
OpStep(u) ==
  \/ \E kind \in Kinds : Load(u, kind)
  \/ Deprecate(u) \/ Refuse(u) \/ Insert(u) \/ Overwrite(u) \/ Replace(u)
  \/ Call(u) \/ RecordAnswer(u) \/ Crash(u)

PaymentStep(p) ==
  \/ \E irn \in IRNs, status \in PayStatus : SendPayment(p, irn, status)
  \/ FindPaid(p) \/ StorePayment(p)

Next ==
  \/ \E u \in Ops : OpStep(u)
  \/ \E p \in Payments : PaymentStep(p)
  \/ \E i \in RowIds : Delete(i)
  \/ Tick

Spec == Init /\ [][Next]_vars

-----------------------------------------------------------------------------
(* Properties *)

\* Whatever the records say, FIRS is asked to transmit only what it signed and
\* to confirm only what it transmitted (the order of the calls in
\* FirsAllInOneProcess and of the resumptions in UncompletedFirsProcesses).
Firs == INSTANCE FirsLifecycle WITH
          signed <- done[Signed], transmitted <- done[Transmitted],
          confirmed <- done[Confirmed]
FirsOrder == Firs!Spec

\* A record comes to say that an invoice is signed, transmitted or confirmed
\* only if FIRS did that for the IRN of the payload saved with it, even when
\* copies of several requests overwrite each other (UpdateInvoiceStatus).
SuccessWasPerformed ==
  [][\A i \in RowIds, s \in {Signed, Transmitted, Confirmed} :
       rows'[i].hist[s] = "success" /\ rows[i].hist[s] # "success"
         => rows'[i].data \in done'[s]]_vars

\* A caller told that its invoice is signed holds an IRN that FIRS signed.
ClaimedIsSigned ==
  \A u \in Ops : op[u].answer = "signed" => op[u].irn \in done[Signed]

\* Uploads one after another keep one record per invoice number: only requests
\* that overlap can pass the check for an existing record together.
OneRecord == "overlap" \notin mishaps => Cardinality(Live) <= 1

\* An IRN that FIRS signed is not submitted for signing again by plain uploads:
\* it takes an overlap, a crash, a lost answer, a lost save, or a request that
\* resets the record (the gate on CurrentStatus and HasFailedStatus).
SignedOnce == mishaps = {} => resigned = {}

PaymentMishaps == {"overlap", "crossed", "orphan", "unanswered", "unsaved",
                   "deprecated", "modified", "deleted", "prepared", "restated"}

\* When FIRS holds a payment status for the IRN of a record and no payment
\* update is under way, column and stored payload both show that status,
\* whichever of signing and updating told FIRS last.  It takes an update that
\* crossed another request or had no record, a lost answer or save, a
\* modification, preparation or deletion, or an upload over a record with
\* another status than its column, which CreateInvoice leaves alone
\* (CreateInvoice, UpdateInvoice, UpdateStoredInvoicePaymentStatus).
PaymentAgrees ==
  /\ mishaps \cap PaymentMishaps = {}
  /\ \A p \in Payments : ~Paying(p)
  => \A i \in Live :
       firsPay[rows[i].irn] # "none"
         => rows[i].pay = firsPay[rows[i].irn] /\ rows[i].said = rows[i].pay

\* A record that says its invoice is signed keeps saying so, except when a
\* modification resets it or a request that overlapped saves an older copy.
SignedStays ==
  [][\A i \in RowIds :
       /\ rows[i].hist[Signed] = "success" /\ rows[i].live
       /\ rows'[i].hist[Signed] # "success"
       => mishaps' \cap {"overlap", "modified"} # {}]_vars
=============================================================================
