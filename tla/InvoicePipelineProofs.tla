------------------------ MODULE InvoicePipelineProofs ------------------------
(***************************************************************************)
(* Proofs about InvoicePipeline, for any number of requests, payment       *)
(* updates, records and days.                                              *)
(***************************************************************************)
EXTENDS InvoicePipeline, WellFoundedInduction, FiniteSetTheorems, TLAPS

-----------------------------------------------------------------------------
(* Types *)

\* What is found by the invoice number is a live record, and 0 means none.
LEMMA FoundRecord ==
  ASSUME TypeOK
  PROVE  /\ FindByNumber \in RowIds \cup {0}
         /\ FindByNumber = 0 => Live = {}
         /\ FindByNumber # 0 => FindByNumber \in Live /\ Live \subseteq RowIds
<1>1. Live \subseteq RowIds /\ Live \subseteq Nat /\ 0 \notin Live
  BY RowIdsAssumption DEF TypeOK, Live
<1>2. CASE Live = {}
  BY <1>2 DEF FindByNumber
<1>3. CASE Live # {}
  <2>1. PICK m \in Live : \A j \in Live : ~(<<j, m>> \in OpToRel(<, Nat))
    BY <1>1, <1>3, NatLessThanWellFounded, WFMin
  <2>2. ASSUME NEW j \in Live
        PROVE  m <= j
    <3>1. <<j, m>> \in Nat \X Nat /\ <<j, m>>[1] = j /\ <<j, m>>[2] = m
      BY <1>1
    <3>2. ~(j < m)
      BY <2>1, <3>1, Zenon DEF OpToRel
    <3> QED
      BY <1>1, <3>2
  <2>3. FindByNumber = CHOOSE i \in Live : \A j \in Live : i <= j
    BY <1>3 DEF FindByNumber
  <2>4. FindByNumber \in Live
    BY <2>2, <2>3
  <2> QED
    BY <1>1, <2>4
<1> QED
  BY <1>2, <1>3

\* The records the handlers build are records; a new payload leaves the columns
\* alone, and a fresh status has nothing done.
LEMMA RecordTypes ==
  /\ NoRecord \in Record /\ NoRecord.pay \in PayStatus
  /\ \A row \in Record : [row EXCEPT !.live = TRUE] \in Record
  /\ \A row \in Record, irn \in IRNs, status \in PayStatus :
       /\ Carry(row, irn, status) \in Record
       /\ Carry(row, irn, status).hist = row.hist /\ Carry(row, irn, status).cur = row.cur
       /\ Carry(row, irn, status).pay = row.pay /\ Carry(row, irn, status).irn = row.irn
       /\ Carry(row, irn, status).live = row.live /\ Carry(row, irn, status).data = irn
       /\ Carry(row, irn, status).said = status
       /\ Fresh(row, irn, status) \in Record
       /\ Fresh(row, irn, status).hist = Pending
       /\ Fresh(row, irn, status).pay = row.pay
       /\ Fresh(row, irn, status).said = status
  /\ Declared \subseteq PayStatus
<1>1. 0 \in IRNs
  BY MaxDayAssumption DEF IRNs
<1>2. Pending \in [Stages -> {"pending", "success", "failed"}]
  BY DEF Pending
<1>3. "PENDING" \in PayStatus /\ SignedIRN \in {SignedIRN} \cup Stages
  BY DEF PayStatus
<1>4. NoRecord \in Record /\ NoRecord.pay \in PayStatus
  BY <1>1, <1>2, <1>3 DEF NoRecord, Record
<1>5. \A row \in Record : [row EXCEPT !.live = TRUE] \in Record
  BY DEF Record
<1>6. ASSUME NEW row \in Record, NEW irn \in IRNs, NEW status \in PayStatus
      PROVE  /\ Carry(row, irn, status) \in Record
             /\ Carry(row, irn, status).hist = row.hist /\ Carry(row, irn, status).cur = row.cur
             /\ Carry(row, irn, status).pay = row.pay /\ Carry(row, irn, status).irn = row.irn
             /\ Carry(row, irn, status).live = row.live /\ Carry(row, irn, status).data = irn
             /\ Carry(row, irn, status).said = status
  BY DEF Carry, Record
<1>7. ASSUME NEW row \in Record, NEW irn \in IRNs, NEW status \in PayStatus
      PROVE  /\ Fresh(row, irn, status) \in Record
             /\ Fresh(row, irn, status).hist = Pending
             /\ Fresh(row, irn, status).pay = row.pay
             /\ Fresh(row, irn, status).said = status
  <2> DEFINE new == Carry(row, irn, status)
  <2>1. new \in Record /\ new.pay = row.pay /\ new.said = status
    BY <1>6
  <2>2. Fresh(row, irn, status) = [new EXCEPT !.cur = SignedIRN, !.hist = Pending]
    BY DEF Fresh
  <2> HIDE DEF new
  <2> QED
    BY <1>2, <1>3, <2>1, <2>2 DEF Record
<1> QED
  BY <1>4, <1>5, <1>6, <1>7, DeclaredAssumption

\* Saving a record keeps the table one of records.
LEMMA SaveType ==
  ASSUME TypeOK, NEW i, NEW row \in Record, Save(i, row)
  PROVE  rows' \in [RowIds -> Record]
<1>1. [row EXCEPT !.live = TRUE] \in Record
  BY RecordTypes
<1> QED
  BY <1>1 DEF TypeOK, Save

\* A written record leaves a request with a copy and a stage of the right type.
LEMMA ProceedType ==
  ASSUME TypeOK, NEW u \in Ops, NEW i \in RowIds \cup {0}, NEW row \in Record,
         NEW stage \in Stages, Proceed(u, i, row, stage)
  PROVE  /\ op' \in [Ops -> Op]
         /\ \A v \in Ops \ {u} : op'[v] = op[v]
         /\ op'[u].kind = op[u].kind /\ op'[u].id = i
         /\ op'[u].copy = [row EXCEPT !.live = TRUE]
         /\ op'[u].irn = row.data /\ op'[u].stage = stage
         /\ op'[u].pc \in {"call", "done"} /\ op'[u].answer \in {"none", "prepared"}
<1>1. op[u] \in Op /\ [row EXCEPT !.live = TRUE] \in Record /\ row.data \in IRNs
  BY ZenonT(40), RecordTypes DEF TypeOK, Record
<1> DEFINE pc == IF op[u].kind = "prepare" THEN "done" ELSE "call"
           answer == IF op[u].kind = "prepare" THEN "prepared" ELSE "none"
           copy == [row EXCEPT !.live = TRUE]
           new == [op[u] EXCEPT !.id = i, !.copy = copy, !.irn = row.data,
                                !.stage = stage, !.pc = pc, !.answer = answer]
<1>2. op' = [op EXCEPT ![u] = new]
  BY DEF Proceed
<1>3. pc \in {"call", "done"} /\ answer \in {"none", "prepared"}
  OBVIOUS
<1>4. copy \in Record
  BY <1>1
<1> HIDE DEF pc, answer, copy
<1>5. new \in Op /\ new.kind = op[u].kind /\ new.id = i /\ new.copy = copy
      /\ new.irn = row.data /\ new.stage = stage /\ new.pc = pc /\ new.answer = answer
  BY <1>1, <1>3, <1>4 DEF Op
<1> HIDE DEF new
<1> QED
  BY <1>2, <1>3, <1>5 DEF TypeOK, copy

\* The stage at which a request starts or resumes, and the IRN it may use.
LEMMA StartTypes ==
  ASSUME TypeOK, NEW u \in Ops
  PROVE  /\ \A row : ResumeAt(row) \in {Validated, Signed}
         /\ PayloadIRN(u) \subseteq IRNs
         /\ Validated \in Stages /\ {Validated, Signed} \subseteq Stages
BY SuppliedAssumption DEF TypeOK, ResumeAt, PayloadIRN, Validated, Signed, Stages

\* Recording an answer keeps the copy a record.
LEMMA RecordedType ==
  ASSUME TypeOK, NEW u \in Ops
  PROVE  Recorded(u) \in Record
<1>1. /\ op[u].copy \in Record /\ op[u].stage \in Stages
      /\ op[u].copy.hist \in [Stages -> {"pending", "success", "failed"}]
  BY DEF TypeOK, Op, Record
<1> DEFINE h == IF op[u].ok THEN "success" ELSE "failed"
           hist == [op[u].copy.hist EXCEPT ![op[u].stage] = h]
<1>2. hist \in [Stages -> {"pending", "success", "failed"}]
  BY <1>1
<1>3. Recorded(u) = [op[u].copy EXCEPT !.cur = op[u].stage, !.hist = hist]
  BY <1>1 DEF Recorded, Record
<1> HIDE DEF hist
<1> QED
  BY <1>1, <1>2, <1>3 DEF Record

\* A request that starts holds a copy of the record it found, and goes on to
\* write it only if the gate lets it.
LEMMA LoadEffect ==
  ASSUME TypeOK, NEW u \in Ops, NEW kind \in Kinds, Load(u, kind)
  PROVE  /\ op' \in [Ops -> Op]
         /\ \A v \in Ops \ {u} : op'[v] = op[v]
         /\ op'[u].kind = kind /\ op'[u].id = FindByNumber
         /\ op'[u].copy = IF FindByNumber = 0 THEN NoRecord ELSE rows[FindByNumber]
         /\ op'[u].pc \in {"write", "done", "deprecate"}
         /\ op'[u].pc = "write" => ~Blocked(op'[u].copy)
         /\ op'[u].pc = "deprecate" => kind = "modify"
         /\ op'[u].answer \in {"none", "previous", "error"}
<1> DEFINE row == IF FindByNumber = 0 THEN NoRecord ELSE rows[FindByNumber]
           new(pc, answer) == [op[u] EXCEPT !.kind = kind, !.pc = pc, !.id = FindByNumber,
                                            !.copy = row, !.answer = answer]
<1>1. row \in Record /\ FindByNumber \in RowIds \cup {0} /\ op[u] \in Op
  BY FoundRecord, RecordTypes DEF TypeOK
<1>2. PICK pc \in {"write", "done", "deprecate"}, answer \in {"none", "previous", "error"} :
        /\ op' = [op EXCEPT ![u] = new(pc, answer)]
        /\ pc = "write" => ~Blocked(row)
        /\ pc = "deprecate" => kind = "modify"
  BY DEF Load
<1> HIDE DEF row
<1>3. /\ new(pc, answer) \in Op /\ new(pc, answer).kind = kind
      /\ new(pc, answer).id = FindByNumber /\ new(pc, answer).copy = row
      /\ new(pc, answer).pc = pc /\ new(pc, answer).answer = answer
  BY <1>1, <1>2 DEF Op
<1> HIDE DEF new
<1> QED
  BY <1>2, <1>3 DEF TypeOK, row

\* A request that starts keeps the types.
LEMMA LoadType ==
  ASSUME TypeOK, NEW u \in Ops, NEW kind \in Kinds, Load(u, kind)
  PROVE  TypeOK'
<1>1. mishaps' \subseteq Mishaps
  BY DEF TypeOK, Load, NoteStart, Mishaps
<1> QED
  BY <1>1, LoadEffect DEF TypeOK, Load

\* A request that ends without writing, or dies, keeps the types.
LEMMA EndType ==
  ASSUME TypeOK, NEW u \in Ops, Deprecate(u) \/ Refuse(u) \/ Crash(u)
  PROVE  /\ TypeOK'
         /\ \A v \in Ops \ {u} : op'[v] = op[v]
         /\ op'[u].kind = op[u].kind /\ op'[u].copy = op[u].copy
         /\ op'[u].id = op[u].id /\ op'[u].irn = op[u].irn
         /\ op'[u].pc = "write" => op[u].pc = "deprecate"
         /\ op'[u].pc \in {"write", "done", "dead"}
         /\ op'[u].answer \in {"error", op[u].answer}
<1>1. op' \in [Ops -> Op]
  <2>1. op[u] \in Op
    BY DEF TypeOK
  <2>2. /\ [op[u] EXCEPT !.pc = "write"] \in Op
        /\ [op[u] EXCEPT !.pc = "dead"] \in Op
        /\ [op[u] EXCEPT !.pc = "done", !.answer = "error"] \in Op
    BY <2>1 DEF Op
  <2>3. \/ op' = [op EXCEPT ![u] = [op[u] EXCEPT !.pc = "write"]]
        \/ op' = [op EXCEPT ![u] = [op[u] EXCEPT !.pc = "dead"]]
        \/ op' = [op EXCEPT ![u] = [op[u] EXCEPT !.pc = "done", !.answer = "error"]]
    BY <2>1 DEF TypeOK, Op, Deprecate, Refuse, Crash
  <2> QED
    BY <2>2, <2>3 DEF TypeOK
<1>2. mishaps' \subseteq Mishaps
  BY DEF TypeOK, Mishaps, Deprecate, Refuse, Crash
<1>3. op[u].copy.irn \in IRNs /\ firsPay[op[u].copy.irn] \in PayStatus \cup {"none"}
  BY DEF TypeOK, Op, Record
<1>4. firsPay' \in [IRNs -> PayStatus \cup {"none"}]
  BY <1>3 DEF TypeOK, Deprecate, Refuse, Crash, PayStatus
<1> QED
  BY <1>1, <1>2, <1>4 DEF TypeOK, Op, Deprecate, Refuse, Crash

\* What the three writes put into the table and hand to the request.
LEMMA WriteEffect ==
  ASSUME TypeOK, NEW u \in Ops, Insert(u) \/ Overwrite(u) \/ Replace(u)
  PROVE  \E i \in RowIds \cup {0}, row \in Record, stage \in {Validated, Signed} :
           /\ Save(i, row) /\ Proceed(u, i, row, stage)
           /\ i # 0
           /\ \/ op[u].id = i /\ UNCHANGED used
              \/ op[u].id = 0 /\ i \notin used /\ used' = used \cup {i}
           /\ \/ row.hist = Pending
              \/ /\ Overwrite(u) /\ i = op[u].id
                 /\ row.hist = op[u].copy.hist /\ row.cur = op[u].copy.cur
<1>1. op[u].copy \in Record /\ op[u].id \in RowIds \cup {0}
  BY DEF TypeOK, Op
<1>2. day \in IRNs /\ PayloadIRN(u) \subseteq IRNs /\ \A row : ResumeAt(row) \in {Validated, Signed}
  BY StartTypes DEF TypeOK
<1>4. CASE Insert(u)
  <2>1. PICK i \in RowIds \ used, irn \in PayloadIRN(u), status \in Declared :
          LET row == [Fresh(NoRecord, irn, status) EXCEPT !.irn = irn, !.created = day,
                                                          !.pay = status]
          IN /\ Save(i, row) /\ used' = used \cup {i} /\ Proceed(u, i, row, Validated)
             /\ op[u].id = 0 /\ i # 0
    BY <1>4, RowIdsAssumption DEF Insert
  <2> DEFINE fresh == Fresh(NoRecord, irn, status)
             row == [fresh EXCEPT !.irn = irn, !.created = day, !.pay = status]
  <2>4. irn \in IRNs /\ status \in PayStatus
    BY <1>2, RecordTypes
  <2>5. fresh \in Record /\ fresh.hist = Pending
    BY <2>4, RecordTypes
  <2>2. row \in Record /\ row.hist = Pending
    <3> HIDE DEF fresh
    <3> QED
      BY <1>2, <2>4, <2>5 DEF Record
  <2> HIDE DEF row
  <2>3. /\ Save(i, row) /\ Proceed(u, i, row, Validated)
        /\ op[u].id = 0 /\ i # 0 /\ used' = used \cup {i}
    BY <2>1 DEF row
  <2> QED
    BY <2>2, <2>3
<1>5. CASE Overwrite(u)
  <2>1. PICK irn \in PayloadIRN(u), status \in Declared :
          LET row == Carry(op[u].copy, irn, status)
          IN /\ Save(op[u].id, row) /\ Proceed(u, op[u].id, row, ResumeAt(row))
             /\ op[u].id # 0 /\ UNCHANGED used
    BY <1>5 DEF Overwrite
  <2> DEFINE row == Carry(op[u].copy, irn, status)
  <2>4. irn \in IRNs /\ status \in PayStatus
    BY <1>2, RecordTypes
  <2>2. row \in Record /\ row.hist = op[u].copy.hist /\ row.cur = op[u].copy.cur
    BY <1>1, <2>4, RecordTypes
  <2> HIDE DEF row
  <2>3. /\ Save(op[u].id, row) /\ Proceed(u, op[u].id, row, ResumeAt(row))
        /\ op[u].id # 0 /\ UNCHANGED used
    BY <2>1 DEF row
  <2> QED
    BY <1>1, <1>2, <1>5, <2>2, <2>3
<1>6. CASE Replace(u)
  <2>1. PICK irn \in PayloadIRN(u), status \in Declared :
          LET row == [Fresh(op[u].copy, irn, status) EXCEPT !.irn = irn]
          IN /\ Save(op[u].id, row) /\ Proceed(u, op[u].id, row, Validated)
             /\ op[u].id # 0 /\ UNCHANGED used
    BY <1>6 DEF Replace
  <2> DEFINE fresh == Fresh(op[u].copy, irn, status)
             row == [fresh EXCEPT !.irn = irn]
  <2>4. irn \in IRNs /\ status \in PayStatus
    BY <1>2, RecordTypes
  <2>5. fresh \in Record /\ fresh.hist = Pending
    BY <1>1, <2>4, RecordTypes
  <2>2. row \in Record /\ row.hist = Pending
    <3> HIDE DEF fresh
    <3> QED
      BY <2>4, <2>5 DEF Record
  <2> HIDE DEF row
  <2>3. /\ Save(op[u].id, row) /\ Proceed(u, op[u].id, row, Validated)
        /\ op[u].id # 0 /\ UNCHANGED used
    BY <2>1 DEF row
  <2> QED
    BY <1>1, <2>2, <2>3
<1> QED
  BY <1>4, <1>5, <1>6

\* The writes keep the types.
LEMMA WriteType ==
  ASSUME TypeOK, NEW u \in Ops, Insert(u) \/ Overwrite(u) \/ Replace(u)
  PROVE  TypeOK'
<1>1. PICK i \in RowIds \cup {0}, row \in Record, stage \in {Validated, Signed} :
        Save(i, row) /\ Proceed(u, i, row, stage)
  BY WriteEffect
<1>2. rows' \in [RowIds -> Record]
  BY <1>1, SaveType
<1>3. op' \in [Ops -> Op]
  BY <1>1, ProceedType, StartTypes
<1>4. mishaps' \subseteq Mishaps /\ used' \subseteq RowIds
  BY DEF TypeOK, Mishaps, Note, Insert, Overwrite, Replace
<1> QED
  BY <1>2, <1>3, <1>4 DEF TypeOK, Insert, Overwrite, Replace

\* A call leaves the request with its copy and IRN, at the same stage, and what
\* FIRS performed performed.
LEMMA CallEffect ==
  ASSUME TypeOK, NEW u \in Ops, Call(u)
  PROVE  /\ TypeOK'
         /\ \A v \in Ops \ {u} : op'[v] = op[v]
         /\ op[u].pc = "call" /\ op'[u].pc = "record"
         /\ op'[u] = [op[u] EXCEPT !.pc = "record", !.ok = op'[u].ok]
         /\ \A s \in Stages : done[s] \subseteq done'[s]
         /\ \A s \in Stages \ {op[u].stage} : done'[s] = done[s]
         /\ done'[op[u].stage] \subseteq done[op[u].stage] \cup {op[u].irn}
         /\ op'[u].ok => op[u].irn \in done'[op[u].stage]
<1>1. op[u] \in Op /\ op[u].stage \in Stages /\ op[u].irn \in IRNs
  BY DEF TypeOK, Op
<1>2. PICK performed \in BOOLEAN, ok \in BOOLEAN :
        /\ ok => performed
        /\ done' = [done EXCEPT ![op[u].stage] = IF performed THEN @ \cup {op[u].irn} ELSE @]
        /\ op' = [op EXCEPT ![u].pc = "record", ![u].ok = ok]
        /\ Note("unanswered", performed /\ ~ok)
  BY DEF Call
<1>3. [op[u] EXCEPT !.pc = "record", !.ok = ok] \in Op
  BY <1>1 DEF Op
<1>4. op' = [op EXCEPT ![u] = [op[u] EXCEPT !.pc = "record", !.ok = ok]]
  BY <1>1, <1>2 DEF TypeOK, Op
<1>5. op' \in [Ops -> Op] /\ op'[u] = [op[u] EXCEPT !.pc = "record", !.ok = ok]
      /\ op'[u].pc = "record" /\ op'[u].ok = ok
  BY <1>1, <1>3, <1>4 DEF TypeOK, Op
<1>6. done' \in [Stages -> SUBSET IRNs]
  BY <1>1, <1>2 DEF TypeOK
<1>7. mishaps' \subseteq Mishaps /\ resigned' \subseteq IRNs
  BY <1>1, <1>2 DEF TypeOK, Mishaps, Note, Call
<1>11. firsPay' \in [IRNs -> PayStatus \cup {"none"}]
  <2>1. SignedPay(u) \subseteq PayStatus \cup {"none"}
    BY <1>1 DEF SignedPay, TypeOK, Op, Record
  <2>2. UNCHANGED firsPay \/ \E status \in SignedPay(u) :
                               firsPay' = [firsPay EXCEPT ![op[u].irn] = status]
    BY DEF Call
  <2> QED
    BY <2>1, <2>2 DEF TypeOK
<1>8. TypeOK'
  BY <1>5, <1>6, <1>7, <1>11 DEF TypeOK, Call
<1>9. /\ \A v \in Ops \ {u} : op'[v] = op[v]
      /\ op[u].pc = "call"
  BY <1>4 DEF TypeOK, Call
<1>10. /\ \A s \in Stages : done[s] \subseteq done'[s]
       /\ \A s \in Stages \ {op[u].stage} : done'[s] = done[s]
       /\ done'[op[u].stage] \subseteq done[op[u].stage] \cup {op[u].irn}
       /\ ok => op[u].irn \in done'[op[u].stage]
  BY <1>1, <1>2 DEF TypeOK
<1> QED
  BY <1>5, <1>8, <1>9, <1>10

\* Recording an answer moves to the next stage or ends the request; the row is
\* the recorded copy if the save got through.
LEMMA RecordEffect ==
  ASSUME TypeOK, NEW u \in Ops, RecordAnswer(u)
  PROVE  /\ TypeOK'
         /\ \A v \in Ops \ {u} : op'[v] = op[v]
         /\ op[u].pc = "record" /\ UNCHANGED done
         /\ op'[u].kind = op[u].kind /\ op'[u].id = op[u].id
         /\ op'[u].copy = Recorded(u) /\ op'[u].irn = op[u].irn
         /\ Save(op[u].id, Recorded(u)) \/ UNCHANGED rows
         /\ \/ /\ op[u].ok /\ op[u].stage # Confirmed
               /\ op'[u].pc = "call" /\ op'[u].stage = op[u].stage + 1
               /\ op'[u].answer = "none"
            \/ /\ op'[u].pc = "done"
               /\ op'[u].answer = IF AnswersSigned(op[u].stage) THEN "signed" ELSE "error"
<1>1. op[u] \in Op /\ op[u].stage \in Stages /\ Recorded(u) \in Record
  BY RecordedType DEF TypeOK, Op
<1> DEFINE s == op[u].stage
           more == op[u].ok /\ s # Confirmed
           pc == IF more THEN "call" ELSE "done"
           stage == IF more THEN s + 1 ELSE s
           answer == IF more THEN "none" ELSE IF AnswersSigned(s) THEN "signed" ELSE "error"
           new == [op[u] EXCEPT !.copy = Recorded(u), !.pc = pc, !.stage = stage,
                                !.answer = answer]
<1>2. op' = [op EXCEPT ![u] = new]
  BY DEF RecordAnswer
<1>3. stage \in Stages /\ pc \in {"call", "done"} /\ answer \in {"none", "signed", "error"}
  BY <1>1 DEF Stages, Confirmed
<1>4. \/ op[u].ok /\ s # Confirmed /\ pc = "call" /\ stage = s + 1 /\ answer = "none"
      \/ pc = "done" /\ answer = IF AnswersSigned(s) THEN "signed" ELSE "error"
  OBVIOUS
<1> HIDE DEF pc, stage, answer
<1>5. /\ new \in Op /\ new.kind = op[u].kind /\ new.id = op[u].id
      /\ new.copy = Recorded(u) /\ new.irn = op[u].irn /\ new.pc = pc
      /\ new.stage = stage /\ new.answer = answer
  BY <1>1, <1>3 DEF Op
<1> HIDE DEF new
<1>6. op' \in [Ops -> Op] /\ op'[u] = new /\ \A v \in Ops \ {u} : op'[v] = op[v]
  BY <1>2, <1>5 DEF TypeOK
<1>7. Save(op[u].id, Recorded(u)) \/ UNCHANGED rows
  BY DEF RecordAnswer
<1>8. rows' \in [RowIds -> Record]
  BY <1>1, <1>7, SaveType DEF TypeOK
<1>9. mishaps' \subseteq Mishaps
  BY DEF TypeOK, Mishaps, Note, RecordAnswer
<1>10. TypeOK' /\ op[u].pc = "record" /\ UNCHANGED done
  BY <1>6, <1>8, <1>9 DEF TypeOK, RecordAnswer
<1> QED
  BY <1>4, <1>5, <1>6, <1>7, <1>10

\* What a payment update makes of a record.
LEMMA PaidRow ==
  ASSUME TypeOK, NEW p \in Payments, NEW row \in Record
  PROVE  /\ WithPayment(row, p) \in Record
         /\ WithPayment(row, p).hist = row.hist
         /\ WithPayment(row, p).cur = row.cur
         /\ WithPayment(row, p).live = row.live
         /\ WithPayment(row, p).irn = row.irn
         /\ WithPayment(row, p).pay = payment[p].status
         /\ WithPayment(row, p).said = payment[p].status
<1> DEFINE irn == payment[p].data
           status == payment[p].status
           new == Carry(row, irn, status)
<1>1. irn \in IRNs /\ status \in PayStatus
  BY DEF TypeOK, Payment
<1>2. /\ new \in Record /\ new.hist = row.hist /\ new.cur = row.cur
      /\ new.live = row.live /\ new.irn = row.irn /\ new.said = status
  <2> HIDE DEF irn, status
  <2> QED
    BY <1>1, RecordTypes
<1>3. WithPayment(row, p) = [new EXCEPT !.pay = status]
  BY DEF WithPayment
<1> HIDE DEF new, status
<1> QED
  BY <1>1, <1>2, <1>3 DEF Record, status

\* A payment update touches the payload and the payment status of a record, and
\* nothing that tells where the invoice is.
LEMMA PaymentEffect ==
  ASSUME TypeOK, NEW p \in Payments, PaymentStep(p)
  PROVE  /\ TypeOK'
         /\ UNCHANGED <<op, done, used>>
         /\ \A i \in RowIds : /\ rows'[i].hist = rows[i].hist
                              /\ rows'[i].cur = rows[i].cur
                              /\ rows'[i].live = rows[i].live
         /\ mishaps \subseteq mishaps'
<1>1. payment[p] \in Payment
  BY DEF TypeOK
<1>2. ASSUME NEW irn \in IRNs, NEW status \in PayStatus, SendPayment(p, irn, status)
      PROVE  TypeOK' /\ UNCHANGED <<op, done, used, rows>> /\ mishaps \subseteq mishaps'
  <2>1. PICK performed, ok \in BOOLEAN :
          /\ firsPay' = IF performed THEN [firsPay EXCEPT ![irn] = status] ELSE firsPay
          /\ payment' = [payment EXCEPT ![p] = [@ EXCEPT !.pc = IF ok THEN "sent" ELSE "done",
                                                         !.irn = irn, !.status = status]]
          /\ mishaps' = mishaps \cup {k \in {"crossed", "orphan", "unanswered"} :
               \/ k = "crossed" /\ ((\E u \in Ops : Active(u)) \/ \E q \in Payments : Paying(q))
               \/ k = "orphan" /\ \A i \in Live : rows[i].irn # irn
               \/ k = "unanswered" /\ performed /\ ~ok}
    BY <1>2 DEF SendPayment
  <2>2. [payment[p] EXCEPT !.pc = IF ok THEN "sent" ELSE "done",
                           !.irn = irn, !.status = status] \in Payment
    BY <1>1 DEF Payment
  <2>3. payment' \in [Payments -> Payment] /\ firsPay' \in [IRNs -> PayStatus \cup {"none"}]
    BY <2>1, <2>2 DEF TypeOK
  <2>4. mishaps' \subseteq Mishaps /\ mishaps \subseteq mishaps'
    BY <2>1 DEF TypeOK, Mishaps
  <2> QED
    BY <1>2, <2>3, <2>4 DEF TypeOK, SendPayment
<1>3. CASE FindPaid(p)
  <2>1. ASSUME NEW i \in RowIds
        PROVE  [payment[p] EXCEPT !.pc = "store", !.id = i, !.data = rows[i].data] \in Payment
    BY <1>1 DEF TypeOK, Payment, Record
  <2>2. Live \subseteq RowIds
    BY DEF TypeOK, Live
  <2>3. payment' \in [Payments -> Payment]
    <3>1. CASE payment' = [payment EXCEPT ![p].pc = "done"]
      BY <1>1, <3>1 DEF TypeOK, Payment
    <3>2. ASSUME NEW i \in Live,
                 payment' = [payment EXCEPT ![p] = [@ EXCEPT !.pc = "store", !.id = i,
                                                            !.data = rows[i].data]]
          PROVE  payment' \in [Payments -> Payment]
      BY <2>1, <2>2, <3>2 DEF TypeOK
    <3> QED
      BY <1>3, <3>1, <3>2 DEF FindPaid
  <2> QED
    BY <1>3, <2>3 DEF TypeOK, FindPaid
<1>4. CASE StorePayment(p)
  <2>1. payment' \in [Payments -> Payment]
    BY <1>1, <1>4 DEF TypeOK, StorePayment, Payment
  <2>2. mishaps' \subseteq Mishaps /\ mishaps \subseteq mishaps'
    BY <1>4 DEF TypeOK, StorePayment, Note, Mishaps
  <2>3. PICK i : i = payment[p].id
    OBVIOUS
  <2>4. UNCHANGED rows \/ rows' = [rows EXCEPT ![i] = WithPayment(rows[i], p)]
    BY <1>4, <2>3 DEF StorePayment
  <2>5. ASSUME NEW row \in Record
        PROVE  /\ WithPayment(row, p) \in Record
               /\ WithPayment(row, p).hist = row.hist
               /\ WithPayment(row, p).cur = row.cur
               /\ WithPayment(row, p).live = row.live
    BY PaidRow
  <2>6. /\ rows' \in [RowIds -> Record]
        /\ \A j \in RowIds : /\ rows'[j].hist = rows[j].hist
                             /\ rows'[j].cur = rows[j].cur
                             /\ rows'[j].live = rows[j].live
    BY <2>4, <2>5 DEF TypeOK
  <2> QED
    BY <1>4, <2>1, <2>2, <2>6 DEF TypeOK, StorePayment
<1> QED
  BY <1>2, <1>3, <1>4 DEF PaymentStep

\* Deleting a record, and the passing of a day, keep the types.
LEMMA OtherType ==
  ASSUME TypeOK, Tick \/ \E i \in RowIds : Delete(i)
  PROVE  TypeOK'
<1>1. CASE Tick
  <2>1. day' \in IRNs
    BY <1>1, MaxDayAssumption DEF TypeOK, Tick, IRNs
  <2> QED
    BY <1>1, <2>1 DEF TypeOK, Tick
<1>2. ASSUME NEW i \in RowIds, Delete(i)
      PROVE  TypeOK'
  <2>1. rows[i] \in Record /\ rows' = [rows EXCEPT ![i] = [@ EXCEPT !.live = FALSE]]
    BY <1>2 DEF TypeOK, Delete
  <2>2. [rows[i] EXCEPT !.live = FALSE] \in Record
    BY <2>1 DEF Record
  <2>3. rows' \in [RowIds -> Record]
    BY <2>1, <2>2 DEF TypeOK
  <2>4. mishaps' \subseteq Mishaps
    BY <1>2 DEF TypeOK, Delete, Mishaps
  <2> QED
    BY <1>2, <2>3, <2>4 DEF TypeOK, Delete
<1> QED
  BY <1>1, <1>2

\* Every variable of the pipeline keeps its type: whatever is found, copied and
\* saved is a record, and no request leaves the four stages.
THEOREM PipelineTypeCorrect == Spec => []TypeOK
<1>1. Init => TypeOK
  <2>1. 0 \in IRNs
    BY MaxDayAssumption DEF IRNs
  <2>2. NoRecord \in Record
    BY RecordTypes
  <2> QED
    BY <2>1, <2>2 DEF Init, TypeOK, Op, Payment, PayStatus, Kinds, Validated, Stages
<1>2. TypeOK /\ [Next]_vars => TypeOK'
  <2> SUFFICES ASSUME TypeOK, [Next]_vars
               PROVE  TypeOK'
    OBVIOUS
  <2>1. ASSUME NEW u \in Ops, OpStep(u)
        PROVE  TypeOK'
    BY <2>1, LoadType, EndType, WriteType, CallEffect, RecordEffect DEF OpStep
  <2>2. CASE UNCHANGED vars
    BY <2>2 DEF TypeOK, vars
  <2> QED
    BY <2>1, <2>2, PaymentEffect, OtherType DEF Next
<1> QED
  BY <1>1, <1>2, PTL DEF Spec

-----------------------------------------------------------------------------
(* What records and requests know of FIRS *)

\* The stages at which an invoice counts as submitted.
Submitted == {Signed, Transmitted, Confirmed}

\* A record names the last stage it succeeded at, or a later one: that is why
\* one whose CurrentStatus passes the gate has nothing from the signing on.
NamesStage(row) == \A s \in Submitted : row.hist[s] = "success" => s <= row.cur

\* What a request knows: a record it is to overwrite has no success that the
\* new payload would inherit; in the pipeline its copy shows success only at
\* stages it has passed, and FIRS performed those for the IRN of the copy.
Sound(u) ==
  /\ op[u].pc = "deprecate" => op[u].kind = "modify"
  /\ op[u].pc = "write" /\ op[u].kind # "modify"
       => \A s \in Submitted : op[u].copy.hist[s] # "success"
  /\ op[u].pc \in {"call", "record"} =>
       /\ op[u].copy.data = op[u].irn
       /\ \A s \in Submitted : /\ op[u].copy.hist[s] = "success" => s < op[u].stage
                               /\ s < op[u].stage => op[u].irn \in done[s]
  /\ op[u].pc = "record" /\ op[u].ok => op[u].irn \in done[op[u].stage]
  /\ op[u].answer = "signed" => op[u].irn \in done[Signed]

\* ClaimedIsSigned and the order of the FIRS calls are not inductive: both need
\* what the copies in the hands of the requests say, and what records say.
SoundInv ==
  /\ \A i \in RowIds : NamesStage(rows[i])
  /\ \A u \in Ops : Sound(u)

\* What a request knows stays true while FIRS performs more.
LEMMA SoundStays ==
  ASSUME TypeOK, NEW v \in Ops, Sound(v), op'[v] = op[v],
         \A s \in Stages : done[s] \subseteq done'[s]
  PROVE  Sound(v)'
<1>1. op[v].stage \in Stages /\ Submitted \subseteq Stages /\ Signed \in Stages
  BY DEF TypeOK, Op, Submitted, Stages, Signed, Transmitted, Confirmed
<1> QED
  BY <1>1 DEF Sound

\* A record that passes the gate has not been submitted.
LEMMA GatePassed ==
  ASSUME NEW row \in Record, NamesStage(row), ~Blocked(row)
  PROVE  \A s \in Submitted : row.hist[s] # "success"
BY DEF Record, NamesStage, Blocked, HasFailedStatus, Submitted, SignedIRN, Stages,
       Validated, Signed, Transmitted, Confirmed

\* A fresh record has not been submitted either.
LEMMA PendingRow ==
  ASSUME NEW row, row.hist = Pending
  PROVE  \A s \in Submitted : row.hist[s] # "success"
BY DEF Pending, Submitted, Stages, Signed, Transmitted, Confirmed

\* Saving a record that names its stage leaves only such records.
LEMMA SaveNames ==
  ASSUME TypeOK, \A i \in RowIds : NamesStage(rows[i]),
         NEW i, NEW row \in Record, NamesStage(row), Save(i, row)
  PROVE  \A j \in RowIds : NamesStage(rows'[j])
<1>1. [row EXCEPT !.live = TRUE].hist = row.hist /\ [row EXCEPT !.live = TRUE].cur = row.cur
  BY DEF Record
<1>2. NamesStage([row EXCEPT !.live = TRUE])
  BY <1>1 DEF NamesStage
<1>3. \A j \in RowIds : rows'[j] = rows[j] \/ rows'[j] = [row EXCEPT !.live = TRUE]
  BY DEF TypeOK, Save
<1> QED
  BY <1>2, <1>3

\* A request that starts knows what it must.
LEMMA LoadSound ==
  ASSUME TypeOK, SoundInv, NEW u \in Ops, NEW kind \in Kinds, Load(u, kind)
  PROVE  SoundInv'
<1>1. UNCHANGED <<rows, done>>
  BY DEF Load
<1>2. op'[u].copy \in Record /\ NamesStage(op'[u].copy)
  <2>1. NoRecord \in Record /\ NamesStage(NoRecord)
    BY RecordTypes, PendingRow DEF NamesStage, NoRecord
  <2> QED
    BY <2>1, LoadEffect, FoundRecord DEF TypeOK, SoundInv
<1>3. op'[u].pc = "write" => \A s \in Submitted : op'[u].copy.hist[s] # "success"
  BY <1>2, LoadEffect, GatePassed
<1>4. Sound(u)'
  BY <1>3, LoadEffect DEF Sound
<1>5. \A v \in Ops \ {u} : Sound(v)'
  BY <1>1, LoadEffect, SoundStays DEF SoundInv
<1> QED
  BY <1>1, <1>4, <1>5 DEF SoundInv

\* A request that ends claims no more than before, and what goes on to write
\* after a deprecation is a modification.
LEMMA EndSound ==
  ASSUME TypeOK, SoundInv, NEW u \in Ops, Deprecate(u) \/ Refuse(u) \/ Crash(u)
  PROVE  SoundInv'
<1>1. UNCHANGED <<rows, done>>
  BY DEF Deprecate, Refuse, Crash
<1>2. /\ op[u].answer = "signed" => op[u].irn \in done[Signed]
      /\ op[u].pc = "deprecate" => op[u].kind = "modify"
  BY DEF SoundInv, Sound
<1>3. Sound(u)'
  BY <1>1, <1>2, EndType DEF Sound
<1>4. \A v \in Ops \ {u} : Sound(v)'
  BY <1>1, EndType, SoundStays DEF SoundInv
<1> QED
  BY <1>1, <1>3, <1>4 DEF SoundInv

\* A written record shows no submission, so that the new payload inherits none
\* and the request may resume at the signing at most.
LEMMA WriteSound ==
  ASSUME TypeOK, SoundInv, NEW u \in Ops, Insert(u) \/ Overwrite(u) \/ Replace(u)
  PROVE  /\ SoundInv'
         /\ \A i \in RowIds, s \in Submitted :
              rows'[i].hist[s] = "success" => rows[i].hist[s] = "success"
<1>1. UNCHANGED done
  BY DEF Insert, Overwrite, Replace
<1>2. PICK i \in RowIds \cup {0}, row \in Record, stage \in {Validated, Signed} :
        /\ Save(i, row) /\ Proceed(u, i, row, stage)
        /\ \/ row.hist = Pending
           \/ /\ Overwrite(u) /\ i = op[u].id
              /\ row.hist = op[u].copy.hist /\ row.cur = op[u].copy.cur
  BY WriteEffect
<1>3. \A s \in Submitted : row.hist[s] # "success"
  <2>1. Overwrite(u) => \A s \in Submitted : op[u].copy.hist[s] # "success"
    BY DEF SoundInv, Sound, Overwrite
  <2> QED
    BY <1>2, <2>1, PendingRow
<1>4. /\ op'[u].copy.data = op'[u].irn /\ op'[u].copy.hist = row.hist
      /\ op'[u].stage = stage /\ op'[u].pc \in {"call", "done"}
      /\ op'[u].answer \in {"none", "prepared"}
      /\ \A v \in Ops \ {u} : op'[v] = op[v]
  <2>1. stage \in Stages
    BY StartTypes
  <2>2. /\ op'[u].copy = [row EXCEPT !.live = TRUE] /\ op'[u].irn = row.data
        /\ op'[u].stage = stage /\ op'[u].pc \in {"call", "done"}
        /\ op'[u].answer \in {"none", "prepared"}
        /\ \A v \in Ops \ {u} : op'[v] = op[v]
    BY <1>2, <2>1, ProceedType
  <2>3. [row EXCEPT !.live = TRUE].data = row.data /\ [row EXCEPT !.live = TRUE].hist = row.hist
    BY DEF Record
  <2> QED
    BY <2>2, <2>3
<1>5. \A s \in Submitted : ~(s < stage)
  BY DEF Submitted, Validated, Signed, Transmitted, Confirmed
<1>6. Sound(u)'
  BY <1>3, <1>4, <1>5 DEF Sound
<1>7. \A v \in Ops \ {u} : Sound(v)'
  BY <1>1, <1>4, SoundStays DEF SoundInv
<1>8. \A j \in RowIds : NamesStage(rows'[j])
  BY <1>2, <1>3, SaveNames DEF SoundInv, NamesStage
<1>9. \A j \in RowIds, s \in Submitted :
        rows'[j].hist[s] = "success" => rows[j].hist[s] = "success"
  <2>1. [row EXCEPT !.live = TRUE].hist = row.hist
    BY DEF Record
  <2> QED
    BY <1>2, <1>3, <2>1 DEF TypeOK, Save
<1> QED
  BY <1>6, <1>7, <1>8, <1>9 DEF SoundInv

\* An answer of success means that FIRS performed the stage; whatever else a
\* call does, no request loses what it knows.
LEMMA CallSound ==
  ASSUME TypeOK, SoundInv, NEW u \in Ops, Call(u)
  PROVE  SoundInv'
<1>1. UNCHANGED rows
  BY DEF Call
<1>2. op[u] \in Op /\ op[u].stage \in Stages /\ Submitted \subseteq Stages /\ Signed \in Stages
  BY DEF TypeOK, Op, Submitted, Stages, Signed, Transmitted, Confirmed
<1>3. /\ op'[u].pc = "record" /\ op'[u].copy = op[u].copy /\ op'[u].irn = op[u].irn
      /\ op'[u].stage = op[u].stage /\ op'[u].answer = op[u].answer
  <2>1. op'[u] = [op[u] EXCEPT !.pc = "record", !.ok = op'[u].ok] /\ op'[u].pc = "record"
    BY CallEffect
  <2> DEFINE ok == op'[u].ok
             new == [op[u] EXCEPT !.pc = "record", !.ok = ok]
  <2> HIDE DEF ok
  <2>2. /\ new.copy = op[u].copy /\ new.irn = op[u].irn
        /\ new.stage = op[u].stage /\ new.answer = op[u].answer
    BY <1>2 DEF Op
  <2> QED
    BY <2>1, <2>2 DEF ok
<1>4. Sound(u) /\ op[u].pc = "call"
  BY CallEffect DEF SoundInv
<1>5. Sound(u)'
  BY <1>2, <1>3, <1>4, CallEffect DEF Sound
<1>6. \A v \in Ops \ {u} : Sound(v)'
  BY CallEffect, SoundStays DEF SoundInv
<1> QED
  BY <1>1, <1>5, <1>6 DEF SoundInv

\* What the recorded copy shows, FIRS performed for its payload.
LEMMA RecordedSound ==
  ASSUME TypeOK, SoundInv, NEW u \in Ops, op[u].pc = "record"
  PROVE  /\ NamesStage(Recorded(u))
         /\ Recorded(u).data = op[u].irn
         /\ \A s \in Submitted : Recorded(u).hist[s] = "success" =>
              /\ s < op[u].stage \/ (s = op[u].stage /\ op[u].ok)
              /\ op[u].irn \in done[s]
<1>1. /\ op[u].copy \in Record /\ op[u].stage \in Stages
      /\ op[u].copy.hist \in [Stages -> {"pending", "success", "failed"}]
      /\ Submitted \subseteq Stages
  BY DEF TypeOK, Op, Record, Submitted, Stages, Signed, Transmitted, Confirmed
<1>2. Sound(u)
  BY DEF SoundInv
<1> DEFINE h == IF op[u].ok THEN "success" ELSE "failed"
<1>3. /\ Recorded(u).hist = [op[u].copy.hist EXCEPT ![op[u].stage] = h]
      /\ Recorded(u).cur = op[u].stage /\ Recorded(u).data = op[u].copy.data
  BY <1>1 DEF Recorded, Record
<1>4. ASSUME NEW s \in Submitted, Recorded(u).hist[s] = "success"
      PROVE  /\ s < op[u].stage \/ (s = op[u].stage /\ op[u].ok)
             /\ op[u].irn \in done[s]
  <2>1. CASE s = op[u].stage
    BY <1>1, <1>2, <1>3, <1>4, <2>1 DEF Sound
  <2>2. CASE s # op[u].stage
    BY <1>1, <1>2, <1>3, <1>4, <2>2 DEF Sound
  <2> QED
    BY <2>1, <2>2
<1>5. NamesStage(Recorded(u))
  <2>1. op[u].stage \in Nat
    BY <1>1 DEF Stages
  <2>2. Submitted \subseteq Nat
    BY DEF Submitted, Signed, Transmitted, Confirmed
  <2>3. ASSUME NEW s \in Submitted, Recorded(u).hist[s] = "success"
        PROVE  s <= op[u].stage
    BY <1>4, <2>1, <2>2, <2>3
  <2> QED
    BY <1>3, <2>3 DEF NamesStage
<1> QED
  BY <1>2, <1>3, <1>4, <1>5 DEF Sound

\* Going on to the next stage, or ending, a request claims only what it knows.
LEMMA RecordSound ==
  ASSUME TypeOK, SoundInv, NEW u \in Ops, RecordAnswer(u)
  PROVE  SoundInv'
<1>1. op[u].pc = "record" /\ Sound(u) /\ Recorded(u) \in Record
  BY RecordEffect, RecordedType DEF SoundInv
<1>2. \A i \in RowIds : NamesStage(rows'[i])
  BY <1>1, RecordEffect, RecordedSound, SaveNames DEF SoundInv
<1>3. op[u].stage \in Stages
  BY DEF TypeOK, Op
<1>4. ASSUME op[u].ok, op'[u].pc = "call", op'[u].stage = op[u].stage + 1,
             op'[u].answer = "none"
      PROVE  Sound(u)'
  <2>1. \A s \in Submitted : s < op'[u].stage => op[u].irn \in done[s]
    BY <1>1, <1>3, <1>4 DEF Sound, Submitted, Stages, Signed, Transmitted, Confirmed
  <2>2. \A s \in Submitted : op'[u].copy.hist[s] = "success" => s < op'[u].stage
    BY <1>1, <1>3, <1>4, RecordEffect, RecordedSound
       DEF Submitted, Stages, Signed, Transmitted, Confirmed
  <2> QED
    BY <1>1, <1>4, <2>1, <2>2, RecordEffect, RecordedSound DEF Sound
<1>5. ASSUME op'[u].pc = "done",
             op'[u].answer = IF AnswersSigned(op[u].stage) THEN "signed" ELSE "error"
      PROVE  Sound(u)'
  <2>1. AnswersSigned(op[u].stage) => op[u].irn \in done[Signed]
    BY <1>1, <1>3 DEF AnswersSigned, Sound, Submitted, Stages, Signed
  <2> QED
    BY <1>5, <2>1, RecordEffect DEF Sound
<1>6. Sound(u)'
  BY <1>4, <1>5, RecordEffect
<1>7. \A v \in Ops \ {u} : Sound(v)'
  BY RecordEffect, SoundStays DEF SoundInv
<1> QED
  BY <1>2, <1>6, <1>7 DEF SoundInv

\* The argument of every theorem below: no step makes a record or a request
\* claim what FIRS did not do.
LEMMA SoundStep ==
  ASSUME TypeOK, SoundInv, [Next]_vars
  PROVE  SoundInv'
<1>1. ASSUME NEW u \in Ops, OpStep(u)
      PROVE  SoundInv'
  BY <1>1, LoadSound, EndSound, WriteSound, CallSound, RecordSound DEF OpStep
<1>2. ASSUME UNCHANGED <<op, done>>,
             \A i \in RowIds : rows'[i].hist = rows[i].hist /\ rows'[i].cur = rows[i].cur
      PROVE  SoundInv'
  BY <1>2, SoundStays DEF SoundInv, NamesStage
<1>3. ASSUME NEW p \in Payments, PaymentStep(p)
      PROVE  SoundInv'
  BY <1>2, <1>3, PaymentEffect
<1>4. ASSUME NEW i \in RowIds, Delete(i)
      PROVE  SoundInv'
  <2>1. \A j \in RowIds : rows'[j].hist = rows[j].hist /\ rows'[j].cur = rows[j].cur
    BY <1>4 DEF TypeOK, Delete, Record
  <2> QED
    BY <1>2, <1>4, <2>1 DEF Delete
<1>5. CASE Tick
  BY <1>2, <1>5 DEF Tick
<1>6. CASE UNCHANGED vars
  BY <1>2, <1>6 DEF vars
<1> QED
  BY <1>1, <1>3, <1>4, <1>5, <1>6 DEF Next

\* Nothing is known, and nothing claimed, at the start.
LEMMA SoundInit ==
  ASSUME Init
  PROVE  SoundInv
<1>1. NamesStage(NoRecord)
  BY PendingRow DEF NamesStage, NoRecord
<1> QED
  BY <1>1 DEF Init, SoundInv, Sound

\* Both invariants, for the theorems that need them.
THEOREM PipelineSound == Spec => [](TypeOK /\ SoundInv)
<1>1. Init => SoundInv
  BY SoundInit
<1>2. TypeOK /\ SoundInv /\ [Next]_vars => SoundInv'
  BY SoundStep
<1> QED
  BY <1>1, <1>2, PipelineTypeCorrect, PTL DEF Spec

\* A caller that is told its invoice is signed holds an IRN that FIRS signed,
\* although the answer rests on a copy of a record that others overwrite.
THEOREM ClaimsHold == Spec => []ClaimedIsSigned
<1>1. SoundInv => ClaimedIsSigned
  BY DEF SoundInv, Sound, ClaimedIsSigned
<1> QED
  BY <1>1, PipelineSound, PTL

\* Whatever overlaps, crashes and lost answers do to the records, what FIRS is
\* asked for follows the life cycle of FirsLifecycle.
THEOREM FirsOrderHolds == Spec => FirsOrder
<1>1. Init => Firs!Init
  BY DEF Init, Firs!Init, Stages, Signed, Transmitted, Confirmed
<1>2. TypeOK /\ SoundInv /\ [Next]_vars => [Firs!Next]_Firs!lifecycle
  <2> SUFFICES ASSUME TypeOK, SoundInv, [Next]_vars, done' # done
               PROVE  [Firs!Next]_Firs!lifecycle
    BY DEF Firs!lifecycle
  <2>1. PICK u \in Ops : Call(u)
    BY DEF Next, OpStep, PaymentStep, Load, Deprecate, Refuse, Insert, Overwrite, Replace,
           RecordAnswer, Crash, SendPayment, FindPaid, StorePayment, Delete, Tick, vars
  <2>2. /\ op[u].stage \in Stages /\ op[u].irn \in IRNs
        /\ \A s \in Submitted : s < op[u].stage => op[u].irn \in done[s]
    BY <2>1 DEF TypeOK, Op, SoundInv, Sound, Call
  <2>3. \A s \in Stages : done'[s] = IF s = op[u].stage THEN done[s] \cup {op[u].irn} ELSE done[s]
    <3>1. done' = [done EXCEPT ![op[u].stage] = @ \cup {op[u].irn}]
      BY <2>1 DEF TypeOK, Call
    <3> QED
      BY <2>2, <3>1 DEF TypeOK
  <2>4. CASE op[u].stage = Validated
    BY <2>3, <2>4 DEF Firs!lifecycle, Stages, Validated, Signed, Transmitted, Confirmed
  <2>5. CASE op[u].stage = Signed
    <3>1. Firs!Sign(op[u].irn)
      BY <2>3, <2>5 DEF Firs!Sign, Stages, Signed, Transmitted, Confirmed
    <3> QED
      BY <2>2, <3>1 DEF Firs!Next
  <2>6. CASE op[u].stage = Transmitted
    <3>1. Firs!Transmit(op[u].irn)
      BY <2>2, <2>3, <2>6 DEF Firs!Transmit, Stages, Submitted, Signed, Transmitted, Confirmed
    <3> QED
      BY <2>2, <3>1 DEF Firs!Next
  <2>7. CASE op[u].stage = Confirmed
    <3>1. Firs!Confirm(op[u].irn)
      BY <2>2, <2>3, <2>7 DEF Firs!Confirm, Stages, Submitted, Signed, Transmitted, Confirmed
    <3> QED
      BY <2>2, <3>1 DEF Firs!Next
  <2>8. op[u].stage \in {Validated, Signed, Transmitted, Confirmed}
    BY <2>2 DEF Stages, Validated, Signed, Transmitted, Confirmed
  <2> QED
    BY <2>4, <2>5, <2>6, <2>7, <2>8
<1> QED
  BY <1>1, <1>2, PipelineSound, PTL DEF Spec, FirsOrder, Firs!Spec

\* A record comes to say that a stage succeeded only when FIRS performed it for
\* the IRN of the payload saved with it, although the saves are of whole copies.
THEOREM SuccessHolds == Spec => SuccessWasPerformed
<1> DEFINE A == \A i \in RowIds, s \in Submitted :
                  rows'[i].hist[s] = "success" /\ rows[i].hist[s] # "success"
                    => rows'[i].data \in done'[s]
<1>1. TypeOK /\ SoundInv /\ [Next]_vars => A
  <2> SUFFICES ASSUME TypeOK, SoundInv, [Next]_vars
               PROVE  A
    OBVIOUS
  <2>1. ASSUME NEW u \in Ops, Insert(u) \/ Overwrite(u) \/ Replace(u)
        PROVE  A
    BY <2>1, WriteSound
  <2>2. ASSUME NEW u \in Ops, RecordAnswer(u)
        PROVE  A
    <3>1. Recorded(u) \in Record /\ op[u].pc = "record" /\ UNCHANGED done
      BY <2>2, RecordedType, RecordEffect
    <3>2. CASE Save(op[u].id, Recorded(u))
      <4>1. /\ [Recorded(u) EXCEPT !.live = TRUE].hist = Recorded(u).hist
            /\ [Recorded(u) EXCEPT !.live = TRUE].data = Recorded(u).data
        BY <3>1 DEF Record
      <4>2. \A i \in RowIds : rows'[i] \in {rows[i], [Recorded(u) EXCEPT !.live = TRUE]}
        BY <3>2 DEF TypeOK, Save
      <4>3. /\ Recorded(u).data = op[u].irn
            /\ \A s \in Submitted : Recorded(u).hist[s] = "success" => op[u].irn \in done[s]
        BY <3>1, RecordedSound
      <4>4. ASSUME NEW i \in RowIds, NEW s \in Submitted,
                   rows'[i].hist[s] = "success", rows[i].hist[s] # "success"
            PROVE  rows'[i].data \in done'[s]
        <5>1. rows'[i] = [Recorded(u) EXCEPT !.live = TRUE]
          BY <4>2, <4>4
        <5>2. Recorded(u).hist[s] = "success" /\ rows'[i].data = op[u].irn
          BY <4>1, <4>3, <4>4, <5>1
        <5> QED
          BY <3>1, <4>3, <5>2
      <4> QED
        BY <4>4
    <3> QED
      BY <2>2, <3>2, RecordEffect
  <2>3. ASSUME NEW p \in Payments, PaymentStep(p)
        PROVE  A
    BY <2>3, PaymentEffect
  <2>4. ASSUME NEW i \in RowIds, Delete(i)
        PROVE  A
    <3>1. \A j \in RowIds : rows'[j].hist = rows[j].hist
      BY <2>4 DEF TypeOK, Delete, Record
    <3> QED
      BY <3>1
  <2>5. ASSUME UNCHANGED rows
        PROVE  A
    BY <2>5
  <2>6. \A u \in Ops : OpStep(u) =>
          \/ Insert(u) \/ Overwrite(u) \/ Replace(u) \/ RecordAnswer(u) \/ UNCHANGED rows
    BY DEF OpStep, Load, Deprecate, Refuse, Call, Crash
  <2>7. (Tick \/ UNCHANGED vars) => UNCHANGED rows
    BY DEF Tick, vars
  <2> QED
    BY <2>1, <2>2, <2>3, <2>4, <2>5, <2>6, <2>7 DEF Next
<1>2. TypeOK /\ SoundInv /\ [Next]_vars => [A]_vars
  BY <1>1
<1>3. A => \A i \in RowIds, s \in {Signed, Transmitted, Confirmed} :
             rows'[i].hist[s] = "success" /\ rows[i].hist[s] # "success"
               => rows'[i].data \in done'[s]
  BY DEF Submitted
<1> QED
  BY <1>2, <1>3, PipelineSound, PTL DEF Spec, SuccessWasPerformed

-----------------------------------------------------------------------------
(* Requests that do not overlap *)

\* A success of the signing that a record shows, its copy shows as well.
Abreast(u) ==
  op[u].id # 0 /\ rows[op[u].id].hist[Signed] = "success"
    => op[u].copy.hist[Signed] = "success"

\* OneRecord and SignedStays are not inductive: without an overlap one request
\* at most is active, the only live record is the one it holds, and its copy is
\* abreast of the record.  An id no record has yet is not live.
AloneInv ==
  /\ \A i \in RowIds \ used : ~rows[i].live
  /\ \A u \in Ops : op[u].id \in used \cup {0}
  /\ "overlap" \notin mishaps =>
       /\ \A u, v \in Ops : Active(u) /\ Active(v) => u = v
       /\ \A i, j \in Live : i = j
       /\ \A u \in Ops : Active(u) => Live \subseteq {op[u].id} /\ Abreast(u)

\* A step that leaves the requests alone, and revives no record, keeps this.
LEMMA AloneFrame ==
  ASSUME AloneInv, UNCHANGED <<op, used>>, mishaps \subseteq mishaps', TypeOK,
         \A i \in RowIds : /\ rows'[i].live => rows[i].live
                           /\ rows'[i].hist = rows[i].hist
  PROVE  AloneInv'
<1>1. Live' \subseteq Live /\ \A u \in Ops : Active(u)' <=> Active(u)
  BY DEF TypeOK, Live, Active
<1>2. ASSUME NEW u \in Ops, Abreast(u)
      PROVE  Abreast(u)'
  <2>1. op[u].id # 0 => op[u].id \in RowIds
    BY DEF AloneInv, TypeOK
  <2> QED
    BY <1>2, <2>1 DEF Abreast
<1> QED
  BY <1>1, <1>2 DEF AloneInv

\* A step of a request under way keeps it, if it touches no record but the one
\* it holds, or comes to hold, and stays abreast of that.
LEMMA AloneStep ==
  ASSUME AloneInv, TypeOK, TypeOK', NEW u \in Ops, Active(u),
         \A v \in Ops \ {u} : op'[v] = op[v],
         mishaps \subseteq mishaps', used \subseteq used',
         used' \subseteq used \cup {op'[u].id}, op'[u].id \in used' \cup {0},
         op[u].id \in {0, op'[u].id},
         \A i \in RowIds : i # op'[u].id => rows'[i] = rows[i],
         \A i \in RowIds \ used' : ~rows'[i].live,
         Active(u)' /\ "overlap" \notin mishaps => Abreast(u)'
  PROVE  AloneInv'
<1>1. \A v \in Ops : op'[v].id \in used' \cup {0}
  BY DEF AloneInv
<1>2. ASSUME "overlap" \notin mishaps'
      PROVE  /\ \A v \in Ops : Active(v)' => v = u /\ Abreast(u)'
             /\ Live' \subseteq {op'[u].id}
  <2>1. /\ \A v, w \in Ops : Active(v) /\ Active(w) => v = w
        /\ Live \subseteq {op[u].id}
    BY <1>2 DEF AloneInv
  <2>2. \A v \in Ops \ {u} : ~Active(v)' /\ ~Active(v)
    BY <2>1 DEF Active
  <2>3. 0 \notin Live
    BY RowIdsAssumption DEF TypeOK, Live
  <2>4. Live \subseteq {op'[u].id}
    BY <2>1, <2>3
  <2>5. Live' \subseteq Live \cup {op'[u].id}
    BY DEF Live, TypeOK
  <2>6. Active(u)' => Abreast(u)'
    BY <1>2
  <2> QED
    BY <2>2, <2>4, <2>5, <2>6
<1>3. ASSUME "overlap" \notin mishaps'
      PROVE  /\ \A v, w \in Ops : Active(v)' /\ Active(w)' => v = w
             /\ \A i, j \in Live' : i = j
             /\ \A v \in Ops : Active(v)' => Live' \subseteq {op'[v].id} /\ Abreast(v)'
  BY <1>2, <1>3
<1> QED
  BY <1>1, <1>3 DEF AloneInv

\* A request that starts alone holds the only record, or there is none.
LEMMA AloneLoad ==
  ASSUME AloneInv, TypeOK, NEW u \in Ops, NEW kind \in Kinds, Load(u, kind)
  PROVE  AloneInv'
<1>1. UNCHANGED <<rows, used>> /\ mishaps \subseteq mishaps'
  BY DEF Load, NoteStart
<1>2. Live' = Live /\ \A v \in Ops \ {u} : (Active(v)' <=> Active(v)) /\ op'[v] = op[v]
  BY <1>1, LoadEffect DEF Live, Active
<1>3. /\ op'[u].id = FindByNumber
      /\ op'[u].copy = IF FindByNumber = 0 THEN NoRecord ELSE rows[FindByNumber]
  BY LoadEffect
<1>4. op'[u].id \in used' \cup {0}
  BY <1>1, <1>3, FoundRecord DEF Live
<1>5. Abreast(u)'
  BY <1>1, <1>3 DEF Abreast
<1>6. ASSUME "overlap" \notin mishaps'
      PROVE  /\ \A v \in Ops : ~Active(v)
             /\ Live \subseteq {op'[u].id}
             /\ \A i, j \in Live : i = j
  <2>1. \A v \in Ops : ~Active(v)
    BY <1>6 DEF Load, NoteStart
  <2>2. \A i, j \in Live : i = j
    BY <1>1, <1>6 DEF AloneInv
  <2> QED
    BY <1>3, <2>1, <2>2, FoundRecord
<1> QED
  BY <1>1, <1>2, <1>4, <1>5, <1>6 DEF AloneInv

\* A request that ends without writing leaves the record alone.
LEMMA AloneEnd ==
  ASSUME AloneInv, TypeOK, NEW u \in Ops, Deprecate(u) \/ Refuse(u) \/ Crash(u)
  PROVE  AloneInv'
<1>1. /\ UNCHANGED <<rows, used>> /\ mishaps \subseteq mishaps' /\ Active(u)
  BY DEF Deprecate, Refuse, Crash, Active
<1>2. op'[u].id = op[u].id /\ op'[u].copy = op[u].copy
      /\ TypeOK' /\ \A v \in Ops \ {u} : op'[v] = op[v]
  BY EndType
<1>3. Active(u) /\ "overlap" \notin mishaps => Abreast(u)'
  BY <1>1, <1>2 DEF AloneInv, Abreast
<1>4. op'[u].id \in used' \cup {0} /\ \A i \in RowIds \ used' : ~rows'[i].live
  BY <1>1, <1>2 DEF AloneInv
<1> QED
  BY <1>1, <1>2, <1>3, <1>4, AloneStep

\* A written record is the one the request holds from then on.
LEMMA AloneWrite ==
  ASSUME AloneInv, TypeOK, NEW u \in Ops, Insert(u) \/ Overwrite(u) \/ Replace(u)
  PROVE  AloneInv'
<1>1. mishaps \subseteq mishaps' /\ Active(u)
  BY DEF Insert, Overwrite, Replace, Note, Active
<1>2. PICK i \in RowIds \cup {0}, row \in Record, stage \in {Validated, Signed} :
        /\ Save(i, row) /\ Proceed(u, i, row, stage)
        /\ i # 0
        /\ \/ op[u].id = i /\ UNCHANGED used
           \/ op[u].id = 0 /\ i \notin used /\ used' = used \cup {i}
  BY WriteEffect
<1>3. stage \in Stages
  BY StartTypes
<1>4. /\ op'[u].id = i /\ op'[u].copy = [row EXCEPT !.live = TRUE]
      /\ \A v \in Ops \ {u} : op'[v] = op[v]
  BY <1>2, <1>3, ProceedType
<1>5. i \in used' /\ used \subseteq used' /\ used' \subseteq used \cup {i}
  BY <1>2 DEF AloneInv
<1>6. /\ \A j \in RowIds : j # i => rows'[j] = rows[j]
      /\ rows'[i] = [row EXCEPT !.live = TRUE]
  BY <1>2 DEF TypeOK, Save
<1>7. \A j \in RowIds \ used' : ~rows'[j].live
  BY <1>5, <1>6 DEF AloneInv
<1>8. Abreast(u)'
  BY <1>4, <1>6 DEF Abreast
<1>9. TypeOK' /\ op[u].id \in {0, i}
  BY <1>2, WriteType
<1> QED
  BY <1>1, <1>4, <1>5, <1>6, <1>7, <1>8, <1>9, AloneStep

\* A call leaves the request with its record and its copy.
LEMMA AloneCall ==
  ASSUME AloneInv, TypeOK, NEW u \in Ops, Call(u)
  PROVE  AloneInv'
<1>1. UNCHANGED <<rows, used>> /\ mishaps \subseteq mishaps' /\ Active(u)
  BY DEF Call, Note, Active
<1>2. op'[u].id = op[u].id /\ op'[u].copy = op[u].copy
  <2>1. PICK ok : op' = [op EXCEPT ![u].pc = "record", ![u].ok = ok]
    BY DEF Call
  <2> QED
    BY <2>1 DEF TypeOK, Op
<1>3. Active(u) /\ "overlap" \notin mishaps => Abreast(u)'
  BY <1>1, <1>2 DEF AloneInv, Abreast
<1>4. op'[u].id \in used' \cup {0} /\ \A i \in RowIds \ used' : ~rows'[i].live
  BY <1>1, <1>2 DEF AloneInv
<1> QED
  BY <1>1, <1>2, <1>3, <1>4, CallEffect, AloneStep

\* The recording of an answer may leave the copy ahead of a record that was not
\* saved, never behind it.
LEMMA AloneRecord ==
  ASSUME AloneInv, SoundInv, TypeOK, NEW u \in Ops, RecordAnswer(u)
  PROVE  AloneInv'
<1>1. UNCHANGED used /\ mishaps \subseteq mishaps' /\ Active(u)
  BY DEF RecordAnswer, Note, Active
<1>2. /\ op'[u].id = op[u].id /\ op'[u].copy = Recorded(u) /\ op[u].pc = "record"
      /\ TypeOK' /\ \A v \in Ops \ {u} : op'[v] = op[v]
      /\ Save(op[u].id, Recorded(u)) \/ UNCHANGED rows
  BY RecordEffect
<1>3. PICK i : i = op[u].id
  OBVIOUS
<1>4. i \in used \cup {0} /\ used \subseteq RowIds
  BY <1>3 DEF AloneInv, TypeOK
<1>5. \A j \in RowIds : j # i => rows'[j] = rows[j]
  BY <1>2, <1>3 DEF TypeOK, Save
<1>6. ASSUME "overlap" \notin mishaps
      PROVE  Abreast(u)'
  <2>1. CASE Save(i, Recorded(u))
    <3>1. Recorded(u) \in Record /\ i # 0 => rows'[i] = [Recorded(u) EXCEPT !.live = TRUE]
      BY <1>4, <2>1 DEF TypeOK, Save
    <3>2. Recorded(u) \in Record
      BY RecordedType
    <3> QED
      BY <1>2, <1>3, <3>1, <3>2 DEF Abreast, Record
  <2>2. CASE UNCHANGED rows
    <3>1. op[u].copy.hist[Signed] = "success" => Signed < op[u].stage
      BY <1>2 DEF SoundInv, Sound, Submitted
    <3>2. op[u].copy.hist[Signed] = "success" => Recorded(u).hist[Signed] = "success"
      BY <3>1 DEF TypeOK, Op, Record, Recorded, Signed, Stages
    <3>3. Abreast(u)
      BY <1>1, <1>6 DEF AloneInv
    <3> QED
      BY <1>2, <2>2, <3>2, <3>3 DEF Abreast
  <2> QED
    BY <1>2, <1>3, <2>1, <2>2
<1>7. \A j \in RowIds \ used' : ~rows'[j].live
  BY <1>1, <1>4, <1>5, RowIdsAssumption DEF AloneInv
<1> QED
  BY <1>1, <1>2, <1>3, <1>4, <1>5, <1>6, <1>7, AloneStep

\* No step makes two requests or two records of requests that do not overlap.
LEMMA AloneNext ==
  ASSUME AloneInv, SoundInv, TypeOK, [Next]_vars
  PROVE  AloneInv'
<1>1. ASSUME NEW u \in Ops, OpStep(u)
      PROVE  AloneInv'
  BY <1>1, AloneLoad, AloneEnd, AloneWrite, AloneCall, AloneRecord DEF OpStep
<1>2. ASSUME NEW p \in Payments, PaymentStep(p)
      PROVE  AloneInv'
  BY <1>2, PaymentEffect, AloneFrame
<1>3. ASSUME NEW i \in RowIds, Delete(i)
      PROVE  AloneInv'
  <2>1. \A j \in RowIds : /\ rows'[j].live => rows[j].live
                          /\ rows'[j].hist = rows[j].hist
    BY <1>3 DEF TypeOK, Delete, Record
  <2> QED
    BY <1>3, <2>1, AloneFrame DEF Delete
<1>4. CASE Tick \/ UNCHANGED vars
  BY <1>4, AloneFrame DEF Tick, vars
<1> QED
  BY <1>1, <1>2, <1>3, <1>4 DEF Next

\* The invariants of the two theorems below.
THEOREM PipelineAlone == Spec => [](TypeOK /\ SoundInv /\ AloneInv)
<1>1. Init => AloneInv
  BY DEF Init, AloneInv, Live, Active, NoRecord
<1>2. TypeOK /\ SoundInv /\ AloneInv /\ [Next]_vars => AloneInv'
  BY AloneNext
<1> QED
  BY <1>1, <1>2, PipelineSound, PTL DEF Spec

\* Uploads, preparations and modifications that do not overlap keep one record
\* per invoice number, whatever is deleted and saved again in between.
THEOREM OneRecordHolds == Spec => []OneRecord
<1>1. TypeOK /\ AloneInv => OneRecord
  <2> SUFFICES ASSUME TypeOK, AloneInv, "overlap" \notin mishaps
               PROVE  Cardinality(Live) <= 1
    BY DEF OneRecord
  <2>1. CASE Live = {}
    BY <2>1, FS_EmptySet
  <2>2. CASE Live # {}
    <3>1. PICK i : Live = {i}
      BY <2>2 DEF AloneInv
    <3> QED
      BY <3>1, FS_Singleton
  <2> QED
    BY <2>1, <2>2
<1> QED
  BY <1>1, PipelineAlone, PTL

\* The writes take the success of a signing from a live record only in a
\* modification, or when another request overlaps.
LEMMA WriteKeepsSigned ==
  ASSUME TypeOK, SoundInv, AloneInv, NEW u \in Ops,
         Insert(u) \/ Overwrite(u) \/ Replace(u),
         mishaps' \cap {"overlap", "modified"} = {},
         NEW i \in RowIds, rows[i].hist[Signed] = "success", rows[i].live
  PROVE  rows'[i].hist[Signed] = "success"
<1>1. /\ Active(u) /\ "overlap" \notin mishaps /\ op[u].pc = "write"
      /\ Insert(u) \/ op[u].kind # "modify"
  BY DEF Insert, Overwrite, Replace, Note, Active
<1>2. CASE Insert(u)
  BY <1>2 DEF Insert, Save, TypeOK, AloneInv
<1>3. CASE ~Insert(u)
  <2>1. op[u].copy.hist[Signed] # "success"
    BY <1>1, <1>3 DEF SoundInv, Sound, Submitted
  <2>2. i # op[u].id
    BY <1>1, <1>3, <2>1, RowIdsAssumption DEF AloneInv, Abreast
  <2> QED
    BY <1>3, <2>2 DEF TypeOK, Overwrite, Replace, Save
<1> QED
  BY <1>2, <1>3

\* So does the recording of an answer, never without an overlap.
LEMMA RecordKeepsSigned ==
  ASSUME TypeOK, SoundInv, AloneInv, NEW u \in Ops, RecordAnswer(u),
         "overlap" \notin mishaps',
         NEW i \in RowIds, rows[i].hist[Signed] = "success", rows[i].live
  PROVE  rows'[i].hist[Signed] = "success"
<1>1. /\ "overlap" \notin mishaps /\ Active(u) /\ op[u].pc = "record"
  BY DEF RecordAnswer, Note, Active
<1>2. CASE Save(op[u].id, Recorded(u)) /\ i = op[u].id
  <2>1. op[u].copy.hist[Signed] = "success"
    BY <1>1, <1>2, RowIdsAssumption DEF AloneInv, Abreast
  <2>2. Signed < op[u].stage
    BY <1>1, <2>1 DEF SoundInv, Sound, Submitted
  <2>3. Recorded(u).hist[Signed] = "success"
    BY <2>1, <2>2 DEF TypeOK, Op, Record, Recorded, Signed, Stages
  <2> QED
    BY <1>2, <2>3, RecordedType DEF TypeOK, Save, Record
<1>3. CASE UNCHANGED rows \/ (Save(op[u].id, Recorded(u)) /\ i # op[u].id)
  BY <1>3 DEF TypeOK, Save
<1> QED
  BY <1>2, <1>3, RecordEffect

\* A record that says its invoice is signed keeps saying so, except when a
\* modification resets it or an overlapping request saves an older copy.
THEOREM SignedStaysHolds == Spec => SignedStays
<1> DEFINE A == \A i \in RowIds :
                  /\ rows[i].hist[Signed] = "success" /\ rows[i].live
                  /\ rows'[i].hist[Signed] # "success"
                  => mishaps' \cap {"overlap", "modified"} # {}
<1>1. TypeOK /\ SoundInv /\ AloneInv /\ [Next]_vars => A
  <2> SUFFICES ASSUME TypeOK, SoundInv, AloneInv, [Next]_vars
               PROVE  A
    OBVIOUS
  <2>1. ASSUME NEW u \in Ops, Insert(u) \/ Overwrite(u) \/ Replace(u)
        PROVE  A
    BY <2>1, WriteKeepsSigned
  <2>2. ASSUME NEW u \in Ops, RecordAnswer(u)
        PROVE  A
    BY <2>2, RecordKeepsSigned
  <2>3. ASSUME NEW p \in Payments, PaymentStep(p)
        PROVE  A
    BY <2>3, PaymentEffect
  <2>4. ASSUME NEW i \in RowIds, Delete(i)
        PROVE  A
    <3>1. \A j \in RowIds : rows'[j].hist = rows[j].hist
      BY <2>4 DEF TypeOK, Delete, Record
    <3> QED
      BY <3>1
  <2>5. \A u \in Ops : OpStep(u) =>
          \/ Insert(u) \/ Overwrite(u) \/ Replace(u) \/ RecordAnswer(u) \/ UNCHANGED rows
    BY DEF OpStep, Load, Deprecate, Refuse, Call, Crash
  <2>6. (Tick \/ UNCHANGED vars) => UNCHANGED rows
    BY DEF Tick, vars
  <2>7. UNCHANGED rows => A
    OBVIOUS
  <2> QED
    BY <2>1, <2>2, <2>3, <2>4, <2>5, <2>6, <2>7 DEF Next
<1>2. TypeOK /\ SoundInv /\ AloneInv /\ [Next]_vars => [A]_vars
  BY <1>1
<1> QED
  BY <1>2, PipelineAlone, PTL DEF Spec, SignedStays

-----------------------------------------------------------------------------
(* Signing once *)

\* A request that will not submit the invoice for signing again.
Past(u) ==
  /\ op[u].pc # "write"
  /\ op[u].pc = "call" => op[u].stage > Signed
  /\ op[u].pc = "record" => op[u].stage > Signed \/ (op[u].stage = Signed /\ op[u].ok)

\* The signing is on record, or the request that had it done is about to save it.
Settled ==
  \/ \E u \in Ops : op[u].pc = "record" /\ op[u].stage = Signed
  \/ Live # {} /\ \A i \in Live : Blocked(rows[i])

\* SignedOnce is not inductive: as long as nothing but one upload after another
\* happened, an IRN that FIRS signed finds no request before the signing, and
\* the gate shut for the next one.  A request in the pipeline has a record.
OnceInv ==
  /\ \A u \in Ops : op[u].pc \in {"call", "record"} => op[u].id # 0
  /\ mishaps = {} =>
       /\ resigned = {}
       /\ done[Signed] # {} => Settled /\ \A u \in Ops : Past(u)

\* A step that leaves the requests and FIRS alone, and the records where they
\* are, keeps this.
LEMMA OnceFrame ==
  ASSUME OnceInv, TypeOK, UNCHANGED <<op, used, done, resigned>>, mishaps \subseteq mishaps',
         mishaps' = {} => \A i \in RowIds : /\ rows'[i].hist = rows[i].hist
                                            /\ rows'[i].cur = rows[i].cur
                                            /\ rows'[i].live = rows[i].live
  PROVE  OnceInv'
<1>1. ASSUME mishaps' = {}
      PROVE  Live' = Live /\ \A i \in Live : Blocked(rows[i]) => Blocked(rows'[i])
  BY <1>1 DEF TypeOK, Live, Blocked, HasFailedStatus
<1>2. ASSUME mishaps' = {}, Settled
      PROVE  Settled'
  BY <1>1, <1>2 DEF Settled
<1>3. \A u \in Ops : Past(u) => Past(u)'
  BY DEF Past
<1> QED
  BY <1>2, <1>3 DEF OnceInv

\* When FIRS signed the invoice, a request that starts alone finds it settled.
LEMMA OnceLoad ==
  ASSUME OnceInv, TypeOK, NEW u \in Ops, NEW kind \in Kinds, Load(u, kind)
  PROVE  OnceInv'
<1>1. UNCHANGED <<rows, used, done, resigned>> /\ mishaps \subseteq mishaps'
  BY DEF Load, NoteStart
<1>2. /\ \A v \in Ops \ {u} : op'[v] = op[v]
      /\ op'[u].pc \in {"write", "done", "deprecate"}
      /\ op'[u].pc = "write" => ~Blocked(op'[u].copy)
      /\ op'[u].copy = IF FindByNumber = 0 THEN NoRecord ELSE rows[FindByNumber]
  BY LoadEffect
<1>3. \A v \in Ops : op'[v].pc \in {"call", "record"} => op'[v].id # 0
  BY <1>2 DEF OnceInv
<1>4. ASSUME mishaps' = {}, done[Signed] # {}
      PROVE  Settled' /\ \A v \in Ops : Past(v)'
  <2>1. \A v \in Ops : ~Active(v)
    BY <1>4 DEF Load, NoteStart
  <2>2. Settled /\ \A v \in Ops : Past(v)
    BY <1>1, <1>4 DEF OnceInv
  <2>3. Live # {} /\ \A i \in Live : Blocked(rows[i])
    BY <2>1, <2>2 DEF Settled, Active
  <2>4. op'[u].pc # "write"
    BY <1>2, <2>3, FoundRecord
  <2>5. Settled'
    BY <1>1, <2>3 DEF Settled, Live
  <2>6. \A v \in Ops : Past(v)'
    BY <1>2, <2>2, <2>4 DEF Past
  <2> QED
    BY <2>5, <2>6
<1>5. mishaps' = {} => resigned' = {}
  BY <1>1 DEF OnceInv
<1> QED
  BY <1>1, <1>3, <1>4, <1>5 DEF OnceInv

\* A refused write happens before the signing; deprecations and crashes are
\* not of one upload after another.
LEMMA OnceEnd ==
  ASSUME OnceInv, TypeOK, NEW u \in Ops, Deprecate(u) \/ Refuse(u) \/ Crash(u)
  PROVE  OnceInv'
<1>1. /\ \A v \in Ops \ {u} : op'[v] = op[v]
      /\ op'[u].pc \in {"write", "done", "dead"}
      /\ UNCHANGED <<done, resigned>>
  BY EndType DEF Deprecate, Refuse, Crash
<1>2. \A v \in Ops : op'[v].pc \in {"call", "record"} => op'[v].id # 0
  BY <1>1 DEF OnceInv
<1>3. ASSUME mishaps' = {}
      PROVE  mishaps = {} /\ op[u].pc = "write"
  BY <1>3 DEF Deprecate, Refuse, Crash
<1>4. mishaps' = {} => ~Past(u)
  BY <1>3 DEF Past
<1> QED
  BY <1>1, <1>2, <1>3, <1>4 DEF OnceInv

\* Nothing was signed when a request writes.
LEMMA OnceWrite ==
  ASSUME OnceInv, TypeOK, NEW u \in Ops, Insert(u) \/ Overwrite(u) \/ Replace(u)
  PROVE  OnceInv'
<1>1. /\ mishaps \subseteq mishaps' /\ UNCHANGED <<done, resigned>>
      /\ op[u].pc = "write"
  BY DEF Insert, Overwrite, Replace, Note
<1>2. PICK i \in RowIds \cup {0}, row \in Record, stage \in {Validated, Signed} :
        /\ Proceed(u, i, row, stage) /\ i # 0
  BY WriteEffect
<1>3. /\ \A v \in Ops \ {u} : op'[v] = op[v]
      /\ op'[u].id # 0
  BY <1>2, StartTypes, ProceedType
<1>4. \A v \in Ops : op'[v].pc \in {"call", "record"} => op'[v].id # 0
  BY <1>3 DEF OnceInv
<1>5. ~Past(u)
  BY <1>1 DEF Past
<1> QED
  BY <1>1, <1>4, <1>5 DEF OnceInv

\* The invoice is signed by the first request that gets so far, and what comes
\* after a signing is no signing.
LEMMA OnceCall ==
  ASSUME OnceInv, AloneInv, TypeOK, NEW u \in Ops, Call(u)
  PROVE  OnceInv'
<1>1. /\ \A v \in Ops \ {u} : op'[v] = op[v]
      /\ op[u].pc = "call" /\ op'[u].pc = "record"
      /\ op'[u].id = op[u].id /\ op'[u].stage = op[u].stage
  <2>1. PICK ok : op' = [op EXCEPT ![u].pc = "record", ![u].ok = ok]
    BY DEF Call
  <2>2. op'[u].id = op[u].id /\ op'[u].stage = op[u].stage
    BY <2>1 DEF TypeOK, Op
  <2> QED
    BY <2>2, CallEffect
<1>2. UNCHANGED <<rows, used>> /\ mishaps \subseteq mishaps'
  BY DEF Call, Note
<1>3. \A v \in Ops : op'[v].pc \in {"call", "record"} => op'[v].id # 0
  BY <1>1 DEF OnceInv
<1>4. op[u].stage \in Stages /\ Signed \in Stages
  BY DEF TypeOK, Op, Stages, Signed
<1>5. ASSUME mishaps' = {}
      PROVE  \A v \in Ops \ {u} : ~Active(v)
  BY <1>1, <1>2, <1>5 DEF AloneInv, Active
<1>6. ASSUME mishaps' = {}, done[Signed] # {}
      PROVE  resigned' = {} /\ Settled' /\ \A v \in Ops : Past(v)'
  <2>1. mishaps = {} /\ resigned = {} /\ Settled /\ \A v \in Ops : Past(v)
    BY <1>2, <1>6 DEF OnceInv
  <2>2. op[u].stage > Signed
    BY <1>1, <2>1 DEF Past
  <2>3. resigned' = {}
    BY <1>4, <2>1, <2>2 DEF Call, Stages, Signed
  <2>4. Live # {} /\ \A i \in Live : Blocked(rows[i])
    BY <1>1, <1>5, <1>6, <2>1 DEF Settled, Active
  <2>5. Settled'
    BY <1>2, <2>4 DEF Settled, Live
  <2>6. Past(u)'
    BY <1>1, <2>2 DEF Past
  <2>7. \A v \in Ops \ {u} : Past(v)'
    BY <1>1, <2>1 DEF Past
  <2> QED
    BY <2>3, <2>5, <2>6, <2>7
<1>7. ASSUME mishaps' = {}, done[Signed] = {}
      PROVE  resigned' = {} /\ (done'[Signed] # {} => Settled' /\ \A v \in Ops : Past(v)')
  <2>1. resigned' = {}
    BY <1>2, <1>4, <1>7 DEF Call, OnceInv
  <2>2. ASSUME done'[Signed] # {}
        PROVE  op[u].stage = Signed /\ op'[u].ok
    <3>1. PICK performed, ok \in BOOLEAN :
            /\ done' = [done EXCEPT ![op[u].stage] =
                          IF performed THEN @ \cup {op[u].irn} ELSE @]
            /\ op' = [op EXCEPT ![u].pc = "record", ![u].ok = ok]
            /\ Note("unanswered", performed /\ ~ok)
      BY DEF Call
    <3>2. op[u].stage = Signed /\ performed
      BY <1>4, <1>7, <2>2, <3>1 DEF TypeOK
    <3>3. ok
      BY <1>7, <3>1, <3>2 DEF Note
    <3>4. op'[u].ok = ok
      BY <3>1 DEF TypeOK, Op
    <3> QED
      BY <3>2, <3>3, <3>4
  <2>3. ASSUME done'[Signed] # {}
        PROVE  Settled' /\ Past(u)'
    BY <1>1, <2>2, <2>3 DEF Settled, Past
  <2>4. \A v \in Ops \ {u} : Past(v)'
    BY <1>1, <1>5, <1>7 DEF Active, Past
  <2> QED
    BY <2>1, <2>3, <2>4
<1> QED
  BY <1>3, <1>6, <1>7 DEF OnceInv

\* The answer to a signing is saved before the request goes on or ends, and
\* the records of later stages keep the gate shut.
LEMMA OnceRecord ==
  ASSUME OnceInv, AloneInv, TypeOK, NEW u \in Ops, RecordAnswer(u)
  PROVE  OnceInv'
<1>1. /\ \A v \in Ops \ {u} : op'[v] = op[v]
      /\ op[u].pc = "record" /\ UNCHANGED <<done, used, resigned>>
      /\ op'[u].id = op[u].id /\ mishaps \subseteq mishaps'
      /\ \/ op[u].ok /\ op'[u].pc = "call" /\ op'[u].stage = op[u].stage + 1
         \/ op'[u].pc = "done"
  BY RecordEffect DEF RecordAnswer, Note
<1>2. \A v \in Ops : op'[v].pc \in {"call", "record"} => op'[v].id # 0
  BY <1>1 DEF OnceInv
<1>3. op[u].stage \in Stages /\ Recorded(u) \in Record
  BY RecordedType DEF TypeOK, Op
<1>4. ASSUME mishaps' = {}, done[Signed] # {}
      PROVE  Settled' /\ \A v \in Ops : Past(v)'
  <2>1. mishaps = {} /\ \A v \in Ops : Past(v)
    BY <1>1, <1>4 DEF OnceInv
  <2>2. op[u].stage > Signed \/ (op[u].stage = Signed /\ op[u].ok)
    BY <1>1, <2>1 DEF Past
  <2>3. Past(u)'
    BY <1>1, <1>3, <2>2 DEF Past, Stages, Signed
  <2>4. \A v \in Ops \ {u} : Past(v)'
    BY <1>1, <2>1 DEF Past
  <2>5. Save(op[u].id, Recorded(u))
    BY <1>4 DEF RecordAnswer, Note
  <2>6. op[u].id \in RowIds /\ op[u].id \in used
    BY <1>1, RowIdsAssumption DEF AloneInv, OnceInv, TypeOK
  <2>7. rows'[op[u].id] = [Recorded(u) EXCEPT !.live = TRUE]
    BY <2>5, <2>6 DEF Save, TypeOK
  <2>8. Live' = {op[u].id}
    <3>1. Live \subseteq {op[u].id}
      BY <1>1, <2>1 DEF AloneInv, Active
    <3>2. \A j \in RowIds : j # op[u].id => rows'[j] = rows[j]
      BY <2>5 DEF Save, TypeOK
    <3>3. rows'[op[u].id].live
      BY <1>3, <2>7 DEF Record
    <3> QED
      BY <1>1, <2>6, <3>1, <3>2, <3>3 DEF Live, TypeOK
  <2>9. Blocked(rows'[op[u].id])
    <3>1. /\ rows'[op[u].id].cur = op[u].stage
          /\ op[u].stage = Signed => rows'[op[u].id].hist[Signed] = "success"
      BY <1>3, <2>2, <2>7 DEF TypeOK, Op, Record, Recorded, Stages, Signed
    <3> QED
      BY <1>3, <2>2, <3>1
         DEF Blocked, HasFailedStatus, Stages, Signed, Transmitted, Confirmed
  <2> QED
    BY <2>3, <2>4, <2>8, <2>9 DEF Settled
<1> QED
  BY <1>1, <1>2, <1>4 DEF OnceInv

\* No step signs an invoice twice without a mishap.
LEMMA OnceNext ==
  ASSUME OnceInv, AloneInv, TypeOK, [Next]_vars
  PROVE  OnceInv'
<1>1. ASSUME NEW u \in Ops, OpStep(u)
      PROVE  OnceInv'
  BY <1>1, OnceLoad, OnceEnd, OnceWrite, OnceCall, OnceRecord DEF OpStep
<1>2. ASSUME NEW p \in Payments, PaymentStep(p)
      PROVE  OnceInv'
  <2>1. UNCHANGED resigned
    BY <1>2 DEF PaymentStep, SendPayment, FindPaid, StorePayment
  <2> QED
    BY <1>2, <2>1, PaymentEffect, OnceFrame
<1>3. ASSUME NEW i \in RowIds, Delete(i)
      PROVE  OnceInv'
  BY <1>3, OnceFrame DEF Delete
<1>4. CASE Tick \/ UNCHANGED vars
  BY <1>4, OnceFrame DEF Tick, vars
<1> QED
  BY <1>1, <1>2, <1>3, <1>4 DEF Next

\* Plain uploads, one after another, have FIRS sign an IRN at most once: the
\* gate on CurrentStatus and HasFailedStatus is shut before the next one starts.
THEOREM SignedOnceHolds == Spec => []SignedOnce
<1>1. Init => OnceInv
  BY DEF Init, OnceInv, Stages, Signed
<1>2. TypeOK /\ AloneInv /\ OnceInv /\ [Next]_vars => OnceInv'
  BY OnceNext
<1>3. OnceInv => SignedOnce
  BY DEF OnceInv, SignedOnce
<1> QED
  BY <1>1, <1>2, <1>3, PipelineAlone, PTL DEF Spec

-----------------------------------------------------------------------------
(* Payment updates *)

\* The copy of a request under way has the payment status, declared and in the
\* column, and the IRN of its record: saved whole it undoes no payment update.
Current(u) ==
  Active(u) /\ op[u].id # 0 =>
    /\ op[u].copy.pay = rows[op[u].id].pay
    /\ op[u].copy.said = rows[op[u].id].said
    /\ op[u].copy.irn = rows[op[u].id].irn

\* What a payment update under way has done, and the record it has yet to do.
Owed(p) ==
  Paying(p) =>
    /\ firsPay[payment[p].irn] = payment[p].status
    /\ \E i \in Live : rows[i].irn = payment[p].irn
    /\ payment[p].pc = "store" => payment[p].id \in Live

\* A record shows one payment status, and FIRS holds no other for its IRN.
Agree(i) ==
  /\ rows[i].said = rows[i].pay
  /\ firsPay[rows[i].irn] # "none" => rows[i].pay = firsPay[rows[i].irn]

\* PaymentAgrees is not inductive: without a mishap one payment update runs at
\* a time and no request beside it, so that no copy is older than the record;
\* a record once inserted is live, FIRS has no payment before there is a
\* record, a record agrees with itself before FIRS has one, so that signing
\* brings the status of the column, and an update under way finds the record
\* it is for.
PayInv ==
  /\ "crossed" \notin mishaps =>
       \A p \in Payments : Paying(p) => /\ \A u \in Ops : ~Active(u)
                                        /\ \A q \in Payments : Paying(q) => q = p
  /\ "deleted" \notin mishaps => used \subseteq Live
  /\ mishaps \cap PaymentMishaps = {} =>
       /\ used = {} => \A irn \in IRNs : firsPay[irn] = "none"
       /\ \A u \in Ops : Current(u)
       /\ \A p \in Payments : Owed(p)
       /\ (\A p \in Payments : ~Paying(p)) => \A i \in Live : Agree(i)

\* A request that runs beside no payment update, and leaves agreement where it
\* found it, keeps this.
LEMMA PayStep ==
  ASSUME PayInv, TypeOK, NEW u \in Ops, UNCHANGED payment,
         mishaps \subseteq mishaps',
         \A v \in Ops \ {u} : op'[v] = op[v],
         Active(u) \/ ("crossed" \notin mishaps' => \A p \in Payments : ~Paying(p)),
         "deleted" \notin mishaps' => used' \subseteq Live',
         mishaps' \cap PaymentMishaps = {} /\ (\A i \in Live : Agree(i)) =>
           /\ used' # {} \/ UNCHANGED <<used, firsPay>>
           /\ \A v \in Ops \ {u} : ~Active(v)
           /\ Current(u)'
           /\ \A i \in Live' : Agree(i)'
  PROVE  PayInv'
<1>1. \A v \in Ops \ {u} : Active(v)' <=> Active(v)
  BY DEF Active
<1>2. \A p \in Payments : Paying(p)' <=> Paying(p)
  BY DEF Paying
<1>3. ASSUME "crossed" \notin mishaps'
      PROVE  \A p \in Payments : ~Paying(p)
  BY <1>3 DEF PayInv
<1>4. ASSUME mishaps' \cap PaymentMishaps = {}
      PROVE  /\ used' = {} => \A irn \in IRNs : firsPay'[irn] = "none"
             /\ \A v \in Ops : Current(v)'
             /\ \A p \in Payments : Owed(p)'
             /\ \A i \in Live' : Agree(i)'
  <2>1. "crossed" \notin mishaps' /\ mishaps \cap PaymentMishaps = {}
    BY <1>4 DEF PaymentMishaps
  <2>2. \A p \in Payments : ~Paying(p)
    BY <1>3, <2>1
  <2>3. \A i \in Live : Agree(i)
    BY <2>1, <2>2 DEF PayInv
  <2>4. /\ used' # {} \/ UNCHANGED <<used, firsPay>>
        /\ \A v \in Ops \ {u} : ~Active(v)
        /\ Current(u)'
        /\ \A i \in Live' : Agree(i)'
    BY <1>4, <2>3
  <2>5. \A v \in Ops \ {u} : Current(v)'
    BY <1>1, <2>4 DEF Current
  <2>6. used' = {} => \A irn \in IRNs : firsPay'[irn] = "none"
    BY <2>1, <2>4 DEF PayInv
  <2>7. \A p \in Payments : Owed(p)'
    BY <1>2, <2>2 DEF Owed
  <2> QED
    BY <2>4, <2>5, <2>6, <2>7
<1> QED
  BY <1>2, <1>3, <1>4 DEF PayInv

\* A request copies the record as it is.
LEMMA PayLoad ==
  ASSUME PayInv, TypeOK, NEW u \in Ops, NEW kind \in Kinds, Load(u, kind)
  PROVE  PayInv'
<1>1. /\ UNCHANGED <<rows, used, firsPay, payment>> /\ mishaps \subseteq mishaps'
      /\ "crossed" \notin mishaps' => \A p \in Payments : ~Paying(p)
      /\ "overlap" \notin mishaps' => \A v \in Ops : ~Active(v)
  BY DEF Load, NoteStart
<1>2. /\ \A v \in Ops \ {u} : op'[v] = op[v]
      /\ op'[u].id = FindByNumber
      /\ op'[u].copy = IF FindByNumber = 0 THEN NoRecord ELSE rows[FindByNumber]
  BY LoadEffect
<1>3. Current(u)'
  BY <1>1, <1>2 DEF Current
<1>4. "deleted" \notin mishaps' => used' \subseteq Live'
  BY <1>1 DEF PayInv, Live
<1>5. Live' = Live /\ \A i \in Live : Agree(i)' <=> Agree(i)
  BY <1>1 DEF Live, Agree
<1>6. mishaps' \cap PaymentMishaps = {} => "overlap" \notin mishaps'
  BY DEF PaymentMishaps
<1> QED
  BY <1>1, <1>2, <1>3, <1>4, <1>5, <1>6, PayStep

\* A request that ends without writing leaves the record alone, and one that
\* deprecates an IRN is a mishap.
LEMMA PayEnd ==
  ASSUME PayInv, AloneInv, TypeOK, NEW u \in Ops, Deprecate(u) \/ Refuse(u) \/ Crash(u)
  PROVE  PayInv'
<1>1. /\ UNCHANGED <<rows, used, payment>> /\ mishaps \subseteq mishaps' /\ Active(u)
      /\ mishaps' \cap PaymentMishaps = {} => UNCHANGED firsPay
  BY DEF Deprecate, Refuse, Crash, Active, PaymentMishaps
<1>2. /\ op'[u].id = op[u].id /\ op'[u].copy = op[u].copy
      /\ \A v \in Ops \ {u} : op'[v] = op[v]
  BY EndType
<1>3. Live' = Live
  BY <1>1 DEF Live
<1>4. mishaps' \cap PaymentMishaps = {} =>
        /\ "overlap" \notin mishaps
        /\ mishaps \cap PaymentMishaps = {}
  BY <1>1 DEF PaymentMishaps
<1>5. mishaps' \cap PaymentMishaps = {} => \A v \in Ops \ {u} : ~Active(v)
  BY <1>1, <1>4 DEF AloneInv
<1>6. mishaps' \cap PaymentMishaps = {} => Current(u)'
  BY <1>1, <1>2, <1>4 DEF PayInv, Current
<1>7. mishaps' \cap PaymentMishaps = {} => \A i \in Live : Agree(i)' <=> Agree(i)
  BY <1>1 DEF Agree
<1>8. "deleted" \notin mishaps' => used' \subseteq Live'
  BY <1>1, <1>3 DEF PayInv
<1> QED
  BY <1>1, <1>2, <1>3, <1>5, <1>6, <1>7, <1>8, PayStep

\* A new record takes the status of its payload while FIRS has none, and an
\* upload over a record with the status it had.
LEMMA PayWrite ==
  ASSUME PayInv, AloneInv, TypeOK, NEW u \in Ops, Insert(u) \/ Overwrite(u) \/ Replace(u)
  PROVE  PayInv'
<1>1. /\ mishaps \subseteq mishaps' /\ Active(u) /\ UNCHANGED <<firsPay, payment>>
  BY DEF Insert, Overwrite, Replace, Note, Active
<1>2. /\ op[u].copy \in Record /\ day \in IRNs /\ PayloadIRN(u) \subseteq IRNs
      /\ NoRecord \in Record /\ 0 \notin RowIds /\ Declared \subseteq PayStatus
  BY StartTypes, RecordTypes, RowIdsAssumption DEF TypeOK, Op
<1>3. mishaps' \cap PaymentMishaps = {} =>
        /\ "overlap" \notin mishaps /\ "deleted" \notin mishaps
        /\ "restated" \notin mishaps'
        /\ mishaps \cap PaymentMishaps = {}
  BY <1>1 DEF PaymentMishaps
<1>4. mishaps' \cap PaymentMishaps = {} => \A v \in Ops \ {u} : ~Active(v)
  BY <1>1, <1>3 DEF AloneInv
\* Both kinds of write put a record with the status of FIRS in the table.
<1>5. ASSUME NEW i \in RowIds, NEW row \in Record, NEW stage \in Stages,
             Save(i, row), Proceed(u, i, row, stage),
             used' = used \cup {i},
             mishaps' \cap PaymentMishaps = {} /\ (\A j \in Live : Agree(j)) =>
               /\ row.said = row.pay
               /\ firsPay[row.irn] # "none" => row.pay = firsPay[row.irn]
      PROVE  PayInv'
  <2>1. /\ \A v \in Ops \ {u} : op'[v] = op[v]
        /\ op'[u].id = i /\ op'[u].copy = [row EXCEPT !.live = TRUE]
    BY <1>5, ProceedType
  <2>2. /\ rows'[i] = [row EXCEPT !.live = TRUE]
        /\ \A j \in RowIds : j # i => rows'[j] = rows[j]
    BY <1>5 DEF Save, TypeOK
  <2>3. /\ rows'[i].live /\ rows'[i].pay = row.pay /\ rows'[i].said = row.said
        /\ rows'[i].irn = row.irn
    BY <2>2 DEF Record
  <2>4. Live' = Live \cup {i}
    BY <1>5, <2>2, <2>3 DEF Live, TypeOK
  <2>5. "deleted" \notin mishaps' => used' \subseteq Live'
    BY <1>1, <1>5, <2>4 DEF PayInv
  <2>6. Current(u)'
    BY <2>1, <2>2 DEF Current
  <2>7. ASSUME mishaps' \cap PaymentMishaps = {}, \A j \in Live : Agree(j), NEW j \in Live'
        PROVE  Agree(j)'
    <3>1. CASE j = i
      BY <1>1, <1>5, <2>3, <2>7, <3>1 DEF Agree
    <3>2. CASE j # i
      <4>1. j \in Live /\ rows'[j] = rows[j]
        BY <2>2, <2>4, <2>7, <3>2 DEF Live, TypeOK
      <4> QED
        BY <1>1, <2>7, <4>1 DEF Agree
    <3> QED
      BY <3>1, <3>2
  <2>8. used' # {}
    BY <1>5
  <2> QED
    BY <1>1, <1>4, <2>1, <2>5, <2>6, <2>7, <2>8, PayStep
<1>6. CASE Insert(u)
  <2>1. PICK i \in RowIds \ used, irn \in PayloadIRN(u), status \in Declared :
          LET row == [Fresh(NoRecord, irn, status) EXCEPT !.irn = irn, !.created = day,
                                                          !.pay = status]
          IN /\ Save(i, row) /\ used' = used \cup {i} /\ Proceed(u, i, row, Validated)
             /\ op[u].id = 0
    BY <1>6 DEF Insert
  <2> DEFINE fresh == Fresh(NoRecord, irn, status)
             row == [fresh EXCEPT !.irn = irn, !.created = day, !.pay = status]
  <2>6. irn \in IRNs /\ status \in PayStatus
    BY <1>2
  <2>7. fresh \in Record /\ fresh.said = status
    BY <2>6, RecordTypes
  <2>2. row \in Record /\ row.irn = irn /\ row.pay = status /\ row.said = status
    <3> HIDE DEF fresh
    <3> QED
      BY <1>2, <2>6, <2>7 DEF Record
  <2>3. /\ Save(i, row) /\ used' = used \cup {i} /\ Proceed(u, i, row, Validated)
        /\ op[u].id = 0
    BY <2>1
  <2> HIDE DEF row
  <2>4. ASSUME mishaps' \cap PaymentMishaps = {}
        PROVE  firsPay[irn] = "none"
    <3>1. Live \subseteq {0}
      BY <1>1, <1>3, <2>3, <2>4 DEF AloneInv
    <3>2. used = {}
      BY <1>2, <1>3, <2>4, <3>1 DEF PayInv, TypeOK
    <3> QED
      BY <1>3, <2>6, <2>4, <3>2 DEF PayInv
  <2>5. Validated \in Stages
    BY StartTypes
  <2> QED
    BY <1>5, <2>2, <2>3, <2>4, <2>5
<1>7. CASE Overwrite(u)
  <2>1. PICK irn \in PayloadIRN(u), status \in Declared :
          LET row == Carry(op[u].copy, irn, status)
          IN /\ Save(op[u].id, row) /\ Proceed(u, op[u].id, row, ResumeAt(row))
             /\ op[u].id # 0 /\ UNCHANGED used /\ Note("restated", status # row.pay)
    BY <1>7 DEF Overwrite
  <2> DEFINE row == Carry(op[u].copy, irn, status)
  <2>8. irn \in IRNs /\ status \in PayStatus /\ op[u].copy \in Record
    BY <1>2
  <2>2. /\ row \in Record /\ row.pay = op[u].copy.pay /\ row.irn = op[u].copy.irn
        /\ row.said = status
    BY <2>8, RecordTypes
  <2>3. /\ Save(op[u].id, row) /\ Proceed(u, op[u].id, row, ResumeAt(row))
        /\ op[u].id # 0 /\ UNCHANGED used
        /\ "restated" \notin mishaps' => status = row.pay
    BY <2>1 DEF Note
  <2> HIDE DEF row
  <2>4. op[u].id \in RowIds /\ op[u].id \in used
    BY <2>3 DEF AloneInv, TypeOK
  <2>5. ResumeAt(row) \in Stages
    BY StartTypes
  <2>6. ASSUME mishaps' \cap PaymentMishaps = {}, \A j \in Live : Agree(j)
        PROVE  /\ row.said = row.pay
               /\ firsPay[row.irn] # "none" => row.pay = firsPay[row.irn]
    <3>1. op[u].copy.pay = rows[op[u].id].pay /\ op[u].copy.irn = rows[op[u].id].irn
      BY <1>1, <1>3, <2>3, <2>6 DEF PayInv, Current
    <3>2. op[u].id \in Live
      BY <1>3, <2>4, <2>6 DEF PayInv
    <3>3. Agree(op[u].id)
      BY <2>6, <3>2
    <3> QED
      BY <1>3, <2>2, <2>3, <2>6, <3>1, <3>3 DEF Agree
  <2>7. used' = used \cup {op[u].id}
    BY <2>3, <2>4
  <2> QED
    BY <1>5, <2>2, <2>3, <2>4, <2>5, <2>6, <2>7
<1>8. CASE Replace(u)
  <2>1. mishaps' \cap PaymentMishaps # {}
    BY <1>8 DEF Replace, PaymentMishaps
  <2>2. PICK irn \in PayloadIRN(u), status \in Declared :
          LET row == [Fresh(op[u].copy, irn, status) EXCEPT !.irn = irn]
          IN /\ Save(op[u].id, row) /\ Proceed(u, op[u].id, row, Validated)
             /\ op[u].id # 0 /\ UNCHANGED used
    BY <1>8 DEF Replace
  <2> DEFINE fresh == Fresh(op[u].copy, irn, status)
             row == [fresh EXCEPT !.irn = irn]
  <2>7. irn \in IRNs /\ status \in PayStatus /\ op[u].copy \in Record
    BY <1>2
  <2>8. fresh \in Record
    BY <2>7, RecordTypes
  <2>3. row \in Record
    <3> HIDE DEF fresh
    <3> QED
      BY <2>7, <2>8 DEF Record
  <2>4. /\ Save(op[u].id, row) /\ Proceed(u, op[u].id, row, Validated)
        /\ op[u].id # 0 /\ UNCHANGED used
    BY <2>2
  <2> HIDE DEF row
  <2>5. op[u].id \in RowIds /\ op[u].id \in used
    BY <2>4 DEF AloneInv, TypeOK
  <2>6. used' = used \cup {op[u].id} /\ Validated \in Stages
    BY <2>4, <2>5, StartTypes
  <2> QED
    BY <1>5, <2>1, <2>3, <2>4, <2>5, <2>6
<1> QED
  BY <1>6, <1>7, <1>8

\* Calls leave the records alone, and signing brings FIRS the status that the
\* record shows; a recorded answer keeps the payment status.
LEMMA PayPipeline ==
  ASSUME PayInv, AloneInv, OnceInv, TypeOK, NEW u \in Ops, Call(u) \/ RecordAnswer(u)
  PROVE  PayInv'
<1>1. /\ mishaps \subseteq mishaps' /\ Active(u) /\ UNCHANGED <<payment, used>>
      /\ op[u].pc \in {"call", "record"}
  BY DEF Call, RecordAnswer, Note, Active
<1>2. mishaps' \cap PaymentMishaps = {} =>
        /\ "overlap" \notin mishaps
        /\ mishaps \cap PaymentMishaps = {}
  BY <1>1 DEF PaymentMishaps
<1>3. mishaps' \cap PaymentMishaps = {} => \A v \in Ops \ {u} : ~Active(v)
  BY <1>1, <1>2 DEF AloneInv
<1>4. op[u].id \in used /\ op[u].id \in RowIds
  BY <1>1 DEF AloneInv, OnceInv, TypeOK
<1>5. op[u].copy \in Record /\ op[u].irn \in IRNs
  BY DEF TypeOK, Op
<1>6. CASE Call(u)
  <2>1. UNCHANGED rows
    BY <1>6 DEF Call
  <2>2. op'[u].id = op[u].id /\ op'[u].copy = op[u].copy
    <3>1. PICK ok : op' = [op EXCEPT ![u].pc = "record", ![u].ok = ok]
      BY <1>6 DEF Call
    <3> QED
      BY <3>1 DEF TypeOK, Op
  <2>3. \A v \in Ops \ {u} : op'[v] = op[v]
    BY <1>6, CallEffect
  <2>4. mishaps' \cap PaymentMishaps = {} => Current(u)'
    BY <1>1, <1>2, <2>1, <2>2 DEF PayInv, Current
  <2>5. Live' = Live /\ used' # {}
    BY <1>1, <1>4, <2>1 DEF Live
  <2>6. "deleted" \notin mishaps' => used' \subseteq Live'
    BY <1>1, <2>5 DEF PayInv
  <2>7. ASSUME mishaps' \cap PaymentMishaps = {}, \A i \in Live : Agree(i), NEW i \in Live'
        PROVE  Agree(i)'
    <3>1. Agree(i) /\ i \in RowIds
      BY <2>5, <2>7 DEF Live, TypeOK
    <3>2. i = op[u].id
      <4>1. Live \subseteq {op[u].id}
        BY <1>1, <1>2, <2>7 DEF AloneInv
      <4> QED
        BY <2>5, <2>7, <4>1
    <3>3. op[u].copy.said = rows[i].said
      BY <1>1, <1>2, <1>4, <2>7, <3>2, RowIdsAssumption DEF PayInv, Current
    <3>4. CASE UNCHANGED firsPay
      BY <2>1, <3>1, <3>4 DEF Agree
    <3>5. ASSUME NEW status \in SignedPay(u), firsPay' = [firsPay EXCEPT ![op[u].irn] = status]
          PROVE  Agree(i)'
      <4>1. status \in {rows[i].said, firsPay[op[u].irn]}
        BY <3>3, <3>5 DEF SignedPay
      <4>2. rows[i].irn \in IRNs
        BY <3>1 DEF TypeOK, Record
      <4>3. firsPay'[rows[i].irn] \in {rows[i].said, firsPay[rows[i].irn]}
        BY <1>5, <3>5, <4>1, <4>2 DEF TypeOK
      <4> QED
        BY <2>1, <3>1, <4>3 DEF Agree
    <3>6. UNCHANGED firsPay \/ \E status \in SignedPay(u) :
                                 firsPay' = [firsPay EXCEPT ![op[u].irn] = status]
      BY <1>6 DEF Call
    <3> QED
      BY <3>4, <3>5, <3>6
  <2> QED
    BY <1>1, <1>3, <2>3, <2>4, <2>5, <2>6, <2>7, PayStep
<1>7. CASE RecordAnswer(u)
  <2>1. /\ \A v \in Ops \ {u} : op'[v] = op[v]
        /\ op'[u].id = op[u].id /\ op'[u].copy = Recorded(u)
        /\ Save(op[u].id, Recorded(u)) \/ UNCHANGED rows
    BY <1>7, RecordEffect
  <2>0. UNCHANGED firsPay
    BY <1>7 DEF RecordAnswer
  <2>2. /\ Recorded(u) \in Record /\ Recorded(u).said = op[u].copy.said
        /\ Recorded(u).pay = op[u].copy.pay /\ Recorded(u).irn = op[u].copy.irn
    BY <1>5, RecordedType DEF Recorded, Record
  <2>3. /\ \A j \in RowIds : j # op[u].id => rows'[j] = rows[j]
        /\ rows'[op[u].id] \in {rows[op[u].id], [Recorded(u) EXCEPT !.live = TRUE]}
    BY <1>4, <2>1 DEF Save, TypeOK
  <2>4. [Recorded(u) EXCEPT !.live = TRUE].live
    BY <2>2 DEF Record
  <2>5. Live \subseteq Live' /\ Live' \subseteq Live \cup {op[u].id}
    BY <1>1, <1>4, <2>3, <2>4 DEF Live, TypeOK
  <2>6. "deleted" \notin mishaps' => used' \subseteq Live'
    BY <1>1, <2>5 DEF PayInv
  <2>7. ASSUME mishaps' \cap PaymentMishaps = {}
        PROVE  /\ rows'[op[u].id].pay = rows[op[u].id].pay
               /\ rows'[op[u].id].said = rows[op[u].id].said
               /\ rows'[op[u].id].irn = rows[op[u].id].irn
               /\ op'[u].copy.pay = rows[op[u].id].pay
               /\ op'[u].copy.said = rows[op[u].id].said
               /\ op'[u].copy.irn = rows[op[u].id].irn
    <3>1. /\ op[u].copy.pay = rows[op[u].id].pay /\ op[u].copy.irn = rows[op[u].id].irn
          /\ op[u].copy.said = rows[op[u].id].said
      BY <1>1, <1>2, <1>4, <2>7, RowIdsAssumption DEF PayInv, Current
    <3>2. /\ [Recorded(u) EXCEPT !.live = TRUE].pay = Recorded(u).pay
          /\ [Recorded(u) EXCEPT !.live = TRUE].said = Recorded(u).said
          /\ [Recorded(u) EXCEPT !.live = TRUE].irn = Recorded(u).irn
      BY <2>2 DEF Record
    <3> QED
      BY <2>1, <2>2, <2>3, <3>1, <3>2
  <2>8. mishaps' \cap PaymentMishaps = {} => Current(u)'
    BY <2>1, <2>7 DEF Current
  <2>9. ASSUME mishaps' \cap PaymentMishaps = {}, \A i \in Live : Agree(i), NEW j \in Live'
        PROVE  Agree(j)'
    <3>1. op[u].id \in Live
      BY <1>2, <1>4, <2>9 DEF PayInv, PaymentMishaps
    <3>2. j \in Live /\ j \in RowIds
      BY <2>5, <2>9, <3>1 DEF Live, TypeOK
    <3>3. rows'[j].pay = rows[j].pay /\ rows'[j].said = rows[j].said /\ rows'[j].irn = rows[j].irn
      BY <2>3, <2>7, <2>9, <3>2
    <3> QED
      BY <2>0, <2>9, <3>2, <3>3 DEF Agree
  <2>10. used' # {}
    BY <1>1, <1>4
  <2> QED
    BY <1>1, <1>3, <2>1, <2>6, <2>8, <2>9, <2>10, PayStep
<1> QED
  BY <1>6, <1>7

\* A payment update starts with FIRS, for an IRN that has a record.
LEMMA PaySend ==
  ASSUME PayInv, TypeOK, NEW p \in Payments, NEW irn \in IRNs, NEW status \in PayStatus,
         SendPayment(p, irn, status)
  PROVE  PayInv'
<1>1. PICK performed \in BOOLEAN, ok \in BOOLEAN :
        /\ ok => performed
        /\ firsPay' = IF performed THEN [firsPay EXCEPT ![irn] = status] ELSE firsPay
        /\ payment' = [payment EXCEPT ![p] = [@ EXCEPT !.pc = IF ok THEN "sent" ELSE "done",
                                                       !.irn = irn, !.status = status]]
        /\ mishaps' = mishaps \cup {k \in {"crossed", "orphan", "unanswered"} :
             \/ k = "crossed" /\ ((\E u \in Ops : Active(u)) \/ \E q \in Payments : Paying(q))
             \/ k = "orphan" /\ \A i \in Live : rows[i].irn # irn
             \/ k = "unanswered" /\ performed /\ ~ok}
  BY DEF SendPayment
<1>2. UNCHANGED <<rows, used, op>>
  BY DEF SendPayment
<1>3. Live' = Live /\ \A u \in Ops : Active(u)' <=> Active(u)
  BY <1>2 DEF Live, Active
<1>4. /\ payment'[p].pc = IF ok THEN "sent" ELSE "done"
      /\ payment'[p].irn = irn /\ payment'[p].status = status
      /\ \A q \in Payments \ {p} : payment'[q] = payment[q]
  <2> DEFINE pc == IF ok THEN "sent" ELSE "done"
             new == [payment[p] EXCEPT !.pc = pc, !.irn = irn, !.status = status]
  <2> HIDE DEF pc
  <2>1. new.pc = pc /\ new.irn = irn /\ new.status = status
    BY DEF TypeOK, Payment
  <2>2. payment' = [payment EXCEPT ![p] = new]
    BY <1>1 DEF pc
  <2> HIDE DEF new
  <2> QED
    BY <2>1, <2>2 DEF TypeOK, pc
<1>5. ASSUME "crossed" \notin mishaps'
      PROVE  (\A u \in Ops : ~Active(u)) /\ (\A q \in Payments : ~Paying(q))
  BY <1>1, <1>5
<1>6. \A q \in Payments \ {p} : Paying(q)' <=> Paying(q)
  BY <1>4 DEF Paying
<1>7. Paying(p)' <=> ok
  BY <1>4 DEF Paying
<1>8. ASSUME mishaps' \cap PaymentMishaps = {}
      PROVE  /\ used' = {} => \A i \in IRNs : firsPay'[i] = "none"
             /\ \A u \in Ops : Current(u)'
             /\ \A q \in Payments : Owed(q)'
             /\ (\A q \in Payments : ~Paying(q)')
                  => \A i \in Live' : Agree(i)'
  <2>1. /\ mishaps \cap PaymentMishaps = {} /\ "crossed" \notin mishaps'
        /\ \E i \in Live : rows[i].irn = irn
        /\ performed => ok
    BY <1>1, <1>8 DEF PaymentMishaps
  <2>2. used' # {}
    BY <1>2, <2>1 DEF Live
  <2>3. \A u \in Ops : Current(u)'
    BY <1>3, <1>5, <2>1 DEF Current
  <2>4. \A q \in Payments \ {p} : Owed(q)'
    BY <1>5, <1>6, <2>1 DEF Owed
  <2>5. Owed(p)'
    <3>1. ok => firsPay'[irn] = status
      BY <1>1 DEF TypeOK
    <3>2. payment'[p].pc # "store"
      BY <1>4
    <3>3. \E i \in Live' : rows'[i].irn = irn
      BY <1>2, <1>3, <2>1
    <3> QED
      BY <1>4, <1>7, <3>1, <3>2, <3>3 DEF Owed
  <2>6. ASSUME \A q \in Payments : ~Paying(q)'
        PROVE  \A i \in Live' : Agree(i)'
    <3>1. firsPay' = firsPay
      BY <1>1, <1>7, <2>1, <2>6
    <3>2. \A i \in Live : Agree(i)
      BY <1>5, <2>1 DEF PayInv
    <3> QED
      BY <1>2, <1>3, <3>1, <3>2 DEF Agree
  <2> QED
    BY <2>2, <2>3, <2>4, <2>5, <2>6
<1>9. ASSUME "crossed" \notin mishaps', NEW q \in Payments, Paying(q)'
      PROVE  /\ \A u \in Ops : ~Active(u)'
             /\ \A r \in Payments : Paying(r)' => r = q
  BY <1>3, <1>5, <1>6, <1>9
<1>10. "deleted" \notin mishaps' => used' \subseteq Live'
  BY <1>1, <1>2, <1>3 DEF PayInv
<1> QED
  BY <1>8, <1>9, <1>10 DEF PayInv

\* It finds the record, which is there, and neither the IRN nor the status it
\* was sent for changes.
LEMMA PayFind ==
  ASSUME PayInv, TypeOK, NEW p \in Payments, FindPaid(p)
  PROVE  PayInv'
<1>1. /\ UNCHANGED <<rows, used, op, firsPay, mishaps>> /\ payment[p].pc = "sent"
  BY DEF FindPaid
<1>2. Live' = Live /\ \A u \in Ops : (Active(u)' <=> Active(u)) /\ (Current(u)' <=> Current(u))
  BY <1>1 DEF Live, Active, Current
<1>3. \/ /\ \A i \in Live : rows[i].irn # payment[p].irn
         /\ payment'[p].pc = "done"
      \/ payment'[p].pc = "store" /\ payment'[p].id \in Live
  <2>1. CASE payment' = [payment EXCEPT ![p].pc = "done"]
             /\ {i \in Live : rows[i].irn = payment[p].irn} = {}
    BY <2>1 DEF TypeOK, Payment
  <2>2. ASSUME NEW i \in Live,
               payment' = [payment EXCEPT ![p] = [@ EXCEPT !.pc = "store", !.id = i,
                                                          !.data = rows[i].data]]
        PROVE  payment'[p].pc = "store" /\ payment'[p].id \in Live
    BY <2>2 DEF TypeOK, Payment
  <2> QED
    BY <2>1, <2>2 DEF FindPaid
<1>4. /\ payment'[p].irn = payment[p].irn /\ payment'[p].status = payment[p].status
      /\ \A q \in Payments \ {p} : payment'[q] = payment[q]
  <2>1. CASE payment' = [payment EXCEPT ![p].pc = "done"]
    BY <2>1 DEF TypeOK, Payment
  <2>2. ASSUME NEW i \in Live,
               payment' = [payment EXCEPT ![p] = [@ EXCEPT !.pc = "store", !.id = i,
                                                          !.data = rows[i].data]]
        PROVE  /\ payment'[p].irn = payment[p].irn
               /\ payment'[p].status = payment[p].status
               /\ \A q \in Payments \ {p} : payment'[q] = payment[q]
    BY <2>2 DEF TypeOK, Payment
  <2> QED
    BY <2>1, <2>2 DEF FindPaid
<1>5. Paying(p) /\ \A q \in Payments \ {p} : Paying(q)' <=> Paying(q)
  BY <1>1, <1>4 DEF Paying
<1>6. ASSUME mishaps' \cap PaymentMishaps = {}
      PROVE  /\ Paying(p)'
             /\ \A q \in Payments : Owed(q)'
  <2>1. \A q \in Payments : Owed(q)
    BY <1>1, <1>6 DEF PayInv
  <2>2. payment'[p].pc = "store" /\ payment'[p].id \in Live
    BY <1>3, <1>5, <2>1 DEF Owed
  <2>3. Owed(p)'
    BY <1>1, <1>2, <1>4, <1>5, <2>1, <2>2 DEF Owed
  <2>4. \A q \in Payments \ {p} : Owed(q)'
    BY <1>1, <1>2, <1>4, <1>5, <2>1 DEF Owed
  <2> QED
    BY <2>2, <2>3, <2>4 DEF Paying
<1>7. ASSUME "crossed" \notin mishaps', NEW q \in Payments, Paying(q)'
      PROVE  /\ \A u \in Ops : ~Active(u)'
             /\ \A r \in Payments : Paying(r)' => r = q
  BY <1>1, <1>2, <1>5, <1>7 DEF PayInv
<1>8. mishaps' \cap PaymentMishaps = {} =>
        /\ used' = {} => \A irn \in IRNs : firsPay'[irn] = "none"
        /\ \A u \in Ops : Current(u)'
  BY <1>1, <1>2 DEF PayInv
<1> QED
  BY <1>1, <1>2, <1>6, <1>7, <1>8 DEF PayInv

\* It ends with the record, the only one, showing what FIRS was told.
LEMMA PayStore ==
  ASSUME PayInv, AloneInv, TypeOK, NEW p \in Payments, StorePayment(p)
  PROVE  PayInv'
<1>1. /\ UNCHANGED <<used, op, firsPay>> /\ payment[p].pc = "store"
      /\ mishaps \subseteq mishaps'
      /\ payment' = [payment EXCEPT ![p].pc = "done"]
  BY DEF StorePayment, Note
<1>2. PICK k : k = payment[p].id
  OBVIOUS
<1>3. /\ UNCHANGED rows \/ rows' = [rows EXCEPT ![k] = WithPayment(rows[k], p)]
      /\ "unsaved" \notin mishaps' /\ rows[k].live
           => rows' = [rows EXCEPT ![k] = WithPayment(rows[k], p)]
  BY <1>2 DEF StorePayment, Note
<1>4. \A i \in RowIds : /\ WithPayment(rows[i], p).live = rows[i].live
                        /\ WithPayment(rows[i], p).irn = rows[i].irn
                        /\ WithPayment(rows[i], p).pay = payment[p].status
                        /\ WithPayment(rows[i], p).said = payment[p].status
  BY PaidRow DEF TypeOK
<1>5. /\ \A i \in RowIds : rows'[i].live = rows[i].live /\ rows'[i].irn = rows[i].irn
      /\ Live' = Live
  BY <1>1, <1>3, <1>4 DEF TypeOK, Live
<1>6. /\ payment'[p].pc = "done"
      /\ \A q \in Payments \ {p} : payment'[q] = payment[q]
  BY <1>1 DEF TypeOK, Payment
<1>7. Paying(p) /\ ~Paying(p)' /\ \A q \in Payments \ {p} : Paying(q)' <=> Paying(q)
  BY <1>1, <1>6 DEF Paying
<1>8. \A u \in Ops : Active(u)' <=> Active(u)
  BY <1>1 DEF Active
<1>9. "crossed" \notin mishaps' =>
        /\ \A u \in Ops : ~Active(u)
        /\ \A q \in Payments : ~Paying(q)'
  BY <1>1, <1>7 DEF PayInv
<1>10. ASSUME mishaps' \cap PaymentMishaps = {}
       PROVE  /\ used' = {} => \A irn \in IRNs : firsPay'[irn] = "none"
              /\ \A u \in Ops : Current(u)'
              /\ \A q \in Payments : Owed(q)'
              /\ \A i \in Live' : Agree(i)'
  <2>1. /\ mishaps \cap PaymentMishaps = {} /\ "overlap" \notin mishaps
        /\ "crossed" \notin mishaps' /\ "unsaved" \notin mishaps'
    BY <1>1, <1>10 DEF PaymentMishaps
  <2>2. \A u \in Ops : Current(u)'
    BY <1>8, <1>9, <2>1 DEF Current
  <2>3. \A q \in Payments : Owed(q)'
    BY <1>9, <2>1 DEF Owed
  <2>4. /\ firsPay[payment[p].irn] = payment[p].status
        /\ \E i \in Live : rows[i].irn = payment[p].irn
        /\ k \in Live
    BY <1>1, <1>2, <1>7, <2>1 DEF PayInv, Owed
  <2>5. \A i \in Live : i = k
    BY <2>1, <2>4 DEF AloneInv
  <2>6. k \in RowIds /\ rows[k].live /\ rows[k].irn = payment[p].irn
    BY <2>4, <2>5 DEF Live, TypeOK
  <2>7. rows'[k].pay = payment[p].status /\ rows'[k].said = payment[p].status
    BY <1>3, <1>4, <2>1, <2>6 DEF TypeOK
  <2>8. \A i \in Live' : Agree(i)'
    BY <1>1, <1>5, <2>4, <2>5, <2>6, <2>7 DEF Agree
  <2> QED
    BY <1>1, <2>1, <2>2, <2>3, <2>8 DEF PayInv
<1>11. "deleted" \notin mishaps' => used' \subseteq Live'
  BY <1>1, <1>5 DEF PayInv
<1> QED
  BY <1>9, <1>10, <1>11 DEF PayInv

\* No step leaves a record with another payment status than FIRS, when nothing
\* crosses or gets lost.
LEMMA PayNext ==
  ASSUME PayInv, AloneInv, OnceInv, TypeOK, [Next]_vars
  PROVE  PayInv'
<1>1. ASSUME NEW u \in Ops, OpStep(u)
      PROVE  PayInv'
  BY <1>1, PayLoad, PayEnd, PayWrite, PayPipeline DEF OpStep
<1>2. ASSUME NEW p \in Payments, PaymentStep(p)
      PROVE  PayInv'
  BY <1>2, PaySend, PayFind, PayStore DEF PaymentStep
<1>3. ASSUME NEW i \in RowIds, Delete(i)
      PROVE  PayInv'
  <2>1. /\ "deleted" \in mishaps' /\ mishaps' \cap PaymentMishaps # {}
        /\ mishaps \subseteq mishaps' /\ UNCHANGED <<op, payment>>
        /\ "crossed" \in mishaps' => "crossed" \in mishaps
    BY <1>3 DEF Delete, PaymentMishaps
  <2>2. /\ \A u \in Ops : Active(u)' <=> Active(u)
        /\ \A p \in Payments : Paying(p)' <=> Paying(p)
    BY <2>1 DEF Active, Paying
  <2> QED
    BY <2>1, <2>2 DEF PayInv
<1>4. CASE Tick \/ UNCHANGED vars
  BY <1>4 DEF Tick, vars, PayInv, Current, Owed, Agree, Active, Paying, Live
<1> QED
  BY <1>1, <1>2, <1>3, <1>4 DEF Next

\* The record of an invoice ends up with the payment status that FIRS holds for
\* its IRN, column and payload, whether FIRS has it from the payload it signed
\* or from UpdateInvoice, which writes it to FIRS first, while uploads save
\* whole copies: unless an update crosses another request, loses an answer or a
\* save, or is sent for an IRN that has no record, the invoice is modified, or
\* a payload written over a record declares another status than its column.
THEOREM PaymentHolds == Spec => []PaymentAgrees
<1>1. Init => PayInv
  BY DEF Init, PayInv, Live, Active, Paying, Current, Owed, Agree
<1>2. TypeOK /\ AloneInv /\ OnceInv /\ PayInv /\ [Next]_vars => PayInv'
  BY PayNext
<1>3. Init => OnceInv
  BY DEF Init, OnceInv, Stages, Signed
<1>4. TypeOK /\ AloneInv /\ OnceInv /\ [Next]_vars => OnceInv'
  BY OnceNext
<1>5. PayInv => PaymentAgrees
  BY DEF PayInv, PaymentAgrees, Agree
<1> QED
  BY <1>1, <1>2, <1>3, <1>4, <1>5, PipelineAlone, PTL DEF Spec
=============================================================================
