-------------------------- MODULE BulkUploadProofs --------------------------
(***************************************************************************)
(* Proofs about BulkUpload, for files of any size, with any invoice        *)
(* numbers, any number of attempts and workers, and any quota.             *)
(***************************************************************************)
EXTENDS BulkUpload, FiniteSetTheorems, TLAPS

AllWorkers == Attempts \X Workers
Holds(w) == work[w].pc \notin {"idle", "stopped"}

-----------------------------------------------------------------------------
(* The parts of the inductive invariant *)

\* Where an attempt is says what it can have done.
Begun(a) ==
  /\ att[a].pc \in {"new", "download", "invalid"} => att[a].next = 1 /\ att[a].tally = Zero
  /\ att[a].read => att[a].pc \in {"invalid", "failed", "close", "dead"}
  /\ att[a].expired => "expired" \in mishaps
  /\ task = a => att[a].pc # "new"

\* A row that was handed out is held by one worker of a pool at work, or is in
\* one result, or is over and done with.
HoldsRow(w) ==
  /\ work[w].row # 0 <=> Holds(w)
  /\ Holds(w) => att[w[1]].pc = "pool" /\ work[w].row < att[w[1]].next
  /\ \A v \in AllWorkers : v[1] = w[1] /\ v # w /\ Holds(w) => work[v].row # work[w].row
  /\ work[w].pc = "stopped" /\ ~att[w[1]].expired => att[w[1]].next = N + 1

SentRow(m) ==
  /\ att[m[1]].pc = "pool" /\ m[2] < att[m[1]].next
  /\ \A w \in AllWorkers : w[1] = m[1] => work[w].row # m[2]
  /\ \A n \in out : n[1] = m[1] /\ n[2] = m[2] => n = m

RowsInv ==
  /\ \A a \in Attempts : Begun(a)
  /\ \A w \in AllWorkers : HoldsRow(w)
  /\ \A m \in out : SentRow(m)

\* The records a worker creates and those it takes over.
HoldsRecord(w) ==
  /\ work[w].id # NoId =>
       /\ work[w].id \in DOMAIN rec /\ rec[work[w].id].num = Number[work[w].row]
       /\ work[w].copy \in Record /\ work[w].copy.num = Number[work[w].row]
  /\ work[w].id = NoId => <<w[1], work[w].row>> \notin DOMAIN rec
  /\ work[w].pc \in {"idle", "stopped", "lookup"} => work[w].id = NoId
  /\ work[w].pc = "call" => work[w].id # NoId
  /\ work[w].reserved <=> Metered /\ work[w].pc = "create" /\ work[w].id = NoId

RecordsInv ==
  /\ \A i \in DOMAIN rec : i[2] < att[i[1]].next /\ rec[i].num = Number[i[2]]
  /\ \A w \in AllWorkers : HoldsRecord(w)

\* The quota that is left, taken or about to be, unless some of it is lost.
Reserved == {w \in AllWorkers : work[w].reserved}

QuotaInv ==
  /\ ~Metered => quota = Quota
  /\ Metered =>
       /\ quota + Cardinality(DOMAIN rec) + Cardinality(Reserved) <= Quota
       /\ mishaps \cap {"restart", "lost"} = {} =>
            quota + Cardinality(DOMAIN rec) + Cardinality(Reserved) = Quota

\* What records, copies, workers and results say of an invoice is true.
Truthful(row) ==
  /\ row.hist[Signed] = "success" => row.num \in firs[Signed]
  /\ row.cur = Transmitted => row.num \in firs[Signed]
  /\ row.cur = Confirmed => row.num \in firs[Transmitted]

TrueWorker(w) ==
  /\ work[w].id # NoId => Truthful(work[w].copy)
  /\ work[w].pc = "call" =>
       /\ work[w].stage > Signed => Number[work[w].row] \in firs[Signed]
       /\ work[w].stage > Transmitted => Number[work[w].row] \in firs[Transmitted]

TrueResult(m) ==
  /\ m[3] = Confirmed \/ m[4] => Number[m[2]] \in firs[Transmitted]
  /\ m[3] = Transmitted => Number[m[2]] \in firs[Signed]

TruthInv ==
  /\ \A i \in DOMAIN rec : Truthful(rec[i])
  /\ \A w \in AllWorkers : TrueWorker(w)
  /\ \A m \in out : TrueResult(m)

\* The rows of an attempt that are over and done with, and those of them for
\* whose invoice FIRS performed a stage.
Finished(a) ==
  {r \in 1..att[a].next - 1 :
     /\ \A w \in AllWorkers : w[1] = a => work[w].row # r
     /\ \A m \in out : m[1] = a => m[2] # r}
FinishedAt(a, s) == {r \in Finished(a) : Number[r] \in firs[s]}
AtStage(s) == {r \in Rows : Number[r] \in firs[s]}

Sum(count) == count["success"] + count["partial"] + count["failed"]

\* An attempt counts a finished row at most once, and truthfully; and each one,
\* as long as its time is not up.
CountsRows(a) ==
  /\ att[a].tally["success"] <= Cardinality(FinishedAt(a, Transmitted))
  /\ att[a].tally["partial"] <= Cardinality(FinishedAt(a, Signed))
  /\ Sum(att[a].tally) <= Cardinality(Finished(a))
  /\ ~att[a].expired /\ att[a].pc # "dead" =>
       Sum(att[a].tally) = Cardinality(Finished(a))
  /\ ~att[a].expired /\ att[a].pc \in {"failed", "close"} => Sum(att[a].tally) = N

CountInv == \A a \in Attempts : CountsRows(a)

\* The log, and the copies of it that are to be written back, overstate nothing
\* and, once completed, account for all rows.
Sound(l) ==
  /\ l.count["success"] <= Cardinality(AtStage(Transmitted))
  /\ l.count["partial"] <= Cardinality(AtStage(Signed))
  /\ l.status = "completed" /\ "expired" \notin mishaps => Sum(l.count) >= N

LogInv ==
  /\ Sound(log)
  /\ \A a \in Attempts : att[a].read => Sound(att[a].copy)

\* What the log holds on the way of the only attempt, as long as no update of it
\* failed.
Reached(a) ==
  /\ att[a].pc \in {"download", "invalid"} =>
       log.status = "pending" /\ log.count["errors"] = 0
  /\ att[a].pc \in {"pool", "failed"} =>
       log.status = "pending" /\ log.count["errors"] = Invalid
  /\ att[a].pc = "close" =>
       log.status = "pending" /\ log.count["errors"] = Invalid + att[a].tally["failed"]

Single ==
  /\ \A a, b \in Attempts : att[a].pc # "new" /\ att[b].pc # "new" => a = b
  /\ (\A a \in Attempts : att[a].pc = "new") => log = [status |-> "pending", count |-> Zero]
  /\ log.status = "pending" => Sum(log.count) = 0
  /\ log.status = "completed" =>
       Sum(log.count) = N /\ log.count["errors"] = Invalid + log.count["failed"]
  /\ \A a \in Attempts : Reached(a)

OnceInv ==
  /\ "overlap" \in mishaps => "again" \in mishaps
  /\ mishaps \cap {"expired", "again", "unlogged"} = {} => Single

\* As long as attempts run one after another, what an attempt read of the log is
\* still so, no row is recorded twice, and a completed log is left alone.
Sequential ==
  /\ \A a, b \in Attempts : Running(a) /\ Running(b) => a = b
  /\ \A a \in Attempts : Running(a) /\ att[a].read => att[a].copy = log

RecordedOnce ==
  /\ \A i, j \in DOMAIN rec : i[2] = j[2] => i = j
  /\ \A w \in AllWorkers, i \in DOMAIN rec :
       work[w].pc \in {"reserve", "create"} /\ work[w].id = NoId => i[2] # work[w].row

Settled ==
  N # 0 /\ "unlogged" \notin mishaps /\ (task = "done" \/ \E a \in Attempts : att[a].pc = "notify")
    => log.status = "completed"

AloneInv == "overlap" \notin mishaps => Sequential /\ RecordedOnce /\ Settled

CoreInv == TypeOK /\ RowsInv /\ RecordsInv /\ QuotaInv /\ TruthInv /\ CountInv

-----------------------------------------------------------------------------
(* Attempts, workers and rows *)

LEMMA NoIdIsNone == NoId \notin Ids
BY DEF NoId, Ids

LEMMA NumberType == \A r \in Rows : Number[r] \in Numbers
BY DEF Numbers

\* The parts of a worker, of its attempt, and of the attempt's counts.
LEMMA WorkerParts ==
  ASSUME TypeOK, NEW w \in AllWorkers
  PROVE  /\ w[1] \in Attempts /\ work[w] \in Worker
         /\ work[w].row \in Rows \cup {0} /\ work[w].id \in Ids \cup {NoId}
         /\ work[w].copy \in Record \cup {NoId} /\ work[w].reserved \in BOOLEAN
         /\ work[w].stage \in Stages
BY DEF TypeOK, AllWorkers, Worker

LEMMA AttemptParts ==
  ASSUME TypeOK, NEW a \in Attempts
  PROVE  /\ att[a] \in Attempt /\ att[a].next \in 1..(N + 1)
         /\ att[a].tally \in Counts /\ att[a].copy \in Log
         /\ att[a].expired \in BOOLEAN /\ att[a].read \in BOOLEAN
BY DEF TypeOK, Attempt

LEMMA CountParts ==
  ASSUME NEW count \in Counts
  PROVE  /\ \A c \in {"success", "partial", "failed", "errors"} :
              count[c] \in Nat /\ count[c] <= N + Invalid
         /\ Sum(count) \in Nat
BY FileAssumption DEF Counts, Sum

LEMMA ResultParts ==
  ASSUME TypeOK, NEW m \in out
  PROVE  /\ m[1] \in Attempts /\ m[2] \in Rows /\ m[3] \in Reports /\ m[4] \in BOOLEAN
         /\ m = <<m[1], m[2], m[3], m[4]>>
BY DEF TypeOK

LEMMA ZeroType == Zero \in Counts /\ Sum(Zero) = 0
BY FileAssumption DEF Zero, Counts, Sum

LEMMA IdleType == Idle \in Worker
BY DEF Idle, Worker, Stages, Validated

\* A worker that moves leaves the others alone.
LEMMA StepType ==
  ASSUME TypeOK, NEW w \in AllWorkers, NEW x \in Worker, Step(w, x)
  PROVE  /\ work' \in [AllWorkers -> Worker] /\ work'[w] = x
         /\ \A v \in AllWorkers : v # w => work'[v] = work[v]
BY DEF TypeOK, AllWorkers, Step

\* So does an attempt.
LEMMA AttemptStepType ==
  ASSUME TypeOK, NEW a \in Attempts, NEW x \in Attempt, att' = [att EXCEPT ![a] = x]
  PROVE  /\ att' \in [Attempts -> Attempt] /\ att'[a] = x
         /\ \A b \in Attempts : b # a => att'[b] = att[b]
BY DEF TypeOK

-----------------------------------------------------------------------------
(* Finite sets *)

LEMMA FiniteWorkers == IsFiniteSet(AllWorkers)
BY PoolAssumption, FS_Product DEF AllWorkers

LEMMA FiniteRows == IsFiniteSet(Rows) /\ Cardinality(Rows) = N
BY FileAssumption, FS_Interval DEF Rows

LEMMA FiniteIds == IsFiniteSet(Ids)
BY FiniteRows, PoolAssumption, FS_Product DEF Ids

LEMMA FiniteRecords ==
  ASSUME TypeOK
  PROVE  IsFiniteSet(DOMAIN rec) /\ Cardinality(DOMAIN rec) \in Nat
<1>1. DOMAIN rec \in SUBSET Ids
  BY DEF TypeOK
<1>2. IsFiniteSet(DOMAIN rec)
  BY <1>1, FiniteIds, FS_Subset
<1> QED
  BY <1>2, FS_CardinalityType

LEMMA FiniteReserved ==
  IsFiniteSet(Reserved) /\ Cardinality(Reserved) \in Nat
<1>1. Reserved \in SUBSET AllWorkers
  BY DEF Reserved
<1>2. IsFiniteSet(Reserved)
  BY <1>1, FiniteWorkers, FS_Subset
<1> QED
  BY <1>2, FS_CardinalityType

\* Sets of rows are finite, and there are at most N of them.
LEMMA RowSets ==
  ASSUME NEW R \in SUBSET Rows
  PROVE  IsFiniteSet(R) /\ Cardinality(R) \in Nat /\ Cardinality(R) <= N
<1>1. IsFiniteSet(R) /\ Cardinality(R) <= N
  BY FiniteRows, FS_Subset
<1> QED
  BY <1>1, FS_CardinalityType

\* More rows in a set are more rows.
LEMMA RowsGrow ==
  ASSUME NEW R \in SUBSET Rows, NEW Q \in SUBSET R
  PROVE  Cardinality(Q) \in Nat /\ Cardinality(R) \in Nat /\ Cardinality(Q) <= Cardinality(R)
<1>1. Q \in SUBSET Rows
  BY DEF Rows
<1> QED
  BY <1>1, RowSets, FS_Subset

\* One more row.
LEMMA RowAdded ==
  ASSUME NEW R \in SUBSET Rows, NEW r, r \notin R
  PROVE  Cardinality(R \cup {r}) = Cardinality(R) + 1
BY RowSets, FS_AddElement

LEMMA FinishedRows ==
  ASSUME TypeOK, NEW a \in Attempts
  PROVE  /\ Finished(a) \in SUBSET Rows
         /\ \A s \in Stages : FinishedAt(a, s) \in SUBSET Finished(a)
         /\ \A s \in Stages : AtStage(s) \in SUBSET Rows /\ FinishedAt(a, s) \in SUBSET AtStage(s)
<1>1. att[a].next \in 1..(N + 1)
  BY AttemptParts
<1>2. Finished(a) \in SUBSET Rows
  BY <1>1, FileAssumption DEF Finished, Rows
<1> QED
  BY <1>2 DEF FinishedAt, AtStage

-----------------------------------------------------------------------------
(* What an attempt does besides counting *)

\* A step of an attempt that leaves workers, results, records and counts alone.
\* It leaves the pool only when no worker and no result of it is left.
Moves(a) ==
  /\ UNCHANGED <<work, out, rec, quota, firs>> /\ mishaps \subseteq mishaps'
  /\ task' \in {task, a, "waiting", "done"}
  /\ \A b \in Attempts : b # a => att'[b] = att[b]
  /\ att'[a].next = att[a].next /\ att'[a].tally = att[a].tally
  /\ att[a].expired => att'[a].expired
  /\ att[a].pc # "dead" /\ att'[a].pc # "new"
  /\ att[a].pc = "pool" => att'[a].pc = "pool" \/ Drained(a)
  /\ att'[a].pc \in {"failed", "close"} =>
       \/ att[a].pc \in {"failed", "close"}
       \/ att[a].pc = "pool" /\ Drained(a)

\* A step that only takes an attempt to another place.
LEMMA GotoMoves ==
  ASSUME TypeOK, NEW a \in Attempts, NEW pc, Goto(a, pc),
         pc \in {"download", "invalid", "pool", "failed", "close", "notify", "ended"},
         att[a].pc # "dead",
         att[a].pc = "pool" => pc = "pool" \/ Drained(a),
         pc \in {"failed", "close"} => att[a].pc = "pool" /\ Drained(a),
         UNCHANGED <<work, out, rec, quota, firs>>, mishaps \subseteq mishaps',
         task' \in {task, a, "waiting", "done"}, Begun(a),
         att[a].pc # "invalid", att[a].read => pc \in {"failed", "close"},
         pc \in {"download", "invalid"} => att[a].pc \in {"new", "download"}
  PROVE  att' \in [Attempts -> Attempt] /\ att'[a].pc = pc /\ Moves(a) /\ Begun(a)'
<1> DEFINE x == [att[a] EXCEPT !.pc = pc]
<1>1. x \in Attempt /\ x.pc = pc /\ x.next = att[a].next /\ x.tally = att[a].tally
      /\ x.expired = att[a].expired /\ x.read = att[a].read
  BY AttemptParts DEF Attempt
<1>2. att' = [att EXCEPT ![a] = x]
  BY DEF Goto
<1> HIDE DEF x
<1>3. /\ att' \in [Attempts -> Attempt] /\ att'[a] = x
      /\ \A b \in Attempts : b # a => att'[b] = att[b]
  BY <1>1, <1>2, AttemptStepType
<1>4. Moves(a)
  BY <1>1, <1>3 DEF Moves
<1>5. Begun(a)'
  BY <1>1, <1>3 DEF Begun
<1> QED
  BY <1>1, <1>3, <1>4, <1>5

LEMMA TaskType ==
  ASSUME TypeOK, NEW a \in Attempts, Moves(a),
         att' \in [Attempts -> Attempt], log' \in Log,
         mishaps' \subseteq {"expired", "restart", "overlap", "again", "unlogged", "lost"}
  PROVE  TypeOK'
BY DEF TypeOK, Moves

LEMMA DeliverMoves ==
  ASSUME TypeOK, RowsInv, NEW a \in Attempts, Deliver(a)
  PROVE  TypeOK' /\ Moves(a) /\ Begun(a)' /\ att'[a].pc = "download"
<1>1. Begun(a) /\ ~att[a].read
  BY DEF RowsInv, Begun, Deliver
<1>2. att' \in [Attempts -> Attempt] /\ Moves(a) /\ Begun(a)' /\ att'[a].pc = "download"
  BY <1>1, GotoMoves DEF Deliver
<1> QED
  BY <1>2, TaskType DEF Deliver, TypeOK

LEMMA DownloadMoves ==
  ASSUME TypeOK, RowsInv, NEW a \in Attempts, Download(a)
  PROVE  TypeOK' /\ Moves(a) /\ Begun(a)'
<1>1. Begun(a) /\ ~att[a].read
  BY DEF RowsInv, Begun, Download
<1>2. \E pc \in {"ended", "invalid", "notify", "pool"} : Goto(a, pc)
  BY DEF Download, AfterErrors
<1>3. att' \in [Attempts -> Attempt] /\ Moves(a) /\ Begun(a)'
  BY <1>1, <1>2, GotoMoves DEF Download, Return
<1> QED
  BY <1>3, TaskType DEF Download, TypeOK

LEMMA FinishMoves ==
  ASSUME TypeOK, RowsInv, NEW a \in Attempts, Finish(a)
  PROVE  TypeOK' /\ Moves(a) /\ Begun(a)' /\ att'[a].pc = "ended"
<1>1. Begun(a) /\ ~att[a].read
  BY DEF RowsInv, Begun, Finish
<1>2. att' \in [Attempts -> Attempt] /\ Moves(a) /\ Begun(a)' /\ att'[a].pc = "ended"
  BY <1>1, GotoMoves DEF Finish, Return
<1> QED
  BY <1>2, TaskType DEF Finish, TypeOK

LEMMA CloseMoves ==
  ASSUME TypeOK, RowsInv, NEW a \in Attempts, Close(a)
  PROVE  TypeOK' /\ Moves(a) /\ Begun(a)' /\ att'[a].pc \in {"failed", "close"}
<1>1. Begun(a) /\ ~att[a].read
  BY DEF RowsInv, Begun, Close
<1>2. \E pc \in {"failed", "close"} : Goto(a, pc)
  BY DEF Close
<1>3. att' \in [Attempts -> Attempt] /\ Moves(a) /\ Begun(a)' /\ att'[a].pc \in {"failed", "close"}
  BY <1>1, <1>2, GotoMoves DEF Close
<1> QED
  BY <1>3, TaskType DEF Close, TypeOK

\* An attempt that reads the log, or whose time is up, stays where it is.
LEMMA StayMoves ==
  ASSUME TypeOK, RowsInv, NEW a \in Attempts, Expire(a) \/ ReadLog(a)
  PROVE  TypeOK' /\ Moves(a) /\ Begun(a)' /\ att'[a].pc = att[a].pc
<1>1. CASE Expire(a)
  <2> DEFINE x == [att[a] EXCEPT !.expired = TRUE]
  <2>1. x \in Attempt /\ x.pc = att[a].pc /\ x.next = att[a].next /\ x.tally = att[a].tally
        /\ x.expired /\ x.read = att[a].read
    BY AttemptParts DEF Attempt
  <2>2. att' = [att EXCEPT ![a] = x]
    BY <1>1 DEF Expire
  <2> HIDE DEF x
  <2>3. /\ att' \in [Attempts -> Attempt] /\ att'[a] = x
        /\ \A b \in Attempts : b # a => att'[b] = att[b]
    BY <2>1, <2>2, AttemptStepType
  <2>4. Moves(a) /\ Begun(a)'
    BY <1>1, <2>1, <2>3 DEF Moves, Begun, RowsInv, Expire, Running
  <2> QED
    BY <1>1, <2>1, <2>3, <2>4, TaskType DEF Expire, TypeOK
<1>2. CASE ReadLog(a)
  <2> DEFINE x == [att[a] EXCEPT !.read = TRUE, !.copy = log]
  <2>1. x \in Attempt /\ x.pc = att[a].pc /\ x.next = att[a].next /\ x.tally = att[a].tally
        /\ x.expired = att[a].expired /\ x.read /\ x.copy = log
    BY AttemptParts DEF Attempt, TypeOK
  <2>2. att' = [att EXCEPT ![a] = x]
    BY <1>2 DEF ReadLog
  <2> HIDE DEF x
  <2>3. /\ att' \in [Attempts -> Attempt] /\ att'[a] = x
        /\ \A b \in Attempts : b # a => att'[b] = att[b]
    BY <2>1, <2>2, AttemptStepType
  <2>4. Moves(a) /\ Begun(a)'
    BY <1>2, <2>1, <2>3 DEF Moves, Begun, RowsInv, ReadLog
  <2> QED
    BY <1>2, <2>1, <2>3, <2>4, TaskType DEF ReadLog, TypeOK
<1> QED
  BY <1>1, <1>2

\* An attempt counts no more rows than the file has.
LEMMA TallyBound ==
  ASSUME TypeOK, CountInv, NEW a \in Attempts
  PROVE  /\ Sum(att[a].tally) \in Nat /\ Sum(att[a].tally) <= N
         /\ \A c \in {"success", "partial", "failed"} : att[a].tally[c] <= N
<1>1. Finished(a) \in SUBSET Rows
  BY FinishedRows
<1>2. Cardinality(Finished(a)) \in Nat /\ Cardinality(Finished(a)) <= N
  BY <1>1, RowSets
<1>3. att[a].tally \in Counts
  BY AttemptParts
<1>4. /\ Sum(att[a].tally) \in Nat
      /\ \A c \in {"success", "partial", "failed", "errors"} : att[a].tally[c] \in Nat
  BY <1>3, CountParts
<1>5. Sum(att[a].tally) <= N
  BY <1>2, <1>4, FileAssumption DEF CountInv, CountsRows
<1> QED
  BY <1>4, <1>5, FileAssumption DEF Sum

\* What is written to the log is a log.
LEMMA UpdatedType ==
  ASSUME TypeOK, CountInv, NEW a \in Attempts
  PROVE  Updated(a) \in Log
<1>1. att[a].tally \in Counts /\ att[a].copy \in Log
  BY AttemptParts
<1>2. att[a].tally["failed"] \in Nat /\ att[a].tally["failed"] <= N
  BY <1>1, TallyBound, CountParts
<1>3. Invalid + att[a].tally["failed"] \in 0..(N + Invalid)
  BY <1>2, FileAssumption
<1>4. CASE att[a].pc = "close"
  <2>1. [att[a].tally EXCEPT !["errors"] = att[a].copy.count["errors"]] \in Counts
    BY <1>1 DEF Counts, Log
  <2> QED
    BY <1>4, <2>1 DEF Updated, Log
<1>5. CASE att[a].pc # "close"
  <2>1. [att[a].copy.count EXCEPT !["errors"] = Invalid + att[a].tally["failed"]] \in Counts
    BY <1>1, <1>3 DEF Counts, Log
  <2> QED
    BY <1>1, <1>5, <2>1 DEF Updated, Log
<1> QED
  BY <1>4, <1>5

LEMMA MergeType ==
  ASSUME NEW old \in Log, NEW new \in Log
  PROVE  /\ Merge(old, new) \in Log /\ Merge(old, new).status = new.status
         /\ \A c \in {"success", "partial", "failed", "errors"} :
              Merge(old, new).count[c] = IF new.count[c] = 0 THEN old.count[c] ELSE new.count[c]
BY DEF Merge, Log, Counts

LEMMA AfterUpdatePlaces ==
  ASSUME NEW a \in Attempts, att[a].pc \in {"invalid", "failed", "close"}
  PROVE  /\ att[a].pc = "invalid" => AfterUpdate(a) \in {"pool", "notify"}
         /\ att[a].pc = "failed" => AfterUpdate(a) = "close"
         /\ att[a].pc = "close" => AfterUpdate(a) = "notify"
BY DEF AfterUpdate, AfterErrors

LEMMA WriteLogMoves ==
  ASSUME TypeOK, RowsInv, CountInv, NEW a \in Attempts, WriteLog(a)
  PROVE  /\ TypeOK' /\ Moves(a) /\ Begun(a)'
         /\ att[a].pc \in {"invalid", "failed", "close"}
         /\ att'[a].pc = AfterUpdate(a) /\ ~att'[a].read
<1>1. att[a].pc \in {"invalid", "failed", "close"}
  BY DEF WriteLog, RowsInv, Begun, Running
<1>2. /\ AfterUpdate(a) \in {"pool", "close", "notify"}
      /\ AfterUpdate(a) = "close" => att[a].pc = "failed"
  BY <1>1, AfterUpdatePlaces
<1> DEFINE x == [att[a] EXCEPT !.read = FALSE, !.pc = AfterUpdate(a)]
<1>3. x \in Attempt /\ x.pc = AfterUpdate(a) /\ x.next = att[a].next
      /\ x.tally = att[a].tally /\ x.expired = att[a].expired /\ ~x.read
  BY <1>2, AttemptParts DEF Attempt
<1>4. att' = [att EXCEPT ![a] = x]
  BY DEF WriteLog
<1> HIDE DEF x
<1>5. /\ att' \in [Attempts -> Attempt] /\ att'[a] = x
      /\ \A b \in Attempts : b # a => att'[b] = att[b]
  BY <1>3, <1>4, AttemptStepType
<1>6. Moves(a) /\ Begun(a)'
  BY <1>1, <1>2, <1>3, <1>5 DEF Moves, Begun, RowsInv, WriteLog
<1>7. log' \in Log
  BY UpdatedType, MergeType DEF WriteLog, TypeOK
<1> QED
  BY <1>1, <1>3, <1>5, <1>6, <1>7, TaskType DEF WriteLog, TypeOK

-----------------------------------------------------------------------------
(* Rows *)

\* A row that no attempt at work holds is over and done with.
LEMMA OutsidePool ==
  ASSUME TypeOK, RowsInv, NEW a \in Attempts, att[a].pc # "pool" \/ Drained(a)
  PROVE  /\ Finished(a) = 1..att[a].next - 1
         /\ \A w \in AllWorkers : w[1] = a => ~Holds(w)
         /\ \A m \in out : m[1] # a
<1>1. \A w \in AllWorkers : w[1] = a => ~Holds(w) /\ work[w].row = 0
  <2> SUFFICES ASSUME NEW w \in AllWorkers, w[1] = a
               PROVE  ~Holds(w) /\ work[w].row = 0
    OBVIOUS
  <2>1. HoldsRow(w)
    BY DEF RowsInv
  <2>2. CASE att[a].pc # "pool"
    BY <2>1, <2>2 DEF HoldsRow
  <2>3. CASE Drained(a)
    <3>1. w \in {a} \X Workers
      BY DEF AllWorkers
    <3> QED
      BY <2>1, <2>3, <3>1 DEF HoldsRow, Holds, Drained
  <2> QED
    BY <2>2, <2>3
<1>2. \A m \in out : m[1] # a
  BY DEF RowsInv, SentRow, Drained
<1>3. att[a].next \in Int
  BY AttemptParts, FileAssumption
<1> QED
  BY <1>1, <1>2, <1>3 DEF Finished

\* The pool of an attempt whose time is not up ends with all rows handed out.
LEMMA DrainedIsThrough ==
  ASSUME TypeOK, RowsInv, NEW a \in Attempts, att[a].pc = "pool", Drained(a), ~att[a].expired
  PROVE  Finished(a) = Rows
<1>1. PICK v \in Workers : TRUE
  BY PoolAssumption
<1>2. <<a, v>> \in AllWorkers /\ work[<<a, v>>].pc = "stopped"
  BY <1>1 DEF AllWorkers, Drained
<1>3. HoldsRow(<<a, v>>)
  BY <1>2 DEF RowsInv
<1>4. att[a].next = N + 1
  BY <1>2, <1>3 DEF HoldsRow
<1> QED
  BY <1>4, OutsidePool, FileAssumption DEF Rows

LEMMA MovesRows ==
  ASSUME TypeOK, RowsInv, NEW a \in Attempts, Moves(a), Begun(a)'
  PROVE  RowsInv'
<1>1. ASSUME NEW b \in Attempts
      PROVE  Begun(b)'
  BY <1>1, PoolAssumption DEF RowsInv, Begun, Moves
<1>2. ASSUME NEW w \in AllWorkers
      PROVE  HoldsRow(w)'
  <2>1. HoldsRow(w) /\ w[1] \in Attempts
    BY WorkerParts DEF RowsInv
  <2>2. CASE w[1] # a
    BY <2>1, <2>2 DEF HoldsRow, Holds, Moves
  <2>3. CASE w[1] = a
    <3>1. att[a].pc = "pool" /\ att'[a].pc # "pool" => ~Holds(w)
      BY <2>3, OutsidePool DEF Moves
    <3> QED
      BY <2>1, <2>3, <3>1 DEF HoldsRow, Holds, Moves
  <2> QED
    BY <2>2, <2>3
<1>3. ASSUME NEW m \in out
      PROVE  SentRow(m)'
  <2>1. SentRow(m) /\ m[1] \in Attempts
    BY ResultParts DEF RowsInv
  <2>2. att'[m[1]].pc = "pool" /\ att'[m[1]].next = att[m[1]].next
    BY <2>1, OutsidePool DEF Moves, SentRow
  <2> QED
    BY <2>1, <2>2 DEF SentRow, Moves
<1>4. out' = out
  BY DEF Moves
<1> QED
  BY <1>1, <1>2, <1>3, <1>4 DEF RowsInv, AllWorkers

-----------------------------------------------------------------------------
(* Counts *)

\* FIRS undoes nothing.
FirsGrows == \A s \in Stages : firs[s] \subseteq firs'[s]

\* What an attempt has counted stays right while rows finish and FIRS goes on; a
\* row may finish uncounted only if the time of the attempt is up.
LEMMA CountsGrow ==
  ASSUME TypeOK, TypeOK', FirsGrows, NEW a \in Attempts, CountsRows(a),
         att'[a].tally = att[a].tally,
         Finished(a) \subseteq Finished(a)',
         ~att'[a].expired /\ att'[a].pc # "dead" =>
           ~att[a].expired /\ att[a].pc # "dead" /\ Finished(a)' = Finished(a),
         ~att'[a].expired /\ att'[a].pc \in {"failed", "close"} =>
           ~att[a].expired /\ (att[a].pc \in {"failed", "close"} \/ Finished(a) = Rows)
  PROVE  CountsRows(a)'
<1>1. /\ Finished(a) \in SUBSET Rows /\ Finished(a)' \in SUBSET Rows
      /\ FinishedAt(a, Signed)' \in SUBSET Finished(a)'
      /\ FinishedAt(a, Transmitted)' \in SUBSET Finished(a)'
  <2>1. Finished(a) \in SUBSET Rows
    BY FinishedRows
  <2>2. att'[a].next \in 1..(N + 1)
    BY DEF TypeOK, Attempt
  <2>3. Finished(a)' \in SUBSET Rows
    BY <2>2, FileAssumption DEF Finished, Rows
  <2> QED
    BY <2>1, <2>3 DEF FinishedAt
<1>2. /\ Cardinality(Finished(a)) \in Nat /\ Cardinality(Finished(a)') \in Nat
      /\ Cardinality(Finished(a)) <= Cardinality(Finished(a)')
  BY <1>1, RowsGrow
<1>3. ASSUME NEW s \in {Signed, Transmitted}
      PROVE  /\ Cardinality(FinishedAt(a, s)) \in Nat /\ Cardinality(FinishedAt(a, s)') \in Nat
             /\ Cardinality(FinishedAt(a, s)) <= Cardinality(FinishedAt(a, s)')
  <2>1. s \in Stages
    BY DEF Stages, Signed, Transmitted
  <2>2. FinishedAt(a, s) \subseteq FinishedAt(a, s)' /\ FinishedAt(a, s)' \in SUBSET Rows
    BY <1>1, <2>1 DEF FinishedAt, FirsGrows
  <2> QED
    BY <2>2, RowsGrow
<1>4. /\ att[a].tally["success"] \in Nat /\ att[a].tally["partial"] \in Nat
      /\ Sum(att[a].tally) \in Nat
  BY AttemptParts, CountParts
<1>5. Sum(att'[a].tally) = Sum(att[a].tally)
  OBVIOUS
<1>6. /\ att'[a].tally["success"] <= Cardinality(FinishedAt(a, Transmitted)')
      /\ att'[a].tally["partial"] <= Cardinality(FinishedAt(a, Signed)')
  BY <1>3, <1>4 DEF CountsRows
<1>7. Sum(att'[a].tally) <= Cardinality(Finished(a)')
  BY <1>2, <1>4, <1>5 DEF CountsRows
<1>8. ~att'[a].expired /\ att'[a].pc # "dead" => Sum(att'[a].tally) = Cardinality(Finished(a)')
  BY <1>5 DEF CountsRows
<1>9. ~att'[a].expired /\ att'[a].pc \in {"failed", "close"} => Sum(att'[a].tally) = N
  BY <1>5, FiniteRows DEF CountsRows
<1> QED
  BY <1>6, <1>7, <1>8, <1>9 DEF CountsRows

\* A step of an attempt keeps the counts, the records, the quota and the truth.
LEMMA MovesCounts ==
  ASSUME TypeOK, TypeOK', RowsInv, CountInv, NEW a \in Attempts, Moves(a)
  PROVE  CountInv'
<1>1. FirsGrows
  BY DEF Moves, FirsGrows
<1>2. ASSUME NEW b \in Attempts
      PROVE  CountsRows(b)'
  <2>1. /\ att'[b].tally = att[b].tally /\ att'[b].next = att[b].next
        /\ att[b].expired => att'[b].expired
        /\ att'[b].pc # "dead" => att[b].pc # "dead"
    BY DEF Moves
  <2>2. Finished(b)' = Finished(b)
    BY <2>1 DEF Finished, Moves
  <2>3. att'[b].pc \in {"failed", "close"} =>
          att[b].pc \in {"failed", "close"} \/ (att[b].pc = "pool" /\ Drained(b))
    BY DEF Moves
  <2>4. ~att'[b].expired /\ att'[b].pc \in {"failed", "close"} =>
          ~att[b].expired /\ (att[b].pc \in {"failed", "close"} \/ Finished(b) = Rows)
    BY <2>1, <2>3, DrainedIsThrough
  <2> QED
    BY <1>1, <2>1, <2>2, <2>4, CountsGrow DEF CountInv
<1> QED
  BY <1>2 DEF CountInv

LEMMA MovesRest ==
  ASSUME TypeOK, RecordsInv, QuotaInv, TruthInv, NEW a \in Attempts, Moves(a)
  PROVE  RecordsInv' /\ QuotaInv' /\ TruthInv'
<1>1. RecordsInv'
  <2>1. ASSUME NEW i \in DOMAIN rec
        PROVE  i[2] < att'[i[1]].next /\ rec[i].num = Number[i[2]]
    BY DEF RecordsInv, Moves, TypeOK, Ids
  <2> QED
    BY <2>1 DEF RecordsInv, HoldsRecord, Moves, AllWorkers
<1>2. QuotaInv'
  BY DEF QuotaInv, Reserved, Moves
<1>3. TruthInv'
  BY DEF TruthInv, Truthful, TrueWorker, TrueResult, Moves
<1> QED
  BY <1>1, <1>2, <1>3

LEMMA MovesCore ==
  ASSUME CoreInv, TypeOK', NEW a \in Attempts, Moves(a), Begun(a)'
  PROVE  CoreInv'
BY MovesRows, MovesCounts, MovesRest DEF CoreInv

-----------------------------------------------------------------------------
(* What a worker does with its row: it goes on, or sends a result *)

\* A step of one worker.
Works(w) ==
  /\ UNCHANGED task /\ mishaps \subseteq mishaps' /\ FirsGrows
  /\ \A v \in AllWorkers : v # w => work'[v] = work[v]

GoesOn(w) ==
  /\ Works(w) /\ UNCHANGED <<att, out>>
  /\ Holds(w) /\ Holds(w)' /\ work'[w].row = work[w].row

Sends(w) ==
  /\ Works(w) /\ UNCHANGED att
  /\ Holds(w) /\ work'[w] = Idle
  /\ \E report \in Reports, posted \in BOOLEAN :
       out' = out \cup {<<w[1], work[w].row, report, posted>>}

\* The row of a worker is a row of the file.
LEMMA HeldRow ==
  ASSUME TypeOK, RowsInv, NEW w \in AllWorkers, Holds(w)
  PROVE  /\ work[w].row \in Rows /\ w[1] \in Attempts /\ HoldsRow(w)
         /\ att[w[1]].pc = "pool" /\ work[w].row < att[w[1]].next
         /\ work[w].row \notin Finished(w[1])
<1>1. HoldsRow(w)
  BY DEF RowsInv
<1>2. work[w].row \in Rows /\ w[1] \in Attempts
  BY <1>1, WorkerParts DEF HoldsRow
<1> QED
  BY <1>1, <1>2 DEF HoldsRow, Finished

LEMMA GoesOnRows ==
  ASSUME TypeOK, RowsInv, NEW w \in AllWorkers, GoesOn(w)
  PROVE  RowsInv' /\ \A a \in Attempts : Finished(a)' = Finished(a)
<1>1. \A v \in AllWorkers : work'[v].row = work[v].row /\ (Holds(v)' <=> Holds(v))
  BY DEF GoesOn, Works, Holds
<1>2. ASSUME NEW b \in Attempts
      PROVE  Begun(b)'
  BY DEF RowsInv, Begun, GoesOn, Works
<1>3. ASSUME NEW v \in AllWorkers
      PROVE  HoldsRow(v)'
  BY <1>1 DEF RowsInv, HoldsRow, GoesOn, Works, Holds
<1>4. ASSUME NEW m \in out
      PROVE  SentRow(m)'
  BY <1>1 DEF RowsInv, SentRow, GoesOn
<1>5. ASSUME NEW a \in Attempts
      PROVE  Finished(a)' = Finished(a)
  BY <1>1 DEF Finished, GoesOn
<1> QED
  BY <1>2, <1>3, <1>4, <1>5 DEF RowsInv, GoesOn, AllWorkers

LEMMA SendsRows ==
  ASSUME TypeOK, RowsInv, NEW w \in AllWorkers, Sends(w)
  PROVE  RowsInv' /\ \A a \in Attempts : Finished(a)' = Finished(a)
<1>1. PICK report \in Reports, posted \in BOOLEAN :
        out' = out \cup {<<w[1], work[w].row, report, posted>>}
  BY DEF Sends
<1>2. PICK m : out' = out \cup {m} /\ m[1] = w[1] /\ m[2] = work[w].row
  <2> WITNESS <<w[1], work[w].row, report, posted>>
  <2> QED
    BY <1>1
<1>3. /\ Holds(w) /\ HoldsRow(w) /\ work[w].row \in Rows /\ w[1] \in Attempts
      /\ att[w[1]].pc = "pool" /\ work[w].row < att[w[1]].next
  BY HeldRow DEF Sends
<1>4. /\ work'[w].row = 0 /\ work'[w].pc = "idle"
      /\ \A v \in AllWorkers : v # w => work'[v] = work[v]
  BY DEF Sends, Works, Idle
<1>5. 0 \notin Rows
  BY FileAssumption DEF Rows
<1>6. ASSUME NEW b \in Attempts
      PROVE  Begun(b)'
  BY DEF RowsInv, Begun, Sends, Works
<1>7. ASSUME NEW v \in AllWorkers
      PROVE  HoldsRow(v)'
  <2>1. HoldsRow(v)
    BY DEF RowsInv
  <2>2. CASE v = w
    BY <1>4, <2>2 DEF HoldsRow, Holds
  <2>3. CASE v # w
    BY <1>4, <2>1, <2>3 DEF HoldsRow, Holds, Sends
  <2> QED
    BY <2>2, <2>3
<1>8. SentRow(m)'
  <2>1. \A v \in AllWorkers : v[1] = w[1] => work'[v].row # work[w].row
    <3>1. ASSUME NEW v \in AllWorkers, v[1] = w[1], v # w
          PROVE  work[v].row # work[w].row
      <4>1. HoldsRow(v)
        BY DEF RowsInv
      <4> QED
        BY <1>3, <1>5, <3>1, <4>1 DEF HoldsRow
    <3> QED
      BY <1>3, <1>4, <1>5, <3>1
  <2>2. \A n \in out : n[1] = w[1] => n[2] # work[w].row
    BY DEF RowsInv, SentRow
  <2> QED
    BY <1>2, <1>3, <2>1, <2>2 DEF SentRow, Sends
<1>9. ASSUME NEW n \in out
      PROVE  SentRow(n)'
  <2>1. SentRow(n) /\ n[2] \in Rows
    BY ResultParts DEF RowsInv
  <2>2. ~(n[1] = w[1] /\ n[2] = work[w].row)
    BY <2>1 DEF SentRow
  <2>3. \A v \in AllWorkers : v[1] = n[1] => work'[v].row # n[2]
    BY <1>4, <1>5, <2>1 DEF SentRow
  <2> QED
    BY <1>2, <2>1, <2>2, <2>3 DEF SentRow, Sends
<1>10. ASSUME NEW a \in Attempts
       PROVE  Finished(a)' = Finished(a)
  <2>1. att[a].next \in Int
    BY AttemptParts, FileAssumption
  <2>2. ASSUME NEW r \in 1..att[a].next - 1
        PROVE  /\ (\A v \in AllWorkers : v[1] = a => work'[v].row # r)
                    /\ (\A n \in out' : n[1] = a => n[2] # r)
               <=> /\ (\A v \in AllWorkers : v[1] = a => work[v].row # r)
                   /\ (\A n \in out : n[1] = a => n[2] # r)
    <3>1. r # 0
      BY <2>1
    <3> QED
      BY <1>2, <1>4, <3>1
  <2> QED
    BY <2>2 DEF Finished, Sends
<1> QED
  BY <1>2, <1>6, <1>7, <1>8, <1>9, <1>10 DEF RowsInv, AllWorkers

\* In both cases the counts stay right.
LEMMA WorksCounts ==
  ASSUME TypeOK, TypeOK', CountInv, NEW w \in AllWorkers, Works(w), UNCHANGED att,
         \A a \in Attempts : Finished(a)' = Finished(a)
  PROVE  CountInv'
<1>1. ASSUME NEW a \in Attempts
      PROVE  CountsRows(a)'
  <2>1. /\ att'[a].tally = att[a].tally /\ att'[a].expired = att[a].expired
        /\ att'[a].pc = att[a].pc
    OBVIOUS
  <2> QED
    BY <2>1, CountsGrow DEF CountInv, Works
<1> QED
  BY <1>1 DEF CountInv

-----------------------------------------------------------------------------
(* Handing out rows *)

\* The next row of an attempt is handed out.
HandsOut(a) ==
  /\ att[a].pc = "pool" /\ att[a].next <= N
  /\ att'[a].next = att[a].next + 1 /\ att'[a].pc = att[a].pc
  /\ att'[a].tally = att[a].tally /\ att'[a].expired = att[a].expired
  /\ att'[a].read = att[a].read
  /\ \A b \in Attempts : b # a => att'[b] = att[b]

\* A worker takes it, drops it, or stops for want of one.
Claims(w) ==
  /\ HandsOut(w[1])
  /\ work'[w].pc = "lookup" /\ work'[w].row = att[w[1]].next

Drops(w) ==
  /\ HandsOut(w[1]) /\ att[w[1]].expired
  /\ work'[w].pc = "stopped" /\ work'[w].row = 0

Stops(w) ==
  /\ UNCHANGED att /\ att[w[1]].pc = "pool" /\ att[w[1]].next = N + 1
  /\ work'[w].pc = "stopped" /\ work'[w].row = 0

LEMMA TakeCases ==
  ASSUME TypeOK, NEW w \in AllWorkers, Take(w)
  PROVE  /\ TypeOK' /\ Works(w) /\ UNCHANGED out /\ ~Holds(w)
         /\ work'[w].id = NoId /\ ~work'[w].reserved
         /\ Claims(w) \/ Drops(w) \/ Stops(w)
<1> DEFINE a == w[1]
           next == att[a].next
           y == [att[a] EXCEPT !.next = next + 1]
           claim == [Idle EXCEPT !.pc = "lookup", !.row = next]
           stop == [Idle EXCEPT !.pc = "stopped"]
<1>1. /\ a \in Attempts /\ next \in 1..(N + 1)
      /\ att[a].pc = "pool" /\ work[w].pc = "idle"
      /\ UNCHANGED <<task, out, rec, quota, log, firs, mishaps>>
  BY WorkerParts, AttemptParts DEF Take
<1>2. /\ stop \in Worker /\ stop.pc = "stopped" /\ stop.row = 0
      /\ stop.id = NoId /\ stop.reserved = FALSE
  BY IdleType DEF Idle, Worker
<1>3. next <= N => /\ claim \in Worker /\ claim.pc = "lookup" /\ claim.row = next
                   /\ claim.id = NoId /\ claim.reserved = FALSE
  <2>1. next <= N => next \in Rows
    BY <1>1, FileAssumption DEF Rows
  <2> QED
    BY <2>1, IdleType DEF Idle, Worker
<1>4. next <= N => /\ y \in Attempt /\ y.next = next + 1 /\ y.pc = att[a].pc
                   /\ y.tally = att[a].tally /\ y.expired = att[a].expired
                   /\ y.read = att[a].read
  <2>1. next <= N => next + 1 \in 1..(N + 1)
    BY <1>1, FileAssumption
  <2> QED
    BY <1>1, <2>1, AttemptParts DEF Attempt
<1>5. \/ next <= N /\ ~att[a].expired /\ Step(w, claim) /\ att' = [att EXCEPT ![a] = y]
      \/ next <= N /\ att[a].expired /\ Step(w, stop) /\ att' = [att EXCEPT ![a] = y]
      \/ next = N + 1 /\ Step(w, stop) /\ att' = att
  BY <1>1, FileAssumption DEF Take
<1> HIDE DEF a, next, y, claim, stop
<1>6. att' = [att EXCEPT ![a] = y] /\ next <= N =>
        /\ att' \in [Attempts -> Attempt] /\ att'[a] = y
        /\ \A b \in Attempts : b # a => att'[b] = att[b]
  BY <1>1, <1>4, AttemptStepType
<1>7. Step(w, stop) => /\ work' \in [AllWorkers -> Worker] /\ work'[w] = stop
                       /\ \A v \in AllWorkers : v # w => work'[v] = work[v]
  BY <1>2, StepType
<1>8. Step(w, claim) /\ next <= N =>
        /\ work' \in [AllWorkers -> Worker] /\ work'[w] = claim
        /\ \A v \in AllWorkers : v # w => work'[v] = work[v]
  BY <1>3, StepType
<1>9. TypeOK'
  <2>1. att' \in [Attempts -> Attempt]
    BY <1>5, <1>6 DEF TypeOK
  <2>2. work' \in [Attempts \X Workers -> Worker]
    BY <1>5, <1>7, <1>8 DEF AllWorkers
  <2> QED
    BY <1>1, <2>1, <2>2 DEF TypeOK
<1>10. Works(w)
  BY <1>1, <1>5, <1>7, <1>8 DEF Works, FirsGrows
<1>11. Claims(w) \/ Drops(w) \/ Stops(w)
  <2>1. att' = [att EXCEPT ![a] = y] /\ next <= N => HandsOut(a)
    BY <1>1, <1>4, <1>6 DEF HandsOut, next
  <2> QED
    BY <1>1, <1>2, <1>3, <1>5, <1>7, <1>8, <2>1 DEF Claims, Drops, Stops, a, next
<1>12. work'[w].id = NoId /\ ~work'[w].reserved
  BY <1>2, <1>3, <1>5, <1>7, <1>8
<1> QED
  BY <1>1, <1>9, <1>10, <1>11, <1>12 DEF Holds

LEMMA TakeRows ==
  ASSUME TypeOK, RowsInv, NEW w \in AllWorkers, Take(w)
  PROVE  RowsInv'
<1> DEFINE a == w[1]
<1>1. /\ Works(w) /\ out' = out /\ ~Holds(w)
      /\ Claims(w) \/ Drops(w) \/ Stops(w)
      /\ a \in Attempts /\ att[a].next \in 1..(N + 1)
  BY TakeCases, WorkerParts, AttemptParts
<1>2. /\ att'[a].pc = "pool" /\ att[a].pc = "pool" /\ att'[a].next >= att[a].next
      /\ \A b \in Attempts : b # a => att'[b] = att[b]
      /\ att'[a].tally = att[a].tally /\ att'[a].expired = att[a].expired
      /\ att'[a].read = att[a].read /\ att'[a].next \in Int /\ att[a].next \in Int
  BY <1>1, FileAssumption DEF Claims, Drops, Stops, HandsOut
<1>3. ASSUME NEW b \in Attempts
      PROVE  Begun(b)'
  BY <1>1, <1>2 DEF RowsInv, Begun, Works
<1>4. ASSUME NEW v \in AllWorkers, v # w
      PROVE  HoldsRow(v) /\ work'[v] = work[v] /\ (Holds(v) => work[v].row < att[v[1]].next)
  BY <1>1, <1>4 DEF RowsInv, HoldsRow, Works
<1>5. ASSUME NEW v \in AllWorkers
      PROVE  work[v].row \in Int
  BY WorkerParts, FileAssumption DEF Rows
<1>6. ASSUME NEW v \in AllWorkers, v # w
      PROVE  HoldsRow(v)'
  <2>1. HoldsRow(v) /\ work'[v] = work[v] /\ v[1] \in Attempts
    BY <1>4, <1>6, WorkerParts
  <2>2. Holds(v)' => att'[v[1]].pc = "pool" /\ work'[v].row < att'[v[1]].next
    BY <1>2, <1>5, <2>1 DEF HoldsRow, Holds
  <2>3. work'[v].row # 0 <=> Holds(v)'
    BY <2>1 DEF HoldsRow, Holds
  <2>4. ASSUME NEW u \in AllWorkers, u[1] = v[1], u # v, Holds(v)'
        PROVE  work'[u].row # work'[v].row
    <3>1. CASE u # w
      BY <1>4, <2>1, <2>4, <3>1 DEF HoldsRow, Holds
    <3>2. CASE u = w
      <4>1. work'[w].row \in {0, att[a].next}
        BY <1>1 DEF Claims, Drops, Stops
      <4>2. work[v].row < att[a].next
        BY <1>4, <1>6, <2>1, <2>4, <3>2 DEF Holds
      <4> QED
        BY <1>2, <1>5, <2>1, <2>3, <2>4, <3>2, <4>1, <4>2
    <3> QED
      BY <3>1, <3>2
  <2>5. work'[v].pc = "stopped" /\ ~att'[v[1]].expired => att'[v[1]].next = N + 1
    BY <1>1, <1>2, <2>1, FileAssumption DEF HoldsRow, HandsOut, Claims, Drops, Stops
  <2> QED
    BY <2>2, <2>3, <2>4, <2>5 DEF HoldsRow
<1>7. HoldsRow(w)'
  <2>1. work'[w].row # 0 <=> Holds(w)'
    BY <1>1, <1>2 DEF Claims, Drops, Stops, Holds
  <2>2. Holds(w)' => /\ att'[a].pc = "pool" /\ work'[w].row = att[a].next
                     /\ att'[a].next = att[a].next + 1
    BY <1>1, <1>2 DEF Claims, Drops, Stops, Holds, HandsOut
  <2>3. ASSUME NEW v \in AllWorkers, v[1] = a, v # w, Holds(w)'
        PROVE  work'[v].row # work'[w].row
    <3>1. work'[v].row = work[v].row /\ (work[v].row < att[a].next \/ work[v].row = 0)
      BY <1>4, <2>3 DEF HoldsRow, Holds
    <3> QED
      BY <1>2, <1>5, <2>1, <2>2, <2>3, <3>1
  <2>4. work'[w].pc = "stopped" /\ ~att'[a].expired => att'[a].next = N + 1
    BY <1>1, <1>2 DEF Claims, Drops, Stops
  <2> QED
    BY <1>2, <2>1, <2>2, <2>3, <2>4 DEF HoldsRow
<1>8. ASSUME NEW m \in out
      PROVE  SentRow(m)'
  <2>1. SentRow(m) /\ m[1] \in Attempts /\ m[2] \in Rows
    BY ResultParts DEF RowsInv
  <2>2. m[2] \in Int /\ m[2] # 0
    BY <2>1, FileAssumption DEF Rows
  <2>3. att'[m[1]].pc = "pool" /\ m[2] < att'[m[1]].next
    BY <1>2, <2>1, <2>2 DEF SentRow
  <2>4. m[1] = a => work'[w].row # m[2]
    BY <1>1, <1>2, <2>1, <2>2 DEF SentRow, Claims, Drops, Stops
  <2>5. \A v \in AllWorkers : v[1] = m[1] => work'[v].row # m[2]
    BY <1>4, <2>1, <2>4 DEF SentRow
  <2> QED
    BY <1>1, <2>1, <2>3, <2>5 DEF SentRow
<1> QED
  BY <1>1, <1>3, <1>6, <1>7, <1>8 DEF RowsInv, AllWorkers

\* A row that is handed out is not finished; one that is dropped is.
LEMMA TakeFinished ==
  ASSUME TypeOK, RowsInv, NEW w \in AllWorkers, Take(w), NEW b \in Attempts
  PROVE  /\ Finished(b) \subseteq Finished(b)'
         /\ ~att[b].expired => Finished(b)' = Finished(b)
<1>1. /\ Works(w) /\ out' = out /\ work[w].row = 0 /\ w[1] \in Attempts
      /\ Claims(w) \/ Drops(w) \/ Stops(w)
  BY TakeCases, WorkerParts DEF RowsInv, HoldsRow
<1>2. \A v \in AllWorkers : v # w => work'[v].row = work[v].row
  BY <1>1 DEF Works
<1>3. CASE b # w[1]
  <2>1. att'[b].next = att[b].next
    BY <1>1, <1>3 DEF Claims, Drops, Stops, HandsOut
  <2>2. \A v \in AllWorkers : v[1] = b => work'[v].row = work[v].row
    BY <1>2, <1>3
  <2>3. Finished(b)' = Finished(b)
    BY <1>1, <2>1, <2>2 DEF Finished
  <2> QED
    BY <2>3
<1>4. CASE b = w[1]
  <2>1. /\ att[b].next \in Int /\ att'[b].next \in Int /\ att'[b].next >= att[b].next
        /\ att'[b].next # att[b].next => att'[b].next = att[b].next + 1
        /\ att[b].next >= 1
    BY <1>1, <1>4, AttemptParts, FileAssumption DEF Claims, Drops, Stops, HandsOut
  <2>2. ASSUME NEW r \in 1..att[b].next - 1, NEW v \in AllWorkers, v[1] = b, work[v].row # r
        PROVE  work'[v].row # r
    <3>1. r # 0 /\ r # att[b].next
      BY <2>1, <2>2
    <3>2. CASE v = w
      BY <1>1, <1>4, <3>1, <3>2 DEF Claims, Drops, Stops
    <3> QED
      BY <1>2, <2>2, <3>2
  <2>3. Finished(b) \subseteq Finished(b)'
    <3>1. 1..att[b].next - 1 \subseteq 1..att'[b].next - 1
      BY <2>1
    <3> QED
      BY <1>1, <2>2, <3>1 DEF Finished
  <2>4. ASSUME ~att[b].expired, NEW r \in Finished(b)'
        PROVE  r \in Finished(b)
    <3>1. /\ r \in 1..att'[b].next - 1
          /\ \A v \in AllWorkers : v[1] = b => work'[v].row # r
          /\ \A m \in out : m[1] = b => m[2] # r
      BY <1>1, <2>4 DEF Finished
    <3>2. Claims(w) \/ Stops(w)
      BY <1>1, <1>4, <2>4 DEF Drops
    <3>3. r \in 1..att[b].next - 1
      BY <1>4, <2>1, <3>1, <3>2 DEF Claims, Stops
    <3>4. \A v \in AllWorkers : v[1] = b => work[v].row # r
      BY <1>1, <1>2, <3>1, <3>3
    <3> QED
      BY <3>1, <3>3, <3>4 DEF Finished
  <2> QED
    BY <2>3, <2>4
<1> QED
  BY <1>3, <1>4

LEMMA TakeCounts ==
  ASSUME TypeOK, TypeOK', RowsInv, CountInv, NEW w \in AllWorkers, Take(w)
  PROVE  CountInv'
<1>1. /\ Works(w) /\ w[1] \in Attempts
      /\ Claims(w) \/ Drops(w) \/ Stops(w)
  BY TakeCases, WorkerParts
<1>2. ASSUME NEW b \in Attempts
      PROVE  CountsRows(b)'
  <2>1. /\ att'[b].tally = att[b].tally /\ att'[b].pc = att[b].pc
        /\ att'[b].expired = att[b].expired
    BY <1>1 DEF Claims, Drops, Stops, HandsOut
  <2> QED
    BY <1>1, <2>1, TakeFinished, CountsGrow DEF CountInv, Works
<1> QED
  BY <1>2 DEF CountInv

-----------------------------------------------------------------------------
(* Counting a result *)

\* A result is counted as what FIRS really did.
LEMMA CountedTruthfully ==
  ASSUME TypeOK, TruthInv, NEW m \in out,
         NEW row \in {NoRecord} \cup {rec[i] : i \in Found(Number[m[2]])}
  PROVE  /\ Counted(m[3], m[4], row) \in {"success", "partial", "failed"}
         /\ Counted(m[3], m[4], row) = "success" => Number[m[2]] \in firs[Transmitted]
         /\ Counted(m[3], m[4], row) = "partial" => Number[m[2]] \in firs[Signed]
<1> DEFINE num == Number[m[2]]
<1>1. /\ row.hist[Signed] = "success" => num \in firs[Signed]
      /\ row.cur = Transmitted => num \in firs[Signed]
      /\ row.cur = Confirmed => num \in firs[Transmitted]
  <2>1. CASE row = NoRecord
    BY <2>1 DEF NoRecord, Pending, SignedIRN, Transmitted, Confirmed, Signed, Stages
  <2>2. CASE row # NoRecord
    <3>1. PICK i \in DOMAIN rec : rec[i].num = num /\ row = rec[i]
      BY <2>2 DEF Found
    <3> QED
      BY <3>1 DEF TruthInv, Truthful, TrueWorker, TrueResult
  <2> QED
    BY <2>1, <2>2
<1>2. /\ m[3] = Confirmed \/ m[4] => num \in firs[Transmitted]
      /\ m[3] = Transmitted => num \in firs[Signed]
  BY DEF TruthInv, TrueResult
<1> HIDE DEF num
<1>3. Counted(m[3], m[4], row) = "success" => num \in firs[Transmitted]
  BY <1>1, <1>2 DEF Counted
<1>4. Counted(m[3], m[4], row) = "partial" => num \in firs[Signed]
  BY <1>1, <1>2 DEF Counted
<1>5. Counted(m[3], m[4], row) \in {"success", "partial", "failed"}
  BY DEF Counted
<1> QED
  BY <1>3, <1>4, <1>5 DEF num

\* What counting a result does: its row is over and done with.
LEMMA TallyParts ==
  ASSUME TypeOK, RowsInv, TruthInv, CountInv, NEW m \in out, Tally(m)
  PROVE  /\ TypeOK' /\ RowsInv'
         /\ m[1] \in Attempts /\ att[m[1]].pc = "pool" /\ m[2] \in Rows
         /\ UNCHANGED <<task, work, rec, quota, log, firs, mishaps>> /\ out' = out \ {m}
         /\ m[2] \notin Finished(m[1]) /\ Finished(m[1])' = Finished(m[1]) \cup {m[2]}
         /\ \A b \in Attempts : b # m[1] => att'[b] = att[b] /\ Finished(b)' = Finished(b)
         /\ att'[m[1]].next = att[m[1]].next /\ att'[m[1]].pc = att[m[1]].pc
         /\ att'[m[1]].expired = att[m[1]].expired /\ att'[m[1]].read = att[m[1]].read
         /\ \E c \in {"success", "partial", "failed"} :
              /\ att'[m[1]].tally = [att[m[1]].tally EXCEPT ![c] = @ + 1]
              /\ c = "success" => Number[m[2]] \in firs[Transmitted]
              /\ c = "partial" => Number[m[2]] \in firs[Signed]
<1>1. PICK a \in Attempts, r \in Rows : a = m[1] /\ r = m[2]
  BY ResultParts
<1>2. /\ att[a].pc = "pool" /\ out' = out \ {m}
      /\ UNCHANGED <<task, work, rec, quota, log, firs, mishaps>>
  BY <1>1 DEF Tally
<1>3. PICK c \in {"success", "partial", "failed"} :
        /\ att' = [att EXCEPT ![a].tally[c] = @ + 1]
        /\ c = "success" => Number[r] \in firs[Transmitted]
        /\ c = "partial" => Number[r] \in firs[Signed]
  BY <1>1, CountedTruthfully DEF Tally
<1>4. /\ r < att[a].next /\ (\A w \in AllWorkers : w[1] = a => work[w].row # r)
      /\ (\A n \in out : n[1] = a /\ n[2] = r => n = m)
  BY <1>1 DEF RowsInv, SentRow
<1>5. att[a].tally \in Counts /\ att[a] \in Attempt /\ att[a].next \in Int
      /\ Finished(a) \in SUBSET Rows /\ r \in 1..att[a].next - 1
  BY <1>4, AttemptParts, FinishedRows, FileAssumption DEF Rows
<1>6. r \notin Finished(a)
  BY <1>1 DEF Finished
<1>7. att[a].tally[c] + 1 \in 0..(N + Invalid)
  <2>1. Cardinality(Finished(a)) \in Nat /\ Cardinality(Finished(a)) + 1 <= N
    <3>1. Finished(a) \cup {r} \in SUBSET Rows
      BY <1>5
    <3> QED
      BY <1>5, <1>6, <3>1, RowSets, RowAdded
  <2>2. Sum(att[a].tally) <= Cardinality(Finished(a)) /\ Sum(att[a].tally) \in Nat
        /\ \A d \in {"success", "partial", "failed"} : att[a].tally[d] \in Nat
    BY <1>5, CountParts DEF CountInv, CountsRows
  <2>3. att[a].tally[c] \in Nat /\ att[a].tally[c] <= Sum(att[a].tally)
    BY <2>2 DEF Sum
  <2> QED
    BY <2>1, <2>2, <2>3, FileAssumption
<1> DEFINE t == [att[a].tally EXCEPT ![c] = @ + 1]
           x == [att[a] EXCEPT !.tally = t]
<1>8. t \in Counts
  BY <1>5, <1>7 DEF Counts
<1>9. /\ x \in Attempt /\ x.tally = t /\ x.next = att[a].next /\ x.pc = att[a].pc
      /\ x.expired = att[a].expired /\ x.read = att[a].read
  BY <1>5, <1>8 DEF Attempt
<1>10. att' = [att EXCEPT ![a] = x]
  BY <1>3
<1> HIDE DEF x
<1>11. /\ att' \in [Attempts -> Attempt] /\ att'[a] = x
       /\ \A b \in Attempts : b # a => att'[b] = att[b]
  BY <1>9, <1>10, AttemptStepType
<1>12. TypeOK'
  BY <1>2, <1>11 DEF TypeOK
<1>13. \A b \in Attempts : Finished(b)' = IF b = a THEN Finished(a) \cup {r} ELSE Finished(b)
  <2>1. ASSUME NEW b \in Attempts, b # a
        PROVE  Finished(b)' = Finished(b)
    BY <1>1, <1>2, <1>11, <2>1 DEF Finished
  <2>2. Finished(a)' = Finished(a) \cup {r}
    <3>1. \A n \in out : n[1] = a /\ n[2] = r => n = m
      BY <1>4
    <3>2. att'[a].next = att[a].next
      BY <1>9, <1>11
    <3> QED
      BY <1>1, <1>2, <1>4, <1>5, <3>1, <3>2 DEF Finished
  <2> QED
    BY <2>1, <2>2
<1>14. RowsInv'
  <2>1. \A b \in Attempts : /\ att'[b].pc = att[b].pc /\ att'[b].next = att[b].next
                            /\ att'[b].expired = att[b].expired /\ att'[b].read = att[b].read
    BY <1>9, <1>11
  <2>2. ASSUME NEW b \in Attempts
        PROVE  Begun(b)'
    BY <1>2, <1>11, <2>1 DEF RowsInv, Begun
  <2>3. ASSUME NEW v \in AllWorkers
        PROVE  HoldsRow(v)'
    BY <1>2, <2>1, WorkerParts DEF RowsInv, HoldsRow, Holds
  <2>4. ASSUME NEW n \in out
        PROVE  SentRow(n)'
    BY <1>2, <2>1, ResultParts DEF RowsInv, SentRow
  <2> QED
    BY <1>2, <2>2, <2>3, <2>4 DEF RowsInv, AllWorkers
<1>15. /\ att'[a].next = att[a].next /\ att'[a].pc = att[a].pc
       /\ att'[a].expired = att[a].expired /\ att'[a].read = att[a].read /\ att'[a].tally = t
  BY <1>9, <1>11
<1> QED
  BY <1>1, <1>2, <1>3, <1>6, <1>11, <1>12, <1>13, <1>14, <1>15

LEMMA TallyCounts ==
  ASSUME TypeOK, RowsInv, TruthInv, CountInv, NEW m \in out, Tally(m)
  PROVE  CountInv'
<1>1. PICK a \in Attempts, r \in Rows : a = m[1] /\ r = m[2]
  BY ResultParts
<1>2. /\ att[a].pc = "pool" /\ att'[a].pc = "pool" /\ att'[a].expired = att[a].expired
      /\ firs' = firs
      /\ r \notin Finished(a) /\ Finished(a)' = Finished(a) \cup {r}
      /\ \A b \in Attempts : b # a => att'[b] = att[b] /\ Finished(b)' = Finished(b)
  BY <1>1, TallyParts
<1>3. PICK c \in {"success", "partial", "failed"} :
        /\ att'[a].tally = [att[a].tally EXCEPT ![c] = @ + 1]
        /\ c = "success" => Number[r] \in firs[Transmitted]
        /\ c = "partial" => Number[r] \in firs[Signed]
  BY <1>1, TallyParts
<1>4. /\ Finished(a) \in SUBSET Rows /\ Finished(a)' \in SUBSET Rows
      /\ Cardinality(Finished(a)) \in Nat
      /\ Cardinality(Finished(a)') = Cardinality(Finished(a)) + 1
  BY <1>2, FinishedRows, RowSets, RowAdded
<1>5. /\ att[a].tally \in Counts /\ Sum(att[a].tally) \in Nat
      /\ \A d \in {"success", "partial", "failed", "errors"} : att[a].tally[d] \in Nat
  BY AttemptParts, CountParts
<1>6. /\ \A d \in {"success", "partial", "failed"} :
           att'[a].tally[d] = IF d = c THEN att[a].tally[d] + 1 ELSE att[a].tally[d]
      /\ Sum(att'[a].tally) = Sum(att[a].tally) + 1
  <2>1. \A d \in {"success", "partial", "failed"} :
          att'[a].tally[d] = IF d = c THEN att[a].tally[d] + 1 ELSE att[a].tally[d]
    BY <1>3, <1>5 DEF Counts
  <2> QED
    BY <1>5, <2>1 DEF Sum
<1>7. CountsRows(a)
  BY DEF CountInv
<1>8. ASSUME NEW s \in {Signed, Transmitted}
      PROVE  /\ Cardinality(FinishedAt(a, s)) \in Nat /\ Cardinality(FinishedAt(a, s)') \in Nat
             /\ Cardinality(FinishedAt(a, s)) <= Cardinality(FinishedAt(a, s)')
             /\ Number[r] \in firs[s] =>
                  Cardinality(FinishedAt(a, s)') = Cardinality(FinishedAt(a, s)) + 1
  <2>1. /\ FinishedAt(a, s)' \in SUBSET Rows /\ FinishedAt(a, s) \in SUBSET Rows
        /\ FinishedAt(a, s) \in SUBSET FinishedAt(a, s)' /\ r \notin FinishedAt(a, s)
    BY <1>2, <1>4 DEF FinishedAt
  <2>2. Number[r] \in firs[s] => FinishedAt(a, s)' = FinishedAt(a, s) \cup {r}
    BY <1>2 DEF FinishedAt
  <2> QED
    BY <2>1, <2>2, RowsGrow, RowAdded
<1>9. /\ att'[a].tally["success"] <= Cardinality(FinishedAt(a, Transmitted)')
      /\ att'[a].tally["partial"] <= Cardinality(FinishedAt(a, Signed)')
  <2>1. CASE c = "success"
    BY <1>3, <1>5, <1>6, <1>7, <1>8, <2>1 DEF CountsRows
  <2>2. CASE c = "partial"
    BY <1>3, <1>5, <1>6, <1>7, <1>8, <2>2 DEF CountsRows
  <2>3. CASE c = "failed"
    BY <1>5, <1>6, <1>7, <1>8, <2>3 DEF CountsRows
  <2> QED
    BY <2>1, <2>2, <2>3
<1>10. CountsRows(a)'
  BY <1>2, <1>4, <1>5, <1>6, <1>7, <1>9 DEF CountsRows
<1>11. ASSUME NEW b \in Attempts, b # a
       PROVE  CountsRows(b)'
  <2>1. /\ att'[b] = att[b] /\ Finished(b)' = Finished(b)
        /\ FinishedAt(b, Signed)' = FinishedAt(b, Signed)
        /\ FinishedAt(b, Transmitted)' = FinishedAt(b, Transmitted)
    BY <1>2, <1>11 DEF FinishedAt
  <2> QED
    BY <2>1 DEF CountInv, CountsRows
<1> QED
  BY <1>10, <1>11 DEF CountInv

LEMMA TallyCore ==
  ASSUME CoreInv, NEW m \in out, Tally(m)
  PROVE  CoreInv'
<1>1. /\ TypeOK' /\ RowsInv' /\ m[1] \in Attempts /\ out' = out \ {m}
      /\ UNCHANGED <<task, work, rec, quota, log, firs, mishaps>>
      /\ \A b \in Attempts : b # m[1] => att'[b] = att[b]
      /\ att'[m[1]].next = att[m[1]].next
  BY TallyParts DEF CoreInv
<1>2. CountInv'
  BY TallyCounts DEF CoreInv
<1>3. RecordsInv'
  <2>1. \A b \in Attempts : att'[b].next = att[b].next
    BY <1>1
  <2>2. ASSUME NEW i \in DOMAIN rec
        PROVE  i[2] < att'[i[1]].next /\ rec[i].num = Number[i[2]]
    BY <2>1 DEF CoreInv, RecordsInv, TypeOK, Ids
  <2> QED
    BY <1>1, <2>2 DEF CoreInv, RecordsInv, HoldsRecord, AllWorkers
<1>4. QuotaInv' /\ TruthInv'
  BY <1>1 DEF CoreInv, QuotaInv, Reserved, TruthInv, Truthful, TrueWorker, TrueResult
<1> QED
  BY <1>1, <1>2, <1>3, <1>4 DEF CoreInv

LEMMA TakeCore ==
  ASSUME CoreInv, NEW w \in AllWorkers, Take(w)
  PROVE  CoreInv'
<1>1. /\ TypeOK' /\ Works(w) /\ out' = out /\ ~Holds(w)
      /\ work'[w].id = NoId /\ ~work'[w].reserved
      /\ Claims(w) \/ Drops(w) \/ Stops(w)
      /\ w[1] \in Attempts /\ att[w[1]].next \in 1..(N + 1)
      /\ UNCHANGED <<task, out, rec, quota, log, firs, mishaps>>
  BY TakeCases, WorkerParts, AttemptParts DEF CoreInv, Take
<1>2. RowsInv' /\ CountInv'
  BY <1>1, TakeRows, TakeCounts DEF CoreInv
<1>3. \A b \in Attempts : att'[b].next >= att[b].next /\ att[b].next \in Int /\ att'[b].next \in Int
  <2>1. ASSUME NEW b \in Attempts
        PROVE  att[b].next \in Int
    BY AttemptParts, FileAssumption DEF CoreInv
  <2> QED
    BY <1>1, <2>1 DEF Claims, Drops, Stops, HandsOut
<1>4. RecordsInv'
  <2>1. ASSUME NEW i \in DOMAIN rec
        PROVE  i[2] < att'[i[1]].next /\ rec[i].num = Number[i[2]]
    <3>1. i[1] \in Attempts /\ i[2] \in Int /\ i[2] < att[i[1]].next /\ rec[i].num = Number[i[2]]
      BY FileAssumption DEF CoreInv, RecordsInv, TypeOK, Ids, Rows
    <3> QED
      BY <1>3, <3>1
  <2>2. HoldsRecord(w)'
    <3>1. work'[w].pc \in {"lookup", "stopped"}
      BY <1>1 DEF Claims, Drops, Stops
    <3>2. <<w[1], work'[w].row>> \notin DOMAIN rec
      <4>1. CASE work'[w].row = 0
        BY <4>1, FileAssumption DEF CoreInv, TypeOK, Ids, Rows
      <4>2. CASE work'[w].row = att[w[1]].next
        <5>1. \A i \in DOMAIN rec : i[2] < att[i[1]].next
          BY DEF CoreInv, RecordsInv
        <5> QED
          BY <1>3, <1>1, <4>2, <5>1
      <4> QED
        BY <1>1, <4>1, <4>2 DEF Claims, Drops, Stops
    <3> QED
      BY <1>1, <3>1, <3>2 DEF HoldsRecord
  <2>3. ASSUME NEW v \in AllWorkers, v # w
        PROVE  HoldsRecord(v)'
    BY <1>1, <2>3 DEF CoreInv, RecordsInv, HoldsRecord, Works
  <2> QED
    BY <1>1, <2>1, <2>2, <2>3 DEF RecordsInv, AllWorkers
<1>5. QuotaInv'
  <2>1. ~work[w].reserved
    BY <1>1 DEF CoreInv, RecordsInv, HoldsRecord, Holds
  <2>2. Reserved' = Reserved
    BY <1>1, <2>1 DEF Reserved, Works, AllWorkers
  <2> QED
    BY <1>1, <2>2 DEF CoreInv, QuotaInv
<1>6. TruthInv'
  <2>1. ASSUME NEW v \in AllWorkers
        PROVE  /\ work'[v].id # NoId => v # w /\ work'[v] = work[v]
               /\ work'[v].pc = "call" => v # w /\ work'[v] = work[v]
    BY <1>1 DEF Works, Claims, Drops, Stops
  <2> QED
    BY <1>1, <2>1 DEF CoreInv, TruthInv, Truthful, TrueWorker, TrueResult, AllWorkers
<1> QED
  BY <1>1, <1>2, <1>4, <1>5, <1>6 DEF CoreInv

-----------------------------------------------------------------------------
(* The end of the process *)

LEMMA RestartCore ==
  ASSUME CoreInv, RestartProcess
  PROVE  CoreInv'
<1>1. /\ task' \in {task, "waiting"}
      /\ \A w \in AllWorkers : work'[w] = Idle
      /\ out' = {} /\ mishaps' = mishaps \cup {"restart"}
      /\ UNCHANGED <<rec, quota, log, firs>>
  BY DEF RestartProcess, AllWorkers
<1>2. ASSUME NEW b \in Attempts
      PROVE  /\ att'[b].next = att[b].next /\ att'[b].tally = att[b].tally
             /\ att'[b].expired = att[b].expired /\ att'[b].read = att[b].read
             /\ att'[b].copy = att[b].copy /\ att'[b] \in Attempt
             /\ IF Running(b) THEN att'[b].pc = "dead" ELSE att'[b].pc = att[b].pc
  <2>1. att'[b] = IF Running(b) THEN [att[b] EXCEPT !.pc = "dead"] ELSE att[b]
    BY DEF RestartProcess
  <2> QED
    BY <2>1, AttemptParts DEF CoreInv, Attempt
<1>3. TypeOK'
  <2>1. att' \in [Attempts -> Attempt]
    BY <1>2 DEF RestartProcess
  <2>2. work' \in [Attempts \X Workers -> Worker]
    BY IdleType DEF RestartProcess
  <2> QED
    BY <1>1, <2>1, <2>2 DEF CoreInv, TypeOK
<1>4. RowsInv'
  <2>1. ASSUME NEW b \in Attempts
        PROVE  Begun(b)'
    BY <1>1, <1>2, PoolAssumption DEF CoreInv, RowsInv, Begun, Running
  <2>2. ASSUME NEW w \in AllWorkers
        PROVE  HoldsRow(w)'
    BY <1>1 DEF HoldsRow, Holds, Idle
  <2> QED
    BY <1>1, <2>1, <2>2 DEF RowsInv, AllWorkers
<1>5. RecordsInv'
  <2>1. ASSUME NEW i \in DOMAIN rec
        PROVE  i[2] < att'[i[1]].next /\ rec[i].num = Number[i[2]]
    BY <1>2 DEF CoreInv, RecordsInv, TypeOK, Ids
  <2>2. ASSUME NEW w \in AllWorkers
        PROVE  HoldsRecord(w)'
    <3>1. <<w[1], 0>> \notin DOMAIN rec
      BY FileAssumption DEF CoreInv, TypeOK, Ids, Rows
    <3> QED
      BY <1>1, <3>1 DEF HoldsRecord, Idle
  <2> QED
    BY <1>1, <2>1, <2>2 DEF RecordsInv, AllWorkers
<1>6. QuotaInv'
  <2>1. Reserved' = {}
    BY <1>1 DEF Reserved, Idle, AllWorkers
  <2>2. Cardinality(Reserved') = 0
    BY <2>1, FS_EmptySet
  <2>3. Cardinality(Reserved) \in Nat /\ Cardinality(DOMAIN rec) \in Nat /\ quota \in Nat
    BY FiniteReserved, FiniteRecords, QuotaAssumption DEF CoreInv, TypeOK
  <2>4. "restart" \in mishaps' \cap {"restart", "lost"}
    BY <1>1
  <2>5. mishaps' \cap {"restart", "lost"} # {}
    BY <2>4
  <2>6. Metered => quota' + Cardinality(DOMAIN rec') + Cardinality(Reserved') <= Quota
    BY <1>1, <2>2, <2>3, QuotaAssumption DEF CoreInv, QuotaInv
  <2> QED
    BY <1>1, <2>5, <2>6 DEF CoreInv, QuotaInv
<1>7. TruthInv'
  BY <1>1 DEF CoreInv, TruthInv, Truthful, TrueWorker, TrueResult, Idle, AllWorkers
<1>8. ASSUME NEW b \in Attempts
      PROVE  CountsRows(b)'
  <2>1. att[b].next \in Int
    BY AttemptParts, FileAssumption DEF CoreInv
  <2>2. Finished(b)' = 1..att[b].next - 1
    BY <1>1, <1>2, <2>1 DEF Finished, Idle
  <2>3. Finished(b) \subseteq Finished(b)'
    BY <2>2 DEF Finished
  <2>4. att'[b].pc # "dead" => att[b].pc \in {"new", "ended", "dead"}
    BY <1>2 DEF Running
  <2>5. att'[b].pc # "dead" => Finished(b)' = Finished(b) /\ att[b].pc # "dead"
    BY <1>2, <2>2, <2>4, OutsidePool DEF CoreInv
  <2>6. att'[b].pc \notin {"failed", "close"}
    BY <1>2, <2>4
  <2>7. FirsGrows
    BY <1>1 DEF FirsGrows
  <2> QED
    BY <1>2, <1>3, <2>3, <2>5, <2>6, <2>7, CountsGrow DEF CoreInv, CountInv
<1> QED
  BY <1>3, <1>4, <1>5, <1>6, <1>7, <1>8 DEF CoreInv, CountInv

-----------------------------------------------------------------------------
(* A worker and its row *)

\* A worker that goes on with its row.
LEMMA GoingOn ==
  ASSUME TypeOK, NEW w \in AllWorkers, NEW x \in Worker, Step(w, x),
         Holds(w), x.pc \notin {"idle", "stopped"}, x.row = work[w].row,
         UNCHANGED <<task, att, out>>, FirsGrows, mishaps \subseteq mishaps'
  PROVE  GoesOn(w) /\ work' \in [AllWorkers -> Worker] /\ work'[w] = x
<1>1. /\ work' \in [AllWorkers -> Worker] /\ work'[w] = x
      /\ \A v \in AllWorkers : v # w => work'[v] = work[v]
  BY StepType
<1> QED
  BY <1>1 DEF GoesOn, Works, Holds

\* A worker that sends a result.
LEMMA Sending ==
  ASSUME TypeOK, RowsInv, NEW w \in AllWorkers, Holds(w),
         NEW report \in Reports, NEW posted \in BOOLEAN, Send(w, report, posted),
         UNCHANGED <<task, att>>, FirsGrows, mishaps \subseteq mishaps'
  PROVE  /\ Sends(w) /\ work' \in [AllWorkers -> Worker] /\ work'[w] = Idle
         /\ out' = out \cup {<<w[1], work[w].row, report, posted>>}
         /\ out' \subseteq Attempts \X Rows \X Reports \X BOOLEAN
<1>1. /\ work' \in [AllWorkers -> Worker] /\ work'[w] = Idle
      /\ \A v \in AllWorkers : v # w => work'[v] = work[v]
  BY IdleType, StepType DEF Send
<1>2. w[1] \in Attempts /\ work[w].row \in Rows
  BY HeldRow
<1>3. out' = out \cup {<<w[1], work[w].row, report, posted>>}
  BY DEF Send
<1>4. <<w[1], work[w].row, report, posted>> \in Attempts \X Rows \X Reports \X BOOLEAN
  BY <1>2
<1> QED
  BY <1>1, <1>3, <1>4 DEF Sends, Works, TypeOK

\* Records are not renamed or removed, and a new one is that of the worker's row.
LEMMA RecordsKept ==
  ASSUME CoreInv, NEW w \in AllWorkers, Holds(w), Works(w), UNCHANGED att,
         DOMAIN rec \subseteq DOMAIN rec',
         DOMAIN rec' \subseteq DOMAIN rec \cup {<<w[1], work[w].row>>},
         \A i \in DOMAIN rec : rec'[i].num = rec[i].num,
         \A i \in DOMAIN rec' : i \notin DOMAIN rec => rec'[i].num = Number[work[w].row],
         HoldsRecord(w)'
  PROVE  RecordsInv'
<1>1. HoldsRow(w) /\ work[w].row < att[w[1]].next
  BY HeldRow DEF CoreInv
<1>2. ASSUME NEW i \in DOMAIN rec'
      PROVE  i[2] < att[i[1]].next /\ rec'[i].num = Number[i[2]]
  <2>1. CASE i \in DOMAIN rec
    BY <2>1 DEF CoreInv, RecordsInv
  <2>2. CASE i \notin DOMAIN rec
    BY <1>1, <1>2, <2>2
  <2> QED
    BY <2>1, <2>2
<1>3. ASSUME NEW v \in AllWorkers, v # w
      PROVE  HoldsRecord(v)'
  <2>1. HoldsRecord(v) /\ HoldsRow(v) /\ work'[v] = work[v]
    BY <1>3 DEF CoreInv, RecordsInv, RowsInv, Works
  <2>2. work[v].id # NoId =>
          /\ work[v].id \in DOMAIN rec' /\ rec'[work[v].id].num = Number[work[v].row]
          /\ work[v].copy \in Record /\ work[v].copy.num = Number[work[v].row]
    BY <2>1 DEF HoldsRecord
  <2>3. work[v].id = NoId => <<v[1], work[v].row>> \notin DOMAIN rec'
    <3>1. <<v[1], work[v].row>> # <<w[1], work[w].row>>
      BY <1>1, <1>3 DEF HoldsRow
    <3> QED
      BY <2>1, <3>1 DEF HoldsRecord
  <2> QED
    BY <2>1, <2>2, <2>3 DEF HoldsRecord
<1> QED
  BY <1>2, <1>3 DEF RecordsInv, AllWorkers

\* A worker that is free again holds no record.
LEMMA IdleRecord ==
  ASSUME TypeOK', NEW w \in AllWorkers, work'[w] = Idle
  PROVE  HoldsRecord(w)' /\ TrueWorker(w)'
<1>1. <<w[1], 0>> \notin DOMAIN rec'
  BY FileAssumption DEF TypeOK, Ids, Rows
<1> QED
  BY <1>1 DEF HoldsRecord, TrueWorker, Idle

\* What was true of an invoice stays true.
LEMMA TruthKept ==
  ASSUME CoreInv, NEW w \in AllWorkers, Works(w),
         \A i \in DOMAIN rec' : (i \in DOMAIN rec /\ rec'[i] = rec[i]) \/ Truthful(rec[i])',
         TrueWorker(w)',
         \A m \in out' : m \in out \/ TrueResult(m)'
  PROVE  TruthInv'
<1>1. firs[Signed] \subseteq firs'[Signed] /\ firs[Transmitted] \subseteq firs'[Transmitted]
  BY DEF Works, FirsGrows, Stages, Signed, Transmitted
<1>2. ASSUME NEW i \in DOMAIN rec'
      PROVE  Truthful(rec[i])'
  BY <1>1 DEF CoreInv, TruthInv, Truthful
<1>3. ASSUME NEW v \in AllWorkers, v # w
      PROVE  TrueWorker(v)'
  BY <1>1, <1>3 DEF CoreInv, TruthInv, TrueWorker, Truthful, Works
<1>4. ASSUME NEW m \in out'
      PROVE  TrueResult(m)'
  BY <1>1 DEF CoreInv, TruthInv, TrueResult
<1> QED
  BY <1>2, <1>3, <1>4 DEF TruthInv, AllWorkers

\* A worker with a row keeps the invariant if it keeps the types, the records,
\* the quota and the truth.
LEMMA RowStep ==
  ASSUME CoreInv, TypeOK', NEW w \in AllWorkers, GoesOn(w) \/ Sends(w),
         RecordsInv', QuotaInv', TruthInv'
  PROVE  CoreInv'
<1>1. RowsInv' /\ \A a \in Attempts : Finished(a)' = Finished(a)
  BY GoesOnRows, SendsRows DEF CoreInv
<1>2. CountInv'
  BY <1>1, WorksCounts DEF CoreInv, GoesOn, Sends
<1> QED
  BY <1>1, <1>2 DEF CoreInv

\* A step of a worker with a row: the log stays, records are not removed or
\* renamed, and what is new in them is true.
RowMove(w) ==
  /\ UNCHANGED <<task, att, log>>
  /\ FirsGrows /\ firs' \in [Stages -> SUBSET Numbers]
  /\ mishaps \subseteq mishaps'
  /\ mishaps' \subseteq {"expired", "restart", "overlap", "again", "unlogged", "lost"}
  /\ quota' \in 0..Quota
  /\ \A i \in DOMAIN rec : i \in DOMAIN rec' /\ rec'[i].num = rec[i].num
  /\ \A i \in DOMAIN rec' : rec'[i] \in Record
  /\ \A i \in DOMAIN rec' : (i \in DOMAIN rec /\ rec'[i] = rec[i]) \/ Truthful(rec[i])'

\* ... as it sends a result, which is true.
LEMMA SendKeeps ==
  ASSUME CoreInv, NEW w \in AllWorkers, Holds(w), RowMove(w),
         NEW report \in Reports, NEW posted \in BOOLEAN, Send(w, report, posted),
         DOMAIN rec' = DOMAIN rec,
         report = Confirmed \/ posted => Number[work[w].row] \in firs'[Transmitted],
         report = Transmitted => Number[work[w].row] \in firs'[Signed]
  PROVE  /\ TypeOK' /\ Sends(w) /\ RecordsInv' /\ TruthInv'
         /\ Reserved' = Reserved \ {w}
<1>1. /\ Sends(w) /\ work' \in [AllWorkers -> Worker] /\ work'[w] = Idle
      /\ out' = out \cup {<<w[1], work[w].row, report, posted>>}
      /\ out' \subseteq Attempts \X Rows \X Reports \X BOOLEAN
  BY Sending DEF RowMove, CoreInv
<1>2. TypeOK'
  BY <1>1 DEF TypeOK, CoreInv, RowMove, AllWorkers
<1>3. HoldsRecord(w)' /\ TrueWorker(w)'
  BY <1>1, <1>2, IdleRecord
<1>4. Works(w)
  BY <1>1 DEF Sends
<1>5. RecordsInv'
  <2>1. /\ DOMAIN rec \subseteq DOMAIN rec'
        /\ DOMAIN rec' \subseteq DOMAIN rec \cup {<<w[1], work[w].row>>}
        /\ \A i \in DOMAIN rec : rec'[i].num = rec[i].num
        /\ \A i \in DOMAIN rec' : i \notin DOMAIN rec => rec'[i].num = Number[work[w].row]
    BY DEF RowMove
  <2> QED
    BY <1>3, <1>4, <2>1, RecordsKept DEF RowMove
<1>6. ASSUME NEW m \in out'
      PROVE  m \in out \/ TrueResult(m)'
  <2>1. CASE m = <<w[1], work[w].row, report, posted>>
    <3>1. m[2] = work[w].row /\ m[3] = report /\ m[4] = posted
      BY <2>1
    <3> QED
      BY <3>1 DEF TrueResult
  <2> QED
    BY <1>1, <2>1
<1>7. TruthInv'
  BY <1>3, <1>4, <1>6, TruthKept DEF RowMove
<1>8. Reserved' = Reserved \ {w}
  BY <1>1 DEF Reserved, Sends, Works, Idle, AllWorkers
<1> QED
  BY <1>1, <1>2, <1>5, <1>7, <1>8

\* ... or as it goes on.
LEMMA GoKeeps ==
  ASSUME CoreInv, NEW w \in AllWorkers, Holds(w), RowMove(w),
         NEW x \in Worker, Step(w, x), UNCHANGED out,
         x.pc \notin {"idle", "stopped"}, x.row = work[w].row,
         DOMAIN rec' \subseteq DOMAIN rec \cup {<<w[1], work[w].row>>},
         \A i \in DOMAIN rec' : i \notin DOMAIN rec => rec'[i].num = Number[work[w].row],
         work'[w] = x => HoldsRecord(w)' /\ TrueWorker(w)'
  PROVE  /\ TypeOK' /\ GoesOn(w) /\ RecordsInv' /\ TruthInv'
         /\ Reserved' = IF x.reserved THEN Reserved \cup {w} ELSE Reserved \ {w}
<1>1. GoesOn(w) /\ work' \in [AllWorkers -> Worker] /\ work'[w] = x
  BY GoingOn DEF RowMove, CoreInv
<1>2. TypeOK'
  <2>1. DOMAIN rec' \subseteq Ids
    BY HeldRow DEF CoreInv, TypeOK, Ids
  <2> QED
    BY <1>1, <2>1 DEF TypeOK, CoreInv, RowMove, AllWorkers
<1>3. Works(w)
  BY <1>1 DEF GoesOn
<1>4. RecordsInv'
  <2>1. /\ DOMAIN rec \subseteq DOMAIN rec'
        /\ \A i \in DOMAIN rec : rec'[i].num = rec[i].num
    BY DEF RowMove
  <2> QED
    BY <1>1, <1>3, <2>1, RecordsKept DEF RowMove
<1>5. TruthInv'
  BY <1>1, <1>3, TruthKept DEF RowMove
<1>6. Reserved' = IF x.reserved THEN Reserved \cup {w} ELSE Reserved \ {w}
  BY <1>1, <1>3 DEF Reserved, Works, AllWorkers
<1> QED
  BY <1>1, <1>2, <1>4, <1>5, <1>6

\* Nothing happens to the records, and FIRS is not called.
LEMMA StillRowMove ==
  ASSUME CoreInv, NEW w \in AllWorkers, UNCHANGED <<task, att, rec, log, firs>>,
         quota' \in 0..Quota, mishaps' \in {mishaps, mishaps \cup {"lost"}}
  PROVE  RowMove(w)
BY DEF RowMove, CoreInv, TypeOK, FirsGrows

-----------------------------------------------------------------------------
(* What a worker does with its row *)

LEMMA SettledReports ==
  /\ NoStatus \in Reports /\ NoStatus \notin Stages
  /\ Duplicate \in Reports /\ Duplicate \notin Stages
  /\ Signed \in Stages /\ Transmitted \in Stages /\ Confirmed \in Stages
BY DEF Reports, NoStatus, Duplicate, Stages, Signed, Transmitted, Confirmed

LEMMA LookupCore ==
  ASSUME CoreInv, NEW w \in AllWorkers, Lookup(w)
  PROVE  CoreInv'
<1> DEFINE num == Number[work[w].row]
<1>1. /\ Holds(w) /\ work[w].pc = "lookup" /\ HoldsRecord(w) /\ work[w] \in Worker
      /\ UNCHANGED <<task, att, rec, quota, log, firs, mishaps>>
  BY WorkerParts DEF Lookup, Holds, CoreInv, RecordsInv
<1>2. RowMove(w)
  BY <1>1, StillRowMove DEF CoreInv, TypeOK
<1>3. w \notin Reserved
  BY <1>1 DEF Reserved, HoldsRecord
<1>4. ASSUME NEW report \in {Duplicate, NoStatus}, Send(w, report, FALSE)
      PROVE  CoreInv'
  <2>1. report \in Reports /\ report # Confirmed /\ report # Transmitted
    BY SettledReports
  <2>2. TypeOK' /\ Sends(w) /\ RecordsInv' /\ TruthInv' /\ Reserved' = Reserved \ {w}
    BY <1>1, <1>2, <1>4, <2>1, SendKeeps
  <2>3. QuotaInv'
    BY <1>1, <1>3, <2>2 DEF CoreInv, QuotaInv
  <2> QED
    BY <2>2, <2>3, RowStep
<1>5. ASSUME NEW id \in Ids \cup {NoId}, NEW copy \in Record \cup {NoId},
             Step(w, [work[w] EXCEPT !.pc = "reserve", !.id = id, !.copy = copy]), out' = out,
             id # NoId => id \in DOMAIN rec /\ rec[id].num = num /\ copy = rec[id]
      PROVE  CoreInv'
  <2> DEFINE x == [work[w] EXCEPT !.pc = "reserve", !.id = id, !.copy = copy]
  <2>1. /\ x \in Worker /\ x.pc = "reserve" /\ x.row = work[w].row /\ x.id = id
        /\ x.copy = copy /\ x.reserved = work[w].reserved
    BY <1>1 DEF Worker
  <2>2. Step(w, x)
    BY <1>5
  <2> HIDE DEF x
  <2>3. id # NoId => copy \in Record /\ copy.num = num /\ Truthful(copy)
    BY <1>5 DEF CoreInv, TypeOK, TruthInv
  <2>4. work'[w] = x => HoldsRecord(w)' /\ TrueWorker(w)'
    BY <1>1, <1>5, <2>1, <2>3 DEF HoldsRecord, TrueWorker, Truthful
  <2>5. /\ TypeOK' /\ GoesOn(w) /\ RecordsInv' /\ TruthInv'
        /\ Reserved' = IF x.reserved THEN Reserved \cup {w} ELSE Reserved \ {w}
    BY <1>1, <1>2, <1>5, <2>1, <2>2, <2>4, GoKeeps
  <2>6. QuotaInv'
    BY <1>1, <1>3, <2>1, <2>5 DEF CoreInv, QuotaInv, HoldsRecord
  <2> QED
    BY <2>5, <2>6, RowStep
<1>6. \/ \E report \in {Duplicate, NoStatus} : Send(w, report, FALSE)
      \/ /\ out' = out
         /\ Step(w, [work[w] EXCEPT !.pc = "reserve", !.id = NoId, !.copy = NoId])
      \/ \E i \in Found(num) :
           /\ out' = out
           /\ Step(w, [work[w] EXCEPT !.pc = "reserve", !.id = i, !.copy = rec[i]])
  BY DEF Lookup
<1>7. ASSUME NEW i \in Found(num)
      PROVE  i \in Ids /\ rec[i] \in Record /\ i \in DOMAIN rec /\ rec[i].num = num
  BY DEF Found, CoreInv, TypeOK
<1> QED
  BY <1>4, <1>5, <1>6, <1>7

\* The quota and the numbers it is compared with.
LEMMA QuotaParts ==
  ASSUME CoreInv
  PROVE  /\ quota \in 0..Quota /\ quota \in Nat /\ Quota \in Nat
         /\ Cardinality(DOMAIN rec) \in Nat /\ IsFiniteSet(DOMAIN rec)
         /\ Cardinality(Reserved) \in Nat /\ IsFiniteSet(Reserved)
         /\ Metered \in BOOLEAN
BY QuotaAssumption, FiniteReserved, FiniteRecords DEF CoreInv, TypeOK

LEMMA ReserveCore ==
  ASSUME CoreInv, NEW w \in AllWorkers, Reserve(w)
  PROVE  CoreInv'
<1>1. /\ Holds(w) /\ work[w].pc = "reserve" /\ HoldsRecord(w) /\ work[w] \in Worker
      /\ TrueWorker(w)
      /\ UNCHANGED <<task, att, rec, log, firs, mishaps>>
  BY WorkerParts DEF Reserve, Holds, CoreInv, RecordsInv, TruthInv
<1>2. quota' \in 0..Quota
  <2>1. quota \in 0..Quota /\ Quota \in Nat
    BY QuotaParts
  <2>2. CASE Takes(w)
    <3>1. quota' = quota \/ (quota > 0 /\ quota' = quota - 1)
      BY <2>2 DEF Reserve
    <3> QED
      BY <2>1, <3>1
  <2>3. CASE ~Takes(w)
    <3>1. quota' = quota
      BY <2>3 DEF Reserve
    <3> QED
      BY <2>1, <3>1
  <2> QED
    BY <2>2, <2>3
<1>3. RowMove(w)
  BY <1>1, <1>2, StillRowMove
<1>4. w \notin Reserved
  BY <1>1 DEF Reserved, HoldsRecord
<1>5. CASE Send(w, NoStatus, FALSE) /\ quota' = quota
  <2>1. NoStatus \in Reports /\ NoStatus # Confirmed /\ NoStatus # Transmitted
    BY SettledReports
  <2>2. TypeOK' /\ Sends(w) /\ RecordsInv' /\ TruthInv' /\ Reserved' = Reserved \ {w}
    BY <1>1, <1>3, <1>5, <2>1, SendKeeps
  <2>3. QuotaInv'
    BY <1>1, <1>4, <1>5, <2>2 DEF CoreInv, QuotaInv
  <2> QED
    BY <2>2, <2>3, RowStep
<1>6. CASE /\ quota' = IF Takes(w) THEN quota - 1 ELSE quota
           /\ Step(w, [work[w] EXCEPT !.pc = "create", !.reserved = Takes(w)])
           /\ out' = out
  <2> DEFINE x == [work[w] EXCEPT !.pc = "create", !.reserved = Takes(w)]
  <2>1. Takes(w) \in BOOLEAN
    BY DEF Takes
  <2>2. /\ x \in Worker /\ x.pc = "create" /\ x.row = work[w].row /\ x.id = work[w].id
        /\ x.copy = work[w].copy /\ x.reserved = Takes(w)
    BY <1>1, <2>1 DEF Worker
  <2>3. Step(w, x)
    BY <1>6
  <2> HIDE DEF x
  <2>4. Takes(w) <=> Metered /\ work[w].id = NoId
    BY QuotaParts DEF Takes
  <2>5. work'[w] = x => HoldsRecord(w)' /\ TrueWorker(w)'
    BY <1>1, <2>2, <2>4 DEF HoldsRecord, TrueWorker, Truthful
  <2>6. /\ TypeOK' /\ GoesOn(w) /\ RecordsInv' /\ TruthInv'
        /\ Reserved' = IF x.reserved THEN Reserved \cup {w} ELSE Reserved \ {w}
    BY <1>1, <1>3, <1>6, <2>2, <2>3, <2>5, GoKeeps
  <2>7. CASE Takes(w)
    <3>1. Cardinality(Reserved') = Cardinality(Reserved) + 1 /\ quota' = quota - 1 /\ Metered
      BY <1>4, <1>6, <2>2, <2>4, <2>6, <2>7, QuotaParts, FS_AddElement
    <3> QED
      <4>1. QuotaInv'
        BY <1>1, <3>1, QuotaParts DEF CoreInv, QuotaInv
      <4> QED
        BY <2>6, <4>1, RowStep
  <2>8. CASE ~Takes(w)
    <3>1. Reserved' = Reserved /\ quota' = quota
      BY <1>4, <1>6, <2>2, <2>6, <2>8
    <3> QED
      BY <1>1, <2>6, <3>1, RowStep DEF CoreInv, QuotaInv
  <2> QED
    BY <2>7, <2>8
<1> QED
  BY <1>5, <1>6 DEF Reserve

LEMMA AbandonCore ==
  ASSUME CoreInv, NEW w \in AllWorkers, Abandon(w)
  PROVE  CoreInv'
<1>1. /\ Holds(w) /\ work[w].pc = "create" /\ HoldsRecord(w) /\ work[w] \in Worker
      /\ Send(w, NoStatus, FALSE)
      /\ UNCHANGED <<task, att, rec, log, firs>>
  BY WorkerParts DEF Abandon, Holds, CoreInv, RecordsInv
<1>2. work[w].reserved => /\ Metered
                          /\ Cardinality(Reserved \ {w}) = Cardinality(Reserved) - 1
                          /\ Cardinality(Reserved) - 1 \in Nat
                          /\ quota + 1 \in 0..Quota
  <2>1. work[w].reserved => w \in Reserved /\ Metered
    BY <1>1 DEF Reserved, HoldsRecord
  <2>2. w \in Reserved => /\ Cardinality(Reserved \ {w}) = Cardinality(Reserved) - 1
                          /\ Cardinality(Reserved \ {w}) \in Nat
    BY QuotaParts, FS_RemoveElement, FS_CardinalityType
  <2> QED
    BY <2>1, <2>2, QuotaParts DEF CoreInv, QuotaInv
<1>3. ~work[w].reserved => Reserved \ {w} = Reserved
  BY DEF Reserved
<1>4. \/ quota' = Released(w) /\ mishaps' = mishaps
      \/ work[w].reserved /\ quota' = quota /\ mishaps' = mishaps \cup {"lost"}
  BY DEF Abandon
<1>5. quota' \in 0..Quota /\ mishaps' \in {mishaps, mishaps \cup {"lost"}}
  BY <1>2, <1>4, QuotaParts DEF Released
<1>6. RowMove(w)
  BY <1>1, <1>5, StillRowMove
<1>7. TypeOK' /\ Sends(w) /\ RecordsInv' /\ TruthInv' /\ Reserved' = Reserved \ {w}
  <2>1. NoStatus \in Reports /\ NoStatus # Confirmed /\ NoStatus # Transmitted
    BY SettledReports
  <2> QED
    BY <1>1, <1>6, <2>1, SendKeeps
<1>8. QuotaInv'
  <2>1. CASE work[w].reserved /\ quota' = quota + 1 /\ mishaps' = mishaps
    BY <1>1, <1>2, <1>7, <2>1, QuotaParts DEF CoreInv, QuotaInv
  <2>2. CASE ~work[w].reserved /\ quota' = quota /\ mishaps' = mishaps
    BY <1>1, <1>3, <1>7, <2>2 DEF CoreInv, QuotaInv
  <2>3. CASE work[w].reserved /\ quota' = quota /\ mishaps' = mishaps \cup {"lost"}
    <3>1. "lost" \in mishaps' \cap {"restart", "lost"}
      BY <2>3
    <3>2. mishaps' \cap {"restart", "lost"} # {}
      BY <3>1
    <3>3. quota' + Cardinality(DOMAIN rec') + Cardinality(Reserved') <= Quota /\ Metered
      BY <1>1, <1>2, <1>7, <2>3, QuotaParts DEF CoreInv, QuotaInv
    <3> QED
      BY <3>2, <3>3 DEF QuotaInv
  <2> QED
    BY <1>4, <2>1, <2>2, <2>3 DEF Released
<1> QED
  BY <1>7, <1>8, RowStep

LEMMA CreateCore ==
  ASSUME CoreInv, NEW w \in AllWorkers, Create(w)
  PROVE  CoreInv'
<1> DEFINE own == <<w[1], work[w].row>>
           id == IF work[w].id = NoId THEN own ELSE work[w].id
           new == [num |-> Number[work[w].row], cur |-> SignedIRN, hist |-> Pending]
           row == IF work[w].id = NoId THEN new ELSE work[w].copy
           x == [work[w] EXCEPT !.pc = "call", !.id = id, !.copy = row,
                                !.reserved = FALSE, !.stage = ResumeAt(row)]
<1>1. /\ Holds(w) /\ work[w].pc = "create" /\ HoldsRecord(w) /\ work[w] \in Worker
      /\ TrueWorker(w) /\ work[w].row \in Rows /\ w[1] \in Attempts
      /\ rec' = [j \in DOMAIN rec \cup {id} |-> IF j = id THEN row ELSE rec[j]]
      /\ Step(w, x)
      /\ UNCHANGED <<task, att, out, quota, log, firs, mishaps>>
  BY WorkerParts, HeldRow DEF Create, Holds, CoreInv, RecordsInv, TruthInv
<1>2. own \in Ids /\ own # NoId
  BY <1>1, NoIdIsNone DEF Ids
<1>3. /\ new \in Record /\ new.num = Number[work[w].row] /\ Truthful(new)
      /\ ResumeAt(new) = Validated
  <2>1. new \in Record
    BY <1>1, NumberType DEF Record, Pending
  <2> QED
    BY <2>1 DEF Truthful, Pending, ResumeAt, SignedIRN, Signed, Transmitted, Confirmed, Stages
<1>4. work[w].id # NoId =>
        /\ work[w].id \in DOMAIN rec /\ rec[work[w].id].num = Number[work[w].row]
        /\ work[w].copy \in Record /\ work[w].copy.num = Number[work[w].row]
        /\ Truthful(work[w].copy)
  BY <1>1 DEF HoldsRecord, TrueWorker
<1>5. /\ id \in Ids /\ id # NoId /\ id \in DOMAIN rec \cup {own}
      /\ row \in Record /\ row.num = Number[work[w].row] /\ Truthful(row)
      /\ id \in DOMAIN rec => rec[id].num = row.num
      /\ work[w].id = NoId => id = own /\ own \notin DOMAIN rec
      /\ work[w].id # NoId => id \in DOMAIN rec
  <2>1. work[w].id = NoId => own \notin DOMAIN rec
    BY <1>1 DEF HoldsRecord
  <2>2. DOMAIN rec \subseteq Ids
    BY DEF CoreInv, TypeOK
  <2>3. CASE work[w].id = NoId
    BY <1>2, <1>3, <2>1, <2>3
  <2>4. CASE work[w].id # NoId
    BY <1>4, <2>2, <2>4
  <2> QED
    BY <2>3, <2>4
<1>6. ResumeAt(row) \in Stages /\ ResumeAt(row) <= Signed
  BY DEF ResumeAt, Stages, Signed, Validated
<1> HIDE DEF own, id, row, new
<1>7. /\ x \in Worker /\ x.pc = "call" /\ x.row = work[w].row /\ x.id = id
      /\ x.copy = row /\ x.reserved = FALSE /\ x.stage = ResumeAt(row)
  BY <1>1, <1>5, <1>6 DEF Worker
<1> HIDE DEF x
<1>8. /\ DOMAIN rec' = DOMAIN rec \cup {id} /\ rec'[id] = row
      /\ \A i \in DOMAIN rec : i # id => rec'[i] = rec[i]
  BY <1>1
<1>9. RowMove(w)
  <2>1. \A i \in DOMAIN rec : i \in DOMAIN rec' /\ rec'[i].num = rec[i].num
    BY <1>5, <1>8
  <2>2. \A i \in DOMAIN rec' : rec'[i] \in Record
    BY <1>5, <1>8 DEF CoreInv, TypeOK
  <2>3. ASSUME NEW i \in DOMAIN rec'
        PROVE  (i \in DOMAIN rec /\ rec'[i] = rec[i]) \/ Truthful(rec[i])'
    <3>1. CASE i = id
      BY <1>1, <1>5, <1>8, <3>1 DEF Truthful
    <3> QED
      BY <1>8, <3>1
  <2> QED
    BY <1>1, <2>1, <2>2, <2>3 DEF RowMove, FirsGrows, CoreInv, TypeOK
<1>10. work'[w] = x => HoldsRecord(w)' /\ TrueWorker(w)'
  <2>1. SUFFICES ASSUME work'[w] = x
                 PROVE  HoldsRecord(w)' /\ TrueWorker(w)'
    OBVIOUS
  <2>2. HoldsRecord(w)'
    BY <1>5, <1>7, <1>8, <2>1 DEF HoldsRecord
  <2>3. TrueWorker(w)'
    <3>1. ~(x.stage > Signed) /\ ~(x.stage > Transmitted)
      BY <1>6, <1>7 DEF Signed, Transmitted, Stages
    <3> QED
      BY <1>1, <1>5, <1>7, <2>1, <3>1 DEF TrueWorker, Truthful
  <2> QED
    BY <2>2, <2>3
<1>11. /\ TypeOK' /\ GoesOn(w) /\ RecordsInv' /\ TruthInv'
       /\ Reserved' = IF x.reserved THEN Reserved \cup {w} ELSE Reserved \ {w}
  <2>1. /\ DOMAIN rec' \subseteq DOMAIN rec \cup {<<w[1], work[w].row>>}
        /\ \A i \in DOMAIN rec' : i \notin DOMAIN rec => rec'[i].num = Number[work[w].row]
    BY <1>5, <1>8 DEF own
  <2> QED
    BY <1>1, <1>7, <1>9, <1>10, <2>1, GoKeeps
<1>12. QuotaInv'
  <2>1. Reserved' = Reserved \ {w}
    BY <1>7, <1>11
  <2>2. CASE work[w].id = NoId
    <3>1. Cardinality(DOMAIN rec') = Cardinality(DOMAIN rec) + 1
      <4>1. id \notin DOMAIN rec /\ IsFiniteSet(DOMAIN rec)
        BY <1>5, <2>2, QuotaParts
      <4>2. Cardinality(DOMAIN rec \cup {id}) = Cardinality(DOMAIN rec) + 1
        BY <4>1, FS_AddElement
      <4> QED
        BY <1>8, <4>2
    <3>2. Metered => Cardinality(Reserved') = Cardinality(Reserved) - 1
      <4>1. Metered => w \in Reserved
        BY <1>1, <2>2 DEF HoldsRecord, Reserved
      <4> QED
        BY <2>1, <4>1, QuotaParts, FS_RemoveElement
    <3> QED
      BY <1>1, <3>1, <3>2, QuotaParts DEF CoreInv, QuotaInv
  <2>3. CASE work[w].id # NoId
    <3>1. DOMAIN rec' = DOMAIN rec
      BY <1>5, <1>8, <2>3
    <3>2. Reserved' = Reserved
      BY <1>1, <2>1, <2>3 DEF HoldsRecord, Reserved
    <3> QED
      BY <1>1, <3>1, <3>2 DEF CoreInv, QuotaInv
  <2> QED
    BY <2>2, <2>3
<1> QED
  BY <1>11, <1>12, RowStep

LEMMA CallCore ==
  ASSUME CoreInv, NEW w \in AllWorkers, Call(w)
  PROVE  CoreInv'
<1>1. PICK s \in Stages, i \in DOMAIN rec, num \in Numbers, copy \in Record :
        /\ s = work[w].stage /\ i = work[w].id /\ copy = work[w].copy
        /\ num = Number[work[w].row] /\ copy.num = num /\ rec[i].num = num
        /\ Truthful(copy)
        /\ s > Signed => num \in firs[Signed]
        /\ s > Transmitted => num \in firs[Transmitted]
  <2>1. HoldsRecord(w) /\ TrueWorker(w) /\ work[w].pc = "call" /\ Holds(w)
    BY DEF CoreInv, RecordsInv, TruthInv, Call, Holds
  <2>2. work[w].stage \in Stages /\ work[w].row \in Rows
    BY <2>1, WorkerParts, HeldRow DEF CoreInv
  <2> QED
    BY <2>1, <2>2, NumberType DEF HoldsRecord, TrueWorker
<1>2. PICK performed \in BOOLEAN, ok \in BOOLEAN, saved \in BOOLEAN :
        LET row == [copy EXCEPT !.cur = s, !.hist[s] = IF ok THEN "success" ELSE "failed"]
        IN /\ ok => performed
           /\ firs' = [firs EXCEPT ![s] = IF performed THEN @ \cup {row.num} ELSE @]
           /\ rec' = IF saved THEN [rec EXCEPT ![i] = row] ELSE rec
           /\ IF ok /\ s # Confirmed
              THEN Step(w, [work[w] EXCEPT !.copy = row, !.stage = s + 1]) /\ UNCHANGED out
              ELSE Send(w, s, ok)
  BY <1>1 DEF Call
<1>3. /\ Holds(w) /\ work[w].pc = "call" /\ HoldsRecord(w) /\ work[w] \in Worker
      /\ UNCHANGED <<task, att, quota, log, mishaps>>
  BY WorkerParts DEF Call, Holds, CoreInv, RecordsInv
<1>4. PICK row : row = [copy EXCEPT !.cur = s, !.hist[s] = IF ok THEN "success" ELSE "failed"]
  OBVIOUS
<1>5. /\ row \in Record /\ row.num = num /\ row.cur = s
      /\ row.hist[Signed] = IF s = Signed THEN IF ok THEN "success" ELSE "failed"
                            ELSE copy.hist[Signed]
  <2>1. /\ copy.hist \in [Stages -> {"pending", "success", "failed"}]
        /\ copy.num \in Numbers /\ s \in {SignedIRN} \cup Stages /\ Signed \in Stages
    BY SettledReports DEF Record
  <2>2. [copy.hist EXCEPT ![s] = IF ok THEN "success" ELSE "failed"] \in
          [Stages -> {"pending", "success", "failed"}]
    BY <2>1
  <2> QED
    BY <1>1, <1>4, <2>1, <2>2 DEF Record
<1>6. /\ firs' = [firs EXCEPT ![s] = IF performed THEN @ \cup {num} ELSE @]
      /\ rec' = IF saved THEN [rec EXCEPT ![i] = row] ELSE rec
      /\ ok => performed
      /\ \/ /\ ok /\ s # Confirmed /\ out' = out
            /\ Step(w, [work[w] EXCEPT !.copy = row, !.stage = s + 1])
         \/ ~(ok /\ s # Confirmed) /\ Send(w, s, ok)
  BY <1>2, <1>4, <1>5
<1>7. /\ FirsGrows /\ firs' \in [Stages -> SUBSET Numbers] /\ (ok => num \in firs'[s])
  BY <1>6 DEF FirsGrows, CoreInv, TypeOK
<1>8. /\ firs[Signed] \subseteq firs'[Signed] /\ firs[Transmitted] \subseteq firs'[Transmitted]
  BY <1>7, SettledReports DEF FirsGrows
<1>9. /\ row.hist[Signed] = "success" => num \in firs'[Signed]
      /\ s \in {Transmitted, Confirmed} => num \in firs'[Signed]
      /\ s = Confirmed => num \in firs'[Transmitted]
  BY <1>1, <1>5, <1>7, <1>8 DEF Truthful, Signed, Transmitted, Confirmed
<1>10. /\ DOMAIN rec' = DOMAIN rec /\ \A j \in DOMAIN rec : rec'[j] \in {rec[j], row}
       /\ \A j \in DOMAIN rec : j # i => rec'[j] = rec[j]
  BY <1>6
<1>11. RowMove(w)
  <2>1. \A j \in DOMAIN rec : rec'[j].num = rec[j].num
    BY <1>1, <1>5, <1>10
  <2>2. \A j \in DOMAIN rec' : rec'[j] \in Record
    BY <1>5, <1>10 DEF CoreInv, TypeOK
  <2>3. ASSUME NEW j \in DOMAIN rec'
        PROVE  rec'[j] = rec[j] \/ Truthful(rec[j])'
    <3>1. CASE rec'[j] = row
      BY <1>5, <1>9, <3>1 DEF Truthful, Transmitted, Confirmed
    <3> QED
      BY <1>10, <3>1
  <2> QED
    BY <1>3, <1>7, <1>10, <2>1, <2>2, <2>3 DEF RowMove, CoreInv, TypeOK
<1>12. w \notin Reserved
  BY <1>3 DEF Reserved, HoldsRecord
<1>13. CASE ~(ok /\ s # Confirmed) /\ Send(w, s, ok)
  <2>1. /\ s \in Reports
        /\ s = Confirmed \/ ok => Number[work[w].row] \in firs'[Transmitted]
        /\ s = Transmitted => Number[work[w].row] \in firs'[Signed]
    BY <1>1, <1>9, <1>13 DEF Reports
  <2>2. TypeOK' /\ Sends(w) /\ RecordsInv' /\ TruthInv' /\ Reserved' = Reserved \ {w}
    BY <1>3, <1>10, <1>11, <1>13, <2>1, SendKeeps
  <2>3. QuotaInv'
    BY <1>3, <1>10, <1>12, <2>2 DEF CoreInv, QuotaInv
  <2> QED
    BY <2>2, <2>3, RowStep
<1>14. CASE /\ ok /\ s # Confirmed /\ out' = out
            /\ Step(w, [work[w] EXCEPT !.copy = row, !.stage = s + 1])
  <2>1. PICK x : x = [work[w] EXCEPT !.copy = row, !.stage = s + 1]
    OBVIOUS
  <2>2. s + 1 \in Stages
    BY <1>14 DEF Stages, Confirmed
  <2>3. /\ x \in Worker /\ x.pc = "call" /\ x.row = work[w].row /\ x.id = i
        /\ x.copy = row /\ x.reserved = work[w].reserved /\ x.stage = s + 1
    BY <1>1, <1>3, <1>5, <2>1, <2>2 DEF Worker
  <2>4. Step(w, x)
    BY <1>14, <2>1
  <2>5. ASSUME work'[w] = x
        PROVE  HoldsRecord(w)' /\ TrueWorker(w)'
    <3>1. rec'[i].num = num /\ i \in DOMAIN rec' /\ i # NoId
      BY <1>1, <1>5, <1>10, NoIdIsNone DEF CoreInv, TypeOK
    <3>2. HoldsRecord(w)'
      BY <1>1, <1>3, <1>5, <2>3, <2>5, <3>1 DEF HoldsRecord
    <3>3. /\ s + 1 > Signed => num \in firs'[Signed]
          /\ s + 1 > Transmitted => num \in firs'[Transmitted]
      BY <1>7, <1>9, <1>1, <1>8, <1>14 DEF Stages, Signed, Transmitted, Confirmed
    <3>4. TrueWorker(w)'
      BY <1>1, <1>5, <1>9, <2>3, <2>5, <3>3 DEF TrueWorker, Truthful
    <3> QED
      BY <3>2, <3>4
  <2>6. /\ TypeOK' /\ GoesOn(w) /\ RecordsInv' /\ TruthInv'
        /\ Reserved' = IF x.reserved THEN Reserved \cup {w} ELSE Reserved \ {w}
    BY <1>3, <1>10, <1>11, <1>14, <2>3, <2>4, <2>5, GoKeeps
  <2>7. Reserved' = Reserved
    BY <1>3, <1>12, <2>3, <2>6 DEF HoldsRecord
  <2>8. QuotaInv'
    BY <1>3, <1>10, <2>7 DEF CoreInv, QuotaInv
  <2> QED
    BY <2>6, <2>8, RowStep
<1> QED
  BY <1>6, <1>13, <1>14

-----------------------------------------------------------------------------
(* The invariant *)

LEMMA CoreInit ==
  ASSUME Init
  PROVE  CoreInv
<1>1. /\ task = "waiting" /\ out = {} /\ quota = Quota /\ mishaps = {} /\ rec = <<>>
      /\ log = [status |-> "pending", count |-> Zero] /\ firs = [s \in Stages |-> {}]
      /\ DOMAIN rec = {}
  BY DEF Init
<1>2. ASSUME NEW a \in Attempts
      PROVE  /\ att[a] \in Attempt /\ att[a].pc = "new" /\ att[a].next = 1 /\ att[a].tally = Zero
             /\ ~att[a].read /\ ~att[a].expired
  BY ZeroType, FileAssumption DEF Init, Attempt, Log
<1>3. \A w \in AllWorkers : work[w] = Idle
  BY DEF Init, AllWorkers
<1>4. TypeOK
  <2>1. att \in [Attempts -> Attempt]
    BY <1>2 DEF Init
  <2>2. work \in [Attempts \X Workers -> Worker]
    BY IdleType DEF Init
  <2>3. log \in Log
    BY <1>1, ZeroType DEF Log
  <2> QED
    BY <1>1, <2>1, <2>2, <2>3, QuotaAssumption DEF TypeOK
<1>5. RowsInv
  <2>1. \A a \in Attempts : Begun(a)
    BY <1>1, <1>2, PoolAssumption DEF Begun
  <2>2. \A w \in AllWorkers : HoldsRow(w)
    BY <1>3 DEF HoldsRow, Holds, Idle
  <2> QED
    BY <1>1, <2>1, <2>2 DEF RowsInv
<1>6. RecordsInv
  BY <1>1, <1>3 DEF RecordsInv, HoldsRecord, Idle
<1>7. QuotaInv
  <2>1. Reserved = {}
    BY <1>3 DEF Reserved, Idle
  <2>2. Cardinality(Reserved) = 0 /\ Cardinality(DOMAIN rec) = 0
    BY <1>1, <2>1, FS_EmptySet
  <2> QED
    BY <1>1, <2>2, QuotaAssumption DEF QuotaInv
<1>8. TruthInv
  BY <1>1, <1>3 DEF TruthInv, TrueWorker, Idle
<1>9. ASSUME NEW a \in Attempts
      PROVE  CountsRows(a)
  <2>1. Finished(a) = {} /\ FinishedAt(a, Signed) = {} /\ FinishedAt(a, Transmitted) = {}
    BY <1>2 DEF Finished, FinishedAt
  <2>2. Cardinality({}) = 0
    BY FS_EmptySet
  <2>3. att[a].tally["success"] = 0 /\ att[a].tally["partial"] = 0 /\ Sum(att[a].tally) = 0
    BY <1>2, ZeroType DEF Zero
  <2> QED
    BY <1>2, <2>1, <2>2, <2>3 DEF CountsRows
<1> QED
  BY <1>4, <1>5, <1>6, <1>7, <1>8, <1>9 DEF CoreInv, CountInv

\* What an attempt does besides counting.
TaskStep(a) ==
  \/ Deliver(a) \/ Expire(a) \/ Download(a) \/ ReadLog(a) \/ WriteLog(a) \/ Close(a) \/ Finish(a)

LEMMA TaskCore ==
  ASSUME CoreInv, NEW a \in Attempts, TaskStep(a)
  PROVE  CoreInv' /\ Moves(a) /\ Begun(a)'
<1>1. TypeOK' /\ Moves(a) /\ Begun(a)'
  BY DeliverMoves, StayMoves, DownloadMoves, WriteLogMoves, CloseMoves, FinishMoves
     DEF TaskStep, CoreInv
<1> QED
  BY <1>1, MovesCore

\* A step that neither is one of an attempt's own nor ends the process.
RowOrTally ==
  \/ \E m \in out : Tally(m)
  \/ \E w \in AllWorkers : Take(w) \/ Lookup(w) \/ Reserve(w) \/ Abandon(w) \/ Create(w) \/ Call(w)

LEMMA RowOrTallyCore ==
  ASSUME CoreInv, RowOrTally
  PROVE  CoreInv'
BY TallyCore, TakeCore, LookupCore, ReserveCore, AbandonCore, CreateCore, CallCore DEF RowOrTally

\* The steps of the system.
LEMMA NextCases ==
  ASSUME [Next]_vars
  PROVE  \/ \E a \in Attempts : TaskStep(a)
         \/ RowOrTally \/ RestartProcess \/ UNCHANGED vars
<1>1. ASSUME NEW a \in Attempts, AttemptStep(a)
      PROVE  TaskStep(a) \/ RowOrTally
  BY <1>1 DEF AttemptStep, TaskStep, RowOrTally
<1>2. ASSUME NEW w \in AllWorkers, LocalStep(w) \/ CallStep(w)
      PROVE  RowOrTally \/ RestartProcess
  BY <1>2 DEF LocalStep, CallStep, RowOrTally, Panic
<1>3. Restart => RestartProcess
  BY DEF Restart
<1>4. CASE UNCHANGED vars
  BY <1>4
<1>5. CASE Next
  <2>1. CASE \E a \in Attempts : Deliver(a) \/ Expire(a) \/ AttemptStep(a)
    BY <1>1, <2>1 DEF TaskStep
  <2>2. CASE \E w \in Attempts \X Workers : LocalStep(w) \/ CallStep(w)
    BY <1>2, <2>2 DEF AllWorkers
  <2>3. CASE Restart
    BY <1>3, <2>3
  <2> QED
    BY <1>5, <2>1, <2>2, <2>3 DEF Next
<1> QED
  BY <1>4, <1>5

LEMMA StutterCore ==
  ASSUME CoreInv, UNCHANGED vars
  PROVE  CoreInv'
<1>1. TypeOK'
  BY DEF vars, CoreInv, TypeOK
<1>2. RowsInv'
  BY DEF vars, CoreInv, RowsInv, Begun, HoldsRow, SentRow, Holds, AllWorkers
<1>3. RecordsInv'
  BY DEF vars, CoreInv, RecordsInv, HoldsRecord, AllWorkers
<1>4. QuotaInv' /\ TruthInv'
  BY DEF vars, CoreInv, QuotaInv, Reserved, TruthInv, Truthful, TrueWorker, TrueResult, AllWorkers
<1>5. ASSUME NEW a \in Attempts
      PROVE  CountsRows(a)'
  <2>1. Finished(a)' = Finished(a) /\ att' = att
    BY DEF vars, Finished
  <2>2. /\ FinishedAt(a, Signed)' = FinishedAt(a, Signed)
        /\ FinishedAt(a, Transmitted)' = FinishedAt(a, Transmitted)
    BY <2>1 DEF vars, FinishedAt
  <2> QED
    BY <2>1, <2>2 DEF CoreInv, CountInv, CountsRows
<1> QED
  BY <1>1, <1>2, <1>3, <1>4, <1>5 DEF CoreInv, CountInv

LEMMA CoreNext ==
  ASSUME CoreInv, [Next]_vars
  PROVE  CoreInv'
BY NextCases, TaskCore, RowOrTallyCore, RestartCore, StutterCore

LEMMA CoreHolds == Spec => []CoreInv
BY CoreInit, CoreNext, PTL DEF Spec

\* Attempts, workers, results, records and the log keep their types: in
\* particular no count passes the number of rows and no release gives back more
\* quota than was taken (processValidatedInvoices, ReleaseAggregatorInvoiceQuota).
THEOREM BulkTypeCorrect == Spec => []TypeOK
BY CoreHolds, PTL DEF CoreInv

\* The quota taken is that of the records created and about to be, unless the
\* process restarted or a release failed (processSingleInvoice).
THEOREM QuotaHolds == Spec => []QuotaMatchesRecords
<1>1. CoreInv => QuotaMatchesRecords
  <2>1. SUFFICES ASSUME CoreInv, Metered, mishaps \cap {"restart", "lost"} = {}
                 PROVE  Quota - quota = Cardinality(DOMAIN rec) + Cardinality(Reserved)
    BY DEF QuotaMatchesRecords, Reserved, AllWorkers
  <2>2. quota + Cardinality(DOMAIN rec) + Cardinality(Reserved) = Quota
    BY <2>1 DEF CoreInv, QuotaInv
  <2> QED
    BY <2>1, <2>2, QuotaParts
<1> QED
  BY <1>1, CoreHolds, PTL

-----------------------------------------------------------------------------
(* The log overstates nothing *)

\* A step on rows or results leaves the log and the task alone, and the attempts
\* outside their pools.
LEMMA RowOrTallyParts ==
  ASSUME CoreInv, RowOrTally
  PROVE  /\ UNCHANGED <<task, log>> /\ mishaps' \in {mishaps, mishaps \cup {"lost"}} /\ FirsGrows
         /\ \A a \in Attempts :
              /\ att'[a].pc = att[a].pc /\ att'[a].read = att[a].read
              /\ att[a].pc # "pool" => att'[a] = att[a]
<1>1. ASSUME NEW m \in out, Tally(m)
      PROVE  /\ UNCHANGED <<task, log, firs, mishaps>>
             /\ \A a \in Attempts :
                  /\ att'[a].pc = att[a].pc /\ att'[a].read = att[a].read
                  /\ att[a].pc # "pool" => att'[a] = att[a]
  BY <1>1, TallyParts DEF CoreInv
<1>2. ASSUME NEW w \in AllWorkers, Take(w)
      PROVE  /\ UNCHANGED <<task, log, firs, mishaps>>
             /\ \A a \in Attempts :
                  /\ att'[a].pc = att[a].pc /\ att'[a].read = att[a].read
                  /\ att[a].pc # "pool" => att'[a] = att[a]
  <2>1. UNCHANGED <<task, log, firs, mishaps>>
    BY <1>2 DEF Take
  <2>2. w[1] \in Attempts /\ (Claims(w) \/ Drops(w) \/ Stops(w))
    BY <1>2, TakeCases, WorkerParts DEF CoreInv
  <2> QED
    BY <2>1, <2>2 DEF Claims, Drops, Stops, HandsOut
<1>3. ASSUME NEW w \in AllWorkers, Lookup(w) \/ Reserve(w) \/ Abandon(w) \/ Create(w)
      PROVE  UNCHANGED <<task, att, log, firs>> /\ mishaps' \in {mishaps, mishaps \cup {"lost"}}
  BY <1>3 DEF Lookup, Reserve, Abandon, Create
<1>4. ASSUME NEW w \in AllWorkers, Call(w)
      PROVE  UNCHANGED <<task, att, log, mishaps>> /\ FirsGrows
  <2>1. UNCHANGED <<task, att, log, mishaps>>
    BY <1>4 DEF Call
  <2>2. PICK s, num : \/ firs' = [firs EXCEPT ![s] = @ \cup {num}]
                      \/ firs' = [firs EXCEPT ![s] = @]
    BY <1>4 DEF Call
  <2> QED
    BY <2>1, <2>2 DEF FirsGrows, CoreInv, TypeOK
<1> QED
  BY <1>1, <1>2, <1>3, <1>4 DEF RowOrTally, FirsGrows

\* What a log may say it may go on saying.
LEMMA SoundStays ==
  ASSUME NEW l \in Log, Sound(l), FirsGrows, mishaps \subseteq mishaps'
  PROVE  Sound(l)'
<1>1. ASSUME NEW s \in {Signed, Transmitted}
      PROVE  /\ Cardinality(AtStage(s)) \in Nat /\ Cardinality(AtStage(s)') \in Nat
             /\ Cardinality(AtStage(s)) <= Cardinality(AtStage(s)')
  <2>1. AtStage(s) \subseteq AtStage(s)' /\ AtStage(s)' \in SUBSET Rows
    BY SettledReports DEF AtStage, FirsGrows
  <2> QED
    BY <2>1, RowsGrow
<1>2. l.count["success"] \in Nat /\ l.count["partial"] \in Nat
  BY CountParts DEF Log
<1> QED
  BY <1>1, <1>2 DEF Sound

\* The counts of an attempt overstate nothing.
LEMMA TallySound ==
  ASSUME CoreInv, NEW a \in Attempts
  PROVE  /\ att[a].tally["success"] <= Cardinality(AtStage(Transmitted))
         /\ att[a].tally["partial"] <= Cardinality(AtStage(Signed))
<1>1. ASSUME NEW s \in {Signed, Transmitted}
      PROVE  /\ Cardinality(AtStage(s)) \in Nat /\ Cardinality(FinishedAt(a, s)) \in Nat
             /\ Cardinality(FinishedAt(a, s)) <= Cardinality(AtStage(s))
  BY FinishedRows, RowsGrow, SettledReports DEF CoreInv
<1>2. att[a].tally["success"] \in Nat /\ att[a].tally["partial"] \in Nat
  BY AttemptParts, CountParts DEF CoreInv
<1> QED
  BY <1>1, <1>2 DEF CoreInv, CountInv, CountsRows

\* What is written to the log, by its parts.
LEMMA UpdatedParts ==
  ASSUME CoreInv, NEW a \in Attempts
  PROVE  /\ Updated(a) \in Log
         /\ att[a].pc = "close" =>
              /\ Updated(a).status = "completed"
              /\ \A c \in {"success", "partial", "failed"} : Updated(a).count[c] = att[a].tally[c]
              /\ Updated(a).count["errors"] = att[a].copy.count["errors"]
         /\ att[a].pc # "close" =>
              /\ Updated(a).status = att[a].copy.status
              /\ \A c \in {"success", "partial", "failed"} :
                   Updated(a).count[c] = att[a].copy.count[c]
              /\ Updated(a).count["errors"] = Invalid + att[a].tally["failed"]
<1>1. att[a].tally \in Counts /\ att[a].copy \in Log /\ att[a].copy.count \in Counts
  BY AttemptParts DEF CoreInv, Log
<1>2. CASE att[a].pc = "close"
  BY <1>1, <1>2, UpdatedType DEF Updated, Counts, CoreInv
<1>3. CASE att[a].pc # "close"
  BY <1>1, <1>3, UpdatedType DEF Updated, Counts, Log, CoreInv
<1> QED
  BY <1>2, <1>3

LEMMA UpdatedSound ==
  ASSUME CoreInv, NEW a \in Attempts, WriteLog(a), Sound(att[a].copy)
  PROVE  Sound(Updated(a))
<1>1. att[a].tally \in Counts /\ att[a].copy \in Log
  BY AttemptParts DEF CoreInv
<1>2. CASE att[a].pc = "close"
  <2>1. "expired" \notin mishaps => Sum(att[a].tally) = N
    BY <1>2 DEF CoreInv, RowsInv, Begun, CountInv, CountsRows
  <2>2. Sum(Updated(a).count) = Sum(att[a].tally)
    BY <1>2, UpdatedParts DEF Sum
  <2> QED
    BY <1>2, <2>1, <2>2, UpdatedParts, TallySound, FileAssumption DEF Sound
<1>3. CASE att[a].pc # "close"
  <2>1. Sum(Updated(a).count) = Sum(att[a].copy.count)
    BY <1>3, UpdatedParts DEF Sum
  <2> QED
    BY <1>3, <2>1, UpdatedParts DEF Sound
<1> QED
  BY <1>2, <1>3

\* gorm's Updates mixes two logs: both overstate nothing, so does the mixture,
\* and it counts no fewer rows than the one that is written.
LEMMA MergeSound ==
  ASSUME NEW old \in Log, NEW new \in Log, Sound(old), Sound(new)
  PROVE  Sound(Merge(old, new))
<1>1. /\ Merge(old, new).status = new.status
      /\ \A c \in {"success", "partial", "failed", "errors"} :
           Merge(old, new).count[c] = IF new.count[c] = 0 THEN old.count[c] ELSE new.count[c]
  BY MergeType
<1>2. \A c \in {"success", "partial", "failed", "errors"} :
        old.count[c] \in Nat /\ new.count[c] \in Nat
  BY CountParts DEF Log
<1>3. Sum(Merge(old, new).count) >= Sum(new.count)
  <2>1. \A c \in {"success", "partial", "failed"} :
          /\ Merge(old, new).count[c] \in Nat /\ new.count[c] \in Nat
          /\ Merge(old, new).count[c] >= new.count[c]
    BY <1>1, <1>2
  <2> QED
    BY <2>1 DEF Sum
<1>4. Sum(new.count) \in Nat /\ Sum(Merge(old, new).count) \in Nat
  BY MergeType, CountParts DEF Log
<1>5. Sound(new) /\ Sound(old)
  OBVIOUS
<1> QED
  BY <1>1, <1>3, <1>4, <1>5, FileAssumption DEF Sound

LEMMA LogStep ==
  ASSUME CoreInv, LogInv, [Next]_vars
  PROVE  LogInv'
<1>1. log \in Log /\ \A a \in Attempts : att[a].copy \in Log
  BY AttemptParts DEF CoreInv, TypeOK
<1>2. ASSUME NEW a \in Attempts, TaskStep(a)
      PROVE  LogInv'
  <2>1. Moves(a) /\ FirsGrows /\ mishaps \subseteq mishaps'
    BY <1>2, TaskCore DEF Moves, FirsGrows
  <2>2. ASSUME NEW b \in Attempts, b # a, att'[b].read
        PROVE  Sound(att[b].copy)'
    <3>1. att'[b].copy = att[b].copy /\ att[b].read
      BY <2>1, <2>2 DEF Moves
    <3>2. PICK l \in Log : l = att[b].copy
      BY <1>1
    <3> QED
      BY <2>1, <3>1, <3>2, SoundStays DEF LogInv, Sound
  <2>3. CASE ReadLog(a)
    <3>1. log' = log /\ att'[a].copy = log
      BY <2>3 DEF ReadLog, CoreInv, TypeOK
    <3>2. Sound(log)'
      BY <1>1, <2>1, <3>1, SoundStays DEF LogInv, Sound
    <3>3. Sound(att[a].copy)'
      BY <3>1, <3>2 DEF Sound
    <3> QED
      BY <2>2, <3>2, <3>3 DEF LogInv
  <2>4. CASE WriteLog(a)
    <3>1. att[a].read /\ ~att'[a].read
      BY <2>4, WriteLogMoves DEF WriteLog, CoreInv
    <3>2. Sound(log) /\ Sound(Updated(a))
      BY <2>4, <3>1, UpdatedSound DEF LogInv
    <3>3. PICK l \in Log : l = log' /\ Sound(l)
      <4>1. CASE log' = log
        BY <1>1, <3>2, <4>1
      <4>2. CASE log' = Merge(log, Updated(a))
        BY <1>1, <3>2, <4>2, UpdatedParts, MergeSound, MergeType
      <4> QED
        BY <2>4, <4>1, <4>2 DEF WriteLog
    <3>4. Sound(log)'
      BY <2>1, <3>3, SoundStays DEF Sound
    <3> QED
      BY <2>2, <3>1, <3>4 DEF LogInv
  <2>5. CASE ~ReadLog(a) /\ ~WriteLog(a)
    <3>1. log' = log /\ att'[a].read = att[a].read /\ att'[a].copy = att[a].copy
      BY <1>2, <2>5 DEF TaskStep, Deliver, Expire, Download, Close, Finish, Goto,
                        CoreInv, TypeOK, Attempt
    <3>2. PICK l \in Log : l = att[a].copy
      BY <1>1
    <3>3. att'[a].read => Sound(att[a].copy)'
      BY <2>1, <3>1, <3>2, SoundStays DEF LogInv, Sound
    <3>4. Sound(log)'
      BY <1>1, <2>1, <3>1, SoundStays DEF LogInv, Sound
    <3> QED
      BY <2>2, <3>3, <3>4 DEF LogInv
  <2> QED
    BY <2>3, <2>4, <2>5
<1>3. ASSUME FirsGrows, mishaps \subseteq mishaps', log' = log,
             \A a \in Attempts : att'[a].read => att[a].read /\ att'[a].copy = att[a].copy
      PROVE  LogInv'
  <2>1. Sound(log)'
    BY <1>1, <1>3, SoundStays DEF LogInv, Sound
  <2>2. ASSUME NEW a \in Attempts, att'[a].read
        PROVE  Sound(att[a].copy)'
    <3>1. PICK l \in Log : l = att[a].copy
      BY <1>1
    <3> QED
      BY <1>3, <2>2, <3>1, SoundStays DEF LogInv, Sound
  <2> QED
    BY <2>1, <2>2 DEF LogInv
<1>4. CASE RowOrTally
  <2>1. \A a \in Attempts : att[a].read => att[a].pc # "pool"
    BY DEF CoreInv, RowsInv, Begun
  <2> QED
    BY <1>3, <1>4, <2>1, RowOrTallyParts
<1>5. CASE RestartProcess
  <2>1. \A a \in Attempts : att'[a].read = att[a].read /\ att'[a].copy = att[a].copy
    BY <1>5 DEF RestartProcess, CoreInv, TypeOK, Attempt
  <2> QED
    BY <1>3, <1>5, <2>1 DEF RestartProcess, FirsGrows
<1>6. CASE UNCHANGED vars
  BY <1>3, <1>6 DEF vars, FirsGrows
<1> QED
  BY <1>2, <1>4, <1>5, <1>6, NextCases

-----------------------------------------------------------------------------
(* Attempts one after another *)

\* Only a read and an update touch the log or the copy of it.
LEMMA OtherTaskStep ==
  ASSUME CoreInv, NEW a \in Attempts, TaskStep(a), ~ReadLog(a), ~WriteLog(a)
  PROVE  log' = log /\ att'[a].read = att[a].read /\ att'[a].copy = att[a].copy
BY DEF TaskStep, Deliver, Expire, Download, Close, Finish, Goto, CoreInv, TypeOK, Attempt

\* Every step of an attempt after its delivery is that of a running one.
LEMMA TaskRuns ==
  ASSUME CoreInv, NEW a \in Attempts, TaskStep(a), ~Deliver(a)
  PROVE  Running(a)
BY DEF TaskStep, Expire, Download, ReadLog, WriteLog, Close, Finish, Running

LEMMA SequentialStep ==
  ASSUME CoreInv, AloneInv, [Next]_vars, "overlap" \notin mishaps'
  PROVE  Sequential' /\ "overlap" \notin mishaps
<1>1. ASSUME NEW a \in Attempts, TaskStep(a)
      PROVE  Sequential' /\ "overlap" \notin mishaps
  <2>1. /\ CoreInv' /\ Moves(a) /\ Begun(a)' /\ mishaps \subseteq mishaps'
        /\ \A b \in Attempts : b # a => att'[b] = att[b]
    BY <1>1, TaskCore DEF Moves
  <2>2. Sequential /\ "overlap" \notin mishaps
    BY <2>1 DEF AloneInv
  <2>3. CASE Deliver(a)
    <3>1. \A b \in Attempts : ~Running(b)
      BY <2>3 DEF Deliver
    <3>2. att'[a].pc = "download" /\ ~att'[a].read
      BY <2>1, <2>3, DeliverMoves DEF CoreInv, Begun
    <3> QED
      BY <2>1, <2>2, <3>1, <3>2 DEF Sequential, Running
  <2>4. CASE ~Deliver(a)
    <3>1. Running(a)
      BY <1>1, <2>4, TaskRuns
    <3>2. \A b \in Attempts : b # a => ~Running(b) /\ ~Running(b)'
      BY <2>1, <2>2, <3>1 DEF Sequential, Running
    <3>3. Running(a)' /\ att'[a].read => att'[a].copy = log'
      <4>1. CASE ReadLog(a)
        BY <4>1 DEF ReadLog, CoreInv, TypeOK, Attempt
      <4>2. CASE WriteLog(a)
        BY <4>2, WriteLogMoves DEF CoreInv
      <4>3. CASE ~ReadLog(a) /\ ~WriteLog(a)
        BY <1>1, <2>2, <3>1, <4>3, OtherTaskStep DEF Sequential
      <4> QED
        BY <4>1, <4>2, <4>3
    <3> QED
      BY <2>2, <3>2, <3>3 DEF Sequential
  <2> QED
    BY <2>3, <2>4
<1>2. CASE RowOrTally
  <2>1. /\ log' = log /\ mishaps \subseteq mishaps'
        /\ \A a \in Attempts :
             /\ att'[a].pc = att[a].pc /\ att'[a].read = att[a].read
             /\ att[a].pc # "pool" => att'[a] = att[a]
    BY <1>2, RowOrTallyParts
  <2>2. \A a \in Attempts : att[a].read => att[a].pc # "pool"
    BY DEF CoreInv, RowsInv, Begun
  <2> QED
    BY <2>1, <2>2 DEF AloneInv, Sequential, Running
<1>3. CASE RestartProcess
  <2>1. \A a \in Attempts : ~Running(a)'
    BY <1>3 DEF RestartProcess, Running, CoreInv, TypeOK, Attempt
  <2>2. mishaps \subseteq mishaps'
    BY <1>3 DEF RestartProcess
  <2> QED
    BY <2>1, <2>2 DEF Sequential
<1>4. CASE UNCHANGED vars
  BY <1>4 DEF vars, AloneInv, Sequential, Running
<1> QED
  BY <1>1, <1>2, <1>3, <1>4, NextCases

\* A worker holds a row only while its attempt runs.
LEMMA HolderRuns ==
  ASSUME CoreInv, NEW w \in AllWorkers, Holds(w)
  PROVE  Running(w[1]) /\ w[1] \in Attempts
BY HeldRow DEF CoreInv, Running

\* No row is recorded twice.
LEMMA RecordedStep ==
  ASSUME CoreInv, AloneInv, "overlap" \notin mishaps, [Next]_vars
  PROVE  RecordedOnce'
<1>1. Sequential /\ RecordedOnce
  BY DEF AloneInv
<1>2. ASSUME UNCHANGED rec,
             NEW w \in AllWorkers,
             \A v \in AllWorkers : v # w => work'[v] = work[v],
             work'[w].pc \in {"reserve", "create"} /\ work'[w].id = NoId =>
               \A i \in DOMAIN rec : i[2] # work'[w].row
      PROVE  RecordedOnce'
  BY <1>1, <1>2 DEF RecordedOnce, AllWorkers
<1>3. ASSUME UNCHANGED <<rec, work>>
      PROVE  RecordedOnce'
  BY <1>1, <1>3 DEF RecordedOnce, AllWorkers
<1>4. ASSUME NEW a \in Attempts, TaskStep(a)
      PROVE  RecordedOnce'
  BY <1>3, <1>4, TaskCore DEF Moves
<1>5. ASSUME NEW m \in out, Tally(m)
      PROVE  RecordedOnce'
  BY <1>3, <1>5 DEF Tally
<1>6. ASSUME NEW w \in AllWorkers, Take(w)
      PROVE  RecordedOnce'
  <2>1. rec' = rec /\ Works(w) /\ work'[w].pc \in {"lookup", "stopped"}
    BY <1>6, TakeCases DEF Take, Claims, Drops, Stops, CoreInv
  <2> QED
    BY <1>2, <2>1 DEF Works
<1>7. ASSUME NEW w \in AllWorkers, NEW report \in Reports, NEW posted \in BOOLEAN,
             Send(w, report, posted), rec' = rec
      PROVE  RecordedOnce'
  <2>1. work'[w] = Idle /\ \A v \in AllWorkers : v # w => work'[v] = work[v]
    BY <1>7, IdleType, StepType DEF Send, CoreInv
  <2> QED
    BY <1>2, <1>7, <2>1 DEF Idle
<1>8. ASSUME NEW w \in AllWorkers, NEW x \in Worker, Step(w, x), rec' = rec,
             x.id = NoId => \A i \in DOMAIN rec : i[2] # x.row
      PROVE  RecordedOnce'
  <2>1. work'[w] = x /\ \A v \in AllWorkers : v # w => work'[v] = work[v]
    BY <1>8, StepType DEF CoreInv
  <2> QED
    BY <1>2, <1>8, <2>1
<1>9. ASSUME NEW w \in AllWorkers, Lookup(w)
       PROVE  RecordedOnce'
  <2> DEFINE num == Number[work[w].row]
             go(id, copy) == [work[w] EXCEPT !.pc = "reserve", !.id = id, !.copy = copy]
  <2>1. rec' = rec /\ work[w] \in Worker
    BY <1>9, WorkerParts DEF Lookup, CoreInv
  <2>2. \/ \E report \in {Duplicate, NoStatus} : Send(w, report, FALSE)
        \/ Found(num) = {} /\ Step(w, go(NoId, NoId))
        \/ \E i \in Found(num) : Step(w, go(i, rec[i]))
    BY <1>9 DEF Lookup
  <2>3. ASSUME NEW id \in Ids \cup {NoId}, NEW copy \in Record \cup {NoId}
        PROVE  go(id, copy) \in Worker /\ go(id, copy).id = id /\ go(id, copy).row = work[w].row
    BY <2>1 DEF Worker
  <2>4. CASE Found(num) = {} /\ Step(w, go(NoId, NoId))
    <3>1. \A i \in DOMAIN rec : i[2] # work[w].row
      BY <2>4 DEF Found, CoreInv, RecordsInv
    <3> HIDE DEF go
    <3> QED
      BY <1>8, <2>1, <2>3, <2>4, <3>1
  <2>5. ASSUME NEW i \in Found(num), Step(w, go(i, rec[i]))
        PROVE  RecordedOnce'
    <3>1. i \in Ids /\ rec[i] \in Record /\ i # NoId
      BY NoIdIsNone DEF Found, CoreInv, TypeOK
    <3> HIDE DEF go
    <3> QED
      BY <1>8, <2>1, <2>3, <2>5, <3>1
  <2> QED
    BY <1>7, <2>1, <2>2, <2>4, <2>5, SettledReports
<1>10. ASSUME NEW w \in AllWorkers, Reserve(w)
       PROVE  RecordedOnce'
  <2> DEFINE x == [work[w] EXCEPT !.pc = "create", !.reserved = Takes(w)]
  <2>1. rec' = rec /\ work[w] \in Worker /\ work[w].pc = "reserve" /\ Takes(w) \in BOOLEAN
    BY <1>10, WorkerParts DEF Reserve, CoreInv, Takes
  <2>2. Send(w, NoStatus, FALSE) \/ Step(w, x)
    BY <1>10 DEF Reserve
  <2>3. x \in Worker /\ x.id = work[w].id /\ x.row = work[w].row
    BY <2>1 DEF Worker
  <2>4. work[w].id = NoId => \A i \in DOMAIN rec : i[2] # work[w].row
    BY <1>1, <2>1 DEF RecordedOnce
  <2> HIDE DEF x
  <2> QED
    BY <1>7, <1>8, <2>1, <2>2, <2>3, <2>4, SettledReports
<1>11. ASSUME NEW w \in AllWorkers, Abandon(w)
       PROVE  RecordedOnce'
  BY <1>7, <1>11, SettledReports DEF Abandon
<1>12. ASSUME NEW w \in AllWorkers, Create(w)
       PROVE  RecordedOnce'
  <2>1. /\ Holds(w) /\ work[w].pc = "create" /\ CoreInv' /\ GoesOn(w) /\ work'[w].pc = "call"
        /\ \A v \in AllWorkers : v # w => work'[v] = work[v]
    <3>1. Holds(w) /\ work[w].pc = "create" /\ work[w] \in Worker
      BY <1>12, WorkerParts DEF Create, Holds, CoreInv
    <3>2. CoreInv'
      BY <1>12, CreateCore
    <3>3. work'[w].pc = "call" /\ \A v \in AllWorkers : v # w => work'[v] = work[v]
      BY <1>12, <3>1 DEF Create, Step, CoreInv, TypeOK, AllWorkers
    <3>4. work'[w].row = work[w].row
      BY <1>12, <3>1 DEF Create, Step, CoreInv, TypeOK, AllWorkers, Worker
    <3>5. UNCHANGED <<task, att, out, firs, mishaps>>
      BY <1>12 DEF Create
    <3> QED
      BY <3>1, <3>2, <3>3, <3>4, <3>5 DEF GoesOn, Works, FirsGrows, Holds
  <2>2. CASE work[w].id = NoId
    <3>1. DOMAIN rec' = DOMAIN rec \cup {<<w[1], work[w].row>>}
      BY <1>12, <2>2 DEF Create
    <3>2. \A i \in DOMAIN rec : i[2] # work[w].row
      BY <1>1, <2>1, <2>2 DEF RecordedOnce
    <3>3. \A i, j \in DOMAIN rec' : i[2] = j[2] => i = j
      BY <1>1, <3>1, <3>2 DEF RecordedOnce
    <3>4. ASSUME NEW v \in AllWorkers, v # w, work[v].pc \in {"reserve", "create"}
          PROVE  work[v].row # work[w].row
      <4>1. Holds(v) /\ v[1] = w[1]
        BY <1>1, <2>1, <3>4, HolderRuns DEF Sequential, Holds
      <4> QED
        BY <2>1, <3>4, <4>1, HeldRow DEF HoldsRow, CoreInv
    <3> QED
      BY <1>1, <2>1, <3>1, <3>3, <3>4 DEF RecordedOnce, AllWorkers
  <2>3. CASE work[w].id # NoId
    <3>1. work[w].id \in DOMAIN rec
      BY <2>3 DEF CoreInv, RecordsInv, HoldsRecord
    <3>2. DOMAIN rec' = DOMAIN rec
      BY <1>12, <2>3, <3>1 DEF Create
    <3> QED
      BY <1>1, <2>1, <3>2 DEF RecordedOnce, AllWorkers
  <2> QED
    BY <2>2, <2>3
<1>13. ASSUME NEW w \in AllWorkers, Call(w)
       PROVE  RecordedOnce'
  <2>1. DOMAIN rec' = DOMAIN rec
    BY <1>13 DEF Call
  <2>2. \A v \in AllWorkers : v # w => work'[v] = work[v]
    BY <1>13 DEF Call, Send, Step, CoreInv, TypeOK, AllWorkers
  <2>3. work'[w].pc \in {"call", "idle"}
    <3>1. work \in [AllWorkers -> Worker] /\ work[w].pc = "call" /\ work[w] \in Worker
      BY <1>13 DEF Call, CoreInv, TypeOK, AllWorkers
    <3>2. ASSUME Step(w, Idle)
          PROVE  work'[w].pc = "idle"
      BY <3>1, <3>2 DEF Step, Idle
    <3>3. ASSUME NEW row, NEW s, Step(w, [work[w] EXCEPT !.copy = row, !.stage = s])
          PROVE  work'[w].pc = "call"
      BY <3>1, <3>3 DEF Step, Worker
    <3> QED
      BY <1>13, <3>2, <3>3 DEF Call, Send
  <2> QED
    BY <1>1, <2>1, <2>2, <2>3 DEF RecordedOnce, AllWorkers
<1>14. CASE RowOrTally
  BY <1>5, <1>6, <1>9, <1>10, <1>11, <1>12, <1>13, <1>14 DEF RowOrTally
<1>15. CASE RestartProcess
  <2>1. rec' = rec /\ \A w \in AllWorkers : work'[w] = Idle
    BY <1>15 DEF RestartProcess, AllWorkers
  <2> QED
    BY <1>1, <2>1 DEF RecordedOnce, Idle, AllWorkers
<1>16. CASE UNCHANGED vars
  BY <1>3, <1>16 DEF vars
<1> QED
  BY <1>4, <1>14, <1>15, <1>16, NextCases

\* What an update writes keeps or completes the status that was read.
LEMMA WriteStatus ==
  ASSUME CoreInv, NEW a \in Attempts, WriteLog(a)
  PROVE  \/ log' = log /\ "unlogged" \in mishaps'
         \/ /\ log' = Merge(log, Updated(a)) /\ mishaps' = mishaps
            /\ log'.status = IF att[a].pc = "close" THEN "completed" ELSE att[a].copy.status
<1>1. Merge(log, Updated(a)).status = Updated(a).status
  BY UpdatedParts, MergeType DEF CoreInv, TypeOK
<1> QED
  BY <1>1, UpdatedParts DEF WriteLog

\* Only an update changes the log.
LEMMA LogStays ==
  ASSUME CoreInv, [Next]_vars, ~\E a \in Attempts : WriteLog(a)
  PROVE  log' = log
<1>1. ASSUME NEW a \in Attempts, TaskStep(a)
      PROVE  log' = log
  <2>1. CASE ReadLog(a)
    BY <2>1 DEF ReadLog
  <2> QED
    BY <1>1, <2>1, OtherTaskStep
<1>2. RestartProcess => log' = log
  BY DEF RestartProcess
<1> QED
  BY <1>1, <1>2, RowOrTallyParts, NextCases DEF vars

LEMMA ClosedStep ==
  ASSUME CoreInv, AloneInv, "overlap" \notin mishaps, [Next]_vars, log.status = "completed"
  PROVE  log'.status = "completed"
<1>1. ASSUME NEW a \in Attempts, WriteLog(a)
      PROVE  log'.status = "completed"
  <2>1. att[a].copy = log
    BY <1>1 DEF WriteLog, AloneInv, Sequential
  <2> QED
    BY <1>1, <2>1, WriteStatus
<1> QED
  BY <1>1, LogStays

LEMMA SettledStep ==
  ASSUME CoreInv, AloneInv, "overlap" \notin mishaps, [Next]_vars
  PROVE  Settled'
<1> SUFFICES ASSUME N # 0, "unlogged" \notin mishaps',
                    task' = "done" \/ \E a \in Attempts : att'[a].pc = "notify"
             PROVE  log'.status = "completed"
  BY DEF Settled
<1>1. Settled
  BY DEF AloneInv
<1>2. ASSUME task = "done" \/ (\E a \in Attempts : att[a].pc = "notify"), mishaps \subseteq mishaps'
      PROVE  log'.status = "completed"
  BY <1>1, <1>2, ClosedStep DEF Settled
<1>3. ASSUME NEW a \in Attempts, TaskStep(a)
      PROVE  log'.status = "completed"
  <2>1. mishaps \subseteq mishaps' /\ \A b \in Attempts : b # a => att'[b] = att[b]
    BY <1>3, TaskCore DEF Moves
  <2>2. SUFFICES ASSUME task # "done", \A b \in Attempts : att[b].pc # "notify"
                 PROVE  log'.status = "completed"
    BY <1>2, <2>1
  <2>3. task' # "done"
    BY <1>3, <2>2, PoolAssumption
       DEF TaskStep, Deliver, Expire, Download, ReadLog, WriteLog, Close, Finish, Return
  <2>4. att'[a].pc = "notify"
    BY <2>1, <2>2, <2>3
  <2>5. CASE WriteLog(a)
    <3>1. att[a].pc = "close"
      BY <2>4, <2>5, WriteLogMoves, FileAssumption DEF AfterUpdate, AfterErrors, CoreInv
    <3> QED
      BY <2>5, <3>1, WriteStatus
  <2>6. CASE Download(a)
    <3>1. att'[a].pc \in {"ended", "invalid", "pool"}
      BY <2>6 DEF Download, AfterErrors, Goto, CoreInv, TypeOK, Attempt
    <3> QED
      BY <2>4, <3>1
  <2>7. CASE Deliver(a) \/ Close(a) \/ Finish(a) \/ Expire(a) \/ ReadLog(a)
    BY <2>2, <2>4, <2>7, DeliverMoves, CloseMoves, FinishMoves, StayMoves DEF CoreInv
  <2> QED
    BY <1>3, <2>5, <2>6, <2>7 DEF TaskStep
<1>4. CASE RowOrTally
  BY <1>2, <1>4, RowOrTallyParts
<1>5. CASE RestartProcess
  <2>1. mishaps \subseteq mishaps' /\ (task' = "done" => task = "done")
    BY <1>5 DEF RestartProcess
  <2>2. \A a \in Attempts : att'[a].pc # "notify"
    BY <1>5 DEF RestartProcess, Running, CoreInv, TypeOK, Attempt
  <2> QED
    BY <1>2, <2>1, <2>2
<1>6. CASE UNCHANGED vars
  BY <1>2, <1>6 DEF vars
<1> QED
  BY <1>3, <1>4, <1>5, <1>6, NextCases

LEMMA AloneStep ==
  ASSUME CoreInv, AloneInv, [Next]_vars
  PROVE  AloneInv'
<1> SUFFICES ASSUME "overlap" \notin mishaps'
             PROVE  Sequential' /\ RecordedOnce' /\ Settled'
  BY DEF AloneInv
<1> QED
  BY SequentialStep, RecordedStep, SettledStep

-----------------------------------------------------------------------------
(* The task run once *)

\* The log starts empty, and an update adds the errors of the parser, those of
\* the rows, and the counts, each where there was nothing.
LEMMA OnceWrite ==
  ASSUME CoreInv, AloneInv, Single, "overlap" \notin mishaps, "expired" \notin mishaps,
         NEW a \in Attempts, WriteLog(a), "unlogged" \notin mishaps'
  PROVE  /\ log'.status = "pending" => Sum(log'.count) = 0
         /\ log'.status = "completed" =>
              Sum(log'.count) = N /\ log'.count["errors"] = Invalid + log'.count["failed"]
         /\ Reached(a)'
<1>1. /\ att[a].pc \in {"invalid", "failed", "close"} /\ att'[a].pc = AfterUpdate(a)
      /\ att'[a].tally = att[a].tally /\ TypeOK'
  BY WriteLogMoves DEF CoreInv, Moves
<1>2. /\ log' = Merge(log, Updated(a)) /\ att[a].copy = log
      /\ log'.status = IF att[a].pc = "close" THEN "completed" ELSE log.status
  BY WriteStatus DEF AloneInv, Sequential, WriteLog
<1>3. \A c \in {"success", "partial", "failed", "errors"} :
        /\ log.count[c] \in Nat /\ Updated(a).count[c] \in Nat /\ att[a].tally[c] \in Nat
        /\ log'.count[c] = IF Updated(a).count[c] = 0 THEN log.count[c] ELSE Updated(a).count[c]
  BY <1>2, UpdatedParts, MergeType, CountParts, AttemptParts DEF CoreInv, TypeOK, Log
<1>4. Reached(a) /\ log.status = "pending" /\ Sum(log.count) = 0
  BY <1>1 DEF Single, Reached
<1>5. log.count["success"] = 0 /\ log.count["partial"] = 0 /\ log.count["failed"] = 0
  BY <1>3, <1>4 DEF Sum
<1>6. Invalid \in Nat
  BY FileAssumption
<1>7. CASE att[a].pc = "close"
  <2>1. \A c \in {"success", "partial", "failed"} : log'.count[c] = att[a].tally[c]
    BY <1>3, <1>5, <1>7, UpdatedParts
  <2>2. Sum(log'.count) = Sum(att[a].tally)
    BY <2>1 DEF Sum
  <2>3. Sum(att[a].tally) = N
    BY <1>7 DEF CoreInv, RowsInv, Begun, CountInv, CountsRows
  <2>4. log'.count["errors"] = Invalid + att[a].tally["failed"]
    BY <1>2, <1>3, <1>4, <1>7, UpdatedParts DEF Reached
  <2>5. att'[a].pc = "notify" /\ log'.status = "completed"
    BY <1>1, <1>2, <1>7, AfterUpdatePlaces
  <2> QED
    BY <2>1, <2>2, <2>3, <2>4, <2>5 DEF Reached
<1>8. CASE att[a].pc # "close"
  <2>1. \A c \in {"success", "partial", "failed"} : log'.count[c] = log.count[c]
    BY <1>2, <1>3, <1>8, UpdatedParts
  <2>2. Sum(log'.count) = 0 /\ log'.status = "pending"
    BY <1>2, <1>4, <1>8, <2>1 DEF Sum
  <2>3. log'.count["errors"] = IF Invalid + att[a].tally["failed"] = 0 THEN log.count["errors"]
                               ELSE Invalid + att[a].tally["failed"]
    BY <1>3, <1>8, UpdatedParts
  <2>4. CASE att[a].pc = "invalid"
    <3>1. att[a].tally["failed"] = 0 /\ log.count["errors"] = 0
      BY <1>4, <2>4 DEF CoreInv, RowsInv, Begun, Zero, Reached
    <3>2. att'[a].pc \in {"pool", "notify"} /\ log'.count["errors"] = Invalid
      BY <1>1, <1>6, <2>3, <2>4, <3>1, AfterUpdatePlaces
    <3> QED
      BY <2>2, <3>2 DEF Reached
  <2>5. CASE att[a].pc = "failed"
    <3>1. log.count["errors"] = Invalid
      BY <1>4, <2>5 DEF Reached
    <3>2. att'[a].pc = "close" /\ log'.count["errors"] = Invalid + att[a].tally["failed"]
      BY <1>1, <1>3, <1>6, <2>3, <2>5, <3>1, AfterUpdatePlaces
    <3> QED
      BY <1>1, <2>2, <3>2 DEF Reached
  <2> QED
    BY <1>1, <1>8, <2>2, <2>4, <2>5
<1> QED
  BY <1>7, <1>8

\* A second delivery, at once or later, is one again.
LEMMA OverlapStep ==
  ASSUME CoreInv, OnceInv, [Next]_vars, "overlap" \in mishaps'
  PROVE  "again" \in mishaps'
<1>1. ASSUME NEW a \in Attempts, TaskStep(a)
      PROVE  "again" \in mishaps'
  <2>1. CASE Deliver(a)
    <3>1. "overlap" \notin mishaps => \E b \in Attempts : Running(b)
      BY <2>1 DEF Deliver
    <3>2. "overlap" \notin mishaps => \E b \in Attempts : att[b].pc # "new"
      BY <3>1 DEF Running
    <3> QED
      BY <2>1, <3>2 DEF Deliver, OnceInv
  <2>2. CASE ~Deliver(a)
    BY <1>1, <2>2 DEF TaskStep, Expire, Download, ReadLog, WriteLog, Close, Finish, OnceInv
  <2> QED
    BY <2>1, <2>2
<1>2. CASE RowOrTally
  BY <1>2, RowOrTallyParts DEF OnceInv
<1>3. CASE RestartProcess \/ UNCHANGED vars
  BY <1>3 DEF RestartProcess, vars, OnceInv
<1> QED
  BY <1>1, <1>2, <1>3, NextCases

LEMMA OnceStep ==
  ASSUME CoreInv, AloneInv, OnceInv, [Next]_vars
  PROVE  OnceInv'
<1> SUFFICES ASSUME mishaps' \cap {"expired", "again", "unlogged"} = {}
             PROVE  Single'
  BY OverlapStep DEF OnceInv
<1>1. mishaps \subseteq mishaps'
  <2>1. \A a \in Attempts : TaskStep(a) => mishaps \subseteq mishaps'
    BY TaskCore DEF Moves
  <2>2. RestartProcess \/ UNCHANGED vars => mishaps \subseteq mishaps'
    BY DEF RestartProcess, vars
  <2> QED
    BY <2>1, <2>2, RowOrTallyParts, NextCases
<1>2. "expired" \notin mishaps' /\ "again" \notin mishaps' /\ "unlogged" \notin mishaps'
  OBVIOUS
<1>3. Single /\ "overlap" \notin mishaps /\ "expired" \notin mishaps
  <2>1. mishaps \cap {"expired", "again", "unlogged"} = {}
    BY <1>1
  <2> QED
    BY <1>1, <1>2, <2>1 DEF OnceInv
\* A step that leaves the log alone, and attempts on their way.
<1>4. ASSUME log' = log,
             \A a \in Attempts :
               /\ att'[a].pc = "new" <=> att[a].pc = "new"
               /\ Reached(a)'
      PROVE  Single'
  BY <1>3, <1>4 DEF Single
<1>5. ASSUME NEW a \in Attempts, TaskStep(a)
      PROVE  Single'
  <2>1. Moves(a) /\ \A b \in Attempts : b # a => att'[b] = att[b]
    BY <1>5, TaskCore DEF Moves
  <2>2. CASE Deliver(a)
    <3>1. \A b \in Attempts : att[b].pc = "new"
      BY <1>2, <2>2 DEF Deliver
    <3>2. log' = [status |-> "pending", count |-> Zero]
      BY <1>3, <2>2, <3>1 DEF Single, Deliver
    <3>3. att'[a].pc = "download"
      BY <2>2, DeliverMoves DEF CoreInv
    <3>4. log'.status = "pending" /\ log'.count["errors"] = 0 /\ Sum(log'.count) = 0
      BY <3>2, ZeroType DEF Zero
    <3>5. ASSUME NEW b \in Attempts
          PROVE  Reached(b)'
      <4>1. att'[b].pc \in {"new", "download"}
        BY <2>1, <3>1, <3>3
      <4> QED
        BY <3>4, <4>1 DEF Reached
    <3>6. \A b, c \in Attempts : att'[b].pc # "new" /\ att'[c].pc # "new" => b = c
      BY <2>1, <3>1
    <3> QED
      BY <3>3, <3>4, <3>5, <3>6 DEF Single
  <2>3. CASE ~Deliver(a)
    <3>1. att[a].pc # "new" /\ att'[a].pc # "new"
      BY <1>5, <2>1, <2>3, TaskRuns DEF Running, Moves
    <3>2. \A b \in Attempts : b # a => att[b].pc = "new" /\ att'[b].pc = "new"
      BY <1>3, <2>1, <3>1 DEF Single
    <3>3. ASSUME NEW b \in Attempts, b # a
          PROVE  Reached(b)'
      BY <3>2, <3>3 DEF Reached
    <3>4. Reached(a) /\ att'[a].tally = att[a].tally
      BY <1>3, <2>1 DEF Single, Moves
    <3>5. ASSUME log' = log, Reached(a)'
          PROVE  Single'
      <4>1. \A b \in Attempts : Reached(b)' /\ (att'[b].pc = "new" <=> att[b].pc = "new")
        BY <3>1, <3>2, <3>3, <3>5
      <4> QED
        BY <1>4, <3>5, <4>1
    <3>6. CASE WriteLog(a)
      <4>1. /\ log'.status = "pending" => Sum(log'.count) = 0
            /\ log'.status = "completed" =>
                 Sum(log'.count) = N /\ log'.count["errors"] = Invalid + log'.count["failed"]
            /\ Reached(a)'
        BY <1>2, <1>3, <3>6, OnceWrite
      <4>2. \A b \in Attempts : Reached(b)'
        BY <3>3, <4>1
      <4> QED
        BY <3>1, <3>2, <4>1, <4>2 DEF Single
    <3>7. CASE Download(a)
      <4>1. \E pc \in {"ended", "invalid", "notify", "pool"} :
              Goto(a, pc) /\ (pc = "pool" => ~(Invalid > 0))
        BY <3>7 DEF Download, AfterErrors
      <4>2. /\ att'[a].pc \in {"ended", "invalid", "notify", "pool"}
            /\ att'[a].pc = "pool" => ~(Invalid > 0)
        BY <4>1 DEF Goto, CoreInv, TypeOK, Attempt
      <4>3. log' = log /\ att[a].pc = "download"
        BY <3>7 DEF Download
      <4>4. Reached(a)'
        BY <3>4, <4>2, <4>3, FileAssumption DEF Reached
      <4> QED
        BY <3>5, <4>3, <4>4
    <3>8. CASE Close(a)
      <4>1. log' = log /\ att[a].pc = "pool" /\ att[a].tally["failed"] \in Nat
        BY <3>8, AttemptParts, CountParts DEF Close, CoreInv
      <4>2. \/ att'[a].pc = "failed"
            \/ att'[a].pc = "close" /\ ~(att[a].tally["failed"] > 0)
        BY <3>8 DEF Close, Goto, CoreInv, TypeOK, Attempt
      <4>3. Reached(a)'
        BY <3>4, <4>1, <4>2, FileAssumption DEF Reached
      <4> QED
        BY <3>5, <4>1, <4>3
    <3>9. CASE Expire(a)
      BY <1>2, <3>9 DEF Expire
    <3>10. CASE ReadLog(a) \/ Finish(a)
      <4>1. log' = log /\ att'[a].pc \in {att[a].pc, "ended"}
        BY <3>10, StayMoves, FinishMoves DEF ReadLog, Finish, CoreInv
      <4>2. Reached(a)'
        BY <3>4, <4>1 DEF Reached
      <4> QED
        BY <3>5, <4>1, <4>2
    <3> QED
      BY <1>5, <2>3, <3>6, <3>7, <3>8, <3>9, <3>10 DEF TaskStep
  <2> QED
    BY <2>2, <2>3
<1>6. CASE RowOrTally
  <2>1. /\ log' = log
        /\ \A a \in Attempts : att'[a].pc = att[a].pc /\ (att[a].pc # "pool" => att'[a] = att[a])
    BY <1>6, RowOrTallyParts
  <2>2. ASSUME NEW a \in Attempts
        PROVE  Reached(a)'
    BY <1>3, <2>1 DEF Single, Reached
  <2> QED
    BY <1>4, <2>1, <2>2
<1>7. CASE RestartProcess
  <2>1. log' = log /\ \A a \in Attempts : att'[a] = att[a] \/ (Running(a) /\ att'[a].pc = "dead")
    BY <1>7 DEF RestartProcess, CoreInv, TypeOK, Attempt
  <2>2. ASSUME NEW a \in Attempts
        PROVE  Reached(a)'
    BY <1>3, <2>1 DEF Single, Reached
  <2> QED
    BY <1>4, <2>1, <2>2 DEF Running
<1>8. CASE UNCHANGED vars
  <2>1. log' = log /\ att' = att
    BY <1>8 DEF vars
  <2>2. ASSUME NEW a \in Attempts
        PROVE  Reached(a)'
    BY <1>3, <2>1 DEF Single, Reached
  <2> QED
    BY <1>4, <2>1, <2>2
<1> QED
  BY <1>5, <1>6, <1>7, <1>8, NextCases

-----------------------------------------------------------------------------
(* What the log promises *)

BulkInv == CoreInv /\ LogInv /\ AloneInv /\ OnceInv

LEMMA BulkInit ==
  ASSUME Init
  PROVE  BulkInv
<1>1. CoreInv
  BY CoreInit
<1>2. /\ log = [status |-> "pending", count |-> Zero] /\ mishaps = {} /\ rec = <<>> /\ task = "waiting"
      /\ DOMAIN rec = {} /\ Sum(log.count) = 0
      /\ \A a \in Attempts : att[a].pc = "new" /\ ~att[a].read
  BY ZeroType DEF Init
<1>3. LogInv
  <2>1. \A s \in Stages : Cardinality(AtStage(s)) \in Nat
    BY RowSets DEF AtStage
  <2>2. log.count["success"] = 0 /\ log.count["partial"] = 0 /\ log.status = "pending"
    BY <1>2 DEF Zero
  <2> QED
    BY <1>2, <2>1, <2>2, SettledReports DEF LogInv, Sound
<1>4. AloneInv
  BY <1>2 DEF AloneInv, Sequential, RecordedOnce, Settled, Running
<1>5. OnceInv
  BY <1>2 DEF OnceInv, Single, Reached
<1> QED
  BY <1>1, <1>3, <1>4, <1>5 DEF BulkInv

LEMMA BulkNext ==
  ASSUME BulkInv, [Next]_vars
  PROVE  BulkInv'
BY CoreNext, LogStep, AloneStep, OnceStep DEF BulkInv

LEMMA BulkHolds == Spec => []BulkInv
BY BulkInit, BulkNext, PTL DEF Spec

\* A completed log accounts for every valid row, and for exactly the rows and
\* errors of the file if the task ran once (processValidatedInvoices,
\* UpdateBulkUploadLog).
THEOREM LogHolds == Spec => []LogAddsUp
<1>1. BulkInv => LogAddsUp
  <2>1. SUFFICES ASSUME BulkInv, log.status = "completed", "expired" \notin mishaps
                 PROVE  /\ Sum(log.count) >= N
                        /\ mishaps \cap {"again", "unlogged"} = {} =>
                             /\ Sum(log.count) = N
                             /\ log.count["errors"] = Invalid + log.count["failed"]
    BY DEF LogAddsUp, Sum
  <2>2. Sum(log.count) >= N
    BY <2>1 DEF BulkInv, LogInv, Sound
  <2>3. ASSUME mishaps \cap {"again", "unlogged"} = {}
        PROVE  Sum(log.count) = N /\ log.count["errors"] = Invalid + log.count["failed"]
    <3>1. mishaps \cap {"expired", "again", "unlogged"} = {}
      BY <2>1, <2>3
    <3> QED
      BY <2>1, <3>1 DEF BulkInv, OnceInv, Single
  <2> QED
    BY <2>2, <2>3
<1> QED
  BY <1>1, BulkHolds, PTL

\* However attempts overlap, the log reports no more successes than rows whose
\* invoice FIRS transmitted, and no more partial ones than rows it signed.
THEOREM OverstatedHolds == Spec => []NothingOverstated
<1>1. BulkInv => NothingOverstated
  BY DEF BulkInv, LogInv, Sound, NothingOverstated, AtStage
<1> QED
  BY <1>1, BulkHolds, PTL

\* A number gets no more records than the file has rows for it, unless two
\* attempts ran at once (processSingleInvoice, CreateInvoice).
THEOREM RecordsHold == Spec => []RecordsPerNumber
<1>1. BulkInv => RecordsPerNumber
  <2>1. SUFFICES ASSUME BulkInv, "overlap" \notin mishaps, NEW num \in Numbers
                 PROVE  Cardinality({i \in DOMAIN rec : rec[i].num = num})
                          <= Cardinality({r \in Rows : Number[r] = num})
    BY DEF RecordsPerNumber
  <2> DEFINE S == {i \in DOMAIN rec : rec[i].num = num}
             R == {r \in Rows : Number[r] = num}
             f == [i \in S |-> i[2]]
  <2>2. \A i \in S : i[2] \in R
    BY <2>1 DEF BulkInv, CoreInv, TypeOK, RecordsInv, Ids
  <2>3. \A i, j \in S : i[2] = j[2] => i = j
    BY <2>1 DEF BulkInv, AloneInv, RecordedOnce
  <2>4. f \in Injection(S, R)
    BY <2>2, <2>3 DEF Injection, IsInjective
  <2>5. IsFiniteSet(R)
    BY RowSets
  <2> HIDE DEF S, R, f
  <2>6. Cardinality(S) <= Cardinality(R)
    BY <2>4, <2>5, FS_Injection
  <2> QED
    BY <2>6 DEF S, R
<1> QED
  BY <1>1, BulkHolds, PTL

\* When the task is done the log says so, unless an update of it failed, two
\* attempts ran at once, or the file has no valid row (HandleBulkUploadTask).
THEOREM DoneHolds == Spec => []DoneIsClosed
<1>1. BulkInv => DoneIsClosed
  <2>1. mishaps \cap {"unlogged", "overlap"} = {} => "unlogged" \notin mishaps /\ "overlap" \notin mishaps
    OBVIOUS
  <2> QED
    BY <2>1 DEF BulkInv, AloneInv, Settled, DoneIsClosed
<1> QED
  BY <1>1, BulkHolds, PTL

\* A completed log does not become pending again, unless two attempts ran at
\* once (StoreBulkUploadValidationErrors, UpdateBulkUploadLog).
THEOREM ClosedHolds == Spec => ClosedStays
<1>1. ASSUME BulkInv, [Next]_vars
      PROVE  log.status = "completed" /\ log'.status # "completed" => "overlap" \in mishaps
  BY <1>1, ClosedStep DEF BulkInv
<1>2. BulkInv /\ [Next]_vars =>
        [log.status = "completed" /\ log'.status # "completed" => "overlap" \in mishaps]_vars
  BY <1>1
<1> QED
  BY <1>2, BulkHolds, PTL DEF Spec, ClosedStays
=============================================================================
