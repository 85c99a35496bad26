---------------------------- MODULE FileParsing ----------------------------
(***************************************************************************)
(* How an uploaded file becomes invoices and errors: the choice of a       *)
(* strategy by the number of rows, and the pool of goroutines that parses  *)
(* and validates the rows of a file, or of one chunk of it after another   *)
(* (ProcessCSV and ProcessExcel in                                         *)
(* src/internal/workers/consumer/bulk-upload).                             *)
(*                                                                         *)
(* What a row holds is settled beforehand: it is empty, it yields a valid  *)
(* invoice, or it yields an error.  The sender hands out the rows in       *)
(* order, so the channel of the jobs is what lies between two counters.    *)
(***************************************************************************)
EXTENDS Integers, FiniteSets, Sequences, SequencesExt

CONSTANTS
  Workers,   \* the goroutines of a pool (calculateWorkers, workersPerChunk)
  MaxRows,   \* bound on the rows of a file, without the header
  Small,     \* up to so many rows a file is parsed sequentially (100)
  Medium,    \* up to so many in one pool (5000)
  ChunkSize  \* rows of a chunk of a larger CSV file (1000)

ASSUME SizesAssumption ==
  /\ MaxRows \in Nat /\ Small \in Nat /\ Medium \in Nat
  /\ ChunkSize \in Nat \ {0}
ASSUME WorkersAssumption == IsFiniteSet(Workers) /\ Workers # {}

VARIABLES
  format,    \* "csv" or "excel"
  file,      \* the kind of each row
  pc,        \* the goroutine of the task
  strategy,
  first, last,     \* the rows of the pool at work
  sent, taken,     \* the last row sent to it, and taken from the channel
  jobsClosed, resultsClosed,
  worker,    \* the row each worker holds, 0 between two rows, -1 at its end
  results,   \* the channel of the results: rows, and the numbers they got
  kept,      \* the valid rows of a pool that goes by their index
  invoices,  \* the valid rows, in the order in which they are returned
  errors,    \* the numbers of the rows that are reported
  total      \* stats.TotalRows

pool == <<first, last, sent, taken, jobsClosed, resultsClosed, worker>>
vars == <<format, file, pc, strategy, pool, results, kept, invoices, errors, total>>

Kinds == {"valid", "invalid", "empty"}
Rows == 1..Len(file)
Jobs == taken + 1..sent

TypeOK ==
  /\ format \in {"csv", "excel"}
  /\ file \in BoundedSeq(Kinds, MaxRows)
  /\ pc \in {"count", "sequential", "start", "collect", "done", "refused"}
  /\ strategy \in {"none", "sequential", "concurrent", "chunked"}
  /\ last \in 0..Len(file) /\ first \in 1..last + 1
  /\ sent \in first - 1..last /\ taken \in first - 1..sent
  /\ jobsClosed \in BOOLEAN /\ resultsClosed \in BOOLEAN
  /\ worker \in [Workers -> -1..last]
  /\ results \in Seq(Rows \X Nat)
  /\ Len(results) <= last - first + 1
  /\ kept \subseteq Rows
  /\ invoices \in Seq(Rows)
  /\ errors \in Seq(Nat)
  /\ total \in 0..MaxRows

Init ==
  /\ format \in {"csv", "excel"}
  /\ file \in BoundedSeq(Kinds, MaxRows)
  /\ pc = "count"
  /\ strategy = "none"
  /\ first = 1 /\ last = 0 /\ sent = 0 /\ taken = 0
  /\ jobsClosed = FALSE /\ resultsClosed = FALSE
  /\ worker = [w \in Workers |-> -1]
  /\ results = <<>> /\ kept = {} /\ invoices = <<>> /\ errors = <<>>
  /\ total = 0

-----------------------------------------------------------------------------
(* ProcessCSV, ProcessExcel *)

\* countCSVRows, countNonEmptyRows.
Counted == Cardinality({i \in Rows : file[i] # "empty"})

Strategy ==
  CASE Counted <= Small  -> "sequential"
    [] Counted > Small /\ (Counted <= Medium \/ format = "excel") -> "concurrent"
    [] OTHER             -> "chunked"

ChooseStrategy ==
  /\ pc = "count" /\ Counted # 0
  /\ total' = Counted
  /\ strategy' = Strategy
  /\ pc' = IF strategy' = "sequential" THEN "sequential" ELSE "start"
  /\ UNCHANGED <<format, file, pool, results, kept, invoices, errors>>

\* The file cannot be read, has no rows, or misses a column: one error is all
\* that is returned.
Refuse ==
  /\ pc = "count"
  /\ pc' = "refused"
  /\ UNCHANGED <<format, file, strategy, pool, results, kept, invoices, errors, total>>

\* The line of a row, after the header.
Line(i) == i + 1

\* The rows of a kind, and rows from the first to the last.
RowsOf(kind) == {i \in Rows : file[i] = kind}
InOrder(rows) ==
  CHOOSE s \in SetToSeqs(rows) : \A j, k \in DOMAIN s : j < k => s[j] < s[k]

ProcessSequentially ==
  LET bad == InOrder(RowsOf("invalid"))
  IN /\ pc = "sequential"
     /\ invoices' = InOrder(RowsOf("valid"))
     /\ errors' = [j \in DOMAIN bad |-> Line(bad[j])]
     /\ pc' = "done"
     /\ UNCHANGED <<format, file, strategy, pool, results, kept, total>>

-----------------------------------------------------------------------------
(* processConcurrently, processChunked, processChunkConcurrently *)

\* Mutant: the last chunk is as long as the others.
EndOfPool_Full == IF strategy = "chunked" THEN last + ChunkSize ELSE Len(file)

\* The last row of the next pool: of the file, or of a chunk.
EndOfPool ==
  IF strategy = "chunked" /\ last + ChunkSize < Len(file) THEN last + ChunkSize
                                                          ELSE Len(file)

StartPool ==
  /\ pc = "start"
  /\ first' = last + 1 /\ last' = EndOfPool
  /\ sent' = last /\ taken' = last
  /\ jobsClosed' = FALSE /\ resultsClosed' = FALSE
  /\ worker' = [w \in Workers |-> 0]
  /\ pc' = "collect"
  /\ UNCHANGED <<format, file, strategy, results, kept, invoices, errors, total>>

SendJob ==
  /\ pc = "collect" /\ sent < last
  /\ sent' = sent + 1
  /\ UNCHANGED <<format, file, pc, strategy, first, last, taken, jobsClosed,
                 resultsClosed, worker, results, kept, invoices, errors, total>>

CloseJobs ==
  /\ pc = "collect" /\ sent = last /\ ~jobsClosed
  /\ jobsClosed' = TRUE
  /\ UNCHANGED <<format, file, pc, strategy, first, last, sent, taken,
                 resultsClosed, worker, results, kept, invoices, errors, total>>

TakeJob(w) ==
  /\ worker[w] = 0 /\ Jobs # {}
  /\ taken' = taken + 1
  /\ worker' = [worker EXCEPT ![w] = taken']
  /\ UNCHANGED <<format, file, pc, strategy, first, last, sent, jobsClosed,
                 resultsClosed, results, kept, invoices, errors, total>>

\* The number of a row in an error: i + 2 for an index from 0, or globalRowNum,
\* from the number of the chunk and the index in it.
Number(i) ==
  LET chunkNum == (first - 1) \div ChunkSize + 1
      index == i - first
  IN IF strategy = "chunked" THEN (chunkNum - 1) * ChunkSize + index + 2
                             ELSE index + 2

\* isEmptyRow, parseAndValidateRow, and the send of the result, which panics on a
\* closed channel: here the worker then never ends.
SendResult(w) ==
  /\ worker[w] > 0 /\ ~resultsClosed
  /\ results' = Append(results, <<worker[w], Number(worker[w])>>)
  /\ worker' = [worker EXCEPT ![w] = 0]
  /\ UNCHANGED <<format, file, pc, strategy, first, last, sent, taken, jobsClosed,
                 resultsClosed, kept, invoices, errors, total>>

\* Mutant: a worker ends when the channel is empty for the moment.
Exhausted_Empty == Jobs = {}

\* The range over the jobs ends.
Exhausted == jobsClosed /\ Jobs = {}

EndWorker(w) ==
  /\ pc = "collect" /\ worker[w] = 0 /\ Exhausted
  /\ worker' = [worker EXCEPT ![w] = -1]
  /\ UNCHANGED <<format, file, pc, strategy, first, last, sent, taken, jobsClosed,
                 resultsClosed, results, kept, invoices, errors, total>>

\* Mutant: the results are closed when a worker too many would have ended.
Waited_Never == Cardinality({w \in Workers : worker[w] = -1}) > Cardinality(Workers)

\* wg.Wait.
Waited == \A w \in Workers : worker[w] = -1

CloseResults ==
  /\ pc = "collect" /\ ~resultsClosed /\ Waited
  /\ resultsClosed' = TRUE
  /\ UNCHANGED <<format, file, pc, strategy, first, last, sent, taken, jobsClosed,
                 worker, results, kept, invoices, errors, total>>

\* Mutant: the index is never looked at.
ByIndex_Never == FALSE

\* A valid row is kept under its index, or in a chunk as it comes.
ByIndex == strategy = "concurrent"

CollectResult ==
  /\ pc = "collect" /\ results # <<>>
  /\ LET row == Head(results)[1]
         kind == file[row]
     IN /\ errors' = IF kind = "invalid" THEN Append(errors, Head(results)[2]) ELSE errors
        /\ kept' = IF kind = "valid" /\ ByIndex THEN kept \cup {row} ELSE kept
        /\ invoices' = IF kind = "valid" /\ ~ByIndex
                       THEN Append(invoices, row) ELSE invoices
  /\ results' = Tail(results)
  /\ UNCHANGED <<format, file, pc, strategy, pool, total>>

\* The results are at their end: the invoices of a pool are put in order, and
\* the next chunk follows.
EndPool ==
  /\ pc = "collect" /\ resultsClosed /\ results = <<>>
  /\ invoices' = invoices \o InOrder(kept)
  /\ kept' = {}
  /\ pc' = IF last = Len(file) THEN "done" ELSE "start"
  /\ UNCHANGED <<format, file, strategy, pool, results, errors, total>>

Task == ChooseStrategy \/ ProcessSequentially \/ StartPool \/ CollectResult \/ EndPool
Work(w) == TakeJob(w) \/ SendResult(w) \/ EndWorker(w)

Next ==
  \/ Task \/ Refuse
  \/ SendJob \/ CloseJobs \/ CloseResults
  \/ \E w \in Workers : Work(w)

Spec == Init /\ [][Next]_vars

\* Every goroutine that can go on does: nothing in them waits for a network.
Fairness ==
  /\ WF_vars(Task \/ Refuse)
  /\ WF_vars(SendJob \/ CloseJobs) /\ WF_vars(CloseResults)
  /\ \A w \in Workers : WF_vars(Work(w))

FairSpec == Spec /\ Fairness

-----------------------------------------------------------------------------
(* Properties *)

\* Whatever the strategy, each valid row becomes one invoice, and each invalid
\* row one error that names its line in the file; an empty row becomes nothing
\* (csv-validation.go:166-262, 265-397, excel-validation.go:163-264).  The
\* statistics, counted in a pass of their own, add up to them (79-81, 107-113).
EveryRowOnce ==
  pc = "done" =>
    /\ IsInjective(invoices) /\ Range(invoices) = RowsOf("valid")
    /\ IsInjective(errors)
    /\ Range(errors) = {i + 1 : i \in RowsOf("invalid")}
    /\ total = Len(invoices) + Len(errors)

\* The invoices come in the order of the file, except that those of one chunk
\* come in the order in which the workers finish ("Reconstruct in correct
\* order", csv-validation.go:254).
InFileOrder ==
  \A j, k \in DOMAIN invoices :
    /\ j < k
    /\ strategy = "chunked" =>
         (invoices[j] - 1) \div ChunkSize # (invoices[k] - 1) \div ChunkSize
    => invoices[j] < invoices[k]

\* The parsing ends: no worker waits for a job, and no collector for a result,
\* that never comes.
ParsingEnds == <>(pc \in {"done", "refused"})
=============================================================================
