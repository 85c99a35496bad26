------------------------------ MODULE BulkUpload ------------------------------
(***************************************************************************)
(* One uploaded file: the task that asynq delivers at least once, the pool *)
(* of workers that submits its rows, and the log row that sums them up     *)
(* (src/internal/workers/consumer/bulk-upload/bulkUpload.go,               *)
(* src/internal/app/bulk_upload/service.go).                               *)
(*                                                                         *)
(* An attempt is one delivery of the task.  When its context expires asynq *)
(* delivers the task again, while the goroutines of the attempt go on with *)
(* the rows in their hands and still write the log.  The log is updated    *)
(* from a struct read before, and gorm's Updates skips what is zero in it. *)
(***************************************************************************)
EXTENDS InvoiceStatus, FiniteSets

CONSTANTS
  N,          \* valid rows of the file, 1..N in their order
  Number,     \* Number[r]: the invoice number of row r
  BringIRN,   \* the rows that fill in the irn column
  Invalid,    \* how many rows the parser refused
  Attempts,   \* deliveries of the task
  Workers,    \* goroutines of a pool
  Metered,    \* an aggregator uploads, so new invoices take quota
  Quota       \* what remains of it

Rows == 1..N
Numbers == {Number[r] : r \in Rows}

ASSUME FileAssumption == N \in Nat /\ BringIRN \subseteq Rows /\ Invalid \in Nat
ASSUME NumberAssumption == Number = [r \in Rows |-> Number[r]]
ASSUME QuotaAssumption == Metered \in BOOLEAN /\ Quota \in Nat
ASSUME PoolAssumption ==
  /\ IsFiniteSet(Attempts) /\ Attempts \cap {"waiting", "done"} = {}
  /\ IsFiniteSet(Workers) /\ Workers # {}

Ids == Attempts \X Rows     \* an attempt creates one record per row at most
NoId == <<>>
Record == [num: Numbers, cur: {SignedIRN} \cup Stages,
           hist: [Stages -> {"pending", "success", "failed"}]]
NoRecord == [cur |-> SignedIRN, hist |-> Pending]
Counts == [{"success", "partial", "failed", "errors"} -> 0..(N + Invalid)]
Zero == [c \in {"success", "partial", "failed", "errors"} |-> 0]
Log == [status: {"pending", "completed"}, count: Counts]

\* What a worker reports of a row: the status of its record, by the stage, that
\* the invoice is settled already, or that it has no record to speak of.
Duplicate == 5
NoStatus == 6
Reports == Stages \cup {Duplicate, NoStatus}

VARIABLES
  task,       \* the task in Redis: waiting, held by an attempt, or done
  att,        \* the attempts
  work,       \* their workers
  out,        \* results the workers sent, not yet counted
  rec,        \* invoice records, by the attempt and row that created them
  quota,      \* remaining invoices of the subscription
  log,        \* the row in bulk_uploads
  firs,       \* firs[s]: invoice numbers for which FIRS performed stage s
  mishaps     \* history: what happened besides one undisturbed attempt

vars == <<task, att, work, out, rec, quota, log, firs, mishaps>>

Attempt == [pc: {"new", "download", "invalid", "pool", "failed", "close", "notify",
                  "ended", "dead"},
            expired: BOOLEAN, next: 1..(N + 1), tally: Counts,
            read: BOOLEAN, copy: Log]
Worker == [pc: {"idle", "lookup", "reserve", "create", "call", "stopped"},
           row: Rows \cup {0}, id: Ids \cup {NoId}, copy: Record \cup {NoId},
           reserved: BOOLEAN, stage: Stages]

TypeOK ==
  /\ task \in {"waiting", "done"} \cup Attempts
  /\ att \in [Attempts -> Attempt]
  /\ work \in [Attempts \X Workers -> Worker]
  /\ out \subseteq Attempts \X Rows \X Reports \X BOOLEAN
  /\ DOMAIN rec \subseteq Ids /\ \A i \in DOMAIN rec : rec[i] \in Record
  /\ quota \in 0..Quota
  /\ log \in Log
  /\ firs \in [Stages -> SUBSET Numbers]
  /\ mishaps \subseteq {"expired", "restart", "overlap", "again", "unlogged", "lost"}

Idle == [pc |-> "idle", row |-> 0, id |-> NoId, copy |-> NoId,
         reserved |-> FALSE, stage |-> Validated]

Init ==
  /\ task = "waiting"
  /\ att = [a \in Attempts |->
             [pc |-> "new", expired |-> FALSE, next |-> 1, tally |-> Zero, read |-> FALSE,
              copy |-> [status |-> "pending", count |-> Zero]]]
  /\ work = [p \in Attempts \X Workers |-> Idle]
  /\ out = {}
  /\ rec = <<>>
  /\ quota = Quota
  /\ log = [status |-> "pending", count |-> Zero]
  /\ firs = [s \in Stages |-> {}]
  /\ mishaps = {}

Running(a) == att[a].pc \notin {"new", "ended", "dead"}
Goto(a, pc) == att' = [att EXCEPT ![a].pc = pc]

\* The task is out of Redis, or due again, only if the attempt still holds it.
Return(a, how) == task' = IF task = a THEN how ELSE task

-----------------------------------------------------------------------------
(* The task *)

\* asynq hands the task to an attempt.
Deliver(a) ==
  /\ task = "waiting" /\ att[a].pc = "new"
  /\ task' = a
  /\ Goto(a, "download")
  /\ mishaps' = mishaps \cup {k \in {"overlap", "again"} :
                  \/ k = "overlap" /\ \E b \in Attempts : Running(b)
                  \/ k = "again" /\ \E b \in Attempts : att[b].pc # "new"}
  /\ UNCHANGED <<work, out, rec, quota, log, firs>>

\* A file without a valid row is done with once the errors are stored.
AfterErrors == IF N = 0 THEN "notify" ELSE "pool"

\* The file is fetched and parsed, or the attempt fails and is to be repeated.
Download(a) ==
  /\ att[a].pc = "download"
  /\ \/ Goto(a, "ended") /\ Return(a, "waiting")
     \/ Goto(a, IF Invalid > 0 THEN "invalid" ELSE AfterErrors) /\ UNCHANGED task
  /\ UNCHANGED <<work, out, rec, quota, log, firs, mishaps>>

\* The handler has sent its mail (NotifyBulkUploadFinished) and returns nil.
Finish(a) ==
  /\ att[a].pc = "notify"
  /\ Goto(a, "ended")
  /\ Return(a, "done")
  /\ UNCHANGED <<work, out, rec, quota, log, firs, mishaps>>

\* The context of an attempt expires: asynq schedules the task anew, while the
\* handler goes on.
Expire(a) ==
  /\ Running(a) /\ task = a
  /\ task' = "waiting"
  /\ att' = [att EXCEPT ![a].expired = TRUE]
  /\ mishaps' = mishaps \cup {"expired"}
  /\ UNCHANGED <<work, out, rec, quota, log, firs>>

\* What a restart of the worker process leaves: no attempt, and the task, if it
\* was not done, for the recoverer to deliver again.
RestartProcess ==
  /\ att' = [b \in Attempts |-> IF Running(b) THEN [att[b] EXCEPT !.pc = "dead"] ELSE att[b]]
  /\ task' = IF task \in Attempts THEN "waiting" ELSE task
  /\ work' = [w \in Attempts \X Workers |-> Idle]
  /\ out' = {}
  /\ mishaps' = mishaps \cup {"restart"}
  /\ UNCHANGED <<rec, quota, log, firs>>

Restart == (\E a \in Attempts : Running(a)) /\ RestartProcess

-----------------------------------------------------------------------------
(* The log row *)

\* Mutant: with the errors of the rows the log is thought complete.
AfterUpdate_NoSummary(a) == IF att[a].pc = "invalid" THEN AfterErrors ELSE "notify"

\* The step after a log update: the pool after the parser's errors, the summary
\* after the errors of the rows, and the mail after the summary.
AfterUpdate(a) ==
  CASE att[a].pc = "invalid" -> AfterErrors
    [] att[a].pc = "failed"  -> "close"
    [] att[a].pc = "close"   -> "notify"

\* GetBulkUploadLogByID, for StoreBulkUploadValidationErrors and for
\* UpdateBulkUploadLog.
ReadLog(a) ==
  /\ att[a].pc \in {"invalid", "failed", "close"} /\ ~att[a].read
  /\ att' = [att EXCEPT ![a].read = TRUE, ![a].copy = log]
  /\ UNCHANGED <<task, work, out, rec, quota, log, firs, mishaps>>

\* Mutant: errors are stored in a struct of their own, with the default status.
Updated_Fresh(a) ==
  LET tally == att[a].tally
  IN IF att[a].pc = "close"
     THEN [status |-> "completed", count |-> tally]
     ELSE [status |-> "pending", count |-> [Zero EXCEPT !["errors"] = Invalid + tally["failed"]]]

\* The struct that is written: the errors, or the counts of the attempt and the
\* status completed.
Updated(a) ==
  LET tally == att[a].tally
  IN IF att[a].pc = "close"
     THEN [status |-> "completed",
           count |-> [tally EXCEPT !["errors"] = att[a].copy.count["errors"]]]
     ELSE [att[a].copy EXCEPT !.count["errors"] = Invalid + tally["failed"]]

\* gorm's Updates of a struct writes no zero field.
Merge(old, new) ==
  [status |-> new.status,
   count |-> [c \in DOMAIN new.count |-> IF new.count[c] = 0 THEN old.count[c] ELSE new.count[c]]]

\* UpdateBulkUploadLog, or the step that fails with only a message.
WriteLog(a) ==
  /\ Running(a) /\ att[a].read
  /\ \/ log' = Merge(log, Updated(a)) /\ UNCHANGED mishaps
     \/ UNCHANGED log /\ mishaps' = mishaps \cup {"unlogged"}
  /\ att' = [att EXCEPT ![a].read = FALSE, ![a].pc = AfterUpdate(a)]
  /\ UNCHANGED <<task, work, out, rec, quota, firs>>

-----------------------------------------------------------------------------
(* The pool *)

\* Mutant: the look-up finds nothing.
Found_Blind(num) == {}

\* The record GetInvoiceByInvoiceNumber finds, one of them if there are more.
Found(num) == {i \in DOMAIN rec : rec[i].num = num}

Step(w, new) == work' = [work EXCEPT ![w] = new]

\* A worker sends what became of its row, and is free again.
Send(w, report, posted) ==
  /\ out' = out \cup {<<w[1], work[w].row, report, posted>>}
  /\ Step(w, Idle)

\* invoiceWorker takes the next row from the channel and drops it if the
\* context has expired; it stops then, or when no row is left.
Take(w) ==
  LET a == w[1]
      next == att[a].next
  IN /\ att[a].pc = "pool" /\ work[w].pc = "idle"
     /\ \/ /\ next <= N /\ ~att[a].expired
           /\ Step(w, [Idle EXCEPT !.pc = "lookup", !.row = next])
           /\ att' = [att EXCEPT ![a].next = next + 1]
        \/ /\ next <= N /\ att[a].expired
           /\ Step(w, [Idle EXCEPT !.pc = "stopped"])
           /\ att' = [att EXCEPT ![a].next = next + 1]
        \/ /\ next > N
           /\ Step(w, [Idle EXCEPT !.pc = "stopped"])
           /\ UNCHANGED att
     /\ UNCHANGED <<task, out, rec, quota, log, firs, mishaps>>

\* processSingleInvoice looks the number up and lets a settled invoice be.
Lookup(w) ==
  LET num == Number[work[w].row]
      go(id, copy) == Step(w, [work[w] EXCEPT !.pc = "reserve", !.id = id, !.copy = copy])
  IN /\ work[w].pc = "lookup"
     /\ \/ Found(num) = {} /\ go(NoId, NoId) /\ UNCHANGED out
        \/ \E i \in Found(num) :
             \/ ~Blocked(rec[i]) /\ go(i, rec[i]) /\ UNCHANGED out
             \/ Blocked(rec[i]) /\ Send(w, Duplicate, FALSE)
        \/ Send(w, NoStatus, FALSE)
     /\ UNCHANGED <<task, att, rec, quota, log, firs, mishaps>>

\* Mutant: every row of an aggregator takes quota, a repeated one too.
Takes_Always(w) == Metered

\* A new invoice of an aggregator takes quota.
Takes(w) == Metered /\ work[w].id = NoId

\* An aggregator needs a subscription for every row; the quota is reserved by
\* one UPDATE with its conditions (ReserveAggregatorInvoiceQuota).
Reserve(w) ==
  /\ work[w].pc = "reserve"
  /\ \/ /\ Takes(w) => quota > 0
        /\ quota' = IF Takes(w) THEN quota - 1 ELSE quota
        /\ Step(w, [work[w] EXCEPT !.pc = "create", !.reserved = Takes(w)])
        /\ UNCHANGED out
     \/ Metered /\ Send(w, NoStatus, FALSE) /\ UNCHANGED quota
  /\ UNCHANGED <<task, att, rec, log, firs, mishaps>>

\* A row that brings an IRN is taken for one that has a record.
Dereferences(w) == work[w].row \in BringIRN /\ work[w].id = NoId

\* Mutant: the release forgets to ask whether the row took quota.
Released_Always(w) == quota + 1

Released(w) == IF work[w].reserved THEN quota + 1 ELSE quota

\* No IRN could be generated, or no record written: the quota is given back, if
\* the release, whose error is dropped, gets through.
Abandon(w) ==
  /\ work[w].pc = "create" /\ ~Dereferences(w)
  /\ \/ quota' = Released(w) /\ UNCHANGED mishaps
     \/ /\ work[w].reserved
        /\ UNCHANGED quota
        /\ mishaps' = mishaps \cup {"lost"}
  /\ Send(w, NoStatus, FALSE)
  /\ UNCHANGED <<task, att, rec, log, firs>>

\* CreateInvoice writes the record: a new one, or the copy over the one found.
Create(w) ==
  LET i == IF work[w].id = NoId THEN <<w[1], work[w].row>> ELSE work[w].id
      new == [num |-> Number[work[w].row], cur |-> SignedIRN, hist |-> Pending]
      row == IF work[w].id = NoId THEN new ELSE work[w].copy
  IN /\ work[w].pc = "create" /\ ~Dereferences(w)
     /\ rec' = [j \in DOMAIN rec \cup {i} |-> IF j = i THEN row ELSE rec[j]]
     /\ Step(w, [work[w] EXCEPT !.pc = "call", !.id = i, !.copy = row,
                                !.reserved = FALSE, !.stage = ResumeAt(row)])
     /\ UNCHANGED <<task, att, out, quota, log, firs, mishaps>>

\* The panic of such a row ends the process, which has no recover.
Panic(w) ==
  /\ work[w].pc = "create" /\ Dereferences(w)
  /\ RestartProcess

\* One FIRS call and the save of the copy that records its answer.
Call(w) ==
  LET s == work[w].stage
      i == work[w].id
  IN /\ work[w].pc = "call"
     /\ \E performed, ok, saved \in BOOLEAN :
          LET row == [work[w].copy EXCEPT !.cur = s,
                                          !.hist[s] = IF ok THEN "success" ELSE "failed"]
          IN /\ ok => performed
             /\ firs' = [firs EXCEPT ![s] = IF performed THEN @ \cup {row.num} ELSE @]
             /\ rec' = IF saved THEN [rec EXCEPT ![i] = row] ELSE rec
             /\ IF ok /\ s # Confirmed
                THEN Step(w, [work[w] EXCEPT !.copy = row, !.stage = s + 1]) /\ UNCHANGED out
                ELSE Send(w, s, ok)
     /\ UNCHANGED <<task, att, quota, log, mishaps>>

\* Mutant: what was sent to be signed counts as signed.
Counted_Unread(report, posted, row) ==
  CASE report = Confirmed \/ posted -> "success"
    [] report \in {Signed, Transmitted} -> "partial"
    [] OTHER -> "failed"

\* How a report counts, given the record that is found by then: a report of the
\* signing, and one of a duplicate, are settled by what the record says.
Counted(report, posted, row) ==
  LET signed == row.hist[Signed] = "success"
  IN CASE report = Confirmed \/ posted -> "success"
       [] report = Duplicate /\ row.cur = Confirmed -> "success"
       [] report = Transmitted -> "partial"
       [] report = Signed /\ signed -> "partial"
       [] report = Duplicate /\ row.cur = Transmitted -> "partial"
       [] report = Duplicate /\ row.cur = Signed /\ signed -> "partial"
       [] OTHER -> "failed"

\* processValidatedInvoices counts a result.  A look-up that fails, or finds
\* nothing, reads like an empty record.
Tally(m) ==
  LET a == m[1]
  IN /\ m \in out /\ att[a].pc = "pool"
     /\ \E row \in {NoRecord} \cup {rec[i] : i \in Found(Number[m[2]])} :
          att' = [att EXCEPT ![a].tally[Counted(m[3], m[4], row)] = @ + 1]
     /\ out' = out \ {m}
     /\ UNCHANGED <<task, work, rec, quota, log, firs, mishaps>>

\* Mutants: not waiting for the results, or waiting for one of every row.
Drained_Stopped(a) == \A w \in {a} \X Workers : work[w].pc = "stopped"
Drained_Counted(a) ==
  att[a].tally["success"] + att[a].tally["partial"] + att[a].tally["failed"] = N

\* All workers have stopped and all results are counted.
Drained(a) ==
  /\ \A w \in {a} \X Workers : work[w].pc = "stopped"
  /\ \A m \in out : m[1] # a

Close(a) ==
  /\ att[a].pc = "pool" /\ Drained(a)
  /\ Goto(a, IF att[a].tally["failed"] > 0 THEN "failed" ELSE "close")
  /\ UNCHANGED <<task, work, out, rec, quota, log, firs, mishaps>>

-----------------------------------------------------------------------------
\* What a worker does by itself; a call to FIRS waits for an answer.
LocalStep(w) ==
  /\ Running(w[1])
  /\ \/ Take(w) \/ Lookup(w) \/ Reserve(w) \/ Abandon(w) \/ Create(w) \/ Panic(w)

CallStep(w) == Running(w[1]) /\ Call(w)

AttemptStep(a) ==
  \/ Download(a) \/ ReadLog(a) \/ WriteLog(a) \/ Close(a) \/ Finish(a)
  \/ \E m \in out : m[1] = a /\ Tally(m)

Next ==
  \/ \E a \in Attempts : Deliver(a) \/ Expire(a) \/ AttemptStep(a)
  \/ \E w \in Attempts \X Workers : LocalStep(w) \/ CallStep(w)
  \/ Restart

Spec == Init /\ [][Next]_vars

\* asynq delivers a waiting task and goroutines run until they return; that
\* FIRS answers is not assumed, since the HTTP client has no timeout.
Fairness ==
  /\ \A a \in Attempts : WF_vars(Deliver(a)) /\ WF_vars(AttemptStep(a))
  /\ \A w \in Attempts \X Workers : WF_vars(LocalStep(w))

FairSpec == Spec /\ Fairness

-----------------------------------------------------------------------------
(* Properties *)

\* A completed log accounts for every valid row, and for no more than the rows
\* if the task ran once: each row gets one result, whichever worker took it, and
\* the errors listed are those of the parser and of the failed rows.  Without
\* the exceptions a row is dropped, or counted in each of two attempts
\* (processValidatedInvoices, UpdateBulkUploadLog).
LogAddsUp ==
  log.status = "completed" /\ "expired" \notin mishaps =>
    LET counted == log.count["success"] + log.count["partial"] + log.count["failed"]
    IN /\ counted >= N
       /\ mishaps \cap {"again", "unlogged"} = {} =>
            counted = N /\ log.count["errors"] = Invalid + log.count["failed"]

\* However attempts overlap and counts of several are mixed, the log reports no
\* more successes than rows whose invoice FIRS transmitted, and no more partial
\* ones than rows whose invoice it signed.
NothingOverstated ==
  /\ log.count["success"] <= Cardinality({r \in Rows : Number[r] \in firs[Transmitted]})
  /\ log.count["partial"] <= Cardinality({r \in Rows : Number[r] \in firs[Signed]})

\* The quota taken is the invoices created and those about to be, unless the
\* process restarted or a release failed: rows that are retried, refused or
\* found to exist cost nothing.
QuotaMatchesRecords ==
  Metered /\ mishaps \cap {"restart", "lost"} = {} =>
    Quota - quota = Cardinality(DOMAIN rec)
                    + Cardinality({w \in Attempts \X Workers : work[w].reserved})

\* A number gets no more records than the file has rows for it, however often
\* the task is repeated, unless two attempts ran at once.
RecordsPerNumber ==
  "overlap" \notin mishaps =>
    \A num \in Numbers :
      Cardinality({i \in DOMAIN rec : rec[i].num = num}) <= Cardinality({r \in Rows : Number[r] = num})

\* A completed log does not become pending again, unless an attempt whose time
\* was up writes what it read before another one completed it.
ClosedStays ==
  [][log.status = "completed" /\ log'.status # "completed" => "overlap" \in mishaps]_vars

\* When the task is done the log says so ("when bulk invoice upload processing
\* completes" a mail reports the numbers), unless an update of it failed, two
\* attempts ran at once, or the file has no valid row: then the mail is sent
\* and the log stays pending (HandleBulkUploadTask returns without logResults).
DoneIsClosed ==
  N # 0 /\ task = "done" /\ mishaps \cap {"unlogged", "overlap"} = {} => log.status = "completed"

\* A row of the file does not end the worker process: irn is an optional column.
NoRowPanics ==
  \A w \in Attempts \X Workers : work[w].pc = "create" => ~Dereferences(w)

\* An attempt that was delivered comes to its end, or waits for FIRS forever: no
\* worker waits for another, and the count of the results ends with the last
\* worker, even when the time is up and rows are dropped.
AttemptsEnd ==
  \A a \in Attempts :
    att[a].pc # "new" ~> \/ att[a].pc \in {"ended", "dead"}
                        \/ [](\E w \in {a} \X Workers : work[w].pc = "call")
=============================================================================
