-------------------------------- MODULE Queue --------------------------------
(***************************************************************************)
(* internal/queue: the job table, its operations, and the clients that call *)
(* them: the daemon's workers, and other mtx processes on the same file.    *)
(*                                                                          *)
(* A row is never deleted and its id is its position, so the table is a     *)
(* sequence. Each operation is one SQL statement, hence one step.           *)
(***************************************************************************)
EXTENDS Naturals, Sequences

CONSTANTS
  Worker,     \* the daemon's encode workers
  Key,        \* file versions: path, size and mtime
  Faults,     \* may storing a result fail?
  OtherOpens  \* does another mtx process open the file while the daemon runs?

ASSUME QueueAssumption == Faults \in BOOLEAN /\ OtherOpens \in BOOLEAN

Ended  == {"done", "skipped", "failed"}
Status == {"pending", "running"} \cup Ended
Job    == [key : Key, status : Status]

VARIABLES
  jobs,       \* the table, the oldest row first
  held,       \* the row a worker is processing, 0 when it holds none
  storeOpen,  \* does the daemon have the store open?
  cancelled   \* has the daemon's context been cancelled?

queueVars == <<jobs, held, storeOpen, cancelled>>

Rows       == DOMAIN jobs
Pending    == {i \in Rows : jobs[i].status = "pending"}
Seen(k)    == \E i \in Rows : jobs[i].key = k
Holding(w) == held[w] # 0

QueueInit == /\ jobs = <<>>
             /\ held = [w \in Worker |-> 0]
             /\ storeOpen = FALSE
             /\ cancelled = FALSE

\* INSERT OR IGNORE under UNIQUE (path, size_bytes, mtime_unix).
Inserted(k) == IF Seen(k) THEN jobs
                          ELSE Append(jobs, [key |-> k, status |-> "pending"])

\* Mutant: every row that is not "done" is reset.
ResetUnlessDone(table) == [i \in DOMAIN table |->
                             IF table[i].status # "done"
                             THEN [table[i] EXCEPT !.status = "pending"] ELSE table[i]]

\* The UPDATE Open runs: every row left running is pending again.
Reset(table) == [i \in DOMAIN table |->
                   IF table[i].status = "running"
                   THEN [table[i] EXCEPT !.status = "pending"] ELSE table[i]]

-----------------------------------------------------------------------------
\* Mutants: rows left running are not reset; the store is opened again while open.
OpenWithoutReset == /\ ~storeOpen
                    /\ storeOpen' = TRUE
                    /\ cancelled' = FALSE
                    /\ UNCHANGED <<jobs, held>>

OpenAgain == /\ storeOpen' = TRUE
             /\ jobs' = Reset(jobs)
             /\ cancelled' = FALSE
             /\ UNCHANGED held

\* The daemon starts and opens the store.
Open == /\ ~storeOpen
        /\ storeOpen' = TRUE
        /\ jobs' = Reset(jobs)
        /\ cancelled' = FALSE
        /\ UNCHANGED held

\* Scan, webhook or POST /enqueue; or `mtx enqueue`, daemon or no daemon.
Enqueue(k) == /\ storeOpen \/ OtherOpens
              /\ jobs' = Inserted(k)
              /\ UNCHANGED <<held, storeOpen, cancelled>>

\* Mutant: the claim selects, and does not mark.
ClaimUnmarked(w) ==
  /\ storeOpen /\ ~cancelled /\ ~Holding(w)
  /\ \E i \in Pending :
       /\ \A j \in Pending : i <= j
       /\ held' = [held EXCEPT ![w] = i]
  /\ UNCHANGED <<jobs, storeOpen, cancelled>>

\* The oldest pending row is claimed in one statement; drainQueue claims only
\* while its context lives.
ClaimNext(w) ==
  /\ storeOpen /\ ~cancelled /\ ~Holding(w)
  /\ \E i \in Pending :
       /\ \A j \in Pending : i <= j
       /\ jobs' = [jobs EXCEPT ![i].status = "running"]
       /\ held' = [held EXCEPT ![w] = i]
  /\ UNCHANGED <<storeOpen, cancelled>>

\* ProcessFile returned before the context was cancelled, with an error
\* ("failed"), a reason to skip ("skipped") or neither ("done"): the row is
\* updated by its id, whatever its status is by now.
RecordResult(w, outcome) ==
  /\ Holding(w) /\ ~cancelled
  /\ jobs' = [jobs EXCEPT ![held[w]].status = outcome]
  /\ held' = [held EXCEPT ![w] = 0]
  /\ UNCHANGED <<storeOpen, cancelled>>

\* The statement failed (a busy or full database): it is logged, nothing else.
RecordFails(w) ==
  /\ Faults
  /\ Holding(w) /\ ~cancelled
  /\ held' = [held EXCEPT ![w] = 0]
  /\ UNCHANGED <<jobs, storeOpen, cancelled>>

\* SIGTERM or SIGINT.
Cancel == /\ storeOpen /\ ~cancelled
          /\ cancelled' = TRUE
          /\ UNCHANGED <<jobs, held, storeOpen>>

\* ProcessFile returned after the cancellation: the row is left running.
Abandon(w) == /\ Holding(w) /\ cancelled
              /\ held' = [held EXCEPT ![w] = 0]
              /\ UNCHANGED <<jobs, storeOpen, cancelled>>

\* All workers returned and the deferred Close ran.
Close == /\ storeOpen /\ cancelled
         /\ \A w \in Worker : ~Holding(w)
         /\ storeOpen' = FALSE
         /\ UNCHANGED <<jobs, held, cancelled>>

\* The process dies; the table is all that is left.
Crash == /\ storeOpen
         /\ storeOpen' = FALSE
         /\ held' = [w \in Worker |-> 0]
         /\ UNCHANGED <<jobs, cancelled>>

\* `mtx status` or `mtx enqueue` opens the same database with the same Open.
OtherOpen == /\ OtherOpens
             /\ jobs' = Reset(jobs)
             /\ UNCHANGED <<held, storeOpen, cancelled>>

WorkerStep(w) == \/ ClaimNext(w)
                 \/ \E outcome \in Ended : RecordResult(w, outcome)
                 \/ RecordFails(w)
                 \/ Abandon(w)

QueueNext == \/ Open
             \/ \E k \in Key : Enqueue(k)
             \/ \E w \in Worker : WorkerStep(w)
             \/ Cancel
             \/ Close
             \/ Crash
             \/ OtherOpen

QueueSpec == QueueInit /\ [][QueueNext]_queueVars

\* Workers are goroutines that loop until cancelled; a claimed job's ProcessFile
\* returns (Pipeline checks that it does).
QueueFairness ==
  \A w \in Worker : WF_queueVars(ClaimNext(w))
                    /\ WF_queueVars(\E outcome \in Ended : RecordResult(w, outcome))

FairQueueSpec == QueueSpec /\ QueueFairness

-----------------------------------------------------------------------------
\* Types, and the schema's UNIQUE constraint.
QueueTypeOK == /\ jobs \in Seq(Job)
               /\ held \in [Worker -> Nat]
               /\ \A w \in Worker : held[w] \in Rows \cup {0}
               /\ storeOpen \in BOOLEAN
               /\ cancelled \in BOOLEAN
               /\ \A i, j \in Rows : jobs[i].key = jobs[j].key => i = j

\* A job is in at most one worker's hands (queue.go:86, "atomically takes the
\* oldest pending job"; TestClaimRunsEachJobExactlyOnce). Two holders encode
\* the same file into the same temp file.
JobHeldOnce == \A w, x \in Worker : Holding(w) /\ held[w] = held[x] => w = x

\* A row is marked running while a worker holds it, so no other claim sees it.
HeldIsRunning == \A w \in Worker : Holding(w) => jobs[held[w]].status = "running"

\* While the daemon runs undisturbed, "running" means that some worker is on it:
\* no row is stuck in that state until the next restart (daemon.go:61 drops the
\* job whatever became of its row).
RunningIsHeld ==
  (storeOpen /\ ~cancelled) =>
     \A i \in Rows : jobs[i].status = "running" => \E w \in Worker : held[w] = i

\* What the queue promises its callers: JobLedger with the table as a ledger.
\* A file version is known once, and how it ended is never rewritten by a late
\* result, a restart, or another enqueue of the same version (queue.go:1-4).
KnownKeys == {jobs[i].key : i \in Rows}
EndedKeys == {<<jobs[i].key, jobs[i].status>> :
                i \in {j \in Rows : jobs[j].status \in Ended}}

Ledger == INSTANCE JobLedger WITH known <- KnownKeys, ended <- EndedKeys

ImplementsLedger == Ledger!LedgerSpec

\* Every queued file version is eventually processed and its end recorded, if
\* the daemon finally stays up: no job is lost by the shutdowns and crashes
\* before that (daemon.go:26-28, queue.go:56-58). At least one worker is assumed,
\* which the configuration does not check (config.go:19).
EveryJobEnds ==
  \A k \in Key :
    <>[](storeOpen /\ ~cancelled) =>
       (Seen(k) ~> \E i \in Rows : jobs[i].key = k /\ jobs[i].status \in Ended)

-----------------------------------------------------------------------------
\* The inductive invariant of the table, when the daemon is its only opener.
QueueInv ==
  /\ QueueTypeOK
  /\ ~storeOpen => \A w \in Worker : ~Holding(w)
  /\ ~OtherOpens => HeldIsRunning /\ JobHeldOnce
  /\ ~Faults => RunningIsHeld
=============================================================================
