----------------------------- MODULE QueueProofs -----------------------------
(***************************************************************************)
(* What the job table keeps for any number of workers and file versions.    *)
(***************************************************************************)
EXTENDS Queue, SequenceTheorems, TLAPS

\* A change of one row's status leaves a table with the same rows otherwise.
LEMMA StatusChange ==
  ASSUME NEW t \in Seq(Job), NEW i \in DOMAIN t, NEW s \in Status,
         NEW u, u = [t EXCEPT ![i].status = s]
  PROVE  /\ u \in Seq(Job)
         /\ DOMAIN u = DOMAIN t
         /\ u[i].status = s
         /\ \A j \in DOMAIN t : u[j].key = t[j].key
         /\ \A j \in DOMAIN t : j # i => u[j] = t[j]
<1>1. /\ i \in 1..Len(t)
      /\ DOMAIN t = 1..Len(t)
  BY LenProperties
<1>2. t[i] \in Job
  BY <1>1, ElementOfSeq
<1> DEFINE e == [t[i] EXCEPT !.status = s]
<1>3. e \in Job /\ e.key = t[i].key /\ e.status = s
  BY <1>2 DEF Job
<1>4. u = [t EXCEPT ![i] = e]
  OBVIOUS
<1> HIDE DEF e
<1>5. /\ u \in Seq(Job)
      /\ Len(u) = Len(t)
      /\ \A j \in 1..Len(t) : u[j] = IF j = i THEN e ELSE t[j]
  BY <1>1, <1>3, <1>4, ExceptSeq
<1>6. DOMAIN u = 1..Len(u)
  BY <1>5, LenProperties
<1> QED
  BY <1>1, <1>3, <1>5, <1>6

\* Open's UPDATE keeps every row and its key; no row is running after it.
LEMMA ResetTable ==
  ASSUME NEW t \in Seq(Job)
  PROVE  /\ Reset(t) \in Seq(Job)
         /\ DOMAIN Reset(t) = DOMAIN t
         /\ \A j \in DOMAIN t : /\ Reset(t)[j].key = t[j].key
                                /\ Reset(t)[j].status # "running"
                                /\ t[j].status # "running" => Reset(t)[j] = t[j]
                                /\ t[j].status = "running" => Reset(t)[j].status = "pending"
<1> DEFINE u == Reset(t)
<1>1. DOMAIN t = 1..Len(t) /\ Len(t) \in Nat
  BY LenProperties
<1>2. \A j \in 1..Len(t) : t[j] \in Job
  BY ElementOfSeq
<1>3. DOMAIN u = DOMAIN t
  BY DEF Reset
<1>4. ASSUME NEW j \in DOMAIN t
      PROVE  /\ u[j] \in Job
             /\ u[j].key = t[j].key
             /\ u[j].status # "running"
             /\ t[j].status # "running" => u[j] = t[j]
             /\ t[j].status = "running" => u[j].status = "pending"
  <2>1. u[j] = IF t[j].status = "running" THEN [t[j] EXCEPT !.status = "pending"] ELSE t[j]
    BY DEF Reset
  <2>2. t[j] \in Job
    BY <1>1, <1>2
  <2> HIDE DEF u
  <2> QED
    BY <2>1, <2>2 DEF Job, Status, Ended
<1>5. u \in [1..Len(t) -> Job]
  BY <1>1, <1>3, <1>4 DEF Reset
<1>6. u \in Seq(Job)
  BY <1>1, <1>5, SeqDef
<1> QED
  BY <1>3, <1>4, <1>6

\* An insert appends a pending row, or changes nothing when the key is known.
LEMMA InsertedRow ==
  ASSUME NEW k \in Key, jobs \in Seq(Job), NEW u, u = Inserted(k)
  PROVE  /\ u \in Seq(Job)
         /\ Seen(k) => u = jobs
         /\ \A j \in Rows : j \in DOMAIN u /\ u[j] = jobs[j]
         /\ ~Seen(k) => \E n \in DOMAIN u :
               /\ n \notin Rows
               /\ DOMAIN u = Rows \cup {n}
               /\ u[n] = [key |-> k, status |-> "pending"]
<1> DEFINE row == [key |-> k, status |-> "pending"]
<1>1. Rows = 1..Len(jobs) /\ Len(jobs) \in Nat
  BY LenProperties DEF Rows
<1>2. CASE Seen(k)
  BY <1>2 DEF Inserted, Rows
<1>3. CASE ~Seen(k)
  <2>1. u = Append(jobs, row)
    BY <1>3 DEF Inserted
  <2>2. row \in Job
    BY DEF Job, Status
  <2> HIDE DEF row
  <2>3. /\ u \in Seq(Job)
        /\ Len(u) = Len(jobs) + 1
        /\ \A j \in 1..Len(jobs) : u[j] = jobs[j]
        /\ u[Len(jobs) + 1] = row
    BY <2>1, <2>2
  <2>4. DOMAIN u = 1..(Len(jobs) + 1)
    BY <2>3, LenProperties
  <2> QED
    BY <1>1, <1>3, <2>3, <2>4 DEF row
<1> QED
  BY <1>2, <1>3

-----------------------------------------------------------------------------
\* The invariant holds initially.
LEMMA QueueInvInit == QueueInit => QueueInv
<1> SUFFICES ASSUME QueueInit PROVE QueueInv
  OBVIOUS
<1>1. jobs \in Seq(Job) /\ Rows = {}
  BY EmptySeq, LenProperties DEF QueueInit, Rows
<1> QED
  BY <1>1, QueueAssumption
     DEF QueueInit, QueueInv, QueueTypeOK, Holding, HeldIsRunning, JobHeldOnce,
         RunningIsHeld

\* A change of the table that keeps its rows and their keys keeps its type.
LEMMA RowsKept ==
  ASSUME QueueTypeOK, jobs' \in Seq(Job), Rows' = Rows,
         \A j \in Rows : jobs'[j].key = jobs[j].key,
         held' \in [Worker -> Nat], \A w \in Worker : held'[w] \in Rows \cup {0},
         storeOpen' \in BOOLEAN, cancelled' \in BOOLEAN
  PROVE  QueueTypeOK'
BY DEF QueueTypeOK

LEMMA OpenKeepsInv == QueueInv /\ Open => QueueInv'
<1> SUFFICES ASSUME QueueInv, Open PROVE QueueInv'
  OBVIOUS
<1> USE DEF QueueInv
<1>1. jobs \in Seq(Job)
  BY DEF QueueTypeOK
<1>2. /\ jobs' \in Seq(Job)
      /\ Rows' = Rows
      /\ \A j \in Rows : jobs'[j].key = jobs[j].key /\ jobs'[j].status # "running"
  BY <1>1, ResetTable DEF Open, Rows
<1>3. QueueTypeOK'
  BY <1>2, RowsKept DEF QueueTypeOK, Open
<1>4. \A w \in Worker : ~Holding(w)'
  BY DEF Open, Holding
<1> QED
  BY <1>2, <1>3, <1>4 DEF Open, HeldIsRunning, JobHeldOnce, RunningIsHeld

LEMMA EnqueueKeepsInv ==
  ASSUME QueueInv, NEW k \in Key, Enqueue(k) PROVE QueueInv'
<1> USE DEF QueueInv
<1>1. jobs \in Seq(Job)
  BY DEF QueueTypeOK
<1>2. /\ jobs' \in Seq(Job)
      /\ Seen(k) => jobs' = jobs
      /\ \A j \in Rows : j \in Rows' /\ jobs'[j] = jobs[j]
      /\ ~Seen(k) => \E n \in Rows' :
            /\ n \notin Rows
            /\ Rows' = Rows \cup {n}
            /\ jobs'[n] = [key |-> k, status |-> "pending"]
  BY <1>1, InsertedRow DEF Enqueue, Rows
<1>3. /\ held' = held /\ storeOpen' = storeOpen /\ cancelled' = cancelled
  BY DEF Enqueue
<1>4. CASE Seen(k)
  <2>1. jobs' = jobs
    BY <1>2, <1>4
  <2> QED
    BY <2>1, <1>3 DEF QueueTypeOK, Rows, Holding, HeldIsRunning, JobHeldOnce,
                      RunningIsHeld
<1>5. CASE ~Seen(k)
  <2>1. PICK n \in Rows' : /\ n \notin Rows
                           /\ Rows' = Rows \cup {n}
                           /\ jobs'[n] = [key |-> k, status |-> "pending"]
    BY <1>2, <1>5
  <2>2. QueueTypeOK'
    BY <1>2, <1>3, <1>5, <2>1 DEF QueueTypeOK, Seen
  <2>3. HeldIsRunning => HeldIsRunning'
    BY <1>2, <1>3 DEF QueueTypeOK, HeldIsRunning, Holding
  <2>4. RunningIsHeld => RunningIsHeld'
    BY <1>2, <1>3, <2>1 DEF RunningIsHeld
  <2> QED
    BY <1>3, <2>2, <2>3, <2>4 DEF JobHeldOnce, Holding
<1> QED
  BY <1>4, <1>5

LEMMA ClaimKeepsInv ==
  ASSUME QueueInv, NEW w \in Worker, ClaimNext(w) PROVE QueueInv'
<1> USE DEF QueueInv
<1>1. PICK i \in Rows : /\ jobs[i].status = "pending"
                        /\ jobs' = [jobs EXCEPT ![i].status = "running"]
                        /\ held' = [held EXCEPT ![w] = i]
  BY DEF ClaimNext, Pending
<1>2. i \in Rows /\ i \in DOMAIN jobs /\ jobs[i].status = "pending"
  BY <1>1 DEF Rows
<1>3. jobs \in Seq(Job) /\ "running" \in Status
  BY DEF QueueTypeOK, Status
<1>4. /\ jobs' \in Seq(Job)
      /\ Rows' = Rows
      /\ jobs'[i].status = "running"
      /\ \A j \in Rows : jobs'[j].key = jobs[j].key
      /\ \A j \in Rows : j # i => jobs'[j] = jobs[j]
  <2> DEFINE s == "running"
  <2>1. s \in Status /\ jobs' = [jobs EXCEPT ![i].status = s]
    BY <1>1, <1>3
  <2> HIDE DEF s
  <2>2. /\ jobs' \in Seq(Job)
        /\ DOMAIN jobs' = DOMAIN jobs
        /\ jobs'[i].status = s
        /\ \A j \in DOMAIN jobs : jobs'[j].key = jobs[j].key
        /\ \A j \in DOMAIN jobs : j # i => jobs'[j] = jobs[j]
    BY <2>1, <1>2, <1>3, StatusChange
  <2> QED
    BY <2>2 DEF Rows, s
<1>5. i \in Nat /\ i # 0
  BY <1>2, <1>3, LenProperties
<1>6. /\ storeOpen /\ ~cancelled /\ held[w] = 0
      /\ storeOpen' = storeOpen /\ cancelled' = cancelled
  BY DEF ClaimNext, Holding
<1>7. QueueTypeOK'
  BY <1>1, <1>2, <1>4, <1>5, <1>6, RowsKept DEF QueueTypeOK
<1>8. held \in [Worker -> Nat]
  BY DEF QueueTypeOK
<1>9. ASSUME ~OtherOpens PROVE HeldIsRunning' /\ JobHeldOnce'
  BY <1>1, <1>2, <1>4, <1>5, <1>6, <1>8, <1>9
     DEF HeldIsRunning, JobHeldOnce, Holding, QueueTypeOK
<1>10. RunningIsHeld => RunningIsHeld'
  <2> SUFFICES ASSUME RunningIsHeld, NEW j \in Rows, jobs'[j].status = "running"
               PROVE  \E x \in Worker : held'[x] = j
    BY <1>4, <1>6 DEF RunningIsHeld
  <2>1. CASE j = i
    BY <1>1, <1>8, <2>1
  <2>2. CASE j # i
    <3>1. PICK x \in Worker : held[x] = j
      BY <1>4, <1>6, <2>2 DEF RunningIsHeld
    <3>2. j # 0
      BY <1>3, LenProperties DEF Rows
    <3> QED
      BY <1>1, <1>6, <1>8, <3>1, <3>2
  <2> QED
    BY <2>1, <2>2
<1> QED
  BY <1>6, <1>7, <1>9, <1>10

LEMMA RecordKeepsInv ==
  ASSUME QueueInv, NEW w \in Worker, NEW outcome \in Ended, RecordResult(w, outcome)
  PROVE  QueueInv'
<1> USE DEF QueueInv
<1> DEFINE i == held[w]
<1>1. /\ jobs' = [jobs EXCEPT ![i].status = outcome]
      /\ held' = [held EXCEPT ![w] = 0]
      /\ storeOpen' = storeOpen /\ cancelled' = cancelled
      /\ i # 0
  BY DEF RecordResult, Holding
<1>2. jobs \in Seq(Job) /\ outcome \in Status /\ i \in DOMAIN jobs
  BY <1>1 DEF QueueTypeOK, Status, Rows
<1>3. outcome # "running"
  BY DEF Ended
<1>4. held \in [Worker -> Nat]
  BY DEF QueueTypeOK
<1>5. storeOpen
  BY <1>1, <1>4 DEF Holding, QueueTypeOK
<1>6. i \in Rows
  BY <1>2 DEF Rows
<1> HIDE DEF i
<1>7. /\ jobs' \in Seq(Job)
      /\ Rows' = Rows
      /\ jobs'[i].status = outcome
      /\ \A j \in Rows : jobs'[j].key = jobs[j].key
      /\ \A j \in Rows : j # i => jobs'[j] = jobs[j]
  <2>1. jobs' = [jobs EXCEPT ![i].status = outcome]
    BY <1>1
  <2>2. /\ jobs' \in Seq(Job)
        /\ DOMAIN jobs' = DOMAIN jobs
        /\ jobs'[i].status = outcome
        /\ \A j \in DOMAIN jobs : jobs'[j].key = jobs[j].key
        /\ \A j \in DOMAIN jobs : j # i => jobs'[j] = jobs[j]
    BY <1>2, <2>1, StatusChange
  <2> QED
    BY <2>2 DEF Rows
<1>8. QueueTypeOK'
  BY <1>1, <1>4, <1>7, RowsKept DEF QueueTypeOK
<1>9. ASSUME ~OtherOpens PROVE HeldIsRunning' /\ JobHeldOnce'
  BY <1>1, <1>4, <1>7, <1>9 DEF i, HeldIsRunning, JobHeldOnce, Holding, QueueTypeOK
<1>10. RunningIsHeld => RunningIsHeld'
  <2> SUFFICES ASSUME RunningIsHeld, storeOpen, ~cancelled,
                      NEW j \in Rows, jobs'[j].status = "running"
               PROVE  \E x \in Worker : held'[x] = j
    BY <1>1, <1>7 DEF RunningIsHeld
  <2>1. j # i /\ jobs[j].status = "running"
    BY <1>3, <1>7
  <2>2. PICK x \in Worker : held[x] = j
    BY <2>1 DEF RunningIsHeld
  <2> QED
    BY <1>1, <1>4, <2>1, <2>2 DEF i
<1> QED
  BY <1>1, <1>5, <1>8, <1>9, <1>10

\* Dropping a job leaves the table alone.
LEMMA DropKeepsInv ==
  ASSUME QueueInv, NEW w \in Worker, RecordFails(w) \/ Abandon(w)
  PROVE  QueueInv'
<1> USE DEF QueueInv
<1>1. /\ jobs' = jobs /\ Rows' = Rows
      /\ held' = [held EXCEPT ![w] = 0]
      /\ storeOpen' = storeOpen /\ cancelled' = cancelled
      /\ Faults \/ cancelled
      /\ Holding(w)
  BY DEF RecordFails, Abandon, Rows
<1>2. held \in [Worker -> Nat]
  BY DEF QueueTypeOK
<1>3. QueueTypeOK'
  BY <1>1, <1>2, RowsKept DEF QueueTypeOK
<1>4. ~OtherOpens => HeldIsRunning' /\ JobHeldOnce'
  BY <1>1, <1>2 DEF HeldIsRunning, JobHeldOnce, Holding
<1> QED
  BY <1>1, <1>3, <1>4 DEF RunningIsHeld

\* Cancel, Close and Crash leave the table as it is.
LEMMA StopKeepsInv == QueueInv /\ (Cancel \/ Close \/ Crash) => QueueInv'
<1> SUFFICES ASSUME QueueInv, Cancel \/ Close \/ Crash PROVE QueueInv'
  OBVIOUS
<1> USE DEF QueueInv
<1>1. jobs' = jobs /\ Rows' = Rows
  BY DEF Cancel, Close, Crash, Rows
<1>2. QueueTypeOK'
  <2>1. held' = held \/ held' = [w \in Worker |-> 0]
    BY DEF Cancel, Close, Crash
  <2>2. held' \in [Worker -> Nat] /\ \A w \in Worker : held'[w] \in Rows \cup {0}
    BY <2>1 DEF QueueTypeOK
  <2>3. storeOpen' \in BOOLEAN /\ cancelled' \in BOOLEAN
    BY DEF Cancel, Close, Crash, QueueTypeOK
  <2> QED
    BY <1>1, <2>2, <2>3, RowsKept DEF QueueTypeOK
<1>3. ~storeOpen' => \A w \in Worker : ~Holding(w)'
  BY DEF Cancel, Close, Crash, Holding
<1>4. HeldIsRunning /\ JobHeldOnce => HeldIsRunning' /\ JobHeldOnce'
  BY <1>1 DEF Cancel, Close, Crash, HeldIsRunning, JobHeldOnce, Holding
<1>5. ~storeOpen' \/ cancelled'
  BY DEF Cancel, Close, Crash
<1>6. RunningIsHeld'
  BY <1>5 DEF RunningIsHeld
<1> QED
  BY <1>2, <1>3, <1>4, <1>6

\* Another process's reset spoils what is known of held rows, and nothing else.
LEMMA OtherOpenKeepsInv == QueueInv /\ OtherOpen => QueueInv'
<1> SUFFICES ASSUME QueueInv, OtherOpen PROVE QueueInv'
  OBVIOUS
<1> USE DEF QueueInv
<1>1. jobs \in Seq(Job)
  BY DEF QueueTypeOK
<1>2. /\ jobs' \in Seq(Job)
      /\ Rows' = Rows
      /\ \A j \in Rows : jobs'[j].key = jobs[j].key /\ jobs'[j].status # "running"
  BY <1>1, ResetTable DEF OtherOpen, Rows
<1>3. QueueTypeOK'
  BY <1>2, RowsKept DEF QueueTypeOK, OtherOpen
<1> QED
  BY <1>2, <1>3 DEF OtherOpen, RunningIsHeld, Holding

LEMMA QueueInvNext == QueueInv /\ [QueueNext]_queueVars => QueueInv'
<1> SUFFICES ASSUME QueueInv, [QueueNext]_queueVars PROVE QueueInv'
  OBVIOUS
<1>1. ASSUME NEW k \in Key, Enqueue(k) PROVE QueueInv'
  BY <1>1, EnqueueKeepsInv
<1>2. ASSUME NEW w \in Worker, WorkerStep(w) PROVE QueueInv'
  <2>1. CASE ClaimNext(w)
    BY <2>1, ClaimKeepsInv
  <2>2. ASSUME NEW outcome \in Ended, RecordResult(w, outcome) PROVE QueueInv'
    BY <2>2, RecordKeepsInv
  <2>3. CASE RecordFails(w) \/ Abandon(w)
    BY <2>3, DropKeepsInv
  <2> QED
    BY <1>2, <2>1, <2>2, <2>3 DEF WorkerStep
<1>3. CASE UNCHANGED queueVars
  BY <1>3 DEF queueVars, QueueInv, QueueTypeOK, Rows, Holding, HeldIsRunning,
              JobHeldOnce, RunningIsHeld
<1> QED
  BY <1>1, <1>2, <1>3, OpenKeepsInv, StopKeepsInv, OtherOpenKeepsInv DEF QueueNext

\* The table is well formed, and its invariant holds, in every run of the
\* daemon, with any number of workers (queue.go:19-121, daemon.go:40-63).
THEOREM QueueInvariance == QueueSpec => []QueueInv
<1> QED
  BY QueueInvInit, QueueInvNext, PTL DEF QueueSpec

\* Types, and the schema's UNIQUE constraint (queue.go:19-36).
THEOREM QueueTypeCorrect == QueueSpec => []QueueTypeOK
<1>1. QueueInv => QueueTypeOK
  BY DEF QueueInv
<1> QED
  BY <1>1, QueueInvariance, PTL

\* As long as no other process opens the database while the daemon runs, every
\* job is in at most one worker's hands and marked running there
\* (queue.go:86-92).
THEOREM ClaimsAreExclusive ==
  ASSUME ~OtherOpens
  PROVE  QueueSpec => [](JobHeldOnce /\ HeldIsRunning)
<1>1. QueueInv => JobHeldOnce /\ HeldIsRunning
  BY DEF QueueInv
<1> QED
  BY <1>1, QueueInvariance, PTL

\* As long as results can be stored, a row is running only while some worker is
\* on it, other processes' resets notwithstanding (daemon.go:52-63).
THEOREM NothingIsStuck ==
  ASSUME ~Faults
  PROVE  QueueSpec => []RunningIsHeld
<1>1. QueueInv => RunningIsHeld
  BY DEF QueueInv
<1> QED
  BY <1>1, QueueInvariance, PTL

-----------------------------------------------------------------------------
(* What a step leaves of the rows.                                           *)

LEMMA RowsStay ==
  ASSUME QueueInv, [QueueNext]_queueVars
  PROVE  \A i \in Rows : i \in Rows' /\ jobs'[i].key = jobs[i].key
<1>1. jobs \in Seq(Job) /\ Rows = DOMAIN jobs /\ Rows' = DOMAIN jobs'
  BY DEF QueueInv, QueueTypeOK, Rows
<1>2. CASE jobs' = Reset(jobs)
  BY <1>1, <1>2, ResetTable
<1>3. ASSUME NEW k \in Key, jobs' = Inserted(k)
      PROVE  \A i \in Rows : i \in Rows' /\ jobs'[i] = jobs[i]
  BY <1>1, <1>3, InsertedRow
<1>4. ASSUME NEW n \in Rows, NEW s \in Status, jobs' = [jobs EXCEPT ![n].status = s]
      PROVE  \A i \in Rows : i \in Rows' /\ jobs'[i].key = jobs[i].key
  <2>1. n \in DOMAIN jobs
    BY <1>1
  <2>2. DOMAIN jobs' = DOMAIN jobs /\ \A i \in DOMAIN jobs : jobs'[i].key = jobs[i].key
    BY <1>1, <1>4, <2>1, StatusChange
  <2> QED
    BY <1>1, <2>2
<1>5. CASE jobs' = jobs
  BY <1>1, <1>5
<1>6. ASSUME NEW w \in Worker, ClaimNext(w)
      PROVE  \E n \in Rows, s \in Status : jobs' = [jobs EXCEPT ![n].status = s]
  BY <1>6 DEF ClaimNext, Pending, Status
<1>7. ASSUME NEW w \in Worker, NEW o \in Ended, RecordResult(w, o)
      PROVE  \E n \in Rows, s \in Status : jobs' = [jobs EXCEPT ![n].status = s]
  BY <1>7 DEF RecordResult, Status, Holding, QueueInv, QueueTypeOK
<1> QED
  BY <1>2, <1>3, <1>4, <1>5, <1>6, <1>7
     DEF QueueNext, queueVars, Open, Enqueue, WorkerStep, RecordFails, Abandon, Cancel,
         Close, Crash, OtherOpen

\* An end is for good, while nobody else opens the database.
LEMMA EndedStay ==
  ASSUME QueueInv, ~OtherOpens, [QueueNext]_queueVars,
         NEW i \in Rows, jobs[i].status \in Ended
  PROVE  jobs'[i] = jobs[i]
<1>1. jobs \in Seq(Job) /\ i \in DOMAIN jobs /\ jobs[i].status \notin {"pending", "running"}
  BY DEF QueueInv, QueueTypeOK, Rows, Ended
<1>2. CASE jobs' = Reset(jobs)
  BY <1>1, <1>2, ResetTable
<1>3. ASSUME NEW k \in Key, jobs' = Inserted(k) PROVE jobs'[i] = jobs[i]
  BY <1>1, <1>3, InsertedRow
<1>4. ASSUME NEW n \in DOMAIN jobs, n # i, NEW s \in Status,
             jobs' = [jobs EXCEPT ![n].status = s]
      PROVE  jobs'[i] = jobs[i]
  BY <1>1, <1>4, StatusChange
<1>5. ASSUME NEW w \in Worker, ClaimNext(w)
      PROVE  \E n \in DOMAIN jobs, s \in Status :
                n # i /\ jobs' = [jobs EXCEPT ![n].status = s]
  BY <1>1, <1>5 DEF ClaimNext, Pending, Status, Rows
<1>6. ASSUME NEW w \in Worker, NEW o \in Ended, RecordResult(w, o)
      PROVE  \E n \in DOMAIN jobs, s \in Status :
                n # i /\ jobs' = [jobs EXCEPT ![n].status = s]
  <2>1. held[w] \in DOMAIN jobs /\ jobs[held[w]].status = "running"
    BY <1>6 DEF RecordResult, Holding, QueueInv, QueueTypeOK, HeldIsRunning, Rows
  <2> QED
    BY <1>1, <1>6, <2>1 DEF RecordResult, Status
<1>7. CASE jobs' = jobs
  BY <1>7
<1> QED
  BY <1>2, <1>3, <1>4, <1>5, <1>6, <1>7
     DEF QueueNext, queueVars, Open, Enqueue, WorkerStep, RecordFails, Abandon, Cancel,
         Close, Crash, OtherOpen

-----------------------------------------------------------------------------
\* A step that keeps the rows and their keys, and neither ends a row nor
\* changes one that has ended, is none of the ledger's business.
LEMMA LedgerStutter ==
  ASSUME Rows' = Rows,
         \A j \in Rows : /\ jobs'[j].key = jobs[j].key
                         /\ jobs[j].status \in Ended => jobs'[j] = jobs[j]
                         /\ jobs'[j].status \in Ended => jobs[j].status \in Ended
  PROVE  KnownKeys' = KnownKeys /\ EndedKeys' = EndedKeys
<1>1. KnownKeys' = KnownKeys
  BY DEF KnownKeys
<1>2. {i \in Rows : jobs'[i].status \in Ended} = {i \in Rows : jobs[i].status \in Ended}
  OBVIOUS
<1>3. EndedKeys' = EndedKeys
  BY <1>2 DEF EndedKeys
<1> QED
  BY <1>1, <1>3

\* An insert admits the key.
LEMMA EnqueueAdmits ==
  ASSUME QueueInv, NEW k \in Key, Enqueue(k), ~Seen(k)
  PROVE  Ledger!Admit(k)
<1>1. jobs \in Seq(Job)
  BY DEF QueueInv, QueueTypeOK
<1>2. \A j \in Rows : j \in Rows' /\ jobs'[j] = jobs[j]
  BY <1>1, InsertedRow DEF Enqueue, Rows
<1>3. PICK n \in Rows' : /\ n \notin Rows
                         /\ Rows' = Rows \cup {n}
                         /\ jobs'[n] = [key |-> k, status |-> "pending"]
  BY <1>1, InsertedRow DEF Enqueue, Rows
<1>4. jobs'[n].key = k /\ jobs'[n].status \notin Ended
  BY <1>3 DEF Ended
<1>5. k \notin KnownKeys
  BY DEF KnownKeys, Seen
<1>6. KnownKeys' = KnownKeys \cup {k}
  BY <1>2, <1>3, <1>4 DEF KnownKeys
<1>7. {i \in Rows' : jobs'[i].status \in Ended} = {i \in Rows : jobs[i].status \in Ended}
  BY <1>2, <1>3, <1>4
<1>8. EndedKeys' = EndedKeys
  BY <1>2, <1>7 DEF EndedKeys
<1> QED
  BY <1>5, <1>6, <1>8 DEF Ledger!Admit

\* A result that is stored ends the key of a row that was running, so had not
\* ended; this is where another holder of the job would break the promise.
LEMMA RecordEnds ==
  ASSUME QueueInv, ~OtherOpens,
         NEW w \in Worker, NEW outcome \in Ended, RecordResult(w, outcome)
  PROVE  Ledger!End(jobs[held[w]].key, outcome)
<1> DEFINE i == held[w]
           k == jobs[i].key
<1>1. /\ jobs \in Seq(Job) /\ outcome \in Status
      /\ i \in Rows /\ i \in DOMAIN jobs
      /\ jobs[i].status = "running"
      /\ jobs' = [jobs EXCEPT ![i].status = outcome]
  BY DEF RecordResult, Holding, QueueInv, QueueTypeOK, HeldIsRunning, Rows, Status
<1> HIDE DEF i
<1>2. /\ Rows' = Rows
      /\ jobs'[i].status = outcome
      /\ \A j \in Rows : jobs'[j].key = jobs[j].key
      /\ \A j \in Rows : j # i => jobs'[j] = jobs[j]
  <2>1. /\ DOMAIN jobs' = DOMAIN jobs
        /\ jobs'[i].status = outcome
        /\ \A j \in DOMAIN jobs : jobs'[j].key = jobs[j].key
        /\ \A j \in DOMAIN jobs : j # i => jobs'[j] = jobs[j]
    BY <1>1, StatusChange
  <2> QED
    BY <2>1 DEF Rows
<1>3. k \in KnownKeys
  BY <1>1 DEF KnownKeys
<1>4. KnownKeys' = KnownKeys
  BY <1>2 DEF KnownKeys
<1>5. \A o \in Ended : <<k, o>> \notin EndedKeys
  <2> SUFFICES ASSUME NEW j \in Rows, jobs[j].status \in Ended, jobs[j].key = k
               PROVE  FALSE
    BY DEF EndedKeys
  <2>1. j = i
    BY <1>1 DEF QueueInv, QueueTypeOK
  <2> QED
    BY <1>1, <2>1 DEF Ended
<1>6. EndedKeys' = EndedKeys \cup {<<k, outcome>>}
  <2>1. {j \in Rows' : jobs'[j].status \in Ended}
           = {j \in Rows : jobs[j].status \in Ended} \cup {i}
    BY <1>1, <1>2
  <2>2. \A j \in Rows : jobs[j].status \in Ended => j # i /\ jobs'[j] = jobs[j]
    BY <1>1, <1>2 DEF Ended
  <2>3. <<jobs'[i].key, jobs'[i].status>> = <<k, outcome>>
    BY <1>1, <1>2
  <2> HIDE DEF k
  <2>4. ASSUME NEW e \in EndedKeys' PROVE e \in EndedKeys \cup {<<k, outcome>>}
    <3>1. PICK j \in {x \in Rows' : jobs'[x].status \in Ended} :
             e = <<jobs'[j].key, jobs'[j].status>>
      BY <2>4 DEF EndedKeys
    <3>2. CASE j = i
      BY <2>3, <3>1, <3>2
    <3>3. CASE j # i
      BY <2>1, <2>2, <3>1, <3>3 DEF EndedKeys
    <3> QED
      BY <3>2, <3>3
  <2>5. ASSUME NEW e \in EndedKeys PROVE e \in EndedKeys'
    <3>1. PICK j \in {x \in Rows : jobs[x].status \in Ended} :
             e = <<jobs[j].key, jobs[j].status>>
      BY <2>5 DEF EndedKeys
    <3>2. j \in {x \in Rows' : jobs'[x].status \in Ended} /\ jobs'[j] = jobs[j]
      BY <2>1, <2>2, <3>1
    <3> QED
      BY <3>1, <3>2 DEF EndedKeys
  <2>6. <<k, outcome>> \in EndedKeys'
    <3>1. i \in {x \in Rows' : jobs'[x].status \in Ended}
      BY <2>1
    <3> QED
      BY <2>3, <3>1 DEF EndedKeys
  <2> QED
    BY <2>4, <2>5, <2>6
<1> QED
  BY <1>3, <1>4, <1>5, <1>6 DEF Ledger!End, i

LEMMA LedgerStep ==
  ASSUME QueueInv, ~OtherOpens, [QueueNext]_queueVars
  PROVE  [Ledger!LedgerNext]_(Ledger!ledgerVars)
<1>1. jobs \in Seq(Job)
  BY DEF QueueInv, QueueTypeOK
<1>2. ASSUME KnownKeys' = KnownKeys, EndedKeys' = EndedKeys
      PROVE  UNCHANGED Ledger!ledgerVars
  BY <1>2 DEF Ledger!ledgerVars
<1>3. ASSUME UNCHANGED jobs PROVE UNCHANGED Ledger!ledgerVars
  <2>1. KnownKeys' = KnownKeys /\ EndedKeys' = EndedKeys
    BY <1>3, LedgerStutter DEF Rows
  <2> QED
    BY <1>2, <2>1
<1>4. CASE Open
  <2>1. jobs' = Reset(jobs) /\ DOMAIN jobs' = DOMAIN jobs
    BY <1>1, <1>4, ResetTable DEF Open
  <2>2. Rows' = Rows
    BY <2>1 DEF Rows
  <2>3. \A j \in Rows : /\ jobs'[j].key = jobs[j].key
                        /\ jobs[j].status \in Ended => jobs'[j] = jobs[j]
                        /\ jobs'[j].status \in Ended => jobs[j].status \in Ended
    BY <1>1, <2>1, ResetTable DEF Rows, Ended
  <2> QED
    BY <1>2, <2>2, <2>3, LedgerStutter
<1>5. ASSUME NEW k \in Key, Enqueue(k) PROVE [Ledger!LedgerNext]_(Ledger!ledgerVars)
  <2>1. CASE Seen(k)
    BY <1>3, <1>5, <2>1 DEF Enqueue, Inserted
  <2>2. CASE ~Seen(k)
    BY <1>5, <2>2, EnqueueAdmits DEF Ledger!LedgerNext
  <2> QED
    BY <2>1, <2>2
<1>6. ASSUME NEW w \in Worker, ClaimNext(w) PROVE UNCHANGED Ledger!ledgerVars
  <2>1. PICK i \in Rows : /\ jobs[i].status = "pending"
                          /\ jobs' = [jobs EXCEPT ![i].status = "running"]
    BY <1>6 DEF ClaimNext, Pending
  <2> DEFINE s == "running"
  <2>2. s \in Status /\ i \in DOMAIN jobs /\ jobs' = [jobs EXCEPT ![i].status = s]
    BY <2>1 DEF Rows, Status
  <2>3. s \notin Ended /\ jobs[i].status \notin Ended
    BY <2>1 DEF Ended
  <2> HIDE DEF s
  <2>4. /\ DOMAIN jobs' = DOMAIN jobs
        /\ jobs'[i].status = s
        /\ \A j \in DOMAIN jobs : jobs'[j].key = jobs[j].key
        /\ \A j \in DOMAIN jobs : j # i => jobs'[j] = jobs[j]
    BY <1>1, <2>2, StatusChange
  <2>5. Rows' = Rows
    BY <2>4 DEF Rows
  <2>6. \A j \in Rows : /\ jobs'[j].key = jobs[j].key
                        /\ jobs[j].status \in Ended => jobs'[j] = jobs[j]
                        /\ jobs'[j].status \in Ended => jobs[j].status \in Ended
    BY <2>3, <2>4 DEF Rows
  <2> QED
    BY <1>2, <2>5, <2>6, LedgerStutter
<1>7. ASSUME NEW w \in Worker, NEW outcome \in Ended, RecordResult(w, outcome)
      PROVE  Ledger!LedgerNext
  <2>1. jobs[held[w]].key \in Key
    <3>1. held[w] \in DOMAIN jobs
      BY <1>7 DEF RecordResult, Holding, QueueInv, QueueTypeOK, Rows
    <3>2. jobs[held[w]] \in Job
      BY <1>1, <3>1, LenProperties, ElementOfSeq
    <3> QED
      BY <3>2 DEF Job
  <2>2. Ledger!End(jobs[held[w]].key, outcome)
    BY <1>7, RecordEnds
  <2> QED
    BY <2>1, <2>2 DEF Ledger!LedgerNext
<1>8. ASSUME NEW w \in Worker, RecordFails(w) \/ Abandon(w) PROVE UNCHANGED jobs
  BY <1>8 DEF RecordFails, Abandon
<1>9. Cancel \/ Close \/ Crash \/ UNCHANGED queueVars => UNCHANGED jobs
  BY DEF Cancel, Close, Crash, queueVars
<1>10. ~OtherOpen
  BY DEF OtherOpen
<1> QED
  BY <1>3, <1>4, <1>5, <1>6, <1>7, <1>8, <1>9, <1>10 DEF QueueNext, WorkerStep

\* The queue keeps its promise: a file version is admitted once and ends at
\* most once, one way, across claims, late results, shutdowns, crashes and
\* restarts (queue.go:1-4, 56-59, 86-121) -- as long as no other process opens
\* the database while the daemon runs.
THEOREM QueueImplementsLedger ==
  ASSUME ~OtherOpens
  PROVE  QueueSpec => ImplementsLedger
<1>1. QueueInit => Ledger!LedgerInit
  <2>1. QueueInit => Rows = {}
    BY EmptySeq, LenProperties DEF QueueInit, Rows
  <2> QED
    BY <2>1 DEF Ledger!LedgerInit, KnownKeys, EndedKeys
<1>2. QueueInv /\ [QueueNext]_queueVars => [Ledger!LedgerNext]_(Ledger!ledgerVars)
  BY LedgerStep
<1> QED
  BY <1>1, <1>2, QueueInvariance, PTL DEF QueueSpec, ImplementsLedger, Ledger!LedgerSpec
=============================================================================
