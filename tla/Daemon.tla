-------------------------------- MODULE Daemon --------------------------------
(***************************************************************************)
(* `mtx serve`: the queue, the workers that run ProcessFile on what they    *)
(* claim, the periodic scan that feeds the queue, and its clients: HTTP     *)
(* requests, `mtx status` and `mtx enqueue` on the same database.           *)
(*                                                                          *)
(* The steps of Queue and Pipeline are taken as they are; this module says  *)
(* which of them go together, and adds the scan.                            *)
(***************************************************************************)
EXTENDS Pipeline, Naturals, Sequences

CONSTANTS
  OtherOpens,  \* may other mtx processes open the database?
  Upgrades     \* may Sonarr or Radarr put a new release at a path?

ASSUME DaemonAssumption == OtherOpens \in BOOLEAN /\ Upgrades \in BOOLEAN

VARIABLES
  jobs, held, storeOpen,  \* as in Queue
  scanAt,                 \* where the scanning goroutine is
  listed                  \* the directory entries it has yet to visit

queueState == <<jobs, held, storeOpen>>
scanVars   == <<scanAt, listed>>
daemonVars == <<pipelineVars, queueState, scanVars>>

\* A job's key is path, size and mtime: the path and the content found there.
FileVersion  == [path : Path, content : Content]
VersionAt(p) == [path |-> p, content |-> disk[p]]

Q == INSTANCE Queue WITH Key <- FileVersion

ScanAt == {"off", "list", "visit", "sleep"}

DaemonInit == /\ PipelineInit
              /\ Q!QueueInit
              /\ scanAt = "off"
              /\ listed = {}

-----------------------------------------------------------------------------
\* Open the store, start the workers and the scan.
Start ==
  /\ Q!Open
  /\ scanAt' = "list"
  /\ UNCHANGED <<fileVars, pc, callVars, out, owed, listed>>

\* A worker that finds a pending job processes the file at the job's path,
\* whether or not that is still the version that was queued.
Take(w) ==
  /\ Q!ClaimNext(w)
  /\ Begin(w, jobs[held'[w]].key.path)
  /\ UNCHANGED scanVars

Work(w) == ProcessStep(w) /\ UNCHANGED <<queueState, scanVars>>

\* Mutant: a result without an error is recorded as done.
SettleSkippedAsDone(w) ==
  /\ pc[w] = "return"
  /\ \/ Q!RecordResult(w, IF result[w] = "failed" THEN "failed" ELSE "done")
     \/ Q!RecordFails(w) \/ Q!Abandon(w)
  /\ Finish(w)
  /\ UNCHANGED scanVars

\* The result is recorded, unless the context was cancelled in the meantime.
Settle(w) ==
  /\ pc[w] = "return"
  /\ Q!RecordResult(w, result[w]) \/ Q!RecordFails(w) \/ Q!Abandon(w)
  /\ Finish(w)
  /\ UNCHANGED scanVars

\* WalkDir reads the directory, then visits what it read: every file of a video
\* extension that can still be stat'ed is enqueued, in the order of names (here
\* any order). A failure is noted and the walk goes on, cancelled or not.
ListLibrary ==
  /\ scanAt = "list"
  /\ scanAt' = "visit"
  /\ listed' = {p \in Path : disk[p] # NoFile /\ IsVideo(p)}
  /\ UNCHANGED <<pipelineVars, queueState>>

Visit(p) ==
  /\ scanAt = "visit" /\ p \in listed
  /\ listed' = listed \ {p}
  /\ \/ disk[p] # NoFile /\ Q!Enqueue(VersionAt(p))
     \/ (disk[p] = NoFile \/ Faults) /\ UNCHANGED <<queueState, cancelled>>
  /\ UNCHANGED <<fileVars, pc, callVars, out, owed, scanAt>>

ScanDone ==
  /\ scanAt = "visit" /\ listed = {}
  /\ scanAt' = "sleep"
  /\ UNCHANGED <<pipelineVars, queueState, listed>>

\* The scan interval has passed.
NextScan ==
  /\ scanAt = "sleep"
  /\ scanAt' = "list"
  /\ UNCHANGED <<pipelineVars, queueState, listed>>

\* Mutant: what sleep reports is ignored.
ScanGoesOn ==
  /\ scanAt = "sleep" /\ cancelled
  /\ scanAt' = "list"
  /\ UNCHANGED <<pipelineVars, queueState, listed>>

\* Only a sleeping scan notices the cancellation.
ScanEnds ==
  /\ scanAt = "sleep" /\ cancelled
  /\ scanAt' = "off"
  /\ UNCHANGED <<pipelineVars, queueState, listed>>

\* A webhook or POST /enqueue names a path, whatever its extension; or `mtx
\* enqueue` a video file. A file that cannot be stat'ed is refused.
Request(p) ==
  /\ disk[p] # NoFile
  /\ Q!Enqueue(VersionAt(p))
  /\ UNCHANGED <<fileVars, pc, callVars, out, owed, scanVars>>

-----------------------------------------------------------------------------
Shutdown == /\ Q!Cancel
            /\ UNCHANGED <<fileVars, pc, callVars, out, owed, scanVars>>

\* Run has returned: the workers and the scan have. The store is closed.
Stop == /\ Q!Close
        /\ scanAt = "off"
        /\ UNCHANGED <<pipelineVars, scanVars>>

\* The daemon dies with everything it was doing; files and table stay.
Die ==
  /\ Crashes
  /\ Q!Crash
  /\ pc' = [w \in Worker |-> "idle"]
  /\ path' = [w \in Worker |-> NoPath]
  /\ media' = [w \in Worker |-> NoFile]
  /\ input' = [w \in Worker |-> NoFile]
  /\ out' = [w \in Worker |-> NoPath]
  /\ result' = [w \in Worker |-> "done"]
  /\ scanAt' = "off"
  /\ listed' = {}
  /\ UNCHANGED <<fileVars, owed>>

\* `mtx status` or `mtx enqueue` opens the queue.
OtherProcess == /\ Q!OtherOpen
                /\ UNCHANGED <<pipelineVars, scanVars>>

\* Sonarr or Radarr imports a release at a path, replacing what is there; an
\* original it replaces is no longer mtx's to keep, unless it is quarantined.
Import(p, v) ==
  /\ Upgrades
  /\ \A q \in Path : disk[q] # Orig(v) /\ vault[q] # Orig(v)
  /\ \A o \in owed : o[2] # v
  /\ disk' = [disk EXCEPT ![p] = Orig(v)]
  /\ out' = Relinked(p, NoPath)
  /\ owed' = {o \in owed : o[1] # p \/ vault[p] = Orig(o[2])} \cup {<<p, v>>}
  /\ UNCHANGED <<vault, pc, callVars, cancelled, queueState, scanVars>>

Scanning == ListLibrary \/ (\E p \in Path : Visit(p)) \/ ScanDone \/ NextScan

DaemonNext ==
  \/ Start
  \/ \E w \in Worker : Take(w) \/ Work(w) \/ Settle(w)
  \/ Scanning
  \/ ScanEnds
  \/ \E p \in Path : Request(p)
  \/ Shutdown
  \/ Stop
  \/ Die
  \/ OtherProcess
  \/ \E p \in LibPath, v \in Version : Import(p, v)

DaemonSpec == DaemonInit /\ [][DaemonNext]_daemonVars

\* Workers and the scan are goroutines that loop, a call of ProcessFile runs on,
\* main goes on when Run has returned. The scan's select between the timer and
\* the cancellation picks either when both are ready, hence the strong fairness.
DaemonFairness ==
  /\ \A w \in Worker : /\ WF_daemonVars(Take(w))
                       /\ WF_daemonVars(Work(w))
                       /\ WF_daemonVars(Settle(w))
  /\ WF_daemonVars(Scanning)
  /\ SF_daemonVars(ScanEnds)
  /\ WF_daemonVars(Stop)

FairDaemonSpec == DaemonSpec /\ DaemonFairness

-----------------------------------------------------------------------------
DaemonTypeOK == /\ PipelineTypeOK
                /\ Q!QueueTypeOK
                /\ scanAt \in ScanAt
                /\ listed \subseteq Path

\* Never two encodes into one temp file. The pipeline takes no lock: it relies on
\* the queue to claim a job once, on a restart to begin after everyone stopped,
\* and on the policy to turn down what the scan finds of mtx's own files
\* (pipeline.go:65, queue.go:86).
OneEncodePerStem ==
  \A w, x \in Worker :
    (pc[w] \in Encoding /\ pc[x] \in Encoding /\ path[w].stem = path[x].stem) => w = x

\* The history is true: only originals were ever "done", each of them is in the
\* quarantine and its encode in the library (queue.go:103, pipeline.go:94-101).
DoneIsTrue ==
  \A i \in Q!Rows : jobs[i].status = "done" =>
     LET p == jobs[i].key.path
         c == jobs[i].key.content
     IN IsOriginal(c) /\ vault[p] = c /\ disk[FinalOf(p)] = Enc(c.of)

\* Every original found in the library that the policy selects is replaced, or
\* its encode was tried and not smaller, however often the daemon is shut down
\* and started, if it finally stays up (daemon.go:26-28 "so nothing is lost").
EveryFileIsEncoded ==
  <>[](storeOpen /\ ~cancelled) =>
    \A p \in LibPath, v \in Version :
      (disk[p] = Orig(v) /\ Worthwhile(Orig(v))) ~>
         \/ disk[FinalOf(p)] = Enc(v)
         \/ \E i \in Q!Rows : /\ jobs[i].key = [path |-> p, content |-> Orig(v)]
                              /\ jobs[i].status = "skipped"

\* Once cancelled, the daemon stops and closes the queue (daemon.go:26 "Run blocks
\* until ctx is canceled, then returns once workers have stopped").
ShutdownCompletes == (storeOpen /\ cancelled) ~> ~storeOpen

\* queue.go:56-58, of the jobs a dead process left running: "they are safe to
\* retry because originals are only ever swapped after a verified encode". A
\* retried job that fails would have left the original where it was.
RetriesAreSafe ==
  \A i \in Q!Rows :
    (jobs[i].status = "failed" /\ IsOriginal(jobs[i].key.content)) =>
       disk[jobs[i].key.path] = jobs[i].key.content

-----------------------------------------------------------------------------
(***************************************************************************)
(* The inductive invariant, when nobody upgrades files and the daemon is    *)
(* the only opener of its database. This is what makes OneCallPerFilm true  *)
(* without an Exclusive caller.                                             *)
(***************************************************************************)

\* A worker is busy with the path of the row it holds; when it found an original
\* there, that is the version the row was queued for.
WorkersInv ==
  \A w \in Worker :
    /\ Busy(w) <=> Q!Holding(w)
    /\ Busy(w) => path[w] = jobs[held[w]].key.path
    /\ IsOriginal(media[w]) => jobs[held[w]].key.content = media[w]

\* The versions queued for a film's path are the film, and what was there later.
RowsInv ==
  \A i \in Q!Rows :
    LET p == jobs[i].key.path
        c == jobs[i].key.content
    IN /\ IsOriginal(c) => c = Initial[p]
       /\ Initial[p] # NoFile /\ disk[p] = Initial[p] => c = Initial[p]

DaemonInv ==
  /\ DaemonTypeOK
  /\ OneEncodePerStem
  /\ ReportInv
  /\ Q!QueueInv
  /\ WorkersInv
  /\ RowsInv
  /\ DoneIsTrue
=============================================================================
