------------------------------- MODULE Analyze -------------------------------
(***************************************************************************)
(* analyze.Walk: a goroutine walks the library and hands the files to a     *)
(* pool of workers, each probes a file and hands the outcome to the caller, *)
(* which tallies it. Both channels are unbuffered, so a send and its        *)
(* receive are one step; a channel is closed by the walking goroutine.      *)
(***************************************************************************)
EXTENDS Naturals

CONSTANTS File,    \* the video files the walk finds
          Worker,  \* the pool
          NoFile   \* no file in a worker's hands

ASSUME AnalyzeAssumption == NoFile \notin File /\ Worker # {}

VARIABLES
  walkAt,    \* the walking goroutine: "walk", then "wait" for the pool, then "done"
  left,      \* the files it has yet to send
  workerAt,  \* where each worker is
  file,      \* the file each worker has received
  callerAt,  \* the caller: "range" over the results, then "returned"
  tally      \* tally[f]: how often an outcome of f was counted, by kind

sweepVars == <<walkAt, left, workerAt, file, callerAt, tally>>

Kind == {"media", "error"}

PathsClosed   == walkAt # "walk"
ResultsClosed == walkAt = "done"

SweepInit ==
  /\ walkAt = "walk"
  /\ left = File
  /\ workerAt = [w \in Worker |-> "receive"]
  /\ file = [w \in Worker |-> NoFile]
  /\ callerAt = "range"
  /\ tally = [f \in File |-> [kind \in Kind |-> 0]]

-----------------------------------------------------------------------------
\* paths <- path, received by w.
HandOver(w, f) ==
  /\ walkAt = "walk" /\ f \in left
  /\ workerAt[w] = "receive"
  /\ left' = left \ {f}
  /\ workerAt' = [workerAt EXCEPT ![w] = "send"]
  /\ file' = [file EXCEPT ![w] = f]
  /\ UNCHANGED <<walkAt, callerAt, tally>>

\* Mutant: a worker quits at a file it cannot probe.
CollectOrQuit(w, kind) ==
  /\ callerAt = "range"
  /\ workerAt[w] = "send" /\ ~ResultsClosed
  /\ IF kind = "error"
     THEN workerAt' = [workerAt EXCEPT ![w] = "exited"] /\ UNCHANGED tally
     ELSE /\ workerAt' = [workerAt EXCEPT ![w] = "receive"]
          /\ tally' = [tally EXCEPT ![file[w]][kind] = @ + 1]
  /\ file' = [file EXCEPT ![w] = NoFile]
  /\ UNCHANGED <<walkAt, left, callerAt>>

\* The probe has answered, or failed: results <- outcome, received and counted.
Collect(w, kind) ==
  /\ callerAt = "range"
  /\ workerAt[w] = "send" /\ ~ResultsClosed
  /\ tally' = [tally EXCEPT ![file[w]][kind] = @ + 1]
  /\ workerAt' = [workerAt EXCEPT ![w] = "receive"]
  /\ file' = [file EXCEPT ![w] = NoFile]
  /\ UNCHANGED <<walkAt, left, callerAt>>

\* The worker's range over paths ends: workers.Done.
Exit(w) ==
  /\ workerAt[w] = "receive" /\ PathsClosed
  /\ workerAt' = [workerAt EXCEPT ![w] = "exited"]
  /\ UNCHANGED <<walkAt, left, file, callerAt, tally>>

\* The walk is over: close(paths).
ClosePaths ==
  /\ walkAt = "walk" /\ left = {}
  /\ walkAt' = "wait"
  /\ UNCHANGED <<left, workerAt, file, callerAt, tally>>

\* Mutant: results are closed as soon as every path was handed out.
CloseResultsEarly ==
  /\ walkAt = "wait"
  /\ walkAt' = "done"
  /\ UNCHANGED <<left, workerAt, file, callerAt, tally>>

\* workers.Wait, then close(results).
CloseResults ==
  /\ walkAt = "wait"
  /\ \A w \in Worker : workerAt[w] = "exited"
  /\ walkAt' = "done"
  /\ UNCHANGED <<left, workerAt, file, callerAt, tally>>

\* The range over results ends, and Walk returns the report and walkErr.
WalkReturns ==
  /\ callerAt = "range" /\ ResultsClosed
  /\ callerAt' = "returned"
  /\ UNCHANGED <<walkAt, left, workerAt, file, tally>>

SweepNext ==
  \/ \E w \in Worker : \/ \E f \in File : HandOver(w, f)
                       \/ \E kind \in Kind : Collect(w, kind)
                       \/ Exit(w)
  \/ ClosePaths
  \/ CloseResults
  \/ WalkReturns

SweepSpec == SweepInit /\ [][SweepNext]_sweepVars

\* Goroutines that can go on do; a probe answers.
FairSweepSpec == SweepSpec /\ WF_sweepVars(SweepNext)

-----------------------------------------------------------------------------
SweepTypeOK ==
  /\ walkAt \in {"walk", "wait", "done"}
  /\ left \subseteq File
  /\ workerAt \in [Worker -> {"receive", "send", "exited"}]
  /\ file \in [Worker -> File \cup {NoFile}]
  /\ callerAt \in {"range", "returned"}
  /\ tally \in [File -> [Kind -> Nat]]

\* How many outcomes of f were counted.
Tallied(f) == tally[f]["media"] + tally[f]["error"]

\* The report is complete when Walk returns: each file found is in it, as media
\* or as an error, exactly once (analyze.go:50-52 "A file
\* that fails to probe is recorded in Report.Errors rather than aborting the sweep").
ReportComplete == callerAt = "returned" => \A f \in File : Tallied(f) = 1

\* No worker sends on the closed results channel, which would panic, and none is
\* left behind blocked on it (analyze.go:80-82).
NoSendOnClosed == ResultsClosed => \A w \in Worker : workerAt[w] = "exited"

\* The inductive invariant: a file is with the walk, with one worker or in the
\* report, and the channels are closed in order.
InHand(f) == \E w \in Worker : file[w] = f

SweepInv ==
  /\ SweepTypeOK
  /\ \A w \in Worker : file[w] # NoFile <=> workerAt[w] = "send"
  /\ \A w, x \in Worker : file[w] # NoFile /\ file[w] = file[x] => w = x
  /\ \A f \in File :
       /\ Tallied(f) \in {0, 1}
       /\ Tallied(f) = 0 <=> (f \in left \/ InHand(f))
       /\ ~(f \in left /\ InHand(f))
  /\ PathsClosed => left = {}
  /\ \A w \in Worker : workerAt[w] = "exited" => PathsClosed
  /\ NoSendOnClosed
  /\ callerAt = "returned" => ResultsClosed

\* analyze.Walk returns: the pool, the walk and the caller never all wait for one
\* another.
SweepReturns == <>(callerAt = "returned")
=============================================================================
