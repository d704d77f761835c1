---------------------------- MODULE AnalyzeProofs ----------------------------
(***************************************************************************)
(* The report of analyze.Walk is complete, and no worker ever sends on the  *)
(* closed channel, for any library and any pool.                            *)
(***************************************************************************)
EXTENDS Analyze, TLAPS

\* The invariant holds at the start: every file is with the walk.
LEMMA SweepInvInit == SweepInit => SweepInv
<1> SUFFICES ASSUME SweepInit PROVE SweepInv
  OBVIOUS
<1> USE AnalyzeAssumption DEF SweepInit
<1>1. SweepTypeOK
  BY DEF SweepTypeOK, Kind
<1>2. \A w \in Worker : file[w] = NoFile /\ workerAt[w] = "receive"
  OBVIOUS
<1>3. ASSUME NEW f \in File PROVE Tallied(f) = 0 /\ f \in left /\ ~InHand(f)
  <2>1. tally[f] = [kind \in Kind |-> 0]
    OBVIOUS
  <2>2. tally[f]["media"] = 0 /\ tally[f]["error"] = 0
    BY <2>1 DEF Kind
  <2> QED
    BY <1>2, <2>2 DEF Tallied, InHand
<1> QED
  BY <1>1, <1>2, <1>3 DEF SweepInv, PathsClosed, ResultsClosed, NoSendOnClosed

\* A file handed over leaves the walk for the one worker that received it.
LEMMA HandOverKeepsInv ==
  ASSUME NEW w \in Worker, NEW f \in File, SweepInv, HandOver(w, f)
  PROVE  SweepInv'
<1> USE AnalyzeAssumption DEF HandOver
<1>1. SweepTypeOK'
  BY DEF SweepInv, SweepTypeOK
<1>2. \A x \in Worker : /\ file'[x] = (IF x = w THEN f ELSE file[x])
                        /\ workerAt'[x] = (IF x = w THEN "send" ELSE workerAt[x])
  BY DEF SweepInv, SweepTypeOK
<1>3. \A x \in Worker : file[x] # f
  BY DEF SweepInv, InHand
<1>4. f # NoFile /\ ~PathsClosed /\ ~PathsClosed'
  BY DEF PathsClosed
<1>5. \A x \in Worker : file'[x] # NoFile <=> workerAt'[x] = "send"
  BY <1>2, <1>4 DEF SweepInv
<1>6. \A x, y \in Worker : file'[x] # NoFile /\ file'[x] = file'[y] => x = y
  BY <1>2, <1>3 DEF SweepInv
<1>7. ASSUME NEW g \in File
      PROVE  /\ Tallied(g)' \in {0, 1}
             /\ Tallied(g)' = 0 <=> (g \in left' \/ InHand(g)')
             /\ ~(g \in left' /\ InHand(g)')
  <2>1. Tallied(g)' = Tallied(g)
    BY DEF Tallied
  <2>2. g \in left' <=> (g \in left /\ g # f)
    OBVIOUS
  <2>3. InHand(g)' <=> (InHand(g) \/ g = f)
    <3>1. file[w] = NoFile
      BY DEF SweepInv
    <3> QED
      BY <1>2, <3>1 DEF InHand
  <2> QED
    BY <2>1, <2>2, <2>3 DEF SweepInv
<1>8. \A x \in Worker : workerAt'[x] # "exited"
  BY <1>2, <1>4 DEF SweepInv
<1>9. NoSendOnClosed' /\ (callerAt' = "returned" => ResultsClosed')
  BY DEF SweepInv, NoSendOnClosed, ResultsClosed
<1> QED
  BY <1>1, <1>4, <1>5, <1>6, <1>7, <1>8, <1>9 DEF SweepInv

\* An outcome collected moves its file from the worker into the report.
LEMMA CollectKeepsInv ==
  ASSUME NEW w \in Worker, NEW kind \in Kind, SweepInv, Collect(w, kind)
  PROVE  SweepInv'
<1> USE AnalyzeAssumption DEF Collect
<1>1. PICK f \in File : f = file[w] /\ InHand(f)
  BY DEF SweepInv, SweepTypeOK, InHand
<1>2. Tallied(f) = 0 /\ f \notin left
  BY <1>1 DEF SweepInv
<1>3. SweepTypeOK'
  BY <1>1 DEF SweepInv, SweepTypeOK, Kind
<1>4. \A x \in Worker : /\ file'[x] = (IF x = w THEN NoFile ELSE file[x])
                        /\ workerAt'[x] = (IF x = w THEN "receive" ELSE workerAt[x])
  BY DEF SweepInv, SweepTypeOK
<1>5. Tallied(f)' = 1
  <2>1. tally \in [File -> [Kind -> Nat]]
    BY DEF SweepInv, SweepTypeOK
  <2>2. tally'[f] = [tally[f] EXCEPT ![kind] = @ + 1]
    BY <1>1, <2>1
  <2>3. /\ tally[f] \in [Kind -> Nat]
        /\ tally[f]["media"] \in Nat /\ tally[f]["error"] \in Nat
        /\ tally[f]["media"] + tally[f]["error"] = 0
    BY <1>1, <1>2, <2>1 DEF Kind, Tallied
  <2>4. CASE kind = "media"
    BY <2>2, <2>3, <2>4 DEF Tallied, Kind
  <2>5. CASE kind = "error"
    BY <2>2, <2>3, <2>5 DEF Tallied, Kind
  <2> QED
    BY <2>4, <2>5 DEF Kind
<1>6. \A g \in File : g # f => Tallied(g)' = Tallied(g)
  BY <1>1 DEF SweepInv, SweepTypeOK, Tallied, Kind
<1>7. \A g \in File : InHand(g)' <=> (InHand(g) /\ g # f)
  BY <1>1, <1>4 DEF InHand, SweepInv
<1>8. \A x \in Worker : file'[x] # NoFile <=> workerAt'[x] = "send"
  BY <1>4 DEF SweepInv
<1>9. \A x, y \in Worker : file'[x] # NoFile /\ file'[x] = file'[y] => x = y
  BY <1>4 DEF SweepInv
<1>10. ASSUME NEW g \in File
       PROVE  /\ Tallied(g)' \in {0, 1}
              /\ Tallied(g)' = 0 <=> (g \in left' \/ InHand(g)')
              /\ ~(g \in left' /\ InHand(g)')
  <2>1. CASE g = f
    <3>1. g \notin left' /\ ~InHand(g)'
      BY <1>2, <1>7, <2>1
    <3>2. Tallied(g)' = 1
      BY <1>5, <2>1
    <3> QED
      BY <3>1, <3>2
  <2>2. CASE g # f
    <3>1. Tallied(g)' = Tallied(g) /\ (InHand(g)' <=> InHand(g)) /\ left' = left
      BY <1>6, <1>7, <2>2
    <3> QED
      BY <3>1 DEF SweepInv
  <2> QED
    BY <2>1, <2>2
<1>11. /\ PathsClosed' => left' = {}
       /\ \A x \in Worker : workerAt'[x] = "exited" => PathsClosed'
       /\ NoSendOnClosed'
       /\ callerAt' = "returned" => ResultsClosed'
  BY <1>4 DEF SweepInv, PathsClosed, ResultsClosed, NoSendOnClosed
<1> QED
  BY <1>3, <1>8, <1>9, <1>10, <1>11 DEF SweepInv

\* Closing, exiting and returning touch no file.
LEMMA QuietStepKeepsInv ==
  ASSUME SweepInv,
         UNCHANGED <<left, file, tally>>,
         SweepTypeOK',
         \A w \in Worker : workerAt'[w] = "send" <=> workerAt[w] = "send",
         PathsClosed => PathsClosed',
         PathsClosed' => left = {},
         \A w \in Worker : workerAt'[w] = "exited" => PathsClosed',
         NoSendOnClosed',
         callerAt' = "returned" => ResultsClosed'
  PROVE  SweepInv'
<1>1. \A f \in File : Tallied(f)' = Tallied(f) /\ (InHand(f)' <=> InHand(f))
  BY DEF Tallied, InHand
<1> QED
  BY <1>1 DEF SweepInv

\* Every step keeps the invariant.
LEMMA SweepInvNext == SweepInv /\ [SweepNext]_sweepVars => SweepInv'
<1> SUFFICES ASSUME SweepInv, [SweepNext]_sweepVars PROVE SweepInv'
  OBVIOUS
<1> USE DEF PathsClosed, ResultsClosed, NoSendOnClosed
<1>1. ASSUME NEW w \in Worker, NEW f \in File, HandOver(w, f) PROVE SweepInv'
  BY <1>1, HandOverKeepsInv
<1>2. ASSUME NEW w \in Worker, NEW kind \in Kind, Collect(w, kind) PROVE SweepInv'
  BY <1>2, CollectKeepsInv
<1>3. ASSUME NEW w \in Worker, Exit(w) PROVE SweepInv'
  <2>1. SweepTypeOK'
    BY <1>3 DEF SweepInv, SweepTypeOK, Exit
  <2>2. \A x \in Worker : workerAt'[x] = (IF x = w THEN "exited" ELSE workerAt[x])
    BY <1>3 DEF SweepInv, SweepTypeOK, Exit
  <2> QED
    BY <1>3, <2>1, <2>2, QuietStepKeepsInv DEF SweepInv, Exit
<1>4. CASE ClosePaths
  <2>1. SweepTypeOK'
    BY <1>4 DEF SweepInv, SweepTypeOK, ClosePaths
  <2> QED
    BY <1>4, <2>1, QuietStepKeepsInv DEF SweepInv, ClosePaths
<1>5. CASE CloseResults
  <2>1. SweepTypeOK'
    BY <1>5 DEF SweepInv, SweepTypeOK, CloseResults
  <2> QED
    BY <1>5, <2>1, QuietStepKeepsInv DEF SweepInv, CloseResults
<1>6. CASE WalkReturns
  <2>1. SweepTypeOK'
    BY <1>6 DEF SweepInv, SweepTypeOK, WalkReturns
  <2> QED
    BY <1>6, <2>1, QuietStepKeepsInv DEF SweepInv, WalkReturns
<1>7. CASE UNCHANGED sweepVars
  BY <1>7 DEF sweepVars, SweepInv, SweepTypeOK, Tallied, InHand
<1> QED
  BY <1>1, <1>2, <1>3, <1>4, <1>5, <1>6, <1>7 DEF SweepNext

\* The inductive invariant holds throughout: a file is in one place at a time
\* and the channels are closed in order.
THEOREM SweepInvariance == SweepSpec => []SweepInv
<1> QED
  BY SweepInvInit, SweepInvNext, PTL DEF SweepSpec

\* Each file found is in the report exactly once when analyze.Walk returns.
THEOREM ReportIsComplete == SweepSpec => []ReportComplete
<1>1. SweepInv => ReportComplete
  <2> SUFFICES ASSUME SweepInv, callerAt = "returned", NEW f \in File
               PROVE  Tallied(f) = 1
    BY DEF ReportComplete
  <2>1. left = {} /\ \A w \in Worker : workerAt[w] = "exited"
    BY DEF SweepInv, NoSendOnClosed, PathsClosed, ResultsClosed
  <2>2. ~InHand(f)
    BY <2>1, AnalyzeAssumption DEF SweepInv, InHand
  <2> QED
    BY <2>1, <2>2 DEF SweepInv
<1> QED
  BY <1>1, SweepInvariance, PTL

\* No worker is ever about to send on the closed results channel.
THEOREM ChannelsCloseInOrder == SweepSpec => []NoSendOnClosed
<1>1. SweepInv => NoSendOnClosed
  BY DEF SweepInv
<1> QED
  BY <1>1, SweepInvariance, PTL
=============================================================================
