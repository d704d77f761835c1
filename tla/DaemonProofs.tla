----------------------------- MODULE DaemonProofs -----------------------------
(***************************************************************************)
(* The daemon: what the queue and the pipeline promise, together.           *)
(*                                                                          *)
(* First, without any assumption, that every step of the daemon is a step   *)
(* of the queue: what QueueProofs proves of a queue holds of the daemon's.  *)
(* Then that the queue keeps an original in one call's hands, which is what *)
(* PipelineProofs assumes of a caller.                                      *)
(***************************************************************************)
EXTENDS Daemon, PipelineProofs

\* The lemmas and theorems of QueueProofs for the daemon's queue.
QP == INSTANCE QueueProofs WITH Key <- FileVersion

-----------------------------------------------------------------------------
(* QueueProofs speaks of the same queue as Daemon.                           *)

LEMMA SameTables ==
  /\ Q!Job = QP!Job /\ Q!Status = QP!Status /\ Q!Ended = QP!Ended /\ Q!Rows = QP!Rows
  /\ \A t : Q!Reset(t) = QP!Reset(t)
  /\ \A k : (Q!Seen(k) <=> QP!Seen(k)) /\ Q!Inserted(k) = QP!Inserted(k)
BY DEF Q!Job, QP!Job, Q!Status, QP!Status, Q!Ended, QP!Ended, Q!Rows, QP!Rows,
       Q!Reset, QP!Reset, Q!Seen, QP!Seen, Q!Inserted, QP!Inserted

LEMMA SameInv == /\ Q!QueueInv <=> QP!QueueInv
                 /\ Q!QueueInv' <=> QP!QueueInv'
BY DEF Q!QueueInv, QP!QueueInv, Q!QueueTypeOK, QP!QueueTypeOK, Q!Job, QP!Job,
       Q!Status, QP!Status, Q!Ended, QP!Ended, Q!Rows, QP!Rows, Q!Holding, QP!Holding,
       Q!HeldIsRunning, QP!HeldIsRunning, Q!JobHeldOnce, QP!JobHeldOnce,
       Q!RunningIsHeld, QP!RunningIsHeld

LEMMA SameInit == Q!QueueInit <=> QP!QueueInit
BY DEF Q!QueueInit, QP!QueueInit

LEMMA SameNext == [Q!QueueNext]_(Q!queueVars) <=> [QP!QueueNext]_(QP!queueVars)
BY DEF Q!queueVars, QP!queueVars, Q!QueueNext, QP!QueueNext, Q!Open, QP!Open,
       Q!Reset, QP!Reset, Q!Enqueue, QP!Enqueue, Q!Inserted, QP!Inserted,
       Q!Seen, QP!Seen, Q!Rows, QP!Rows, Q!WorkerStep, QP!WorkerStep,
       Q!ClaimNext, QP!ClaimNext, Q!Holding, QP!Holding, Q!Pending, QP!Pending,
       Q!RecordResult, QP!RecordResult, Q!RecordFails, QP!RecordFails,
       Q!Abandon, QP!Abandon, Q!Ended, QP!Ended, Q!Cancel, QP!Cancel,
       Q!Close, QP!Close, Q!Crash, QP!Crash, Q!OtherOpen, QP!OtherOpen

LEMMA SameLedger == Q!ImplementsLedger <=> QP!ImplementsLedger
<1>1. Q!Ledger!LedgerInit <=> QP!Ledger!LedgerInit
  BY DEF Q!Ledger!LedgerInit, QP!Ledger!LedgerInit, Q!KnownKeys, QP!KnownKeys,
         Q!EndedKeys, QP!EndedKeys, Q!Rows, QP!Rows, Q!Ended, QP!Ended
<1>2. [Q!Ledger!LedgerNext]_(Q!Ledger!ledgerVars)
        <=> [QP!Ledger!LedgerNext]_(QP!Ledger!ledgerVars)
  BY DEF Q!Ledger!LedgerNext, QP!Ledger!LedgerNext, Q!Ledger!Admit, QP!Ledger!Admit,
         Q!Ledger!End, QP!Ledger!End, Q!Ledger!ledgerVars, QP!Ledger!ledgerVars,
         Q!KnownKeys, QP!KnownKeys, Q!EndedKeys, QP!EndedKeys,
         Q!Rows, QP!Rows, Q!Ended, QP!Ended
<1> QED
  BY <1>1, <1>2, PTL
     DEF Q!ImplementsLedger, QP!ImplementsLedger, Q!Ledger!LedgerSpec, QP!Ledger!LedgerSpec

LEMMA QueueInvInit == Q!QueueInit => Q!QueueInv
BY SameInit, SameInv, QP!QueueInvInit, DaemonAssumption, PipelineAssumption

LEMMA QueueInvNext ==
  ASSUME Q!QueueInv, [Q!QueueNext]_(Q!queueVars)
  PROVE  Q!QueueInv'
BY SameInv, SameNext, QP!QueueInvNext, DaemonAssumption, PipelineAssumption

-----------------------------------------------------------------------------
(* The table.                                                                *)

\* A row's key is a file version; a held row is a row.
LEMMA RowFacts ==
  ASSUME Q!QueueInv
  PROVE  /\ \A i \in Q!Rows : /\ jobs[i].key \in FileVersion /\ i # 0
                              /\ jobs[i].key.path \in Path /\ jobs[i].key.content \in Content
                              /\ jobs[i].key = [path |-> jobs[i].key.path,
                                                content |-> jobs[i].key.content]
         /\ \A i, j \in Q!Rows : jobs[i].key = jobs[j].key => i = j
         /\ \A w \in Worker : Q!Holding(w) => held[w] \in Q!Rows
         /\ held \in [Worker -> Nat]
<1>1. Q!QueueTypeOK
  BY DEF Q!QueueInv
<1>2. jobs \in Seq(Q!Job) /\ held \in [Worker -> Nat]
  BY <1>1 DEF Q!QueueTypeOK
<1>3. Q!Rows = 1..Len(jobs) /\ Len(jobs) \in Nat /\ \A i \in Q!Rows : jobs[i] \in Q!Job
  BY <1>2 DEF Q!Rows
<1>4. \A i \in Q!Rows : jobs[i].key \in FileVersion /\ i # 0
  BY <1>3 DEF Q!Job
<1> QED
  BY <1>1, <1>2, <1>4 DEF FileVersion, Q!QueueTypeOK, Q!Holding

\* Rows stay, with their keys.
LEMMA RowsStay ==
  ASSUME Q!QueueInv, [Q!QueueNext]_(Q!queueVars)
  PROVE  \A i \in Q!Rows : i \in DOMAIN jobs' /\ jobs'[i].key = jobs[i].key
<1>1. \A i \in QP!Rows : i \in QP!Rows' /\ jobs'[i].key = jobs[i].key
  BY SameInv, SameNext, QP!RowsStay, DaemonAssumption, PipelineAssumption
<1> QED
  BY <1>1 DEF Q!Rows, QP!Rows

-----------------------------------------------------------------------------
(* Types, whatever happens to the files and the database.                    *)

\* What keeps the pipeline's variables in their types.
TypesInv == /\ PipelineTypeOK
            /\ \A w \in Worker : /\ Busy(w) => path[w] \in Path
                                 /\ pc[w] \in {"encoding", "copying"} => input[w] # NoFile

LEMMA ContentTypes ==
  ASSUME NEW c \in Content \cup {NoFile}, c # NoFile
  PROVE  /\ Part(c.of) \in Content /\ [of |-> c.of, gen |-> "enc"] \in Content
         /\ [of |-> c.of, gen |-> "part"] \in Content
         /\ Part(c.of) # NoFile
BY NoFileAssumption DEF Content, Part

LEMMA TempTypes ==
  ASSUME NEW p \in Path
  PROVE  TempOf(p) \in Path /\ FinalOf(p) \in Path /\ p # NoPath
BY NoFileAssumption DEF Path, LibExt, TempOf, FinalOf, NoPath

LEMMA RelinkTypes ==
  ASSUME out \in [Worker -> Path \cup {NoPath}], NEW from, NEW to \in Path \cup {NoPath}
  PROVE  Relinked(from, to) \in [Worker -> Path \cup {NoPath}]
BY DEF Relinked

LEMMA ProcessStepTypes ==
  ASSUME TypesInv, NEW w \in Worker, ProcessStep(w)
  PROVE  TypesInv'
<1> USE DEF TypesInv
<1>1. PipelineTypeOK
  OBVIOUS
<1>2. Busy(w) /\ path[w] \in Path
  BY DEF Busy, ProcessStep, ProbeFails, Probe, EncodeRefused, StartEncode, EncodeFails,
         EncodeDone, VerifyFails, NotSmaller, Verified, QuarantineByRename, QuarantineFails,
         StartCopy, CopyDone, CopyFails, CloseFails, Unlink, UnlinkFails, Install,
         InstallFails, Cleanup
<1>3. /\ Temp(w) \in Path /\ FinalOf(path[w]) \in Path /\ path[w] # NoPath
      /\ disk[path[w]] \in Content \cup {NoFile}
      /\ input[w] \in Content \cup {NoFile}
  BY <1>1, <1>2, TempTypes DEF PipelineTypeOK, Temp
<1>4. CASE \/ ProbeFails(w) \/ Probe(w)
           \/ EncodeRefused(w) \/ EncodeFails(w) \/ VerifyFails(w) \/ NotSmaller(w)
           \/ Verified(w) \/ QuarantineFails(w) \/ UnlinkFails(w) \/ InstallFails(w)
  <2>1. /\ \E l \in {"return", "encode", "cleanup", "quarantine"} : pc' = [pc EXCEPT ![w] = l]
        /\ media' = media \/ media' = [media EXCEPT ![w] = disk[path[w]]]
        /\ result' = result \/ \E r \in Outcome : result' = [result EXCEPT ![w] = r]
        /\ out' = out \/ out' = [out EXCEPT ![w] = NoPath]
        /\ UNCHANGED <<disk, vault, path, input, cancelled, owed>>
    BY <1>4 DEF ProbeFails, Probe, EncodeRefused, EncodeFails, VerifyFails, NotSmaller,
                Verified, QuarantineFails, UnlinkFails, InstallFails, Return, Conclude,
                Goto, Outcome, fileVars, callVars
  <2> QED
    BY <1>1, <1>2, <1>3, <2>1 DEF PipelineTypeOK, PC, Encoding, Swapping, Busy
<1>5. CASE StartEncode(w)
  <2>1. /\ input' = [input EXCEPT ![w] = disk[path[w]]] /\ disk[path[w]] # NoFile
        /\ disk' = [disk EXCEPT ![Temp(w)] = Part(disk[path[w]].of)]
        /\ out' = [out EXCEPT ![w] = Temp(w)] /\ pc' = [pc EXCEPT ![w] = "encoding"]
        /\ UNCHANGED <<vault, path, media, result, cancelled, owed>>
    BY <1>5 DEF StartEncode, Goto
  <2>2. Part(disk[path[w]].of) \in Content
    BY <1>3, <2>1, ContentTypes
  <2> QED
    BY <1>1, <1>2, <1>3, <2>1, <2>2 DEF PipelineTypeOK, PC, Encoding, Busy
<1>6. CASE EncodeDone(w)
  <2>1. input[w] \in Content /\ input[w] # NoFile
    BY <1>3, <1>6 DEF EncodeDone
  <2>2. /\ [of |-> input[w].of, gen |-> "enc"] \in Content
        /\ [of |-> input[w].of, gen |-> "part"] \in Content
    BY <2>1, ContentTypes
  <2>3. disk' \in [Path -> Content \cup {NoFile}]
    <3>1. \/ disk' = disk
          \/ \E gen \in {"enc", "part"} :
               disk' = [disk EXCEPT ![out[w]] = [of |-> input[w].of, gen |-> gen]]
      BY <1>6 DEF EncodeDone
    <3> QED
      BY <1>1, <2>2, <3>1 DEF PipelineTypeOK
  <2>4. /\ out' = [out EXCEPT ![w] = NoPath] /\ pc' = [pc EXCEPT ![w] = "verify"]
        /\ UNCHANGED <<vault, path, media, input, result, cancelled, owed>>
    BY <1>6 DEF EncodeDone, Goto
  <2> QED
    BY <1>1, <1>2, <2>3, <2>4 DEF PipelineTypeOK, PC, Encoding, Busy
<1>7. CASE StartCopy(w)
  <2>1. /\ input' = [input EXCEPT ![w] = disk[path[w]]] /\ disk[path[w]] # NoFile
        /\ vault' = [vault EXCEPT ![path[w]] = Part(disk[path[w]].of)]
        /\ pc' = [pc EXCEPT ![w] = "copying"]
        /\ UNCHANGED <<disk, path, media, result, out, cancelled, owed>>
    BY <1>7 DEF StartCopy, Goto
  <2>2. Part(disk[path[w]].of) \in Content
    BY <1>3, <2>1, ContentTypes
  <2> QED
    BY <1>1, <1>2, <1>3, <2>1, <2>2 DEF PipelineTypeOK, PC, Encoding, Swapping, Busy
<1>8. CASE CopyDone(w) \/ CopyFails(w) \/ CloseFails(w)
  <2>1. input[w] \in Content /\ input[w] # NoFile
    BY <1>3, <1>8 DEF CopyDone, CopyFails, CloseFails
  <2>2. Part(input[w].of) \in Content
    BY <2>1, ContentTypes
  <2>3. /\ \E c \in {NoFile, input[w], Part(input[w].of)} :
             vault' = [vault EXCEPT ![path[w]] = c]
        /\ \E l \in {"unlink", "cleanup"} : pc' = [pc EXCEPT ![w] = l]
        /\ result' = result \/ result' = [result EXCEPT ![w] = "failed"]
        /\ UNCHANGED <<disk, path, media, input, out, cancelled, owed>>
    BY <1>8 DEF CopyDone, CopyFails, CloseFails, Conclude, Goto, callVars
  <2>4. vault' \in [Path -> Content \cup {NoFile}]
    BY <1>1, <1>3, <2>1, <2>2, <2>3 DEF PipelineTypeOK
  <2> QED
    BY <1>1, <1>2, <2>3, <2>4 DEF PipelineTypeOK, PC, Encoding, Swapping, Outcome, Busy
<1>9. CASE QuarantineByRename(w) \/ Unlink(w) \/ Install(w) \/ Cleanup(w)
  <2>1. /\ vault' = vault \/ vault' = [vault EXCEPT ![path[w]] = disk[path[w]]]
        /\ \/ UNCHANGED <<disk, out>>
           \/ \E p \in {path[w], Temp(w)} : disk' = [disk EXCEPT ![p] = NoFile]
           \/ disk' = [disk EXCEPT ![FinalOf(path[w])] = disk[Temp(w)], ![Temp(w)] = NoFile]
        /\ out' = out \/ \E from, to \in Path \cup {NoPath} : out' = Relinked(from, to)
        /\ \E l \in {"install", "cleanup", "return"} : pc' = [pc EXCEPT ![w] = l]
        /\ result' = result \/ result' = [result EXCEPT ![w] = "done"]
        /\ UNCHANGED <<path, media, input, cancelled, owed>>
    BY <1>3, <1>9, <1>2 DEF QuarantineByRename, Unlink, Install, Cleanup, Remove, Rename,
                      Conclude, Goto, callVars
  <2>2. disk' \in [Path -> Content \cup {NoFile}] /\ vault' \in [Path -> Content \cup {NoFile}]
    <3> DEFINE f == FinalOf(path[w])
               t == Temp(w)
    <3>1. f \in Path /\ t \in Path
      BY <1>3
    <3>2. \/ disk' = disk
          \/ \E p \in Path : disk' = [disk EXCEPT ![p] = NoFile]
          \/ disk' = [disk EXCEPT ![f] = disk[t], ![t] = NoFile]
      BY <1>2, <1>3, <2>1
    <3> HIDE DEF f, t
    <3> QED
      BY <1>1, <1>2, <2>1, <3>1, <3>2 DEF PipelineTypeOK
  <2>3. out' \in [Worker -> Path \cup {NoPath}]
    BY <1>1, <2>1, RelinkTypes DEF PipelineTypeOK
  <2>4. /\ pc' \in [Worker -> PC] /\ result' \in [Worker -> Outcome]
        /\ pc'[w] \in {"install", "cleanup", "return"}
        /\ \A x \in Worker \ {w} : pc'[x] = pc[x]
    BY <1>1, <2>1 DEF PipelineTypeOK, PC, Encoding, Swapping, Outcome
  <2> QED
    BY <1>1, <1>2, <2>1, <2>2, <2>3, <2>4 DEF PipelineTypeOK, Busy
<1> QED
  BY <1>4, <1>5, <1>6, <1>7, <1>8, <1>9 DEF ProcessStep

\* The types of everything, and what the queue keeps of its own.
TypedInv == TypesInv /\ Q!QueueInv /\ scanAt \in ScanAt /\ listed \subseteq Path

\* A daemon's step is a step of its queue, or none of the queue's business: what
\* it enqueues is a file version, and what it records is an end.
LEMMA StepOfQueue ==
  ASSUME TypedInv, [DaemonNext]_daemonVars
  PROVE  [Q!QueueNext]_(Q!queueVars)
<1>1. PipelineTypeOK
  BY DEF TypedInv, TypesInv
<1>2. CASE Start \/ Shutdown \/ Stop \/ Die \/ OtherProcess
  BY <1>2 DEF Start, Shutdown, Stop, Die, OtherProcess, Q!QueueNext
<1>3. ASSUME NEW w \in Worker, Take(w) PROVE Q!QueueNext
  BY <1>3 DEF Take, Q!QueueNext, Q!WorkerStep
<1>4. ASSUME NEW w \in Worker, Work(w) PROVE UNCHANGED Q!queueVars
  BY <1>4 DEF Work, queueState, Q!queueVars, ProcessStep, ProbeFails, Probe, EncodeRefused,
        StartEncode, EncodeFails, EncodeDone, VerifyFails, NotSmaller, Verified,
        QuarantineByRename, QuarantineFails, StartCopy, CopyDone, CopyFails, CloseFails,
        Unlink, UnlinkFails, Install, InstallFails, Cleanup
<1>5. ASSUME NEW w \in Worker, Settle(w) PROVE Q!QueueNext
  <2>1. result[w] \in Q!Ended
    BY <1>1 DEF PipelineTypeOK, Outcome, Q!Ended
  <2> QED
    BY <1>5, <2>1 DEF Settle, Q!QueueNext, Q!WorkerStep
<1>6. ASSUME NEW p \in Path, disk[p] # NoFile PROVE VersionAt(p) \in FileVersion
  BY <1>1, <1>6 DEF PipelineTypeOK, VersionAt, FileVersion
<1>7. ASSUME NEW p \in Path, Request(p) PROVE Q!QueueNext
  BY <1>6, <1>7 DEF Request, Q!QueueNext
<1>8. ASSUME NEW p \in Path, Visit(p) PROVE [Q!QueueNext]_(Q!queueVars)
  <2>1. CASE disk[p] # NoFile /\ Q!Enqueue(VersionAt(p))
    BY <1>6, <2>1 DEF Q!QueueNext
  <2>2. CASE UNCHANGED <<queueState, cancelled>>
    BY <2>2 DEF queueState, Q!queueVars
  <2> QED
    BY <1>8, <2>1, <2>2 DEF Visit
<1>9. CASE ListLibrary \/ ScanDone \/ NextScan \/ ScanEnds \/ UNCHANGED daemonVars
  BY <1>9 DEF ListLibrary, ScanDone, NextScan, ScanEnds, daemonVars, pipelineVars,
              queueState, Q!queueVars
<1>10. ASSUME NEW p \in LibPath, NEW v \in Version, Import(p, v) PROVE UNCHANGED Q!queueVars
  BY <1>10 DEF Import, queueState, Q!queueVars
<1> QED
  BY <1>2, <1>3, <1>4, <1>5, <1>7, <1>8, <1>9, <1>10 DEF DaemonNext, Scanning

LEMMA TakeBegins ==
  ASSUME Q!QueueInv, NEW w \in Worker, Take(w)
  PROVE  \E i \in Q!Rows : /\ held' = [held EXCEPT ![w] = i] /\ held'[w] = i
                           /\ held[w] = 0
                           /\ jobs[i].status = "pending"
                           /\ jobs' = [jobs EXCEPT ![i].status = "running"]
                           /\ jobs[i].key.path \in Path
                           /\ Begin(w, jobs[i].key.path)
<1>1. PICK i \in Q!Rows : /\ held' = [held EXCEPT ![w] = i]
                          /\ jobs[i].status = "pending"
                          /\ jobs' = [jobs EXCEPT ![i].status = "running"]
  BY DEF Take, Q!ClaimNext, Q!Pending
<1>2. held'[w] = i
  BY <1>1, RowFacts
<1> QED
  BY <1>1, <1>2, RowFacts DEF Take, Q!ClaimNext, Q!Holding

\* Of the pipeline's variables, a step of the daemon changes no more than a step
\* of a worker does, but for a start, a death and an upgrade.
LEMMA StepOfPipeline ==
  ASSUME Q!QueueInv, [DaemonNext]_daemonVars
  PROVE  \/ [PipelineNext]_pipelineVars
         \/ Start
         \/ Die
         \/ \E p \in LibPath, v \in Version : Import(p, v)
<1>1. ASSUME NEW w \in Worker, Take(w) PROVE PipelineNext
  BY <1>1, TakeBegins DEF PipelineNext
<1>2. ASSUME NEW w \in Worker, Work(w) \/ Settle(w) PROVE PipelineNext
  BY <1>2 DEF Work, Settle, PipelineNext
<1>3. ASSUME NEW p \in Path, Request(p) \/ Visit(p) PROVE UNCHANGED pipelineVars
  BY <1>3 DEF Request, Visit, Q!Enqueue, pipelineVars
<1>4. CASE Shutdown
  BY <1>4 DEF Shutdown, Q!Cancel, Cancel, PipelineNext
<1>5. CASE \/ ListLibrary \/ ScanDone \/ NextScan \/ ScanEnds \/ Stop \/ OtherProcess
           \/ UNCHANGED daemonVars
  BY <1>5 DEF ListLibrary, ScanDone, NextScan, ScanEnds, Stop, OtherProcess, daemonVars
<1> QED
  BY <1>1, <1>2, <1>3, <1>4, <1>5 DEF DaemonNext, Scanning

LEMMA PipelineNextTypes ==
  ASSUME TypesInv, [PipelineNext]_pipelineVars
  PROVE  TypesInv'
<1> USE DEF TypesInv
<1>1. ASSUME NEW w \in Worker, NEW p \in Path, Begin(w, p) PROVE TypesInv'
  BY <1>1 DEF Begin, Goto, PipelineTypeOK, PC, Busy, fileVars
<1>2. ASSUME NEW w \in Worker, ProcessStep(w) PROVE TypesInv'
  BY <1>2, ProcessStepTypes
<1>3. ASSUME NEW w \in Worker, Finish(w) \/ Crash(w) PROVE TypesInv'
  BY <1>3 DEF Finish, Crash, Forget, Goto, PipelineTypeOK, PC, Outcome, Busy, fileVars
<1>4. CASE Cancel \/ UNCHANGED pipelineVars
  BY <1>4 DEF Cancel, pipelineVars, fileVars, callVars, PipelineTypeOK, Busy
<1> QED
  BY <1>1, <1>2, <1>3, <1>4 DEF PipelineNext

LEMMA TypedInvInit == DaemonInit => TypedInv
<1> SUFFICES ASSUME DaemonInit PROVE TypedInv
  OBVIOUS
<1>1. PipelineTypeOK
  BY PipelineInvInit DEF DaemonInit, PipelineInv
<1> QED
  BY <1>1, QueueInvInit
     DEF DaemonInit, PipelineInit, TypedInv, TypesInv, Busy, ScanAt

LEMMA TypedInvNext ==
  ASSUME TypedInv, [DaemonNext]_daemonVars
  PROVE  TypedInv'
<1>1. Q!QueueInv' /\ Q!QueueInv
  BY StepOfQueue, QueueInvNext DEF TypedInv
<1>2. scanAt' \in ScanAt /\ listed' \subseteq Path
  BY DEF TypedInv, DaemonNext, Scanning, Start, Take, Work, Settle, ListLibrary, Visit,
         ScanDone, NextScan, ScanEnds, Request, Shutdown, Stop, Die, OtherProcess, Import,
         scanVars, daemonVars, ScanAt
<1>3. TypesInv /\ PipelineTypeOK
  BY DEF TypedInv, TypesInv
<1>4. ASSUME Start PROVE TypesInv'
  BY <1>3, <1>4 DEF Start, Q!Open, TypesInv, PipelineTypeOK, fileVars, callVars, Busy
<1>5. ASSUME Die PROVE TypesInv'
  BY <1>3, <1>5
     DEF Die, Q!Crash, TypesInv, PipelineTypeOK, PC, Outcome, fileVars, Busy
<1>6. ASSUME NEW p \in LibPath, NEW v \in Version, Import(p, v) PROVE TypesInv'
  <2>1. /\ disk' = [disk EXCEPT ![p] = Orig(v)] /\ out' = Relinked(p, NoPath)
        /\ owed' \subseteq owed \cup {<<p, v>>}
        /\ UNCHANGED <<vault, pc, callVars, cancelled>>
    BY <1>6 DEF Import
  <2>2. Orig(v) \in Content /\ p \in Path
    BY ContentFacts, PathFacts
  <2>3. out' \in [Worker -> Path \cup {NoPath}]
    BY <1>3, <2>1, RelinkTypes DEF PipelineTypeOK
  <2> QED
    BY <1>3, <2>1, <2>2, <2>3 DEF TypesInv, PipelineTypeOK, callVars, Busy
<1>7. TypesInv'
  BY <1>1, <1>3, <1>4, <1>5, <1>6, StepOfPipeline, PipelineNextTypes
<1> QED
  BY <1>1, <1>2, <1>7 DEF TypedInv

LEMMA DaemonTyped == DaemonSpec => []TypedInv
<1>1. TypedInv /\ [DaemonNext]_daemonVars => TypedInv'
  BY TypedInvNext
<1> QED
  BY <1>1, TypedInvInit, PTL DEF DaemonSpec

\* The types of the daemon, upgrades, deaths and other processes or not
\* (daemon.go:26-63, pipeline.go:54-102, queue.go:19-36).
THEOREM DaemonTypeCorrect == DaemonSpec => []DaemonTypeOK
<1>1. TypedInv => DaemonTypeOK
  BY DEF TypedInv, TypesInv, DaemonTypeOK, Q!QueueInv
<1> QED
  BY <1>1, DaemonTyped, PTL

\* The daemon, its scan, its shutdowns, deaths and clients use the queue as the
\* queue is meant to be used: every run of the daemon is a run of Queue, so what
\* holds of every queue holds of it (daemon.go:40-63, queue.go:50-121).
THEOREM DaemonImplementsQueue == DaemonSpec => Q!QueueSpec
<1>1. DaemonInit => Q!QueueInit
  BY DEF DaemonInit
<1>2. TypedInv /\ [DaemonNext]_daemonVars => [Q!QueueNext]_(Q!queueVars)
  BY StepOfQueue
<1> QED
  BY <1>1, <1>2, DaemonTyped, PTL DEF DaemonSpec, Q!QueueSpec

\* What the daemon's history tells of a file version is written once, across
\* shutdowns, deaths and retries, upgrades of the files notwithstanding, as long
\* as no other process opens the database (queue.go:1-4).
THEOREM DaemonKeepsLedger ==
  ASSUME ~OtherOpens
  PROVE  DaemonSpec => Q!ImplementsLedger
<1>1. Q!QueueSpec => QP!QueueSpec
  BY SameInit, SameNext, PTL DEF Q!QueueSpec, QP!QueueSpec
<1>2. QP!QueueSpec => QP!ImplementsLedger
  BY QP!QueueImplementsLedger, DaemonAssumption, PipelineAssumption
<1> QED
  BY <1>1, <1>2, DaemonImplementsQueue, SameLedger, PTL

-----------------------------------------------------------------------------
(* From here on, nobody replaces the library's files, and the daemon alone    *)
(* opens its database. A file version then is in one call's hands.            *)

\* What the daemon's invariant says of the parts.
LEMMA InvParts ==
  ASSUME DaemonInv
  PROVE  /\ PipelineInv /\ ReportInv /\ Q!QueueInv /\ PipelineTypeOK
         /\ WorkersInv /\ RowsInv /\ DoneIsTrue
         /\ TypedInv
<1>1. PipelineInv /\ PipelineTypeOK /\ \A w \in Worker : CallInv(w)
  BY DEF DaemonInv, ReportInv, PipelineInv
<1>2. TypesInv
  <2>1. ASSUME NEW w \in Worker, pc[w] \in {"encoding", "copying"} PROVE input[w] # NoFile
    BY <1>1, <2>1 DEF CallInv, IsOriginal, Encoding, Swapping
  <2> QED
    BY <1>1, <2>1 DEF TypesInv, CallInv
<1> QED
  BY <1>1, <1>2 DEF DaemonInv, DaemonTypeOK, TypedInv

\* An original that a probe finds is the version its worker's row was queued for.
LEMMA ProbeFindsVersion ==
  ASSUME DaemonInv, NEW w \in Worker, Probe(w), IsOriginal(disk[path[w]])
  PROVE  /\ Q!Holding(w) /\ path[w] \in LibPath
         /\ disk[path[w]] = Initial[path[w]]
         /\ jobs[held[w]].key = [path |-> path[w], content |-> Initial[path[w]]]
<1>1. Busy(w) /\ path[w] \in Path
  BY InvParts DEF Probe, Busy, PipelineInv, CallInv
<1>2. disk[path[w]] = Initial[path[w]] /\ Initial[path[w]] # NoFile
  BY <1>1, InvParts DEF PipelineInv, FilesInv, IsOriginal
<1>3. path[w] \in LibPath
  BY <1>1, <1>2, TempFacts
<1>4. Q!Holding(w) /\ held[w] \in Q!Rows /\ jobs[held[w]].key.path = path[w]
  BY <1>1, InvParts, RowFacts DEF WorkersInv
<1>5. jobs[held[w]].key.content = Initial[path[w]]
  BY <1>2, <1>4, InvParts DEF RowsInv
<1> QED
  BY <1>2, <1>3, <1>4, <1>5, InvParts, RowFacts

\* A worker with an original in its hands holds that original's row.
LEMMA HandsAndRows ==
  ASSUME DaemonInv, NEW w \in Worker, IsOriginal(media[w])
  PROVE  /\ Q!Holding(w) /\ path[w] \in LibPath /\ Initial[path[w]] # NoFile
         /\ media[w] = Initial[path[w]] /\ held[w] \in Q!Rows
         /\ jobs[held[w]].key = [path |-> path[w], content |-> Initial[path[w]]]
<1>1. CallInv(w)
  BY InvParts DEF PipelineInv
<1>2. Busy(w) /\ path[w] \in LibPath /\ media[w] = Initial[path[w]]
  BY <1>1 DEF CallInv, Busy, IsOriginal
<1>3. /\ Q!Holding(w) /\ held[w] \in Q!Rows
      /\ jobs[held[w]].key.path = path[w] /\ jobs[held[w]].key.content = media[w]
  BY <1>2, InvParts, RowFacts DEF WorkersInv
<1> QED
  BY <1>2, <1>3, InvParts, RowFacts DEF IsOriginal

\* A probe that finds an original finds one that no other call knows of.
LEMMA OneCallAtProbe ==
  ASSUME StemsDistinct, ~OtherOpens, DaemonInv, NEW w \in Worker, Probe(w)
  PROVE  OneCallPerFilm'
<1>1. path' = path /\ media' = [media EXCEPT ![w] = disk[path[w]]]
  BY DEF Probe
<1>2. ASSUME NEW x \in Worker, IsOriginal(media'[x])
      PROVE  /\ Q!Holding(x) /\ path[x] \in LibPath /\ Initial[path[x]] # NoFile
             /\ held[x] \in Q!Rows
             /\ jobs[held[x]].key = [path |-> path[x], content |-> Initial[path[x]]]
  <2>1. CASE x = w
    <3>1. IsOriginal(disk[path[w]])
      BY <1>1, <1>2, <2>1, InvParts DEF PipelineTypeOK
    <3> QED
      BY <2>1, <3>1, ProbeFindsVersion, InvParts, RowFacts DEF IsOriginal
  <2>2. CASE x # w
    <3>1. IsOriginal(media[x])
      BY <1>1, <1>2, <2>2, InvParts DEF PipelineTypeOK
    <3> QED
      BY <3>1, HandsAndRows
  <2> QED
    BY <2>1, <2>2
<1>3. ASSUME NEW x \in Worker, NEW y \in Worker, IsOriginal(media'[x]), IsOriginal(media'[y]),
             path[x].stem = path[y].stem
      PROVE  x = y
  <2>1. path[x] = path[y]
    BY <1>2, <1>3 DEF StemsDistinct
  <2>2. /\ Q!Holding(x) /\ held[x] \in Q!Rows /\ held[y] \in Q!Rows
        /\ jobs[held[x]].key = jobs[held[y]].key
    BY <1>2, <1>3, <2>1
  <2>3. held[x] = held[y]
    BY <2>2, InvParts, RowFacts
  <2> QED
    BY <2>2, <2>3, InvParts DEF Q!QueueInv, Q!JobHeldOnce
<1> QED
  BY <1>1, <1>3 DEF OneCallPerFilm

-----------------------------------------------------------------------------
(* The pipeline's invariants hold of the daemon's workers.                    *)

\* What a start leaves alone, and what a death leaves.
LEMMA StartLeaves ==
  Start => UNCHANGED <<fileVars, pc, callVars, out, owed>> /\ cancelled' \in BOOLEAN
BY DEF Start, Q!Open

LEMMA DieLeaves ==
  Die => /\ UNCHANGED <<disk, vault, owed, cancelled>>
         /\ \A w \in Worker : /\ pc'[w] = "idle" /\ path'[w] = NoPath /\ media'[w] = NoFile
                              /\ out'[w] = NoPath /\ held'[w] = 0
BY DEF Die, Q!Crash, fileVars

\* A daemon's step, of the pipeline: a worker's step, a start or a death.
LEMMA DaemonStep ==
  ASSUME ~Upgrades, DaemonInv, [DaemonNext]_daemonVars
  PROVE  [PipelineNext]_pipelineVars \/ Start \/ Die
BY InvParts, StepOfPipeline DEF Import

LEMMA PipelineInvKept ==
  ASSUME StemsDistinct, ~Upgrades, ~OtherOpens, DaemonInv, [DaemonNext]_daemonVars
  PROVE  PipelineInv'
<1>1. CASE [PipelineNext]_pipelineVars
  BY <1>1, InvParts, OneCallAtProbe, PipelineInvNext
<1>2. ASSUME Start PROVE PipelineInv'
  BY <1>2, InvParts, StartLeaves, ContextKeepsInv
<1>3. ASSUME Die PROVE PipelineInv'
  <2>1. PipelineTypeOK'
    BY InvParts, TypedInvNext DEF TypedInv, TypesInv
  <2>2. \A w \in Worker : CallInv(w)'
    BY <1>3, DieLeaves DEF CallInv, Busy, IsOriginal, Encoding, Swapping
  <2>3. AloneOnStem' /\ OneCallPerFilm'
    BY <1>3, DieLeaves DEF AloneOnStem, OneCallPerFilm, Busy, IsOriginal
  <2> QED
    BY <1>3, <2>1, <2>2, <2>3, DieLeaves, InvParts, QuietStep
<1> QED
  BY <1>1, <1>2, <1>3, DaemonStep

LEMMA StepOnFiles ==
  ASSUME ~Upgrades, DaemonInv, [DaemonNext]_daemonVars
  PROVE  FilesStep
<1>1. CASE [PipelineNext]_pipelineVars
  BY <1>1, InvParts, StepsOnFiles
<1>2. ASSUME Start PROVE FilesStep
  BY <1>2, StartLeaves DEF FilesStep, Quiet, fileVars, callVars
<1>3. ASSUME Die PROVE FilesStep
  BY <1>3, DieLeaves DEF FilesStep, Quiet
<1> QED
  BY <1>1, <1>2, <1>3, DaemonStep

LEMMA ReportInvKept ==
  ASSUME StemsDistinct, ~Upgrades, ~OtherOpens, DaemonInv, [DaemonNext]_daemonVars
  PROVE  ReportInv'
<1>1. PipelineInv'
  BY PipelineInvKept
<1>2. CASE [PipelineNext]_pipelineVars
  BY <1>1, <1>2, InvParts, ReportInvNext
<1>3. ASSUME Start, NEW w \in Worker PROVE ReportOf(w)'
  BY <1>3, StartLeaves, InvParts, ReportKept DEF CallKept, fileVars, callVars
<1>4. ASSUME Die, NEW w \in Worker PROVE ReportOf(w)'
  BY <1>4, DieLeaves DEF ReportOf
<1> QED
  BY <1>1, <1>2, <1>3, <1>4, DaemonStep DEF ReportInv

-----------------------------------------------------------------------------
(* Rows and workers.                                                          *)

\* A film's path that shows its original has always done so.
LEMMA OriginalsStay ==
  ASSUME DaemonInv, FilesStep, NEW p \in Path, Initial[p] # NoFile, disk'[p] = Initial[p]
  PROVE  disk[p] = Initial[p]
<1>1. p \in LibPath /\ IsOriginal(Initial[p])
  BY TempFacts, InitialFacts
<1>2. CASE Quiet
  BY <1>2 DEF Quiet
<1>3. ASSUME NEW w \in Worker, FileStep(w) PROVE disk[p] = Initial[p]
  <2>1. ~IsOriginal(Enc(media[w].of))
    BY <1>3, InvParts, OwnFacts, ContentFacts DEF FileStep, Alone
  <2>2. disk'[p] = disk[p]
    BY <1>1, <1>3, <2>1 DEF FileStep, Aside, Copies, Moves, Elsewhere, Replaces
  <2> QED
    BY <2>2
<1> QED
  BY <1>2, <1>3 DEF FilesStep

\* A row that was not there before is the version found at some path, and pending.
LEMMA RowsAfter ==
  ASSUME TypedInv, [DaemonNext]_daemonVars, NEW i \in DOMAIN jobs', i \notin Q!Rows
  PROVE  \E p \in Path : /\ disk[p] # NoFile /\ UNCHANGED disk
                         /\ jobs'[i] = [key |-> VersionAt(p), status |-> "pending"]
<1>1. /\ jobs \in Seq(Q!Job) /\ jobs \in Seq(QP!Job) /\ Q!Rows = DOMAIN jobs
      /\ PipelineTypeOK
  BY SameTables DEF TypedInv, TypesInv, Q!QueueInv, Q!QueueTypeOK, Q!Rows
<1>2. ASSUME DOMAIN jobs' = DOMAIN jobs PROVE FALSE
  BY <1>1, <1>2
<1>3. ASSUME Start \/ OtherProcess PROVE FALSE
  <2>1. jobs' = Q!Reset(jobs)
    BY <1>3 DEF Start, OtherProcess, Q!Open, Q!OtherOpen
  <2> QED
    BY <1>2, <2>1 DEF Q!Reset
<1>4. ASSUME NEW w \in Worker, Take(w) PROVE FALSE
  BY <1>2, <1>4 DEF Take, Q!ClaimNext
<1>5. ASSUME NEW w \in Worker, Settle(w) PROVE FALSE
  BY <1>2, <1>5 DEF Settle, Q!RecordResult, Q!RecordFails, Q!Abandon
<1>6. ASSUME UNCHANGED jobs PROVE FALSE
  BY <1>2, <1>6
<1>7. ASSUME NEW p \in Path, disk[p] # NoFile, Q!Enqueue(VersionAt(p)), UNCHANGED disk
      PROVE  jobs'[i] = [key |-> VersionAt(p), status |-> "pending"]
  <2>1. VersionAt(p) \in FileVersion /\ jobs' = QP!Inserted(VersionAt(p))
    BY <1>1, <1>7, SameTables DEF PipelineTypeOK, VersionAt, FileVersion, Q!Enqueue
  <2>2. /\ QP!Seen(VersionAt(p)) => jobs' = jobs
        /\ ~QP!Seen(VersionAt(p)) => \E n \in DOMAIN jobs' :
              /\ n \notin QP!Rows
              /\ DOMAIN jobs' = QP!Rows \cup {n}
              /\ jobs'[n] = [key |-> VersionAt(p), status |-> "pending"]
    BY <1>1, <2>1, QP!InsertedRow, DaemonAssumption, PipelineAssumption
  <2>3. ~QP!Seen(VersionAt(p))
    BY <1>6, <2>2
  <2> QED
    BY <2>2, <2>3, SameTables
<1>8. CASE \E p \in Path : Request(p)
  BY <1>7, <1>8 DEF Request, fileVars
<1>9. CASE \E p \in Path : Visit(p)
  BY <1>6, <1>7, <1>9 DEF Visit, queueState, fileVars
<1> QED
  BY <1>3, <1>4, <1>5, <1>6, <1>8, <1>9
     DEF DaemonNext, Scanning, Work, ListLibrary, ScanDone, NextScan, ScanEnds, Shutdown,
         Stop, Die, Import, Q!Cancel, Q!Close, Q!Crash, queueState, daemonVars

LEMMA RowsInvKept ==
  ASSUME ~Upgrades, DaemonInv, [DaemonNext]_daemonVars
  PROVE  RowsInv'
<1>1. FilesStep
  BY StepOnFiles
<1>2. ASSUME NEW i \in Q!Rows
      PROVE  LET p == jobs'[i].key.path
                 c == jobs'[i].key.content
             IN /\ IsOriginal(c) => c = Initial[p]
                /\ Initial[p] # NoFile /\ disk'[p] = Initial[p] => c = Initial[p]
  <2>1. /\ jobs'[i].key = jobs[i].key /\ jobs[i].key.path \in Path
    BY InvParts, StepOfQueue, RowsStay, RowFacts
  <2> QED
    BY <1>1, <2>1, InvParts, OriginalsStay DEF RowsInv
<1>3. ASSUME NEW i \in DOMAIN jobs', i \notin Q!Rows
      PROVE  LET p == jobs'[i].key.path
                 c == jobs'[i].key.content
             IN /\ IsOriginal(c) => c = Initial[p]
                /\ Initial[p] # NoFile /\ disk'[p] = Initial[p] => c = Initial[p]
  <2>1. PICK p \in Path : /\ disk[p] # NoFile /\ UNCHANGED disk
                          /\ jobs'[i] = [key |-> VersionAt(p), status |-> "pending"]
    BY <1>3, InvParts, RowsAfter
  <2>2. jobs'[i].key.path = p /\ jobs'[i].key.content = disk[p]
    BY <2>1 DEF VersionAt
  <2>3. IsOriginal(disk[p]) => disk[p] = Initial[p]
    BY InvParts DEF PipelineInv, FilesInv
  <2> QED
    BY <2>1, <2>2, <2>3
<1> QED
  BY <1>2, <1>3 DEF RowsInv, Q!Rows

\* A step of ProcessFile begins and ends in a call; a probe alone looks at a file.
LEMMA InTheCall ==
  ASSUME DaemonInv, NEW w \in Worker, ProcessStep(w)
  PROVE  Busy(w) /\ Busy(w)' /\ (media' = media \/ Probe(w))
<1>1. PipelineTypeOK
  BY InvParts
<1>2. Busy(w) /\ (media' = media \/ Probe(w))
  BY DEF Busy, ProcessStep, ProbeFails, EncodeRefused, StartEncode, EncodeFails,
         EncodeDone, VerifyFails, NotSmaller, Verified, QuarantineByRename, QuarantineFails,
         StartCopy, CopyDone, CopyFails, CloseFails, Unlink, UnlinkFails, Install,
         InstallFails, Cleanup, callVars, Probe
<1>3. \E l \in PC \ {"idle"} : pc' = [pc EXCEPT ![w] = l]
  BY DEF ProcessStep, ProbeFails, Probe, EncodeRefused, StartEncode, EncodeFails,
         EncodeDone, VerifyFails, NotSmaller, Verified, QuarantineByRename, QuarantineFails,
         StartCopy, CopyDone, CopyFails, CloseFails, Unlink, UnlinkFails, Install,
         InstallFails, Cleanup, Return, Conclude, Goto, PC, Encoding, Swapping
<1> QED
  BY <1>1, <1>2, <1>3 DEF Busy, PipelineTypeOK

LEMMA WorkersInvKept ==
  ASSUME ~Upgrades, DaemonInv, [DaemonNext]_daemonVars
  PROVE  WorkersInv'
<1>1. /\ PipelineTypeOK /\ PipelineInv /\ WorkersInv
      /\ held \in [Worker -> Nat]
      /\ \A w \in Worker : Busy(w) => held[w] \in Q!Rows
  BY InvParts, RowFacts DEF WorkersInv
<1>2. \A i \in Q!Rows : jobs'[i].key = jobs[i].key
  BY InvParts, StepOfQueue, RowsStay
<1>3. \A w \in Worker : IsOriginal(media[w]) => Busy(w)
  BY <1>1 DEF PipelineInv, CallInv, Busy, IsOriginal
<1> DEFINE Inv(w) == /\ Busy(w)' <=> held'[w] # 0
                     /\ Busy(w)' => path'[w] = jobs'[held'[w]].key.path
                     /\ IsOriginal(media'[w]) => jobs'[held'[w]].key.content = media'[w]
           Kept(w) == pc'[w] = pc[w] /\ path'[w] = path[w] /\ media'[w] = media[w]
                      /\ held'[w] = held[w]
<1>4. ASSUME NEW w \in Worker, Kept(w) PROVE Inv(w)
  BY <1>1, <1>2, <1>3, <1>4 DEF WorkersInv, Q!Holding, Busy
<1>5. ASSUME NEW w \in Worker, Take(w), NEW x \in Worker PROVE Inv(x)
  <2>1. PICK i \in Q!Rows : /\ held' = [held EXCEPT ![w] = i] /\ held'[w] = i
                            /\ jobs[i].key.path \in Path
                            /\ Begin(w, jobs[i].key.path)
    BY <1>5, InvParts, TakeBegins
  <2>2. i # 0
    BY InvParts, RowFacts
  <2>3. /\ pc[w] = "idle" /\ pc'[w] = "probe" /\ path'[w] = jobs[i].key.path /\ media' = media
        /\ \A y \in Worker \ {w} : Kept(y)
    BY <1>1, <2>1 DEF Begin, Goto, PipelineTypeOK
  <2>4. ~IsOriginal(media'[w])
    BY <1>3, <2>3 DEF Busy
  <2>5. Inv(w)
    BY <1>2, <2>1, <2>2, <2>3, <2>4 DEF Busy
  <2> QED
    BY <1>4, <2>3, <2>5
<1>6. ASSUME NEW w \in Worker, Work(w), NEW x \in Worker PROVE Inv(x)
  <2>1. /\ ProcessStep(w) /\ UNCHANGED <<jobs, held, path>>
        /\ \A y \in Worker \ {w} : Kept(y)
    BY <1>1, <1>6, ProcessStepIsOwn DEF Work, queueState, StepOf, CallKept
  <2>2. Busy(w) /\ Busy(w)' /\ (media' = media \/ Probe(w))
    BY <2>1, InTheCall
  <2>3. ASSUME media' = media PROVE Inv(w)
    BY <1>1, <1>2, <2>1, <2>2, <2>3 DEF WorkersInv, Q!Holding
  <2>4. ASSUME Probe(w) PROVE Inv(w)
    <3>1. media'[w] = disk[path[w]]
      BY <1>1, <2>4 DEF Probe, PipelineTypeOK
    <3>2. ASSUME IsOriginal(media'[w]) PROVE jobs[held[w]].key.content = media'[w]
      <4>1. /\ disk[path[w]] = Initial[path[w]]
            /\ jobs[held[w]].key = [path |-> path[w], content |-> Initial[path[w]]]
        BY <2>4, <3>1, <3>2, ProbeFindsVersion
      <4> QED
        BY <3>1, <4>1
    <3> QED
      BY <1>1, <1>2, <2>1, <2>2, <3>2 DEF WorkersInv, Q!Holding
  <2> QED
    BY <1>4, <2>1, <2>2, <2>3, <2>4
<1>7. ASSUME NEW w \in Worker, Settle(w), NEW x \in Worker PROVE Inv(x)
  <2>1. /\ held' = [held EXCEPT ![w] = 0] /\ Finish(w)
    BY <1>7 DEF Settle, Q!RecordResult, Q!RecordFails, Q!Abandon
  <2>2. /\ held'[w] = 0 /\ pc'[w] = "idle" /\ media'[w] = NoFile
        /\ \A y \in Worker \ {w} : Kept(y)
    BY <1>1, <2>1 DEF Finish, Forget, Goto, PipelineTypeOK
  <2>3. Inv(w)
    BY <2>2 DEF Busy, IsOriginal
  <2> QED
    BY <1>4, <2>2, <2>3
<1>8. ASSUME Die, NEW x \in Worker PROVE Inv(x)
  BY <1>8, DieLeaves DEF Busy, IsOriginal
<1>9. ASSUME UNCHANGED <<pc, path, media, held>>, NEW x \in Worker PROVE Inv(x)
  BY <1>4, <1>9
<1>10. ASSUME \/ Start \/ Scanning \/ ScanEnds \/ (\E p \in Path : Request(p))
              \/ Shutdown \/ Stop \/ OtherProcess \/ UNCHANGED daemonVars
       PROVE  UNCHANGED <<pc, path, media, held>>
  BY <1>10 DEF Start, Scanning, ListLibrary, Visit, ScanDone, NextScan, ScanEnds, Request,
        Shutdown, Stop, OtherProcess, Q!Open, Q!Enqueue, Q!Cancel, Q!Close, Q!OtherOpen,
        daemonVars, pipelineVars, callVars, queueState
<1> HIDE DEF Kept
<1>11. \A x \in Worker : Inv(x)
  BY <1>5, <1>6, <1>7, <1>8, <1>9, <1>10 DEF DaemonNext, Import
<1> QED
  BY <1>11 DEF WorkersInv, Q!Holding

-----------------------------------------------------------------------------
(* The history.                                                               *)

\* A row is done since before, or its holder's result has just been recorded.
LEMMA DoneAfter ==
  ASSUME TypedInv, [DaemonNext]_daemonVars, NEW i \in Q!Rows, jobs'[i].status = "done"
  PROVE  \/ jobs[i].status = "done"
         \/ \E w \in Worker : /\ Settle(w) /\ held[w] = i /\ Q!Holding(w)
                              /\ pc[w] = "return" /\ result[w] = "done"
<1>1. /\ jobs \in Seq(Q!Job) /\ jobs \in Seq(QP!Job) /\ Q!Rows = DOMAIN jobs
  BY SameTables DEF TypedInv, Q!QueueInv, Q!QueueTypeOK, Q!Rows
<1>2. ASSUME NEW n \in DOMAIN jobs, NEW s \in Q!Status, jobs' = [jobs EXCEPT ![n].status = s]
      PROVE  /\ i # n => jobs'[i] = jobs[i]
             /\ i = n => s = "done"
  <2>1. s \in QP!Status
    BY SameTables
  <2> QED
    BY <1>1, <1>2, <2>1, QP!StatusChange, DaemonAssumption, PipelineAssumption
<1>3. ASSUME Start \/ OtherProcess PROVE jobs[i].status = "done"
  <2>1. jobs' = QP!Reset(jobs)
    BY <1>3, SameTables DEF Start, OtherProcess, Q!Open, Q!OtherOpen
  <2>2. /\ jobs[i].status # "running" => jobs'[i] = jobs[i]
        /\ jobs[i].status = "running" => jobs'[i].status = "pending"
    BY <1>1, <2>1, QP!ResetTable, DaemonAssumption, PipelineAssumption
  <2> QED
    BY <2>2
<1>4. ASSUME NEW w \in Worker, Take(w) PROVE jobs[i].status = "done"
  <2>1. PICK n \in Q!Rows : jobs' = [jobs EXCEPT ![n].status = "running"]
    BY <1>4, TakeBegins DEF TypedInv
  <2>2. "running" \in Q!Status
    BY DEF Q!Status
  <2> QED
    BY <1>1, <1>2, <2>1, <2>2
<1>5. ASSUME NEW w \in Worker, Settle(w)
      PROVE  \/ jobs[i].status = "done"
             \/ held[w] = i /\ Q!Holding(w) /\ pc[w] = "return" /\ result[w] = "done"
  <2>1. CASE jobs' = jobs
    BY <2>1
  <2>2. CASE Q!RecordResult(w, result[w])
    <3>1. /\ Q!Holding(w) /\ held[w] \in DOMAIN jobs /\ result[w] \in Q!Status
          /\ jobs' = [jobs EXCEPT ![held[w]].status = result[w]]
      BY <1>1, <2>2, RowFacts
         DEF TypedInv, TypesInv, PipelineTypeOK, Outcome, Q!RecordResult, Q!Status, Q!Ended
    <3>2. /\ i # held[w] => jobs'[i] = jobs[i]
          /\ i = held[w] => result[w] = "done"
      BY <1>2, <3>1
    <3> QED
      BY <1>5, <3>1, <3>2 DEF Settle
  <2> QED
    BY <1>5, <2>1, <2>2 DEF Settle, Q!RecordFails, Q!Abandon
<1>6. ASSUME NEW p \in Path, Q!Enqueue(VersionAt(p)), disk[p] # NoFile
      PROVE  jobs[i].status = "done"
  <2>1. VersionAt(p) \in FileVersion /\ jobs' = QP!Inserted(VersionAt(p))
    BY <1>6, SameTables
       DEF TypedInv, TypesInv, PipelineTypeOK, VersionAt, FileVersion, Q!Enqueue
  <2>2. \A j \in QP!Rows : j \in DOMAIN jobs' /\ jobs'[j] = jobs[j]
    BY <1>1, <2>1, QP!InsertedRow, DaemonAssumption, PipelineAssumption
  <2> QED
    BY <2>2, SameTables
<1>7. ASSUME UNCHANGED jobs PROVE jobs[i].status = "done"
  BY <1>7
<1>8. ASSUME NEW p \in Path, Request(p) \/ Visit(p) PROVE jobs[i].status = "done"
  BY <1>6, <1>7, <1>8 DEF Request, Visit, queueState
<1> QED
  BY <1>3, <1>4, <1>5, <1>7, <1>8
     DEF DaemonNext, Scanning, Work, ListLibrary, ScanDone, NextScan, ScanEnds, Shutdown,
         Stop, Die, Import, Q!Cancel, Q!Close, Q!Crash, queueState, daemonVars

\* A done row's films are nobody's to move: who holds an original of their stem
\* holds that very row, and a held row is running.
LEMMA DoneUntouched ==
  ASSUME StemsDistinct, ~OtherOpens, DaemonInv, FilesStep,
         NEW i \in Q!Rows, jobs[i].status = "done"
  PROVE  LET p == jobs[i].key.path
             c == jobs[i].key.content
         IN vault'[p] = c /\ disk'[FinalOf(p)] = Enc(c.of)
<1> DEFINE p == jobs[i].key.path
           c == jobs[i].key.content
<1>1. /\ IsOriginal(c) /\ vault[p] = c /\ disk[FinalOf(p)] = Enc(c.of)
      /\ c = Initial[p]
  BY InvParts DEF DoneIsTrue, RowsInv
<1>2. /\ p \in Path /\ jobs[i].key = [path |-> p, content |-> c]
  BY InvParts, RowFacts
<1>3. /\ p \in LibPath /\ Initial[p] # NoFile
  BY <1>1, <1>2, TempFacts DEF IsOriginal
<1>4. CASE Quiet
  BY <1>1, <1>4 DEF Quiet
<1>5. ASSUME NEW w \in Worker, FileStep(w)
      PROVE  vault'[p] = vault[p] /\ disk'[FinalOf(p)] = disk[FinalOf(p)]
  <2>1. IsOriginal(media[w]) /\ path[w] \in LibPath
    BY <1>5, InvParts, OwnFacts DEF FileStep, Alone
  <2>2. /\ Q!Holding(w) /\ held[w] \in Q!Rows /\ Initial[path[w]] # NoFile
        /\ jobs[held[w]].key = [path |-> path[w], content |-> Initial[path[w]]]
    BY <2>1, HandsAndRows
  <2>3. path[w].stem # p.stem
    <3> SUFFICES ASSUME path[w].stem = p.stem PROVE FALSE
      OBVIOUS
    <3>1. path[w] = p
      BY <1>3, <2>1, <2>2 DEF StemsDistinct
    <3>2. jobs[held[w]].key = jobs[i].key
      BY <1>1, <1>2, <2>2, <3>1
    <3>3. held[w] = i
      BY <2>2, <3>2, InvParts, RowFacts
    <3> QED
      BY <2>2, <3>3, InvParts DEF Q!QueueInv, Q!HeldIsRunning
  <2>4. /\ FinalOf(p).stem = p.stem /\ FinalOf(path[w]).stem = path[w].stem
        /\ FinalOf(p) \in LibPath /\ FinalOf(p) \in Path /\ path[w] \in Path
    BY <1>3, <2>1, PathFacts
  <2> HIDE DEF p
  <2> QED
    BY <1>2, <1>3, <1>5, <2>3, <2>4
       DEF FileStep, Aside, Copies, Moves, Elsewhere, Replaces
<1> QED
  BY <1>1, <1>4, <1>5 DEF FilesStep

LEMMA DoneIsTrueKept ==
  ASSUME StemsDistinct, ~Upgrades, ~OtherOpens, DaemonInv, [DaemonNext]_daemonVars
  PROVE  DoneIsTrue'
<1>1. TypedInv /\ FilesStep
  BY InvParts, StepOnFiles
<1>2. ASSUME NEW i \in DOMAIN jobs', jobs'[i].status = "done"
      PROVE  LET p == jobs'[i].key.path
                 c == jobs'[i].key.content
             IN IsOriginal(c) /\ vault'[p] = c /\ disk'[FinalOf(p)] = Enc(c.of)
  <2>1. i \in Q!Rows
    <3> SUFFICES ASSUME i \notin Q!Rows PROVE FALSE
      OBVIOUS
    <3>1. PICK p \in Path : jobs'[i] = [key |-> VersionAt(p), status |-> "pending"]
      BY <1>1, RowsAfter
    <3> QED
      BY <1>2, <3>1
  <2>2. jobs'[i].key = jobs[i].key
    BY <2>1, InvParts, StepOfQueue, RowsStay
  <2>3. CASE jobs[i].status = "done"
    <3>1. IsOriginal(jobs[i].key.content)
      BY <2>1, <2>3, InvParts DEF DoneIsTrue
    <3>2. LET p == jobs[i].key.path
              c == jobs[i].key.content
          IN vault'[p] = c /\ disk'[FinalOf(p)] = Enc(c.of)
      BY <1>1, <2>1, <2>3, DoneUntouched
    <3> QED
      BY <2>2, <3>1, <3>2
  <2>4. ASSUME NEW w \in Worker, Settle(w), held[w] = i, Q!Holding(w),
               pc[w] = "return", result[w] = "done"
        PROVE  LET p == jobs[i].key.path
                   c == jobs[i].key.content
               IN IsOriginal(c) /\ vault'[p] = c /\ disk'[FinalOf(p)] = Enc(c.of)
    <3>1. IsOriginal(media[w]) /\ Reported(w)
      BY <2>4, InvParts DEF ReportInv, ReportOf
    <3>2. vault[path[w]] = media[w] /\ disk[FinalOf(path[w])] = Enc(media[w].of)
      BY <2>4, <3>1 DEF Reported
    <3>3. jobs[i].key.path = path[w] /\ jobs[i].key.content = media[w]
      BY <2>4, <3>1, InvParts DEF WorkersInv, Busy
    <3>4. UNCHANGED <<disk, vault>>
      BY <2>4 DEF Settle, Finish, fileVars
    <3> QED
      BY <3>1, <3>2, <3>3, <3>4
  <2> QED
    BY <1>1, <1>2, <2>1, <2>2, <2>3, <2>4, DoneAfter
<1> QED
  BY <1>2 DEF DoneIsTrue, Q!Rows

-----------------------------------------------------------------------------
(* The specification.                                                         *)

LEMMA AloneWhileEncoding == PipelineInv => OneEncodePerStem
BY DEF PipelineInv, CallInv, OneCallPerFilm, OneEncodePerStem

LEMMA DaemonInvInit == DaemonInit => DaemonInv
<1> SUFFICES ASSUME DaemonInit PROVE DaemonInv
  OBVIOUS
<1>1. ReportInv /\ TypedInv
  BY ReportInvInit, TypedInvInit DEF DaemonInit
<1>2. OneEncodePerStem /\ Q!QueueInv /\ DaemonTypeOK
  BY <1>1, AloneWhileEncoding DEF ReportInv, TypedInv, TypesInv, DaemonTypeOK, Q!QueueInv
<1>3. Q!Rows = {}
  <2>1. jobs = <<>>
    BY DEF DaemonInit, Q!QueueInit
  <2> QED
    BY <2>1 DEF Q!Rows
<1>4. WorkersInv
  BY DEF DaemonInit, PipelineInit, Q!QueueInit, WorkersInv, Busy, IsOriginal, Q!Holding
<1> QED
  BY <1>1, <1>2, <1>3, <1>4 DEF DaemonInv, RowsInv, DoneIsTrue

LEMMA DaemonInvNext ==
  ASSUME StemsDistinct, ~Upgrades, ~OtherOpens, DaemonInv, [DaemonNext]_daemonVars
  PROVE  DaemonInv'
<1>1. TypedInv'
  BY InvParts, TypedInvNext
<1>2. DaemonTypeOK' /\ Q!QueueInv'
  BY <1>1 DEF TypedInv, TypesInv, DaemonTypeOK, Q!QueueInv
<1>3. OneEncodePerStem'
  BY PipelineInvKept, AloneWhileEncoding, PTL
<1> QED
  BY <1>2, <1>3, ReportInvKept, WorkersInvKept, RowsInvKept, DoneIsTrueKept DEF DaemonInv

\* The daemon's invariant holds in every run: for any library without two films
\* of one stem, any number of workers, whatever fails and however often the
\* daemon is shut down, dies and is started again, as long as nobody replaces the
\* library's files and the daemon alone opens its database (daemon.go:26-63).
THEOREM DaemonInvariance ==
  ASSUME StemsDistinct, ~Upgrades, ~OtherOpens
  PROVE  DaemonSpec => []DaemonInv
<1>1. DaemonInv /\ [DaemonNext]_daemonVars => DaemonInv'
  BY DaemonInvNext
<1> QED
  BY <1>1, DaemonInvInit, PTL DEF DaemonSpec

\* The history is true: what a row says is done was an original, it is in the
\* quarantine and its encode in the library (queue.go:103, pipeline.go:94-101).
THEOREM DaemonHistoryIsTrue ==
  ASSUME StemsDistinct, ~Upgrades, ~OtherOpens
  PROVE  DaemonSpec => []DoneIsTrue
<1>1. DaemonInv => DoneIsTrue
  BY DEF DaemonInv
<1> QED
  BY <1>1, DaemonInvariance, PTL

\* No two workers ever encode into one temp file: nothing but the queue's claims
\* and the policy keeps them apart (pipeline.go:65, queue.go:86).
THEOREM DaemonEncodesAlone ==
  ASSUME StemsDistinct, ~Upgrades, ~OtherOpens
  PROVE  DaemonSpec => []OneEncodePerStem
<1>1. DaemonInv => OneEncodePerStem
  BY DEF DaemonInv
<1> QED
  BY <1>1, DaemonInvariance, PTL

\* The daemon loses no original, leaves no broken file under a library name, and
\* what its workers are told of a file is true (README.md:31, pipeline.go:50).
THEOREM DaemonKeepsOriginals ==
  ASSUME StemsDistinct, ~Upgrades, ~OtherOpens
  PROVE  DaemonSpec => [](OriginalsKept /\ LibraryWhole /\ ReportIsTrue)
<1>1. DaemonInv => OriginalsKept /\ LibraryWhole /\ ReportIsTrue
  BY DEF DaemonInv, ReportInv, ReportOf, ReportIsTrue, PipelineInv
<1> QED
  BY <1>1, DaemonInvariance, PTL

\* As in PipelineProofs, now with the daemon as the caller.
LEMMA DaemonReplaceInvariance ==
  ASSUME StemsDistinct, ~Upgrades, ~OtherOpens
  PROVE  DaemonSpec => [](DaemonInv /\ ReplaceInv)
<1>1. DaemonInit => ReplaceInv
  BY ReplaceInvInit DEF DaemonInit
<1>2. DaemonInv /\ ReplaceInv /\ [DaemonNext]_daemonVars => ReplaceInv'
  BY PipelineInvKept, StepOnFiles, ReplaceInvNext
<1> QED
  BY <1>1, <1>2, DaemonInvariance, PTL DEF DaemonSpec

\* The quarantine never receives an encode of mtx's own, though the scan finds and
\* queues every encode it makes (pipeline.go:60, 84, daemon.go:89).
THEOREM DaemonQuarantinesNoEncode ==
  ASSUME StemsDistinct, ~Upgrades, ~OtherOpens
  PROVE  DaemonSpec => []NoEncodeInVault
<1>1. ReplaceInv => NoEncodeInVault
  BY DEF ReplaceInv
<1> QED
  BY <1>1, DaemonReplaceInvariance, PTL

\* The daemon implements SafeReplace: a film goes from its place to the quarantine
\* whole, and only its own encode takes its place, across shutdowns, deaths and
\* the retries of what they interrupted (daemon.go:26-63, pipeline.go:46-102).
THEOREM DaemonReplacesSafely ==
  ASSUME StemsDistinct, ~Upgrades, ~OtherOpens
  PROVE  DaemonSpec => ImplementsSafeReplace
<1>1. DaemonInit => Safe!SafeInit
  BY StageInit DEF DaemonInit
<1>2. DaemonInv /\ ReplaceInv /\ [DaemonNext]_daemonVars => [Safe!SafeNext]_StageOf
  BY StepOnFiles, StageStep
<1> QED
  BY <1>1, <1>2, DaemonReplaceInvariance, PTL
     DEF DaemonSpec, ImplementsSafeReplace, Safe!SafeReplaceSpec

-----------------------------------------------------------------------------
(* Temp files, when no call fails and no process dies; but whoever replaces    *)
(* files, opens the database, or shares a stem.                               *)

\* A temp file is never an original, so no call is about one; whoever has a temp
\* file open is encoding into its own.
TempsInv ==
  /\ TypesInv
  /\ \A p \in Path : p \notin LibPath => ~IsOriginal(disk[p])
  /\ \A w \in Worker : /\ pc[w] \in Encoding => path[w] \in LibPath
                       /\ out[w] \in LibPath \cup {NoPath} \/ (pc[w] = "encoding" /\ out[w] = Temp(w))
  /\ NoLitter

\* A worker's step that leaves no temp file, but for that of a stem it is at work on.
LEMMA TempsStep ==
  ASSUME TempsInv, TypesInv', NEW w \in Worker, path' = path,
         \A x \in Worker \ {w} : pc'[x] = pc[x],
         pc[w] \in Encoding => \/ pc'[w] \in Encoding
                               \/ disk'[Temp(w)] = NoFile,
         pc'[w] \in Encoding => path[w] \in LibPath,
         \A p \in Path : p \notin LibPath => \/ disk'[p] = disk[p]
                                             \/ disk'[p] = NoFile
                                             \/ /\ ~IsOriginal(disk'[p])
                                                /\ p = Temp(w) /\ pc'[w] \in Encoding,
         \A x \in Worker \ {w} : out'[x] = out[x] \/ out'[x] \in LibPath \cup {NoPath},
         out'[w] \in LibPath \cup {NoPath} \/ (pc'[w] = "encoding" /\ out'[w] = Temp(w))
  PROVE  TempsInv'
<1>1. \A p \in Path : p \notin LibPath => ~IsOriginal(disk'[p])
  BY DEF TempsInv, IsOriginal
<1>2. \A x \in Worker : /\ pc'[x] \in Encoding => path'[x] \in LibPath
                        /\ \/ out'[x] \in LibPath \cup {NoPath}
                           \/ pc'[x] = "encoding" /\ out'[x] = TempOf(path'[x])
  BY DEF TempsInv, Temp
<1>3. ASSUME NEW p \in LibPath, disk'[TempOf(p)] # NoFile
      PROVE  \E x \in Worker : pc'[x] \in Encoding /\ path'[x].stem = p.stem
  <2>1. TempOf(p) \in Path /\ TempOf(p) \notin LibPath
    BY PathFacts
  <2>2. CASE disk'[TempOf(p)] = disk[TempOf(p)]
    <3>1. PICK x \in Worker : pc[x] \in Encoding /\ path[x].stem = p.stem
      BY <1>3, <2>2 DEF TempsInv, NoLitter
    <3>2. x = w => TempOf(p) = Temp(w)
      BY <3>1 DEF TempOf, Temp
    <3> QED
      BY <1>3, <3>1, <3>2
  <2>3. CASE TempOf(p) = Temp(w) /\ pc'[w] \in Encoding
    <3>1. path[w].stem = p.stem
      BY <2>3 DEF TempOf, Temp
    <3> QED
      BY <2>3, <3>1
  <2> QED
    BY <1>3, <2>1, <2>2, <2>3
<1> QED
  BY <1>1, <1>2, <1>3 DEF TempsInv, NoLitter, Temp

LEMMA ProcessStepKeepsTemps ==
  ASSUME ~Faults, TempsInv, NEW w \in Worker, ProcessStep(w)
  PROVE  TempsInv'
<1>1. TypesInv' /\ PipelineTypeOK
  BY ProcessStepTypes DEF TempsInv, TypesInv
<1>2. Busy(w) /\ path[w] \in Path /\ Temp(w) \in Path /\ Temp(w) \notin LibPath
  <2>1. Busy(w)
    BY DEF Busy, ProcessStep, ProbeFails, Probe, EncodeRefused, StartEncode, EncodeFails,
         EncodeDone, VerifyFails, NotSmaller, Verified, QuarantineByRename, QuarantineFails,
         StartCopy, CopyDone, CopyFails, CloseFails, Unlink, UnlinkFails, Install,
         InstallFails, Cleanup
  <2>2. path[w] \in Path
    BY <2>1 DEF TempsInv, TypesInv
  <2>3. Temp(w) \in Path /\ Temp(w).ext = "tmp"
    BY <2>2, TempTypes DEF Temp, TempOf
  <2> QED
    BY <2>1, <2>2, <2>3, TempFacts
<1>3. /\ pc[w] \in Encoding => path[w] \in LibPath
      /\ pc[w] # "encoding" => out[w] \in LibPath \cup {NoPath}
      /\ pc[w] = "encoding" => out[w] \in LibPath \cup {NoPath, Temp(w)}
  BY DEF TempsInv
<1>4. CASE ProbeFails(w)
  <2>1. /\ pc'[w] = "return" /\ UNCHANGED <<disk, path, out>> /\ pc[w] = "probe"
        /\ \A x \in Worker \ {w} : pc'[x] = pc[x]
    BY <1>1, <1>4 DEF ProbeFails, Return, Goto, fileVars, PipelineTypeOK
  <2> QED
    BY <1>1, <1>3, <2>1, TempsStep DEF Encoding, Swapping
<1>5. CASE Probe(w)
  <2>1. /\ UNCHANGED <<disk, path, out>> /\ pc[w] = "probe" /\ disk[path[w]] # NoFile
        /\ \A x \in Worker \ {w} : pc'[x] = pc[x]
        /\ pc'[w] = "return" \/ (pc'[w] = "encode" /\ Worthwhile(disk[path[w]]))
    BY <1>1, <1>5 DEF Probe, Return, Goto, fileVars, PipelineTypeOK
  <2>2. Worthwhile(disk[path[w]]) => path[w] \in LibPath
    <3>1. disk[path[w]] \in Content
      BY <1>1, <1>2, <2>1 DEF PipelineTypeOK
    <3> QED
      BY <1>2, <3>1, OnlyOriginalsEncoded DEF TempsInv
  <2> QED
    BY <1>1, <1>3, <2>1, <2>2, TempsStep DEF Encoding, Swapping
<1>6. CASE \/ EncodeRefused(w) \/ VerifyFails(w) \/ NotSmaller(w)
           \/ Verified(w) \/ QuarantineFails(w) \/ UnlinkFails(w) \/ InstallFails(w)
           \/ StartCopy(w) \/ CopyDone(w) \/ CopyFails(w) \/ CloseFails(w)
  <2>1. /\ UNCHANGED <<disk, path, out>> /\ pc[w] \in Encoding /\ pc[w] # "encoding"
        /\ \E l \in {"cleanup", "quarantine", "copying", "unlink"} : pc' = [pc EXCEPT ![w] = l]
    BY <1>6 DEF EncodeRefused, VerifyFails, NotSmaller, Verified, QuarantineFails,
                UnlinkFails, InstallFails, StartCopy, CopyDone, CopyFails, CloseFails,
                Conclude, Goto, fileVars, callVars, Encoding, Swapping
  <2>2. /\ pc'[w] \in Encoding
        /\ \A x \in Worker \ {w} : pc'[x] = pc[x]
    BY <1>1, <2>1 DEF PipelineTypeOK, Encoding, Swapping
  <2> QED
    BY <1>1, <1>3, <2>1, <2>2, TempsStep
<1>7. CASE EncodeFails(w)
  <2>1. /\ UNCHANGED <<disk, path>> /\ pc[w] \in Encoding /\ pc'[w] \in Encoding
        /\ out'[w] = NoPath
        /\ \A x \in Worker \ {w} : pc'[x] = pc[x] /\ out'[x] = out[x]
    BY <1>1, <1>7 DEF EncodeFails, Conclude, Goto, fileVars, PipelineTypeOK, Encoding, Swapping
  <2> QED
    BY <1>1, <1>3, <2>1, TempsStep
<1>8. CASE StartEncode(w)
  <2>1. /\ disk' = [disk EXCEPT ![Temp(w)] = Part(disk[path[w]].of)] /\ path' = path
        /\ pc[w] \in Encoding /\ pc'[w] = "encoding" /\ out'[w] = Temp(w)
        /\ \A x \in Worker \ {w} : pc'[x] = pc[x] /\ out'[x] = out[x]
    BY <1>1, <1>8 DEF StartEncode, Goto, PipelineTypeOK, Encoding
  <2>2. \A p \in Path : disk'[p] = disk[p] \/ (p = Temp(w) /\ ~IsOriginal(disk'[p]))
    BY <1>1, <1>2, <2>1 DEF PipelineTypeOK, IsOriginal, Part
  <2>3. pc'[w] \in Encoding
    BY <2>1 DEF Encoding
  <2> QED
    BY <1>1, <1>3, <2>1, <2>2, <2>3, TempsStep
<1>9. CASE EncodeDone(w)
  <2>1. /\ path' = path /\ pc[w] = "encoding" /\ pc'[w] = "verify" /\ out'[w] = NoPath
        /\ \A x \in Worker \ {w} : pc'[x] = pc[x] /\ out'[x] = out[x]
        /\ \/ disk' = disk
           \/ \E gen \in {"enc", "part"} :
                disk' = [disk EXCEPT ![out[w]] = [of |-> input[w].of, gen |-> gen]]
    BY <1>1, <1>9 DEF EncodeDone, Goto, PipelineTypeOK
  <2>2. pc[w] \in Encoding /\ pc'[w] \in Encoding
    BY <2>1 DEF Encoding
  <2>3. \A p \in Path : disk'[p] = disk[p] \/ (p = out[w] /\ ~IsOriginal(disk'[p]))
    BY <1>1, <2>1 DEF PipelineTypeOK, IsOriginal
  <2>4. \A p \in Path : p \notin LibPath /\ p = out[w] => p = Temp(w)
    BY <1>3, <2>1, TempFacts
  <2> QED
    BY <1>1, <1>3, <2>1, <2>2, <2>3, <2>4, TempsStep
<1>10. CASE QuarantineByRename(w) \/ Unlink(w)
  <2>1. /\ disk' = [disk EXCEPT ![path[w]] = NoFile] /\ path' = path
        /\ out' = Relinked(path[w], NoPath)
        /\ pc[w] \in Encoding /\ pc[w] # "encoding" /\ pc'[w] = "install"
        /\ \A x \in Worker \ {w} : pc'[x] = pc[x]
    BY <1>1, <1>10 DEF QuarantineByRename, Unlink, Remove, Goto, callVars, PipelineTypeOK,
                       Encoding, Swapping
  <2>2. pc'[w] \in Encoding
    BY <2>1 DEF Encoding, Swapping
  <2>3. \A p \in Path : disk'[p] = disk[p] \/ disk'[p] = NoFile
    BY <1>1, <2>1 DEF PipelineTypeOK
  <2>4. \A x \in Worker : out'[x] = out[x] \/ out'[x] = NoPath
    BY <2>1 DEF Relinked
  <2> QED
    BY <1>1, <1>3, <2>1, <2>2, <2>3, <2>4, TempsStep
<1>11. CASE Install(w)
  <2> DEFINE f == FinalOf(path[w])
  <2>1. /\ disk' = [disk EXCEPT ![f] = disk[Temp(w)], ![Temp(w)] = NoFile] /\ path' = path
        /\ out' = Relinked(Temp(w), f)
        /\ pc[w] \in Encoding /\ pc[w] # "encoding" /\ pc'[w] = "cleanup"
        /\ \A x \in Worker \ {w} : pc'[x] = pc[x]
    BY <1>1, <1>11 DEF Install, Rename, Conclude, Goto, PipelineTypeOK, Encoding, Swapping
  <2>2. f \in LibPath
    BY <1>3, <2>1, PathFacts
  <2>3. pc'[w] \in Encoding
    BY <2>1 DEF Encoding
  <2> HIDE DEF f
  <2>4. \A p \in Path : p \notin LibPath => disk'[p] = disk[p] \/ disk'[p] = NoFile
    BY <1>1, <2>1, <2>2 DEF PipelineTypeOK
  <2>5. \A x \in Worker : out'[x] = out[x] \/ out'[x] \in LibPath \cup {NoPath}
    BY <2>1, <2>2 DEF Relinked
  <2> QED
    BY <1>1, <1>3, <2>1, <2>2, <2>3, <2>4, <2>5, TempsStep
<1>12. CASE Cleanup(w)
  <2>1. /\ disk' = [disk EXCEPT ![Temp(w)] = NoFile] /\ path' = path
        /\ out' = Relinked(Temp(w), NoPath)
        /\ pc[w] \in Encoding /\ pc[w] # "encoding" /\ pc'[w] = "return"
        /\ \A x \in Worker \ {w} : pc'[x] = pc[x]
    BY <1>1, <1>12 DEF Cleanup, Remove, Goto, callVars, PipelineTypeOK, Encoding
  <2>2. pc'[w] \notin Encoding
    BY <2>1 DEF Encoding, Swapping
  <2>3. /\ disk'[Temp(w)] = NoFile
        /\ \A p \in Path : disk'[p] = disk[p] \/ disk'[p] = NoFile
    BY <1>1, <1>2, <2>1 DEF PipelineTypeOK
  <2>4. \A x \in Worker : out'[x] = out[x] \/ out'[x] = NoPath
    BY <2>1 DEF Relinked
  <2> QED
    BY <1>1, <1>3, <2>1, <2>2, <2>3, <2>4, TempsStep
<1> QED
  BY <1>4, <1>5, <1>6, <1>7, <1>8, <1>9, <1>10, <1>11, <1>12 DEF ProcessStep

LEMMA TempsInvNext ==
  ASSUME ~Faults, ~Crashes, TempsInv, Q!QueueInv, TypesInv', [DaemonNext]_daemonVars
  PROVE  TempsInv'
<1>1. PipelineTypeOK
  BY DEF TempsInv, TypesInv
<1>2. ASSUME NEW w \in Worker, NEW p \in Path, Begin(w, p) PROVE TempsInv'
  <2>1. /\ pc[w] = "idle" /\ pc'[w] = "probe" /\ UNCHANGED <<disk, out>>
        /\ \A x \in Worker \ {w} : pc'[x] = pc[x] /\ path'[x] = path[x]
    BY <1>1, <1>2 DEF Begin, Goto, fileVars, PipelineTypeOK
  <2> QED
    BY <2>1 DEF TempsInv, NoLitter, Temp, Encoding, Swapping
<1>3. ASSUME NEW w \in Worker, Finish(w) PROVE TempsInv'
  <2>1. /\ pc[w] = "return" /\ pc'[w] = "idle" /\ UNCHANGED <<disk, out>>
        /\ \A x \in Worker \ {w} : pc'[x] = pc[x] /\ path'[x] = path[x]
    BY <1>1, <1>3 DEF Finish, Forget, Goto, fileVars, PipelineTypeOK
  <2> QED
    BY <2>1 DEF TempsInv, NoLitter, Temp, Encoding, Swapping
<1>4. ASSUME NEW w \in Worker, ProcessStep(w) PROVE TempsInv'
  BY <1>4, ProcessStepKeepsTemps
<1>5. ASSUME UNCHANGED <<disk, pc, path, out>> PROVE TempsInv'
  BY <1>5 DEF TempsInv, NoLitter, Temp
<1>6. CASE [PipelineNext]_pipelineVars
  BY <1>2, <1>3, <1>4, <1>5, <1>6
     DEF PipelineNext, Crash, Cancel, fileVars, callVars, pipelineVars
<1>7. ASSUME Start PROVE TempsInv'
  BY <1>5, <1>7, StartLeaves DEF fileVars, callVars
<1>8. ASSUME NEW p \in LibPath, NEW v \in Version, Import(p, v) PROVE TempsInv'
  <2>1. /\ disk' = [disk EXCEPT ![p] = Orig(v)] /\ out' = Relinked(p, NoPath)
        /\ UNCHANGED <<pc, path>>
    BY <1>8 DEF Import, callVars
  <2>2. \A q \in Path : q \notin LibPath => disk'[q] = disk[q]
    BY <1>1, <2>1 DEF PipelineTypeOK
  <2>3. \A x \in Worker : out'[x] = out[x] \/ out'[x] = NoPath
    BY <2>1 DEF Relinked
  <2>4. \A q \in LibPath : disk'[TempOf(q)] = disk[TempOf(q)]
    BY <2>2, PathFacts
  <2> QED
    BY <2>1, <2>2, <2>3, <2>4 DEF TempsInv, NoLitter, Temp
<1> QED
  BY <1>6, <1>7, <1>8, StepOfPipeline DEF Die

\* No temp file outlives the calls at work on its stem: whether a call ends in an
\* encode, a failed check, a cancellation or a skip, and whatever Sonarr does to
\* the library meanwhile (pipeline.go:65-66).
THEOREM DaemonLeavesNoLitter ==
  ASSUME ~Faults, ~Crashes
  PROVE  DaemonSpec => []NoLitter
<1>1. DaemonInit => TempsInv
  <2> SUFFICES ASSUME DaemonInit PROVE TempsInv
    OBVIOUS
  <2>1. TypesInv /\ disk = Initial
    BY TypedInvInit DEF TypedInv, DaemonInit, PipelineInit
  <2>2. \A p \in Path : p \notin LibPath => disk[p] = NoFile
    BY <2>1, TempFacts
  <2>3. \A p \in LibPath : disk[TempOf(p)] = NoFile
    BY <2>2, PathFacts
  <2> QED
    BY <2>1, <2>2, <2>3
       DEF DaemonInit, PipelineInit, TempsInv, NoLitter, IsOriginal, Encoding, Swapping
<1>2. TypedInv /\ TypedInv' /\ TempsInv /\ [DaemonNext]_daemonVars => TempsInv'
  BY TempsInvNext DEF TypedInv
<1>3. TempsInv => NoLitter
  BY DEF TempsInv
<1> QED
  BY <1>1, <1>2, <1>3, DaemonTyped, PTL DEF DaemonSpec
=============================================================================
