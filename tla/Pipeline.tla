------------------------------ MODULE Pipeline ------------------------------
(***************************************************************************)
(* encode.ProcessFile: probe, decide, encode to a temp file, verify, move   *)
(* the original to the quarantine, move the encode into its place.          *)
(*                                                                          *)
(* Each worker runs ProcessFile on one path at a time; a worker is a        *)
(* goroutine of the daemon or an `mtx enqueue --now`. A step is one system  *)
(* call or one child process event that other workers, or other programs,   *)
(* can be interleaved with. Nobody else changes the library here: Daemon    *)
(* adds Sonarr and Radarr.                                                  *)
(***************************************************************************)
EXTENDS Library

CONSTANTS
  Worker,       \* whoever runs ProcessFile
  CrossDevice,  \* is the quarantine on another file system than the library?
  Exclusive,    \* does the caller keep files of one stem to one worker?
  Faults,       \* may a command, a system call or a check of ffmpeg's fail?
  Crashes       \* may a worker's process die?

ASSUME PipelineAssumption ==
  /\ CrossDevice \in BOOLEAN /\ Exclusive \in BOOLEAN
  /\ Faults \in BOOLEAN /\ Crashes \in BOOLEAN

NoPath == NoFile

VARIABLES
  disk,      \* disk[p]: the file at library path p
  vault,     \* vault[p]: the file in the quarantine that mirrors path p
  pc,        \* where in ProcessFile a worker is
  path,      \* the path it was called with
  media,     \* the content it probed
  input,     \* the file ffmpeg, or the copy to the quarantine, has open to read
  out,       \* the path where the file ffmpeg has open to write is found now
  result,    \* what ProcessFile returns
  cancelled, \* has the context been cancelled?
  owed       \* the originals mtx found in the library: pairs of path, version

fileVars     == <<disk, vault>>
callVars     == <<path, media, input, result>>
pipelineVars == <<fileVars, pc, callVars, out, cancelled, owed>>

Outcome == {"done", "skipped", "failed"}

\* In program order. From "encode" to "cleanup" the worker may hold a temp file.
Swapping == {"quarantine", "copying", "unlink", "install"}
Encoding == {"encode", "encoding", "verify"} \cup Swapping \cup {"cleanup"}
PC       == {"idle", "probe", "return"} \cup Encoding

Busy(w) == pc[w] # "idle"
Temp(w) == TempOf(path[w])

\* Two workers that would write the same temp file.
SameStem(w, p) == Busy(w) /\ path[w].ext \in LibExt /\ path[w].stem = p.stem

PipelineInit ==
  /\ disk = Initial
  /\ vault = [p \in Path |-> NoFile]
  /\ pc = [w \in Worker |-> "idle"]
  /\ path = [w \in Worker |-> NoPath]
  /\ media = [w \in Worker |-> NoFile]
  /\ input = [w \in Worker |-> NoFile]
  /\ out = [w \in Worker |-> NoPath]
  /\ result = [w \in Worker |-> "done"]
  /\ cancelled = FALSE
  /\ owed = {o \in LibPath \X Version : Initial[o[1]] = Orig(o[2])}

-----------------------------------------------------------------------------
(* File system calls. A file that is open for writing follows its name: it   *)
(* is renamed with it, and has no name once that is removed or replaced.     *)

Relinked(from, to) ==
  [w \in Worker |-> IF out[w] = from THEN to
                    ELSE IF out[w] = to THEN NoPath ELSE out[w]]

Remove(p) == /\ disk' = [disk EXCEPT ![p] = NoFile]
             /\ out' = Relinked(p, NoPath)

\* os.Rename replaces whatever is at the target.
Rename(from, to) == /\ disk' = [disk EXCEPT ![to] = disk[from], ![from] = NoFile]
                    /\ out' = Relinked(from, to)

Goto(w, label) == pc' = [pc EXCEPT ![w] = label]

\* ProcessFile returns r; once the temp file's removal is deferred, by way of it.
Return(w, r)  == Goto(w, "return") /\ result' = [result EXCEPT ![w] = r]
Conclude(w, r) == Goto(w, "cleanup") /\ result' = [result EXCEPT ![w] = r]

-----------------------------------------------------------------------------
\* ProcessFile is called.
Begin(w, p) ==
  /\ pc[w] = "idle" /\ ~cancelled
  /\ (Exclusive /\ p.ext \in LibExt) => \A x \in Worker : ~SameStem(x, p)
  /\ Goto(w, "probe")
  /\ path' = [path EXCEPT ![w] = p]
  /\ UNCHANGED <<fileVars, media, input, result, out, cancelled, owed>>

\* ffprobe fails on a missing file, and perhaps on one that was cut short.
ProbeFails(w) ==
  /\ pc[w] = "probe"
  /\ \/ disk[path[w]] = NoFile
     \/ disk[path[w]] # NoFile /\ disk[path[w]].gen = "part"
     \/ Faults
  /\ Return(w, "failed")
  /\ UNCHANGED <<fileVars, path, media, input, out, cancelled, owed>>

\* ffprobe answers and the policy decides; a skip returns before the removal of
\* the temp file is deferred.
Probe(w) ==
  /\ pc[w] = "probe"
  /\ disk[path[w]] # NoFile
  /\ media' = [media EXCEPT ![w] = disk[path[w]]]
  /\ IF Worthwhile(disk[path[w]])
     THEN Goto(w, "encode") /\ UNCHANGED result
     ELSE Return(w, "skipped")
  /\ UNCHANGED <<fileVars, path, input, out, cancelled, owed>>

\* exec.Cmd.Start refuses a cancelled context; ffmpeg refuses a missing input.
EncodeRefused(w) ==
  /\ pc[w] = "encode"
  /\ cancelled \/ disk[path[w]] = NoFile \/ Faults
  /\ Conclude(w, "failed")
  /\ UNCHANGED <<fileVars, path, media, input, out, cancelled, owed>>

\* ffmpeg -y opens the input and creates or truncates the temp file.
StartEncode(w) ==
  /\ pc[w] = "encode"
  /\ ~cancelled /\ disk[path[w]] # NoFile
  /\ input' = [input EXCEPT ![w] = disk[path[w]]]
  /\ disk' = [disk EXCEPT ![Temp(w)] = Part(disk[path[w]].of)]
  /\ out' = [out EXCEPT ![w] = Temp(w)]
  /\ Goto(w, "encoding")
  /\ UNCHANGED <<vault, path, media, result, cancelled, owed>>

\* ffmpeg exits with an error, or is killed because the context is cancelled.
EncodeFails(w) ==
  /\ pc[w] = "encoding"
  /\ cancelled \/ Faults
  /\ out' = [out EXCEPT ![w] = NoPath]
  /\ Conclude(w, "failed")
  /\ UNCHANGED <<fileVars, path, media, input, cancelled, owed>>

\* ffmpeg exits successfully. When another ffmpeg has the same file open the
\* file may be either's or a mixture.
EncodeDone(w) ==
  /\ pc[w] = "encoding"
  /\ IF out[w] = NoPath
     THEN UNCHANGED disk
     ELSE LET shared == \E x \in Worker \ {w} : out[x] = out[w]
          IN \E gen \in IF shared THEN {"enc", "part"} ELSE {"enc"} :
               disk' = [disk EXCEPT ![out[w]] = [of |-> input[w].of, gen |-> gen]]
  /\ out' = [out EXCEPT ![w] = NoPath]
  /\ Goto(w, "verify")
  /\ UNCHANGED <<vault, path, media, input, result, cancelled, owed>>

\* Is there a complete encode of the release that was probed? Another release
\* may differ in duration, so its encode may fail the check or pass it.
Complete(w) == disk[Temp(w)] # NoFile /\ disk[Temp(w)].gen # "part"
Matching(w) == disk[Temp(w)] = Enc(media[w].of)

VerifyFails(w) ==
  /\ pc[w] = "verify"
  /\ ~Matching(w) \/ Faults
  /\ Conclude(w, "failed")
  /\ UNCHANGED <<fileVars, path, media, input, out, cancelled, owed>>

\* Mutant: an encode that is not smaller is tried again.
NotSmallerRetried(w) ==
  /\ pc[w] = "verify" /\ Complete(w)
  /\ Goto(w, "encode")
  /\ UNCHANGED <<fileVars, callVars, out, cancelled, owed>>

NotSmaller(w) ==
  /\ pc[w] = "verify" /\ Complete(w)
  /\ Conclude(w, "skipped")
  /\ UNCHANGED <<fileVars, path, media, input, out, cancelled, owed>>

Verified(w) ==
  /\ pc[w] = "verify" /\ Complete(w)
  /\ Goto(w, "quarantine")
  /\ UNCHANGED <<fileVars, callVars, out, cancelled, owed>>

\* moveFile on one file system: whatever is at the path now replaces whatever
\* the quarantine holds for it.
QuarantineByRename(w) ==
  /\ pc[w] = "quarantine" /\ ~CrossDevice
  /\ disk[path[w]] # NoFile
  /\ vault' = [vault EXCEPT ![path[w]] = disk[path[w]]]
  /\ Remove(path[w])
  /\ Goto(w, "install")
  /\ UNCHANGED <<callVars, cancelled, owed>>

\* MkdirAll fails, or the rename fails and then opening the source or creating
\* the destination.
QuarantineFails(w) ==
  /\ pc[w] = "quarantine"
  /\ disk[path[w]] = NoFile \/ Faults
  /\ Conclude(w, "failed")
  /\ UNCHANGED <<fileVars, path, media, input, out, cancelled, owed>>

\* Mutant: the source is removed as soon as it is open.
StartCopyUnlinked(w) ==
  /\ pc[w] = "quarantine"
  /\ CrossDevice \/ Faults
  /\ disk[path[w]] # NoFile
  /\ input' = [input EXCEPT ![w] = disk[path[w]]]
  /\ vault' = [vault EXCEPT ![path[w]] = Part(disk[path[w]].of)]
  /\ Remove(path[w])
  /\ Goto(w, "copying")
  /\ UNCHANGED <<path, media, result, cancelled, owed>>

\* Across file systems, or whatever the rename's error was, moveFile copies: it
\* opens the source and truncates the destination.
StartCopy(w) ==
  /\ pc[w] = "quarantine"
  /\ CrossDevice \/ Faults
  /\ disk[path[w]] # NoFile
  /\ input' = [input EXCEPT ![w] = disk[path[w]]]
  /\ vault' = [vault EXCEPT ![path[w]] = Part(disk[path[w]].of)]
  /\ Goto(w, "copying")
  /\ UNCHANGED <<disk, path, media, result, out, cancelled, owed>>

CopyDone(w) ==
  /\ pc[w] = "copying"
  /\ vault' = [vault EXCEPT ![path[w]] = input[w]]
  /\ Goto(w, "unlink")
  /\ UNCHANGED <<disk, callVars, out, cancelled, owed>>

\* io.Copy fails and the destination is removed.
CopyFails(w) ==
  /\ pc[w] = "copying" /\ Faults
  /\ vault' = [vault EXCEPT ![path[w]] = NoFile]
  /\ Conclude(w, "failed")
  /\ UNCHANGED <<disk, path, media, input, out, cancelled, owed>>

\* Mutant: the error of closing the destination is ignored.
CloseUnchecked(w) ==
  /\ pc[w] = "copying" /\ Faults
  /\ vault' = [vault EXCEPT ![path[w]] = Part(input[w].of)]
  /\ Goto(w, "unlink")
  /\ UNCHANGED <<disk, callVars, out, cancelled, owed>>

\* Closing the destination fails: it stays, with all or a part of the bytes.
CloseFails(w) ==
  /\ pc[w] = "copying" /\ Faults
  /\ \E c \in {input[w], Part(input[w].of)} : vault' = [vault EXCEPT ![path[w]] = c]
  /\ Conclude(w, "failed")
  /\ UNCHANGED <<disk, path, media, input, out, cancelled, owed>>

\* os.Remove(src) removes whatever is at the path now.
Unlink(w) ==
  /\ pc[w] = "unlink"
  /\ disk[path[w]] # NoFile
  /\ Remove(path[w])
  /\ Goto(w, "install")
  /\ UNCHANGED <<vault, callVars, cancelled, owed>>

\* Mutant: the error of removing the source is ignored.
UnlinkUnchecked(w) ==
  /\ pc[w] = "unlink"
  /\ disk[path[w]] = NoFile \/ Faults
  /\ Goto(w, "install")
  /\ UNCHANGED <<fileVars, callVars, out, cancelled, owed>>

UnlinkFails(w) ==
  /\ pc[w] = "unlink"
  /\ disk[path[w]] = NoFile \/ Faults
  /\ Conclude(w, "failed")
  /\ UNCHANGED <<fileVars, path, media, input, out, cancelled, owed>>

\* The encode is renamed to the stem's .mkv, replacing whatever is there.
Install(w) ==
  /\ pc[w] = "install"
  /\ disk[Temp(w)] # NoFile
  /\ Rename(Temp(w), FinalOf(path[w]))
  /\ Conclude(w, "done")
  /\ UNCHANGED <<vault, path, media, input, cancelled, owed>>

\* Mutants: the rename's error is ignored; the swap is given up when cancelled.
InstallUnchecked(w) ==
  /\ pc[w] = "install"
  /\ disk[Temp(w)] = NoFile \/ Faults
  /\ Conclude(w, "done")
  /\ UNCHANGED <<fileVars, path, media, input, out, cancelled, owed>>

InstallGivenUp(w) ==
  /\ pc[w] = "install"
  /\ disk[Temp(w)] = NoFile \/ Faults \/ cancelled
  /\ Conclude(w, "failed")
  /\ UNCHANGED <<fileVars, path, media, input, out, cancelled, owed>>

InstallFails(w) ==
  /\ pc[w] = "install"
  /\ disk[Temp(w)] = NoFile \/ Faults
  /\ Conclude(w, "failed")
  /\ UNCHANGED <<fileVars, path, media, input, out, cancelled, owed>>

\* Mutant: the removal of the temp file is not deferred.
CleanupForgotten(w) ==
  /\ pc[w] = "cleanup"
  /\ Goto(w, "return")
  /\ UNCHANGED <<fileVars, callVars, out, cancelled, owed>>

\* The deferred os.Remove of the temp file; its error is ignored.
Cleanup(w) ==
  /\ pc[w] = "cleanup"
  /\ \/ Remove(Temp(w))
     \/ Faults /\ UNCHANGED <<disk, out>>
  /\ Goto(w, "return")
  /\ UNCHANGED <<vault, callVars, cancelled, owed>>

\* The caller has taken the result.
Forget(w) == /\ path' = [path EXCEPT ![w] = NoPath]
             /\ media' = [media EXCEPT ![w] = NoFile]
             /\ input' = [input EXCEPT ![w] = NoFile]
             /\ result' = [result EXCEPT ![w] = "done"]

Finish(w) ==
  /\ pc[w] = "return"
  /\ Goto(w, "idle")
  /\ Forget(w)
  /\ UNCHANGED <<fileVars, out, cancelled, owed>>

-----------------------------------------------------------------------------
\* The process running w dies, and its ffmpeg with it: systemd kills the daemon's
\* whole cgroup (pipeline.go:112 sets no Pdeathsig, so the ffmpeg of an `enqueue --now`
\* that is killed would go on).
Crash(w) ==
  /\ Crashes /\ Busy(w)
  /\ Goto(w, "idle")
  /\ Forget(w)
  /\ out' = [out EXCEPT ![w] = NoPath]
  /\ UNCHANGED <<fileVars, cancelled, owed>>

\* SIGTERM or SIGINT.
Cancel ==
  /\ ~cancelled
  /\ cancelled' = TRUE
  /\ UNCHANGED <<fileVars, pc, callVars, out, owed>>

ProcessStep(w) ==
  \/ ProbeFails(w) \/ Probe(w)
  \/ EncodeRefused(w) \/ StartEncode(w) \/ EncodeFails(w) \/ EncodeDone(w)
  \/ VerifyFails(w) \/ NotSmaller(w) \/ Verified(w)
  \/ QuarantineByRename(w) \/ QuarantineFails(w)
  \/ StartCopy(w) \/ CopyDone(w) \/ CopyFails(w) \/ CloseFails(w)
  \/ Unlink(w) \/ UnlinkFails(w)
  \/ Install(w) \/ InstallFails(w)
  \/ Cleanup(w)

PipelineNext ==
  \/ \E w \in Worker : \/ \E p \in Path : Begin(w, p)
                       \/ ProcessStep(w)
                       \/ Finish(w)
                       \/ Crash(w)
  \/ Cancel

PipelineSpec == PipelineInit /\ [][PipelineNext]_pipelineVars

-----------------------------------------------------------------------------
PipelineTypeOK ==
  /\ disk \in [Path -> Content \cup {NoFile}]
  /\ vault \in [Path -> Content \cup {NoFile}]
  /\ pc \in [Worker -> PC]
  /\ path \in [Worker -> Path \cup {NoPath}]
  /\ media \in [Worker -> Content \cup {NoFile}]
  /\ input \in [Worker -> Content \cup {NoFile}]
  /\ out \in [Worker -> Path \cup {NoPath}]
  /\ result \in [Worker -> Outcome]
  /\ cancelled \in BOOLEAN
  /\ owed \subseteq LibPath \X Version

\* No original is ever lost: it is at its path or in the quarantine under its
\* path, whatever fails and whenever a process dies (README.md:31 "Originals
\* are never deleted", pipeline.go:50).
OriginalsKept ==
  \A o \in owed : disk[o[1]] = Orig(o[2]) \/ vault[o[1]] = Orig(o[2])

\* A broken copy in the quarantine is never all that is left of a file: the
\* original is still in the library (moveFile, pipeline.go:193-215).
BrokenCopyHasOriginal ==
  \A p \in Path : (vault[p] # NoFile /\ ~IsOriginal(vault[p]))
                     => disk[p] = Orig(vault[p].of)

\* The quarantine never receives an encode of mtx's own, which could replace the
\* original kept there: what was probed as worth an encode is not mtx's output,
\* and nothing but an upgrade takes its place before the move (pipeline.go:60, 84).
NoEncodeInVault == \A p \in Path : vault[p] # NoFile => vault[p].gen # "enc"

\* A half-written encode is never found under a library name, where players and
\* Sonarr would take it for the film (pipeline.go:65, 76, 89).
LibraryWhole == \A p \in LibPath : disk[p] # NoFile => disk[p].gen # "part"

\* When the original has left its path, a complete encode of that very file is
\* ready to take its place (README.md:31-33 "An encode must verify [...] before
\* the original is moved").
SwapVerified ==
  \A w \in Worker : pc[w] = "install" =>
     disk[Temp(w)] # NoFile /\ disk[Temp(w)] = Enc(vault[path[w]].of)

\* What w's result says of the original it probed.
Reported(w) ==
  CASE result[w] = "done"    -> /\ vault[path[w]] = media[w]
                                /\ disk[FinalOf(path[w])] = Enc(media[w].of)
    [] result[w] = "skipped" -> disk[path[w]] = media[w]
    [] result[w] = "failed"  -> \/ disk[path[w]] = media[w]
                                \/ vault[path[w]] = media[w]

\* What ProcessFile reports of an original is true of the files: "done" means the
\* probed file is in the quarantine and its encode in the library; "skipped"
\* and "failed" mean the file is where it was, or, failed at the very last
\* step, in the quarantine (pipeline.go:91 says so in the error).
ReportIsTrue ==
  \A w \in Worker : (pc[w] = "return" /\ IsOriginal(media[w])) => Reported(w)

\* The pipeline implements SafeReplace for the originals that were there at first:
\* a crash, a failure, a retry or a second worker never takes a film by any other
\* way from its place to the quarantine, nor back (pipeline.go:46-53, 178-215).
Films   == {p \in LibPath : IsOriginal(Initial[p])}
StageOf == [p \in Films |->
              CASE disk[p] = Initial[p] /\ vault[p] # Initial[p] -> "original"
                [] disk[p] = Initial[p] /\ vault[p] = Initial[p] -> "copied"
                [] disk[p] # Initial[p] /\ vault[p] = Initial[p] ->
                     IF disk[FinalOf(p)] = Enc(Initial[p].of) THEN "replaced" ELSE "moved"
                [] OTHER                                          -> "lost"]

Safe == INSTANCE SafeReplace WITH Film <- Films, state <- StageOf

ImplementsSafeReplace == Safe!SafeReplaceSpec

\* A temp file exists only while some worker is at work on its stem: failed,
\* unprofitable and cancelled encodes leave nothing behind (pipeline.go:66).
NoLitter ==
  \A p \in LibPath : disk[TempOf(p)] # NoFile =>
     \E w \in Worker : pc[w] \in Encoding /\ path[w].stem = p.stem

\* ProcessFile returns, cancelled or not.
ProcessFileReturns == \A w \in Worker : pc[w] = "probe" ~> pc[w] = "return"

\* Once the original is in the quarantine the swap is completed, a cancellation
\* notwithstanding: the library gets the encode of that file.
SwapCompletes ==
  \A p \in LibPath, v \in Version :
     vault[p] = Orig(v) ~> disk[FinalOf(p)] = Enc(v)

-----------------------------------------------------------------------------
(***************************************************************************)
(* The inductive invariant behind the safety properties, for a library with *)
(* StemsDistinct and a caller that keeps OneCallPerFilm: an Exclusive one,  *)
(* or the daemon, whose queue hands out a file version once.                *)
(***************************************************************************)

\* An original never moves to another name, and the quarantine holds (copies
\* of) what was at the mirrored path.
FilesInv ==
  \A p \in Path :
    /\ IsOriginal(disk[p]) => disk[p] = Initial[p]
    /\ vault[p] # NoFile => Initial[p] # NoFile /\ vault[p].of = Initial[p].of

\* What a worker relies on at each point of ProcessFile. A call knows of no file
\* before its probe, and encodes nothing but the original that was at its path.
CallInv(w) ==
  /\ Busy(w) => path[w] \in Path
  /\ pc[w] \in {"idle", "probe"} => media[w] = NoFile
  /\ IsOriginal(media[w]) => path[w] \in LibPath /\ media[w] = Initial[path[w]]
  /\ pc[w] \in Encoding => IsOriginal(media[w])
  /\ pc[w] \in {"encode", "encoding", "verify", "quarantine", "copying", "unlink"}
        => disk[path[w]] = media[w]
  /\ out[w] = IF pc[w] = "encoding" THEN Temp(w) ELSE NoPath
  /\ pc[w] \in {"encoding", "copying"} => input[w] = media[w]
  /\ pc[w] \in {"verify"} \cup Swapping => disk[Temp(w)] = Enc(media[w].of)
  /\ pc[w] \in {"unlink", "install"} => vault[path[w]] = media[w]

\* An Exclusive caller: no two workers are busy with library files of one stem.
AloneOnStem ==
  \A w, x \in Worker :
    (Busy(w) /\ path[w] \in LibPath /\ Busy(x) /\ path[x] \in LibPath
       /\ path[w].stem = path[x].stem) => w = x

\* Whatever the caller does to bring it about: an original is in one call's hands.
OneCallPerFilm ==
  \A w, x \in Worker :
    (IsOriginal(media[w]) /\ IsOriginal(media[x]) /\ path[w].stem = path[x].stem)
      => w = x

\* The report is true from the moment the result is settled on; nothing but an
\* original is ever "done".
ReportOf(w) ==
  pc[w] \in {"cleanup", "return"} =>
    /\ IsOriginal(media[w]) => Reported(w)
    /\ result[w] = "done" /\ pc[w] = "return" => IsOriginal(media[w])

\* Only originals that were there at the start are owed.
OwedInv == \A o \in owed : Initial[o[1]] = Orig(o[2])

PipelineInv ==
  /\ PipelineTypeOK
  /\ OwedInv
  /\ FilesInv
  /\ Exclusive => AloneOnStem
  /\ OneCallPerFilm
  /\ \A w \in Worker : CallInv(w)
  /\ OriginalsKept
  /\ BrokenCopyHasOriginal
  /\ LibraryWhole

ReportInv == PipelineInv /\ \A w \in Worker : ReportOf(w)
=============================================================================
