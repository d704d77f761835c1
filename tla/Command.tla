------------------------------- MODULE Command -------------------------------
(***************************************************************************)
(* `mtx enqueue` (main.go), with and without --now, on named files, beside  *)
(* a daemon whose workers process what is queued: the names a command line  *)
(* or a walk yields may be relative, are resolved by whichever process uses *)
(* them, and decide where in the quarantine an original goes.               *)
(*                                                                          *)
(* A name is a sequence of path components, absolute or not; all files are  *)
(* .mkv. A call of ProcessFile is the steps other processes may come        *)
(* between: the probe, the move, the rename and the return. Its temp file   *)
(* and what a move across file systems leaves half-made are Pipeline's; a   *)
(* call may fail at any step, which is how they and a process that dies     *)
(* there show here. Of two calls that have one film in hand at once, and so  *)
(* one temp file, it says where the original ends up, not how whole the      *)
(* encode is.                                                               *)
(***************************************************************************)
EXTENDS Naturals, FiniteSets, SequencesExt

CONSTANTS
  Home,            \* Home[f]: where the original of film f is, an absolute place
  QuarantineRoot,  \* an absolute place
  Invocation,      \* what may be typed: [cwd, now, args], args a sequence of names
  DaemonCwd,       \* the working directory of the daemon
  Left,            \* the films the policy leaves alone
  Worker           \* the daemon's workers

Films == DOMAIN Home

Name  == [absolute : BOOLEAN, parts : Seq(STRING)]
Place == Seq(STRING \ {".", ".."})

ASSUME CommandAssumption ==
  /\ Left \subseteq Films
  /\ \A i \in Invocation : i.now \in BOOLEAN /\ i.cwd \in Place /\ i.args \in Seq(Name)
  /\ QuarantineRoot \in Place /\ DaemonCwd \in Place
  /\ \A f \in Films : Home[f] \in Place
  /\ \A f, g \in Films : Home[f] = Home[g] => f = g
  /\ \A f \in Films : ~IsPrefix(QuarantineRoot, Home[f])
  /\ "--now" \notin Worker

VARIABLES
  files,        \* files[p]: the file at the absolute place p
  calls,        \* the calls of ProcessFile under way, at most one of each caller
  at,           \* the command: "idle", "loop" or "process", or "queue" without --now
  todo,         \* the names --now has yet to process, each with its argument's place
  roots,        \* the arguments yet to be walked for the queue
  visit,        \* the names under the argument at hand yet to be queued
  cwd,          \* the command's working directory
  jobs,         \* the queue's rows, the oldest first: a name, and what was stat'ed
  pending,      \* the rows to be claimed
  running,      \* the rows marked as running; the others have ended
  interrupted,  \* has --now been interrupted?
  finished,     \* where it has changed files since
  contended     \* history: the films that two calls had in hand at once

walk        == <<roots, visit>>
command     == <<at, todo, cwd, interrupted>>
queue       == <<jobs, pending, running>>
library     == <<files, contended>>
commandVars == <<library, calls, command, walk, queue, finished>>

File    == [film : Films, gen : {"orig", "enc"}]
Orig(f) == [film |-> f, gen |-> "orig"]
Enc(f)  == [film |-> f, gen |-> "enc"]

\* A call, from its file's place to the quarantine's; what it found there is in hand
\* from the probe to the end.
Caller == {"--now"} \cup Worker
Call   == [by : Caller, row : Nat, place : Place, to : Place,
           step : {"probe", "encode", "install", "return"}, found : SUBSET Films]

CommandInit == /\ files = [p \in Range(Home) |-> Orig(CHOOSE f \in Films : Home[f] = p)]
               /\ calls = {} /\ contended = {}
               /\ at = "idle"
               /\ todo = {} /\ roots = <<>> /\ visit = {}
               /\ cwd = DaemonCwd
               /\ jobs = <<>> /\ pending = {} /\ running = {}
               /\ interrupted = FALSE
               /\ finished = {}

-----------------------------------------------------------------------------
\* filepath.Clean: "." and the part before ".." disappear; a ".." that is left is kept
\* in a relative name only.
Entered(absolute, parts, part) ==
  CASE part = "."  -> parts
    [] part = ".." -> IF parts # <<>> /\ Last(parts) # ".." THEN Front(parts)
                      ELSE IF absolute THEN parts ELSE Append(parts, part)
    [] OTHER       -> Append(parts, part)

Clean(absolute, parts) ==
  LET clean[k \in 0..Len(parts)] ==
        IF k = 0 THEN <<>> ELSE Entered(absolute, clean[k - 1], parts[k])
  IN clean[Len(parts)]

\* The place a process means by a name.
Resolve(dir, name) == Clean(TRUE, IF name.absolute THEN name.parts ELSE dir \o name.parts)

\* Mutant: the base name alone.
DestinationByBase(name) == QuarantineRoot \o <<Last(name.parts)>>

\* Join(quarantineRoot, TrimPrefix(path, "/")): whatever the name is relative to.
Destination(name) == Clean(TRUE, QuarantineRoot \o name.parts)

\* WalkDir of one argument: a file under its own name, a directory's files under
\* the argument's name and theirs, joined.
Found(dir, arg) ==
  LET root == Resolve(dir, arg)
      below(p) == arg.parts \o SubSeq(p, Len(root) + 1, Len(p))
  IN {IF p = root THEN arg
      ELSE [absolute |-> arg.absolute, parts |-> Clean(arg.absolute, below(p))] :
        p \in {q \in DOMAIN files : IsPrefix(root, q)}}

Collected(dir, args) == UNION {{k} \X Found(dir, args[k]) : k \in DOMAIN args}

\* A file, or a directory: those stay when their files have gone.
Exists(p) == \/ p \in DOMAIN files
             \/ \E q \in Range(Home) \cup DOMAIN files : IsStrictPrefix(p, q)

\* An argument that is not there is an error of the walk.
Missing(dir, args) == \E i \in DOMAIN args : ~Exists(Resolve(dir, args[i]))

-----------------------------------------------------------------------------
(* ProcessFile, called by --now and by the workers.                           *)

\* A file takes the place of whatever was there.
With(p, file, others) ==
  [q \in DOMAIN others \cup {p} |-> IF q = p THEN file ELSE others[q]]

Starts(c, row, name, dir) ==
  calls' = calls \cup {[by |-> c, row |-> row, place |-> Resolve(dir, name),
                        to |-> Destination(name), step |-> "probe", found |-> {}]}

At(k, step, found) == [k EXCEPT !.step = step, !.found = found]
Goes(k, step, found) == calls' = (calls \ {k}) \cup {At(k, step, found)}
Returns(k) == Goes(k, "return", {})

\* The film to encode: an original that the policy does not leave alone.
Decided(p) == {f \in Films \ Left : p \in DOMAIN files /\ files[p] = Orig(f)}

\* probe.Probe and policy.Decide.
Probe(k) ==
  LET found == Decided(k.place)
  IN /\ k.step = "probe"
     /\ IF found = {} THEN Returns(k) ELSE Goes(k, "encode", found)
     /\ contended' = contended \cup {f \in found : \E j \in calls : f \in j.found}
     /\ UNCHANGED <<files, command, walk, queue, finished>>

\* ffmpeg, the verification, the move or the last rename fails, or the encode is no
\* smaller.
GivesUp(k) == /\ k.step \in {"encode", "install"}
              /\ Returns(k)
              /\ UNCHANGED <<library, command, walk, queue, finished>>

\* Where --now has changed a file since it was interrupted.
Changed(k) == finished' = IF k.by = "--now" /\ interrupted THEN finished \cup {k.place}
                          ELSE finished

\* The encode is as it should be: whatever is at the place now is moved away.
Quarantine(k) == /\ k.step = "encode" /\ k.place \in DOMAIN files
                 /\ files' = With(k.to, files[k.place],
                                  [q \in DOMAIN files \ {k.place} |-> files[q]])
                 /\ Goes(k, "install", k.found)
                 /\ Changed(k)
                 /\ UNCHANGED <<contended, command, walk, queue>>

\* The encode takes the place of whatever is there now.
Install(k) == /\ k.step = "install"
              /\ \E f \in k.found : files' = With(k.place, Enc(f), files)
              /\ Returns(k)
              /\ Changed(k)
              /\ UNCHANGED <<contended, command, walk, queue>>

-----------------------------------------------------------------------------
(* enqueue --now.                                                             *)

\* Collect comes first and gives up on any error.
Now(i) == /\ at = "idle" /\ i.now
          /\ ~Missing(i.cwd, i.args)
          /\ at' = "loop"
          /\ todo' = Collected(i.cwd, i.args)
          /\ cwd' = i.cwd
          /\ interrupted' = FALSE
          /\ finished' = {}
          /\ UNCHANGED <<library, calls, walk, queue>>

\* Mutant: the loop does not look at the context.
NextFileAnyway == /\ at = "loop"
                  /\ \E t \in todo : todo' = todo \ {t} /\ Starts("--now", 0, t[2], cwd)
                  /\ at' = "process"
                  /\ UNCHANGED <<library, cwd, interrupted, walk, queue, finished>>

\* One argument after the other, and the names below each in lexical order (here any).
NextFile == /\ at = "loop" /\ ~interrupted
            /\ \E t \in todo : /\ \A u \in todo : t[1] <= u[1]
                               /\ todo' = todo \ {t}
                               /\ Starts("--now", 0, t[2], cwd)
            /\ at' = "process"
            /\ UNCHANGED <<library, cwd, interrupted, walk, queue, finished>>

\* The result is reported.
Report(k) == /\ k.by = "--now" /\ k.step = "return"
             /\ calls' = calls \ {k}
             /\ at' = "loop"
             /\ UNCHANGED <<library, todo, cwd, interrupted, walk, queue, finished>>

\* The loop ends or breaks, and the totals are printed.
Total == /\ at = "loop" /\ (todo = {} \/ interrupted)
         /\ at' = "idle"
         /\ todo' = {}
         /\ UNCHANGED <<library, calls, cwd, interrupted, walk, queue, finished>>

Interrupt == /\ at \in {"loop", "process"} /\ ~interrupted
             /\ interrupted' = TRUE
             /\ UNCHANGED <<library, calls, at, todo, cwd, walk, queue, finished>>

-----------------------------------------------------------------------------
(* enqueue, and the daemon's workers.                                         *)

\* Opening the queue makes running rows pending again, those of a live daemon too;
\* then one argument after the other is walked.
AddToQueue(i) == /\ at = "idle" /\ ~i.now
                 /\ at' = "queue"
                 /\ roots' = i.args /\ visit' = {}
                 /\ cwd' = i.cwd
                 /\ pending' = pending \cup running /\ running' = {}
                 /\ UNCHANGED <<library, calls, todo, interrupted, jobs, finished>>

\* An argument that is not there is an error the walk goes on after.
WalkRoot == /\ at = "queue" /\ visit = {} /\ roots # <<>>
            /\ visit' = Found(cwd, Head(roots))
            /\ roots' = Tail(roots)
            /\ UNCHANGED <<library, calls, command, queue, finished>>

\* Was the name queued with the same file version before?
Seen(row) == row \in Range(jobs)

\* A name is stat'ed here and stored as it is; a file that has gone is an error.
QueueFile(n) ==
  LET place == Resolve(cwd, n)
      row == [name |-> n, version |-> files[place]]
  IN /\ at = "queue" /\ n \in visit
     /\ visit' = visit \ {n}
     /\ IF place \in DOMAIN files /\ ~Seen(row)
        THEN jobs' = Append(jobs, row) /\ pending' = pending \cup {Len(jobs) + 1}
        ELSE UNCHANGED <<jobs, pending>>
     /\ UNCHANGED <<library, calls, command, roots, running, finished>>

\* The walk ends, or is killed.
QueueEnds == /\ at = "queue"
             /\ at' = "idle" /\ roots' = <<>> /\ visit' = {}
             /\ UNCHANGED <<library, calls, todo, cwd, interrupted, queue, finished>>

\* An idle worker takes the oldest pending row, and calls ProcessFile on its name.
Claim(w) == /\ \A k \in calls : k.by # w
            /\ \E j \in pending : /\ \A l \in pending : j <= l
                                  /\ pending' = pending \ {j}
                                  /\ running' = running \cup {j}
                                  /\ Starts(w, j, jobs[j].name, DaemonCwd)
            /\ UNCHANGED <<library, command, walk, jobs, finished>>

\* RecordResult ends the row, whatever its status is by now; or the daemon stops, or
\* cannot write, and the row is left as it is.
Record(k) == /\ k.by \in Worker /\ k.step = "return"
             /\ calls' = calls \ {k}
             /\ \/ pending' = pending \ {k.row} /\ running' = running \ {k.row}
                \/ UNCHANGED <<pending, running>>
             /\ UNCHANGED <<library, command, walk, jobs, finished>>

CommandNext == \/ \E i \in Invocation : Now(i) \/ AddToQueue(i)
               \/ NextFile \/ Total \/ Interrupt
               \/ WalkRoot \/ (\E n \in visit : QueueFile(n)) \/ QueueEnds
               \/ \E w \in Worker : Claim(w)
               \/ \E k \in calls : \/ Probe(k) \/ GivesUp(k) \/ Quarantine(k) \/ Install(k)
                                   \/ Report(k) \/ Record(k)

CommandSpec == CommandInit /\ [][CommandNext]_commandVars

-----------------------------------------------------------------------------
CommandTypeOK ==
  /\ DOMAIN files \subseteq Place /\ \A p \in DOMAIN files : files[p] \in File
  /\ calls \subseteq Call /\ contended \subseteq Films
  /\ at \in {"idle", "loop", "process", "queue"}
  /\ todo \subseteq Nat \X Name
  /\ roots \in Seq(Name) /\ visit \subseteq Name
  /\ cwd \in Place
  /\ jobs \in Seq([name : Name, version : File])
  /\ pending \subseteq DOMAIN jobs /\ running \subseteq DOMAIN jobs
  /\ interrupted \in BOOLEAN /\ finished \subseteq Place

\* No original is lost, by whichever name mtx was given it (README.md:31).
EveryOriginalExists == \A f \in Films : \E p \in DOMAIN files : files[p] = Orig(f)

\* An original is where it was, or the quarantine has it under exactly that place,
\* which "mirror[s] its full path so nothing can collide and restores are
\* unambiguous" (pipeline.go:178-179): if no two calls ever had its file in hand at
\* once, as --now and a worker may (main.go:253, daemon.go:54), or two workers after
\* a reset of the queue (queue.go:59).
Restorable ==
  \A f \in Films \ contended : \E p \in {Home[f], QuarantineRoot \o Home[f]} :
     p \in DOMAIN files /\ files[p] = Orig(f)

\* An interrupted --now finishes the file it is at and leaves the others untouched
\* (main.go:250-252).
InterruptSpares == \A p, q \in finished : p = q

-----------------------------------------------------------------------------
(* The inductive invariant behind Restorable, where every name typed Fits.   *)

\* No ".." in the root directory: there it means another place below the quarantine.
StaysBelow(parts) ==
  \A k \in DOMAIN parts : parts[k] = ".." => Clean(TRUE, SubSeq(parts, 1, k - 1)) # <<>>

\* A name that may be typed: absolute, and of a place neither above the quarantine nor
\* in it.
Fits(arg) ==
  LET place == Clean(TRUE, arg.parts)
  IN /\ arg.absolute /\ StaysBelow(arg.parts)
     /\ ~IsPrefix(place, QuarantineRoot) /\ ~IsPrefix(QuarantineRoot, place)

\* A name of one place outside the quarantine, which mirrors it.
Mirrored(name) ==
  /\ name.absolute
  /\ ~IsPrefix(QuarantineRoot, Clean(TRUE, name.parts))
  /\ Destination(name) = QuarantineRoot \o Clean(TRUE, name.parts)

NamesInv ==
  /\ \A k \in DOMAIN roots : Fits(roots[k])
  /\ \A n \in visit : Mirrored(n)
  /\ \A t \in todo : Mirrored(t[2])
  /\ \A j \in DOMAIN jobs : Mirrored(jobs[j].name)
  /\ \A k \in calls : ~IsPrefix(QuarantineRoot, k.place) /\ k.to = QuarantineRoot \o k.place

\* A call has the film of its place in hand, alone or the film is contended; alone it
\* finds the original where it, or its own move, left it.
CallsInv ==
  /\ \A k \in calls :
       /\ \A f \in k.found : k.place = Home[f] /\ k.step \in {"encode", "install"}
       /\ k.step = "encode" => k.found # {}
       /\ \A f \in k.found \ contended :
            LET p == IF k.step = "encode" THEN Home[f] ELSE QuarantineRoot \o Home[f]
            IN p \in DOMAIN files /\ files[p] = Orig(f)
  /\ \A j, k \in calls : j # k => j.found \cap k.found \subseteq contended

\* A film's place has its original or its encode, the quarantine originals, or what
\* the second of two calls moved there.
FilesInv ==
  \A p \in DOMAIN files : \E f \in Films :
     \/ p = Home[f] /\ files[p] \in {Orig(f), Enc(f)}
     \/ /\ p = QuarantineRoot \o Home[f]
        /\ files[p] = Orig(f) \/ (files[p] = Enc(f) /\ f \in contended)

CommandInv == CommandTypeOK /\ NamesInv /\ CallsInv /\ FilesInv /\ Restorable
=============================================================================
