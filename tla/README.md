# A TLA+ model of mtx

mtx is a media transcode daemon: it re-encodes the video files of a library,
moves each original to a quarantine directory and puts the encode in its place.
Its promise is that no original is ever lost, whatever fails. This directory
models the parts of mtx that promise rests on, and what is built around them,
checks them with TLC, and proves the central results with TLAPS. Paths below are
relative to the repository.

## The system

| component | state it keeps | operations | what makes it hard | what makes it correct |
|---|---|---|---|---|
| policy (`internal/policy`, `internal/encode/args.go`) | none | `Decide`, `Args` | its answers are taken again on its own outputs | a file is encoded once at most, Dolby Vision never, HDR is kept |
| probe (`internal/probe`) | none | `Probe`, `Parse` | several streams, records that may be missing | reports what the policy and the arguments need |
| queue (`internal/queue`) | the SQLite table `jobs` | `Open`, `Enqueue`, `ClaimNext`, `RecordResult`, `Summarize`, `Close` | several goroutines and processes on one table, restarts | a job is in one worker's hands, ends once, is not lost |
| pipeline (`internal/encode/pipeline.go`) | the library, the quarantine, a temp file | `ProcessFile` | six file system calls that each may fail, kills, other programs in the same directory | no original lost, nothing half-written in the library, the report is true |
| daemon (`internal/daemon`) | goroutines, a context | `Run`: workers, periodic scan | shutdown at any moment, its own files found by its own scan | every file gets done, shutdown ends |
| scan (`internal/scan`) | none | `Walk`, `Collect` | the library changes under the walk, arguments that are not there | an unreadable entry does not stop the sweep |
| HTTP server (`internal/server`) | none | webhooks, `POST /enqueue`, `GET /status` | handlers live beside the workers and across the shutdown | the imported file is queued, the store is open while it is used |
| command line (`cmd/mtx/main.go`) | none | `serve`, `enqueue`, `enqueue --now`, `status`, ... | names as they were typed, another working directory, an interrupt | an original can be restored to where it was |
| analyze (`internal/analyze`) | a report | `Walk` | a pool and two channels | every file is in the report once, filed under what mtx would do |
| quality (`internal/quality`) | temp directory, named pipes | `Compare` | three processes and two pipes | a score or an error, in the end |
| bench (`cmd/mtx/bench.go`) | temp directories, rows, kept outputs | `mtx bench` | every step of a nested sweep may fail or be interrupted | true rows, no leftovers |
| config, progress bar, `deploy/mtx.service` | none | read once at the start; output | | |

`mtx serve` opens the queue, starts the HTTP server, the workers and the scan.
The scan and the server call `Enqueue`; a worker calls `ClaimNext`, then
`ProcessFile` on the path it got, then `RecordResult`. `mtx status` and
`mtx enqueue` open the same database from another process; `mtx enqueue --now`
calls `ProcessFile` without the queue, beside the workers. Sonarr and Radarr change the library
meanwhile. `mtx bench` and `mtx analyze` only read the library.

## Modules

| module | models | extends / instantiates |
|---|---|---|
| `Policy` | the decision table, and what the arguments do to codec and HDR | |
| `Probe` | what a probe makes of a file's streams, what an encode makes of them, what `analyze` files them under | `Policy` |
| `PolicyCycle` | one file probed, decided, encoded, found again and decided again | `Probe` |
| `Library` | names and contents of files; what a probe says of them | `Policy` |
| `JobLedger` | abstract: a file version is known once and ends once | |
| `Queue` | the job table, its clients, shutdown, crash, restart | refines `JobLedger` |
| `Server` | `serve` and its HTTP handlers beside the queue's other users | `Queue` |
| `SafeReplace` | abstract: an original stays, is copied, moves, is replaced, and never goes back | |
| `Pipeline` | `ProcessFile`, one step per system call or child process event | `Library`, refines `SafeReplace` |
| `Daemon` | `mtx serve`: workers, scan, requests, other processes, Sonarr and Radarr | `Pipeline`, instantiates `Queue` |
| `Command` | `mtx enqueue` with and without `--now` beside the daemon's workers: names, directories, destinations, calls on one path | |
| `Analyze` | the worker pool of `analyze.Walk` | |
| `Quality` | `quality.Compare`, two decoders and vmaf on two named pipes | |
| `Bench` | `mtx bench` around `Compare` | `Quality`, `Policy` |
| `...Proofs` | theorems, see below | their component |
| `MC...` | values of the constants for TLC | their component |

### How state and actions correspond to the code

**Policy.** Operators have the code's names. A codec is one of `h264`, `hevc`,
`av1` or `vc1`, which stands for all the others; a transfer function is PQ, HLG or
`bt709`, which stands for all the others.

**Probe, PolicyCycle.** A file is a sequence of streams. `Parse` picks the first
video stream, as `Parse` does, and reads Dolby Vision, HDR and the two static HDR
records from it. `Encoded` is what `Args` has ffmpeg do: `-map 0`, audio copied,
every video stream encoded, the records attached for HDR10 only. `DecideStep` and
`EncodeStep` alternate; grain may be asked for anew each time.

**Queue.** Rows are never deleted and ids grow, so the table is a sequence and a
row's id is its position. Each operation is one SQL statement and one step. `held`
is the job a worker's call of `ProcessFile` is about. `RecordResult` updates by id
and does not look at the status, as in the code. `Cancel` is the signal, `Abandon`
the worker that sees it after `ProcessFile` (`daemon.go:55`), `OtherOpen` the
reset another process runs by opening the database (`queue.go:59`). The check of
the context and the statement after it are one step: a signal between the two has
the effect of a signal after both.

**Server.** A handler is `Receive`, then `Refuse` or `Dispatch`, then one statement
(`EnqueueFile`, `EnqueueFails`) or the two of `Summarize` (`ReadCounts`,
`ReadBytes`, `SummarizeFails`), then `Respond`. A path is a sequence of pieces of
text, cut where the prefix of a mapping ends: `/data/tv2` is `/data/tv` and `2`.
`MapToHostPath` compares text, `Denoted` what docker mounts. `ShutdownWeb` is what
main does when `Run` has returned, `Exit` the end of `web.Shutdown` and the
deferred `Close`. A listener that fails (`web = "failed"`) only logs, and the daemon
goes on.

**Library.** A path is a stem and one of three extensions: `mkv` (what every encode
ends up with), `mp4` (every other extension) and `tmp` (`.mtx-tmp.mkv`). A content
is a release and how far it was written: the original, a complete encode, a part.

**Pipeline.** `disk` and `vault` are the library and the quarantine, which mirrors
paths. `pc` is the place in `ProcessFile`. A rename is one step; a copy to another
file system is `StartCopy`, `CopyDone` (or `CopyFails`, `CloseFails`), `Unlink`. A
file that is open for writing follows its name (`out`, `Relinked`): it is renamed
with it and loses it when another file takes the name. `input` is what ffmpeg or
the copy has open to read. The deferred removal of the temp file is the step
`Cleanup` that every return after `pipeline.go:66` goes through. Whether an encode
is smaller is open (`NotSmaller` or `Verified`), and so is whether the encode of
another release would match the duration. `owed` is a history variable: the
originals mtx found in the library. `StageOf` maps a state to `SafeReplace`.

**Daemon.** The steps of `Queue` and `Pipeline`, taken together where the code
takes them together: `Take` is `ClaimNext` and the call, `Settle` the return and
`RecordResult`. A job's key is its path and the content found there (the code: size
and mtime). The scan reads the directory, then visits each entry; it notices a
cancellation only when it sleeps. `Request` stands for webhooks, `POST /enqueue` and
`mtx enqueue`; `Import` is Sonarr or Radarr putting a release at a path.

**Command.** A name is a sequence of components, absolute or relative to the
working directory of whichever process resolves it. `Collected` is `scan.Collect`,
`Destination` the place in the quarantine (`pipeline.go:181`), made from the name
as given. `Clean` is `filepath.Clean`, which `Join` and `WalkDir` call: it is a
recursive function, so that it can be proved about. `Now`, `NextFile`, `Report` and
`Total` are the loop of `--now`; `AddToQueue` (with the reset of the rows that opening
the queue runs, `queue.go:59`), `WalkRoot` and `QueueFile`, one name each, are the
other way a name takes, which a worker's `Claim` and `Record` end. A call of
`ProcessFile`, whoever makes it, is a record in `calls`, and its steps interleave
with everybody's: `Probe`, `Quarantine`, `Install`, or `GivesUp` at any of them, which
is how the temp file and the copies of `Pipeline` show here. `contended` is a history
variable: the films that a call found while another had them in hand.

**Analyze.** A send on an unbuffered channel and its receive are one step.

**Quality, Bench.** Opening a named pipe is one step of both ends. `compare` is the
place in `Compare`; the processes go on beside it, and after it when it returns
early. `Bench` has the two nested loops, its temp directories (`temps`), rows and
kept outputs; lengths stand for what is encoded and scored.

Some definitions are marked "Mutant": they are faulty variants of the definition
that follows them, used to see that each property can fail.

## Runs

Runs that pass:

| run | instance | properties | states |
|---|---|---|---|
| `MCPolicyCycle` | films of all codecs, heights on both sides of each threshold, marks, transfer functions and records, with sound before or a cover image after them; at most two encodes | `EncodedAtMostOnce`, `DolbyVisionUntouched`, `UHDHDRIsReattached`, `HDR10RecordsSurvive`, `ReportExplainsDecision` | 10,754 |
| `MCServer` | 2 workers, 2 handlers, 2 file versions, 7 requests, 2 mappings, crashes, restarts, statements that fail | `QueueInv`, `JobHeldOnce`, `ServerInv`, `StatusIsConsistent`, `QueuedIsImported`, `ImplementsLedger`, `EveryJobEnds`, `ServeEnds` | 155,579 |
| `MCPipelineFaults` | 2 workers, 3 films, failures, crashes | `PipelineInv`, `BrokenCopyHasOriginal`, `SwapVerified`, `ReportIsTrue`, `ImplementsSafeReplace` | 298,544 |
| `MCDaemon` | 2 workers, 1 film, failures, crashes, restarts | `DaemonInv`, `OriginalsKept`, `NoEncodeInVault`, `DoneIsTrue` | 358,814 |
| `MCDaemonLive` | 1 worker, 1 film that is imported at some time, shutdowns, restarts, other processes | `NoLitter`, `ProcessFileReturns`, `SwapCompletes`, `EveryFileIsEncoded`, `ShutdownCompletes` | 10,252 |
| `MCCommand` | 3 films in 2 directories, 4 command lines with absolute names, 2 workers of a daemon | `CommandInv`, `InterruptSpares` | 244,594 |
| `MCAnalyze` | 2 workers, 3 files | `SweepInv`, `ReportComplete`, `SweepReturns` | 207 |
| `MCBench` | 3 files, 2 values (0 is one), every combination of `--clip`, `--grain`, `--skip-vmaf`, `--keep-outputs` | `BenchInv`, `ProcessesReaped`, `LengthsMatch`, `RowsAreTrue`, `KeptAreOwn`, `BenchEnds`, `InterruptEnds` | 140,188 |

An invariant named `...Inv` is the inductive invariant of its module, a conjunction
of named parts with the type invariant among them; TLC checks on the instance what
the proofs show for every value of the constants. `QueueInv` has `JobHeldOnce`,
`HeldIsRunning` and `RunningIsHeld`; `PipelineInv` has `OriginalsKept`,
`BrokenCopyHasOriginal`, `LibraryWhole` and what is known at each `pc`; `DaemonInv`
has both of those (the second in `ReportInv`, with what is reported), what ties a
worker's call to its row (`WorkersInv`, `RowsInv`), `OneEncodePerStem` and
`DoneIsTrue`; `ServerInv` has `QueueInv`, `StoreOpenWhileServed`, what each handler
has in hand and `StatusIsConsistent`; `BenchInv` has `TempsAreInUse`, Compare's
processes and pipes, and what the rows and the kept outputs are of; `CommandInv` has
`Restorable`, what each call has in hand, what a place may hold and what names may be
under way; `SweepInv` of
`Analyze` has `NoSendOnClosed`.

What is worth knowing about single properties:

- `ImplementsLedger` and `ImplementsSafeReplace` are refinements: each step of the
  detailed module is a step of the abstract one, or none of its business.
- `QueuedIsImported` is of files: a mapping's prefix also matches in the middle of
  a name. In `MCServer` the more specific mapping is listed first, and a file at the
  place the other would give is not queued.
- `StatusIsConsistent` holds because the counts are read before the bytes and jobs
  only ever become done; read the other way round it fails.
- `BenchEnds` has an exception, `Forsaken`: a process that exits before it opens its
  end of a pipe leaves the other end, and `Compare`, waiting. `InterruptEnds` says
  that an interrupt resolves this.
- `ProcessesReaped` speaks of the returns with vmaf's answer. When the second
  decoder or vmaf cannot be started, `Compare` leaves a decoder behind.
- `Restorable` (in `CommandInv`) excepts the films in `contended`, and has to: **`mtx
  enqueue --now` beside a daemon that works on the same file can lose its original**.
  The second call probes the original while the first encodes it; the first swaps;
  the second then moves the first's encode to the quarantine, over the original.
  Without the exception `MCCommand` ends in that after 13 states. Two workers get
  there as well, after an `mtx enqueue` has reset the row of a running job
  (`queue.go:59`), and so they do when one file is queued under two names (`/tv/1.mkv`
  and `/tv/./1.mkv`: UNIQUE in `queue.go:33` is of the text). What the invariant says is
  that nothing else loses an original: not the names, not failures in between, not
  calls on other files.
- `DolbyVisionUntouched` is of releases whose first video stream carries the mark.
- `HDR10RecordsSurvive` and `UHDHDRIsReattached` are of 4K sources. An HDR source
  below 1600 lines gets the hardware profile, which re-attaches nothing.

What the runs that end in a violation show, each against a sentence of the
repository (the findings in `PROJECT.json` quote it):

| run | what happens |
|---|---|
| `MCDaemonStatus` | `mtx status` resets the running row of the live daemon, it is claimed again, and the second call moves the finished encode over the original in the quarantine |
| `MCPipelineSameStem` | the encode of `a.mp4` overwrites the original `a.mkv` |
| `MCDaemonCrash` | a crash in the middle of the swap: the retry fails for good, the path stays vacant |
| `MCCommandRelative` | `mtx enqueue --now 1.mkv` typed in two directories: both originals go to one place in the quarantine, and the first is gone |

The models show more of the same kind when a constant is changed; no run is kept
for these:

- `Exclusive = FALSE` in `MCPipeline` (`enqueue --now` beside the daemon): two calls
  on one path lose the original (`OriginalsKept`), as in `Command`.
- `Upgrades = TRUE` and a second release in `MCDaemon`: one imported during the encode is
  quarantined and the older one's encode takes its place (`SwapVerified`); one
  imported between the move and the last rename is overwritten (`OriginalsKept`); an
  upgrade that is processed takes the place of the earlier original in the
  quarantine.
- When the last rename fails, the path stays vacant, though `README.md:33-35` says
  that the original stays exactly where it was.
- A shutdown just after the swap leaves the finished job running; when the path has
  changed (`a.mp4` became `a.mkv`) the retry after the restart ends as "failed".
- A relative name that is queued is resolved by the daemon in its own working
  directory: it processes another file, or none.
- Two kinds of absolute names `Fits` turns down, and with reason. The destination of
  a file typed as `/../tv/1.mkv` is not below the quarantine, it is the file itself:
  the encode then overwrites the original. And when the quarantine itself is
  enqueued, what is in it is quarantined a second time, away from its mirror
  (`Restorable`).

Things seen in the code that no model speaks of, or that are too small for a
property: `RecordResult` and the claim's `RETURNING` row can fail after the
statement took effect (the model has it as `RecordFails`); a later request for
grain is ignored for a file version that has a row (`queue.go:75`); the bytes saved
are computed from the size at the time of the enqueue; a scan interval of 0 is a
loop without a pause; a quarantine inside a library root is scanned with the
library; one argument that is not there makes `enqueue --now` give up before it
begins (`scan.Collect`), which `MCCommand` has.

### Bounds, and why they are enough

Two workers show every interference of a pair; three workers add none, since all
shared state is per path, per stem or per row and every hazard is between two
calls. The same goes for two handlers. One film shows the interplay of a path, its
temp file and its encode; two films of different extension show independence and
the two forms of the final name (`.mkv` in place, `.mp4` to `.mkv`); a third one is
left alone by the policy. The table is bounded by the number of file versions,
because of its UNIQUE constraint, and needs no bound of its own. `MaxEncodes = 2`
bounds `PolicyCycle`: a second encode is already the violation. The requests of
`MCServer` are one for each way through the handlers, on two mappings one of which
is a prefix of the other. `MCBench` has two files of one base name, one that the
policy skips between them, and a clip that is shorter than, as long as, or longer
than the files; its 4K films sweep three of the four knobs, the theorem is of all
four. `MCCommand` declares its two workers symmetric, which is sound: it checks
invariants only, and nothing names a worker. The other instances are small without
symmetry. The theorems lift the bounds where they apply.

`MCDaemonLive` has one worker, because it lets other processes open the queue. With
two workers and `OtherOpens = FALSE` all its properties hold as well (86,278 states,
about a minute). With two workers and other processes `SwapCompletes` fails, as the safety
of `MCDaemonStatus` does: the row reset by the other process is claimed twice.

The pipeline's runs allow a process to die at each point; `MCDaemon` composes this
with the queue. With `Faults`, a rename to the quarantine may fail and become a
copy, so `MCPipelineFaults` goes both ways. The pipeline is checked with
`Exclusive`, callers that keep a stem to one worker: `OneEncodePerStem` of
`MCDaemon` is what the daemon delivers of it (two workers may be on one stem, but
only one of them past the policy). `MCServer` has `Faults = FALSE`, since a result
that cannot be stored leaves its job running until a restart, which `EveryJobEnds`
excludes; `MCDaemon` and the theorems have it. `Locked = TRUE` there lets every
statement of a handler fail.

Deadlock is checked in the daemon's, the server's and the command's runs. A policy
cycle, a sweep, a benchmark and the pipeline's instance (once cancelled) come to an
end, so it is not checked there; `SweepReturns`, `BenchEnds` and
`ProcessFileReturns` (of `MCDaemonLive`) say that the end is the right one.

### Fairness

Weak fairness on what goroutines do in a loop (a worker claims, runs, records; the
scan goes on; a handler answers; main shuts the server down and closes the store
after `Run`), and on the steps of `ProcessFile`: ffprobe answers, ffmpeg exits, a
copy ends. This assumes of ffmpeg what the code assumes (it sets no time limit).
Strong fairness on `ScanEnds`: the `select` of `sleep` picks any ready case, so a
scan that goes round for ever meets the cancellation in the end. In `Server`, a
claimed job's call returns and is recorded or abandoned (`CallReturns`), which
`ProcessFileReturns` justifies. In `Bench`, the command goes on, and so do the
processes, as long as the other end of their pipe lets them (`ProcessesGoOn`); none
on their failing, nor on `VmafMissing`. No fairness for signals, crashes, restarts,
requests, imports and other processes: they may or may not happen. Liveness that
needs the daemon to be up says so: `<>[](storeOpen /\ ~cancelled) => ...`.

## Proofs

All proofs are checked by TLAPS without any unproved step. They hold for every
value of the constants that meets the named assumptions.

**Queue** (`QueueProofs`), for any number of workers and file versions. The
invariant `QueueInv` adds to the properties what a step needs to keep them: that
held rows exist, that a closed store means no one holds a row, and exclusiveness of
keys. `ClaimsAreExclusive` follows as claims pick pending rows while held rows are
running. It assumes `~OtherOpens`; `MCDaemonStatus` shows what happens otherwise.
`NothingIsStuck` assumes `~Faults`. `QueueImplementsLedger` shows each step to be an
admission, an end, or a stutter of `JobLedger`.

**Pipeline** (`PipelineProofs`), for any library, any number of workers, failures
and crashes anywhere, one file system or two. `OriginalsKept` is not inductive:
that `Unlink` loses nothing needs that the copy is complete, that the path still
holds what was copied, and that nobody else is at work on that original.
`PipelineInv` collects what is known at each `pc` (`CallInv`), where originals can be
(`FilesInv`), and that two calls never have the original of one stem in hand
(`OneCallPerFilm`). Each action is shown to keep the invariant from
`OneCallPerFilm'` alone, so that the same lemmas serve the pipeline by itself, whose
callers are `Exclusive` by assumption, and the daemon, whose queue has to see to it.
Assumed: `Exclusive`, `StemsDistinct`, and that nobody else changes the library
(`Pipeline` is written so). Each is needed: `MCPipelineSameStem` violates the
property without the second one, and the observations above are of the other two.

`PipelineImplementsSafeReplace` says in one formula what `ProcessFile` does to an
original, and `QuarantineHoldsNoEncode` that the quarantine is never overwritten by
an encode. A step changes the library or the quarantine in one of four ways
(`Aside`, `Copies`, `Moves`, `Replaces`), which is shown once for all actions.
Beyond `PipelineInv` the argument (`ReplaceInv`) needs that a film in place has no
encode next to it yet, that the path is vacant when the encode takes it, and that
every film is owed, so that it is never in neither place. `ReportsAreTrue`: a result
is true when it is settled, and stays true through the removal of the temp file and
the steps of the other workers, which are on other films.

**Daemon** (`DaemonProofs`), for any library and number of workers, failures, deaths,
shutdowns and restarts. `DaemonImplementsQueue` maps every step of the daemon to a
step or a stutter of `Queue`, without assumptions but types; hence
`DaemonKeepsLedger`. `DaemonInvariance` is where queue and pipeline meet. That no two
calls have one original in hand is not assumed here (`OneCallAtProbe`): a call that
finds an original holds the row of that path and that very content (`WorkersInv`,
`RowsInv`), two such calls on one path hold one row, since keys are unique, and a
row is held by one worker (`QueueInv`). Assumed: `StemsDistinct`, `~OtherOpens` (else `MCDaemonStatus`), and
`~Upgrades`: a release imported over one at work does lose it, as said above. From
the invariant follow `DaemonKeepsOriginals`, `DaemonEncodesAlone`,
`DaemonHistoryIsTrue` and, with `ReplaceInv`, `DaemonQuarantinesNoEncode` and
`DaemonReplacesSafely`: the whole daemon implements `SafeReplace`.
`DaemonLeavesNoLitter` has an invariant of its own (`TempsInv`) and assumes neither:
it holds with upgrades and other processes, where removals work and no process
dies.

**Server** (`ServerProofs`), for any requests, mappings and number of handlers.
`ServerInvariance` and `HandlersFindTheQueueOpen` have no hypothesis: the store is
closed after `web.Shutdown`, which waits for the handlers. `ServerImplementsQueue`
carries the queue's theorems over. `StatusAddsUp` needs `~OtherOpens`: a done row
stays done, so the rows counted are among those whose bytes are summed later.
`QueuedFilesAreImported` is for all mappings that are listed the most specific first
(`MappingAssumption`; the code leaves the order to the configuration) and in which
the first match of a path ends with one of its components (`ComponentsMatch`), and shows the code's comparison of
text to be docker's of components there. `/data/tv2` with `/data/tv` as the only
mapping is the path it leaves out: there the code's answer is another place.

**Policy** (`PolicyCycleProofs`), for any releases of any streams and heights.
`NoSecondEncode` rests on the codec of the first video stream being the encoder's
after an encode, which the policy leaves alone. `HDR10RecordsKept` carries the two
records through probe, arguments and probe again. `UHDHDRReattached` and
`GrainIsOnlyAChoice` are about the decision table itself; the latter is why the
pipeline's model may leave the flag out. `ReportExplains` compares the labels of
`analyze` with the decision for all heights. `DolbyVisionIsLeft` is of releases whose
marked stream is the first video stream (`MarkedFirst`); with a cover image in front
the code overlooks the mark.

**Analyze** (`AnalyzeProofs`), for any library and pool: a file is with the walk,
with one worker or in the report, hence in the report once everybody is done.

**Bench** (`BenchProofs`), for any files, lengths, values and options, whichever step
fails and wherever it is interrupted. `BenchInvariance` takes the command and the
processes of `Compare` apart by who steps. `ScoresAreFinal`, `ScoredAtLength` and
`ReportIsInOrder` follow from it. `OutputsAreKept` assumes that the values differ
(`IsInjective(Values)`): `--values 24,24` names two outputs alike.

**Command** (`CommandProofs`), for any library, any command lines and any number of
workers. `InterruptSparesTheRest` and `CommandTypeCorrect` have no hypothesis.
`OriginalsAreRestorable` assumes that every name typed `Fits`: it is absolute, has no
`..` in the root directory, and is of a place neither above the quarantine nor in it.
It is about every film that no two calls had in hand at once (`contended`); of the
others it says nothing, and the code may lose them. The argument: a walk of such a
name yields `Mirrored` names (`FoundIsMirrored`), that is, names whose destination is
the quarantine's root followed by exactly the place they mean (`NamesInv`). A call
that is alone with a film finds the original where it was at the probe, or where its
own move has put it (`CallsInv`): the steps of the calls beside it are on other
places, since homes differ, none is in the quarantine, and two calls with one film
make it contended. The quarantine holds originals in their mirrors, and of contended
films whatever the second call moved there (`FilesInv`). It rests on what `filepath.Clean` does to
every name: `CleanKeepsPlace` (a part without dots is only appended) and
`CleanElsewhere` (a name that stays below the root means the same below another
directory). Both are inductions over the parts of a name. The library's induction
theorems take an operator, which the provers cannot instantiate; `LeastNumber`
derives a least element from the well-foundedness of the strict subset order on
finite sets, and `UpTo` is the induction that follows from it, on a set of numbers
in the place of a predicate.

Only model-checked: liveness (`EveryJobEnds`, `ServeEnds`, `ProcessFileReturns`,
`SwapCompletes`, `EveryFileIsEncoded`, `ShutdownCompletes`, `SweepReturns`,
`BenchEnds`, `InterruptEnds`), since fairness and ENABLED are beyond the prover.
Every invariant and refinement that a run checks is also a theorem; its hypotheses
are the ones above.

## Not modelled

- `internal/config` and `deploy/mtx.service`: read once, no state after that; the
  restart that systemd does is the daemon's `Start`. `cmd/mtx/progressbar.go` and
  everything that is printed: tables, totals, CSV text, logs.
- Durations and sizes inside the pipeline (whether an encode matches, is smaller, is
  a choice), numbers inside HDR records, scores.
- Rows' grain and result columns.
- Time: the idle poll and the scan interval are "sooner or later".
- Power failures: a crash here is of a process, what it wrote stays written.
- Symbolic links, permissions, and directories below the daemon's library (those of
  the command line are in `Command`); the scan's order of names.
- An ffmpeg that outlives mtx. A death here takes the process's ffmpeg with it, as
  systemd's kill of the whole cgroup does for the daemon; `pipeline.go:112` asks for no
  such thing itself, so the ffmpeg of an `enqueue --now` that is killed would go on
  writing its temp file.
- In `Command`, how whole the encode of a contended film is: both calls write one
  temp file, which `Pipeline` has (`Exclusive = FALSE`).
- `mtx probe`, `mtx score` (one `Compare` and a comparison) and `/healthz`.

## Plan

Done: the modules and the theorems above.

To model next, where the pipeline's promise can still be tested harder: power
failures (writes that are lost unless synced, under `moveFile`).

To prove next: what one step may never do, as action properties of the daemon (a
quarantined original is not touched again; an ended row is not reopened); the
daemon's theorems with upgrades, for the films that are not upgraded; the safety
part of `SwapCompletes`, that after the move of an original only a failed rename or
a death keeps its encode from its place.
