-------------------------------- MODULE Bench --------------------------------
(***************************************************************************)
(* `mtx bench`: each file is encoded at each value of its profile's quality *)
(* knob, scored against the source (or a clip of it), and reported. The     *)
(* scoring is Quality's Compare, whose processes run on beside.             *)
(***************************************************************************)
EXTENDS Integers, Quality, Policy, SequencesExt

CONSTANTS
  Arguments,  \* the files, in order: [base, media, duration]
  Values,     \* --values, in order: whatever integers
  Clip        \* the lengths given with --clip, 0 for none

ASSUME BenchAssumption ==
  /\ Values \in Seq(Int)
  /\ Clip \subseteq Nat
  /\ Arguments \in Seq([base : STRING, media : MediaInfo, duration : Nat])

VARIABLES
  options,    \* [clip, grain, score, keep]: --clip, --grain, not --skip-vmaf, --keep-outputs
  at,         \* where the command is
  file,       \* the number of the file at hand
  value,      \* the number of the value at hand
  temps,      \* the temp directories: "ref" of the clip, "out" of the encode
  reference,  \* how long what is scored against is
  output,     \* the encode at hand: its length, and the quality it was made with
  rows,       \* the results of the file at hand
  report,     \* the rows printed, and appended to the CSV file
  kept        \* kept[name]: the encode under that name in --keep-outputs

sweep     == <<at, file, value, temps, reference, output, rows, report, kept>>
benchVars == <<options, sweep, qualityVars>>

\* What is no encode has no length.
Output   == [length : Nat \cup {-1}, quality : Int]
NoOutput == [length |-> -1, quality |-> 0]
Row == [file : DOMAIN Arguments, value : DOMAIN Values, output : Output, scored : BOOLEAN]

BenchInit == /\ QualityInit
             /\ options \in [clip : Clip, grain : BOOLEAN, score : BOOLEAN, keep : BOOLEAN]
             /\ at = "file" /\ file = 1 /\ value = 1
             /\ temps = {} /\ reference = 0 /\ output = NoOutput
             /\ rows = <<>> /\ report = <<>> /\ kept = <<>>

-----------------------------------------------------------------------------
\* Mutant: the two knobs of x265 swapped.
KnobSwapped(profile) ==
  CASE profile = "hd-qsv"         -> "hd_global_quality"
    [] profile = "uhd-sdr-x265"   -> "uhd_hdr_crf"
    [] profile = "uhd-hdr-x265"   -> "uhd_sdr_crf"
    [] profile = "av1-film-grain" -> "av1_crf"

\* knobByProfile: the field of the configuration the sweep of a profile varies.
Knob(profile) ==
  CASE profile = "hd-qsv"         -> "hd_global_quality"
    [] profile = "uhd-sdr-x265"   -> "uhd_sdr_crf"
    [] profile = "uhd-hdr-x265"   -> "uhd_hdr_crf"
    [] profile = "av1-film-grain" -> "av1_crf"

\* A copy of the configured qualities (all 0 here) with the knob set.
QualityWith(knob, v) ==
  [[k \in {"hd_global_quality", "uhd_sdr_crf", "uhd_hdr_crf", "av1_crf"} |-> 0] EXCEPT ![knob] = v]

\* The field the profile's ffmpeg arguments are made from.
QualityArg(profile, q) ==
  CASE profile = "hd-qsv"         -> q.hd_global_quality
    [] profile = "uhd-sdr-x265"   -> q.uhd_sdr_crf
    [] profile = "uhd-hdr-x265"   -> q.uhd_hdr_crf
    [] profile = "av1-film-grain" -> q.av1_crf

ProfileAt(i) == Decide(Arguments[i].media, options.grain).profile

EffectiveDuration(i) ==
  IF options.clip > 0 /\ options.clip < Arguments[i].duration
  THEN options.clip ELSE Arguments[i].duration

Clipped(i) == EffectiveDuration(i) < Arguments[i].duration

\* Mutant: the name does not tell the values apart.
KeptNameByKnob(i, v) == <<Arguments[i].base, Knob(ProfileAt(i))>>

KeptName(i, v) == <<Arguments[i].base, Knob(ProfileAt(i)), v>>

\* A copy replaces the file of its name.
CopiedTo(name, encode) ==
  [n \in DOMAIN kept \cup {name} |-> IF n = name THEN encode ELSE kept[n]]

-----------------------------------------------------------------------------
\* The loop over the files. A file that cannot be probed, or that the policy
\* skips, is passed over.
PassOver == /\ at = "file" /\ file <= Len(Arguments) /\ ~cancelled
            /\ file' = file + 1
            /\ UNCHANGED <<options, at, value, temps, reference, output, rows, report, kept, qualityVars>>

BenchFile == /\ at = "file" /\ file <= Len(Arguments) /\ ~cancelled
             /\ ShouldTranscode(Decide(Arguments[file].media, options.grain))
             /\ at' = IF options.score /\ Clipped(file) THEN "clip" ELSE "value"
             /\ reference' = Arguments[file].duration
             /\ UNCHANGED <<options, file, value, temps, output, rows, report, kept, qualityVars>>

\* The loop ends or breaks, and the command returns.
BenchReturns == /\ at = "file" /\ (file > Len(Arguments) \/ cancelled)
                /\ at' = "done"
                /\ UNCHANGED <<options, file, value, temps, reference, output, rows, report, kept, qualityVars>>

ClipSource == /\ at = "clip"
              /\ temps' = temps \cup {"ref"}
              /\ reference' = EffectiveDuration(file)
              /\ at' = "value"
              /\ UNCHANGED <<options, file, value, output, rows, report, kept, qualityVars>>

\* Mutant: a clip that fails is scored against the whole source.
ClipFailsSilently == /\ at = "clip"
                     /\ at' = "value"
                     /\ UNCHANGED <<options, file, value, temps, reference, output, rows, report, kept, qualityVars>>

\* ffmpeg fails or is killed; the directory is removed, the file given up.
ClipFails == /\ at = "clip"
             /\ at' = "file" /\ file' = file + 1
             /\ UNCHANGED <<options, value, temps, reference, output, rows, report, kept, qualityVars>>

-----------------------------------------------------------------------------
\* The loop over the values.
BenchOne == /\ at = "value" /\ value <= Len(Values) /\ ~cancelled
            /\ temps' = temps \cup {"out"}
            /\ at' = "encode"
            /\ UNCHANGED <<options, file, value, reference, output, rows, report, kept, qualityVars>>

\* Mutant: a sweep that was interrupted is not cleaned up after.
EndFileUnclean == /\ at = "value" /\ (value > Len(Values) \/ cancelled)
                  /\ at' = "file" /\ file' = file + 1 /\ value' = 1
                  /\ temps' = IF cancelled THEN temps ELSE {}
                  /\ report' = report \o rows
                  /\ rows' = <<>>
                  /\ UNCHANGED <<options, reference, output, kept, qualityVars>>

\* The rows are printed and appended; the deferred cleanup removes the clip.
EndFile == /\ at = "value" /\ (value > Len(Values) \/ cancelled)
           /\ at' = "file" /\ file' = file + 1 /\ value' = 1
           /\ temps' = {}
           /\ report' = report \o rows
           /\ rows' = <<>>
           /\ UNCHANGED <<options, reference, output, kept, qualityVars>>

\* benchOne returns: its directory is removed.
NextValue == /\ at' = "value" /\ value' = value + 1
             /\ temps' = temps \ {"out"}

\* The encode, its probe, its scoring or its copy fails: no row.
GiveUp == /\ \/ at \in {"encode", "keep"}
             \/ at = "score" /\ compare = "idle" /\ outcome # "score"
          /\ NextValue
          /\ at = "keep" => options.keep
          /\ IF at = "keep"   \* what was copied stays
             THEN kept' = CopiedTo(KeptName(file, Values[value]), NoOutput)
             ELSE UNCHANGED kept
          /\ UNCHANGED <<options, file, reference, output, rows, report, qualityVars>>

\* RunFFmpeg and the probe of its output; Compare is called on both files. What an
\* earlier Compare abandoned is followed no further.
Encode == /\ at = "encode"
          /\ output' = [length  |-> EffectiveDuration(file),
                        quality |-> QualityArg(ProfileAt(file),
                                      QualityWith(Knob(ProfileAt(file)), Values[value]))]
          /\ IF options.score
             THEN /\ at' = "score"
                  /\ compare' = "prepare" /\ outcome' = "none"
                  /\ decoder' = [d \in Pipe |-> "none"] /\ vmaf' = "none"
             ELSE at' = "keep" /\ UNCHANGED <<compare, outcome, processVars>>
          /\ UNCHANGED <<options, file, value, temps, reference, rows, report, kept, cancelled>>

Scored == /\ at = "score" /\ compare = "idle" /\ outcome = "score"
          /\ at' = "keep"
          /\ UNCHANGED <<options, file, value, temps, reference, output, rows, report, kept, qualityVars>>

\* The output is copied over whatever has its name, and the row is complete.
AddRow == /\ at = "keep"
          /\ NextValue
          /\ kept' = IF options.keep THEN CopiedTo(KeptName(file, Values[value]), output) ELSE kept
          /\ rows' = Append(rows, [file |-> file, value |-> value, output |-> output,
                                   scored |-> outcome = "score"])
          /\ UNCHANGED <<options, file, reference, output, report, qualityVars>>

Interrupt == /\ ~cancelled /\ at # "done"
             /\ cancelled' = TRUE
             /\ UNCHANGED <<options, sweep, compare, processVars, outcome>>

BenchStep == \/ PassOver \/ BenchFile \/ BenchReturns
             \/ ClipSource \/ ClipFails
             \/ BenchOne \/ EndFile
             \/ GiveUp \/ Encode \/ Scored \/ AddRow

Scoring(step) == step /\ UNCHANGED <<options, sweep>>

BenchNext == BenchStep \/ Interrupt \/ Scoring(QualityStep)

BenchSpec == BenchInit /\ [][BenchNext]_benchVars

\* The command goes on, ffmpeg and vmaf do while nothing blocks them.
FairBenchSpec == /\ BenchSpec
                 /\ WF_benchVars(BenchStep)
                 /\ WF_benchVars(Scoring(CompareStep))
                 /\ WF_benchVars(Scoring(ProcessesGoOn))

-----------------------------------------------------------------------------
BenchTypeOK ==
  /\ options \in [clip : Clip, grain : BOOLEAN, score : BOOLEAN, keep : BOOLEAN]
  /\ at \in {"file", "clip", "value", "encode", "score", "keep", "done"}
  /\ compare \in {"idle", "prepare", "decode", "vmaf", "waitRef", "waitDist"}
  /\ decoder \in [Pipe -> Decoder] /\ vmaf \in Vmaf
  /\ outcome \in {"none", "score", "failed", "abandoned"}
  /\ file \in 1..Len(Arguments) + 1 /\ value \in 1..Len(Values) + 1
  /\ temps \subseteq {"ref", "out"}
  /\ reference \in Nat /\ output \in Output
  /\ rows \in Seq(Row) /\ report \in Seq(Row)

\* An encode is scored "against a same-length reference", with every combination
\* of --clip and the lengths of the files (bench.go:135-137).
LengthsMatch == compare # "idle" => output.length = reference

\* A row of the report is about an encode at the value it names, through the knob,
\* the configuration and the arguments of the file's profile, and scored when
\* scores were asked for (bench.go:29-50, 179-180, 217-228, args.go:42-117). The rows
\* follow the files and the values in order, each pair once at most, whichever of
\* them failed.
Before(r, s) == r.file < s.file \/ (r.file = s.file /\ r.value < s.value)

IsTrue(r) == r.output.quality = Values[r.value] /\ r.scored = options.score

RowsAreTrue ==
  /\ \A i \in DOMAIN report : IsTrue(report[i])
  /\ \A i, j \in DOMAIN report : i < j => Before(report[i], report[j])

\* With --keep-outputs, the encode of every row is kept and no other replaces it,
\* unless another file has both its base name and its profile (bench.go:230-236).
NamedApart(f) ==
  \A g \in DOMAIN Arguments \ {f} :
     <<Arguments[g].base, ProfileAt(g)>> # <<Arguments[f].base, ProfileAt(f)>>

IsKept(r) == LET name == KeptName(r.file, Values[r.value])
             IN name \in DOMAIN kept /\ kept[name] = r.output

KeptAreOwn ==
  options.keep =>
    \A i \in DOMAIN report : NamedApart(report[i].file) => IsKept(report[i])

\* bench comes to its end, unless Compare hangs on a pipe whose other end never
\* came: the three processes are started before any of them is waited for, so that
\* none waits for one that comes later (quality.go:68-88).
BenchEnds == <>(at = "done" \/ (compare # "idle" /\ Forsaken))

\* An interrupt ends it wherever it is, a Compare that hangs included: ffmpeg and
\* vmaf are killed (quality.go:97, 126, bench.go:105, 157, 272).
InterruptEnds == cancelled ~> at = "done"

-----------------------------------------------------------------------------
(* The inductive invariant.                                                  *)

\* However a file or a value ends, an interrupt included, its temp directory goes
\* with it (bench.go:144, 186, 276).
TempsAreInUse == /\ "out" \in temps => at \in {"encode", "score", "keep"}
                 /\ "ref" \in temps => at \in {"value", "encode", "score", "keep"}

\* A file that is swept is there and has a profile, a value that is tried is there.
SweepInv == /\ at \notin {"file", "done"} =>
                 file \in DOMAIN Arguments /\ ProfileAt(file) \in Profile
            /\ at \in {"encode", "score", "keep"} => value \in DOMAIN Values

\* Compare runs only where scores are asked for, on an encode as long as its
\* reference and made at the value at hand; and nothing unscored goes by as scored.
ScoringInv ==
  /\ compare # "idle" => at = "score"
  /\ (at = "score" \/ outcome # "none") => options.score
  /\ (options.score /\ at \in {"value", "encode", "score", "keep"}) =>
        reference = EffectiveDuration(file)
  /\ at = "score" => output.length = EffectiveDuration(file)
  /\ at \in {"score", "keep"} => output.quality = Values[value]
  /\ (at = "keep" /\ options.score) => outcome = "score"

\* The rows of the file at hand are of the values before the one at hand.
RowsInv ==
  /\ at \in {"file", "clip", "done"} => rows = <<>>
  /\ \A i \in DOMAIN rows : rows[i].file = file /\ rows[i].value < value /\ IsTrue(rows[i])
  /\ \A i, j \in DOMAIN rows : i < j => Before(rows[i], rows[j])
  /\ \A i \in DOMAIN report : report[i].file < file
  /\ RowsAreTrue

\* Every row's file has a profile; and the rows at hand are kept as the report's are,
\* unless a value is given twice and its second copy fails half-way.
KeptInv ==
  /\ \A i \in DOMAIN rows : ProfileAt(rows[i].file) \in Profile
  /\ \A i \in DOMAIN report : ProfileAt(report[i].file) \in Profile
  /\ (options.keep /\ IsInjective(Values)) =>
       /\ \A i \in DOMAIN rows : NamedApart(rows[i].file) => IsKept(rows[i])
       /\ KeptAreOwn

BenchInv == /\ BenchTypeOK
            /\ TempsAreInUse
            /\ SweepInv
            /\ CompareInv
            /\ ScoringInv
            /\ RowsInv
            /\ KeptInv
=============================================================================
