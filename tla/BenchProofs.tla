----------------------------- MODULE BenchProofs -----------------------------
(***************************************************************************)
(* For any files, values, lengths and media: every encode is scored against *)
(* a reference of its length, and every row says what was done.             *)
(***************************************************************************)
EXTENDS Bench, SequenceTheorems, TLAPS

-----------------------------------------------------------------------------
(* Sequences of rows.                                                         *)

LEMMA AppendParts ==
  ASSUME NEW S, NEW s \in Seq(S), NEW e \in S, NEW t, t = Append(s, e)
  PROVE  /\ t \in Seq(S)
         /\ \A i \in DOMAIN t : (i \in DOMAIN s /\ t[i] = s[i]) \/ t[i] = e
         /\ \A i, j \in DOMAIN t : i < j =>
              i \in DOMAIN s /\ t[i] = s[i] /\ ((j \in DOMAIN s /\ t[j] = s[j]) \/ t[j] = e)
<1>1. /\ t \in Seq(S) /\ Len(t) = Len(s) + 1 /\ Len(s) \in Nat
      /\ DOMAIN t = 1..Len(s) + 1 /\ DOMAIN s = 1..Len(s)
  BY LenProperties
<1>2. \A i \in 1..Len(s) : t[i] = s[i]
  OBVIOUS
<1>3. t[Len(s) + 1] = e
  OBVIOUS
<1> QED
  BY <1>1, <1>2, <1>3

\* The elements of t are those of s and then those of u, in their order.
Joins(t, s, u) ==
  /\ \A i \in DOMAIN t : \/ \E k \in DOMAIN s : t[i] = s[k]
                         \/ \E k \in DOMAIN u : t[i] = u[k]
  /\ \A i, j \in DOMAIN t : i < j =>
       \/ \E k, l \in DOMAIN s : k < l /\ t[i] = s[k] /\ t[j] = s[l]
       \/ \E k \in DOMAIN s, l \in DOMAIN u : t[i] = s[k] /\ t[j] = u[l]
       \/ \E k, l \in DOMAIN u : k < l /\ t[i] = u[k] /\ t[j] = u[l]

LEMMA ConcatParts ==
  ASSUME NEW S, NEW s \in Seq(S), NEW u \in Seq(S), NEW t, t = s \o u
  PROVE  t \in Seq(S) /\ Joins(t, s, u)
<1>1. /\ t \in Seq(S) /\ Len(t) = Len(s) + Len(u) /\ Len(s) \in Nat /\ Len(u) \in Nat
      /\ DOMAIN t = 1..Len(s) + Len(u) /\ DOMAIN s = 1..Len(s) /\ DOMAIN u = 1..Len(u)
  BY LenProperties, ConcatProperties
<1>2. \A i \in 1..Len(s) + Len(u) : t[i] = IF i <= Len(s) THEN s[i] ELSE u[i - Len(s)]
  BY ConcatProperties
<1>3. ASSUME NEW i \in DOMAIN t
      PROVE  \/ i \in DOMAIN s /\ t[i] = s[i]
             \/ i > Len(s) /\ i - Len(s) \in DOMAIN u /\ t[i] = u[i - Len(s)]
  BY <1>1, <1>2
<1>4. ASSUME NEW i \in DOMAIN t, NEW j \in DOMAIN t, i < j
      PROVE  \/ \E k, l \in DOMAIN s : k < l /\ t[i] = s[k] /\ t[j] = s[l]
             \/ \E k \in DOMAIN s, l \in DOMAIN u : t[i] = s[k] /\ t[j] = u[l]
             \/ \E k, l \in DOMAIN u : k < l /\ t[i] = u[k] /\ t[j] = u[l]
  <2>1. i \in Nat /\ j \in Nat
    BY <1>1
  <2>2. CASE i \in DOMAIN s /\ j \in DOMAIN s
    BY <1>1, <1>2, <1>4, <2>2
  <2>3. CASE i \in DOMAIN s /\ j \notin DOMAIN s
    BY <1>3, <2>3
  <2>4. CASE i \notin DOMAIN s
    <3>1. i - Len(s) \in DOMAIN u /\ t[i] = u[i - Len(s)] /\ i > Len(s)
      BY <1>3, <2>4
    <3>2. j - Len(s) \in DOMAIN u /\ t[j] = u[j - Len(s)]
      BY <1>1, <1>3, <1>4, <2>1, <3>1
    <3>3. i - Len(s) < j - Len(s)
      BY <1>1, <1>4, <2>1
    <3> QED
      BY <3>1, <3>2, <3>3
  <2> QED
    BY <2>2, <2>3, <2>4
<1> QED
  BY <1>1, <1>3, <1>4 DEF Joins

-----------------------------------------------------------------------------
(* The arguments.                                                             *)

LEMMA ArgumentFacts ==
  /\ Len(Arguments) \in Nat /\ DOMAIN Arguments = 1..Len(Arguments)
  /\ Len(Values) \in Nat /\ DOMAIN Values = 1..Len(Values)
  /\ \A i \in DOMAIN Values : Values[i] \in Int
  /\ \A i \in DOMAIN Arguments : Arguments[i].duration \in Nat
<1> DEFINE Argument == [base : STRING, media : MediaInfo, duration : Nat]
<1>1. Arguments \in Seq(Argument) /\ Values \in Seq(Int)
  BY BenchAssumption
<1>2. /\ Len(Arguments) \in Nat /\ DOMAIN Arguments = 1..Len(Arguments)
      /\ Len(Values) \in Nat /\ DOMAIN Values = 1..Len(Values)
  BY <1>1, LenProperties
<1>3. \A i \in DOMAIN Arguments : Arguments[i] \in Argument
  <2> HIDE DEF Argument
  <2> QED
    BY <1>1, <1>2, ElementOfSeq
<1>4. \A i \in DOMAIN Values : Values[i] \in Int
  BY <1>1, <1>2, ElementOfSeq
<1> QED
  BY <1>2, <1>3, <1>4

LEMMA Effective ==
  ASSUME BenchTypeOK, NEW i \in DOMAIN Arguments
  PROVE  /\ EffectiveDuration(i) \in Nat
         /\ ~Clipped(i) => EffectiveDuration(i) = Arguments[i].duration
<1>1. options.clip \in Nat
  BY BenchAssumption DEF BenchTypeOK
<1> QED
  BY <1>1, ArgumentFacts DEF EffectiveDuration, Clipped

\* The knob a profile's sweep turns is the one its arguments are made from, and
\* no other profile's.
LEMMA KnobTurns ==
  ASSUME NEW p \in Profile, NEW v
  PROVE  QualityArg(p, QualityWith(Knob(p), v)) = v
BY DEF Profile, Knob, QualityWith, QualityArg

LEMMA KnobsDiffer ==
  ASSUME NEW p \in Profile, NEW q \in Profile, Knob(p) = Knob(q) PROVE p = q
BY DEF Profile, Knob

LEMMA ProfileDecided ==
  ASSUME NEW i, ShouldTranscode(Decide(Arguments[i].media, options.grain))
  PROVE  ProfileAt(i) \in Profile
<1> DEFINE m == Arguments[i].media
<1>1. ProfileOf(m, options.grain) \in Profile
  BY DEF ProfileOf, Profile
<1>2. ~LeftAlone(m)
  BY DEF Decide, ShouldTranscode
<1> QED
  BY <1>1, <1>2 DEF ProfileAt, Decide

-----------------------------------------------------------------------------
(* Compare and its processes.                                                 *)

CompareTypeOK ==
  /\ compare \in {"idle", "prepare", "decode", "vmaf", "waitRef", "waitDist"}
  /\ decoder \in [Pipe -> Decoder] /\ vmaf \in Vmaf
  /\ outcome \in {"none", "score", "failed", "abandoned"}

LEMMA ProcessStep ==
  ASSUME CompareTypeOK, CompareInv,
         \/ ProcessesGoOn \/ VmafFails
         \/ \E d \in Pipe : DecoderFails(d)
  PROVE  CompareTypeOK' /\ CompareInv' /\ compare' = compare /\ outcome' = outcome
<1> USE DEF CompareTypeOK, CompareInv, ProcessesReaped, Quiet, VmafRuns, DecoderRuns, Pipe
<1>1. ASSUME NEW d \in Pipe, OpenPipe(d)
      PROVE  CompareTypeOK' /\ CompareInv' /\ compare' = compare /\ outcome' = outcome
  BY <1>1 DEF OpenPipe, Decoder, Vmaf
<1>2. ASSUME NEW d \in Pipe, DecoderDone(d)
      PROVE  CompareTypeOK' /\ CompareInv' /\ compare' = compare /\ outcome' = outcome
  BY <1>2 DEF DecoderDone, Decoder, Exited
<1>3. ASSUME NEW d \in Pipe, DecoderFails(d)
      PROVE  CompareTypeOK' /\ CompareInv' /\ compare' = compare /\ outcome' = outcome
  BY <1>3 DEF DecoderFails, Decoder, Exited
<1>4. CASE VmafDone \/ VmafFails
  BY <1>4 DEF VmafDone, VmafFails, Vmaf, Exited
<1>5. CASE Kill
  BY <1>5 DEF Kill, Vmaf, Decoder, Exited
<1> QED
  BY <1>1, <1>2, <1>3, <1>4, <1>5 DEF ProcessesGoOn

\* Compare does not start itself, and only what it returns changes the outcome.
LEMMA CompareSteps ==
  ASSUME CompareTypeOK, CompareInv, CompareStep \/ VmafMissing
  PROVE  CompareTypeOK' /\ CompareInv' /\ compare # "idle"
<1> USE DEF CompareTypeOK, CompareInv, ProcessesReaped, Quiet, VmafRuns, DecoderRuns, Pipe,
            Returns, processVars
<1>1. CASE Prepare
  BY <1>1 DEF Prepare
<1>2. CASE StartDecoders
  BY <1>2 DEF StartDecoders, Decoder
<1>3. CASE VmafMissing
  BY <1>3 DEF VmafMissing
<1>4. CASE RunVmaf
  BY <1>4 DEF RunVmaf, Vmaf, Exited
<1>5. CASE VmafReturns
  BY <1>5 DEF VmafReturns, Exited
<1>6. CASE SourceReturns
  BY <1>6 DEF SourceReturns
<1>7. CASE EncodedReturns
  BY <1>7 DEF EncodedReturns
<1> QED
  BY <1>1, <1>2, <1>3, <1>4, <1>5, <1>6, <1>7 DEF CompareStep

LEMMA QualityStepFacts ==
  ASSUME CompareTypeOK, CompareInv, QualityStep
  PROVE  /\ CompareTypeOK' /\ CompareInv'
         /\ compare = "idle" => compare' = "idle" /\ outcome' = outcome
<1>1. CASE CompareStep \/ VmafMissing
  BY <1>1, CompareSteps
<1>2. CASE ProcessesGoOn \/ VmafFails \/ \E d \in Pipe : DecoderFails(d)
  BY <1>2, ProcessStep
<1> QED
  BY <1>1, <1>2 DEF QualityStep

LEMMA QualityKeepsInv ==
  ASSUME BenchInv, Scoring(QualityStep)
  PROVE  BenchInv'
<1>1. CompareTypeOK /\ CompareInv /\ QualityStep /\ UNCHANGED <<options, sweep>>
  BY DEF BenchInv, BenchTypeOK, CompareTypeOK, Scoring
<1>2. /\ CompareTypeOK' /\ CompareInv'
      /\ compare = "idle" => compare' = "idle" /\ outcome' = outcome
  BY <1>1, QualityStepFacts
<1>3. UNCHANGED <<options, at, file, value, temps, reference, output, rows, report, kept>>
  BY <1>1 DEF sweep
<1>4. BenchTypeOK' /\ TempsAreInUse' /\ SweepInv'
  BY <1>2, <1>3 DEF BenchInv, BenchTypeOK, CompareTypeOK, TempsAreInUse, SweepInv, ProfileAt
<1>5. ScoringInv'
  BY <1>1, <1>2, <1>3 DEF BenchInv, ScoringInv, EffectiveDuration
<1>6. RowsInv' /\ KeptInv'
  BY <1>3 DEF BenchInv, RowsInv, RowsAreTrue, IsTrue, KeptInv, KeptAreOwn, IsKept,
      KeptName, NamedApart, ProfileAt
<1> QED
  BY <1>2, <1>4, <1>5, <1>6 DEF BenchInv

-----------------------------------------------------------------------------
(* The sweep.                                                                 *)

\* A step that adds no row and keeps no file; when it leaves a file or goes back to
\* an earlier value there is no row at hand.
LEMMA RowsStand ==
  ASSUME BenchInv, UNCHANGED <<options, rows, report, kept>>,
         file' \in Nat, value' \in Nat, file <= file',
         rows # <<>> => file' = file /\ value <= value',
         at' \in {"file", "clip", "done"} => rows = <<>>
  PROVE  RowsInv' /\ KeptInv'
<1>1. /\ rows \in Seq(Row) /\ report \in Seq(Row) /\ file \in Nat /\ value \in Nat
  BY ArgumentFacts DEF BenchInv, BenchTypeOK
<1>2. /\ \A i \in DOMAIN rows : rows[i] \in Row
      /\ \A i \in DOMAIN report : report[i] \in Row
  BY <1>1, ElementOfSeq, LenProperties
<1>3. /\ \A i \in DOMAIN rows : rows[i].value \in Nat
      /\ \A i \in DOMAIN report : report[i].file \in Nat
  BY <1>2, ArgumentFacts DEF Row
<1>4. \A i \in DOMAIN rows : rows # <<>>
  BY <1>1, EmptySeq, LenProperties
<1>5. RowsInv'
  BY <1>1, <1>3, <1>4 DEF BenchInv, RowsInv, RowsAreTrue, IsTrue
<1>6. KeptInv'
  BY DEF BenchInv, KeptInv, KeptAreOwn, IsKept,
      KeptName, NamedApart, ProfileAt
<1> QED
  BY <1>5, <1>6

\* What Compare left, while the command goes on without it.
LEMMA CompareStands ==
  ASSUME BenchInv, UNCHANGED qualityVars
  PROVE  CompareTypeOK' /\ CompareInv'
BY DEF BenchInv, BenchTypeOK, CompareTypeOK, CompareInv, ProcessesReaped, Quiet, VmafRuns,
       DecoderRuns, qualityVars, processVars

LEMMA TypesNow ==
  ASSUME BenchInv
  PROVE  /\ file \in Nat /\ file <= Len(Arguments) + 1 /\ file >= 1
         /\ value \in Nat /\ value <= Len(Values) + 1 /\ value >= 1
         /\ Len(Arguments) \in Nat /\ Len(Values) \in Nat
         /\ at \notin {"file", "done"} => file <= Len(Arguments) /\ file \in DOMAIN Arguments
         /\ at \in {"encode", "score", "keep"} =>
              value <= Len(Values) /\ value \in DOMAIN Values /\ Values[value] \in Int
<1>1. /\ file \in 1..Len(Arguments) + 1 /\ value \in 1..Len(Values) + 1
      /\ Len(Arguments) \in Nat /\ Len(Values) \in Nat
  BY ArgumentFacts DEF BenchInv, BenchTypeOK
<1>2. ASSUME at \notin {"file", "done"} PROVE file <= Len(Arguments) /\ file \in DOMAIN Arguments
  BY <1>1, <1>2, ArgumentFacts DEF BenchInv, SweepInv
<1>3. ASSUME at \in {"encode", "score", "keep"}
      PROVE  value <= Len(Values) /\ value \in DOMAIN Values /\ Values[value] \in Int
  BY <1>1, <1>3, ArgumentFacts DEF BenchInv, SweepInv
<1> QED
  BY <1>1, <1>2, <1>3

LEMMA BetweenFiles ==
  ASSUME BenchInv, PassOver \/ BenchReturns \/ ClipFails
  PROVE  BenchInv'
<1>1. /\ UNCHANGED <<options, value, temps, reference, output, rows, report, kept, qualityVars>>
      /\ at \in {"file", "clip"} /\ at' \in {"file", "done"}
      /\ file' = file \/ file' = file + 1
      /\ file' = file + 1 => file <= Len(Arguments) \/ at = "clip"
  <2>1. CASE PassOver
    BY <2>1, TypesNow DEF PassOver
  <2>2. CASE BenchReturns
    BY <2>2, TypesNow DEF BenchReturns
  <2>3. CASE ClipFails
    BY <2>3, TypesNow DEF ClipFails
  <2> QED
    BY <2>1, <2>2, <2>3
<1>2. CompareTypeOK' /\ CompareInv'
  BY <1>1, CompareStands
<1>3. file' \in 1..Len(Arguments) + 1 /\ file' \in Nat /\ file <= file'
  BY <1>1, TypesNow
<1>4. BenchTypeOK' /\ TempsAreInUse' /\ SweepInv'
  BY <1>1, <1>2, <1>3 DEF BenchInv, BenchTypeOK, CompareTypeOK, TempsAreInUse, SweepInv, ProfileAt
<1>5. ScoringInv'
  BY <1>1 DEF BenchInv, ScoringInv, qualityVars
<1>6. rows = <<>>
  BY <1>1 DEF BenchInv, RowsInv
<1>7. RowsInv' /\ KeptInv'
  BY <1>1, <1>3, <1>6, TypesNow, RowsStand
<1> QED
  BY <1>2, <1>4, <1>5, <1>7 DEF BenchInv

LEMMA BenchFileKeepsInv ==
  ASSUME BenchInv, BenchFile
  PROVE  BenchInv'
<1>1. /\ UNCHANGED <<options, file, value, temps, output, rows, report, kept, qualityVars>>
      /\ at = "file" /\ file <= Len(Arguments)
      /\ at' = IF options.score /\ Clipped(file) THEN "clip" ELSE "value"
      /\ reference' = Arguments[file].duration
      /\ ShouldTranscode(Decide(Arguments[file].media, options.grain))
  BY DEF BenchFile
<1>2. CompareTypeOK' /\ CompareInv'
  BY <1>1, CompareStands
<1>3. /\ file \in DOMAIN Arguments /\ ProfileAt(file) \in Profile
      /\ reference' \in Nat
      /\ ~Clipped(file) => reference' = EffectiveDuration(file)
  <2>1. file \in DOMAIN Arguments
    BY <1>1, TypesNow, ArgumentFacts
  <2> QED
    BY <1>1, <2>1, ArgumentFacts, Effective, ProfileDecided DEF BenchInv
<1>4. BenchTypeOK' /\ TempsAreInUse' /\ SweepInv'
  BY <1>1, <1>2, <1>3 DEF BenchInv, BenchTypeOK, CompareTypeOK, TempsAreInUse, SweepInv, ProfileAt
<1>5. ScoringInv'
  BY <1>1, <1>3 DEF BenchInv, ScoringInv, qualityVars, EffectiveDuration
<1>6. rows = <<>>
  BY <1>1 DEF BenchInv, RowsInv
<1>7. RowsInv' /\ KeptInv'
  BY <1>1, <1>6, TypesNow, RowsStand
<1> QED
  BY <1>2, <1>4, <1>5, <1>7 DEF BenchInv

LEMMA ClipSourceKeepsInv ==
  ASSUME BenchInv, ClipSource
  PROVE  BenchInv'
<1>1. /\ UNCHANGED <<options, file, value, output, rows, report, kept, qualityVars>>
      /\ at = "clip" /\ at' = "value"
      /\ temps' = temps \cup {"ref"} /\ reference' = EffectiveDuration(file)
  BY DEF ClipSource
<1>2. CompareTypeOK' /\ CompareInv'
  BY <1>1, CompareStands
<1>3. reference' \in Nat /\ EffectiveDuration(file)' = EffectiveDuration(file)
  BY <1>1, TypesNow, Effective DEF BenchInv, EffectiveDuration
<1>4. BenchTypeOK' /\ TempsAreInUse' /\ SweepInv'
  BY <1>1, <1>2, <1>3 DEF BenchInv, BenchTypeOK, CompareTypeOK, TempsAreInUse, SweepInv, ProfileAt
<1>5. ScoringInv'
  BY <1>1, <1>3 DEF BenchInv, ScoringInv, qualityVars
<1>6. rows = <<>>
  BY <1>1 DEF BenchInv, RowsInv
<1>7. RowsInv' /\ KeptInv'
  BY <1>1, <1>6, TypesNow, RowsStand
<1> QED
  BY <1>2, <1>4, <1>5, <1>7 DEF BenchInv

LEMMA BenchOneKeepsInv ==
  ASSUME BenchInv, BenchOne
  PROVE  BenchInv'
<1>1. /\ UNCHANGED <<options, file, value, reference, output, rows, report, kept, qualityVars>>
      /\ at = "value" /\ at' = "encode" /\ value <= Len(Values)
      /\ temps' = temps \cup {"out"}
  BY DEF BenchOne
<1>2. CompareTypeOK' /\ CompareInv'
  BY <1>1, CompareStands
<1>3. value \in DOMAIN Values
  BY <1>1, TypesNow, ArgumentFacts
<1>4. BenchTypeOK' /\ TempsAreInUse' /\ SweepInv'
  BY <1>1, <1>2, <1>3 DEF BenchInv, BenchTypeOK, CompareTypeOK, TempsAreInUse, SweepInv, ProfileAt
<1>5. ScoringInv'
  BY <1>1 DEF BenchInv, ScoringInv, qualityVars, EffectiveDuration
<1>6. RowsInv' /\ KeptInv'
  BY <1>1, TypesNow, RowsStand
<1> QED
  BY <1>2, <1>4, <1>5, <1>6 DEF BenchInv

LEMMA ScoredKeepsInv ==
  ASSUME BenchInv, Scored
  PROVE  BenchInv'
<1>1. /\ UNCHANGED <<options, file, value, temps, reference, output, rows, report, kept, qualityVars>>
      /\ at = "score" /\ at' = "keep" /\ compare = "idle" /\ outcome = "score"
  BY DEF Scored
<1>2. CompareTypeOK' /\ CompareInv'
  BY <1>1, CompareStands
<1>3. BenchTypeOK' /\ TempsAreInUse' /\ SweepInv'
  BY <1>1, <1>2 DEF BenchInv, BenchTypeOK, CompareTypeOK, TempsAreInUse, SweepInv, ProfileAt
<1>4. ScoringInv'
  BY <1>1 DEF BenchInv, ScoringInv, qualityVars, EffectiveDuration
<1>5. RowsInv' /\ KeptInv'
  BY <1>1, TypesNow, RowsStand
<1> QED
  BY <1>2, <1>3, <1>4, <1>5 DEF BenchInv

LEMMA EncodeKeepsInv ==
  ASSUME BenchInv, Encode
  PROVE  BenchInv'
<1> DEFINE q == QualityArg(ProfileAt(file), QualityWith(Knob(ProfileAt(file)), Values[value]))
<1>1. /\ UNCHANGED <<options, file, value, temps, reference, rows, report, kept, cancelled>>
      /\ at = "encode"
      /\ output' = [length |-> EffectiveDuration(file), quality |-> q]
  BY DEF Encode
<1>2. \/ /\ options.score /\ at' = "score" /\ compare' = "prepare" /\ outcome' = "none"
         /\ decoder' = [d \in Pipe |-> "none"] /\ vmaf' = "none"
      \/ /\ ~options.score /\ at' = "keep" /\ UNCHANGED <<compare, outcome, processVars>>
  BY DEF Encode
<1>3. q = Values[value] /\ Values[value] \in Int /\ EffectiveDuration(file) \in Nat
  <2>1. ProfileAt(file) \in Profile
    BY <1>1 DEF BenchInv, SweepInv
  <2> QED
    BY <1>1, <2>1, KnobTurns, TypesNow, Effective DEF BenchInv
<1> HIDE DEF q
<1>4. /\ output' \in Output /\ output'.length = EffectiveDuration(file)
      /\ output'.quality = Values[value] /\ EffectiveDuration(file)' = EffectiveDuration(file)
  BY <1>1, <1>3 DEF Output, EffectiveDuration
<1>5. CompareTypeOK' /\ CompareInv'
  <2>1. CASE options.score
    BY <1>2, <2>1 DEF CompareTypeOK, CompareInv, ProcessesReaped, Quiet, VmafRuns, DecoderRuns,
                      Decoder, Vmaf
  <2>2. CASE ~options.score
    <3>1. UNCHANGED qualityVars
      BY <1>1, <1>2, <2>2 DEF qualityVars
    <3> QED
      BY <3>1, CompareStands
  <2> QED
    BY <2>1, <2>2
<1>6. BenchTypeOK' /\ TempsAreInUse' /\ SweepInv'
  BY <1>1, <1>2, <1>4, <1>5 DEF BenchInv, BenchTypeOK, CompareTypeOK, TempsAreInUse, SweepInv, ProfileAt
<1>7. ScoringInv'
  BY <1>1, <1>2, <1>4 DEF BenchInv, ScoringInv
<1>8. RowsInv' /\ KeptInv'
  BY <1>1, <1>2, TypesNow, RowsStand
<1> QED
  BY <1>5, <1>6, <1>7, <1>8 DEF BenchInv

LEMMA EndFileKeepsInv ==
  ASSUME BenchInv, EndFile
  PROVE  BenchInv'
<1>1. /\ UNCHANGED <<options, reference, output, kept, qualityVars>>
      /\ at = "value" /\ at' = "file" /\ file' = file + 1 /\ value' = 1
      /\ temps' = {} /\ report' = report \o rows /\ rows' = <<>>
  BY DEF EndFile
<1>2. CompareTypeOK' /\ CompareInv'
  BY <1>1, CompareStands
<1>3. file \in Nat /\ file' \in 1..Len(Arguments) + 1 /\ value' \in 1..Len(Values) + 1
  BY <1>1, TypesNow
<1>4. rows \in Seq(Row) /\ report \in Seq(Row)
  BY DEF BenchInv, BenchTypeOK
<1>5. /\ report' \in Seq(Row)
      /\ \A i \in DOMAIN report' : \/ \E k \in DOMAIN report : report'[i] = report[k]
                                   \/ \E k \in DOMAIN rows : report'[i] = rows[k]
      /\ \A i, j \in DOMAIN report' : i < j =>
           \/ \E k, l \in DOMAIN report : k < l /\ report'[i] = report[k] /\ report'[j] = report[l]
           \/ \E k \in DOMAIN report, l \in DOMAIN rows :
                report'[i] = report[k] /\ report'[j] = rows[l]
           \/ \E k, l \in DOMAIN rows : k < l /\ report'[i] = rows[k] /\ report'[j] = rows[l]
  <2>1. report' \in Seq(Row) /\ Joins(report', report, rows)
    BY <1>1, <1>4, ConcatParts
  <2> QED
    BY <2>1 DEF Joins
<1>6. rows' \in Seq(Row) /\ DOMAIN rows' = {}
  BY <1>1, EmptySeq, LenProperties
<1>7. BenchTypeOK' /\ TempsAreInUse' /\ SweepInv'
  BY <1>1, <1>2, <1>3, <1>5, <1>6
     DEF BenchInv, BenchTypeOK, CompareTypeOK, TempsAreInUse, SweepInv, ProfileAt
<1>8. ScoringInv'
  BY <1>1 DEF BenchInv, ScoringInv, qualityVars
<1>9. RowsInv'
  <2>1. \A k \in DOMAIN report : report[k].file \in Nat
    <3>1. \A k \in DOMAIN report : report[k] \in Row
      BY <1>4, ElementOfSeq, LenProperties
    <3> QED
      BY <3>1, ArgumentFacts DEF Row
  <2>2. \A i \in DOMAIN report' : report'[i].file < file' /\ IsTrue(report'[i])
    BY <1>1, <1>3, <1>5, <2>1 DEF BenchInv, RowsInv, RowsAreTrue
  <2>3. \A i, j \in DOMAIN report' : i < j => Before(report'[i], report'[j])
    <3>1. /\ \A k, l \in DOMAIN report : k < l => Before(report[k], report[l])
          /\ \A k, l \in DOMAIN rows : k < l => Before(rows[k], rows[l])
      BY DEF BenchInv, RowsInv, RowsAreTrue
    <3>2. \A k \in DOMAIN report, l \in DOMAIN rows : Before(report[k], rows[l])
      BY DEF BenchInv, RowsInv, Before
    <3> QED
      BY <1>5, <3>1, <3>2
  <2>4. (\A i \in DOMAIN report : IsTrue(report[i]))'
    BY <1>1, <2>2 DEF IsTrue
  <2>5. (\A i, j \in DOMAIN report : i < j => Before(report[i], report[j]))'
    BY <2>3 DEF Before
  <2> QED
    BY <1>1, <1>6, <2>2, <2>4, <2>5 DEF RowsInv, RowsAreTrue
<1>10. KeptInv'
  <2>1. \A i \in DOMAIN report' : ProfileAt(report'[i].file) \in Profile
    BY <1>5 DEF BenchInv, KeptInv
  <2>2. ASSUME options.keep, IsInjective(Values), NEW i \in DOMAIN report',
               NamedApart(report'[i].file)
        PROVE  IsKept(report'[i])
    BY <1>5, <2>2 DEF BenchInv, KeptInv, KeptAreOwn
  <2> QED
    BY <1>1, <1>6, <2>1, <2>2 DEF KeptInv, KeptAreOwn, IsKept,
      KeptName, NamedApart, ProfileAt
<1> QED
  BY <1>2, <1>7, <1>8, <1>9, <1>10 DEF BenchInv

-----------------------------------------------------------------------------
(* What is kept.                                                              *)

\* The name that the encode at hand is kept under is no earlier row's.
LEMMA FreshName ==
  ASSUME BenchInv, at = "keep", IsInjective(Values),
         NEW r \in Row, NamedApart(r.file), ProfileAt(r.file) \in Profile,
         r.file < file \/ (r.file = file /\ r.value < value)
  PROVE  KeptName(r.file, Values[r.value]) # KeptName(file, Values[value])
<1>1. /\ file \in DOMAIN Arguments /\ value \in DOMAIN Values
      /\ ProfileAt(file) \in Profile /\ file \in Nat /\ value \in Nat
  BY TypesNow DEF BenchInv, SweepInv
<1>2. r.file \in DOMAIN Arguments /\ r.value \in DOMAIN Values /\ r.file \in Nat /\ r.value \in Nat
  BY ArgumentFacts DEF Row
<1> DEFINE f == r.file
           v == r.value
<1> HIDE DEF f, v
<1>3. /\ f \in DOMAIN Arguments /\ v \in DOMAIN Values /\ f \in Nat /\ v \in Nat
      /\ NamedApart(f) /\ ProfileAt(f) \in Profile /\ (f < file \/ (f = file /\ v < value))
  BY <1>2 DEF f, v
<1>4. CASE f = file
  <2>1. Values[v] # Values[value]
    <3>1. v # value
      BY <1>1, <1>3, <1>4
    <3> QED
      BY <1>1, <1>3, <3>1 DEF IsInjective
  <2>2. KeptName(f, Values[v]) # KeptName(file, Values[value])
    BY <2>1 DEF KeptName
  <2> QED
    BY <2>2 DEF f, v
<1>5. CASE f # file
  <2>1. <<Arguments[file].base, ProfileAt(file)>> # <<Arguments[f].base, ProfileAt(f)>>
    BY <1>1, <1>3, <1>5 DEF NamedApart
  <2>2. Arguments[file].base # Arguments[f].base \/ Knob(ProfileAt(file)) # Knob(ProfileAt(f))
    BY <1>1, <1>3, <2>1, KnobsDiffer
  <2>3. KeptName(f, Values[v]) # KeptName(file, Values[value])
    BY <2>2 DEF KeptName
  <2> QED
    BY <2>3 DEF f, v
<1> QED
  BY <1>4, <1>5

LEMMA CopyKeeps ==
  ASSUME NEW r, NEW name, NEW encode, IsKept(r), kept' = CopiedTo(name, encode),
         KeptName(r.file, Values[r.value]) # name, UNCHANGED options
  PROVE  IsKept(r)'
BY DEF IsKept, CopiedTo, KeptName, ProfileAt

\* Whatever is copied, or half copied, what earlier rows are about stays.
LEMMA EarlierAreKept ==
  ASSUME BenchInv, at = "keep", IsInjective(Values), options.keep,
         NEW encode, kept' = CopiedTo(KeptName(file, Values[value]), encode),
         UNCHANGED options
  PROVE  \A r \in Row :
           (NamedApart(r.file) /\ \/ \E i \in DOMAIN rows : r = rows[i]
                                  \/ \E i \in DOMAIN report : r = report[i])
             => IsKept(r)'
<1> SUFFICES ASSUME NEW r \in Row, NamedApart(r.file),
                    \/ \E i \in DOMAIN rows : r = rows[i]
                    \/ \E i \in DOMAIN report : r = report[i]
             PROVE  IsKept(r)'
  OBVIOUS
<1>1. /\ IsKept(r) /\ ProfileAt(r.file) \in Profile
      /\ r.file < file \/ (r.file = file /\ r.value < value)
  BY DEF BenchInv, RowsInv, KeptInv, KeptAreOwn
<1>2. KeptName(r.file, Values[r.value]) # KeptName(file, Values[value])
  BY <1>1, FreshName
<1> QED
  BY <1>1, <1>2, CopyKeeps

LEMMA RowsOfRow ==
  ASSUME BenchInv
  PROVE  /\ rows \in Seq(Row) /\ report \in Seq(Row)
         /\ \A i \in DOMAIN rows : rows[i] \in Row
         /\ \A i \in DOMAIN report : report[i] \in Row
<1>1. rows \in Seq(Row) /\ report \in Seq(Row)
  BY DEF BenchInv, BenchTypeOK
<1> QED
  BY <1>1, ElementOfSeq, LenProperties

LEMMA GiveUpKeepsInv ==
  ASSUME BenchInv, GiveUp
  PROVE  BenchInv'
<1>1. /\ UNCHANGED <<options, file, reference, output, rows, report, qualityVars>>
      /\ at \in {"encode", "score", "keep"}
      /\ at = "score" => compare = "idle"
      /\ at' = "value" /\ value' = value + 1 /\ temps' = temps \ {"out"}
      /\ at # "keep" => UNCHANGED kept
      /\ at = "keep" => options.keep /\ kept' = CopiedTo(KeptName(file, Values[value]), NoOutput)
  BY DEF GiveUp, NextValue
<1>2. CompareTypeOK' /\ CompareInv'
  BY <1>1, CompareStands
<1>3. /\ value' \in 1..Len(Values) + 1 /\ value' \in Nat /\ value <= value' /\ value \in Nat
      /\ file \in Nat
  BY <1>1, TypesNow
<1>4. BenchTypeOK' /\ TempsAreInUse' /\ SweepInv'
  BY <1>1, <1>2, <1>3 DEF BenchInv, BenchTypeOK, CompareTypeOK, TempsAreInUse, SweepInv, ProfileAt
<1>5. ScoringInv'
  BY <1>1 DEF BenchInv, ScoringInv, qualityVars, EffectiveDuration
<1>6. CASE at # "keep"
  BY <1>1, <1>2, <1>3, <1>4, <1>5, <1>6, RowsStand DEF BenchInv
<1>7. CASE at = "keep"
  <2>1. RowsInv'
    <3>1. \A i \in DOMAIN rows : rows[i].value \in Nat
      BY RowsOfRow, ArgumentFacts DEF Row
    <3> QED
      BY <1>1, <1>3, <3>1 DEF BenchInv, RowsInv, RowsAreTrue, IsTrue
  <2>2. ASSUME options.keep, IsInjective(Values)
        PROVE  /\ (\A i \in DOMAIN rows : NamedApart(rows[i].file) => IsKept(rows[i]))'
               /\ (\A i \in DOMAIN report : NamedApart(report[i].file) => IsKept(report[i]))'
    <3>1. /\ \A i \in DOMAIN rows : NamedApart(rows[i].file) => IsKept(rows[i])'
          /\ \A i \in DOMAIN report : NamedApart(report[i].file) => IsKept(report[i])'
      BY <1>1, <1>7, <2>2, EarlierAreKept, RowsOfRow DEF IsKept
    <3> QED
      BY <1>1, <3>1 DEF NamedApart, ProfileAt
  <2>3. KeptInv'
    BY <1>1, <2>2 DEF BenchInv, KeptInv, KeptAreOwn, ProfileAt
  <2> QED
    BY <1>2, <1>4, <1>5, <2>1, <2>3 DEF BenchInv
<1> QED
  BY <1>6, <1>7

LEMMA AddRowKeepsInv ==
  ASSUME BenchInv, AddRow
  PROVE  BenchInv'
<1> DEFINE e == [file |-> file, value |-> value, output |-> output, scored |-> outcome = "score"]
           name == KeptName(file, Values[value])
<1>1. /\ UNCHANGED <<options, file, reference, output, report, qualityVars>>
      /\ at = "keep" /\ at' = "value" /\ value' = value + 1 /\ temps' = temps \ {"out"}
      /\ kept' = IF options.keep THEN CopiedTo(name, output) ELSE kept
      /\ rows' = Append(rows, e)
  BY DEF AddRow, NextValue
<1>2. CompareTypeOK' /\ CompareInv'
  BY <1>1, CompareStands
<1>3. /\ value' \in 1..Len(Values) + 1 /\ value' \in Nat /\ value \in Nat /\ value < value'
      /\ file \in Nat /\ file \in DOMAIN Arguments /\ value \in DOMAIN Values
  BY <1>1, TypesNow
<1>4. e \in Row
  <2>1. output \in Output
    BY DEF BenchInv, BenchTypeOK
  <2> QED
    BY <1>3, <2>1 DEF Row
<1>5. e.file = file /\ e.value = value /\ e.output = output
  OBVIOUS
<1>6. IsTrue(e)
  <2>1. output.quality = Values[value]
    BY <1>1 DEF BenchInv, ScoringInv
  <2>2. (outcome = "score") = options.score
    <3>1. options.score <=> outcome = "score"
      BY <1>1 DEF BenchInv, ScoringInv
    <3>2. options.score \in BOOLEAN
      BY DEF BenchInv, BenchTypeOK
    <3> QED
      BY <3>1, <3>2
  <2>3. e.scored = (outcome = "score")
    OBVIOUS
  <2> QED
    BY <1>5, <2>1, <2>2, <2>3 DEF IsTrue
<1> HIDE DEF e
<1>7. /\ rows' \in Seq(Row)
      /\ \A i \in DOMAIN rows' : (i \in DOMAIN rows /\ rows'[i] = rows[i]) \/ rows'[i] = e
      /\ \A i, j \in DOMAIN rows' : i < j =>
           i \in DOMAIN rows /\ rows'[i] = rows[i]
             /\ ((j \in DOMAIN rows /\ rows'[j] = rows[j]) \/ rows'[j] = e)
  BY <1>1, <1>4, RowsOfRow, AppendParts
<1>8. BenchTypeOK' /\ TempsAreInUse' /\ SweepInv'
  BY <1>1, <1>2, <1>3, <1>7 DEF BenchInv, BenchTypeOK, CompareTypeOK, TempsAreInUse, SweepInv, ProfileAt
<1>9. ScoringInv'
  BY <1>1 DEF BenchInv, ScoringInv, qualityVars, EffectiveDuration
<1>10. RowsInv'
  <2>1. \A i \in DOMAIN rows : rows[i].value \in Nat
    BY RowsOfRow, ArgumentFacts DEF Row
  <2>2. /\ \A i \in DOMAIN rows : rows[i].file = file /\ rows[i].value < value /\ IsTrue(rows[i])
        /\ \A i, j \in DOMAIN rows : i < j => Before(rows[i], rows[j])
    BY DEF BenchInv, RowsInv
  <2>3. \A i \in DOMAIN rows' : rows'[i].file = file /\ rows'[i].value < value' /\ IsTrue(rows'[i])
    BY <1>3, <1>5, <1>6, <1>7, <2>1, <2>2
  <2>4. \A i, j \in DOMAIN rows' : i < j => Before(rows'[i], rows'[j])
    <3>1. \A i \in DOMAIN rows : Before(rows[i], e)
      BY <1>5, <2>2 DEF Before
    <3> QED
      BY <1>7, <2>2, <3>1
  <2>5. (\A i \in DOMAIN rows : rows[i].file = file /\ rows[i].value < value /\ IsTrue(rows[i]))'
    BY <1>1, <2>3 DEF IsTrue
  <2>6. (\A i, j \in DOMAIN rows : i < j => Before(rows[i], rows[j]))'
    BY <2>4 DEF Before
  <2>7. RowsAreTrue' /\ \A i \in DOMAIN report' : report'[i].file < file'
    BY <1>1 DEF BenchInv, RowsInv, RowsAreTrue, IsTrue
  <2> QED
    BY <1>1, <2>5, <2>6, <2>7 DEF RowsInv
<1>11. KeptInv'
  <2>1. /\ \A i \in DOMAIN rows' : ProfileAt(rows'[i].file) \in Profile
        /\ \A i \in DOMAIN report : ProfileAt(report[i].file) \in Profile
    <3>1. ProfileAt(e.file) \in Profile
      BY <1>1, <1>5 DEF BenchInv, SweepInv
    <3> QED
      BY <1>7, <3>1 DEF BenchInv, KeptInv
  <2>2. ASSUME options.keep, IsInjective(Values)
        PROVE  /\ (\A i \in DOMAIN rows : NamedApart(rows[i].file) => IsKept(rows[i]))'
               /\ (\A i \in DOMAIN report : NamedApart(report[i].file) => IsKept(report[i]))'
    <3>1. kept' = CopiedTo(name, output)
      BY <1>1, <2>2
    <3>2. \A r \in Row : r = e => IsKept(r)'
      BY <1>1, <1>5, <3>1 DEF IsKept, CopiedTo, KeptName, ProfileAt
    <3>3. \A r \in Row :
            (NamedApart(r.file) /\ \/ \E i \in DOMAIN rows : r = rows[i]
                                   \/ \E i \in DOMAIN report : r = report[i])
              => IsKept(r)'
      BY <1>1, <2>2, <3>1, EarlierAreKept
    <3>4. ASSUME NEW r \in Row, NamedApart(r.file),
                 \E i \in DOMAIN rows' : r = rows'[i]
          PROVE  IsKept(r)'
      BY <1>7, <3>2, <3>3, <3>4
    <3>5. /\ \A i \in DOMAIN rows' : rows'[i] \in Row
          /\ \A i \in DOMAIN report : report[i] \in Row
      BY <1>7, <1>4, RowsOfRow
    <3> QED
      BY <1>1, <3>3, <3>4, <3>5 DEF NamedApart, ProfileAt
  <2> QED
    BY <1>1, <2>1, <2>2 DEF KeptInv, KeptAreOwn, ProfileAt
<1> QED
  BY <1>2, <1>8, <1>9, <1>10, <1>11 DEF BenchInv

-----------------------------------------------------------------------------
LEMMA BenchInvInit == BenchInit => BenchInv
<1> SUFFICES ASSUME BenchInit PROVE BenchInv
  OBVIOUS
<1>1. CompareTypeOK /\ CompareInv
  BY DEF BenchInit, QualityInit, CompareTypeOK, CompareInv, ProcessesReaped, Quiet, VmafRuns,
         DecoderRuns, Decoder, Vmaf
<1>2. NoOutput \in Output
  BY DEF NoOutput, Output
<1>3. rows \in Seq(Row) /\ report \in Seq(Row) /\ DOMAIN rows = {} /\ DOMAIN report = {}
  BY EmptySeq, LenProperties DEF BenchInit
<1>4. BenchTypeOK /\ TempsAreInUse /\ SweepInv
  BY <1>1, <1>2, <1>3, ArgumentFacts
     DEF BenchInit, BenchTypeOK, CompareTypeOK, TempsAreInUse, SweepInv, ProfileAt
<1>5. ScoringInv
  BY DEF BenchInit, QualityInit, ScoringInv
<1>6. RowsInv /\ KeptInv
  BY <1>3 DEF BenchInit, RowsInv, RowsAreTrue, KeptInv, KeptAreOwn
<1> QED
  BY <1>1, <1>4, <1>5, <1>6 DEF BenchInv

LEMMA OthersKeepInv ==
  ASSUME BenchInv, Interrupt \/ UNCHANGED benchVars
  PROVE  BenchInv'
<1>1. UNCHANGED <<options, at, file, value, temps, reference, output, rows, report, kept,
                  compare, decoder, vmaf, outcome>>
  BY DEF Interrupt, benchVars, sweep, qualityVars, processVars
<1>2. BenchTypeOK' /\ TempsAreInUse' /\ SweepInv' /\ ScoringInv'
  BY <1>1 DEF BenchInv, BenchTypeOK, TempsAreInUse, SweepInv, ScoringInv, EffectiveDuration,
          ProfileAt
<1>3. CompareInv'
  BY <1>1 DEF BenchInv, CompareInv, ProcessesReaped, Quiet, VmafRuns, DecoderRuns
<1>4. RowsInv' /\ KeptInv'
  BY <1>1 DEF BenchInv, RowsInv, RowsAreTrue, IsTrue, KeptInv, KeptAreOwn, IsKept,
      KeptName, NamedApart, ProfileAt
<1> QED
  BY <1>2, <1>3, <1>4 DEF BenchInv

\* The inductive invariant of a sweep beside the processes it starts, whichever step
\* fails and wherever it is interrupted (bench.go:103-240, quality.go:41-108).
THEOREM BenchInvariance == BenchSpec => []BenchInv
<1>1. BenchInv /\ [BenchNext]_benchVars => BenchInv'
  BY QualityKeepsInv, BetweenFiles, BenchFileKeepsInv, ClipSourceKeepsInv, BenchOneKeepsInv,
     ScoredKeepsInv, EncodeKeepsInv, EndFileKeepsInv, GiveUpKeepsInv, AddRowKeepsInv,
     OthersKeepInv
     DEF BenchNext, BenchStep
<1> QED
  BY <1>1, BenchInvInit, PTL DEF BenchSpec

\* When Compare returns what vmaf said its processes have exited (quality.go:85-93).
THEOREM ScoresAreFinal == BenchSpec => []ProcessesReaped
<1>1. BenchInv => ProcessesReaped
  BY DEF BenchInv, CompareInv
<1> QED
  BY <1>1, BenchInvariance, PTL

\* Whatever the clip and the lengths, an encode is scored against a reference of
\* its own length (bench.go:130-146, 193, 218).
THEOREM ScoredAtLength == BenchSpec => []LengthsMatch
<1>1. BenchInv => LengthsMatch
  BY DEF BenchInv, ScoringInv, LengthsMatch
<1> QED
  BY <1>1, BenchInvariance, PTL

\* Every row is of an encode at the value it names, in the order of the files and
\* the values, whatever failed between (bench.go:29-50, 155-166, 179-180).
THEOREM ReportIsInOrder == BenchSpec => []RowsAreTrue
<1>1. BenchInv => RowsAreTrue
  BY DEF BenchInv, RowsInv
<1> QED
  BY <1>1, BenchInvariance, PTL

\* No encode that a row is about is replaced in --keep-outputs, not even by a copy
\* that fails, where the values differ and no other file has its base name and its
\* profile (bench.go:230-236).
THEOREM OutputsAreKept ==
  ASSUME IsInjective(Values)
  PROVE  BenchSpec => []KeptAreOwn
<1>1. BenchInv => KeptAreOwn
  BY DEF BenchInv, KeptInv, KeptAreOwn
<1> QED
  BY <1>1, BenchInvariance, PTL
=============================================================================
