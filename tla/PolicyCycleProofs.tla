-------------------------- MODULE PolicyCycleProofs --------------------------
(***************************************************************************)
(* For any releases, of any streams and heights.                            *)
(***************************************************************************)
EXTENDS PolicyCycle, TLAPS

USE PolicyCycleAssumption

\* The streams an encode writes are in place of those it read.
LEMMA EncodedType ==
  ASSUME NEW s \in Seq(Stream), NEW profile \in Profile
  PROVE  /\ Encoded(s, profile) \in Seq(Stream)
         /\ FirstVideo(Encoded(s, profile)) = FirstVideo(s)
<1>1. ASSUME NEW i \in DOMAIN s
      PROVE  /\ Encoded(s, profile)[i] \in Stream
             /\ Encoded(s, profile)[i].type = s[i].type
  <2>1. s[i] \in Stream
    OBVIOUS
  <2>2. EncoderCodec(profile) \in Codec
    BY DEF EncoderCodec, Codec
  <2> QED
    BY <2>1, <2>2 DEF Encoded, Written, Stream
<1>2. DOMAIN Encoded(s, profile) = 1..Len(s)
  BY DEF Encoded
<1>3. Encoded(s, profile) \in [1..Len(s) -> Stream]
  BY <1>1, <1>2 DEF Encoded
<1>4. Videos(Encoded(s, profile)) = Videos(s)
  BY <1>1, <1>2 DEF Videos
<1> QED
  BY <1>3, <1>4 DEF FirstVideo

\* What an encode makes of the stream that a probe looks at.
LEMMA FirstEncoded ==
  ASSUME NEW s \in Seq(Stream), Readable(s), NEW profile \in Profile
  PROVE  LET v == FirstVideoStream(s)
             e == FirstVideoStream(Encoded(s, profile))
             hdr == AttachedHDR(Parse(s), profile)
         IN /\ v \in Stream
            /\ e.codec = EncoderCodec(profile)
            /\ e.transfer = v.transfer
            /\ e.mastering = Written(hdr.masterDisplay)
            /\ e.light = Written(hdr.contentLight)
<1> DEFINE k == CHOOSE i \in FirstVideo(s) : TRUE
<1>1. k \in FirstVideo(s)
  BY DEF Readable
<1>2. /\ FirstVideoStream(s) = s[k]
      /\ FirstVideoStream(Encoded(s, profile)) = Encoded(s, profile)[k]
  BY EncodedType DEF FirstVideoStream
<1>3. k \in DOMAIN s /\ s[k] \in Stream /\ s[k].type = "video"
  BY <1>1 DEF FirstVideo, Videos
<1> HIDE DEF k
<1>4. Encoded(s, profile)[k] =
        [type |-> "video", codec |-> EncoderCodec(profile), height |-> s[k].height,
         tag |-> "other", dovi |-> "none", transfer |-> s[k].transfer,
         mastering |-> Written(AttachedHDR(Parse(s), profile).masterDisplay),
         light |-> Written(AttachedHDR(Parse(s), profile).contentLight)]
  BY <1>3 DEF Encoded
<1> QED
  BY <1>2, <1>3, <1>4

LEMMA Decisions ==
  ASSUME NEW s \in Seq(Stream), Readable(s), NEW g \in BOOLEAN
  PROVE  /\ Decide(Parse(s), g) \in [profile : Profile \cup {""}, skip : SkipReason \cup {""}]
         /\ ShouldTranscode(Decide(Parse(s), g)) <=> ~LeftAlone(Parse(s))
         /\ ShouldTranscode(Decide(Parse(s), g)) =>
              Decide(Parse(s), g).profile \in Profile
         /\ (ShouldTranscode(Decide(Parse(s), g)) /\ IsHDR(Parse(s)) /\ IsUHD(Parse(s)))
              => Decide(Parse(s), g).profile = "uhd-hdr-x265"
<1>1. ProfileOf(Parse(s), g) \in Profile
  BY DEF ProfileOf, Profile
<1>2. IsHDR(Parse(s)) /\ IsUHD(Parse(s)) => ProfileOf(Parse(s), g) = "uhd-hdr-x265"
  BY DEF ProfileOf, GrainPath
<1> QED
  BY <1>1, <1>2 DEF Decide, ShouldTranscode, Profile, SkipReason

-----------------------------------------------------------------------------
\* A file that was encoded is an efficient one; a decision is the policy's.
CycleInv ==
  /\ CycleTypeOK
  /\ decision # NoDecision => Readable(file) /\ decision = Decide(media, grain)
  /\ \/ encodes = 0 /\ file = release
     \/ /\ encodes = 1
        /\ AlreadyEfficient(media)
        /\ HDR10RecordsSurvive

LEMMA DecideKeepsInv == CycleInv /\ DecideStep => CycleInv'
<1> SUFFICES ASSUME CycleInv, DecideStep PROVE CycleInv'
  OBVIOUS
<1>1. UNCHANGED <<release, file, grain, encodes>> /\ Readable(file)
  BY DEF DecideStep
<1>2. decision' = Decide(media, grain) /\ media' = media
  BY <1>1 DEF DecideStep, media
<1>3. CycleTypeOK'
  BY <1>1, <1>2, Decisions DEF CycleInv, CycleTypeOK, media
<1>4. HDR10RecordsSurvive => HDR10RecordsSurvive'
  BY <1>1, <1>2 DEF HDR10RecordsSurvive
<1> QED
  BY <1>1, <1>2, <1>3, <1>4 DEF CycleInv

LEMMA DecisionTaken ==
  ASSUME CycleInv, ShouldTranscode(decision)
  PROVE  Readable(file) /\ decision = Decide(media, grain)
<1>1. decision # NoDecision
  <2> SUFFICES ASSUME decision = NoDecision PROVE FALSE
    OBVIOUS
  <2> QED
    BY DEF ShouldTranscode, NoDecision
<1> QED
  BY <1>1 DEF CycleInv

LEMMA EncodeKeepsInv == CycleInv /\ EncodeStep => CycleInv'
<1> SUFFICES ASSUME CycleInv, EncodeStep PROVE CycleInv'
  OBVIOUS
<1>1. /\ file \in Seq(Stream) /\ grain \in BOOLEAN /\ ShouldTranscode(decision)
      /\ release \in Seq(Stream) /\ encodes \in 0..MaxEncodes
  BY DEF CycleInv, CycleTypeOK, EncodeStep
<1>2. Readable(file) /\ decision = Decide(media, grain)
  BY <1>1, DecisionTaken
<1>3. decision.profile \in Profile /\ ~AlreadyEfficient(media)
  BY <1>1, <1>2, Decisions DEF media, LeftAlone
<1>4. encodes = 0 /\ file = release
  BY <1>3 DEF CycleInv
<1>5. /\ file' = Encoded(file, decision.profile) /\ encodes' = 1 /\ release' = release
      /\ encodes' \in 0..MaxEncodes /\ grain' \in BOOLEAN /\ decision' = NoDecision
  BY <1>1, <1>4 DEF EncodeStep
<1>6. CycleTypeOK'
  BY <1>1, <1>3, <1>5, EncodedType DEF CycleTypeOK, NoDecision
<1> DEFINE v == FirstVideoStream(file)
           e == FirstVideoStream(Encoded(file, decision.profile))
           hdr == AttachedHDR(Parse(file), decision.profile)
<1>7. /\ v \in Stream
      /\ e.codec = EncoderCodec(decision.profile)
      /\ e.transfer = v.transfer
      /\ e.mastering = Written(hdr.masterDisplay)
      /\ e.light = Written(hdr.contentLight)
  BY <1>1, <1>2, <1>3, FirstEncoded
<1>8. AlreadyEfficient(media)'
  <2>1. media' = Parse(Encoded(file, decision.profile))
    BY <1>5 DEF media
  <2>2. media'.codec = EncoderCodec(decision.profile)
    BY <1>7, <2>1 DEF Parse
  <2> QED
    BY <2>2 DEF AlreadyEfficient, EncoderCodec
<1>9. HDR10RecordsSurvive'
  <2> SUFFICES ASSUME IsUHD(Parse(file)), Parse(file).transfer = "smpte2084"
               PROVE  Parse(Encoded(file, decision.profile)).hdr = Parse(file).hdr
    BY <1>4, <1>5 DEF HDR10RecordsSurvive, media
  <2>1. v.transfer = "smpte2084" /\ e.transfer = "smpte2084"
    BY <1>7 DEF Parse
  <2>2. decision.profile = "uhd-hdr-x265"
    BY <1>1, <1>2, Decisions DEF media, IsHDR
  <2>3. hdr = HDRMetadata(v)
    BY <2>2 DEF AttachedHDR, ReattachesHDR, Parse
  <2>4. HDRMetadata(v) = [masterDisplay |-> MasterDisplay(v), contentLight |-> ContentLight(v)]
    BY <2>1 DEF HDRMetadata, IsHDR
  <2> HIDE DEF e, v, hdr
  <2>5. MasterDisplay(e) = MasterDisplay(v)
    <3>1. hdr.masterDisplay = MasterDisplay(v) /\ e.mastering = Written(hdr.masterDisplay)
      BY <1>7, <2>3, <2>4
    <3>2. e.mastering = Written(MasterDisplay(v))
      BY <3>1
    <3> QED
      BY <3>2 DEF Written, MasterDisplay
  <2>6. ContentLight(e) = ContentLight(v)
    <3>1. hdr.contentLight = ContentLight(v) /\ e.light = Written(hdr.contentLight)
      BY <1>7, <2>3, <2>4
    <3>2. e.light = Written(ContentLight(v))
      BY <3>1
    <3> QED
      BY <3>2 DEF Written, ContentLight
  <2>7. HDRMetadata(e) = HDRMetadata(v)
    BY <2>1, <2>4, <2>5, <2>6 DEF HDRMetadata, IsHDR
  <2> QED
    BY <2>7 DEF Parse, e, v
<1> QED
  BY <1>5, <1>6, <1>8, <1>9 DEF CycleInv

LEMMA CycleInvInit == CycleInit => CycleInv
<1>1. NoDecision \in [profile : Profile \cup {""}, skip : SkipReason \cup {""}]
  BY DEF NoDecision
<1>2. ASSUME CycleInit PROVE CycleTypeOK
  <2>1. release \in Seq(Stream) /\ file \in Seq(Stream) /\ encodes \in 0..MaxEncodes
    BY <1>2 DEF CycleInit
  <2>2. grain \in BOOLEAN /\ decision = NoDecision
    BY <1>2 DEF CycleInit
  <2> QED
    BY <1>1, <2>1, <2>2 DEF CycleTypeOK
<1> QED
  BY <1>2 DEF CycleInit, CycleInv

LEMMA CycleInvariance == CycleSpec => []CycleInv
<1>1. CycleInv /\ [CycleNext]_cycleVars => CycleInv'
  <2>1. CycleInv /\ UNCHANGED cycleVars => CycleInv'
    BY DEF cycleVars, CycleInv, CycleTypeOK, HDR10RecordsSurvive, media
  <2> QED
    BY <2>1, DecideKeepsInv, EncodeKeepsInv DEF CycleNext
<1> QED
  BY <1>1, CycleInvInit, PTL DEF CycleSpec

-----------------------------------------------------------------------------
\* The types (probe.go:13-32, policy.go:8-27).
THEOREM CycleTypeCorrect == CycleSpec => []CycleTypeOK
<1>1. CycleInv => CycleTypeOK
  BY DEF CycleInv
<1> QED
  BY <1>1, CycleInvariance, PTL

\* mtx encodes no file twice, whatever streams it has and whatever is asked for
\* when it is found again (policy.go:39 against args.go:42-117).
THEOREM NoSecondEncode == CycleSpec => []EncodedAtMostOnce
<1>1. CycleInv => EncodedAtMostOnce
  BY DEF CycleInv, EncodedAtMostOnce
<1> QED
  BY <1>1, CycleInvariance, PTL

\* The encode of a 4K HDR10 file carries the static records of its source, whatever
\* other streams there are (hdr.go:27-57, args.go:135-145).
THEOREM HDR10RecordsKept == CycleSpec => []HDR10RecordsSurvive
<1>1. CycleInv => HDR10RecordsSurvive
  BY DEF CycleInv, HDR10RecordsSurvive
<1> QED
  BY <1>1, CycleInvariance, PTL

\* A 4K HDR source gets the profile that re-attaches the metadata, grain asked for
\* or not (policy.go:43-52).
THEOREM UHDHDRReattached == CycleSpec => []UHDHDRIsReattached
<1>1. CycleInv => UHDHDRIsReattached
  <2> SUFFICES ASSUME CycleInv, ShouldTranscode(decision), IsHDR(media), IsUHD(media)
               PROVE  ReattachesHDR(decision.profile)
    BY DEF UHDHDRIsReattached
  <2>1. Readable(file) /\ decision = Decide(media, grain)
    BY DecisionTaken
  <2>2. file \in Seq(Stream) /\ grain \in BOOLEAN
    BY DEF CycleInv, CycleTypeOK
  <2> QED
    BY <2>1, <2>2, Decisions DEF media, ReattachesHDR
<1> QED
  BY <1>1, CycleInvariance, PTL

\* Grain never decides whether a file is encoded (policy.go:39-43).
THEOREM GrainIsOnlyAChoice == CycleSpec => []GrainOnlyPicksProfile
<1>1. CycleInv => GrainOnlyPicksProfile
  <2> SUFFICES ASSUME CycleInv, Readable(file)
               PROVE  ShouldTranscode(Decide(media, TRUE)) <=> ShouldTranscode(Decide(media, FALSE))
    BY DEF GrainOnlyPicksProfile
  <2>1. file \in Seq(Stream)
    BY DEF CycleInv, CycleTypeOK
  <2> QED
    BY <2>1, Decisions DEF media
<1> QED
  BY <1>1, CycleInvariance, PTL

-----------------------------------------------------------------------------
\* The label of a file, and the resolution and the dynamic range beside it, are read
\* off the same facts as the policy's decision.
LEMMA LabelExplained ==
  ASSUME NEW m, m.transfer \in Transfer, m.dolbyVision \in BOOLEAN
  PROVE  LET d == Decide(m, FALSE)
             label == DecisionLabel(m)
         IN /\ label \in {d.profile, d.skip}
            /\ label = "dolby-vision" => DynamicRange(m) = "Dolby Vision"
            /\ label \in {"uhd-hdr-x265", "uhd-sdr-x265"} => ResolutionTier(m.height) = "4K/UHD"
            /\ label = "uhd-hdr-x265" <=>
                 /\ ~AlreadyEfficient(m)
                 /\ ResolutionTier(m.height) = "4K/UHD"
                 /\ DynamicRange(m) \in {"HDR10", "HLG"}
<1> DEFINE d == Decide(m, FALSE)
<1>1. /\ ResolutionTier(m.height) = "4K/UHD" <=> IsUHD(m)
      /\ DynamicRange(m) = "Dolby Vision" <=> m.dolbyVision
      /\ DynamicRange(m) \in {"HDR10", "HLG"} <=> ~m.dolbyVision /\ IsHDR(m)
  BY DEF ResolutionTier, IsUHD, DynamicRange, IsHDR, Transfer
<1>2. CASE LeftAlone(m)
  <2>1. /\ d.profile = ""
        /\ d.skip = IF AlreadyEfficient(m) THEN "already-efficient" ELSE "dolby-vision"
    BY <1>2 DEF Decide
  <2>2. DecisionLabel(m) = d.skip
    BY <2>1 DEF DecisionLabel, ShouldTranscode
  <2> QED
    BY <1>1, <1>2, <2>1, <2>2 DEF LeftAlone
<1>3. CASE ~LeftAlone(m)
  <2>1. d.profile = ProfileOf(m, FALSE)
    BY <1>3 DEF Decide
  <2>2. ProfileOf(m, FALSE) = IF ~IsUHD(m) THEN "hd-qsv"
                              ELSE IF IsHDR(m) THEN "uhd-hdr-x265" ELSE "uhd-sdr-x265"
    BY DEF ProfileOf, GrainPath
  <2>3. DecisionLabel(m) = d.profile
    BY <2>1, <2>2 DEF DecisionLabel, ShouldTranscode
  <2> QED
    BY <1>1, <1>3, <2>1, <2>2, <2>3 DEF LeftAlone
<1> QED
  BY <1>2, <1>3

\* analyze files a file under what a sweep decides, and under a resolution and a
\* dynamic range that explain it, whatever the heights (analyze.go:125-163).
THEOREM ReportExplains == CycleSpec => []ReportExplainsDecision
<1>1. CycleInv => ReportExplainsDecision
  <2> SUFFICES ASSUME CycleInv, Readable(file), ~grain, decision # NoDecision
               PROVE  ReportExplainsDecision
    BY DEF ReportExplainsDecision
  <2>1. file \in Seq(Stream) /\ grain = FALSE /\ decision = Decide(media, FALSE)
    BY DEF CycleInv, CycleTypeOK
  <2>2. FirstVideoStream(file) \in Stream
    <3>1. (CHOOSE i \in FirstVideo(file) : TRUE) \in FirstVideo(file)
      BY DEF Readable
    <3> QED
      BY <2>1, <3>1 DEF FirstVideoStream, FirstVideo, Videos
  <2>3. media.transfer \in Transfer /\ media.dolbyVision \in BOOLEAN
    <3>1. media.transfer = FirstVideoStream(file).transfer
      BY DEF media, Parse
    <3>2. media.dolbyVision = HasDolbyVision(FirstVideoStream(file))
      BY DEF media, Parse
    <3> QED
      BY <2>2, <3>1, <3>2 DEF Stream, HasDolbyVision
  <2> QED
    BY <2>1, <2>3, LabelExplained DEF ReportExplainsDecision
<1> QED
  BY <1>1, CycleInvariance, PTL

-----------------------------------------------------------------------------
(* Dolby Vision.                                                              *)

\* The streams that bear a mark of Dolby Vision are first of the video streams.
MarkedFirst(streams) ==
  \A i \in DOMAIN streams : HasDolbyVision(streams[i]) => i \in FirstVideo(streams)

LEMMA MarkedIsLeftAlone ==
  ASSUME NEW s \in Seq(Stream), MarkedFirst(s), NEW i \in DOMAIN s, HasDolbyVision(s[i]),
         NEW g \in BOOLEAN
  PROVE  Readable(s) /\ ~ShouldTranscode(Decide(Parse(s), g))
<1>1. i \in FirstVideo(s)
  BY DEF MarkedFirst
<1>2. Readable(s)
  BY <1>1 DEF Readable
<1>3. \A j \in FirstVideo(s) : j = i
  BY <1>1 DEF FirstVideo, Videos
<1>4. FirstVideoStream(s) = s[i]
  <2>1. (CHOOSE j \in FirstVideo(s) : TRUE) = i
    BY <1>1, <1>3
  <2> QED
    BY <2>1 DEF FirstVideoStream
<1>5. Parse(s).dolbyVision = HasDolbyVision(FirstVideoStream(s))
  BY DEF Parse
<1>6. LeftAlone(Parse(s))
  BY <1>4, <1>5 DEF LeftAlone
<1> QED
  BY <1>2, <1>6, Decisions

\* A film in Dolby Vision is never touched, grain asked for or not, whatever streams
\* come after it. Before it none may come: the first stream decides for all
\* (hdr.go:9-22, probe.go:93-100, policy.go:41).
THEOREM DolbyVisionIsLeft ==
  ASSUME \A r \in Release : MarkedFirst(r)
  PROVE  CycleSpec => []DolbyVisionUntouched
<1> DEFINE Inv == release \in Release /\ DolbyVisionUntouched
<1>1. CycleInit => Inv
  BY DEF CycleInit, DolbyVisionUntouched
<1>2. CycleInv /\ Inv /\ [CycleNext]_cycleVars => Inv'
  <2> SUFFICES ASSUME CycleInv, Inv, [CycleNext]_cycleVars PROVE Inv'
    OBVIOUS
  <2>1. CASE DecideStep \/ UNCHANGED cycleVars
    BY <2>1 DEF DecideStep, cycleVars, DolbyVisionUntouched
  <2>2. CASE EncodeStep
    <3>1. release' = release /\ ShouldTranscode(decision)
      BY <2>2 DEF EncodeStep
    <3> SUFFICES ASSUME NEW i \in DOMAIN release, HasDolbyVision(release[i]) PROVE FALSE
      BY <3>1 DEF DolbyVisionUntouched, HasDolbyVision
    <3>2. file = release
      BY DEF DolbyVisionUntouched, HasDolbyVision
    <3>3. release \in Seq(Stream) /\ grain \in BOOLEAN /\ decision = Decide(Parse(file), grain)
      BY <3>1, DecisionTaken DEF CycleInv, CycleTypeOK, media
    <3> QED
      BY <3>1, <3>2, <3>3, MarkedIsLeftAlone
  <2> QED
    BY <2>1, <2>2 DEF CycleNext
<1>3. Inv => DolbyVisionUntouched
  OBVIOUS
<1> QED
  BY <1>1, <1>2, <1>3, CycleInvariance, PTL DEF CycleSpec
=============================================================================
