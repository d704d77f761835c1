-------------------------------- MODULE Probe --------------------------------
(***************************************************************************)
(* internal/probe on the streams ffprobe lists, the HDR arguments of        *)
(* internal/encode/args.go, and what an encode makes of the streams.        *)
(*                                                                          *)
(* A record of side data is present ("full"), absent ("none"), or, of the   *)
(* mastering display, present with a luminance of zero ("zero").            *)
(***************************************************************************)
EXTENDS Policy, Sequences

Stream == [type : {"video", "audio"}, codec : Codec, height : Nat,
           tag : {"dvh1", "other"}, dovi : {"full", "none"}, transfer : Transfer,
           mastering : {"full", "zero", "none"}, light : {"full", "none"}]

Videos(streams) == {i \in DOMAIN streams : streams[i].type = "video"}

\* The index of the first video stream, if there is one.
FirstVideo(streams) == {i \in Videos(streams) : \A j \in Videos(streams) : i <= j}

FirstVideoStream(streams) == streams[CHOOSE i \in FirstVideo(streams) : TRUE]

\* Mutant: the codec tag alone.
HasDolbyVisionTag(s) == s.tag = "dvh1"

HasDolbyVision(s) == s.tag = "dvh1" \/ s.dovi = "full"

\* The static records, "" when the source lacks one; SDR has no such metadata.
MasterDisplay(s) == IF s.mastering = "full" THEN "master" ELSE ""
ContentLight(s)  == IF s.light = "full" THEN "light" ELSE ""

HDRMetadata(s) == IF IsHDR(s)
                  THEN [masterDisplay |-> MasterDisplay(s), contentLight |-> ContentLight(s)]
                  ELSE [masterDisplay |-> "", contentLight |-> ""]

\* A file without a video stream is an error.
Readable(streams) == FirstVideo(streams) # {}

Parse(streams) ==
  LET v == FirstVideoStream(streams)
  IN [codec |-> v.codec, height |-> v.height, dolbyVision |-> HasDolbyVision(v),
      transfer |-> v.transfer, hdr |-> HDRMetadata(v)]

-----------------------------------------------------------------------------
\* Mutant: the records are attached when the transfer function is HLG.
AttachedHDRToHLG(m, profile) ==
  IF ReattachesHDR(profile) /\ m.transfer = "arib-std-b67"
  THEN m.hdr ELSE [masterDisplay |-> "", contentLight |-> ""]

\* The static records in the arguments: HDR10 only, HLG needs none.
AttachedHDR(m, profile) ==
  IF ReattachesHDR(profile) /\ m.transfer = "smpte2084"
  THEN m.hdr ELSE [masterDisplay |-> "", contentLight |-> ""]

\* What an argument leaves in the output; none is left out of the arguments.
Written(record) == IF record = "" THEN "none" ELSE "full"

\* Every stream is kept (-map 0), every video stream is encoded, audio is copied;
\* ffmpeg drops the static records and Dolby Vision unless told otherwise.
Encoded(streams, profile) ==
  LET hdr == AttachedHDR(Parse(streams), profile)
  IN [i \in DOMAIN streams |->
        IF streams[i].type = "audio" THEN streams[i]
        ELSE [type |-> "video", codec |-> EncoderCodec(profile), height |-> streams[i].height,
              tag |-> "other", dovi |-> "none", transfer |-> streams[i].transfer,
              mastering |-> Written(hdr.masterDisplay),
              light |-> Written(hdr.contentLight)]]

-----------------------------------------------------------------------------
\* What `mtx analyze` files a probed file under.
ResolutionTier(height) == IF height >= 1600 THEN "4K/UHD"
                          ELSE IF height >= 1080 THEN "1080p"
                          ELSE IF height >= 720 THEN "720p" ELSE "SD"

DynamicRange(m) == CASE m.dolbyVision                                  -> "Dolby Vision"
                     [] ~m.dolbyVision /\ m.transfer = "smpte2084"     -> "HDR10"
                     [] ~m.dolbyVision /\ m.transfer = "arib-std-b67"  -> "HLG"
                     [] OTHER                                          -> "SDR"

\* Mutant: the decision with grain asked for.
DecisionLabelWithGrain(m) == LET d == Decide(m, TRUE)
                             IN IF ShouldTranscode(d) THEN d.profile ELSE d.skip

DecisionLabel(m) == LET d == Decide(m, FALSE)
                    IN IF ShouldTranscode(d) THEN d.profile ELSE d.skip
=============================================================================
