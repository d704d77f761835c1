------------------------------- MODULE Policy -------------------------------
(***************************************************************************)
(* internal/policy, the probed facts it reads (internal/probe) and the part *)
(* of internal/encode/args.go the decision commits to: which codec ffmpeg   *)
(* writes and whether the source's HDR signalling is re-attached.           *)
(***************************************************************************)
EXTENDS Naturals

\* "vc1" stands for every codec the policy does not name.
Codec    == {"h264", "vc1", "hevc", "av1"}
\* "bt709" stands for every transfer function that is neither PQ nor HLG.
Transfer == {"bt709", "smpte2084", "arib-std-b67"}

\* What Probe distils from ffprobe's report, as far as the policy looks.
MediaInfo == [codec : Codec, height : Nat, dolbyVision : BOOLEAN,
              transfer : Transfer]

Profile    == {"hd-qsv", "uhd-hdr-x265", "uhd-sdr-x265", "av1-film-grain"}
SkipReason == {"already-efficient", "dolby-vision"}

\* Probe reports HDR metadata exactly when the transfer function is PQ or HLG.
IsHDR(m) == m.transfer \in {"smpte2084", "arib-std-b67"}
IsUHD(m) == m.height >= 1600
\* Mutants: one of the two efficient codecs forgotten.
AlreadyEfficientHEVCOnly(m) == m.codec = "hevc"
AlreadyEfficientAV1Only(m)  == m.codec = "av1"

AlreadyEfficient(m) == m.codec \in {"hevc", "av1"}

(***************************************************************************)
(* The decision table: the switch of Decide, each case under the negation   *)
(* of the earlier ones.                                                     *)
(***************************************************************************)
LeftAlone(m)        == AlreadyEfficient(m) \/ m.dolbyVision
\* Mutant: grain is offered to HDR sources too.
GrainPathWithHDR(m, grain) == grain

GrainPath(m, grain) == grain /\ ~IsHDR(m)

ProfileOf(m, grain) ==
  CASE GrainPath(m, grain)                            -> "av1-film-grain"
    [] ~GrainPath(m, grain) /\ ~IsUHD(m)              -> "hd-qsv"
    [] ~GrainPath(m, grain) /\ IsUHD(m) /\ IsHDR(m)   -> "uhd-hdr-x265"
    [] ~GrainPath(m, grain) /\ IsUHD(m) /\ ~IsHDR(m)  -> "uhd-sdr-x265"

Decide(m, grain) ==
  IF LeftAlone(m)
  THEN [profile |-> "",
        skip    |-> IF AlreadyEfficient(m) THEN "already-efficient"
                                           ELSE "dolby-vision"]
  ELSE [profile |-> ProfileOf(m, grain), skip |-> ""]

ShouldTranscode(d) == d.profile # ""

(***************************************************************************)
(* What the ffmpeg arguments of a profile make of the video stream.         *)
(***************************************************************************)
EncoderCodec(profile) == IF profile = "av1-film-grain" THEN "av1" ELSE "hevc"

\* The one profile whose arguments include hdrPreservationArgs.
ReattachesHDR(profile) == profile = "uhd-hdr-x265"

\* The facts a probe of the encoded file returns.
EncodedInfo(m, profile) == [m EXCEPT !.codec = EncoderCodec(profile)]
=============================================================================
