----------------------------- MODULE PolicyCycle -----------------------------
(***************************************************************************)
(* One library file as probe and policy see it over time: it is probed and  *)
(* decided, encoded when the decision says so, found again by a later scan  *)
(* or an enqueue (perhaps now with film grain asked for), probed and        *)
(* decided again.                                                           *)
(***************************************************************************)
EXTENDS Probe

CONSTANTS Release,     \* the files considered: sequences of streams
          MaxEncodes   \* bound on the encodes of one file

ASSUME PolicyCycleAssumption == Release \subseteq Seq(Stream) /\ MaxEncodes \in Nat

VARIABLES release,    \* the file as it was imported
          file,       \* the file now in the library
          grain,      \* is film grain asked for
          decision,   \* what Decide answered, NoDecision before
          encodes     \* how often the file has been encoded

cycleVars == <<release, file, grain, decision, encodes>>

NoDecision == [profile |-> "", skip |-> ""]

media == Parse(file)

CycleInit == /\ release \in Release
             /\ file = release
             /\ grain \in BOOLEAN
             /\ decision = NoDecision
             /\ encodes = 0

\* ProcessFile probes and asks the policy once per call.
DecideStep == /\ decision = NoDecision
              /\ Readable(file)
              /\ decision' = Decide(media, grain)
              /\ UNCHANGED <<release, file, grain, encodes>>

\* A decision to transcode is carried out, and the file found again.
EncodeStep == /\ ShouldTranscode(decision)
              /\ encodes < MaxEncodes
              /\ file' = Encoded(file, decision.profile)
              /\ encodes' = encodes + 1
              /\ grain' \in BOOLEAN
              /\ decision' = NoDecision
              /\ UNCHANGED release

CycleNext == DecideStep \/ EncodeStep

CycleSpec == CycleInit /\ [][CycleNext]_cycleVars

-----------------------------------------------------------------------------
CycleTypeOK == /\ release \in Seq(Stream)
               /\ file \in Seq(Stream)
               /\ grain \in BOOLEAN
               /\ decision \in [profile : Profile \cup {""}, skip : SkipReason \cup {""}]
               /\ encodes \in 0..MaxEncodes

\* No file is encoded twice: what an encode leaves behind is never again worth
\* one, whatever is asked of it later (policy.go:39 against the codecs args.go
\* selects). A broken pairing re-encodes the library at every scan, losing
\* quality each time.
EncodedAtMostOnce == encodes <= 1

\* A film in Dolby Vision, however the file says so, is never re-encoded, grain
\* asked for or not (hdr.go:9-22, policy.go:41, README.md:21). Its first video stream
\* is the marked one here; a cover image in front of it hides the mark.
DolbyVisionUntouched ==
  (\E i \in DOMAIN release : release[i].tag = "dvh1" \/ release[i].dovi = "full")
     => file = release

\* Asking for grain selects the profile, never whether there is an encode; so
\* the pipeline model may leave the flag out (policy.go:39-43).
GrainOnlyPicksProfile ==
  Readable(file) =>
    (ShouldTranscode(Decide(media, TRUE)) <=> ShouldTranscode(Decide(media, FALSE)))

\* A 4K HDR source is only ever given a profile that re-attaches its HDR metadata,
\* which "must be re-attached explicitly when re-encoding" (probe.go:26-28); this
\* is where film grain and the choice by height and HDR meet (policy.go:43-52).
UHDHDRIsReattached ==
  (ShouldTranscode(decision) /\ IsHDR(media) /\ IsUHD(media))
     => ReattachesHDR(decision.profile)

\* The encode of a 4K HDR10 film carries the static records of the film, each one
\* it had and no other, from ffprobe's report through MediaInfo to the arguments
\* (hdr.go:27-57, args.go:135-145, README.md:19). Below 4K they are dropped.
HDR10RecordsSurvive ==
  (encodes > 0 /\ IsUHD(Parse(release)) /\ Parse(release).transfer = "smpte2084")
     => media.hdr = Parse(release).hdr

\* `mtx analyze` files a file under what an unattended sweep would do with it, and
\* under a resolution and a dynamic range that explain the decision
\* (analyze.go:125-163, "mirrors the height cutoff", "the decision an unattended
\* library sweep makes").
ReportExplainsDecision ==
  (Readable(file) /\ ~grain /\ decision # NoDecision) =>
     LET label == DecisionLabel(media)
     IN /\ label \in {decision.profile, decision.skip}
        /\ label = "dolby-vision" => DynamicRange(media) = "Dolby Vision"
        /\ label \in {"uhd-hdr-x265", "uhd-sdr-x265"} => ResolutionTier(media.height) = "4K/UHD"
        /\ label = "uhd-hdr-x265" <=>
             /\ ~AlreadyEfficient(media)
             /\ ResolutionTier(media.height) = "4K/UHD"
             /\ DynamicRange(media) \in {"HDR10", "HLG"}
=============================================================================
