------------------------------- MODULE Quality -------------------------------
(***************************************************************************)
(* quality.Compare: two ffmpeg processes decode the source and the encode   *)
(* into named pipes, vmaf reads both. A pipe is opened by its writer and    *)
(* its reader together: each waits for the other. A cancellation kills      *)
(* whatever was started with the context.                                   *)
(***************************************************************************)
EXTENDS Naturals

VARIABLES
  compare,    \* where Compare is, "idle" when it is not running
  decoder,    \* decoder[d]: the ffmpeg that writes pipe d
  vmaf,       \* the vmaf process
  outcome,    \* what Compare returned last
  cancelled   \* has the context been cancelled?

processVars == <<decoder, vmaf>>
qualityVars == <<compare, processVars, outcome, cancelled>>

Pipe == {"ref", "dist"}

Exited  == {"ok", "failed"}
Decoder == {"none", "opening", "writing"} \cup Exited
Vmaf    == {"none", "ref", "dist", "reading"} \cup Exited  \* opening ref, opening dist

DecoderRuns(d) == decoder[d] \in {"opening", "writing"}
VmafRuns       == vmaf \in {"ref", "dist", "reading"}
Quiet          == ~VmafRuns /\ \A d \in Pipe : ~DecoderRuns(d)

QualityInit == /\ compare = "idle"
               /\ decoder = [d \in Pipe |-> "none"]
               /\ vmaf = "none"
               /\ outcome = "none"
               /\ cancelled = FALSE

-----------------------------------------------------------------------------
Returns(result) == compare' = "idle" /\ outcome' = result

\* The source is probed for the model, the work directory and the pipes made.
Prepare == /\ compare = "prepare"
           /\ \/ compare' = "decode" /\ UNCHANGED outcome
              \/ Returns("failed")
           /\ UNCHANGED <<processVars, cancelled>>

\* Start is refused after a cancellation; a decoder that runs is left alone when
\* the other one, or the vmaf binary, cannot be had.
StartDecoders ==
  /\ compare = "decode"
  /\ \/ /\ ~cancelled
        /\ decoder' = [d \in Pipe |-> "opening"]
        /\ compare' = "vmaf"
        /\ UNCHANGED outcome
     \/ /\ ~cancelled
        /\ decoder' = [decoder EXCEPT !["ref"] = "opening"]
        /\ Returns("abandoned")
     \/ Returns("failed") /\ UNCHANGED decoder
  /\ UNCHANGED <<vmaf, cancelled>>

VmafMissing == /\ compare = "vmaf" /\ vmaf = "none"
               /\ Returns("abandoned")
               /\ UNCHANGED <<processVars, cancelled>>

\* Mutant: the decoders are waited for before vmaf is run.
RunVmafAfterwards ==
  /\ compare = "vmaf" /\ vmaf = "none"
  /\ \A d \in Pipe : ~DecoderRuns(d)
  /\ vmaf' = IF cancelled THEN "failed" ELSE "ref"
  /\ UNCHANGED <<compare, decoder, outcome, cancelled>>

RunVmaf == /\ compare = "vmaf" /\ vmaf = "none"
           /\ vmaf' = IF cancelled THEN "failed" ELSE "ref"
           /\ UNCHANGED <<compare, decoder, outcome, cancelled>>

VmafReturns == /\ compare = "vmaf" /\ vmaf \in Exited
               /\ compare' = "waitRef"
               /\ UNCHANGED <<processVars, outcome, cancelled>>

\* Mutant: the second decoder is not waited for.
SourceReturnsForBoth == /\ compare = "waitRef" /\ ~DecoderRuns("ref")
                        /\ Returns(IF vmaf = "ok" THEN "score" ELSE "failed")
                        /\ UNCHANGED <<processVars, cancelled>>

SourceReturns == /\ compare = "waitRef" /\ ~DecoderRuns("ref")
                 /\ compare' = "waitDist"
                 /\ UNCHANGED <<processVars, outcome, cancelled>>

\* The decoders' errors only go into vmaf's; the result file may be unreadable.
EncodedReturns == /\ compare = "waitDist" /\ ~DecoderRuns("dist")
                  /\ \/ vmaf = "ok" /\ Returns("score")
                     \/ Returns("failed")
                  /\ UNCHANGED <<processVars, cancelled>>

-----------------------------------------------------------------------------
\* The processes. Opening a pipe is a step of both ends.
OpenPipe(d) == /\ vmaf = d /\ decoder[d] = "opening"
               /\ vmaf' = IF d = "ref" THEN "dist" ELSE "reading"
               /\ decoder' = [decoder EXCEPT ![d] = "writing"]
               /\ UNCHANGED <<compare, outcome, cancelled>>

\* A decoder finishes when it has been read to the end.
DecoderDone(d) == /\ decoder[d] = "writing" /\ vmaf = "reading"
                  /\ decoder' = [decoder EXCEPT ![d] = "ok"]
                  /\ UNCHANGED <<compare, vmaf, outcome, cancelled>>

\* Its input cannot be decoded, or its reader has gone.
DecoderFails(d) == /\ DecoderRuns(d)
                   /\ decoder' = [decoder EXCEPT ![d] = "failed"]
                   /\ UNCHANGED <<compare, vmaf, outcome, cancelled>>

\* vmaf stops at the end of either stream, however that came.
VmafDone == /\ vmaf = "reading" /\ \E d \in Pipe : ~DecoderRuns(d)
            /\ vmaf' = "ok"
            /\ UNCHANGED <<compare, decoder, outcome, cancelled>>

VmafFails == /\ VmafRuns
             /\ vmaf' = "failed"
             /\ UNCHANGED <<compare, decoder, outcome, cancelled>>

\* Mutant: the decoders are started without the context.
KillVmafOnly == /\ cancelled /\ VmafRuns
                /\ vmaf' = "failed"
                /\ UNCHANGED <<compare, decoder, outcome, cancelled>>

\* exec.CommandContext kills what still runs.
Kill == /\ cancelled /\ (VmafRuns \/ \E d \in Pipe : DecoderRuns(d))
        /\ decoder' = [d \in Pipe |-> IF DecoderRuns(d) THEN "failed" ELSE decoder[d]]
        /\ vmaf' = IF VmafRuns THEN "failed" ELSE vmaf
        /\ UNCHANGED <<compare, outcome, cancelled>>

\* An orderly reader or writer goes on; one that is cut off is killed by SIGPIPE.
ProcessesGoOn == \/ \E d \in Pipe : OpenPipe(d) \/ DecoderDone(d)
                 \/ \E d \in Pipe : decoder[d] = "writing" /\ ~VmafRuns /\ DecoderFails(d)
                 \/ VmafDone
                 \/ Kill

\* Without VmafMissing, which no fairness asks for.
CompareStep == \/ Prepare \/ StartDecoders
               \/ RunVmaf \/ VmafReturns
               \/ SourceReturns \/ EncodedReturns

QualityStep == \/ CompareStep
               \/ VmafMissing
               \/ ProcessesGoOn
               \/ \E d \in Pipe : DecoderFails(d)
               \/ VmafFails

-----------------------------------------------------------------------------
\* One end has exited, and the other waits for it to open the pipe.
Forsaken == \/ vmaf \in Exited /\ \E d \in Pipe : decoder[d] = "opening"
            \/ vmaf \in Pipe /\ decoder[vmaf] \in Exited

\* When Compare returns what vmaf said, its three processes have exited and were
\* waited for (quality.go:85-93); it leaves them behind when it gives up before.
ProcessesReaped == (compare = "idle" /\ outcome \in {"score", "failed"}) => Quiet

\* Nothing runs before Compare starts it, and what it has waited for runs no more.
CompareInv == /\ compare \in {"prepare", "decode"} => Quiet
              /\ compare \in {"waitRef", "waitDist"} => ~VmafRuns
              /\ compare = "waitDist" => ~DecoderRuns("ref")
              /\ ProcessesReaped
=============================================================================
