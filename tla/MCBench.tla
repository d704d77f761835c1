------------------------------- MODULE MCBench -------------------------------
EXTENDS Bench

\* Two 4K films of one base name, HDR and not; one in between that the policy skips.
Film(base, codec, transfer, duration) ==
  [base |-> base, duration |-> duration,
   media |-> [codec |-> codec, height |-> 2160, dolbyVision |-> FALSE, transfer |-> transfer]]

MCArguments == <<Film("a", "h264", "smpte2084", 2), Film("b", "hevc", "bt709", 2),
                 Film("a", "h264", "bt709", 1)>>
MCValues == <<20, 0>>
MCClip == {0, 1, 3}
=============================================================================
