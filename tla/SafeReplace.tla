----------------------------- MODULE SafeReplace -----------------------------
(***************************************************************************)
(* What the pipeline promises for the originals of a library, without       *)
(* workers, temp files or failures: an original is in the library only, or  *)
(* copied to the quarantine as well, or has moved there, or has moved there *)
(* and its encode has taken its place. One file changes at a time, none     *)
(* leaves the library before it is whole in the quarantine, and what has    *)
(* moved or was replaced never goes back.                                   *)
(***************************************************************************)
CONSTANT Film       \* the paths where the library held originals

VARIABLE state      \* how far each has got

Stage == {"original", "copied", "moved", "replaced"}

SafeInit == state = [f \in Film |-> "original"]

\* Copied to the quarantine; copied anew, over the earlier copy; moved, from either
\* of them; replaced.
Progress == { <<"original", "copied">>, <<"copied", "original">>,
              <<"original", "moved">>, <<"copied", "moved">>,
              <<"moved", "replaced">> }

SafeNext == \E f \in Film : /\ <<state[f], state'[f]>> \in Progress
                            /\ state' = [state EXCEPT ![f] = state'[f]]

SafeReplaceSpec == SafeInit /\ [][SafeNext]_state
=============================================================================
