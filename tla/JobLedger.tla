------------------------------ MODULE JobLedger ------------------------------
(***************************************************************************)
(* What the job queue promises, without rows, claims or restarts: a file    *)
(* version becomes known once, and a known version ends at most once, one   *)
(* way.                                                                     *)
(***************************************************************************)
CONSTANTS Key,    \* file versions
          Ended   \* the ways a job can end

VARIABLES known,  \* the versions that were ever queued
          ended   \* how they ended: pairs of a version and an outcome

ledgerVars == <<known, ended>>

LedgerInit == known = {} /\ ended = {}

Admit(k) == /\ k \notin known
            /\ known' = known \cup {k}
            /\ UNCHANGED ended

End(k, outcome) == /\ k \in known
                   /\ \A o \in Ended : <<k, o>> \notin ended
                   /\ ended' = ended \cup {<<k, outcome>>}
                   /\ UNCHANGED known

LedgerNext == \E k \in Key : Admit(k) \/ \E outcome \in Ended : End(k, outcome)

LedgerSpec == LedgerInit /\ [][LedgerNext]_ledgerVars
=============================================================================
