-------------------------------- MODULE MCVcpu --------------------------------
(***************************************************************************)
(* Vcpu with model values; threads, addresses and regions are alike.       *)
(***************************************************************************)
EXTENDS Vcpu, TLC

CONSTANTS t1, t2, c1, c2, v1, v2, r1, r2

MCThreads == {t1, t2}
MCCpus == {c1, c2}
MCVcpus == {v1, v2}
MCRegions == {r1, r2}

\* After a failed creation, one VCPU at a time and no notifications.
AfterFailure ==
    fails > 0 => /\ Cardinality({t \in Threads : ~Outside(t)}) <= 1
                 /\ \A n \in Notifiers : notif[n].at = "idle"

Symmetry == Permutations(MCThreads) \cup Permutations(MCCpus)
            \cup Permutations(MCVcpus) \cup Permutations(MCRegions)
=============================================================================
