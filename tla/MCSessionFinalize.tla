-------------------------- MODULE MCSessionFinalize --------------------------
(***************************************************************************)
(* Instances of SessionFinalize for TLC.                                   *)
(***************************************************************************)
EXTENDS SessionFinalize, TLC

Symmetry == Permutations(Caller) \cup Permutations(Repairer) \cup Permutations(HostKey)

\* Everybody together; or every caller beside one repairer, or the repairers alone.
Everyone == {Caller \cup Repairer}
TwoOrTwo == {Caller \cup {r} : r \in Repairer} \cup {Repairer}

AllTargets == {"bootstrapped", "active", "finalizing", "finalized", "pending_repair"}
StartOnly  == {"bootstrapped", "active"}
==============================================================================
