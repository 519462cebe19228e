---- MODULE MCLifecycle ----
(* Small instances of Lifecycle. *)
EXTENDS Lifecycle, TLC

CONSTANTS p1, p2

Symmetric == Permutations(Memory) \cup Permutations(Fact)

Plan(S, T, n, e) == [jobs |-> p1 :> S @@ p2 :> T, most |-> n, expiry |-> e]
Various == {
    Plan({"consolidate"}, {"edit"}, 0, FALSE),
    Plan({"consolidate"}, {"reinforce"}, 2, FALSE),
    Plan({"consolidate"}, {"consolidate"}, 1, TRUE),
    Plan({"heartbeat"}, {"edit"}, 1, FALSE),
    Plan({"heartbeat"}, {"reinforce"}, 2, TRUE),
    Plan({"edit"}, {"reinforce"}, 2, FALSE)}
Apart         == {Plan({"consolidate", "heartbeat"}, {"reinforce", "edit"}, 2, FALSE)}
ApartExpiring == {Plan({"consolidate", "heartbeat"}, {"reinforce", "edit"}, 2, TRUE)}
Consolidating == {Plan({"consolidate"}, {"consolidate"}, 2, TRUE)}

Standard == {3}
Extremes == {0, 4}
Simple   == {{f} : f \in Fact}
AnyText  == SUBSET Fact \ {{}}
Never    == {}
Own      == {9}
====
