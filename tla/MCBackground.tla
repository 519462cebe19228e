---- MODULE MCBackground ----
EXTENDS Background, TLC
CONSTANTS p1, p2
Plan(S, T, C, n, B, R) ==
    [jobs |-> p1 :> S @@ p2 :> T, clients |-> C, most |-> n, blank |-> B, poison |-> R]
Various == {
    Plan({"flush"}, {}, {"create", "find"}, 2, {}, {}),
    Plan({"flush"}, {"flush"}, {"create", "delete", "find"}, 1, {}, {}),
    Plan({"backfill"}, {}, {"create"}, 2, {1}, {}),
    Plan({"backfill"}, {}, {"create"}, 2, {}, {}),
    Plan({"backfill"}, {}, {"create", "delete"}, 1, {}, {}),
    Plan({"backfill"}, {}, {"create"}, 1, {}, {1}),
    Plan({"backfill"}, {"backfill"}, {"create"}, 1, {}, {})}
====
