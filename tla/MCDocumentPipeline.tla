---- MODULE MCDocumentPipeline ----
(* Small instances of DocumentPipeline: files f1, f2 of hashes h1, h2. *)
EXTENDS DocumentPipeline, TLC

CONSTANTS d1, d2, f1, f2, h1, h2, t1, t2, c1, c2

Files      == (f1 :> h1) @@ (f2 :> h2)
OwnTexts   == (f1 :> t1) @@ (f2 :> t2)   \* a text hashes differently from its file
Texts      == (h1 :> {c1}) @@ (h2 :> {c1, c2}) @@ (t1 :> {c1}) @@ (t2 :> {c1, c2})

Plan(D, R, t, f) == [docs |-> D, files |-> IF f THEN {f1} ELSE File, requests |-> R, timeouts |-> t, faults |-> f]

\* One document with everything that can happen to it; two, with deletions.
Various == {
    Plan({d1}, {"reprocess", "delete"}, FALSE, TRUE),
    Plan({d1}, {"reprocess", "delete"}, TRUE, FALSE),
    Plan({d1, d2}, {"delete"}, FALSE, FALSE),
    Plan({d1, d2}, {}, TRUE, TRUE)}
Disputed == {Plan({d1, d2}, {}, TRUE, FALSE), Plan({d1, d2}, {"delete"}, FALSE, FALSE)}
====
