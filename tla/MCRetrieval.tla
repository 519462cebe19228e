----------------------------- MODULE MCRetrieval -----------------------------
(***************************************************************************)
(* Small instances of Retrieval: three memories, of which one matches the  *)
(* text, one is only near it, and one is only linked to its entities.      *)
(***************************************************************************)
EXTENDS Retrieval, TLC

CONSTANTS r1, r2, e1, e2

Base == [wired |-> "legacy", name |-> "", channels |-> {}, limit |-> 3, filters |-> FALSE, noRetry |-> FALSE,
         class |-> FALSE, rerank |-> FALSE, core |-> FALSE, extra |-> FALSE, budget |-> 2]
Old(channels)  == [Base EXCEPT !.channels = channels]
New(name)      == [Base EXCEPT !.wired = "pipeline", !.name = name]

World(text, wide, near, links) ==
    [text |-> text, wide |-> wide, near |-> near, links |-> links, edges |-> {{e1, e2}}, named |-> {}, told |-> {},
     timely |-> {}, core |-> {3}, procedural |-> {}, meets |-> Ident, relaxed |-> Ident, sticky |-> {2},
     lapsing |-> {3}, weight |-> [m \in Ident |-> 1], breaker |-> [state |-> "closed", fails |-> 0],
     asked |-> r1 :> Nothing @@ r2 :> Nothing, ends |-> 1, faults |-> TRUE]

Few  == World(1 :> 2 @@ 2 :> 0 @@ 3 :> 0, 1 :> 2 @@ 2 :> 3 @@ 3 :> 0, 1 :> 0 @@ 2 :> 8 @@ 3 :> 4,
              1 :> {e1} @@ 2 :> {} @@ 3 :> {e2})
Many == World(1 :> 9 @@ 2 :> 5 @@ 3 :> 3, 1 :> 9 @@ 2 :> 6 @@ 3 :> 4, 1 :> 4 @@ 2 :> 8 @@ 3 :> 0,
              1 :> {e1} @@ 2 :> {e2} @@ 3 :> {e1})
Nil  == World(1 :> 0 @@ 2 :> 0 @@ 3 :> 0, 1 :> 0 @@ 2 :> 0 @@ 3 :> 0, 1 :> 0 @@ 2 :> 4 @@ 3 :> 0,
              1 :> {e1} @@ 2 :> {} @@ 3 :> {})

Ask1(w, a)    == [w EXCEPT !.asked = r1 :> a @@ r2 :> Nothing]
Ask2(w, a, b) == [w EXCEPT !.asked = r1 :> a @@ r2 :> b]

Strict(a) == [a EXCEPT !.filters = TRUE]

OldCases ==
    {Ask1(w, Old(c)) : w \in {Few, Many}, c \in {{"fts", "vector"}, {"fts", "hyde", "graph"}}}
    \cup {Ask1([Few EXCEPT !.meets = {1}], Strict(Old({"fts", "vector"}))),
          Ask1([Many EXCEPT !.named = {e1}, !.timely = {2}, !.weight = [m \in Ident |-> m]],
               [Old({"fts", "graph", "temporal"}) EXCEPT !.limit = 2, !.core = TRUE, !.rerank = TRUE]),
          Ask1([Many EXCEPT !.procedural = {2}], [Old({"vector", "fts"}) EXCEPT !.class = TRUE])}

NewCases ==
    {Ask1(w, New(n)) : w \in {Few, Many}, n \in {"rules", "precision"}}
    \cup {Ask1([w EXCEPT !.named = {e1}], [New(n) EXCEPT !.core = TRUE]) :
             w \in {Few, Many}, n \in {"association", "precision", "exploration"}}
    \cup {Ask1(Nil, New("association")), Ask1(Nil, New("unknown")),
          Ask1([Few EXCEPT !.told = {e1}], New("llm"))}

Asking(budget) == [New("fast") EXCEPT !.extra = TRUE, !.budget = budget]
BreakerCases ==
    {Ask2([Many EXCEPT !.breaker = b, !.ends = 0, !.faults = FALSE], Asking(1), Asking(0)) :
        b \in {[state |-> "closed", fails |-> 0], [state |-> "closed", fails |-> 1], [state |-> "open", fails |-> 2]}}

\* What the comments say of the code, and it does not do.
Disputed ==
    {Ask2([Many EXCEPT !.breaker = [state |-> "open", fails |-> 2], !.ends = 0, !.faults = FALSE], Asking(1), Asking(0)),
     Ask1([Few EXCEPT !.meets = {1}], Strict(Old({"fts", "graph"}))),
     Ask1([Many EXCEPT !.named = {e1}, !.text = 1 :> 9 @@ 2 :> 3 @@ 3 :> 0], New("precision")),
     Ask1(Few, [New("semantic") EXCEPT !.core = TRUE]),
     Ask1(Nil, [Old({"fts"}) EXCEPT !.core = TRUE])}

All == OldCases \cup NewCases \cup BreakerCases
==============================================================================
