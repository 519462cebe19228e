------------------------------- MODULE Retrieval -------------------------------
(***************************************************************************)
(* A search (search/): the legacy path, which the server and the MCP       *)
(* process take, and the pipelines of search/pipeline and search/stage,    *)
(* which a Retriever takes once InitPipeline has been called.  Requests    *)
(* run concurrently with each other and with the end of memories.          *)
(*                                                                         *)
(* Text is abstracted to how well each memory matches the query, in        *)
(* tenths; a score is in parts of Unit.  What breaks ties where the code   *)
(* leaves them open is the number of the memory.  Caches, diversity (MMR), *)
(* hubs, vector evidence, and limits far above the number of memories are  *)
(* left out.                                                               *)
(***************************************************************************)
EXTENDS Integers, Sequences, SequencesExt, FiniteSets, FiniteSetsExt

CONSTANTS
    Req,        \* requests
    Ident,      \* memories: numbers
    Entity,
    Cases,      \* what the store holds and what is asked: chosen at the start, with
                \* a bound on the memories that end and whether searches may fail
    Threshold,  \* failures in a row that open the circuit breaker
    MaxFallback,\* 3 in the code
    Nothing

ChannelName == {"fts", "hyde", "vector", "graph", "temporal"}

\* Filters are looser in the retry, and the breaker trips from the beginning.
IsCase(c) ==
    /\ {c.text, c.wide, c.near, c.weight} \subseteq [Ident -> Nat]
    /\ c.links \in [Ident -> SUBSET Entity]
    /\ c.meets \subseteq c.relaxed /\ c.sticky \subseteq Ident
    /\ c.breaker \in [state : {"closed", "open", "cooled", "half"}, fails : Nat]
    /\ c.breaker.state = "closed" => c.breaker.fails < Threshold
    /\ \A r \in Req : c.asked[r] = Nothing \/ (c.asked[r].limit \in Nat /\ c.asked[r].channels \subseteq ChannelName)

ASSUME IdentAssumption == Ident \subseteq Nat /\ IsFiniteSet(Ident)
ASSUME LimitAssumption == MaxFallback \in Nat /\ Threshold \in Nat \ {0}
ASSUME CasesAssumption == \A c \in Cases : IsCase(c)

VARIABLES
    case,    \* see Cases
    gone,    \* memories deleted
    lapsed,  \* memories expired
    st,      \* each request
    breaker, \* the circuit breaker of the LLM reranker
    tracked, \* what the AccessTracker was told
    began,   \* history: what was there when the request began
    stays,   \* history: what has been there, unexpired, ever since
    faulty   \* history: did a search of the request fail?

searchVars == <<case, gone, lapsed, st, breaker, tracked, began, stays, faulty>>

Unit  == 6000
There == Ident \ gone
Fresh == There \ lapsed

Idle == [at |-> "new", name |-> "", group |-> 1, depth |-> 0, todo |-> {}, got |-> <<>>,
         cands |-> <<>>, tier |-> 1, strict |-> TRUE, once |-> FALSE, told |-> FALSE, outer |-> Nothing]

SearchInit ==
    /\ case \in Cases
    /\ gone = {} /\ lapsed \in SUBSET case.lapsing
    /\ st = [r \in Req |-> Idle]
    /\ breaker = case.breaker
    /\ tracked = [m \in Ident |-> 0]
    /\ began = [r \in Req |-> [there |-> {}, fresh |-> {}]] /\ stays = [r \in Req |-> {}]
    /\ faulty = [r \in Req |-> FALSE]

Asked(r) == case.asked[r]
Set(r, s) == st' = [st EXCEPT ![r] = s]
store   == <<case, gone, lapsed>>
past == <<began, stays>>

------------------------------------------------------------------------------
(* Scores and lists.                                                        *)

Hit(m, source, score, full) == [id |-> m, source |-> source, score |-> score, full |-> full]

Better(a, b) == a.score > b.score \/ (a.score = b.score /\ a.id < b.id)
First(s, n)  == SubSeq(s, 1, IF n < Len(s) THEN n ELSE Len(s))
\* No two of them are of one memory.
Line(H)      == CHOOSE s \in [1 .. Cardinality(H) -> H] : \A i, j \in DOMAIN s : i < j => Better(s[i], s[j])
Best(H, n)   == First(Line(H), n)
Ids(s)       == {s[i].id : i \in DOMAIN s}
Sorted(s)    == SortSeq(s, Better)
Rank(s, m)   == Min({i \in DOMAIN s : s[i].id = m})
Share(rank)  == Unit \div (60 + rank)
MaxScore(s)  == Max({s[i].score : i \in DOMAIN s})

\* MergeWeightedRRF: lists is a function from sources.
Fusion(lists, trust) ==
    {Hit(m, "hybrid",
         SumFunctionOnSet([c \in DOMAIN lists |-> IF m \in Ids(lists[c]) THEN (trust[m] * Share(Rank(lists[c], m))) \div 10
                                                  ELSE 0], DOMAIN lists),
         \E c \in DOMAIN lists : \E i \in DOMAIN lists[c] : lists[c][i].id = m /\ lists[c][i].full) :
        m \in UNION {Ids(lists[c]) : c \in DOMAIN lists}}

Weighted(s) == [i \in DOMAIN s |-> [s[i] EXCEPT !.score = @ * case.weight[s[i].id]]]

\* A reranker's mixture of the score there is, in parts of the best, and of one
\* it gives, in tenths, whose weight is w tenths.
Blend(s, w, extra) ==
    [i \in DOMAIN s |->
       [s[i] EXCEPT !.score = ((10 - w) * ((Unit * @) \div Max({1, MaxScore(s)}))
                               + w * ((Unit * extra[i]) \div 10)) \div 10]]

Overlap(s) == [i \in DOMAIN s |-> IF s[i].full THEN case.text[s[i].id] ELSE 0]

------------------------------------------------------------------------------
(* The stores.                                                              *)

\* SearchTextFiltered, or SearchText, which does not look at expiry.
Text(r, matches, n) ==
    LET rows == IF Asked(r).filters
                THEN Fresh \cap (IF st[r].strict THEN case.meets ELSE case.relaxed)
                ELSE There
    IN Best({Hit(m, "sqlite", (Unit * matches[m]) \div 10, TRUE) : m \in {x \in rows : matches[x] > 0}}, n)

\* Points outlive their memories when their deletion failed.
Points == {Hit(m, "qdrant", (Unit * case.near[m]) \div 10, FALSE) : m \in There \cup case.sticky}

Vectors(n) == Best({h \in Points : h.score >= (Unit * 3) \div 10}, n)

Timeline(S, source, n) == Best({Hit(m, source, Unit, TRUE) : m \in S \cap There}, n)

\* Entities at most d relations away.
Within(seeds, d) ==
    LET reach[n \in 0..d] ==
          IF n = 0 THEN seeds
          ELSE reach[n - 1] \cup {e \in Entity : \E x \in reach[n - 1] : {x, e} \in case.edges}
    IN reach[d]

Distance(seeds, m, d) == Min({n \in 0..d : case.links[m] \cap Within(seeds, n) # {}})

\* Breadth first, then the memories of what was reached: filters do not apply.
Graph(seeds, d, n) ==
    Best({Hit(m, "graph", Unit \div (Distance(seeds, m, d) + 1), TRUE) :
            m \in {x \in There : case.links[x] \cap Within(seeds, d) # {}}}, n)

Linked(s) == UNION {case.links[s[i].id] : i \in DOMAIN s}

\* SearchText, whatever the request's filters.
Mentions == Best({Hit(m, "sqlite", (Unit * case.text[m]) \div 10, TRUE) : m \in {x \in There : case.text[x] > 0}}, 5)

------------------------------------------------------------------------------
(* What happens meanwhile.                                                  *)

Ends(m) ==
    /\ Cardinality(gone) + Cardinality(lapsed \ case.lapsing) < case.ends
    /\ \/ m \notin lapsed /\ lapsed' = lapsed \cup {m} /\ UNCHANGED gone
       \/ m \notin gone /\ gone' = gone \cup {m} /\ UNCHANGED lapsed
    /\ stays' = [r \in Req |-> stays[r] \ {m}]
    /\ UNCHANGED <<case, st, breaker, tracked, began, faulty>>

Cool ==
    /\ breaker.state = "open"
    /\ breaker' = [breaker EXCEPT !.state = "cooled"]
    /\ UNCHANGED <<store, st, tracked, past, faulty>>

------------------------------------------------------------------------------
(* Retrieve, the choice of the path.                                        *)

\* matchEntities finds identifiers; the strategy's LLM gives names, which count
\* only when there are no identifiers.
PlanIds == case.named
PlanNames(r) == IF st[r].told /\ case.named = {} THEN case.told ELSE {}

Begin(r) ==
    /\ Asked(r) # Nothing /\ st[r].at = "new"
    /\ began' = [began EXCEPT ![r] = [there |-> There, fresh |-> Fresh]]
    /\ stays' = [stays EXCEPT ![r] = Fresh]
    /\ Set(r, [st[r] EXCEPT !.at = IF Asked(r).wired = "legacy" THEN "search" ELSE "select",
                            !.todo = Asked(r).channels, !.once = Asked(r).noRetry])
    /\ UNCHANGED <<store, breaker, tracked, faulty>>

------------------------------------------------------------------------------
(* retrieveLegacy.                                                          *)

LegacySeeds    == IF PlanIds # {} THEN PlanIds ELSE Linked(Mentions)
LegacyGraph(n) == Graph(LegacySeeds, 1, n)
ByTime(n)      == Timeline(case.timely, "temporal", n)

Found(r, c) ==
    LET n == Asked(r).limit IN
    CASE c = "fts"      -> Text(r, case.text, n)
      [] c = "hyde"     -> Text(r, case.wide, n)
      [] c = "vector"   -> Vectors(n)
      [] c = "graph"    -> LegacyGraph(n)
      [] c = "temporal" -> ByTime(n)

\* Collected without the lock.
Channel_Overwrites(r, c) ==
    /\ st[r].at = "search" /\ c \in st[r].todo
    /\ Set(r, [st[r] EXCEPT !.todo = @ \ {c}, !.got = IF Found(r, c) # <<>> THEN [d \in {c} |-> Found(r, c)] ELSE @])
    /\ UNCHANGED <<store, breaker, tracked, past, faulty>>

With(lists, c, s) == [d \in DOMAIN lists \cup {c} |-> IF d = c THEN s ELSE lists[d]]

\* A goroutine for each channel; HyDE's search follows that of the text.
Channel(r, c) ==
    /\ st[r].at = "search" /\ c \in st[r].todo
    /\ c = "hyde" => "fts" \notin st[r].todo
    /\ \E ok \in {TRUE, ~case.faults} :
          /\ Set(r, [st[r] EXCEPT !.todo = @ \ {c}, !.got = IF ok /\ Found(r, c) # <<>> THEN With(@, c, Found(r, c)) ELSE @])
          /\ faulty' = [faulty EXCEPT ![r] = @ \/ ~ok]
    /\ UNCHANGED <<store, breaker, tracked, past>>

Fused(r) ==
    LET lists == st[r].got IN
    IF Cardinality(DOMAIN lists) = 1
    THEN First(lists[CHOOSE c \in DOMAIN lists : TRUE], Asked(r).limit)
    ELSE Best(Fusion(lists, [m \in Ident |-> 10]), Asked(r).limit)

\* With nothing found the answer is empty: not even core memories are added.
Fuse(r) ==
    /\ st[r].at = "search" /\ st[r].todo = {}
    /\ IF st[r].got = <<>>
       THEN Set(r, [st[r] EXCEPT !.at = "return", !.cands = <<>>])
       ELSE Set(r, [st[r] EXCEPT !.at = "fill", !.cands = Fused(r)])
    /\ UNCHANGED <<store, breaker, tracked, past, faulty>>

Filled_Always(h) == <<[h EXCEPT !.full = TRUE]>>

Filled(h) == IF h.id \in There THEN <<[h EXCEPT !.full = TRUE]>> ELSE <<>>

\* backfillMemories, the next one that has only an identifier.
BackfillNext(r) ==
    LET s == st[r].cands IN
    /\ st[r].at = "fill"
    /\ IF \A i \in DOMAIN s : s[i].full
       THEN Set(r, [st[r] EXCEPT !.at = "rank"])
       ELSE LET i == Min({j \in DOMAIN s : ~s[j].full}) IN
            Set(r, [st[r] EXCEPT !.cands = SubSeq(s, 1, i - 1) \o Filled(s[i]) \o SubSeq(s, i + 1, Len(s))])
    /\ UNCHANGED <<store, breaker, tracked, past, faulty>>

\* Of the class asked for, and not expired by now: ApplyStrengthWeighting drops
\* what is.
Passes(r, m) == m \notin lapsed /\ (Asked(r).class => m \in case.procedural)

\* The reranker, the weights, what passes, and the sort.
Ranked(r) ==
    LET s == st[r].cands
        t == Weighted(IF Asked(r).rerank /\ Len(s) > 1 THEN Blend(s, 7, Overlap(s)) ELSE s)
    IN Line({t[i] : i \in {j \in DOMAIN t : Passes(r, t[j].id)}})

IsWeak(s) == s # <<>> /\ s[1].score < (Unit * 3) \div 10

Again_Forever(r, s) ==
    [st[r] EXCEPT !.at = "search", !.todo = Asked(r).channels, !.got = <<>>, !.outer = s, !.strict = FALSE]

\* The same request with looser filters, by a call of Retrieve.
Again(r, s) ==
    [st[r] EXCEPT !.at = "search", !.todo = Asked(r).channels, !.got = <<>>, !.outer = s, !.strict = FALSE,
                  !.once = TRUE]

Order(r) ==
    LET s == Ranked(r) IN
    /\ st[r].at = "rank"
    /\ IF IsWeak(s) /\ Asked(r).filters /\ ~st[r].once
       THEN Set(r, Again(r, s))
       ELSE Set(r, [st[r] EXCEPT !.at = "core", !.cands = s])
    /\ UNCHANGED <<store, breaker, tracked, past, faulty>>

\* ListCoreByScope: expired or not.
Cores == case.core \cap There

\* injectCoreMemories, CoreStage.
WithCore(s) ==
    LET more == Cores \ Ids(s)
    IN Line({Hit(m, "core", 2 * Unit, TRUE) : m \in more}) \o s

Inject(r) ==
    /\ st[r].at = "core"
    /\ Set(r, [st[r] EXCEPT !.at = IF Asked(r).wired = "legacy" THEN "track" ELSE "extra",
                            !.cands = IF Asked(r).core THEN WithCore(@) ELSE @])
    /\ UNCHANGED <<store, breaker, tracked, past, faulty>>

CountHits(r) ==
    /\ st[r].at = "track"
    /\ tracked' = [m \in Ident |-> IF m \in Ids(st[r].cands) THEN tracked[m] + 1 ELSE tracked[m]]
    /\ Set(r, [st[r] EXCEPT !.at = "return"])
    /\ UNCHANGED <<store, breaker, past, faulty>>

\* To the call it was retried from, which keeps the better answer and goes on; or
\* to the handler.
Return(r) ==
    LET s == st[r].cands
        o == st[r].outer
    IN /\ st[r].at = "return"
       /\ IF o = Nothing
          THEN Set(r, [st[r] EXCEPT !.at = "done"])
          ELSE Set(r, [st[r] EXCEPT !.at = "core", !.outer = Nothing,
                                    !.cands = IF s # <<>> /\ s[1].score > o[1].score THEN s ELSE o])
       /\ UNCHANGED <<store, breaker, tracked, past, faulty>>

Legacy(r) ==
    \/ \E c \in ChannelName : Channel(r, c)
    \/ Fuse(r) \/ BackfillNext(r) \/ Order(r)

------------------------------------------------------------------------------
(* The pipelines, and the executor.                                         *)

Stage(kind, arg) == [kind |-> kind, arg |-> arg]
Par(stages)      == [parallel |-> TRUE, stages |-> stages]
One(kind, arg)   == [parallel |-> FALSE, stages |-> <<Stage(kind, arg)>>]
Pipe(groups, fallback) == [groups |-> groups, fallback |-> fallback]

Pipelines == [
    precision   |-> Pipe(<<Par(<<Stage("graph", 2), Stage("fts", 30)>>), One("rewrite", 0), One("merge_fts", 0),
                           One("filter", 300), One("rerank_graph", 0)>>, "exploration"),
    exploration |-> Pipe(<<Par(<<Stage("graph", 2), Stage("fts", 30), Stage("temporal", 30)>>), One("rewrite", 0),
                           One("merge_graph", 0), One("temporal_filter", 3), One("filter", 5), One("overlap", 0)>>, Nothing),
    semantic    |-> Pipe(<<Par(<<Stage("vector", 30), Stage("fts", 30)>>), One("rewrite", 0),
                           One("merge_rrf", 0), One("overlap", 0)>>, "exploration"),
    association |-> Pipe(<<One("graph", 3), One("rerank_graph", 0), One("filter", 200)>>, "precision"),
    aggregation |-> Pipe(<<One("exhaustive", 200)>>, Nothing),
    fast        |-> Pipe(<<One("fts", 10), One("filter", 50)>>, Nothing),
    full        |-> Pipe(<<Par(<<Stage("graph", 2), Stage("fts", 30), Stage("vector", 30)>>), One("rewrite", 0),
                           One("merge_graph", 0), One("overlap", 0)>>, "precision")]

\* What the strategy's LLM may answer.
Valid == {"precision", "exploration", "semantic", "association", "fast", "full"}

\* The rules, as the agent asks them: with no intent.
RuleChoices == (Valid \cup {"aggregation"}) \ {"precision", "semantic", "full"}

\* Agent.Select: the LLM's choice, or, when it fails or names no pipeline, that
\* of the rules; or what the request says, which may be no pipeline at all.
Select(r) ==
    /\ st[r].at = "select"
    /\ \E told \in {Asked(r).name = "llm", FALSE} :
       \E name \in CASE told -> Valid
                     [] ~told /\ Asked(r).name \in {"llm", "rules"} -> RuleChoices
                     [] OTHER -> {Asked(r).name} :
          Set(r, [st[r] EXCEPT !.at = IF name \in DOMAIN Pipelines THEN "group" ELSE "done", !.name = name,
                               !.told = told])
    /\ UNCHANGED <<store, breaker, tracked, past, faulty>>

Seeds(r) ==
    IF PlanNames(r) # {} THEN PlanNames(r)
    ELSE IF case.named # {} THEN case.named
    ELSE Linked(Mentions)

\* Identifiers of entities are looked up as names, and not found: the pipeline
\* for aggregation lists what there is.
Exhaustive(n) == Timeline(Ident, "exhaustive", n)

\* The plan's time is not passed on: TemporalStage finds no signal.
Searched(r, s) ==
    CASE s.kind = "graph"      -> Graph(Seeds(r), s.arg, 30)
      [] s.kind = "fts"        -> Text(r, case.text, s.arg)
      [] s.kind = "vector"     -> Vectors(s.arg)
      [] s.kind = "temporal"   -> <<>>
      [] s.kind = "exhaustive" -> Exhaustive(s.arg)

Sources(s) == {s[i].source : i \in DOMAIN s}
OfSource(s, S) == Sorted(SelectSeq(s, LAMBDA h : h.source \in S))
Groups(s, S) == [c \in Sources(s) \cap S |-> OfSource(s, {c})]
Dedup(s) == SelectSeq([i \in DOMAIN s |-> IF i = Rank(s, s[i].id) THEN s[i] ELSE Hit(s[i].id, "twice", 0, TRUE)],
                      LAMBDA h : h.source # "twice")

\* Dropped by MergeStage: what is known to have expired.
Alive(s) == SelectSeq(s, LAMBDA h : ~(h.full /\ h.id \in lapsed))

Trust(s, m) ==
    LET from == {c \in Sources(s) : m \in Ids(OfSource(s, {c}))}
    IN IF "graph" \in from /\ from # {"graph"} THEN 12 ELSE 10

Structural == [m \in Ident |-> 10 * case.weight[m]]

\* Each way of merging several sources; a fusion weighs by structural weight.
MergedByRank(s)  == Best(Fusion(Groups(s, Sources(s)), Structural), 100)
MergedByGraph(s) == Best(Fusion(Groups(s, Sources(s)), [m \in Ident |-> Trust(s, m) * case.weight[m]]), 100)
MergedByText(s)  ==
    LET text == OfSource(s, {"sqlite"})
        rest == {h \in Fusion(Groups(s, Sources(s) \ {"sqlite"}), Structural) : h.id \notin Ids(text)}
    IN text \o Line(rest)

Merged(kind, s) ==
    CASE Cardinality(Sources(s)) <= 1 -> Sorted(Weighted(Dedup(s)))
      [] Cardinality(Sources(s)) > 1 /\ kind = "merge_fts" -> MergedByText(s)
      [] Cardinality(Sources(s)) > 1 /\ kind = "merge_rrf" -> MergedByRank(s)
      [] Cardinality(Sources(s)) > 1 /\ kind = "merge_graph" -> MergedByGraph(s)

\* FilterStage: relative to the first.
Filtered(ratio, s) == SelectSeq(s, LAMBDA h : 1000 * h.score >= ratio * s[1].score)

\* RerankGraphStage takes the entities of the plan for identifiers.
GraphScore(m) ==
    IF case.links[m] \cap Within(PlanIds, 2) = {} THEN 0
    ELSE CASE Distance(PlanIds, m, 2) = 0 -> 10 [] Distance(PlanIds, m, 2) = 1 -> 7 [] OTHER -> 4

RerankedByGraph(r, s) ==
    IF PlanIds = {} /\ PlanNames(r) = {} THEN s
    ELSE Sorted(SelectSeq(Blend(s, 6, [i \in DOMAIN s |-> GraphScore(s[i].id)]), LAMBDA h : GraphScore(h.id) >= 2))

RerankedByOverlap(s) == IF Len(s) <= 1 THEN s ELSE Sorted(Blend(s, 7, Overlap(s)))

\* What the stages that do not search make of candidates; with no time in the
\* plan, TemporalFilterStage does nothing.
Applied(r, s, c) ==
    CASE s.kind \in {"merge_fts", "merge_graph", "merge_rrf"} -> Merged(s.kind, Alive(c))
      [] s.kind = "filter"          -> IF c = <<>> THEN c ELSE Filtered(s.arg, c)
      [] s.kind = "rerank_graph"    -> IF c = <<>> THEN c ELSE RerankedByGraph(r, c)
      [] s.kind = "overlap"         -> RerankedByOverlap(c)
      [] s.kind = "temporal_filter" -> c

Group(r)  == Pipelines[st[r].name].groups[st[r].group]
InGroup(r) == st[r].at = "group" /\ st[r].group <= Len(Pipelines[st[r].name].groups)
Forward(r, c) == [st[r] EXCEPT !.at = "group", !.group = @ + 1, !.cands = c, !.got = <<>>, !.todo = {}, !.tier = 1]

Fork(r) ==
    /\ InGroup(r) /\ Group(r).parallel
    /\ Set(r, [st[r] EXCEPT !.at = "parallel", !.todo = DOMAIN Group(r).stages, !.got = [i \in {} |-> <<>>]])
    /\ UNCHANGED <<store, breaker, tracked, past, faulty>>

\* A stage that fails or panics leaves nothing.
RunStage(r) ==
    /\ st[r].at = "parallel"
    /\ \E i \in st[r].todo, ok \in {TRUE, ~case.faults} :
          /\ Set(r, [st[r] EXCEPT !.todo = @ \ {i},
                                  !.got = With(@, i, IF ok THEN Searched(r, Group(r).stages[i]) ELSE <<>>)])
          /\ faulty' = [faulty EXCEPT ![r] = @ \/ ~ok]
    /\ UNCHANGED <<store, breaker, tracked, past>>

\* In the order of the stages, not of their ends.
Join(r) ==
    /\ st[r].at = "parallel" /\ st[r].todo = {}
    /\ Set(r, Forward(r, st[r].cands \o FlattenSeq(st[r].got)))
    /\ UNCHANGED <<store, breaker, tracked, past, faulty>>

Sequential(r) ==
    LET s == Group(r).stages[1] IN
    /\ InGroup(r) /\ ~Group(r).parallel /\ s.kind # "rewrite"
    /\ \E ok \in {TRUE, ~(case.faults /\ s.kind \in {"graph", "fts", "exhaustive"})} :
          /\ Set(r, Forward(r, IF s.kind \notin {"graph", "fts", "exhaustive"} THEN Applied(r, s, st[r].cands)
                               ELSE IF ok THEN st[r].cands \o Searched(r, s) ELSE st[r].cands))
          /\ faulty' = [faulty EXCEPT ![r] = @ \/ ~ok]
    /\ UNCHANGED <<store, breaker, tracked, past>>

\* What is enough at each tier: how many texts, and the score of the best, in
\* hundredths.
Tiers == <<<<5, 60>>, <<3, 40>>, <<2, 25>>, <<2, 15>>, <<1, 0>>>>

TextHits(c) == SelectSeq(c, LAMBDA h : h.source = "sqlite")

IsEnough(c, tier) ==
    LET text == TextHits(c)
    IN /\ Len(text) >= Tiers[tier][1]
       /\ (IF text = <<>> THEN 0 ELSE 100 * text[1].score) >= Tiers[tier][2] * Unit

Unseen(c, s) == SelectSeq(s, LAMBDA h : h.id \notin Ids(c))

\* FTSRewriteRetryStage: one more search at each tier that has new terms.
Rewrite(r) ==
    LET c == st[r].cands IN
    /\ InGroup(r) /\ Group(r).stages[1].kind = "rewrite"
    /\ IF st[r].tier = Len(Tiers) \/ IsEnough(c, st[r].tier)
       THEN Set(r, Forward(r, c))
       ELSE \E terms \in BOOLEAN :
               Set(r, [st[r] EXCEPT !.tier = @ + 1,
                                    !.cands = IF terms THEN c \o Unseen(c, Text(r, case.wide, 10)) ELSE c])
    /\ UNCHANGED <<store, breaker, tracked, past, faulty>>

\* After the last group: another pipeline when nothing was found.
EndGroups(r) ==
    LET p == Pipelines[st[r].name] IN
    /\ st[r].at = "group" /\ st[r].group > Len(p.groups)
    /\ IF st[r].cands = <<>> /\ p.fallback # Nothing /\ st[r].depth < MaxFallback
       THEN Set(r, [st[r] EXCEPT !.name = p.fallback, !.group = 1, !.depth = @ + 1])
       ELSE Set(r, [st[r] EXCEPT !.at = "core"])
    /\ UNCHANGED <<store, breaker, tracked, past, faulty>>

Allows == breaker.state # "open"

Allowed == [breaker EXCEPT !.state = IF @ = "cooled" THEN "half" ELSE @]

Failed_OneMore == IF breaker.state = "half" \/ breaker.fails > Threshold
                  THEN [state |-> "open", fails |-> breaker.fails + 1]
                  ELSE [breaker EXCEPT !.fails = @ + 1]

Failed == IF breaker.state = "half" \/ breaker.fails + 1 >= Threshold
          THEN [state |-> "open", fails |-> breaker.fails + 1]
          ELSE [breaker EXCEPT !.fails = @ + 1]

Succeeded == [state |-> "closed", fails |-> 0]

\* RerankLLMStage, when it is one of the extra stages: its call is on its way.
Ask(r) ==
    /\ st[r].at = "extra"
    /\ IF ~Asked(r).extra \/ st[r].cands = <<>> \/ ~Allows
       THEN Set(r, [st[r] EXCEPT !.at = "trim"]) /\ UNCHANGED breaker
       ELSE Set(r, [st[r] EXCEPT !.at = "asking"]) /\ breaker' = Allowed
    /\ UNCHANGED <<store, tracked, past, faulty>>

\* The candidates without a score that is high enough are dropped, the others
\* are in the order of their scores.
Told(r) ==
    /\ st[r].at = "asking"
    /\ \/ /\ breaker' = Failed
          /\ Set(r, [st[r] EXCEPT !.at = "trim"])
       \/ /\ breaker' = Succeeded
          /\ \E s \in SetToAllKPermutations({st[r].cands[i] : i \in DOMAIN st[r].cands}) :
                Set(r, [st[r] EXCEPT !.at = "trim", !.cands = s])
    /\ UNCHANGED <<store, tracked, past, faulty>>

\* At least one, whatever the budget.
Trimmed(r, s) == First(s, Max({1, Asked(r).budget}))

Trim(r) ==
    /\ st[r].at = "trim"
    /\ Set(r, [st[r] EXCEPT !.at = "track", !.cands = Trimmed(r, @)])
    /\ UNCHANGED <<store, breaker, tracked, past, faulty>>

Pipelined(r) ==
    \/ Select(r) \/ Fork(r) \/ RunStage(r) \/ Join(r) \/ Sequential(r) \/ Rewrite(r) \/ EndGroups(r)
    \/ Ask(r) \/ Told(r) \/ Trim(r)

Runs(r) == Begin(r) \/ Legacy(r) \/ Pipelined(r) \/ Inject(r) \/ CountHits(r) \/ Return(r)

SearchNext ==
    \/ \E r \in Req : Runs(r)
    \/ \E m \in Ident : Ends(m)
    \/ Cool

SearchSpec == SearchInit /\ [][SearchNext]_searchVars

\* Searches, stages and calls end, in the time they are given.
FairSearchSpec == SearchSpec /\ \A r \in Req : WF_searchVars(Runs(r))

------------------------------------------------------------------------------
(* Properties.                                                              *)

IsDone(r)   == st[r].at = "done"
IsLegacy(r) == Asked(r) # Nothing /\ Asked(r).wired = "legacy"
Answer(r)   == st[r].cands
Listed(r)   == Ids(SelectSeq(Answer(r), LAMBDA h : h.source # "core"))

\* The state is what the requests, the breaker and the tracker keep, and an answer
\* of retrieveLegacy is within its limit, core memories apart.
SearchTypeOK ==
    /\ gone \subseteq Ident /\ lapsed \subseteq Ident
    /\ breaker.state \in {"closed", "open", "cooled", "half"} /\ breaker.fails \in Nat
    /\ tracked \in [Ident -> Nat]
    /\ \A r \in Req :
          /\ st[r].at \in {"new", "search", "fill", "rank", "core", "track", "return", "done", "select", "group",
                           "parallel", "extra", "asking", "trim"}
          /\ Ids(Answer(r)) \subseteq Ident
          /\ IsDone(r) /\ IsLegacy(r) => Cardinality(Listed(r)) <= Asked(r).limit
          /\ stays[r] \subseteq began[r].fresh /\ began[r].fresh \subseteq began[r].there

\* No memory is twice in an answer, whichever channels and tiers of rewriting
\* found it, and whatever ended while they ran.
NoDuplicates == \A r \in Req : IsDone(r) => Cardinality(Ids(Answer(r))) = Len(Answer(r))

\* The vector store may still have what was deleted long ago, and has identifiers
\* only; searches without filters find what has expired.  retrieveLegacy answers
\* with memories that were there when it was called, with their contents, and,
\* core memories apart, none that had expired by then, the retry included.
AnswersWereThere ==
    \A r \in Req : IsDone(r) /\ IsLegacy(r) =>
       /\ Ids(Answer(r)) \subseteq began[r].there
       /\ \A i \in DOMAIN Answer(r) :
             Answer(r)[i].full /\ (Answer(r)[i].source = "core" \/ Answer(r)[i].id \in began[r].fresh)

Wanted(r) == {m \in stays[r] \cap case.meets : case.text[m] > 0}

\* All that its text search finds has room in the answer.
Unlimited(r) ==
    ~faulty[r] /\ "fts" \in Asked(r).channels /\ ~Asked(r).class /\ Asked(r).limit >= Cardinality(Ident)

\* What matches the query and the filters, and stays there and unexpired all the
\* time, is in the answer of retrieveLegacy when the limit has room for it: neither
\* another channel, nor what ends meanwhile, nor the retry hides it.
MatchIsAnswered ==
    \A r \in Req : IsDone(r) /\ IsLegacy(r) /\ Unlimited(r) => Wanted(r) \subseteq Ids(Answer(r))

\* After MergeStage, no memory with content that had expired before the request
\* began is left: only CoreStage brings one back.
MergedAreFresh ==
    \A r \in Req :
       IsDone(r) /\ st[r].name \in {"precision", "exploration", "semantic", "full"} =>
          \A i \in DOMAIN Answer(r) :
             Answer(r)[i].full /\ Answer(r)[i].source # "core" => Answer(r)[i].id \in began[r].fresh

\* The chain of fallbacks of a pipeline that can widen the search gives up only
\* when there is nothing to be found.
EmptyMeansNothing ==
    \A r \in Req :
       IsDone(r) /\ st[r].name \in DOMAIN Pipelines \ {"aggregation", "fast"} /\ ~faulty[r] /\ ~Asked(r).extra /\ Answer(r) = <<>>
       => \A m \in stays[r] \cap case.meets : case.text[m] = 0

\* The breaker is closed only while fewer than failThreshold calls in a row have
\* failed, whichever requests made them and however late they end.
BreakerTrips == breaker.state = "closed" => breaker.fails < Threshold

------------------------------------------------------------------------------
(* Why: what a request of retrieveLegacy holds, label by label.             *)

Origin == {"sqlite", "qdrant", "graph", "temporal", "hybrid", "core"}
HitOf  == [id : Ident, source : Origin, score : Int, full : BOOLEAN]

\* A memory is in a list once.
IsList(s) == s \in Seq(HitOf) /\ \A i, j \in DOMAIN s : s[i].id = s[j].id => i = j

\* With contents it is one that was there; and once it has been ranked, one that
\* had not expired, unless it is core.
Seen(r, s)    == \A i \in DOMAIN s : s[i].full => s[i].id \in began[r].there
Current(r, s) == \A i \in DOMAIN s : s[i].source = "core" \/ s[i].id \in began[r].fresh
IsFull(s)     == \A i \in DOMAIN s : s[i].full
Suffices(r, s) == IsList(s) /\ Seen(r, s) /\ (Unlimited(r) => Wanted(r) \subseteq Ids(s))

Follows(r) ==
    /\ st[r].at \in {"new", "search", "fill", "rank", "core", "track", "return", "done"}
    /\ st[r].at = "new" => st[r] = Idle
    /\ st[r].at # "new" => There \subseteq began[r].there /\ began[r].there \ lapsed \subseteq began[r].fresh
    /\ st[r].at = "search" =>
          /\ DOMAIN st[r].got \subseteq ChannelName
          /\ \A c \in DOMAIN st[r].got : IsList(st[r].got[c]) /\ Seen(r, st[r].got[c])
          /\ Unlimited(r) /\ "fts" \notin st[r].todo /\ Wanted(r) # {}
             => "fts" \in DOMAIN st[r].got /\ Wanted(r) \subseteq Ids(st[r].got["fts"])
    /\ st[r].at \notin {"new", "search"} => Suffices(r, st[r].cands)
    /\ st[r].at \notin {"new", "search", "fill"} => IsFull(st[r].cands)
    /\ st[r].at \notin {"new", "search", "fill", "rank"} => Current(r, st[r].cands)
    /\ st[r].outer # Nothing => Suffices(r, st[r].outer) /\ IsFull(st[r].outer) /\ Current(r, st[r].outer)

SearchInv ==
    /\ case \in Cases /\ gone \subseteq Ident
    /\ breaker \in [state : {"closed", "open", "cooled", "half"}, fails : Nat] /\ BreakerTrips
    /\ DOMAIN st = Req /\ DOMAIN began = Req /\ DOMAIN stays = Req /\ DOMAIN faulty = Req
    /\ \A r \in Req : DOMAIN st[r] = DOMAIN Idle /\ stays[r] \subseteq Fresh
    /\ \A r \in Req : IsLegacy(r) => Follows(r)

------------------------------------------------------------------------------
\* Every request is answered: the retry is not retried, and fallbacks end.
RequestsEnd == \A r \in Req : (st[r].at # "new") ~> IsDone(r)

\* Said of the breaker (search/circuit_breaker.go:14): half-open, it allows one probe.
OneProbe == breaker.state = "half" => Cardinality({r \in Req : st[r].at = "asking"}) <= 1

\* What a request that is alone counts as an access is what it answers with, once.
CountedOnce ==
    \A r \in Req : IsDone(r) /\ (\A q \in Req \ {r} : Asked(q) = Nothing) =>
       \A m \in Ident : tracked[m] = IF m \in Ids(Answer(r)) THEN 1 ELSE 0

\* No request answers with what had expired before it began, whichever way it
\* goes: retrieveLegacy and the pipelines with a MergeStage do not.
NoneExpired == \A r \in Req : IsDone(r) => Listed(r) \subseteq began[r].fresh

\* Every answer has its content.
AnswersAreFull == \A r \in Req : IsDone(r) => \A i \in DOMAIN Answer(r) : Answer(r)[i].full

\* Core memories are in every answer to a request that asks for them.
CoreIncluded ==
    \A r \in Req : IsDone(r) /\ st[r].name \in DOMAIN Pipelines \cup {""} /\ Asked(r).core =>
       case.core \cap stays[r] \subseteq Ids(Answer(r))
==============================================================================
