---------------------------- MODULE ServerProofs ----------------------------
(***************************************************************************)
(* Proofs about what a server process does besides storing: its background *)
(* jobs and its searches.                                                  *)
(*                                                                         *)
(* Background: no access is counted twice, and no buffer holds more than it *)
(* has room for.  Both are about sums over finite sets, of the library's    *)
(* SumFunctionOnSet, whose laws come first.                                 *)
(*                                                                         *)
(* Retrieval: an answer of retrieveLegacy has what matches, nothing that    *)
(* was not there, and nothing twice; the breaker is closed only below its   *)
(* threshold.  First what lists of hits are: the best of a set in a line.   *)
(* Then what each search, fusion, backfilling and ranking make of them.     *)
(* Then SearchInv, one lemma per action.                                    *)
(***************************************************************************)
EXTENDS Background, Retrieval, FiniteSetTheorems, WellFoundedInduction, TLAPS

------------------------------------------------------------------------------
(* Sums over finite sets.  There is no induction here over an operator: a  *)
(* claim is the set of the sets it holds for, and finite sets are well     *)
(* founded.                                                                *)

(* Of the finite sets that do not belong to F, if any, one is least.       *)
LEMMA LeastSet ==
  ASSUME NEW S, IsFiniteSet(S), NEW F, S \notin F
  PROVE  \E T \in SUBSET S : T \notin F /\ \A U \in SUBSET T : U # T => U \in F
<1> DEFINE B == {T \in SUBSET S : T \notin F}
<1>1. B \subseteq FiniteSubsetsOf(S) /\ B # {}
  BY FS_Subset DEF FiniteSubsetsOf
<1>2. IsWellFoundedOn(StrictSubsetOrdering(S), FiniteSubsetsOf(S)) BY FS_StrictSubsetOrderingWellFounded
<1> HIDE DEF B
<1>3. PICK T \in B : \A U \in B : ~(<<U, T>> \in StrictSubsetOrdering(S))
  BY <1>1, <1>2, WFMin
<1>4. T \in SUBSET S /\ T \notin F BY <1>3 DEF B
<1>5. ASSUME NEW U \in SUBSET T, U # T PROVE U \in F
  <2>1. <<U, T>> \in StrictSubsetOrdering(S) BY <1>4, <1>5 DEF StrictSubsetOrdering
  <2>2. U \notin B BY <1>3, <2>1
  <2> QED BY <1>4, <1>5, <2>2 DEF B
<1> QED BY <1>4, <1>5

AnyOf(s) == CHOOSE x \in s : TRUE
Steps(f, S, g) == g = [s \in SUBSET S |-> IF s = {} THEN 0 ELSE f[AnyOf(s)] + g[s \ {AnyOf(s)}]]
Sums(f, S) == CHOOSE g : Steps(f, S, g)

LEMMA SumIs ==
  ASSUME NEW f, NEW S PROVE SumFunctionOnSet(f, S) = Sums(f, S)[S]
BY DEF SumFunctionOnSet, FoldFunctionOnSet, MapThenFoldSet, Sums, Steps, AnyOf

LEMMA SumsAgree ==
  ASSUME NEW f, NEW U, NEW V, NEW S, IsFiniteSet(S), S \subseteq U, S \subseteq V,
         NEW g, NEW h, Steps(f, U, g), Steps(f, V, h)
  PROVE  g[S] = h[S]
<1> DEFINE F == {T \in SUBSET S : g[T] = h[T]}
<1> SUFFICES ASSUME S \notin F PROVE FALSE OBVIOUS
<1> HIDE DEF F
<1>1. PICK T \in SUBSET S : T \notin F /\ \A X \in SUBSET T : X # T => X \in F BY LeastSet
<1>2. /\ g[T] = IF T = {} THEN 0 ELSE f[AnyOf(T)] + g[T \ {AnyOf(T)}]
      /\ h[T] = IF T = {} THEN 0 ELSE f[AnyOf(T)] + h[T \ {AnyOf(T)}]
  BY DEF Steps
<1>3. T # {} => AnyOf(T) \in T BY DEF AnyOf
<1>4. T # {} => g[T \ {AnyOf(T)}] = h[T \ {AnyOf(T)}]
  <2> SUFFICES ASSUME T # {} PROVE T \ {AnyOf(T)} \in F BY DEF F
  <2> QED BY <1>1, <1>3
<1>5. g[T] = h[T] BY <1>2, <1>4
<1> QED BY <1>1, <1>5 DEF F

LEMMA SumsExist ==
  ASSUME NEW f, NEW S, IsFiniteSet(S)
  PROVE  Steps(f, S, Sums(f, S))
<1> DEFINE F == {T \in SUBSET S : Steps(f, T, Sums(f, T))}
<1> SUFFICES ASSUME S \notin F PROVE FALSE BY DEF F
<1> HIDE DEF F
<1>1. PICK T \in SUBSET S : T \notin F /\ \A X \in SUBSET T : X # T => X \in F BY LeastSet
<1>2. \A X \in SUBSET T : X # T => Steps(f, X, Sums(f, X)) BY <1>1 DEF F
<1> DEFINE c(s) == s \ {AnyOf(s)}
           v(s) == IF s = {} THEN 0 ELSE f[AnyOf(s)] + Sums(f, c(s))[c(s)]
           h == [s \in SUBSET T |-> v(s)]
<1>3. \A s \in SUBSET T : s # {} => AnyOf(s) \in s /\ c(s) \in SUBSET T /\ c(s) # s /\ c(s) # T BY DEF AnyOf
<1>4. ASSUME NEW s \in SUBSET T, s # {} PROVE Sums(f, c(s))[c(s)] = h[c(s)]
  <2>1. c(s) \in SUBSET T /\ c(s) # T /\ h[c(s)] = v(c(s)) BY <1>3, <1>4
  <2> DEFINE t == c(s)
  <2>2. Steps(f, t, Sums(f, t)) BY <1>2, <2>1
  <2> HIDE DEF t
  <2>3. Sums(f, t)[t] = IF t = {} THEN 0 ELSE f[AnyOf(t)] + Sums(f, t)[c(t)] BY <2>2 DEF Steps
  <2>4. ASSUME t # {} PROVE Sums(f, t)[c(t)] = Sums(f, c(t))[c(t)]
    <3>1. t \in SUBSET T /\ t # T BY <2>1 DEF t
    <3>2. c(t) \in SUBSET T /\ c(t) # T BY <1>3, <3>1, <2>4
    <3>3. Steps(f, c(t), Sums(f, c(t))) BY <1>2, <3>2
    <3>4. IsFiniteSet(c(t)) BY <3>2, FS_Subset
    <3> HIDE DEF AnyOf
    <3> QED BY <2>2, <3>3, <3>4, SumsAgree
  <2> QED BY <2>1, <2>3, <2>4 DEF t
<1>5. h = [s \in SUBSET T |-> IF s = {} THEN 0 ELSE f[AnyOf(s)] + h[c(s)]] BY <1>4
<1>6. Steps(f, T, h) BY <1>5 DEF Steps
<1>7. Steps(f, T, Sums(f, T)) BY <1>6 DEF Sums
<1> QED BY <1>1, <1>7 DEF F

LEMMA SumFirst ==
  ASSUME NEW f, NEW S, IsFiniteSet(S)
  PROVE  SumFunctionOnSet(f, S) = IF S = {} THEN 0 ELSE f[AnyOf(S)] + SumFunctionOnSet(f, S \ {AnyOf(S)})
<1>1. Steps(f, S, Sums(f, S)) BY SumsExist
<1>2. Sums(f, S)[S] = IF S = {} THEN 0 ELSE f[AnyOf(S)] + Sums(f, S)[S \ {AnyOf(S)}]
  BY <1>1 DEF Steps
<1> DEFINE T == S \ {AnyOf(S)}
<1>3. T \subseteq S /\ IsFiniteSet(T) BY FS_Subset
<1>4. Steps(f, T, Sums(f, T)) BY <1>3, SumsExist
<1> HIDE DEF T
<1>5. \A g, h : Steps(f, S, g) /\ Steps(f, T, h) => g[T] = h[T]
  <2> SUFFICES ASSUME NEW g, NEW h, Steps(f, S, g), Steps(f, T, h) PROVE g[T] = h[T] OBVIOUS
  <2>1. T \subseteq T OBVIOUS
  <2> QED BY <1>3, <2>1, SumsAgree
<1>6. SumFunctionOnSet(f, S) = Sums(f, S)[S] /\ SumFunctionOnSet(f, T) = Sums(f, T)[T] BY SumIs
<1>7. Sums(f, S)[T] = Sums(f, T)[T] BY <1>1, <1>4, <1>5
<1> QED BY <1>2, <1>6, <1>7 DEF T

IsCount(f, S) == \A x \in S : f[x] \in Nat

LEMMA SumIsNat ==
  ASSUME NEW f, NEW S, IsFiniteSet(S), IsCount(f, S)
  PROVE  SumFunctionOnSet(f, S) \in Nat
<1> DEFINE F == {T \in SUBSET S : SumFunctionOnSet(f, T) \in Nat}
<1> SUFFICES ASSUME S \notin F PROVE FALSE OBVIOUS
<1> HIDE DEF F
<1>1. PICK T \in SUBSET S : T \notin F /\ \A X \in SUBSET T : X # T => X \in F BY LeastSet
<1>2. IsFiniteSet(T) BY FS_Subset
<1>3. SumFunctionOnSet(f, T) = IF T = {} THEN 0 ELSE f[AnyOf(T)] + SumFunctionOnSet(f, T \ {AnyOf(T)}) BY <1>2, SumFirst
<1>4. ASSUME T # {} PROVE SumFunctionOnSet(f, T) \in Nat
  <2>1. AnyOf(T) \in T BY <1>4 DEF AnyOf
  <2>2. T \ {AnyOf(T)} \in F BY <1>1, <2>1
  <2> QED BY <1>3, <1>4, <2>1, <2>2 DEF F, IsCount
<1>5. T = {} => SumFunctionOnSet(f, T) = 0 BY <1>3
<1> QED BY <1>1, <1>4, <1>5 DEF F

(* A sum may be taken from any of its elements.                             *)
LEMMA SumAny ==
  ASSUME NEW f, NEW S, IsFiniteSet(S), IsCount(f, S), NEW x \in S
  PROVE  SumFunctionOnSet(f, S) = f[x] + SumFunctionOnSet(f, S \ {x})
<1> DEFINE F == {T \in SUBSET S : \A y \in T : SumFunctionOnSet(f, T) = f[y] + SumFunctionOnSet(f, T \ {y})}
<1> SUFFICES ASSUME S \notin F PROVE FALSE OBVIOUS
<1> HIDE DEF F
<1>1. PICK T \in SUBSET S : T \notin F /\ \A X \in SUBSET T : X # T => X \in F BY LeastSet
<1>2. PICK y \in T : SumFunctionOnSet(f, T) # f[y] + SumFunctionOnSet(f, T \ {y}) BY <1>1 DEF F
<1>3. PICK z : z = AnyOf(T) OBVIOUS
<1>4. z \in T BY <1>2, <1>3 DEF AnyOf
<1>5. \A X \in SUBSET T : IsFiniteSet(X) /\ SumFunctionOnSet(f, X) \in Nat
  BY FS_Subset, SumIsNat DEF IsCount
<1>6. SumFunctionOnSet(f, T) = f[z] + SumFunctionOnSet(f, T \ {z}) BY <1>3, <1>4, <1>5, SumFirst
<1>7. y # z BY <1>2, <1>6
<1>8. SumFunctionOnSet(f, T \ {z}) = f[y] + SumFunctionOnSet(f, (T \ {z}) \ {y})
  <2>1. T \ {z} \in F BY <1>1, <1>4
  <2> QED BY <2>1, <1>7 DEF F
<1>9. SumFunctionOnSet(f, T \ {y}) = f[z] + SumFunctionOnSet(f, (T \ {y}) \ {z})
  <2>1. T \ {y} \in F BY <1>1
  <2> QED BY <2>1, <1>4, <1>7 DEF F
<1>10. (T \ {z}) \ {y} = (T \ {y}) \ {z} OBVIOUS
<1>11. f[y] \in Nat /\ f[z] \in Nat BY <1>4 DEF IsCount
<1>12. PICK w : w = SumFunctionOnSet(f, (T \ {y}) \ {z}) OBVIOUS
<1>13. w \in Nat BY <1>5, <1>12
<1>14. SumFunctionOnSet(f, T) = f[z] + (f[y] + w) /\ SumFunctionOnSet(f, T \ {y}) = f[z] + w
  BY <1>6, <1>8, <1>9, <1>10, <1>12
<1> QED BY <1>2, <1>11, <1>13, <1>14

(* Functions that agree have one sum.                                       *)
LEMMA SumSame ==
  ASSUME NEW f, NEW g, NEW S, IsFiniteSet(S), \A x \in S : f[x] = g[x]
  PROVE  SumFunctionOnSet(f, S) = SumFunctionOnSet(g, S)
<1> DEFINE F == {T \in SUBSET S : SumFunctionOnSet(f, T) = SumFunctionOnSet(g, T)}
<1> SUFFICES ASSUME S \notin F PROVE FALSE OBVIOUS
<1> HIDE DEF F
<1>1. PICK T \in SUBSET S : T \notin F /\ \A X \in SUBSET T : X # T => X \in F BY LeastSet
<1>2. IsFiniteSet(T) BY FS_Subset
<1>3. /\ SumFunctionOnSet(f, T) = IF T = {} THEN 0 ELSE f[AnyOf(T)] + SumFunctionOnSet(f, T \ {AnyOf(T)})
      /\ SumFunctionOnSet(g, T) = IF T = {} THEN 0 ELSE g[AnyOf(T)] + SumFunctionOnSet(g, T \ {AnyOf(T)})
  BY <1>2, SumFirst
<1>4. ASSUME T # {} PROVE SumFunctionOnSet(f, T) = SumFunctionOnSet(g, T)
  <2>1. AnyOf(T) \in T BY <1>4 DEF AnyOf
  <2>2. T \ {AnyOf(T)} \in F BY <1>1, <2>1
  <2> QED BY <1>3, <1>4, <2>1, <2>2 DEF F
<1> QED BY <1>1, <1>3, <1>4 DEF F

(* A sum changes by as much as one of its elements.                         *)
LEMMA SumChanges ==
  ASSUME NEW f, NEW g, NEW S, IsFiniteSet(S), IsCount(f, S), IsCount(g, S), NEW x \in S,
         \A y \in S \ {x} : f[y] = g[y]
  PROVE  SumFunctionOnSet(g, S) + f[x] = SumFunctionOnSet(f, S) + g[x]
<1>1. SumFunctionOnSet(f, S) = f[x] + SumFunctionOnSet(f, S \ {x}) /\ SumFunctionOnSet(g, S) = g[x] + SumFunctionOnSet(g, S \ {x}) BY SumAny
<1>2. IsFiniteSet(S \ {x}) /\ IsCount(f, S \ {x}) BY FS_Subset DEF IsCount
<1>3. SumFunctionOnSet(f, S \ {x}) = SumFunctionOnSet(g, S \ {x}) BY <1>2, SumSame
<1>4. SumFunctionOnSet(f, S \ {x}) \in Nat /\ f[x] \in Nat /\ g[x] \in Nat BY <1>2, SumIsNat DEF IsCount
<1> QED BY <1>1, <1>3, <1>4

(* A sum of zeros.                                                        *)
LEMMA SumOfNone ==
  ASSUME NEW f, NEW S, IsFiniteSet(S), \A x \in S : f[x] = 0
  PROVE  SumFunctionOnSet(f, S) = 0
<1> DEFINE F == {T \in SUBSET S : SumFunctionOnSet(f, T) = 0}
<1> SUFFICES ASSUME S \notin F PROVE FALSE OBVIOUS
<1> HIDE DEF F
<1>1. PICK T \in SUBSET S : T \notin F /\ \A X \in SUBSET T : X # T => X \in F BY LeastSet
<1>2. IsFiniteSet(T) BY FS_Subset
<1>3. SumFunctionOnSet(f, T) = IF T = {} THEN 0 ELSE f[AnyOf(T)] + SumFunctionOnSet(f, T \ {AnyOf(T)})
  BY <1>2, SumFirst
<1>4. ASSUME T # {} PROVE SumFunctionOnSet(f, T) = 0
  <2>1. AnyOf(T) \in T BY <1>4 DEF AnyOf
  <2>2. T \ {AnyOf(T)} \in F BY <1>1, <2>1
  <2> QED BY <1>3, <1>4, <2>1, <2>2 DEF F
<1> QED BY <1>1, <1>3, <1>4 DEF F

------------------------------------------------------------------------------
(* What buffers and flushes hold.                                           *)

Bag == [Memory -> Nat]

Part(m) == [p \in Proc |-> buf[p][m] + counts[p][m]]

BuffersBounded == \A p \in Proc : Total(buf[p]) <= BufSize

IInv ==
    /\ buf \in [Proc -> Bag] /\ counts \in [Proc -> Bag]
    /\ access \in Bag /\ hits \in Bag
    /\ BuffersBounded
    /\ NeverOvercounts

LEMMA Sizes == IsFiniteSet(Memory) /\ IsFiniteSet(Proc) /\ BufSize \in Nat /\ Zero \in Bag
<1>1. MaxMemory \in Nat BY BoundAssumption
<1>2. IsFiniteSet(Memory) BY <1>1, FS_Interval DEF Memory
<1> QED BY <1>2, ProcAssumption, SizeAssumption DEF Zero, Bag

(* What is in flight of a memory is a number, and changes as the share of   *)
(* the one process that acts.                                               *)
LEMMA FlightIsNat ==
  ASSUME IInv, NEW m \in Memory
  PROVE  InFlight(m) \in Nat
<1>1. IsCount(Part(m), Proc) BY DEF IsCount, Part, IInv, Bag
<1> QED BY <1>1, Sizes, SumIsNat DEF InFlight, Part

LEMMA FlightChanges ==
  ASSUME IInv, buf' \in [Proc -> Bag], counts' \in [Proc -> Bag], NEW m \in Memory, NEW p \in Proc,
         \A q \in Proc \ {p} : buf'[q] = buf[q] /\ counts'[q] = counts[q]
  PROVE  /\ InFlight(m) \in Nat /\ InFlight(m)' \in Nat
         /\ InFlight(m)' + (buf[p][m] + counts[p][m]) = InFlight(m) + (buf'[p][m] + counts'[p][m])
<1> DEFINE f == Part(m)
           g == Part(m)'
<1>1. IsCount(f, Proc) /\ IsCount(g, Proc) BY DEF IsCount, Part, IInv, Bag
<1>2. \A q \in Proc \ {p} : f[q] = g[q] BY DEF Part
<1>3. InFlight(m) = SumFunctionOnSet(f, Proc) /\ InFlight(m)' = SumFunctionOnSet(g, Proc)
  BY DEF InFlight, Part
<1>4. f[p] = buf[p][m] + counts[p][m] /\ g[p] = buf'[p][m] + counts'[p][m] BY DEF Part
<1> HIDE DEF f, g
<1>5. SumFunctionOnSet(g, Proc) + f[p] = SumFunctionOnSet(f, Proc) + g[p]
  BY <1>1, <1>2, Sizes, SumChanges
<1>6. SumFunctionOnSet(f, Proc) \in Nat /\ SumFunctionOnSet(g, Proc) \in Nat BY <1>1, Sizes, SumIsNat
<1> QED BY <1>3, <1>4, <1>5, <1>6

(* A bag that changes in one memory changes its total by as much.           *)
LEMMA TotalChanges ==
  ASSUME NEW b \in Bag, NEW c \in Bag, NEW m \in Memory, \A n \in Memory \ {m} : b[n] = c[n]
  PROVE  Total(b) \in Nat /\ Total(c) \in Nat /\ Total(c) + b[m] = Total(b) + c[m]
<1>1. IsCount(b, Memory) /\ IsCount(c, Memory) BY DEF IsCount, Bag
<1>2. SumFunctionOnSet(c, Memory) + b[m] = SumFunctionOnSet(b, Memory) + c[m]
  BY <1>1, Sizes, SumChanges
<1>3. SumFunctionOnSet(b, Memory) \in Nat /\ SumFunctionOnSet(c, Memory) \in Nat BY <1>1, Sizes, SumIsNat
<1> QED BY <1>2, <1>3 DEF Total

LEMMA TotalOfZero == Total(Zero) = 0
BY Sizes, SumOfNone DEF Total, Zero

------------------------------------------------------------------------------
LEMMA Initially == Init => IInv
<1> SUFFICES ASSUME Init PROVE IInv OBVIOUS
<1>1. buf \in [Proc -> Bag] /\ counts \in [Proc -> Bag] /\ access \in Bag /\ hits \in Bag
  BY Sizes DEF Init
<1>2. BuffersBounded BY TotalOfZero, Sizes DEF Init, BuffersBounded
<1>3. ASSUME NEW m \in Memory PROVE access[m] + InFlight(m) <= hits[m]
  <2>1. \A p \in Proc : Part(m)[p] = 0 BY DEF Init, Part, Zero
  <2>2. InFlight(m) = 0 BY <2>1, Sizes, SumOfNone DEF InFlight, Part
  <2> QED BY <2>2 DEF Init, Zero
<1> QED BY <1>1, <1>2, <1>3 DEF IInv, NeverOvercounts

(* The steps that touch no count.                                           *)
LEMMA UncountedStep ==
  ASSUME IInv, UNCHANGED <<buf, counts, access, hits>>
  PROVE  IInv'
BY DEF IInv, BuffersBounded, NeverOvercounts, InFlight

LEMMA EndStep ==
  ASSUME IInv, NEW p \in Proc, Ended(p)
  PROVE  IInv'
<1>1. buf' = [buf EXCEPT ![p] = Zero] /\ counts' = [counts EXCEPT ![p] = Zero] /\ UNCHANGED <<access, hits>>
  BY DEF Ended, stores
<1>2. buf' \in [Proc -> Bag] /\ counts' \in [Proc -> Bag] BY <1>1, Sizes DEF IInv
<1>3. BuffersBounded' BY <1>1, TotalOfZero, Sizes DEF IInv, BuffersBounded
<1>4. ASSUME NEW m \in Memory PROVE access'[m] + InFlight(m)' <= hits'[m]
  <2>1. /\ InFlight(m) \in Nat /\ InFlight(m)' \in Nat
        /\ InFlight(m)' + (buf[p][m] + counts[p][m]) = InFlight(m) + (buf'[p][m] + counts'[p][m])
    BY <1>1, <1>2, FlightChanges DEF IInv
  <2>2. buf'[p][m] = 0 /\ counts'[p][m] = 0 BY <1>1 DEF IInv, Zero
  <2>3. buf[p][m] \in Nat /\ counts[p][m] \in Nat /\ access[m] \in Nat /\ hits[m] \in Nat
    BY DEF IInv, Bag
  <2>4. access[m] + InFlight(m) <= hits[m] BY DEF IInv, NeverOvercounts
  <2> QED BY <1>1, <2>1, <2>2, <2>3, <2>4
<1> QED BY <1>1, <1>2, <1>3, <1>4 DEF IInv, NeverOvercounts

LEMMA TrackStep ==
  ASSUME IInv, NEW p \in Proc, Track(p)
  PROVE  IInv'
<1>1. PICK m \in Live :
        /\ hits' = [hits EXCEPT ![m] = @ + 1]
        /\ IF HasRoom(p) THEN buf' = [buf EXCEPT ![p][m] = @ + 1] ELSE UNCHANGED buf
        /\ UNCHANGED <<counts, access>>
  BY DEF Track, stores
<1>2. m \in Memory BY DEF Live
<1>3. hits' \in Bag BY <1>1, <1>2 DEF IInv, Bag
<1>4. buf[p] \in Bag BY DEF IInv
<1>5. CASE HasRoom(p)
  <2>1. buf' = [buf EXCEPT ![p][m] = @ + 1] BY <1>1, <1>5
  <2> DEFINE b == [buf[p] EXCEPT ![m] = @ + 1]
  <2>2. b \in Bag /\ buf'[p] = b /\ \A q \in Proc \ {p} : buf'[q] = buf[q]
    BY <1>2, <1>4, <2>1 DEF IInv, Bag
  <2>3. buf' \in [Proc -> Bag] BY <2>1, <2>2, <1>4, <1>2 DEF IInv, Bag
  <2>4. Total(buf[p]) < BufSize BY <1>5 DEF HasRoom
  <2>5. Total(b) <= BufSize
    <3>1. b[m] = buf[p][m] + 1 /\ \A n \in Memory \ {m} : buf[p][n] = b[n] BY <1>2, <1>4 DEF Bag
    <3>2. buf[p][m] \in Nat BY <1>2, <1>4 DEF Bag
    <3> HIDE DEF b
    <3>3. Total(buf[p]) \in Nat /\ Total(b) \in Nat /\ Total(b) + buf[p][m] = Total(buf[p]) + b[m]
      BY <1>2, <1>4, <2>2, <3>1, TotalChanges
    <3> QED BY <2>4, <3>1, <3>2, <3>3, Sizes
  <2> HIDE DEF b
  <2>6. BuffersBounded'
    <3> SUFFICES ASSUME NEW q \in Proc PROVE Total(buf'[q]) <= BufSize BY DEF BuffersBounded, Total
    <3>1. CASE q = p BY <3>1, <2>2, <2>5
    <3>2. CASE q # p BY <3>2, <2>2 DEF IInv, BuffersBounded
    <3> QED BY <3>1, <3>2
  <2>7. ASSUME NEW n \in Memory PROVE access'[n] + InFlight(n)' <= hits'[n]
    <3>1. /\ InFlight(n) \in Nat /\ InFlight(n)' \in Nat
          /\ InFlight(n)' + (buf[p][n] + counts[p][n]) = InFlight(n) + (buf'[p][n] + counts'[p][n])
      BY <1>1, <2>2, <2>3, FlightChanges DEF IInv
    <3>2. buf'[p][n] - buf[p][n] = hits'[n] - hits[n]
      BY <1>1, <1>2, <1>4, <2>1 DEF IInv, Bag
    <3>3. /\ buf[p][n] \in Nat /\ buf'[p][n] \in Nat /\ counts[p][n] \in Nat
          /\ access[n] \in Nat /\ hits[n] \in Nat /\ hits'[n] \in Nat
      BY <1>3, <2>3 DEF IInv, Bag
    <3>4. access[n] + InFlight(n) <= hits[n] BY DEF IInv, NeverOvercounts
    <3> QED BY <1>1, <3>1, <3>2, <3>3, <3>4
  <2> QED BY <1>1, <1>3, <2>3, <2>6, <2>7 DEF IInv, NeverOvercounts
<1>6. CASE ~HasRoom(p)
  <2>1. UNCHANGED buf BY <1>1, <1>6
  <2>2. \A n \in Memory : InFlight(n)' = InFlight(n) BY <1>1, <2>1 DEF InFlight
  <2>3. \A n \in Memory : hits'[n] >= hits[n] /\ hits[n] \in Nat /\ hits'[n] \in Nat
    BY <1>1, <1>2 DEF IInv, Bag
  <2>4. \A n \in Memory : InFlight(n) \in Nat /\ access[n] \in Nat BY FlightIsNat DEF IInv, Bag
  <2>5. NeverOvercounts' BY <1>1, <2>2, <2>3, <2>4 DEF IInv, NeverOvercounts
  <2>6. BuffersBounded' BY <2>1 DEF IInv, BuffersBounded
  <2> QED BY <1>1, <1>3, <2>1, <2>5, <2>6 DEF IInv
<1> QED BY <1>5, <1>6

(* What is drained stays in flight.                                         *)
LEMMA DrainStep ==
  ASSUME IInv, NEW p \in Proc, Drain(p)
  PROVE  IInv'
<1>1. CASE UNCHANGED <<buf, counts>> BY <1>1, UncountedStep DEF Drain, stores, history
<1>2. CASE \E m \in Memory : buf[p][m] > 0 /\ Taken(p, m)
  <2>1. PICK m \in Memory :
          /\ buf[p][m] > 0
          /\ counts' = [counts EXCEPT ![p][m] = @ + 1]
          /\ buf' = [buf EXCEPT ![p][m] = @ - 1]
    BY <1>2 DEF Taken
  <2>2. UNCHANGED <<access, hits>> BY DEF Drain, stores, history
  <2>3. buf[p] \in Bag /\ counts[p] \in Bag BY DEF IInv
  <2> DEFINE b == [buf[p] EXCEPT ![m] = @ - 1]
             c == [counts[p] EXCEPT ![m] = @ + 1]
  <2>4. b \in Bag /\ c \in Bag BY <2>1, <2>3 DEF Bag
  <2>5. buf'[p] = b /\ counts'[p] = c /\ \A q \in Proc \ {p} : buf'[q] = buf[q] /\ counts'[q] = counts[q]
    BY <2>1 DEF IInv
  <2>6. buf' \in [Proc -> Bag] /\ counts' \in [Proc -> Bag] BY <2>1, <2>4 DEF IInv
  <2>7. Total(b) <= BufSize
    <3>1. b[m] = buf[p][m] - 1 /\ \A n \in Memory \ {m} : buf[p][n] = b[n] BY <2>3 DEF Bag
    <3>2. buf[p][m] \in Nat BY <2>3 DEF Bag
    <3> HIDE DEF b
    <3>3. Total(buf[p]) \in Nat /\ Total(b) \in Nat /\ Total(b) + buf[p][m] = Total(buf[p]) + b[m]
      BY <2>3, <2>4, <3>1, TotalChanges
    <3>4. Total(buf[p]) <= BufSize BY DEF IInv, BuffersBounded
    <3> QED BY <3>1, <3>2, <3>3, <3>4, Sizes
  <2>8. \A n \in Memory : b[n] + c[n] = buf[p][n] + counts[p][n] BY <2>3 DEF Bag
  <2> HIDE DEF b, c
  <2>9. BuffersBounded'
    <3> SUFFICES ASSUME NEW q \in Proc PROVE Total(buf'[q]) <= BufSize BY DEF BuffersBounded, Total
    <3>1. CASE q = p BY <3>1, <2>5, <2>7
    <3>2. CASE q # p BY <3>2, <2>5 DEF IInv, BuffersBounded
    <3> QED BY <3>1, <3>2
  <2>10. ASSUME NEW n \in Memory PROVE access'[n] + InFlight(n)' <= hits'[n]
    <3>1. /\ InFlight(n) \in Nat /\ InFlight(n)' \in Nat
          /\ InFlight(n)' + (buf[p][n] + counts[p][n]) = InFlight(n) + (buf'[p][n] + counts'[p][n])
      BY <2>5, <2>6, FlightChanges DEF IInv
    <3>2. buf'[p][n] + counts'[p][n] = buf[p][n] + counts[p][n] BY <2>5, <2>8
    <3>3. buf[p][n] \in Nat /\ counts[p][n] \in Nat BY DEF IInv, Bag
    <3>4. InFlight(n)' = InFlight(n) BY <3>1, <3>2, <3>3
    <3> QED BY <2>2, <3>4 DEF IInv, NeverOvercounts
  <2> QED BY <2>2, <2>6, <2>9, <2>10 DEF IInv, NeverOvercounts
<1> QED BY <1>1, <1>2 DEF Drain

(* What is written leaves what is in flight, whether it arrives or not.     *)
LEMMA WriteStep ==
  ASSUME IInv, NEW p \in Proc, WriteCount(p)
  PROVE  IInv'
<1>1. CASE UNCHANGED <<counts, access>> BY <1>1, UncountedStep DEF WriteCount
<1>2. CASE \E m \in Memory : counts' = Written(p, m) /\ (Counted(p, m) \/ GivenUp(p, m))
  <2>1. PICK m \in Memory :
             /\ counts' = [counts EXCEPT ![p][m] = 0]
             /\ access' = [access EXCEPT ![m] = @ + counts[p][m]] \/ access' = access
    BY <1>2 DEF Written, Counted, GivenUp
  <2>2. UNCHANGED <<buf, hits>> BY DEF WriteCount
  <2>3. buf[p] \in Bag /\ counts[p] \in Bag BY DEF IInv
  <2> DEFINE c == [counts[p] EXCEPT ![m] = 0]
  <2>4. c \in Bag BY <2>3 DEF Bag
  <2>5. counts'[p] = c /\ \A q \in Proc \ {p} : buf'[q] = buf[q] /\ counts'[q] = counts[q]
    BY <2>1, <2>2 DEF IInv
  <2>6. counts' \in [Proc -> Bag] BY <2>1, <2>4 DEF IInv
  <2>7. access' \in Bag BY <2>1, <2>3 DEF IInv, Bag
  <2>8. \A n \in Memory : /\ access[n] \in Nat /\ access'[n] \in Nat
                          /\ access'[n] + c[n] <= access[n] + counts[p][n]
    BY <2>1, <2>3 DEF IInv, Bag
  <2>9. \A n \in Memory : counts[p][n] \in Nat /\ c[n] \in Nat /\ buf[p][n] \in Nat /\ hits[n] \in Nat
    BY <2>3, <2>4 DEF IInv, Bag
  <2> HIDE DEF c
  <2>10. ASSUME NEW n \in Memory PROVE access'[n] + InFlight(n)' <= hits'[n]
    <3>1. /\ InFlight(n) \in Nat /\ InFlight(n)' \in Nat
          /\ InFlight(n)' + (buf[p][n] + counts[p][n]) = InFlight(n) + (buf'[p][n] + counts'[p][n])
      BY <2>2, <2>5, <2>6, FlightChanges DEF IInv
    <3>2. access[n] + InFlight(n) <= hits[n] BY DEF IInv, NeverOvercounts
    <3> QED BY <2>2, <2>5, <2>8, <2>9, <3>1, <3>2
  <2>11. BuffersBounded' BY <2>2 DEF IInv, BuffersBounded
  <2> QED BY <2>2, <2>6, <2>7, <2>10, <2>11 DEF IInv, NeverOvercounts
<1> QED BY <1>1, <1>2 DEF WriteCount

(* Processes that start or stop, ticks and the backfill touch none.          *)
LEMMA Uncounted ==
  ASSUME NEW p \in Proc,
         \/ Start(p) \/ Launch(p) \/ Signal(p) \/ Backfill(p)
         \/ \E j \in Job : Tick(p, j) \/ StopTask(p, j)
  PROVE  UNCHANGED <<buf, counts, access, hits>>
<1>1. ASSUME Start(p) \/ Launch(p) \/ Signal(p) PROVE UNCHANGED <<buf, counts, access, hits>>
  BY <1>1 DEF Start, Launch, Signal, stores, history
<1>2. ASSUME Backfill(p) PROVE UNCHANGED <<buf, counts, access, hits>>
  BY <1>2 DEF Backfill, WriteFile, Load, Scan, Check, NextChunk, Embed, Upsert, Kept
<1>3. ASSUME NEW j \in Job, Tick(p, j) \/ StopTask(p, j) PROVE UNCHANGED <<buf, counts, access, hits>>
  BY <1>3 DEF Tick, StopTask, stores, history
<1> QED BY <1>1, <1>2, <1>3

LEMMA Step == IInv /\ [Next]_vars => IInv'
<1> SUFFICES ASSUME IInv, [Next]_vars PROVE IInv' OBVIOUS
<1>1. CASE UNCHANGED vars BY <1>1, UncountedStep DEF vars, stores, history
<1>2. ASSUME NEW p \in Proc, Exit(p) \/ ExitEarly(p) \/ Crash(p) PROVE IInv'
  BY <1>2, EndStep DEF Exit, ExitEarly, Crash
<1>3. ASSUME NEW p \in Proc, Track(p) PROVE IInv' BY <1>3, TrackStep
<1>4. ASSUME NEW p \in Proc, Flush(p) PROVE IInv' BY <1>4, DrainStep, WriteStep DEF Flush
<1>5. ASSUME NEW p \in Proc,
             \/ Start(p) \/ Launch(p) \/ Signal(p) \/ Backfill(p)
             \/ \E j \in Job : Tick(p, j) \/ StopTask(p, j)
      PROVE  IInv'
  BY <1>5, UncountedStep, Uncounted
<1>6. CASE Client
  BY <1>6, UncountedStep DEF Client, Create, WriteVector, Delete, DeleteVector, Purge, Untouched, history
<1> QED BY <1>1, <1>2, <1>3, <1>4, <1>5, <1>6 DEF Next

(* The inductive invariant: counts are numbers, buffers within their size,  *)
(* and access counts with what is in flight at most the hits.               *)
THEOREM Invariance == Spec => []IInv
<1> QED BY Initially, Step, PTL DEF Spec

(* AccessTracker: a hit is counted once at most, for any number of           *)
(* processes, memories and buffer sizes, however flushes, searches, stops    *)
(* and crashes interleave.                                                   *)
THEOREM HitsCountOnce == Spec => []NeverOvercounts
<1>1. IInv => NeverOvercounts BY DEF IInv
<1> QED BY <1>1, Invariance, PTL

(* Track drops what the channel has no room for: no buffer outgrows it.      *)
THEOREM BuffersHold == Spec => []BuffersBounded
<1>1. IInv => BuffersBounded BY DEF IInv
<1> QED BY <1>1, Invariance, PTL

------------------------------------------------------------------------------
(* Lists of hits: Line and Best keep what they are given.                   *)

\* No two of them of one memory.
Apart(H) == H \subseteq HitOf /\ \A x, y \in H : x.id = y.id => x = y

LEMMA BetterIsTotal ==
  ASSUME NEW H, Apart(H), NEW x \in H, NEW y \in H
  PROVE  /\ ~Better(x, x)
         /\ x # y => Better(x, y) \/ Better(y, x)
         /\ ~(Better(x, y) /\ Better(y, x))
         /\ \A z \in H : Better(x, y) /\ Better(y, z) => Better(x, z)
<1>0. Ident \subseteq Nat BY IdentAssumption
<1>1. \A z \in H : z.score \in Int /\ z.id \in Int
  <2> TAKE z \in H
  <2>1. z \in HitOf BY DEF Apart
  <2>2. z.score \in Int BY <2>1 DEF HitOf
  <2>3. z.id \in Ident BY <2>1 DEF HitOf
  <2>4. z.id \in Nat BY <1>0, <2>3
  <2> QED BY <2>2, <2>4
<1>2. x.id = y.id => x = y BY DEF Apart
<1> QED BY <1>1, <1>2 DEF Better

LEMMA ApartIsFinite ==
  ASSUME NEW H, Apart(H)
  PROVE  IsFiniteSet(H) /\ Cardinality(H) \in Nat /\ Cardinality(H) <= Cardinality(Ident)
<1> DEFINE f == [x \in H |-> x.id]
<1>1. f \in Injection(H, Ident) BY DEF Injection, IsInjective, Apart, HitOf
<1>2. IsFiniteSet(H) /\ Cardinality(H) <= Cardinality(Ident) BY <1>1, IdentAssumption, FS_Injection
<1> QED BY <1>2, FS_CardinalityType

\* There is an order: each behind as many as are better.
LEMMA LineExists ==
  ASSUME NEW H, Apart(H)
  PROVE  \E s \in [1 .. Cardinality(H) -> H] : \A i, j \in DOMAIN s : i < j => Better(s[i], s[j])
<1> DEFINE n == Cardinality(H)
           ahead(x) == {y \in H : Better(y, x)}
           place == [x \in H |-> Cardinality(ahead(x)) + 1]
<1>1. IsFiniteSet(H) /\ n \in Nat BY ApartIsFinite
<1>2. \A x \in H : IsFiniteSet(ahead(x)) /\ Cardinality(ahead(x)) \in Nat BY <1>1, FS_Subset, FS_CardinalityType
<1>3. ASSUME NEW x \in H PROVE place[x] \in 1 .. n
  <2>1. ahead(x) \subseteq H /\ x \notin ahead(x) BY BetterIsTotal
  <2>2. Cardinality(ahead(x)) <= n /\ Cardinality(ahead(x)) # n BY <1>1, <2>1, FS_Subset
  <2> QED BY <1>1, <1>2, <2>2
<1>4. ASSUME NEW x \in H, NEW y \in H, Better(x, y) PROVE place[x] < place[y]
  <2>1. ahead(x) \subseteq ahead(y) BY <1>4, BetterIsTotal
  <2>2. x \in ahead(y) /\ x \notin ahead(x) BY <1>4, BetterIsTotal
  <2>3. Cardinality(ahead(x)) <= Cardinality(ahead(y)) /\ Cardinality(ahead(x)) # Cardinality(ahead(y))
    BY <1>2, <2>1, <2>2, FS_Subset
  <2> QED BY <1>2, <2>3
<1> HIDE DEF place
<1>5. \A x, y \in H : place[x] = place[y] => x = y
  <2> SUFFICES ASSUME NEW x \in H, NEW y \in H, x # y PROVE place[x] # place[y] OBVIOUS
  <2>1. Better(x, y) \/ Better(y, x) BY BetterIsTotal
  <2> QED BY <1>3, <1>4, <2>1
<1>6. place \in Injection(H, 1 .. n)
  <2>1. place \in [H -> 1 .. n] BY <1>3 DEF place
  <2> QED BY <1>5, <2>1 DEF Injection, IsInjective
<1>7. IsFiniteSet(1 .. n) /\ Cardinality(1 .. n) = n BY <1>1, FS_Interval
<1>8. place \in Surjection(H, 1 .. n) BY <1>6, <1>7, FS_Injection
<1>9. \A k \in 1 .. n : \E x \in H : place[x] = k BY <1>8 DEF Surjection
<1> DEFINE s == [k \in 1 .. n |-> CHOOSE x \in H : place[x] = k]
<1>10. \A k \in 1 .. n : s[k] \in H /\ place[s[k]] = k BY <1>9
<1>11. s \in [1 .. n -> H] BY <1>10
<1>12. ASSUME NEW i \in 1 .. n, NEW j \in 1 .. n, i < j PROVE Better(s[i], s[j])
  <2>1. s[i] # s[j] BY <1>10, <1>12
  <2>2. ~Better(s[j], s[i]) BY <1>1, <1>4, <1>10, <1>12
  <2> QED BY <1>10, <2>1, <2>2, BetterIsTotal
<1> QED BY <1>11, <1>12

LEMMA LineIs ==
  ASSUME NEW H, Apart(H)
  PROVE  /\ Line(H) \in [1 .. Cardinality(H) -> H]
         /\ \A i, j \in 1 .. Cardinality(H) : i < j => Better(Line(H)[i], Line(H)[j])
         /\ \A x \in H : \E i \in 1 .. Cardinality(H) : Line(H)[i] = x
<1> DEFINE n == Cardinality(H)
<1>1. IsFiniteSet(H) /\ n \in Nat BY ApartIsFinite
<1>2. PICK s : s = Line(H) OBVIOUS
<1>3. s \in [1 .. n -> H] /\ \A i, j \in DOMAIN s : i < j => Better(s[i], s[j]) BY <1>2, LineExists DEF Line
<1>4. \A i, j \in 1 .. n : s[i] = s[j] => i = j
  <2> SUFFICES ASSUME NEW i \in 1 .. n, NEW j \in 1 .. n, i < j PROVE s[i] # s[j] BY <1>1
  <2> QED BY <1>3, BetterIsTotal
<1>5. s \in Injection(1 .. n, H) BY <1>3, <1>4 DEF Injection, IsInjective
<1>6. IsFiniteSet(1 .. n) /\ Cardinality(1 .. n) = n BY <1>1, FS_Interval
<1>7. s \in Surjection(1 .. n, H) BY <1>1, <1>5, <1>6, FS_Injection
<1>8. \A x \in H : \E i \in 1 .. n : s[i] = x BY <1>7 DEF Surjection
<1> QED BY <1>2, <1>3, <1>8

LEMMA LineIsList ==
  ASSUME NEW H, Apart(H)
  PROVE  /\ IsList(Line(H)) /\ Len(Line(H)) = Cardinality(H)
         /\ \A i \in 1 .. Cardinality(H) : Line(H)[i] \in H
         /\ \A x \in H : \E i \in 1 .. Cardinality(H) : Line(H)[i] = x
<1> DEFINE n == Cardinality(H)
<1>1. n \in Nat BY ApartIsFinite
<1>2. PICK s : s = Line(H) OBVIOUS
<1>3. s \in [1 .. n -> H] /\ \A i, j \in 1 .. n : i < j => Better(s[i], s[j]) BY <1>2, LineIs
<1>4. s \in [1 .. n -> HitOf] BY <1>3 DEF Apart
<1>5. s \in Seq(HitOf) /\ Len(s) = n BY <1>1, <1>4
<1>6. \A i, j \in DOMAIN s : s[i].id = s[j].id => i = j
  <2> SUFFICES ASSUME NEW i \in 1 .. n, NEW j \in 1 .. n, i < j PROVE s[i].id # s[j].id BY <1>1, <1>3
  <2>1. s[i] \in H /\ s[j] \in H /\ Better(s[i], s[j]) BY <1>3
  <2>2. s[i] # s[j] BY <2>1, BetterIsTotal
  <2> QED BY <2>1, <2>2 DEF Apart
<1> QED BY <1>2, <1>3, <1>5, <1>6, LineIs DEF IsList

LEMMA ListIsShort ==
  ASSUME NEW s, IsList(s)
  PROVE  Len(s) \in Nat /\ DOMAIN s = 1 .. Len(s) /\ Len(s) <= Cardinality(Ident)
<1>1. s \in Seq(HitOf) /\ Len(s) \in Nat /\ DOMAIN s = 1 .. Len(s) BY DEF IsList
<1> DEFINE f == [i \in 1 .. Len(s) |-> s[i].id]
<1>2. \A i \in 1 .. Len(s) : s[i] \in HitOf BY <1>1
<1>3. f \in [1 .. Len(s) -> Ident] BY <1>2 DEF HitOf
<1>4. f \in Injection(1 .. Len(s), Ident) BY <1>1, <1>3 DEF Injection, IsInjective, IsList
<1>5. Cardinality(1 .. Len(s)) <= Cardinality(Ident) BY <1>4, IdentAssumption, FS_Injection
<1>6. Cardinality(1 .. Len(s)) = Len(s) BY <1>1, FS_Interval
<1> QED BY <1>1, <1>5, <1>6

LEMMA FirstIsList ==
  ASSUME NEW s, IsList(s), NEW n \in Nat
  PROVE  /\ IsList(First(s, n))
         /\ \A i \in DOMAIN First(s, n) : i \in DOMAIN s /\ First(s, n)[i] = s[i]
         /\ n >= Cardinality(Ident) => First(s, n) = s
<1> DEFINE k == IF n < Len(s) THEN n ELSE Len(s)
<1>1. s \in Seq(HitOf) /\ Len(s) \in Nat /\ DOMAIN s = 1 .. Len(s) /\ Len(s) <= Cardinality(Ident)
  BY ListIsShort DEF IsList
<1>2. k \in Nat /\ k <= Len(s) BY <1>1
<1>3. PICK t : t = SubSeq(s, 1, k) OBVIOUS
<1>4. t \in Seq(HitOf) /\ Len(t) = k /\ \A i \in 1 .. k : t[i] = s[i] BY <1>1, <1>2, <1>3
<1>5. DOMAIN t = 1 .. k BY <1>2, <1>4
<1>6. IsList(t) BY <1>1, <1>2, <1>4, <1>5 DEF IsList
<1>7. ASSUME n >= Cardinality(Ident) PROVE t = s
  <2>1. Cardinality(Ident) \in Nat BY IdentAssumption, FS_CardinalityType
  <2>2. Len(s) <= n BY <1>1, <1>7, <2>1
  <2>4. ~(n < Len(s)) BY <1>1, <2>2
  <2>5. k = Len(s) BY <2>4
  <2>3. \A i \in 1 .. Len(s) : t[i] = s[i] BY <1>4, <2>2
  <2> QED BY <1>1, <1>4, <2>2, <2>3
<1>8. First(s, n) = t BY <1>3 DEF First
<1> QED BY <1>1, <1>2, <1>4, <1>5, <1>6, <1>7, <1>8

LEMMA BestIs ==
  ASSUME NEW H, Apart(H), NEW n \in Nat
  PROVE  /\ IsList(Best(H, n))
         /\ \A i \in DOMAIN Best(H, n) : Best(H, n)[i] \in H
         /\ n >= Cardinality(Ident) => \A x \in H : \E i \in DOMAIN Best(H, n) : Best(H, n)[i] = x
<1> DEFINE s == Line(H)
<1>1. /\ IsList(s) /\ Len(s) = Cardinality(H)
      /\ \A i \in 1 .. Cardinality(H) : s[i] \in H
      /\ \A x \in H : \E i \in 1 .. Cardinality(H) : s[i] = x
  BY LineIsList
<1> HIDE DEF s
<1>2. DOMAIN s = 1 .. Cardinality(H) BY <1>1, ListIsShort
<1>3. Best(H, n) = First(s, n) BY DEF Best, s
<1> QED BY <1>1, <1>2, <1>3, FirstIsList

------------------------------------------------------------------------------
(* Lists that are put together.                                             *)

LEMMA ChainIsList ==
  ASSUME NEW s, NEW t, IsList(s), IsList(t), Ids(s) \cap Ids(t) = {}
  PROVE  /\ IsList(s \o t)
         /\ \A i \in DOMAIN (s \o t) : (\E j \in DOMAIN s : (s \o t)[i] = s[j]) \/ (\E j \in DOMAIN t : (s \o t)[i] = t[j])
         /\ Ids(t) \subseteq Ids(s \o t) /\ Ids(s) \subseteq Ids(s \o t)
<1>1. /\ s \in Seq(HitOf) /\ Len(s) \in Nat /\ DOMAIN s = 1 .. Len(s)
      /\ t \in Seq(HitOf) /\ Len(t) \in Nat /\ DOMAIN t = 1 .. Len(t)
  BY ListIsShort DEF IsList
<1>2. PICK u : u = s \o t OBVIOUS
<1>3. /\ u \in Seq(HitOf) /\ Len(u) = Len(s) + Len(t)
      /\ \A i \in 1 .. Len(s) : u[i] = s[i]
      /\ \A i \in 1 .. Len(u) : i > Len(s) => u[i] = t[i - Len(s)]
  BY <1>1, <1>2
<1>4. DOMAIN u = 1 .. Len(u) BY <1>3
<1>5. \A i \in DOMAIN u : IF i <= Len(s) THEN i \in DOMAIN s /\ u[i] = s[i]
                          ELSE i - Len(s) \in DOMAIN t /\ u[i] = t[i - Len(s)]
  BY <1>1, <1>3, <1>4
<1>6. \A i \in DOMAIN s, j \in DOMAIN t : s[i].id # t[j].id BY DEF Ids
<1>7. \A i, j \in DOMAIN u : u[i].id = u[j].id => i = j
  <2> SUFFICES ASSUME NEW i \in DOMAIN u, NEW j \in DOMAIN u, u[i].id = u[j].id PROVE i = j OBVIOUS
  <2>1. i \in Nat /\ j \in Nat BY <1>3, <1>4
  <2>2. CASE i <= Len(s) /\ j <= Len(s) BY <1>5, <2>2 DEF IsList
  <2>3. CASE i <= Len(s) /\ ~(j <= Len(s)) BY <1>5, <1>6, <2>3
  <2>4. CASE ~(i <= Len(s)) /\ j <= Len(s) BY <1>5, <1>6, <2>4
  <2>5. CASE ~(i <= Len(s)) /\ ~(j <= Len(s))
    <3>1. i - Len(s) = j - Len(s) BY <1>5, <2>5 DEF IsList
    <3> QED BY <1>1, <2>1, <3>1
  <2> QED BY <2>2, <2>3, <2>4, <2>5
<1>8. \A j \in DOMAIN t : j + Len(s) \in DOMAIN u /\ u[j + Len(s)] = t[j]
  <2> TAKE j \in DOMAIN t
  <2>1. j + Len(s) \in 1 .. Len(u) /\ j + Len(s) > Len(s) /\ (j + Len(s)) - Len(s) = j BY <1>1, <1>3
  <2> QED BY <1>3, <1>4, <2>1
<1>9. \A j \in DOMAIN s : j \in DOMAIN u /\ u[j] = s[j] BY <1>1, <1>3, <1>4
<1>10. Ids(t) \subseteq Ids(u) /\ Ids(s) \subseteq Ids(u) BY <1>8, <1>9 DEF Ids
<1>11. IsList(u) BY <1>3, <1>7 DEF IsList
<1> QED BY <1>2, <1>5, <1>10, <1>11

\* The entry at i, replaced or left out.
LEMMA CutIsList ==
  ASSUME NEW s, IsList(s), NEW i \in DOMAIN s, NEW x,
         x = <<>> \/ (\E h \in HitOf : h.id = s[i].id /\ x = <<h>>)
  PROVE  LET t == SubSeq(s, 1, i - 1) \o x \o SubSeq(s, i + 1, Len(s))
         IN /\ IsList(t)
            /\ \A j \in DOMAIN t : (\E k \in DOMAIN s : t[j] = s[k]) \/ (x # <<>> /\ t[j] = x[1])
            /\ Ids(s) \ {s[i].id} \subseteq Ids(t)
            /\ x # <<>> => Ids(s) \subseteq Ids(t)
<1>1. s \in Seq(HitOf) /\ Len(s) \in Nat /\ DOMAIN s = 1 .. Len(s) /\ i \in 1 .. Len(s) BY ListIsShort DEF IsList
<1>2. PICK a : a = SubSeq(s, 1, i - 1) OBVIOUS
<1>3. PICK b : b = SubSeq(s, i + 1, Len(s)) OBVIOUS
<1>4. a \in Seq(HitOf) /\ Len(a) = i - 1 /\ DOMAIN a = 1 .. i - 1 /\ \A j \in 1 .. i - 1 : a[j] = s[j] BY <1>1, <1>2
<1>5. b \in Seq(HitOf) /\ Len(b) = Len(s) - i /\ \A j \in 1 .. Len(s) - i : b[j] = s[i + j]
  <2>1. i + 1 \in Int /\ 1 <= i + 1 /\ i + 1 <= Len(s) + 1 BY <1>1
  <2> QED BY <1>1, <1>3, <2>1
<1>6. DOMAIN b = 1 .. Len(s) - i BY <1>5
<1>7. IsList(a) /\ \A j \in DOMAIN a : j \in DOMAIN s /\ j # i /\ a[j] = s[j] BY <1>1, <1>4 DEF IsList
<1>8. IsList(b) /\ \A j \in DOMAIN b : i + j \in DOMAIN s /\ b[j] = s[i + j]
  <2>1. \A j \in DOMAIN b : i + j \in DOMAIN s /\ b[j] = s[i + j] BY <1>1, <1>5, <1>6
  <2>2. \A j, k \in DOMAIN b : b[j].id = b[k].id => j = k
    <3> TAKE j, k \in DOMAIN b
    <3>1. b[j].id = b[k].id => i + j = i + k BY <2>1 DEF IsList
    <3>2. j \in Int /\ k \in Int /\ i \in Int BY <1>1, <1>6
    <3> QED BY <3>1, <3>2
  <2> QED BY <1>5, <2>1, <2>2 DEF IsList
<1>9. Ids(a) \cap Ids(b) = {}
  <2> SUFFICES ASSUME NEW j \in DOMAIN a, NEW k \in DOMAIN b PROVE a[j].id # b[k].id BY DEF Ids
  <2>1. j # i + k BY <1>1, <1>4, <1>6
  <2> QED BY <1>7, <1>8, <2>1 DEF IsList
<1>10. s[i].id \notin Ids(a) /\ s[i].id \notin Ids(b)
  <2>1. \A j \in DOMAIN a : a[j].id # s[i].id BY <1>7 DEF IsList
  <2>2. \A j \in DOMAIN b : b[j].id # s[i].id
    <3> TAKE j \in DOMAIN b
    <3>1. i + j # i BY <1>1, <1>6
    <3> QED BY <1>8, <3>1 DEF IsList
  <2> QED BY <2>1, <2>2 DEF Ids
<1>11. Ids(s) \ {s[i].id} \subseteq Ids(a) \cup Ids(b)
  <2> SUFFICES ASSUME NEW j \in DOMAIN s, j # i PROVE s[j].id \in Ids(a) \cup Ids(b) BY DEF Ids
  <2>1. CASE j < i BY <1>1, <1>4, <2>1 DEF Ids
  <2>2. CASE j > i
    <3>1. j - i \in DOMAIN b /\ i + (j - i) = j BY <1>1, <1>6, <2>2
    <3>2. b[j - i] = s[j] BY <1>8, <3>1
    <3> QED BY <3>1, <3>2 DEF Ids
  <2> QED BY <1>1, <2>1, <2>2
<1>12. CASE x = <<>>
  <2>1. a \o x = a BY <1>4, <1>12
  <2>2. PICK t : t = a \o b OBVIOUS
  <2>3. /\ IsList(t) /\ Ids(a) \subseteq Ids(t) /\ Ids(b) \subseteq Ids(t)
        /\ \A j \in DOMAIN t : (\E k \in DOMAIN a : t[j] = a[k]) \/ (\E k \in DOMAIN b : t[j] = b[k])
    BY <1>7, <1>8, <1>9, <2>2, ChainIsList
  <2>4. \A j \in DOMAIN t : \E k \in DOMAIN s : t[j] = s[k] BY <1>7, <1>8, <2>3
  <2>5. t = SubSeq(s, 1, i - 1) \o x \o SubSeq(s, i + 1, Len(s)) BY <1>2, <1>3, <2>1, <2>2
  <2> QED BY <1>11, <1>12, <2>3, <2>4, <2>5
<1>13. ASSUME NEW h \in HitOf, h.id = s[i].id, x = <<h>>
       PROVE  LET t == SubSeq(s, 1, i - 1) \o x \o SubSeq(s, i + 1, Len(s))
              IN /\ IsList(t)
                 /\ \A j \in DOMAIN t : (\E k \in DOMAIN s : t[j] = s[k]) \/ (x # <<>> /\ t[j] = x[1])
                 /\ Ids(s) \ {s[i].id} \subseteq Ids(t)
                 /\ x # <<>> => Ids(s) \subseteq Ids(t)
  <2>1. x \in Seq(HitOf) /\ DOMAIN x = {1} /\ x[1] = h /\ x # <<>> BY <1>13
  <2>2. IsList(x) /\ Ids(x) = {s[i].id} BY <1>13, <2>1 DEF IsList, Ids
  <2>3. PICK u : u = a \o x OBVIOUS
  <2>4. /\ IsList(u) /\ Ids(a) \subseteq Ids(u) /\ Ids(x) \subseteq Ids(u)
        /\ \A j \in DOMAIN u : (\E k \in DOMAIN a : u[j] = a[k]) \/ (\E k \in DOMAIN x : u[j] = x[k])
    BY <1>7, <1>10, <2>2, <2>3, ChainIsList
  <2>5. \A j \in DOMAIN u : (\E k \in DOMAIN s : k # i /\ u[j] = s[k]) \/ u[j] = x[1] BY <1>7, <2>1, <2>4
  <2>6. Ids(u) \cap Ids(b) = {}
    <3>1. Ids(u) \subseteq Ids(a) \cup {s[i].id} BY <2>1, <2>2, <2>4 DEF Ids
    <3> QED BY <1>9, <1>10, <3>1
  <2>7. PICK t : t = u \o b OBVIOUS
  <2>8. /\ IsList(t) /\ Ids(u) \subseteq Ids(t) /\ Ids(b) \subseteq Ids(t)
        /\ \A j \in DOMAIN t : (\E k \in DOMAIN u : t[j] = u[k]) \/ (\E k \in DOMAIN b : t[j] = b[k])
    BY <1>8, <2>4, <2>6, <2>7, ChainIsList
  <2>9. \A j \in DOMAIN t : (\E k \in DOMAIN s : t[j] = s[k]) \/ t[j] = x[1] BY <1>8, <2>5, <2>8
  <2>10. Ids(s) \subseteq Ids(t) BY <1>11, <2>2, <2>4, <2>8
  <2> QED BY <1>2, <1>3, <2>1, <2>3, <2>7, <2>8, <2>9, <2>10
<1> QED BY <1>12, <1>13

------------------------------------------------------------------------------
(* Scores are numbers.                                                      *)

LEMMA Quotient == \A a \in Int, b \in Nat \ {0} : a \div b \in Int
OBVIOUS

LEMMA Product == \A a, b \in Int : a * b \in Int
OBVIOUS

LEMMA LeastIs ==
  ASSUME NEW S \in SUBSET Nat, S # {}
  PROVE  Min(S) \in S /\ \A x \in S : Min(S) <= x
<1>1. IsWellFoundedOn(OpToRel(<, Nat), Nat) BY NatLessThanWellFounded
<1>2. PICK m \in S : \A n \in S : ~(<<n, m>> \in OpToRel(<, Nat)) BY <1>1, WFMin
<1>3. \A n \in S : ~(n < m) BY <1>2 DEF OpToRel
<1>4. \A n \in S : m <= n BY <1>3
<1> QED BY <1>2, <1>4 DEF Min

LEMMA GreatestIs ==
  ASSUME NEW S, IsFiniteSet(S), S \subseteq Int, S # {}
  PROVE  Max(S) \in S /\ \A x \in S : x <= Max(S)
<1> DEFINE F == {T \in SUBSET S : T = {} \/ \E x \in T : \A y \in T : y <= x}
<1>1. S \in F
  <2> SUFFICES ASSUME S \notin F PROVE FALSE OBVIOUS
  <2> HIDE DEF F
  <2>1. PICK T \in SUBSET S : T \notin F /\ \A U \in SUBSET T : U # T => U \in F BY LeastSet
  <2>2. PICK z \in T : TRUE BY <2>1 DEF F
  <2>3. T \ {z} \in F BY <2>1, <2>2
  <2>4. CASE T \ {z} = {} 
    <3>1. \A y \in T : y = z BY <2>4
    <3> QED BY <2>1, <2>2, <3>1 DEF F
  <2>5. CASE T \ {z} # {}
    <3>1. PICK x \in T \ {z} : \A y \in T \ {z} : y <= x BY <2>3, <2>5 DEF F
    <3>2. x \in Int /\ z \in Int BY <2>2, <3>1
    <3>3. CASE z <= x
      <4>1. \A y \in T : y <= x BY <3>1, <3>3
      <4> QED BY <2>1, <3>1, <4>1 DEF F
    <3>4. CASE ~(z <= x)
      <4>1. \A y \in T : y <= z
        <5> TAKE y \in T
        <5>1. y \in Int OBVIOUS
        <5>2. CASE y = z BY <3>2, <5>2
        <5>3. CASE y # z
          <6>1. y <= x BY <3>1, <5>3
          <6> QED BY <3>2, <3>4, <5>1, <6>1
        <5> QED BY <5>2, <5>3
      <4> QED BY <2>1, <2>2, <4>1 DEF F
    <3> QED BY <3>3, <3>4
  <2> QED BY <2>4, <2>5
<1>2. PICK x \in S : \A y \in S : y <= x BY <1>1 DEF F
<1>3. \A y \in S : x >= y BY <1>2
<1>4. Max(S) \in S /\ \A y \in S : Max(S) >= y BY <1>2, <1>3 DEF Max
<1> QED BY <1>4

------------------------------------------------------------------------------
(* What a search finds was there when it ran, or has no contents; and that   *)
(* of the text finds what matches.                                          *)

LEMMA CaseIs ==
  ASSUME SearchInv
  PROVE  /\ case.text \in [Ident -> Nat] /\ case.wide \in [Ident -> Nat]
         /\ case.near \in [Ident -> Nat] /\ case.weight \in [Ident -> Nat]
         /\ case.meets \subseteq case.relaxed /\ case.sticky \subseteq Ident
         /\ \A r \in Req : IsLegacy(r) => Asked(r).limit \in Nat /\ Asked(r).channels \subseteq ChannelName
<1>1. IsCase(case) BY CasesAssumption DEF SearchInv
<1> QED BY <1>1 DEF IsCase, IsLegacy, Asked

LEMMA HitIs ==
  ASSUME NEW m \in Ident, NEW source \in Origin, NEW score \in Int, NEW full \in BOOLEAN
  PROVE  /\ Hit(m, source, score, full) \in HitOf
         /\ Hit(m, source, score, full).id = m /\ Hit(m, source, score, full).full = full
BY DEF Hit, HitOf, Origin

\* One hit of each memory of S.
Each(S, source, f, full) == {Hit(m, source, f[m], full) : m \in S}

LEMMA EachIsApart ==
  ASSUME NEW S, S \subseteq Ident, NEW source \in Origin, NEW f \in [S -> Int], NEW full \in BOOLEAN
  PROVE  /\ Apart(Each(S, source, f, full))
         /\ \A h \in Each(S, source, f, full) : h.id \in S /\ h.full = full /\ h.source = source
         /\ \A m \in S : \E h \in Each(S, source, f, full) : h.id = m
<1>1. \A m \in S : /\ Hit(m, source, f[m], full) \in HitOf
                   /\ Hit(m, source, f[m], full).id = m /\ Hit(m, source, f[m], full).full = full
                   /\ Hit(m, source, f[m], full).source = source
  BY HitIs DEF Hit
<1> QED BY <1>1 DEF Apart, Each

\* The best of them.
LEMMA BestOfEach ==
  ASSUME NEW S, S \subseteq Ident, NEW source \in Origin, NEW f \in [S -> Int], NEW full \in BOOLEAN, NEW n \in Nat
  PROVE  LET s == Best(Each(S, source, f, full), n)
         IN  /\ IsList(s)
             /\ \A i \in DOMAIN s : s[i].id \in S /\ s[i].full = full
             /\ n >= Cardinality(Ident) => S \subseteq Ids(s)
<1> DEFINE H == Each(S, source, f, full)
<1>1. Apart(H) /\ (\A h \in H : h.id \in S /\ h.full = full) /\ \A m \in S : \E h \in H : h.id = m
  BY EachIsApart
<1> HIDE DEF H
<1>2. /\ IsList(Best(H, n)) /\ \A i \in DOMAIN Best(H, n) : Best(H, n)[i] \in H
      /\ n >= Cardinality(Ident) => \A x \in H : \E i \in DOMAIN Best(H, n) : Best(H, n)[i] = x
  BY <1>1, BestIs
<1>3. n >= Cardinality(Ident) => S \subseteq Ids(Best(H, n)) BY <1>1, <1>2 DEF Ids
<1> QED BY <1>1, <1>2, <1>3 DEF H

LEMMA TextIs ==
  ASSUME SearchInv, NEW r \in Req, NEW matches \in [Ident -> Nat], NEW n \in Nat
  PROVE  /\ IsList(Text(r, matches, n))
         /\ \A i \in DOMAIN Text(r, matches, n) : Text(r, matches, n)[i].id \in There
         /\ n >= Cardinality(Ident) /\ matches = case.text => Wanted(r) \subseteq Ids(Text(r, matches, n))
<1> DEFINE rows == IF Asked(r).filters
                   THEN Fresh \cap (IF st[r].strict THEN case.meets ELSE case.relaxed)
                   ELSE There
           S == {x \in rows : matches[x] > 0}
           f == [m \in S |-> (Unit * matches[m]) \div 10]
           H == {Hit(m, "sqlite", (Unit * matches[m]) \div 10, TRUE) : m \in S}
<1>1. rows \subseteq There /\ There \subseteq Ident BY DEF There, Fresh
<1>2. f \in [S -> Int]
  <2> SUFFICES ASSUME NEW m \in S PROVE (Unit * matches[m]) \div 10 \in Int OBVIOUS
  <2>1. matches[m] \in Nat BY <1>1
  <2> QED BY <2>1 DEF Unit
<1>3. H = Each(S, "sqlite", f, TRUE) BY DEF Each
<1>4. Text(r, matches, n) = Best(H, n) BY DEF Text
<1>5. matches = case.text => Wanted(r) \subseteq S
  <2>1. stays[r] \subseteq Fresh /\ Fresh \subseteq There BY DEF SearchInv, Fresh
  <2>2. case.meets \subseteq case.relaxed BY CaseIs
  <2> QED BY <2>1, <2>2 DEF Wanted
<1> HIDE DEF f, H
<1>6. LET s == Best(Each(S, "sqlite", f, TRUE), n)
      IN  /\ IsList(s)
          /\ \A i \in DOMAIN s : s[i].id \in S /\ s[i].full = TRUE
          /\ n >= Cardinality(Ident) => S \subseteq Ids(s)
  <2>1. S \subseteq Ident /\ "sqlite" \in Origin BY <1>1 DEF Origin
  <2> HIDE DEF S
  <2> QED BY <1>2, <2>1, BestOfEach
<1> QED BY <1>1, <1>3, <1>4, <1>5, <1>6

LEMMA VectorsAre ==
  ASSUME SearchInv, NEW n \in Nat
  PROVE  IsList(Vectors(n)) /\ \A i \in DOMAIN Vectors(n) : Vectors(n)[i].full = FALSE
<1> DEFINE S == There \cup case.sticky
           f == [m \in S |-> (Unit * case.near[m]) \div 10]
           H == {h \in Points : h.score >= (Unit * 3) \div 10}
<1>1. S \subseteq Ident BY CaseIs DEF There
<1>2. f \in [S -> Int]
  <2> SUFFICES ASSUME NEW m \in S PROVE (Unit * case.near[m]) \div 10 \in Int OBVIOUS
  <2>1. case.near[m] \in Nat BY <1>1, CaseIs
  <2> QED BY <2>1 DEF Unit
<1>3. Points = Each(S, "qdrant", f, FALSE) BY DEF Points, Each
<1>4. Apart(Points) /\ \A h \in Points : h.full = FALSE
  <2>1. "qdrant" \in Origin /\ FALSE \in BOOLEAN BY DEF Origin
  <2> HIDE DEF S, f
  <2>2. /\ Apart(Each(S, "qdrant", f, FALSE))
        /\ \A h \in Each(S, "qdrant", f, FALSE) : h.id \in S /\ h.full = FALSE /\ h.source = "qdrant"
    BY <1>1, <1>2, <2>1, EachIsApart
  <2> QED BY <1>3, <2>2
<1>5. Apart(H) /\ \A h \in H : h.full = FALSE BY <1>4 DEF Apart
<1>6. Vectors(n) = Best(H, n) BY DEF Vectors
<1> HIDE DEF H
<1> QED BY <1>5, <1>6, BestIs

LEMMA TimelineIs ==
  ASSUME SearchInv, NEW S, NEW source \in Origin, NEW n \in Nat
  PROVE  /\ IsList(Timeline(S, source, n))
         /\ \A i \in DOMAIN Timeline(S, source, n) : Timeline(S, source, n)[i].id \in There
<1> DEFINE T == S \cap There
           f == [m \in T |-> Unit]
<1>1. T \subseteq Ident BY DEF There
<1>2. f \in [T -> Int] BY DEF Unit
<1>3. {Hit(m, source, Unit, TRUE) : m \in T} = Each(T, source, f, TRUE) BY DEF Each
<1>4. LET s == Best(Each(T, source, f, TRUE), n)
      IN  IsList(s) /\ \A i \in DOMAIN s : s[i].id \in T /\ s[i].full = TRUE
  <2> HIDE DEF T, f
  <2> QED BY <1>1, <1>2, BestOfEach
<1>5. Timeline(S, source, n) = Best({Hit(m, source, Unit, TRUE) : m \in T}, n) BY DEF Timeline
<1> QED BY <1>3, <1>4, <1>5

LEMMA GraphIs ==
  ASSUME SearchInv, NEW seeds, NEW d \in Nat, NEW n \in Nat
  PROVE  /\ IsList(Graph(seeds, d, n))
         /\ \A i \in DOMAIN Graph(seeds, d, n) : Graph(seeds, d, n)[i].id \in There
<1> DEFINE T == {x \in There : case.links[x] \cap Within(seeds, d) # {}}
           f == [m \in T |-> Unit \div (Distance(seeds, m, d) + 1)]
<1>1. T \subseteq Ident BY DEF There
<1>2. f \in [T -> Int]
  <2> SUFFICES ASSUME NEW m \in T PROVE Unit \div (Distance(seeds, m, d) + 1) \in Int OBVIOUS
  <2> DEFINE N == {k \in 0 .. d : case.links[m] \cap Within(seeds, k) # {}}
  <2>1. d \in N /\ N \in SUBSET Nat OBVIOUS
  <2>2. Distance(seeds, m, d) = Min(N) BY DEF Distance
  <2> HIDE DEF N
  <2>3. Distance(seeds, m, d) \in Nat BY <2>1, <2>2, LeastIs
  <2>4. Distance(seeds, m, d) + 1 \in Nat \ {0} BY <2>3
  <2>5. Unit \in Int BY DEF Unit
  <2> QED BY <2>4, <2>5, Quotient
<1>3. {Hit(m, "graph", Unit \div (Distance(seeds, m, d) + 1), TRUE) : m \in T} = Each(T, "graph", f, TRUE)
  BY DEF Each
<1>4. LET s == Best(Each(T, "graph", f, TRUE), n)
      IN  IsList(s) /\ \A i \in DOMAIN s : s[i].id \in T /\ s[i].full = TRUE
  <2>1. "graph" \in Origin BY DEF Origin
  <2> HIDE DEF T, f
  <2> QED BY <1>1, <1>2, <2>1, BestOfEach
<1>5. Graph(seeds, d, n) = Best({Hit(m, "graph", Unit \div (Distance(seeds, m, d) + 1), TRUE) : m \in T}, n) BY DEF Graph
<1>6. \A m \in T : m \in There OBVIOUS
<1> HIDE DEF T, f
<1> QED BY <1>3, <1>4, <1>5, <1>6

LEMMA FoundIs ==
  ASSUME SearchInv, NEW r \in Req, IsLegacy(r), NEW c \in ChannelName
  PROVE  /\ IsList(Found(r, c))
         /\ \A i \in DOMAIN Found(r, c) : Found(r, c)[i].full => Found(r, c)[i].id \in There
         /\ c = "fts" /\ Asked(r).limit >= Cardinality(Ident) => Wanted(r) \subseteq Ids(Found(r, c))
<1> DEFINE n == Asked(r).limit
<1>1. n \in Nat /\ case.text \in [Ident -> Nat] /\ case.wide \in [Ident -> Nat] BY CaseIs
<1> HIDE DEF n
<1>2. CASE c = "fts"
  <2>1. Found(r, c) = Text(r, case.text, n) BY <1>2 DEF Found, n
  <2> QED BY <1>1, <2>1, TextIs DEF n
<1>3. CASE c = "hyde"
  <2>1. Found(r, c) = Text(r, case.wide, n) BY <1>3 DEF Found, n
  <2> QED BY <1>1, <1>3, <2>1, TextIs
<1>4. CASE c = "vector"
  <2>1. Found(r, c) = Vectors(n) BY <1>4 DEF Found, n
  <2>2. IsList(Vectors(n)) /\ \A i \in DOMAIN Vectors(n) : ~Vectors(n)[i].full BY <1>1, VectorsAre
  <2> QED BY <1>4, <2>1, <2>2
<1>5. CASE c = "graph"
  <2>1. Found(r, c) = Graph(LegacySeeds, 1, n) BY <1>5 DEF Found, LegacyGraph, n
  <2> QED BY <1>1, <1>5, <2>1, GraphIs
<1>6. CASE c = "temporal"
  <2>1. Found(r, c) = Timeline(case.timely, "temporal", n) BY <1>6 DEF Found, ByTime, n
  <2>2. "temporal" \in Origin BY DEF Origin
  <2> QED BY <1>1, <1>6, <2>1, <2>2, TimelineIs
<1> QED BY <1>2, <1>3, <1>4, <1>5, <1>6 DEF ChannelName

------------------------------------------------------------------------------
(* Fusion, and what comes after it.                                         *)

LEMMA NatQuotient == \A a \in Nat, b \in Nat \ {0} : a \div b \in Nat
OBVIOUS

LEMMA ChannelsAreFew == IsFiniteSet(ChannelName)
<1>1. ChannelName = {"fts"} \cup {"hyde"} \cup {"vector"} \cup {"graph"} \cup {"temporal"} BY DEF ChannelName
<1> QED BY <1>1, FS_Singleton, FS_Union

LEMMA RankIs ==
  ASSUME NEW s, IsList(s), NEW m \in Ids(s)
  PROVE  Rank(s, m) \in Nat
<1> DEFINE N == {i \in DOMAIN s : s[i].id = m}
<1>1. N \in SUBSET Nat /\ N # {} BY ListIsShort DEF Ids
<1>2. Rank(s, m) = Min(N) BY DEF Rank
<1> HIDE DEF N
<1> QED BY <1>1, <1>2, LeastIs

LEMMA FusionIs ==
  ASSUME NEW lists, DOMAIN lists \subseteq ChannelName, \A c \in DOMAIN lists : IsList(lists[c]),
         NEW trust \in [Ident -> Nat]
  PROVE  /\ Apart(Fusion(lists, trust))
         /\ \A h \in Fusion(lists, trust) :
               h.full => \E c \in DOMAIN lists : \E i \in DOMAIN lists[c] : lists[c][i].id = h.id /\ lists[c][i].full
         /\ \A c \in DOMAIN lists : \A m \in Ids(lists[c]) : \E h \in Fusion(lists, trust) : h.id = m
<1> DEFINE S == UNION {Ids(lists[c]) : c \in DOMAIN lists}
           share(m) == [c \in DOMAIN lists |-> IF m \in Ids(lists[c]) THEN (trust[m] * Share(Rank(lists[c], m))) \div 10 ELSE 0]
           sum(m) == SumFunctionOnSet(share(m), DOMAIN lists)
           full(m) == \E c \in DOMAIN lists : \E i \in DOMAIN lists[c] : lists[c][i].id = m /\ lists[c][i].full
<1>1. Fusion(lists, trust) = {Hit(m, "hybrid", sum(m), full(m)) : m \in S} BY DEF Fusion
<1>2. \A m \in S : m \in Ident
  <2> SUFFICES ASSUME NEW c \in DOMAIN lists, NEW i \in DOMAIN lists[c] PROVE lists[c][i].id \in Ident BY DEF Ids
  <2>1. IsList(lists[c]) OBVIOUS
  <2>2. lists[c] \in Seq(HitOf) /\ DOMAIN lists[c] = 1 .. Len(lists[c]) BY <2>1, ListIsShort DEF IsList
  <2>3. lists[c][i] \in HitOf BY <2>2
  <2> QED BY <2>3 DEF HitOf
<1>3. ASSUME NEW m \in S PROVE sum(m) \in Int
  <2>1. IsFiniteSet(DOMAIN lists) BY ChannelsAreFew, FS_Subset
  <2>2. ASSUME NEW c \in DOMAIN lists PROVE share(m)[c] \in Nat
    <3>1. CASE m \notin Ids(lists[c]) BY <3>1
    <3>2. CASE m \in Ids(lists[c])
      <4>1. Rank(lists[c], m) \in Nat BY <3>2, RankIs
      <4>2. 60 + Rank(lists[c], m) \in Nat \ {0} /\ Unit \in Nat BY <4>1 DEF Unit
      <4>3. Share(Rank(lists[c], m)) \in Nat BY <4>2, NatQuotient DEF Share
      <4>4. trust[m] \in Nat BY <1>2
      <4>5. \A a, b \in Nat : a * b \in Nat OBVIOUS
      <4>6. trust[m] * Share(Rank(lists[c], m)) \in Nat BY <4>3, <4>4, <4>5
      <4>7. (trust[m] * Share(Rank(lists[c], m))) \div 10 \in Nat BY <4>6, NatQuotient
      <4> QED BY <3>2, <4>7
    <3> QED BY <3>1, <3>2
  <2>3. PICK f : f = share(m) OBVIOUS
  <2>4. IsCount(f, DOMAIN lists) BY <2>2, <2>3 DEF IsCount
  <2>5. SumFunctionOnSet(f, DOMAIN lists) \in Nat BY <2>1, <2>4, SumIsNat
  <2> QED BY <2>3, <2>5
<1> HIDE DEF sum, share
<1>4. \A m \in S : /\ Hit(m, "hybrid", sum(m), full(m)) \in HitOf
                   /\ Hit(m, "hybrid", sum(m), full(m)).id = m
                   /\ Hit(m, "hybrid", sum(m), full(m)).full = full(m)
  <2> TAKE m \in S
  <2>1. full(m) \in BOOLEAN /\ "hybrid" \in Origin BY DEF Origin
  <2> HIDE DEF full
  <2> QED BY <1>2, <1>3, <2>1, HitIs
<1>5. \A h \in Fusion(lists, trust) : h \in HitOf /\ h.id \in S /\ (h.full => full(h.id)) /\ h = Hit(h.id, "hybrid", sum(h.id), full(h.id))
  <2> TAKE h \in Fusion(lists, trust)
  <2> HIDE DEF S, full
  <2>1. PICK m \in S : h = Hit(m, "hybrid", sum(m), full(m)) BY <1>1
  <2> QED BY <1>4, <2>1
<1>6. \A x, y \in Fusion(lists, trust) : x.id = y.id => x = y BY <1>5
<1>7. Apart(Fusion(lists, trust)) BY <1>5, <1>6 DEF Apart
<1>8. ASSUME NEW c \in DOMAIN lists, NEW m \in Ids(lists[c]) PROVE \E h \in Fusion(lists, trust) : h.id = m
  <2>1. m \in S OBVIOUS
  <2> HIDE DEF S, full
  <2> QED BY <1>1, <1>4, <2>1
<1> QED BY <1>5, <1>7, <1>8

LEMMA FusedSuffices ==
  ASSUME SearchInv, NEW r \in Req, IsLegacy(r), st[r].at = "search", st[r].todo = {}
  PROVE  Suffices(r, Fused(r))
<1> DEFINE lists == st[r].got
           n == Asked(r).limit
<1>1. Follows(r) /\ n \in Nat BY CaseIs DEF SearchInv
<1>2. DOMAIN lists \subseteq ChannelName /\ \A c \in DOMAIN lists : IsList(lists[c]) /\ Seen(r, lists[c]) BY <1>1 DEF Follows
<1>3. Unlimited(r) /\ Wanted(r) # {} => "fts" \in DOMAIN lists /\ Wanted(r) \subseteq Ids(lists["fts"]) BY <1>1 DEF Follows
<1>4. Unlimited(r) => n >= Cardinality(Ident) BY DEF Unlimited
<1> HIDE DEF lists, n
<1>5. IsFiniteSet(DOMAIN lists) BY <1>2, ChannelsAreFew, FS_Subset
<1>6. CASE Cardinality(DOMAIN lists) = 1
  <2> DEFINE c == CHOOSE x \in DOMAIN lists : TRUE
  <2>1. PICK d : DOMAIN lists = {d} BY <1>5, <1>6, FS_Singleton
  <2>2. c = d BY <2>1
  <2>3. Fused(r) = First(lists[d], n) BY <1>6, <2>2 DEF Fused, lists, n
  <2>4. IsList(lists[d]) /\ Seen(r, lists[d]) BY <1>2, <2>1
  <2>5. Unlimited(r) => Wanted(r) \subseteq Ids(lists[d]) BY <1>3, <2>1
  <2>6. IsList(First(lists[d], n)) /\ Seen(r, First(lists[d], n)) BY <1>1, <2>4, FirstIsList DEF Seen, n
  <2>7. Unlimited(r) => First(lists[d], n) = lists[d] BY <1>1, <1>4, <2>4, FirstIsList DEF n
  <2> QED BY <2>3, <2>5, <2>6, <2>7 DEF Suffices
<1>7. CASE Cardinality(DOMAIN lists) # 1
  <2> DEFINE trust == [m \in Ident |-> 10]
  <2>1. Fused(r) = Best(Fusion(lists, trust), n) BY <1>7 DEF Fused, lists, n
  <2>2. trust \in [Ident -> Nat] OBVIOUS
  <2> HIDE DEF trust
  <2>3. PICK H : H = Fusion(lists, trust) OBVIOUS
  <2>4. /\ Apart(H)
        /\ \A h \in H : h.full => \E c \in DOMAIN lists : \E i \in DOMAIN lists[c] : lists[c][i].id = h.id /\ lists[c][i].full
        /\ \A c \in DOMAIN lists : \A m \in Ids(lists[c]) : \E h \in H : h.id = m
    BY <1>2, <2>2, <2>3, FusionIs
  <2>5. \A h \in H : h.full => h.id \in began[r].there BY <1>2, <2>4 DEF Seen
  <2>6. /\ IsList(Best(H, n)) /\ \A i \in DOMAIN Best(H, n) : Best(H, n)[i] \in H
        /\ n >= Cardinality(Ident) => \A x \in H : \E i \in DOMAIN Best(H, n) : Best(H, n)[i] = x
    BY <1>1, <2>4, BestIs DEF n
  <2>7. Seen(r, Best(H, n)) BY <2>5, <2>6 DEF Seen
  <2>8. ASSUME Unlimited(r), NEW m \in Wanted(r) PROVE m \in Ids(Best(H, n))
    <3>1. "fts" \in DOMAIN lists /\ m \in Ids(lists["fts"]) BY <1>3, <2>8
    <3>2. PICK h \in H : h.id = m BY <2>4, <3>1
    <3> QED BY <1>4, <2>6, <2>8, <3>2 DEF Ids
  <2> QED BY <2>1, <2>3, <2>6, <2>7, <2>8 DEF Suffices
<1> QED BY <1>6, <1>7

\* Backfilling: what is still there gets its contents, what is gone is dropped.
LEMMA FilledSuffices ==
  ASSUME SearchInv, NEW r \in Req, IsLegacy(r), st[r].at = "fill", NEW i \in DOMAIN st[r].cands
  PROVE  LET s == st[r].cands
         IN  Suffices(r, SubSeq(s, 1, i - 1) \o Filled(s[i]) \o SubSeq(s, i + 1, Len(s)))
<1> DEFINE s == st[r].cands
           x == Filled(s[i])
           t == SubSeq(s, 1, i - 1) \o x \o SubSeq(s, i + 1, Len(s))
<1>1. Suffices(r, s) /\ There \subseteq began[r].there BY DEF SearchInv, Follows
<1>2. IsList(s) /\ Seen(r, s) /\ (Unlimited(r) => Wanted(r) \subseteq Ids(s)) BY <1>1 DEF Suffices
<1>3. s[i] \in HitOf
  <2>1. s \in Seq(HitOf) /\ DOMAIN s = 1 .. Len(s) BY <1>2, ListIsShort DEF IsList
  <2> QED BY <2>1
<1> HIDE DEF s
<1>4. CASE s[i].id \in There
  <2>1. PICK h : h = [s[i] EXCEPT !.full = TRUE] OBVIOUS
  <2>2. h \in HitOf /\ h.id = s[i].id BY <1>3, <2>1 DEF HitOf
  <2>3. x = <<h>> /\ x # <<>> /\ x[1] = h BY <1>4, <2>1 DEF Filled
  <2> HIDE DEF x
  <2>4. /\ IsList(t) /\ Ids(s) \subseteq Ids(t)
        /\ \A j \in DOMAIN t : (\E k \in DOMAIN s : t[j] = s[k]) \/ t[j] = h
    <3>1. i \in DOMAIN s BY DEF s
    <3> QED BY <1>2, <2>2, <2>3, <3>1, CutIsList
  <2> HIDE DEF t
  <2>5. Seen(r, t) BY <1>1, <1>2, <1>4, <2>2, <2>4 DEF Seen
  <2> QED BY <1>2, <2>4, <2>5 DEF Suffices, t, x, s
<1>5. CASE s[i].id \notin There
  <2>1. x = <<>> BY <1>5 DEF Filled
  <2> HIDE DEF x
  <2>2. /\ IsList(t) /\ Ids(s) \ {s[i].id} \subseteq Ids(t)
        /\ \A j \in DOMAIN t : \E k \in DOMAIN s : t[j] = s[k]
    <3>1. i \in DOMAIN s BY DEF s
    <3> QED BY <1>2, <2>1, <3>1, CutIsList
  <2> HIDE DEF t
  <2>3. Seen(r, t) BY <1>2, <2>2 DEF Seen
  <2>4. Wanted(r) \subseteq There BY DEF Wanted, SearchInv, Fresh
  <2>5. Unlimited(r) => Wanted(r) \subseteq Ids(t) BY <1>2, <1>5, <2>2, <2>4
  <2> QED BY <2>2, <2>3, <2>5 DEF Suffices, t, x, s
<1> QED BY <1>4, <1>5

------------------------------------------------------------------------------
(* Ranking changes scores and order.                                        *)

\* The same memories, with their contents or without, and other scores.
Rescored(s, t) ==
    /\ IsList(t) /\ DOMAIN t = DOMAIN s
    /\ \A i \in DOMAIN s : t[i].id = s[i].id /\ t[i].full = s[i].full

LEMMA RescoredBy ==
  ASSUME NEW s, IsList(s), NEW f \in [DOMAIN s -> Int]
  PROVE  Rescored(s, [i \in DOMAIN s |-> [s[i] EXCEPT !.score = f[i]]])
<1> DEFINE t == [i \in DOMAIN s |-> [s[i] EXCEPT !.score = f[i]]]
<1>1. s \in Seq(HitOf) /\ Len(s) \in Nat /\ DOMAIN s = 1 .. Len(s) BY ListIsShort DEF IsList
<1>2. \A i \in DOMAIN s : s[i] \in HitOf BY <1>1
<1>3. \A i \in DOMAIN s : t[i] \in HitOf /\ t[i].id = s[i].id /\ t[i].full = s[i].full
  <2> TAKE i \in DOMAIN s
  <2>1. f[i] \in Int /\ s[i] \in HitOf BY <1>2
  <2> QED BY <2>1 DEF HitOf
<1>4. t \in [1 .. Len(s) -> HitOf]
  <2>1. t = [i \in 1 .. Len(s) |-> t[i]] BY <1>1
  <2> HIDE DEF t
  <2> QED BY <1>1, <1>3, <2>1
<1>5. DOMAIN t = DOMAIN s OBVIOUS
<1> HIDE DEF t
<1>6. t \in Seq(HitOf) BY <1>1, <1>4
<1>7. IsList(t) BY <1>3, <1>5, <1>6 DEF IsList
<1> QED BY <1>3, <1>5, <1>7 DEF Rescored, t

LEMMA WeightedIs ==
  ASSUME SearchInv, NEW s, IsList(s)
  PROVE  Rescored(s, Weighted(s))
<1> DEFINE f == [i \in DOMAIN s |-> s[i].score * case.weight[s[i].id]]
<1>1. f \in [DOMAIN s -> Int]
  <2> SUFFICES ASSUME NEW i \in DOMAIN s PROVE s[i].score * case.weight[s[i].id] \in Int OBVIOUS
  <2>1. s[i] \in HitOf BY ListIsShort DEF IsList
  <2>2. s[i].score \in Int /\ s[i].id \in Ident BY <2>1 DEF HitOf
  <2>3. case.weight[s[i].id] \in Int BY <2>2, CaseIs
  <2> QED BY <2>2, <2>3, Product
<1>2. Weighted(s) = [i \in DOMAIN s |-> [s[i] EXCEPT !.score = f[i]]] BY DEF Weighted
<1> HIDE DEF f
<1> QED BY <1>1, <1>2, RescoredBy

LEMMA BlendIs ==
  ASSUME SearchInv, NEW s, IsList(s), Len(s) > 1
  PROVE  Rescored(s, Blend(s, 7, Overlap(s)))
<1> DEFINE best == Max({1, MaxScore(s)})
           f == [i \in DOMAIN s |-> ((10 - 7) * ((Unit * s[i].score) \div best) + 7 * ((Unit * Overlap(s)[i]) \div 10)) \div 10]
<1>1. s \in Seq(HitOf) /\ Len(s) \in Nat /\ DOMAIN s = 1 .. Len(s) BY ListIsShort DEF IsList
<1>2. \A i \in DOMAIN s : s[i].score \in Int /\ s[i].id \in Ident
  <2> TAKE i \in DOMAIN s
  <2>1. s[i] \in HitOf BY <1>1
  <2> QED BY <2>1 DEF HitOf
<1>3. MaxScore(s) \in Int
  <2> DEFINE S == {s[i].score : i \in DOMAIN s}
             g == [i \in DOMAIN s |-> s[i].score]
  <2>1. S \subseteq Int BY <1>2
  <2>2. 1 \in DOMAIN s BY <1>1
  <2>3. S # {} BY <2>2
  <2>4. g \in Surjection(DOMAIN s, S) BY DEF Surjection
  <2>5. IsFiniteSet(DOMAIN s) BY <1>1, FS_Interval
  <2>6. MaxScore(s) = Max(S) BY DEF MaxScore
  <2> HIDE DEF S, g
  <2>7. IsFiniteSet(S) BY <2>4, <2>5, FS_Surjection
  <2> QED BY <2>1, <2>3, <2>6, <2>7, GreatestIs
<1>4. best \in Nat \ {0}
  <2> DEFINE T == {1, MaxScore(s)}
  <2>1. T = {1} \cup {MaxScore(s)} OBVIOUS
  <2>2. IsFiniteSet({1}) /\ IsFiniteSet({MaxScore(s)}) BY FS_Singleton
  <2>3. IsFiniteSet({1} \cup {MaxScore(s)}) BY <2>2, FS_Union
  <2>4. IsFiniteSet(T) BY <2>1, <2>3
  <2>5. T \subseteq Int /\ T # {} /\ 1 \in T BY <1>3
  <2> HIDE DEF T
  <2>6. Max(T) \in T /\ 1 <= Max(T) BY <2>4, <2>5, GreatestIs
  <2>7. Max(T) \in Int BY <2>5, <2>6
  <2> QED BY <2>6, <2>7 DEF T
<1> HIDE DEF best
<1>5. f \in [DOMAIN s -> Int]
  <2> SUFFICES ASSUME NEW i \in DOMAIN s PROVE f[i] \in Int OBVIOUS
  <2>1. Overlap(s)[i] \in Int
    <3>1. case.text[s[i].id] \in Nat BY <1>2, CaseIs
    <3> QED BY <3>1 DEF Overlap
  <2>2. Unit * s[i].score \in Int /\ Unit * Overlap(s)[i] \in Int BY <1>2, <2>1 DEF Unit
  <2>3. PICK a : a = (Unit * s[i].score) \div best OBVIOUS
  <2>4. PICK b : b = (Unit * Overlap(s)[i]) \div 10 OBVIOUS
  <2>5. a \in Int /\ b \in Int BY <1>4, <2>2, <2>3, <2>4, Quotient
  <2>6. (10 - 7) * a + 7 * b \in Int BY <2>5
  <2>7. ((10 - 7) * a + 7 * b) \div 10 \in Int BY <2>6, Quotient
  <2> QED BY <2>3, <2>4, <2>7
<1>6. Blend(s, 7, Overlap(s)) = [i \in DOMAIN s |-> [s[i] EXCEPT !.score = f[i]]] BY DEF Blend, best
<1> HIDE DEF f
<1> QED BY <1>5, <1>6, RescoredBy

LEMMA RescoredAgain ==
  ASSUME NEW s, NEW t, NEW u, Rescored(s, t), Rescored(t, u)
  PROVE  Rescored(s, u)
BY DEF Rescored

LEMMA RankedSuffices ==
  ASSUME SearchInv, NEW r \in Req, IsLegacy(r), st[r].at = "rank"
  PROVE  Suffices(r, Ranked(r)) /\ IsFull(Ranked(r)) /\ Current(r, Ranked(r))
<1> DEFINE s == st[r].cands
           u == IF Asked(r).rerank /\ Len(s) > 1 THEN Blend(s, 7, Overlap(s)) ELSE s
           t == Weighted(u)
           J == {j \in DOMAIN t : Passes(r, t[j].id)}
           H == {t[i] : i \in J}
<1>1. Suffices(r, s) /\ IsFull(s) /\ began[r].there \ lapsed \subseteq began[r].fresh
  BY DEF SearchInv, Follows
<1>2. IsList(s) /\ Seen(r, s) /\ (Unlimited(r) => Wanted(r) \subseteq Ids(s)) BY <1>1 DEF Suffices
<1>3. Ranked(r) = Line(H) BY DEF Ranked
<1> HIDE DEF s
<1>4. Rescored(s, u)
  <2>1. Rescored(s, s) BY <1>2 DEF Rescored
  <2>2. Len(s) > 1 => Rescored(s, Blend(s, 7, Overlap(s))) BY <1>2, BlendIs
  <2> QED BY <2>1, <2>2
<1> HIDE DEF u
<1>5. Rescored(u, t) BY <1>4, WeightedIs DEF Rescored
<1>6. Rescored(s, t) BY <1>4, <1>5, RescoredAgain
<1> HIDE DEF t
<1>7. IsList(t) /\ DOMAIN t = DOMAIN s /\ \A i \in DOMAIN t : t[i].id = s[i].id /\ t[i].full = s[i].full BY <1>6 DEF Rescored
<1>8. \A i \in DOMAIN t : t[i] \in HitOf BY <1>7, ListIsShort DEF IsList
<1>9. Apart(H)
  <2>1. H \subseteq HitOf BY <1>8
  <2>2. \A x, y \in H : x.id = y.id => x = y BY <1>7 DEF IsList
  <2> QED BY <2>1, <2>2 DEF Apart
<1>10. \A h \in H : h.full /\ h.id \in began[r].there /\ h.id \in began[r].fresh
  <2>1. \A h \in H : h.full /\ h.id \in began[r].there /\ h.id \notin lapsed
    BY <1>1, <1>2, <1>7 DEF IsFull, Seen, Passes
  <2> QED BY <1>1, <2>1
<1>11. Unlimited(r) => \A m \in Wanted(r) : \E h \in H : h.id = m
  <2> SUFFICES ASSUME Unlimited(r), NEW m \in Wanted(r) PROVE \E h \in H : h.id = m OBVIOUS
  <2>1. PICK i \in DOMAIN s : s[i].id = m BY <1>2 DEF Ids
  <2>2. i \in DOMAIN t /\ t[i].id = m BY <1>7, <2>1
  <2>3. ~Asked(r).class BY DEF Unlimited
  <2>4. m \notin lapsed BY DEF Wanted, Fresh, SearchInv
  <2> QED BY <2>2, <2>3, <2>4 DEF Passes
<1> HIDE DEF H, J
<1>12. /\ IsList(Line(H)) /\ Len(Line(H)) = Cardinality(H)
       /\ \A i \in 1 .. Cardinality(H) : Line(H)[i] \in H
       /\ \A x \in H : \E i \in 1 .. Cardinality(H) : Line(H)[i] = x
  BY <1>9, LineIsList
<1>13. DOMAIN Line(H) = 1 .. Cardinality(H) BY <1>12, ListIsShort
<1>14. Seen(r, Line(H)) /\ IsFull(Line(H)) /\ Current(r, Line(H))
  BY <1>10, <1>12, <1>13 DEF Seen, IsFull, Current
<1>15. Unlimited(r) => Wanted(r) \subseteq Ids(Line(H)) BY <1>11, <1>12, <1>13 DEF Ids
<1> QED BY <1>3, <1>12, <1>14, <1>15 DEF Suffices

\* Core memories come before the others, and are there.
LEMMA CoreSuffices ==
  ASSUME SearchInv, NEW r \in Req, IsLegacy(r), st[r].at = "core"
  PROVE  /\ Suffices(r, WithCore(st[r].cands)) /\ IsFull(WithCore(st[r].cands))
         /\ Current(r, WithCore(st[r].cands))
<1> DEFINE s == st[r].cands
           S == Cores \ Ids(s)
           f == [m \in S |-> 2 * Unit]
           H == Each(S, "core", f, TRUE)
<1>1. Suffices(r, s) /\ IsFull(s) /\ Current(r, s) /\ There \subseteq began[r].there BY DEF SearchInv, Follows
<1>2. IsList(s) /\ Seen(r, s) /\ (Unlimited(r) => Wanted(r) \subseteq Ids(s)) BY <1>1 DEF Suffices
<1>3. WithCore(s) = Line(H) \o s BY DEF WithCore, Each
<1>4. S \subseteq There /\ S \subseteq Ident /\ f \in [S -> Int] /\ "core" \in Origin BY DEF Cores, There, Unit, Origin
<1>5. \A m \in S : m \notin Ids(s) OBVIOUS
<1> HIDE DEF s, S, f
<1>6. Apart(H) /\ \A h \in H : h.id \in S /\ h.full = TRUE /\ h.source = "core" BY <1>4, EachIsApart
<1> HIDE DEF H
<1>7. PICK a : a = Line(H) OBVIOUS
<1>8. IsList(a) /\ \A i \in DOMAIN a : a[i] \in H BY <1>6, <1>7, LineIsList, ListIsShort
<1>9. Ids(a) \cap Ids(s) = {} BY <1>5, <1>6, <1>8 DEF Ids
<1>10. PICK u : u = a \o s OBVIOUS
<1>11. /\ IsList(u) /\ Ids(s) \subseteq Ids(u)
       /\ \A i \in DOMAIN u : (\E j \in DOMAIN a : u[i] = a[j]) \/ (\E j \in DOMAIN s : u[i] = s[j])
  BY <1>2, <1>8, <1>9, <1>10, ChainIsList
<1>12. \A i \in DOMAIN u : /\ u[i].full /\ u[i].id \in began[r].there
                            /\ (u[i].source = "core" \/ u[i].id \in began[r].fresh)
  <2>1. \A j \in DOMAIN a : a[j].full /\ a[j].id \in began[r].there /\ a[j].source = "core"
    BY <1>1, <1>4, <1>6, <1>8
  <2>2. \A j \in DOMAIN s : /\ s[j].full /\ s[j].id \in began[r].there
                            /\ (s[j].source = "core" \/ s[j].id \in began[r].fresh)
    BY <1>1, <1>2 DEF IsFull, Seen, Current
  <2> QED BY <1>11, <2>1, <2>2
<1>13. Suffices(r, u) /\ IsFull(u) /\ Current(r, u)
  BY <1>2, <1>11, <1>12 DEF Suffices, IsFull, Seen, Current
<1> QED BY <1>3, <1>7, <1>10, <1>13 DEF s

------------------------------------------------------------------------------
(* What a step must leave.                                                  *)

\* An answer that suffices goes on to suffice: less is wanted, if anything.
LEMMA SufficesOn ==
  ASSUME NEW r \in Req, UNCHANGED <<case, began>>, stays'[r] \subseteq stays[r], faulty[r] => faulty'[r],
         NEW s, Suffices(r, s)
  PROVE  IsList(s) /\ Seen(r, s)' /\ (Unlimited(r)' => Wanted(r)' \subseteq Ids(s))
<1>1. Seen(r, s)' BY DEF Seen, Suffices
<1>2. Unlimited(r)' => Unlimited(r) BY DEF Unlimited, Asked
<1>3. Wanted(r)' \subseteq Wanted(r) BY DEF Wanted
<1> QED BY <1>1, <1>2, <1>3 DEF Suffices

LEMMA FollowsOn ==
  ASSUME SearchInv, UNCHANGED <<case, began>>, There' \subseteq There, lapsed \subseteq lapsed',
         NEW r \in Req, IsLegacy(r),
         st'[r] = st[r], stays'[r] \subseteq stays[r], faulty[r] => faulty'[r]
  PROVE  Follows(r)'
<1>1. Follows(r) BY DEF SearchInv
<1>2. \A s : Suffices(r, s) => Suffices(r, s)' BY SufficesOn DEF Suffices, IsList, Ids
<1>3. \A s : (Seen(r, s) => Seen(r, s)') /\ (Current(r, s) => Current(r, s)') BY DEF Seen, Current
<1>4. (Unlimited(r)' => Unlimited(r)) /\ Wanted(r)' \subseteq Wanted(r) BY DEF Unlimited, Asked, Wanted
<1>5. UNCHANGED <<case, began>> /\ There' \subseteq There /\ lapsed \subseteq lapsed' /\ st'[r] = st[r] OBVIOUS
<1> QED BY <1>1, <1>2, <1>3, <1>4, <1>5 DEF Follows, IsFull, Suffices, Seen, Current, IsList, Ids

LEMMA SearchInitially == SearchInit => SearchInv
<1> SUFFICES ASSUME SearchInit PROVE SearchInv OBVIOUS
<1>1. IsCase(case) BY CasesAssumption DEF SearchInit
<1>2. breaker \in [state : {"closed", "open", "cooled", "half"}, fails : Nat] /\ BreakerTrips
  BY <1>1 DEF IsCase, SearchInit, BreakerTrips
<1>3. \A r \in Req : st[r] = Idle /\ stays[r] = {} BY DEF SearchInit
<1>4. ASSUME NEW r \in Req PROVE Follows(r)
  <2>1. Idle.at = "new" /\ Idle.outer = Nothing BY DEF Idle
  <2>2. st[r] = Idle /\ st[r].at = "new" /\ st[r].outer = Nothing BY <1>3, <2>1
  <2> QED BY <2>2 DEF Follows
<1> QED BY <1>2, <1>3, <1>4 DEF SearchInit, SearchInv

\* A step of one request is what it leaves of it, and of the breaker.
LEMMA Moves ==
  ASSUME SearchInv, UNCHANGED store, NEW r \in Req, NEW x, DOMAIN x = DOMAIN Idle, st' = [st EXCEPT ![r] = x],
         began' \in {began, [began EXCEPT ![r] = [there |-> There, fresh |-> Fresh]]},
         stays' \in {stays, [stays EXCEPT ![r] = Fresh]},
         DOMAIN faulty' = Req, \A q \in Req \ {r} : faulty'[q] = faulty[q],
         breaker' \in [state : {"closed", "open", "cooled", "half"}, fails : Nat], BreakerTrips',
         IsLegacy(r) => Follows(r)'
  PROVE  SearchInv'
<1>1. /\ DOMAIN st' = Req /\ DOMAIN began' = Req /\ DOMAIN stays' = Req
      /\ \A q \in Req \ {r} : st'[q] = st[q] /\ began'[q] = began[q] /\ stays'[q] = stays[q]
      /\ st'[r] = x
  BY DEF SearchInv
<1>2. There' = There /\ Fresh' = Fresh /\ case' = case /\ lapsed' = lapsed BY DEF store, There, Fresh
<1>3. \A q \in Req : DOMAIN st'[q] = DOMAIN Idle /\ stays'[q] \subseteq Fresh' BY <1>1, <1>2 DEF SearchInv
<1>4. \A q \in Req : IsLegacy(q)' <=> IsLegacy(q) BY <1>2 DEF IsLegacy, Asked
<1>5. ASSUME NEW q \in Req, q # r, IsLegacy(q) PROVE Follows(q)'
  <2>1. st'[q] = st[q] /\ began'[q] = began[q] /\ stays'[q] = stays[q] /\ faulty'[q] = faulty[q] BY <1>1, <1>5
  <2>2. Follows(q) BY <1>5 DEF SearchInv
  <2>3. Wanted(q)' = Wanted(q) /\ (Unlimited(q)' <=> Unlimited(q)) BY <1>2, <2>1 DEF Wanted, Unlimited, Asked
  <2>4. \A s : (Seen(q, s)' <=> Seen(q, s)) /\ (Current(q, s)' <=> Current(q, s)) BY <2>1 DEF Seen, Current
  <2>5. \A s : Suffices(q, s)' <=> Suffices(q, s) BY <2>3, <2>4 DEF Suffices, IsList, Ids
  <2> QED BY <1>2, <2>1, <2>2, <2>3, <2>4, <2>5 DEF Follows, IsFull, IsList, Ids
<1> QED BY <1>1, <1>2, <1>3, <1>4, <1>5 DEF SearchInv, store

LEMMA StillSo ==
  ASSUME SearchInv, NEW r \in Req, UNCHANGED <<store, past>>, faulty[r] => faulty'[r]
  PROVE  /\ There' = There /\ lapsed' = lapsed /\ Wanted(r)' = Wanted(r) /\ (Unlimited(r)' => Unlimited(r))
         /\ \A s : (Seen(r, s)' <=> Seen(r, s)) /\ (Current(r, s)' <=> Current(r, s))
         /\ \A s : Suffices(r, s) => Suffices(r, s)'
<1>1. There' = There /\ lapsed' = lapsed /\ Wanted(r)' = Wanted(r) /\ (Unlimited(r)' => Unlimited(r))
  BY DEF store, past, There, Wanted, Unlimited, Asked
<1>2. \A s : (Seen(r, s)' <=> Seen(r, s)) /\ (Current(r, s)' <=> Current(r, s)) BY DEF past, Seen, Current
<1>3. ASSUME NEW s, Suffices(r, s) PROVE Suffices(r, s)'
  <2>1. IsList(s) /\ Seen(r, s) /\ (Unlimited(r) => Wanted(r) \subseteq Ids(s)) BY <1>3 DEF Suffices
  <2>2. Seen(r, s)' BY <1>2, <2>1
  <2>3. Unlimited(r)' => Wanted(r)' \subseteq Ids(s) BY <1>1, <2>1
  <2> QED BY <2>1, <2>2, <2>3 DEF Suffices, IsList, Ids
<1> QED BY <1>1, <1>2, <1>3

\* A step with candidates that suffice, past the searches.
LEMMA Proceeds ==
  ASSUME SearchInv, NEW r \in Req, UNCHANGED <<store, breaker, past, faulty>>,
         NEW x, DOMAIN x = DOMAIN Idle, st' = [st EXCEPT ![r] = x],
         IsLegacy(r) => /\ st[r].at # "new" /\ x.at \in {"fill", "rank", "core", "track", "return", "done"}
                        /\ x.outer \in {st[r].outer, Nothing}
                        /\ Suffices(r, x.cands) /\ (x.at # "fill" => IsFull(x.cands))
                        /\ x.at \notin {"fill", "rank"} => Current(r, x.cands)
  PROVE  SearchInv'
<1>1. ASSUME IsLegacy(r) PROVE Follows(r)'
  <2>1. st'[r] = x BY DEF SearchInv
  <2>2. Follows(r) BY <1>1 DEF SearchInv
  <2>3. /\ There' = There /\ lapsed' = lapsed /\ began' = began
        /\ \A s : (Suffices(r, s) => Suffices(r, s)') /\ (Current(r, s)' <=> Current(r, s))
    <3>1. UNCHANGED <<store, past>> /\ (faulty[r] => faulty'[r]) OBVIOUS
    <3> QED BY <3>1, StillSo DEF past
  <2>4. /\ x.at \notin {"new", "search"} /\ There' \subseteq began'[r].there
        /\ began'[r].there \ lapsed' \subseteq began'[r].fresh
    BY <1>1, <2>2, <2>3 DEF Follows
  <2>5. /\ Suffices(r, x.cands)' /\ (x.at # "fill" => IsFull(x.cands))
        /\ x.at \notin {"fill", "rank"} => Current(r, x.cands)'
    BY <1>1, <2>3
  <2>6. x.outer # Nothing => Suffices(r, x.outer)' /\ IsFull(x.outer) /\ Current(r, x.outer)'
    BY <1>1, <2>2, <2>3 DEF Follows
  <2> QED BY <1>1, <2>1, <2>4, <2>5, <2>6 DEF Follows, Suffices, IsFull, Seen, Current
<1>2. /\ breaker' \in [state : {"closed", "open", "cooled", "half"}, fails : Nat] /\ BreakerTrips'
      /\ DOMAIN faulty' = Req /\ began' = began /\ stays' = stays
  BY DEF SearchInv, BreakerTrips, past
<1> QED BY <1>1, <1>2, Moves

\* A step of the pipelines.
LEMMA Elsewhere ==
  ASSUME SearchInv, NEW r \in Req, ~IsLegacy(r), UNCHANGED <<store, past>>,
         NEW x, DOMAIN x = DOMAIN Idle, st' = [st EXCEPT ![r] = x],
         DOMAIN faulty' = Req, \A q \in Req \ {r} : faulty'[q] = faulty[q],
         breaker' \in [state : {"closed", "open", "cooled", "half"}, fails : Nat], BreakerTrips'
  PROVE  SearchInv'
BY Moves DEF past

------------------------------------------------------------------------------
(* The steps of retrieveLegacy.                                             *)

LEMMA BeginStep ==
  ASSUME SearchInv, NEW r \in Req, Begin(r)
  PROVE  SearchInv'
<1> DEFINE x == [st[r] EXCEPT !.at = IF Asked(r).wired = "legacy" THEN "search" ELSE "select",
                              !.todo = Asked(r).channels, !.once = Asked(r).noRetry]
<1>1. DOMAIN x = DOMAIN Idle BY DEF SearchInv
<1>2. st' = [st EXCEPT ![r] = x] BY DEF Begin, Set
<1>3. ASSUME IsLegacy(r) PROVE Follows(r)'
  <2>1. Follows(r) /\ st[r].at = "new" BY <1>3 DEF SearchInv, Begin
  <2>2. st[r] = Idle BY <2>1 DEF Follows
  <2>3. Idle.got = <<>> /\ Idle.outer = Nothing BY DEF Idle
  <2>4. x.at = "search" /\ x.todo = Asked(r).channels /\ x.got = <<>> /\ x.outer = Nothing
    BY <1>1, <1>3, <2>2, <2>3 DEF Idle, IsLegacy
  <2>5. st'[r] = x BY <1>2 DEF SearchInv
  <2> HIDE DEF x
  <2>6. /\ began'[r].there = There /\ There' = There
        /\ began'[r].there \ lapsed' \subseteq began'[r].fresh
    BY DEF Begin, SearchInv, store, There, Fresh
  <2>7. ~(Unlimited(r)' /\ "fts" \notin x.todo) BY <2>4 DEF Unlimited, Asked, Begin, store
  <2>8. DOMAIN x.got = {} BY <2>4
  <2> QED BY <2>4, <2>5, <2>6, <2>7, <2>8 DEF Follows
<1> HIDE DEF x
<1>4. /\ breaker' \in [state : {"closed", "open", "cooled", "half"}, fails : Nat] /\ BreakerTrips'
      /\ DOMAIN faulty' = Req /\ faulty' = faulty /\ UNCHANGED store
      /\ began' = [began EXCEPT ![r] = [there |-> There, fresh |-> Fresh]]
      /\ stays' = [stays EXCEPT ![r] = Fresh]
  BY DEF SearchInv, BreakerTrips, Begin
<1> QED BY <1>1, <1>2, <1>3, <1>4, Moves

\* The text's hits are kept from when its search has ended.
LEMMA ChannelStep ==
  ASSUME SearchInv, NEW r \in Req, NEW c \in ChannelName, Channel(r, c)
  PROVE  SearchInv'
<1>1. PICK ok \in {TRUE, ~case.faults} :
         /\ Set(r, [st[r] EXCEPT !.todo = @ \ {c}, !.got = IF ok /\ Found(r, c) # <<>> THEN With(@, c, Found(r, c)) ELSE @])
         /\ faulty' = [faulty EXCEPT ![r] = @ \/ ~ok]
  BY DEF Channel
<1> DEFINE s == Found(r, c)
           lists == IF ok /\ s # <<>> THEN With(st[r].got, c, s) ELSE st[r].got
           x == [st[r] EXCEPT !.todo = @ \ {c}, !.got = lists]
<1>2. DOMAIN x = DOMAIN Idle BY DEF SearchInv
<1>3. st' = [st EXCEPT ![r] = x] BY <1>1 DEF Set
<1>4. DOMAIN faulty' = Req /\ (\A q \in Req \ {r} : faulty'[q] = faulty[q]) /\ faulty'[r] = (faulty[r] \/ ~ok)
  BY <1>1 DEF SearchInv
<1>5. UNCHANGED <<store, past>> /\ breaker' = breaker /\ st[r].at = "search" BY DEF Channel
<1>6. ASSUME IsLegacy(r) PROVE Follows(r)'
  <2>1. Follows(r) BY <1>6 DEF SearchInv
  <2>2. /\ There' = There /\ lapsed' = lapsed /\ Wanted(r)' = Wanted(r) /\ (Unlimited(r)' => Unlimited(r))
        /\ \A t : (Seen(r, t)' <=> Seen(r, t)) /\ (Current(r, t)' <=> Current(r, t))
        /\ \A t : Suffices(r, t) => Suffices(r, t)'
    BY <1>4, <1>5, StillSo
  <2>3. x.at = "search" /\ x.outer = st[r].outer /\ x.todo = st[r].todo \ {c} /\ x.got = lists
    BY <1>2, <1>5 DEF Idle, SearchInv
  <2>4. IsList(s) /\ Seen(r, s)
    <3>1. There \subseteq began[r].there BY <1>5, <2>1 DEF Follows
    <3> QED BY <1>6, <3>1, FoundIs DEF Seen
  <2>5. Unlimited(r) /\ c = "fts" => Wanted(r) \subseteq Ids(s)
    BY <1>6, FoundIs DEF Unlimited
  <2>6. Unlimited(r)' => ok BY <1>4 DEF Unlimited
  <2>7. Ids(<<>>) = {} BY DEF Ids
  <2> HIDE DEF s
  <2>8. DOMAIN lists \subseteq ChannelName /\ \A d \in DOMAIN lists : IsList(lists[d]) /\ Seen(r, lists[d])
    BY <1>5, <2>1, <2>4 DEF Follows, With
  <2>9. ASSUME Unlimited(r)', "fts" \notin x.todo, Wanted(r) # {}
        PROVE  "fts" \in DOMAIN lists /\ Wanted(r) \subseteq Ids(lists["fts"])
    <3>1. CASE c = "fts"
      <4>1. Wanted(r) \subseteq Ids(s) /\ s # <<>> BY <2>2, <2>5, <2>7, <2>9, <3>1
      <4> QED BY <2>6, <2>9, <3>1, <4>1 DEF With
    <3>2. CASE c # "fts"
      <4>1. "fts" \in DOMAIN st[r].got /\ Wanted(r) \subseteq Ids(st[r].got["fts"])
        BY <1>5, <2>1, <2>2, <2>3, <2>9, <3>2 DEF Follows
      <4> QED BY <3>2, <4>1 DEF With
    <3> QED BY <3>1, <3>2
  <2>10. There \subseteq began[r].there /\ began[r].there \ lapsed \subseteq began[r].fresh /\ began' = began
    BY <1>5, <2>1 DEF Follows, past
  <2>11. PICK y : y = x OBVIOUS
  <2>12. y.at = "search" /\ y.outer = st[r].outer /\ y.todo = st[r].todo \ {c} /\ y.got = lists BY <2>3, <2>11
  <2>13. st'[r] = y BY <1>3, <2>11 DEF SearchInv
  <2>14. /\ DOMAIN y.got \subseteq ChannelName
         /\ \A d \in DOMAIN y.got : IsList(y.got[d]) /\ Seen(r, y.got[d])'
    BY <2>2, <2>8, <2>12
  <2>15. y.outer # Nothing => Suffices(r, y.outer)' /\ IsFull(y.outer) /\ Current(r, y.outer)'
    BY <2>1, <2>2, <2>12 DEF Follows
  <2>16. Unlimited(r)' /\ "fts" \notin y.todo /\ Wanted(r)' # {}
         => "fts" \in DOMAIN y.got /\ Wanted(r)' \subseteq Ids(y.got["fts"])
    BY <2>2, <2>3, <2>9, <2>12
  <2> QED BY <2>2, <2>10, <2>12, <2>13, <2>14, <2>15, <2>16 DEF Follows, IsFull, Suffices, Seen, Current
<1>7. breaker' \in [state : {"closed", "open", "cooled", "half"}, fails : Nat] /\ BreakerTrips'
  BY <1>5 DEF SearchInv, BreakerTrips
<1> HIDE DEF x
<1> QED BY <1>2, <1>3, <1>4, <1>5, <1>6, <1>7, Moves DEF past

LEMMA FuseStep ==
  ASSUME SearchInv, NEW r \in Req, Fuse(r)
  PROVE  SearchInv'
<1> DEFINE x == IF st[r].got = <<>> THEN [st[r] EXCEPT !.at = "return", !.cands = <<>>]
                ELSE [st[r] EXCEPT !.at = "fill", !.cands = Fused(r)]
<1>1. DOMAIN x = DOMAIN Idle BY DEF SearchInv
<1>2. st' = [st EXCEPT ![r] = x] BY DEF Fuse, Set
<1>3. ASSUME IsLegacy(r)
      PROVE  /\ st[r].at # "new" /\ x.at \in {"fill", "return"} /\ x.outer = st[r].outer
             /\ Suffices(r, x.cands) /\ (x.at # "fill" => IsFull(x.cands) /\ Current(r, x.cands))
  <2>1. Follows(r) /\ st[r].at = "search" /\ st[r].todo = {} BY <1>3 DEF SearchInv, Fuse
  <2>2. CASE st[r].got = <<>>
    <3>1. x.at = "return" /\ x.cands = <<>> /\ x.outer = st[r].outer BY <1>1, <2>2 DEF Idle, SearchInv
    <3>2. DOMAIN st[r].got = {} BY <2>2
    <3>3. Unlimited(r) => Wanted(r) = {} BY <2>1, <3>2 DEF Follows
    <3>4. IsList(<<>>) /\ Seen(r, <<>>) /\ IsFull(<<>>) /\ Current(r, <<>>) BY DEF IsList, Seen, IsFull, Current
    <3> QED BY <2>1, <3>1, <3>3, <3>4 DEF Suffices
  <2>3. CASE st[r].got # <<>>
    <3>1. x.at = "fill" /\ x.cands = Fused(r) /\ x.outer = st[r].outer BY <1>1, <2>3 DEF Idle, SearchInv
    <3> QED BY <1>3, <2>1, <3>1, FusedSuffices
  <2> QED BY <2>2, <2>3
<1>4. UNCHANGED <<store, breaker, past, faulty>> BY DEF Fuse
<1> HIDE DEF x
<1> QED BY <1>1, <1>2, <1>3, <1>4, Proceeds

LEMMA BackfillStep ==
  ASSUME SearchInv, NEW r \in Req, BackfillNext(r)
  PROVE  SearchInv'
<1> DEFINE s == st[r].cands
           i == Min({j \in DOMAIN s : ~s[j].full})
           t == SubSeq(s, 1, i - 1) \o Filled(s[i]) \o SubSeq(s, i + 1, Len(s))
           x == IF \A j \in DOMAIN s : s[j].full THEN [st[r] EXCEPT !.at = "rank"] ELSE [st[r] EXCEPT !.cands = t]
<1>1. DOMAIN x = DOMAIN Idle BY DEF SearchInv
<1>2. st' = [st EXCEPT ![r] = x] BY DEF BackfillNext, Set
<1>3. ASSUME IsLegacy(r)
      PROVE  /\ st[r].at # "new" /\ x.at \in {"fill", "rank"} /\ x.outer = st[r].outer
             /\ Suffices(r, x.cands) /\ (x.at # "fill" => IsFull(x.cands))
  <2>1. st[r].at = "fill" /\ Suffices(r, s) BY <1>3 DEF SearchInv, Follows, BackfillNext
  <2>2. CASE \A j \in DOMAIN s : s[j].full
    <3>1. x.at = "rank" /\ x.cands = s /\ x.outer = st[r].outer BY <1>1, <2>2 DEF Idle, SearchInv
    <3> QED BY <2>1, <2>2, <3>1 DEF IsFull
  <2>3. CASE ~(\A j \in DOMAIN s : s[j].full)
    <3> HIDE DEF t
    <3>1. x.at = "fill" /\ x.cands = t /\ x.outer = st[r].outer BY <1>1, <2>1, <2>3 DEF Idle, SearchInv
    <3> DEFINE N == {j \in DOMAIN s : ~s[j].full}
    <3>2. N \in SUBSET Nat /\ N # {} BY <2>1, <2>3, ListIsShort DEF Suffices
    <3> HIDE DEF N
    <3>3. Min(N) \in N BY <3>2, LeastIs
    <3>4. i \in DOMAIN s BY <3>3 DEF N
    <3>5. Suffices(r, t) BY <1>3, <2>1, <3>4, FilledSuffices DEF t
    <3> QED BY <2>1, <3>1, <3>5
  <2> QED BY <2>2, <2>3
<1>4. UNCHANGED <<store, breaker, past, faulty>> BY DEF BackfillNext
<1> HIDE DEF x
<1> QED BY <1>1, <1>2, <1>3, <1>4, Proceeds

\* The retry begins as the first round did, and keeps what that one had.
LEMMA OrderStep ==
  ASSUME SearchInv, NEW r \in Req, Order(r)
  PROVE  SearchInv'
<1>1. UNCHANGED <<store, breaker, past, faulty>> /\ st[r].at = "rank" BY DEF Order
<1>2. CASE IsWeak(Ranked(r)) /\ Asked(r).filters /\ ~st[r].once
  <2>1. PICK s : s = Ranked(r) OBVIOUS
  <2>2. PICK y : y = Again(r, s) OBVIOUS
  <2>3. st' = [st EXCEPT ![r] = y] BY <1>2, <2>1, <2>2 DEF Order, Set
  <2>4. DOMAIN y = DOMAIN Idle BY <2>2 DEF SearchInv, Again
  <2>5. y.at = "search" /\ y.todo = Asked(r).channels /\ y.got = <<>> /\ y.outer = s
    BY <2>2, <2>4 DEF Again, Idle, SearchInv
  <2>6. ASSUME IsLegacy(r) PROVE Follows(r)'
    <3>1. Follows(r) /\ Suffices(r, s) /\ IsFull(s) /\ Current(r, s)
      BY <1>1, <2>1, <2>6, RankedSuffices DEF SearchInv
    <3>2. UNCHANGED <<store, past>> /\ (faulty[r] => faulty'[r]) BY <1>1
    <3>3. There' = There /\ lapsed' = lapsed /\ Suffices(r, s)' /\ Current(r, s)' BY <3>1, <3>2, StillSo
    <3>4. There' \subseteq began'[r].there /\ began'[r].there \ lapsed' \subseteq began'[r].fresh
      BY <1>1, <3>1, <3>3 DEF Follows, past
    <3>5. st'[r] = y BY <2>3 DEF SearchInv
    <3>6. ~(Unlimited(r)' /\ "fts" \notin y.todo) BY <2>5, <1>1 DEF Unlimited, Asked, store
    <3>7. DOMAIN y.got = {} BY <2>5
    <3> QED BY <2>5, <3>1, <3>3, <3>4, <3>5, <3>6, <3>7 DEF Follows, Suffices, IsFull, Seen, Current
  <2>7. /\ breaker' \in [state : {"closed", "open", "cooled", "half"}, fails : Nat] /\ BreakerTrips'
        /\ DOMAIN faulty' = Req /\ faulty' = faulty /\ began' = began /\ stays' = stays /\ UNCHANGED store
    BY <1>1 DEF SearchInv, BreakerTrips, past
  <2> QED BY <2>3, <2>4, <2>6, <2>7, Moves
<1>3. CASE ~(IsWeak(Ranked(r)) /\ Asked(r).filters /\ ~st[r].once)
  <2>1. PICK x : x = [st[r] EXCEPT !.at = "core", !.cands = Ranked(r)] OBVIOUS
  <2>2. st' = [st EXCEPT ![r] = x] BY <1>3, <2>1 DEF Order, Set
  <2>3. DOMAIN x = DOMAIN Idle BY <2>1 DEF SearchInv
  <2>4. x.at = "core" /\ x.cands = Ranked(r) /\ x.outer = st[r].outer BY <2>1, <2>3 DEF Idle, SearchInv
  <2>5. IsLegacy(r) => Suffices(r, x.cands) /\ IsFull(x.cands) /\ Current(r, x.cands)
    BY <1>1, <2>4, RankedSuffices
  <2> QED BY <1>1, <2>2, <2>3, <2>4, <2>5, Proceeds
<1> QED BY <1>2, <1>3

LEMMA InjectStep ==
  ASSUME SearchInv, NEW r \in Req, Inject(r)
  PROVE  SearchInv'
<1>1. UNCHANGED <<store, breaker, past, faulty>> /\ st[r].at = "core" BY DEF Inject
<1>2. PICK x : x = [st[r] EXCEPT !.at = IF Asked(r).wired = "legacy" THEN "track" ELSE "extra",
                                 !.cands = IF Asked(r).core THEN WithCore(@) ELSE @]
  OBVIOUS
<1>3. st' = [st EXCEPT ![r] = x] BY <1>2 DEF Inject, Set
<1>4. DOMAIN x = DOMAIN Idle BY <1>2 DEF SearchInv
<1>5. ASSUME IsLegacy(r)
      PROVE  /\ x.at = "track" /\ x.outer = st[r].outer
             /\ Suffices(r, x.cands) /\ IsFull(x.cands) /\ Current(r, x.cands)
  <2>1. /\ x.at = "track" /\ x.outer = st[r].outer
        /\ x.cands = IF Asked(r).core THEN WithCore(st[r].cands) ELSE st[r].cands
    BY <1>2, <1>4, <1>5 DEF Idle, SearchInv, IsLegacy
  <2>2. Suffices(r, st[r].cands) /\ IsFull(st[r].cands) /\ Current(r, st[r].cands)
    BY <1>1, <1>5 DEF SearchInv, Follows
  <2>3. /\ Suffices(r, WithCore(st[r].cands)) /\ IsFull(WithCore(st[r].cands))
        /\ Current(r, WithCore(st[r].cands))
    BY <1>1, <1>5, CoreSuffices
  <2> QED BY <2>1, <2>2, <2>3
<1> QED BY <1>1, <1>3, <1>4, <1>5, Proceeds

LEMMA CountStep ==
  ASSUME SearchInv, NEW r \in Req, CountHits(r)
  PROVE  SearchInv'
<1>1. UNCHANGED <<store, breaker, past, faulty>> /\ st[r].at = "track" BY DEF CountHits
<1>2. PICK x : x = [st[r] EXCEPT !.at = "return"] OBVIOUS
<1>3. st' = [st EXCEPT ![r] = x] BY <1>2 DEF CountHits, Set
<1>4. DOMAIN x = DOMAIN Idle BY <1>2 DEF SearchInv
<1>5. x.at = "return" /\ x.cands = st[r].cands /\ x.outer = st[r].outer BY <1>2, <1>4 DEF Idle, SearchInv
<1>6. IsLegacy(r) => Suffices(r, x.cands) /\ IsFull(x.cands) /\ Current(r, x.cands)
  BY <1>1, <1>5 DEF SearchInv, Follows
<1> QED BY <1>1, <1>3, <1>4, <1>5, <1>6, Proceeds

\* Of a retry, the answer is either of two that suffice.
LEMMA ReturnStep ==
  ASSUME SearchInv, NEW r \in Req, Return(r)
  PROVE  SearchInv'
<1>1. UNCHANGED <<store, breaker, past, faulty>> /\ st[r].at = "return" BY DEF Return
<1>2. PICK s : s = st[r].cands OBVIOUS
<1>3. PICK o : o = st[r].outer OBVIOUS
<1>4. PICK x : x = IF o = Nothing THEN [st[r] EXCEPT !.at = "done"]
                   ELSE [st[r] EXCEPT !.at = "core", !.outer = Nothing,
                                      !.cands = IF s # <<>> /\ s[1].score > o[1].score THEN s ELSE o]
  OBVIOUS
<1>5. st' = [st EXCEPT ![r] = x] BY <1>2, <1>3, <1>4 DEF Return, Set
<1>6. DOMAIN x = DOMAIN Idle BY <1>4 DEF SearchInv
<1>7. /\ x.at \in {"done", "core"} /\ x.outer = Nothing
      /\ x.cands = s \/ (o # Nothing /\ x.cands = o)
  BY <1>2, <1>3, <1>4, <1>6 DEF Idle, SearchInv
<1>8. ASSUME IsLegacy(r) PROVE Suffices(r, x.cands) /\ IsFull(x.cands) /\ Current(r, x.cands)
  <2>1. Follows(r) BY <1>8 DEF SearchInv
  <2>2. Suffices(r, s) /\ IsFull(s) /\ Current(r, s) BY <1>1, <1>2, <2>1 DEF Follows
  <2>3. o # Nothing => Suffices(r, o) /\ IsFull(o) /\ Current(r, o) BY <1>3, <2>1 DEF Follows
  <2> QED BY <1>7, <2>2, <2>3
<1> QED BY <1>1, <1>5, <1>6, <1>7, <1>8, Proceeds

------------------------------------------------------------------------------
(* The steps of the pipelines: other requests', as far as retrieveLegacy is  *)
(* concerned, and those of the breaker.                                     *)

\* The request has the fields it had.
Continues(r) == \E x : DOMAIN x = DOMAIN st[r] /\ Set(r, x)

LEMMA PipelinedContinues ==
  ASSUME NEW r \in Req, Pipelined(r)
  PROVE  Continues(r)
<1>0. \A x : DOMAIN x = DOMAIN st[r] /\ Set(r, x) => Continues(r) BY DEF Continues
<1>1. CASE Select(r)
  <2>1. PICK told \in {Asked(r).name = "llm", FALSE} : \E name :
           Set(r, [st[r] EXCEPT !.at = IF name \in DOMAIN Pipelines THEN "group" ELSE "done", !.name = name,
                                !.told = told])
    BY <1>1 DEF Select
  <2> QED BY <1>0, <2>1
<1>2. CASE Fork(r) BY <1>0, <1>2 DEF Fork
<1>3. CASE RunStage(r)
  <2>1. PICK i \in st[r].todo, ok \in {TRUE, ~case.faults} :
          Set(r, [st[r] EXCEPT !.todo = @ \ {i},
                               !.got = With(@, i, IF ok THEN Searched(r, Group(r).stages[i]) ELSE <<>>)])
    BY <1>3 DEF RunStage
  <2> QED BY <1>0, <2>1
<1>4. CASE Join(r) BY <1>0, <1>4 DEF Join, Forward
<1>5. CASE Sequential(r)
  <2>1. \E c : Set(r, Forward(r, c)) BY <1>5 DEF Sequential
  <2> QED BY <1>0, <2>1 DEF Forward
<1>6. CASE Rewrite(r)
  <2>1. \/ \E c : Set(r, Forward(r, c))
        \/ \E c : Set(r, [st[r] EXCEPT !.tier = @ + 1, !.cands = c])
    BY <1>6 DEF Rewrite
  <2> QED BY <1>0, <2>1 DEF Forward
<1>7. CASE EndGroups(r) BY <1>0, <1>7 DEF EndGroups
<1>8. CASE Ask(r) BY <1>0, <1>8 DEF Ask
<1>9. CASE Told(r)
  <2>1. \/ Set(r, [st[r] EXCEPT !.at = "trim"])
        \/ \E s : Set(r, [st[r] EXCEPT !.at = "trim", !.cands = s])
    BY <1>9 DEF Told
  <2> QED BY <1>0, <2>1
<1>10. CASE Trim(r) BY <1>0, <1>10 DEF Trim
<1> QED BY <1>1, <1>2, <1>3, <1>4, <1>5, <1>6, <1>7, <1>8, <1>9, <1>10 DEF Pipelined

LEMMA PipelinedLeaves ==
  ASSUME SearchInv, NEW r \in Req, Pipelined(r)
  PROVE  /\ st[r].at \in {"select", "group", "parallel", "extra", "asking", "trim"}
         /\ UNCHANGED <<store, past>>
         /\ DOMAIN faulty' = Req /\ \A q \in Req \ {r} : faulty'[q] = faulty[q]
         /\ breaker' \in {breaker, Allowed, Failed, Succeeded}
<1>1. DOMAIN faulty = Req BY DEF SearchInv
<1>2. CASE Select(r) BY <1>1, <1>2 DEF Select
<1>3. CASE Fork(r) BY <1>1, <1>3 DEF Fork, InGroup
<1>4. CASE RunStage(r) BY <1>1, <1>4 DEF RunStage
<1>5. CASE Join(r) BY <1>1, <1>5 DEF Join
<1>6. CASE Sequential(r) BY <1>1, <1>6 DEF Sequential, InGroup
<1>7. CASE Rewrite(r) BY <1>1, <1>7 DEF Rewrite, InGroup
<1>8. CASE EndGroups(r) BY <1>1, <1>8 DEF EndGroups
<1>9. CASE Ask(r) BY <1>1, <1>9 DEF Ask
<1>10. CASE Told(r) BY <1>1, <1>10 DEF Told
<1>11. CASE Trim(r) BY <1>1, <1>11 DEF Trim
<1> QED BY <1>2, <1>3, <1>4, <1>5, <1>6, <1>7, <1>8, <1>9, <1>10, <1>11 DEF Pipelined

\* A failure that does not open the breaker is not the last that is allowed.
LEMMA BreakerStep ==
  ASSUME SearchInv, breaker' \in {breaker, Allowed, Failed, Succeeded}
  PROVE  breaker' \in [state : {"closed", "open", "cooled", "half"}, fails : Nat] /\ BreakerTrips'
<1>1. /\ breaker \in [state : {"closed", "open", "cooled", "half"}, fails : Nat]
      /\ breaker.state = "closed" => breaker.fails < Threshold
  BY DEF SearchInv, BreakerTrips
<1>2. Threshold \in Nat \ {0} BY LimitAssumption
<1>3. CASE breaker' = breaker BY <1>1, <1>3 DEF BreakerTrips
<1>4. CASE breaker' = Allowed BY <1>1, <1>4 DEF BreakerTrips, Allowed
<1>5. CASE breaker' = Failed BY <1>1, <1>2, <1>5 DEF BreakerTrips, Failed
<1>6. CASE breaker' = Succeeded BY <1>1, <1>2, <1>6 DEF BreakerTrips, Succeeded
<1> QED BY <1>3, <1>4, <1>5, <1>6

LEMMA PipelinedStep ==
  ASSUME SearchInv, NEW r \in Req, Pipelined(r)
  PROVE  SearchInv'
<1>1. /\ st[r].at \in {"select", "group", "parallel", "extra", "asking", "trim"}
      /\ UNCHANGED <<store, past>>
      /\ DOMAIN faulty' = Req /\ \A q \in Req \ {r} : faulty'[q] = faulty[q]
      /\ breaker' \in {breaker, Allowed, Failed, Succeeded}
  BY PipelinedLeaves
<1>2. ~IsLegacy(r) BY <1>1 DEF SearchInv, Follows
<1>3. PICK x : DOMAIN x = DOMAIN st[r] /\ st' = [st EXCEPT ![r] = x] BY PipelinedContinues DEF Continues, Set
<1>4. DOMAIN x = DOMAIN Idle BY <1>3 DEF SearchInv
<1> QED BY <1>1, <1>2, <1>3, <1>4, BreakerStep, Elsewhere

------------------------------------------------------------------------------
(* What happens meanwhile, and all of it.                                   *)

\* What ends is no longer wanted.
LEMMA EndsStep ==
  ASSUME SearchInv, NEW m \in Ident, Ends(m)
  PROVE  SearchInv'
<1>1. /\ UNCHANGED <<case, st, breaker, began, faulty>>
      /\ stays' = [r \in Req |-> stays[r] \ {m}]
      /\ gone \subseteq gone' /\ gone' \subseteq gone \cup {m}
      /\ lapsed \subseteq lapsed' /\ lapsed' \subseteq lapsed \cup {m}
  BY DEF Ends
<1>2. There' \subseteq There /\ gone' \subseteq Ident /\ lapsed \subseteq lapsed' BY <1>1 DEF There, SearchInv
<1>3. \A r \in Req : stays'[r] = stays[r] \ {m} /\ stays'[r] \subseteq stays[r] BY <1>1
<1>4. Fresh \ {m} \subseteq Fresh' BY <1>1 DEF Fresh, There
<1>5. \A r \in Req : stays'[r] \subseteq Fresh' BY <1>3, <1>4 DEF SearchInv
<1>6. \A r \in Req : IsLegacy(r)' => IsLegacy(r) BY <1>1 DEF IsLegacy, Asked
<1>7. \A r \in Req : IsLegacy(r) => Follows(r)'
  <2> SUFFICES ASSUME NEW r \in Req, IsLegacy(r) PROVE Follows(r)' OBVIOUS
  <2>1. UNCHANGED <<case, began>> /\ st'[r] = st[r] /\ faulty'[r] = faulty[r] BY <1>1
  <2> QED BY <1>2, <1>3, <2>1, FollowsOn
<1>8. DOMAIN stays' = Req BY <1>1
<1> QED BY <1>1, <1>2, <1>5, <1>6, <1>7, <1>8 DEF SearchInv, BreakerTrips

LEMMA CoolStep ==
  ASSUME SearchInv, Cool
  PROVE  SearchInv'
<1>1. UNCHANGED <<case, gone, lapsed, st, began, stays, faulty>> BY DEF Cool, store, past
<1>2. breaker' \in [state : {"closed", "open", "cooled", "half"}, fails : Nat] /\ BreakerTrips'
  BY DEF Cool, SearchInv, BreakerTrips
<1>3. There' = There /\ Fresh' = Fresh /\ lapsed' = lapsed BY <1>1 DEF There, Fresh
<1>4. \A r \in Req : IsLegacy(r)' => IsLegacy(r) BY <1>1 DEF IsLegacy, Asked
<1>5. \A r \in Req : IsLegacy(r) => Follows(r)' BY <1>1, <1>3, FollowsOn
<1> QED BY <1>1, <1>2, <1>3, <1>4, <1>5 DEF SearchInv

LEMMA SearchStutter ==
  ASSUME SearchInv, UNCHANGED searchVars
  PROVE  SearchInv'
<1>1. UNCHANGED <<case, gone, lapsed, st, breaker, began, stays, faulty>> BY DEF searchVars
<1>3. There' = There /\ Fresh' = Fresh /\ lapsed' = lapsed BY <1>1 DEF There, Fresh
<1>4. \A r \in Req : IsLegacy(r)' => IsLegacy(r) BY <1>1 DEF IsLegacy, Asked
<1>5. \A r \in Req : IsLegacy(r) => Follows(r)' BY <1>1, <1>3, FollowsOn
<1> QED BY <1>1, <1>3, <1>4, <1>5 DEF SearchInv, BreakerTrips

LEMMA SearchStep == SearchInv /\ [SearchNext]_searchVars => SearchInv'
<1> SUFFICES ASSUME SearchInv, [SearchNext]_searchVars PROVE SearchInv' OBVIOUS
<1>1. ASSUME NEW r \in Req, Runs(r) PROVE SearchInv'
  <2>1. CASE Begin(r) BY <2>1, BeginStep
  <2>2. CASE Legacy(r)
    <3>1. CASE \E c \in ChannelName : Channel(r, c) BY <3>1, ChannelStep
    <3>2. CASE Fuse(r) BY <3>2, FuseStep
    <3>3. CASE BackfillNext(r) BY <3>3, BackfillStep
    <3>4. CASE Order(r) BY <3>4, OrderStep
    <3> QED BY <2>2, <3>1, <3>2, <3>3, <3>4 DEF Legacy
  <2>3. CASE Pipelined(r) BY <2>3, PipelinedStep
  <2>4. CASE Inject(r) BY <2>4, InjectStep
  <2>5. CASE CountHits(r) BY <2>5, CountStep
  <2>6. CASE Return(r) BY <2>6, ReturnStep
  <2> QED BY <1>1, <2>1, <2>2, <2>3, <2>4, <2>5, <2>6 DEF Runs
<1>2. CASE \E m \in Ident : Ends(m) BY <1>2, EndsStep
<1>3. CASE Cool BY <1>3, CoolStep
<1>4. CASE UNCHANGED searchVars BY <1>4, SearchStutter
<1> QED BY <1>1, <1>2, <1>3, <1>4 DEF SearchNext

(* What a request of retrieveLegacy holds is, label by label, what its       *)
(* answer needs, and the breaker is closed only below its limit.            *)
THEOREM SearchInvariance == SearchSpec => []SearchInv
<1>1. SearchInit => SearchInv BY SearchInitially
<1>2. SearchInv /\ [SearchNext]_searchVars => SearchInv' BY SearchStep
<1> QED BY <1>1, <1>2, PTL DEF SearchSpec

LEMMA DoneFollows ==
  ASSUME SearchInv, NEW r \in Req, IsDone(r), IsLegacy(r)
  PROVE  Suffices(r, Answer(r)) /\ IsFull(Answer(r)) /\ Current(r, Answer(r))
BY DEF SearchInv, Follows, IsDone, Answer

(* An answer of retrieveLegacy has only memories that were there when the    *)
(* request began, with their contents, and, core memories apart, none that  *)
(* had expired by then, whatever is left in the vector store and whatever   *)
(* ends meanwhile.                                                          *)
THEOREM AnswersAreOfThere == SearchSpec => []AnswersWereThere
<1>1. ASSUME SearchInv PROVE AnswersWereThere
  <2> SUFFICES ASSUME NEW r \in Req, IsDone(r), IsLegacy(r)
               PROVE  /\ Ids(Answer(r)) \subseteq began[r].there
                      /\ \A i \in DOMAIN Answer(r) :
                            /\ Answer(r)[i].full
                            /\ Answer(r)[i].source = "core" \/ Answer(r)[i].id \in began[r].fresh
    BY DEF AnswersWereThere
  <2>1. Suffices(r, Answer(r)) /\ IsFull(Answer(r)) /\ Current(r, Answer(r)) BY <1>1, DoneFollows
  <2>2. \A i \in DOMAIN Answer(r) :
           /\ Answer(r)[i].full /\ Answer(r)[i].id \in began[r].there
           /\ Answer(r)[i].source = "core" \/ Answer(r)[i].id \in began[r].fresh
    BY <2>1 DEF Suffices, Seen, IsFull, Current
  <2> QED BY <2>2 DEF Ids
<1> QED BY <1>1, SearchInvariance, PTL

(* No memory is twice in an answer of retrieveLegacy, whichever channels     *)
(* found it.                                                                *)
THEOREM AnswersAreApart ==
  SearchSpec => [](\A r \in Req : IsDone(r) /\ IsLegacy(r) => IsList(Answer(r)))
<1>1. ASSUME SearchInv PROVE \A r \in Req : IsDone(r) /\ IsLegacy(r) => IsList(Answer(r))
  BY <1>1, DoneFollows DEF Suffices
<1> QED BY <1>1, SearchInvariance, PTL

(* What matches the query and the filters, and stays there and unexpired, is *)
(* in the answer when the limit has room for all memories: no other channel, *)
(* no memory's end and no retry hides it.                                   *)
THEOREM MatchesAreAnswered == SearchSpec => []MatchIsAnswered
<1>1. ASSUME SearchInv PROVE MatchIsAnswered BY <1>1, DoneFollows DEF MatchIsAnswered, Suffices
<1> QED BY <1>1, SearchInvariance, PTL

(* The breaker of the LLM reranker is closed only while fewer than its       *)
(* threshold of calls in a row have failed, however late they end.          *)
THEOREM BreakerOpens == SearchSpec => []BreakerTrips
<1>1. SearchInv => BreakerTrips BY DEF SearchInv
<1> QED BY <1>1, SearchInvariance, PTL
==============================================================================
