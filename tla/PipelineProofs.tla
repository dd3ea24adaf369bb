--------------------------- MODULE PipelineProofs ---------------------------
(***************************************************************************)
(* process_failure's tables for any payments, ladders and answers of the   *)
(* engine, any number of callers, deaths, opt-outs and clock ticks.        *)
(***************************************************************************)
EXTENDS PipelineProps, Functions, FiniteSetTheorems, WellFoundedInduction, TLAPS

----------------------------------------------------------------------------
(* Numbers: least ones, and the sums of SumFunctionOnSet.  That fold is a   *)
(* recursive function on the subsets of the domain, which exists, and whose *)
(* values are shown here for the least subset that could have another.      *)

\* A set of numbers has a least one.
LEMMA LeastNumber ==
    ASSUME NEW S, S \subseteq Nat, S # {}
    PROVE  \E i \in S : \A j \in S : i <= j
<1>1. PICK i \in S : \A j \in S : ~ (<<j, i>> \in OpToRel(<, Nat))
  BY NatLessThanWellFounded, WFMin
<1>2. ASSUME NEW j \in S PROVE i <= j
  <2>1. i \in Nat /\ j \in Nat
    OBVIOUS
  <2>2. <<j, i>> \in Nat \X Nat /\ ~ (j < i)
    BY <1>1, <2>1 DEF OpToRel
  <2> QED BY <2>1, <2>2
<1> QED BY <1>2

----------------------------------------------------------------------------
(* Sums: the fold.                                                         *)

Pick(s) == CHOOSE x \in s : TRUE

\* One unfolding of the fold over the subsets of S.
Unfolded(f, g, S) ==
    [s \in SUBSET S |-> IF s = {} THEN 0 ELSE f[Pick(s)] + g[s \ {Pick(s)}]]

Solution(f, S) == CHOOSE g : g = Unfolded(f, g, S)
Part(f, S) == Solution(f, S)[S]

\* Among finite sets there is one that has no strict subset among them.
LEMMA LeastSet ==
    ASSUME NEW S, IsFiniteSet(S), NEW F \in SUBSET SUBSET S, F # {}
    PROVE  \E s \in F : \A t \in F : t \subseteq s => t = s
<1>1. F \subseteq FiniteSubsetsOf(S)
  BY FS_Subset DEF FiniteSubsetsOf
<1>2. PICK s \in F : \A t \in F : ~ (<<t, s>> \in StrictSubsetOrdering(S))
  BY <1>1, FS_StrictSubsetOrderingWellFounded, WFMin
<1>3. ASSUME NEW t \in F, t \subseteq s PROVE t = s
  <2>1. <<t, s>> \in (SUBSET S) \X (SUBSET S)
    OBVIOUS
  <2> QED BY <1>2, <1>3, <2>1 DEF StrictSubsetOrdering
<1> QED BY <1>2, <1>3

\* The community modules' sum is the fold as it is written here.
LEMMA SumIsPart ==
    ASSUME NEW f, NEW S
    PROVE  SumFunctionOnSet(f, S) = Part(f, S)
BY DEF SumFunctionOnSet, FoldFunctionOnSet, MapThenFoldSet, Part, Solution, Unfolded, Pick

\* What the fold takes off a set is one of its elements.
LEMMA PickInside == ASSUME NEW s, s # {} PROVE Pick(s) \in s
BY DEF Pick

\* g is the fold on every subset of S.
Solves(f, g, S) ==
    \A s \in SUBSET S : g[s] = IF s = {} THEN 0 ELSE f[Pick(s)] + g[s \ {Pick(s)}]

\* A solution over a set is one over each of its subsets.
LEMMA SolvesBelow ==
    ASSUME NEW f, NEW g, NEW S, NEW T \in SUBSET S, Solves(f, g, S)
    PROVE  Solves(f, g, T)
BY DEF Solves

\* Two functions solve the equation over S: no subset tells them apart.
LEMMA SolutionUnique ==
    ASSUME NEW f, NEW S, IsFiniteSet(S), NEW g, NEW h, Solves(f, g, S), Solves(f, h, S)
    PROVE  \A s \in SUBSET S : g[s] = h[s]
<1> DEFINE F == {s \in SUBSET S : g[s] # h[s]}
<1>1. SUFFICES ASSUME F # {} PROVE FALSE
  OBVIOUS
<1>2. \E s \in F : \A t \in F : t \subseteq s => t = s
  <2> F \in SUBSET SUBSET S
    OBVIOUS
  <2> HIDE DEF F
  <2> QED BY <1>1, LeastSet
<1>3. PICK s \in F : \A t \in F : t \subseteq s => t = s
  BY <1>2
<1>4. s # {}
  BY <1>3 DEF Solves
<1>5. s \ {Pick(s)} \in SUBSET S /\ s \ {Pick(s)} # s /\ s \ {Pick(s)} \subseteq s
  BY <1>3, <1>4, PickInside
<1>6. g[s \ {Pick(s)}] = h[s \ {Pick(s)}]
  BY <1>3, <1>5
<1> QED BY <1>3, <1>4, <1>6 DEF Solves

\* There is a solution over every finite set: one over the least set without
\* would be put together from those over its subsets.
LEMMA SolutionExists ==
    ASSUME NEW f, NEW S, IsFiniteSet(S)
    PROVE  Solves(f, Solution(f, S), S)
<1> DEFINE F == {s \in SUBSET S : ~ Solves(f, Solution(f, s), s)}
<1>1. SUFFICES ASSUME F # {} PROVE FALSE
  OBVIOUS
<1>2. \E s \in F : \A t \in F : t \subseteq s => t = s
  <2> F \in SUBSET SUBSET S
    OBVIOUS
  <2> HIDE DEF F
  <2> QED BY <1>1, LeastSet
<1>3. PICK U \in F : \A t \in F : t \subseteq U => t = U
  BY <1>2
<1>4. ASSUME NEW s \in SUBSET U, s # U PROVE Solves(f, Solution(f, s), s)
  BY <1>3, <1>4
<1> DEFINE G == [s \in SUBSET U |-> IF s = {} THEN 0
                                   ELSE f[Pick(s)] + Part(f, s \ {Pick(s)})]
<1>5. ASSUME NEW s \in SUBSET U, s # U PROVE G[s] = Part(f, s)
  <2>1. Part(f, s) = IF s = {} THEN 0 ELSE f[Pick(s)] + Solution(f, s)[s \ {Pick(s)}]
    BY <1>4, <1>5 DEF Solves, Part
  <2>2. ASSUME s # {} PROVE Solution(f, s)[s \ {Pick(s)}] = Part(f, s \ {Pick(s)})
    <3> DEFINE r == s \ {Pick(s)}
    <3>1. r \in SUBSET U /\ r # U /\ r \in SUBSET s
      BY <1>5
    <3>2. IsFiniteSet(r)
      BY <3>1, <1>3, FS_Subset
    <3>3. Solves(f, Solution(f, s), r)
      BY <3>1, <1>4, <1>5, SolvesBelow
    <3>4. Solves(f, Solution(f, r), r)
      BY <3>1, <1>4
    <3> HIDE DEF r
    <3>5. Solution(f, s)[r] = Solution(f, r)[r]
      BY <3>2, <3>3, <3>4, SolutionUnique
    <3> QED BY <3>5 DEF Part, r
  <2> QED BY <2>1, <2>2
<1>6. ASSUME NEW s \in SUBSET U, s # {} PROVE G[s \ {Pick(s)}] = Part(f, s \ {Pick(s)})
  BY <1>5, <1>6, PickInside
<1>7. G = Unfolded(f, G, U)
  BY <1>6 DEF Unfolded
<1>8. Solution(f, U) = Unfolded(f, Solution(f, U), U)
  <2> HIDE DEF G
  <2> QED BY <1>7 DEF Solution
<1>9. Solves(f, Solution(f, U), U)
  BY <1>8 DEF Solves, Unfolded
<1> QED BY <1>3, <1>9

\* The fold takes one element off and goes on with the rest.
LEMMA PartUnfolds ==
    ASSUME NEW f, NEW S, IsFiniteSet(S)
    PROVE  Part(f, S) = IF S = {} THEN 0 ELSE f[Pick(S)] + Part(f, S \ {Pick(S)})
<1> DEFINE r == S \ {Pick(S)}
<1>1. Part(f, S) = IF S = {} THEN 0 ELSE f[Pick(S)] + Solution(f, S)[r]
  BY SolutionExists DEF Part, Solves
<1>2. r \in SUBSET S /\ IsFiniteSet(r)
  BY FS_Subset
<1>3. Solves(f, Solution(f, S), r) /\ Solves(f, Solution(f, r), r)
  BY <1>2, SolutionExists, SolvesBelow
<1>4. Solution(f, S)[r] = Solution(f, r)[r]
  <2> HIDE DEF r
  <2> QED BY <1>2, <1>3, SolutionUnique
<1> QED BY <1>1, <1>4 DEF Part

----------------------------------------------------------------------------
(* What the rest of the project uses.                                      *)

\* A sum over nothing is zero.
LEMMA SumEmpty == ASSUME NEW f PROVE SumFunctionOnSet(f, {}) = 0
BY PartUnfolds, SumIsPart, FS_EmptySet

\* A sum of numbers is a number.
LEMMA SumIsNat ==
    ASSUME NEW f, NEW S, IsFiniteSet(S), \A x \in S : f[x] \in Nat
    PROVE  SumFunctionOnSet(f, S) \in Nat
<1> DEFINE F == {s \in SUBSET S : Part(f, s) \notin Nat}
<1>1. SUFFICES ASSUME F # {} PROVE FALSE
  BY SumIsPart
<1> F \in SUBSET SUBSET S
  OBVIOUS
<1>9. \E s \in F : \A t \in F : t \subseteq s => t = s
  <2> HIDE DEF F
  <2> QED BY <1>1, LeastSet
<1>2. PICK s \in F : \A t \in F : t \subseteq s => t = s
  BY <1>9
<1>3. IsFiniteSet(s) /\ s \subseteq S
  BY FS_Subset
<1>4. s # {}
  <2>1. Part(f, {}) = 0
    <3> IsFiniteSet({})
      BY FS_EmptySet
    <3>1. Part(f, {}) = IF {} = {} THEN 0 ELSE f[Pick({})] + Part(f, {} \ {Pick({})})
      BY PartUnfolds
    <3> QED BY <3>1
  <2>2. Part(f, s) \notin Nat
    BY <1>2
  <2> QED BY <2>1, <2>2
<1>5. Part(f, s) = f[Pick(s)] + Part(f, s \ {Pick(s)})
  BY <1>3, <1>4, PartUnfolds
<1>6. Pick(s) \in s /\ Part(f, s \ {Pick(s)}) \in Nat
  BY <1>2, <1>4, PickInside
<1> QED BY <1>2, <1>3, <1>5, <1>6

\* A sum looks at nothing but the entries it is over.
LEMMA SumSame ==
    ASSUME NEW f, NEW g, NEW S, IsFiniteSet(S), \A x \in S : f[x] = g[x]
    PROVE  SumFunctionOnSet(f, S) = SumFunctionOnSet(g, S)
<1> DEFINE F == {s \in SUBSET S : Part(f, s) # Part(g, s)}
<1>1. SUFFICES ASSUME F # {} PROVE FALSE
  BY SumIsPart
<1> F \in SUBSET SUBSET S
  OBVIOUS
<1>9. \E s \in F : \A t \in F : t \subseteq s => t = s
  <2> HIDE DEF F
  <2> QED BY <1>1, LeastSet
<1>2. PICK s \in F : \A t \in F : t \subseteq s => t = s
  BY <1>9
<1>3. IsFiniteSet(s) /\ s \subseteq S
  BY FS_Subset
<1>4. s # {}
  BY <1>2, <1>3, PartUnfolds
<1>5. /\ Part(f, s) = f[Pick(s)] + Part(f, s \ {Pick(s)})
      /\ Part(g, s) = g[Pick(s)] + Part(g, s \ {Pick(s)})
  BY <1>3, <1>4, PartUnfolds
<1>6. Pick(s) \in s /\ Part(f, s \ {Pick(s)}) = Part(g, s \ {Pick(s)})
  BY <1>2, <1>4, PickInside
<1> QED BY <1>2, <1>3, <1>5, <1>6

\* One entry more adds its number, whichever entry the fold picks first.
LEMMA SumAdd ==
    ASSUME NEW f, NEW S, IsFiniteSet(S), NEW y, y \notin S, \A x \in S \cup {y} : f[x] \in Nat
    PROVE  SumFunctionOnSet(f, S \cup {y}) = SumFunctionOnSet(f, S) + f[y]
<1> DEFINE Adds(s, x) == Part(f, s \cup {x}) = Part(f, s) + f[x]
           F == {s \in SUBSET (S \cup {y}) : \E x \in (S \cup {y}) \ s : ~Adds(s, x)}
<1>0. IsFiniteSet(S \cup {y})
  BY FS_AddElement
<1>1. SUFFICES ASSUME F # {} PROVE FALSE
  <2>1. S \in SUBSET (S \cup {y}) /\ y \in (S \cup {y}) \ S
    OBVIOUS
  <2>2. ASSUME F = {} PROVE Adds(S, y)
    BY <2>1, <2>2
  <2> QED BY <1>1, <2>2, SumIsPart
<1>9. \E s \in F : \A t \in F : t \subseteq s => t = s
  <2> F \in SUBSET SUBSET (S \cup {y})
    OBVIOUS
  <2> HIDE DEF F
  <2> QED BY <1>0, <1>1, LeastSet
<1>2. PICK s \in F : \A t \in F : t \subseteq s => t = s
  BY <1>9
<1>3. PICK x \in (S \cup {y}) \ s : ~Adds(s, x)
  OBVIOUS
<1> DEFINE sx == s \cup {x}
           z == Pick(sx)
           r == s \ {z}
<1>4. IsFiniteSet(s) /\ IsFiniteSet(sx) /\ IsFiniteSet(r) /\ IsFiniteSet((s \ {z}) \cup {x})
  BY <1>0, FS_Subset, FS_AddElement
<1>5. z \in sx /\ Part(f, sx) = f[z] + Part(f, sx \ {z})
  BY <1>4, PartUnfolds, PickInside
<1>n. /\ Part(f, s) \in Nat /\ Part(f, r) \in Nat /\ f[z] \in Nat /\ f[x] \in Nat
  BY <1>4, <1>5, SumIsNat, SumIsPart
<1>6. CASE z = x
  <2>1. sx \ {z} = s
    BY <1>6
  <2> QED BY <1>3, <1>5, <1>6, <1>n, <2>1
<1>7. CASE z # x
  <2>1. z \in s /\ r # s /\ r \subseteq s /\ r \in SUBSET (S \cup {y}) /\ r \notin F
    BY <1>2, <1>5, <1>7
  <2>2. /\ z \in (S \cup {y}) \ r /\ x \in (S \cup {y}) \ r
        /\ r \cup {z} = s /\ r \cup {x} = sx \ {z}
    BY <1>7, <2>1
  <2>3. Adds(r, z) /\ Adds(r, x)
    BY <2>1, <2>2
  <2>4. Part(f, s) = Part(f, r) + f[z] /\ Part(f, sx \ {z}) = Part(f, r) + f[x]
    BY <2>2, <2>3
  <2> QED BY <1>3, <1>5, <1>n, <2>4
<1> QED BY <1>6, <1>7

\* What is no larger entry by entry is no larger in sum.
LEMMA SumMonotone ==
    ASSUME NEW f, NEW g, NEW S, IsFiniteSet(S),
           \A x \in S : f[x] \in Nat /\ g[x] \in Nat /\ f[x] <= g[x]
    PROVE  SumFunctionOnSet(f, S) <= SumFunctionOnSet(g, S)
<1> DEFINE F == {s \in SUBSET S : ~(Part(f, s) <= Part(g, s))}
<1>1. SUFFICES ASSUME F # {} PROVE FALSE
  BY SumIsPart
<1>2. \E s \in F : \A t \in F : t \subseteq s => t = s
  <2> F \in SUBSET SUBSET S
    OBVIOUS
  <2> HIDE DEF F
  <2> QED BY <1>1, LeastSet
<1>3. PICK s \in F : \A t \in F : t \subseteq s => t = s
  BY <1>2
<1>4. IsFiniteSet(s) /\ s \subseteq S /\ IsFiniteSet(s \ {Pick(s)})
  BY FS_Subset
<1>5. s # {}
  <2>1. Part(f, {}) = 0 /\ Part(g, {}) = 0
    BY PartUnfolds, FS_EmptySet
  <2>2. Part(f, {}) <= Part(g, {})
    BY <2>1
  <2>3. ~(Part(f, s) <= Part(g, s))
    BY <1>3
  <2> QED BY <2>2, <2>3
<1>6. /\ Part(f, s) = f[Pick(s)] + Part(f, s \ {Pick(s)})
      /\ Part(g, s) = g[Pick(s)] + Part(g, s \ {Pick(s)})
  BY <1>4, <1>5, PartUnfolds
<1>7. Pick(s) \in s /\ Part(f, s \ {Pick(s)}) <= Part(g, s \ {Pick(s)})
  BY <1>3, <1>5, PickInside
<1>8. Part(f, s \ {Pick(s)}) \in Nat /\ Part(g, s \ {Pick(s)}) \in Nat
  BY <1>4, SumIsNat, SumIsPart
<1> QED BY <1>3, <1>4, <1>6, <1>7, <1>8

\* Counts of disjoint sets add up to the count of their union.
LEMMA CountsAddUp ==
    ASSUME NEW K, IsFiniteSet(K), NEW F, NEW f,
           \A k \in K : IsFiniteSet(F[k]) /\ f[k] = Cardinality(F[k]),
           \A k, l \in K : k # l => F[k] \cap F[l] = {}
    PROVE  SumFunctionOnSet(f, K) = Cardinality(UNION {F[k] : k \in K})
<1> DEFINE U(s) == UNION {F[k] : k \in s}
           Adds(s) == IsFiniteSet(U(s)) /\ Part(f, s) = Cardinality(U(s))
           B == {s \in SUBSET K : ~Adds(s)}
<1>1. SUFFICES ASSUME B # {} PROVE FALSE
  BY SumIsPart
<1>2. \E s \in B : \A t \in B : t \subseteq s => t = s
  <2> B \in SUBSET SUBSET K
    OBVIOUS
  <2> HIDE DEF B
  <2> QED BY <1>1, LeastSet
<1>3. PICK s \in B : \A t \in B : t \subseteq s => t = s
  BY <1>2
<1>4. IsFiniteSet(s) /\ s \subseteq K
  BY FS_Subset
<1>5. s # {}
  <2>1. U({}) = {}
    OBVIOUS
  <2>2. Part(f, {}) = 0
    BY PartUnfolds, FS_EmptySet
  <2> QED BY <1>3, <2>1, <2>2, FS_EmptySet
<1> DEFINE x == Pick(s)
           r == s \ {x}
<1>6. x \in s /\ Adds(r)
  <2>1. x \in s
    BY <1>5, PickInside
  <2>2. r \in SUBSET K /\ r \subseteq s /\ r # s
    BY <1>4, <2>1
  <2>3. r \notin B
    BY <1>3, <2>2
  <2> QED BY <2>1, <2>2, <2>3
<1>7. U(s) = U(r) \cup F[x] /\ U(r) \cap F[x] = {}
  BY <1>4, <1>6
<1>8. IsFiniteSet(F[x]) /\ f[x] = Cardinality(F[x])
  BY <1>4, <1>6
<1>9. Part(f, s) = f[x] + Part(f, r)
  BY <1>4, <1>5, PartUnfolds
<1>10. IsFiniteSet(U(s)) /\ Cardinality(U(s)) = Cardinality(U(r)) + Cardinality(F[x])
  <2>1. Cardinality({}) = 0 /\ Cardinality(U(r)) \in Nat /\ Cardinality(F[x]) \in Nat
    BY <1>6, <1>8, FS_EmptySet, FS_CardinalityType
  <2>2. PICK A, C : A = U(r) /\ C = F[x]
    OBVIOUS
  <2>3. /\ IsFiniteSet(A \cup C)
        /\ Cardinality(A \cup C) = Cardinality(A) + Cardinality(C) - Cardinality(A \cap C)
    BY <1>6, <1>8, <2>2, FS_Union
  <2>4. A \cup C = U(s) /\ A \cap C = {}
    BY <1>7, <2>2
  <2>5. Cardinality(A) \in Nat /\ Cardinality(C) \in Nat
    BY <2>1, <2>2
  <2>6. IsFiniteSet(A \cup C) /\ Cardinality(A \cup C) = Cardinality(A) + Cardinality(C)
    <3>1. Cardinality(A \cap C) = 0
      BY <2>1, <2>4
    <3> HIDE DEF U, Adds
    <3> QED BY <2>3, <2>5, <3>1
  <2> HIDE DEF U
  <2> QED BY <2>2, <2>4, <2>6
<1>11. Cardinality(U(r)) \in Nat /\ Cardinality(F[x]) \in Nat
  BY <1>6, <1>8, FS_CardinalityType
<1> QED BY <1>3, <1>6, <1>8, <1>9, <1>10, <1>11

----------------------------------------------------------------------------
(* The tables, whoever calls.                                              *)

\* Where a call holds an ACT of the engine, where it has read the kill switch
\* and the suppression list.
Guarded == {"config", "suppression", "attempts", "contacts", "spent", "evals"}
SwitchRead == {"suppression", "attempts", "contacts", "spent", "evals", "spend"}
ListRead == {"attempts", "contacts", "spent", "evals", "spend"}

\* The walk of a call at ts ended at the i-th rung of p's ladder.
Justified(p, i, ts) ==
    /\ IsEvaluated(p, Ranking[p][i], ts, TRUE)
    /\ \A j \in 1..i - 1 : IsEvaluated(p, Ranking[p][j], ts, FALSE)

\* A row of the ledger was justified by its call's evaluations, and is no later
\* than the clock, an opt-out it would offend, or the kill switch.
RowOk(p, r) ==
    /\ r.ts <= clock
    /\ \E i \in DOMAIN Ranking[p] : Ranking[p][i] = r.rung /\ Justified(p, i, r.ts)
    /\ r.rung \in ContactRungs /\ optedOut[CustomerOf[p]] # Never => r.ts <= optedOut[CustomerOf[p]]
    /\ killed # Never => r.ts <= killed
    /\ r.rung \in QuietRungs => ~InQuietHours(r.ts)

\* A call's i-th evaluation is on record.
Tried(c, i) ==
    [payment |-> pay[c], rung |-> Ranked(c)[i], ts |-> now[c],
     blocked_by |-> BlockedBy(Ranked(c)[i], state[c], now[c])] \in evals

\* How far a call's walk has come.
WalkOk(c) ==
    /\ pc[c] \in Guarded => Ranked(c) # << >>
    /\ pc[c] \notin {"evals", "spend", "record"} => step[c] = 0
    /\ pc[c] = "evals" => /\ step[c] < WalkLength(Ranked(c), state[c], now[c])
                          /\ \A i \in 1..step[c] : Tried(c, i)
    /\ pc[c] = "spend" => \E i \in DOMAIN Ranked(c) :
                              /\ verdict[c] = Act(Ranked(c)[i])
                              /\ ~IsBlocked(Ranked(c)[i], state[c], now[c])
                              /\ Justified(pay[c], i, now[c])
    /\ pc[c] = "record" /\ verdict[c].terminal = "ACT" =>
         \E j \in DOMAIN spend[pay[c]] : /\ spend[pay[c]][j].rung = verdict[c].action
                                         /\ spend[pay[c]][j].ts = now[c]

\* What a call read of the operator's word: what it did not find was said no
\* earlier than the call began.
ReadsOk(c) ==
    /\ now[c] <= clock
    /\ pc[c] \in SwitchRead /\ ~state[c].kill_switch => killed = Never \/ now[c] <= killed
    /\ pc[c] \in ListRead /\ ~state[c].opted_out =>
         optedOut[Customer(c)] = Never \/ now[c] <= optedOut[Customer(c)]

RowsInv == \A p \in Payments : \A i \in DOMAIN spend[p] : RowOk(p, spend[p][i])
CallersInv == \A c \in Callers : WalkOk(c) /\ ReadsOk(c)

\* Sums and counts are over finite sets.
TypeInv == TypeOK /\ IsFiniteSet(Rows(Payments))

PipelineInv == TypeInv /\ CallersInv /\ RowsInv /\ ActsAreCommitted

----------------------------------------------------------------------------
(* The guardrails.                                                         *)

\* The walk ends within the ladder, at its first open rung if it has one and
\* otherwise at its foot, and everything above is blocked.
LEMMA WalkEnds ==
    ASSUME NEW ranked \in Seq(Actions), ranked # << >>, NEW st, NEW t
    PROVE  /\ WalkLength(ranked, st, t) \in DOMAIN ranked
           /\ \A j \in 1..WalkLength(ranked, st, t) - 1 : IsBlocked(ranked[j], st, t)
           /\ IsBlocked(ranked[WalkLength(ranked, st, t)], st, t) <=> WalkBlocked(ranked, st, t)
<1> DEFINE O == Open(ranked, st, t)
<1>1. O \subseteq DOMAIN ranked /\ DOMAIN ranked = 1..Len(ranked) /\ Len(ranked) \in Nat /\ Len(ranked) # 0
  BY DEF Open
<1>2. CASE O = {}
  <2>1. WalkLength(ranked, st, t) = Len(ranked) /\ WalkBlocked(ranked, st, t)
    BY <1>2 DEF WalkLength, WalkBlocked
  <2> QED BY <1>1, <1>2, <2>1 DEF Open
<1>3. CASE O # {}
  <2> DEFINE n == CHOOSE i \in O : \A j \in O : i <= j
  <2>1. \E i \in O : \A j \in O : i <= j
    <3> O \subseteq Nat
      BY <1>1
    <3> HIDE DEF O
    <3> QED BY <1>3, LeastNumber
  <2>2. n \in O /\ \A j \in O : n <= j
    <3> HIDE DEF O
    <3> QED BY <2>1
  <2>3. WalkLength(ranked, st, t) = n /\ ~WalkBlocked(ranked, st, t)
    BY <1>3 DEF WalkLength, WalkBlocked
  <2>4. ASSUME NEW j \in 1..n - 1 PROVE IsBlocked(ranked[j], st, t)
    <3>1. j \in DOMAIN ranked /\ j \notin O
      BY <1>1, <2>2
    <3> QED BY <3>1 DEF Open
  <2>5. ~IsBlocked(ranked[n], st, t)
    BY <2>2 DEF Open
  <2> HIDE DEF n
  <2> QED BY <1>1, <2>2, <2>3, <2>4, <2>5
<1> QED BY <1>2, <1>3

\* A blocked rung's reason is the name of one of its blockers.
LEMMA PrimaryBlocks ==
    ASSUME NEW S \in SUBSET GuardrailNames, S # {}
    PROVE  Primary(S) \in S
<1> DEFINE I == {i \in DOMAIN GUARDRAIL_ORDER : GUARDRAIL_ORDER[i] \in S}
<1>1. DOMAIN GUARDRAIL_ORDER = 1..7
  BY DEF GUARDRAIL_ORDER
<1>2. I \subseteq Nat /\ I # {}
  BY <1>1 DEF GuardrailNames
<1>3. PICK i \in I : \A j \in I : i <= j
  <2> HIDE DEF I
  <2> QED BY <1>2, LeastNumber
<1>4. \E k \in DOMAIN GUARDRAIL_ORDER : /\ GUARDRAIL_ORDER[k] \in S
                                        /\ \A j \in 1..k - 1 : GUARDRAIL_ORDER[j] \notin S
  <2>1. \A j \in 1..i - 1 : j \in DOMAIN GUARDRAIL_ORDER /\ ~(i <= j)
    BY <1>1
  <2> QED BY <1>3, <2>1
<1> QED BY <1>4 DEF Primary

\* What an open rung says of the state and the time it was tried in.
LEMMA OpenRung ==
    ASSUME NEW rung, NEW st, NEW t, ~IsBlocked(rung, st, t)
    PROVE  /\ ~st.kill_switch
           /\ rung \in ContactRungs => ~st.opted_out
           /\ ~(st.payment_action_count >= attempt_cap_max)
           /\ rung \in ContactRungs => ~(st.contact_actions_in_window >= contact_limit_max)
           /\ rung \in QuietRungs => ~InQuietHours(t)
           /\ ~(st.spent_today_inr + Cost[rung] > spend_cap_inr)
<1>1. \A g \in {"kill_switch", "opt_out", "attempt_cap", "contact_limit", "quiet_hours", "spend_cap"} :
        g \in GuardrailNames
  <2>1. \A i \in 1..7 : GUARDRAIL_ORDER[i] \in GuardrailNames
    BY DEF GuardrailNames, GUARDRAIL_ORDER
  <2> QED BY <2>1 DEF GUARDRAIL_ORDER
<1>2. \A g \in GuardrailNames : ~Blocks(g, rung, st, t)
  BY DEF IsBlocked, BlockedBy
<1>3. ~Blocks("kill_switch", rung, st, t) /\ ~Blocks("opt_out", rung, st, t)
      /\ ~Blocks("attempt_cap", rung, st, t) /\ ~Blocks("contact_limit", rung, st, t)
      /\ ~Blocks("quiet_hours", rung, st, t) /\ ~Blocks("spend_cap", rung, st, t)
  BY <1>1, <1>2
<1> QED BY <1>3 DEF Blocks

----------------------------------------------------------------------------
(* The ledger.                                                             *)

\* A position of the ledger is a payment and the number of one of its rows.
LEMMA RowsAre ==
    ASSUME NEW P
    PROVE  /\ \A p \in P : \A i \in DOMAIN spend[p] : <<p, i>> \in Rows(P)
           /\ \A x \in Rows(P) : /\ x[1] \in P /\ x[2] \in DOMAIN spend[x[1]]
                                 /\ x = <<x[1], x[2]>>
BY DEF Rows

\* A commitment appends one row to the ledger of the call's payment.
LEMMA CommitAppends ==
    ASSUME TypeOK, NEW c \in Callers, RecordSpend(c), verdict[c].action \in Actions
    PROVE  LET p == pay[c]
               new == spend'[p][Len(spend[p]) + 1]
           IN  /\ p \in Payments
               /\ spend' \in [Payments -> Seq(SpendRow)]
               /\ \A q \in Payments : q # p => spend'[q] = spend[q]
               /\ DOMAIN spend[p] = 1..Len(spend[p]) /\ Len(spend[p]) \in Nat
               /\ DOMAIN spend'[p] = 1..Len(spend[p]) + 1
               /\ \A i \in DOMAIN spend[p] : spend'[p][i] = spend[p][i]
               /\ new.rung = verdict[c].action /\ new.ts = now[c]
               /\ new.amount \in {0, Cost[verdict[c].action]}
               /\ spend'[p] = Append(spend[p], new)
<1> DEFINE p == pay[c]
           real == real_spend /\ ~dry_run
           row == [rung |-> verdict[c].action, ts |-> now[c],
                   amount |-> IF real THEN Cost[verdict[c].action] ELSE 0,
                   status |-> IF real THEN "debit" ELSE "dry_run"]
<1>1. p \in Payments /\ spend[p] \in Seq(SpendRow) /\ now[c] \in Times
  BY DEF TypeOK
<1>2. row \in SpendRow
  BY <1>1, RungAssumption DEF SpendRow
<1>3. spend' = [spend EXCEPT ![p] = Append(@, row)]
  BY DEF RecordSpend
<1>4. row.rung = verdict[c].action /\ row.ts = now[c] /\ row.amount \in {0, Cost[verdict[c].action]}
  OBVIOUS
<1> HIDE DEF row
<1>5. spend' \in [Payments -> Seq(SpendRow)] /\ spend'[p] = Append(spend[p], row)
      /\ \A q \in Payments : q # p => spend'[q] = spend[q]
  BY <1>1, <1>2, <1>3 DEF TypeOK
<1>6. /\ Len(spend'[p]) = Len(spend[p]) + 1 /\ spend'[p][Len(spend[p]) + 1] = row
      /\ \A i \in DOMAIN spend[p] : spend'[p][i] = spend[p][i]
      /\ DOMAIN spend[p] = 1..Len(spend[p]) /\ Len(spend[p]) \in Nat
      /\ DOMAIN spend'[p] = 1..Len(spend[p]) + 1
  BY <1>1, <1>2, <1>5
<1> QED BY <1>1, <1>4, <1>5, <1>6

\* ... which is the one position the ledger gains; the others keep their rows.
LEMMA CommitAddsRow ==
    ASSUME TypeOK, NEW c \in Callers, RecordSpend(c), verdict[c].action \in Actions
    PROVE  \E y : /\ y[1] = pay[c] /\ y \notin Rows(Payments)
                  /\ Rows(Payments)' = Rows(Payments) \cup {y}
                  /\ \A x \in Rows(Payments) : Row(x)' = Row(x)
                  /\ Row(y)' = spend'[pay[c]][Len(spend[pay[c]]) + 1]
<1> DEFINE p == pay[c]
<1>0. PICK y : y = <<p, Len(spend[p]) + 1>>
  OBVIOUS
<1>1. /\ p \in Payments /\ Len(spend[p]) \in Nat
      /\ \A q \in Payments : q # p => spend'[q] = spend[q]
      /\ DOMAIN spend[p] = 1..Len(spend[p])
      /\ DOMAIN spend'[p] = 1..Len(spend[p]) + 1
      /\ \A i \in DOMAIN spend[p] : spend'[p][i] = spend[p][i]
  BY CommitAppends
<1>2. y[1] = p /\ y \notin Rows(Payments)
  BY <1>0, <1>1, RowsAre
<1>3. ASSUME NEW x PROVE x \in Rows(Payments)' <=> x \in Rows(Payments) \cup {y}
  <2>1. x \in Rows(Payments)' <=> \E q \in Payments : \E i \in DOMAIN spend'[q] : x = <<q, i>>
    BY DEF Rows
  <2>2. x \in Rows(Payments) <=> \E q \in Payments : \E i \in DOMAIN spend[q] : x = <<q, i>>
    BY DEF Rows
  <2>3. \A i : i \in DOMAIN spend'[p] <=> i \in DOMAIN spend[p] \/ i = Len(spend[p]) + 1
    BY <1>1
  <2> QED BY <1>0, <1>1, <2>1, <2>2, <2>3
<1>4. ASSUME NEW x \in Rows(Payments) PROVE Row(x)' = Row(x)
  <2>1. x[1] \in Payments /\ x[2] \in DOMAIN spend[x[1]]
    BY RowsAre
  <2> QED BY <1>1, <2>1 DEF Row
<1>5. Row(y)' = spend'[p][Len(spend[p]) + 1]
  BY <1>0 DEF Row
<1> QED BY <1>2, <1>3, <1>4, <1>5

\* Only a commitment writes the ledger.
LEMMA LedgerSteps ==
    ASSUME [Next]_vars
    PROVE  spend' = spend \/ \E c \in Callers : RecordSpend(c)
BY DEF Next, vars, tables, Process, Begin, LoadRow, FindPrior, Decide, ReadConfig, ReadSuppression,
   CountPaymentActions, CountContacts, SumSpend, RecordEvaluation, RecordDecision, Crash,
   IngestFailure, OptOut, EngageKillSwitch, Tick

----------------------------------------------------------------------------
(* Types.                                                                  *)

\* The contacts of a customer and the debits of a day are finitely many, so
\* that the count and the sum of them are numbers.
LEMMA CountsAreNumbers ==
    ASSUME TypeInv, NEW u, NEW t
    PROVE  /\ IsFiniteSet(ContactsSince(u, t))
           /\ Cardinality(ContactsSince(u, t)) \in Nat
           /\ spent_today_inr(t) \in Nat
<1>1. ContactsSince(u, t) \subseteq Rows(Payments)
  BY DEF ContactsSince, Rows, PaymentsOf
<1>2. IsFiniteSet(ContactsSince(u, t)) /\ Cardinality(ContactsSince(u, t)) \in Nat
  BY <1>1, FS_Subset, FS_CardinalityType DEF TypeInv
<1> DEFINE D == {x \in Rows(Payments) : /\ Row(x).status = "debit"
                                        /\ ist_day(Row(x).ts) = ist_day(t)}
           f == [x \in Rows(Payments) |-> Row(x).amount]
<1>3. IsFiniteSet(D)
  BY FS_Subset DEF TypeInv
<1>4. \A x \in D : f[x] \in Nat
  <2> SUFFICES ASSUME NEW x \in Rows(Payments) PROVE Row(x).amount \in Nat
    OBVIOUS
  <2>1. x[1] \in Payments /\ x[2] \in DOMAIN spend[x[1]]
    BY RowsAre
  <2>2. spend[x[1]] \in Seq(SpendRow)
    BY <2>1 DEF TypeInv, TypeOK
  <2>3. spend[x[1]][x[2]] \in SpendRow
    BY <2>1, <2>2
  <2> QED BY <2>3 DEF Row, SpendRow
<1>5. SumFunctionOnSet(f, D) \in Nat
  <2> HIDE DEF f, D
  <2> QED BY <1>3, <1>4, SumIsNat
<1> QED BY <1>2, <1>5 DEF spent_today_inr

\* A caller takes a step of its own, or keeps what it holds.
Stays(c) ==
    /\ pc'[c] = pc[c] /\ pay'[c] = pay[c] /\ now'[c] = now[c]
    /\ state'[c] = state[c] /\ step'[c] = step[c] /\ verdict'[c] = verdict[c]

\* A step is one caller's, or the world's.
LEMMA CallerSteps ==
    ASSUME TypeOK, [Next]_vars, NEW c \in Callers
    PROVE  (\E p \in Payments : Begin(c, p)) \/ Process(c) \/ Crash(c) \/ Stays(c)
<1>1. CASE UNCHANGED <<pc, pay, now, state, step, verdict>>
  BY <1>1 DEF Stays
<1>2. CASE \E d \in Callers : (\E p \in Payments : Begin(d, p)) \/ Process(d) \/ Crash(d)
  <2>1. PICK d \in Callers : (\E p \in Payments : Begin(d, p)) \/ Process(d) \/ Crash(d)
    BY <1>2
  <2>2. ASSUME d # c PROVE Stays(c)
    BY <2>1, <2>2 DEF TypeOK, Stays, Process, Begin, LoadRow, FindPrior, Decide, ReadConfig,
       ReadSuppression, CountPaymentActions, CountContacts, SumSpend, RecordEvaluation,
       RecordSpend, RecordDecision, Crash, Goto, End
  <2> QED BY <2>1, <2>2
<1> QED BY <1>1, <1>2 DEF Next, vars, IngestFailure, OptOut, EngageKillSwitch, Tick

\* What a call commits to is a rung of the ladder, open and justified.
LEMMA CommitmentIs ==
    ASSUME TypeOK, NEW c \in Callers, WalkOk(c), RecordSpend(c)
    PROVE  /\ pc[c] = "spend" /\ pay[c] \in Payments
           /\ verdict[c].action \in Actions /\ verdict[c] = Act(verdict[c].action)
           /\ ~IsBlocked(verdict[c].action, state[c], now[c])
           /\ \E i \in DOMAIN Ranking[pay[c]] : /\ Ranking[pay[c]][i] = verdict[c].action
                                               /\ Justified(pay[c], i, now[c])
<1>1. pc[c] = "spend" /\ pay[c] \in Payments
  BY DEF RecordSpend, Goto, TypeOK
<1>2. PICK i \in DOMAIN Ranking[pay[c]] :
         /\ verdict[c] = Act(Ranking[pay[c]][i])
         /\ ~IsBlocked(Ranking[pay[c]][i], state[c], now[c])
         /\ Justified(pay[c], i, now[c])
  BY <1>1 DEF WalkOk, Ranked
<1>3. Ranking[pay[c]][i] \in Actions
  BY <1>1, PaymentAssumption
<1>4. verdict[c].action = Ranking[pay[c]][i]
  BY <1>2 DEF Act, Verdict
<1> QED BY <1>1, <1>2, <1>3, <1>4

\* The world moves on, and no table loses what it had.
LEMMA TablesGrow ==
    ASSUME TypeInv, CallersInv, [Next]_vars
    PROVE  /\ evals \subseteq evals'
           /\ clock <= clock'
           /\ killed' = killed \/ killed' = clock
           /\ \A u \in Customers : optedOut'[u] = optedOut[u] \/ optedOut'[u] = clock
           /\ \A p \in Payments : \A i \in DOMAIN spend[p] :
                i \in DOMAIN spend'[p] /\ spend'[p][i] = spend[p][i]
<1>a. evals \subseteq evals'
  <2>1. evals' = evals \/ \E c \in Callers : RecordEvaluation(c)
    BY DEF Next, vars, tables, world, Process, Begin, LoadRow, FindPrior, Decide, ReadConfig,
       ReadSuppression, CountPaymentActions, CountContacts, SumSpend, RecordSpend, RecordDecision,
       Crash, IngestFailure, OptOut, EngageKillSwitch, Tick
  <2>2. ASSUME NEW c \in Callers, RecordEvaluation(c) PROVE evals \subseteq evals'
    BY <2>2 DEF RecordEvaluation
  <2> QED BY <2>1, <2>2
<1>b. (clock' = clock \/ clock' = clock + 1) /\ (killed' = killed \/ killed' = clock)
  BY DEF RecordEvaluation, Next, vars, tables, world, Process, Begin, LoadRow, FindPrior, Decide, ReadConfig,
     ReadSuppression, CountPaymentActions, CountContacts, SumSpend, RecordSpend, RecordDecision,
     Crash, IngestFailure, OptOut, EngageKillSwitch, Tick
<1>d. ASSUME NEW u \in Customers PROVE optedOut'[u] = optedOut[u] \/ optedOut'[u] = clock
  <2>1. optedOut' = optedOut \/ \E v \in Customers : optedOut' = [optedOut EXCEPT ![v] = clock]
    BY DEF RecordEvaluation, Next, vars, tables, world, Process, Begin, LoadRow, FindPrior, Decide, ReadConfig,
       ReadSuppression, CountPaymentActions, CountContacts, SumSpend, RecordSpend, RecordDecision,
       Crash, IngestFailure, OptOut, EngageKillSwitch, Tick
  <2> QED BY <2>1 DEF TypeInv, TypeOK
<1>c. clock <= clock'
  BY <1>b DEF TypeInv, TypeOK, Times
<1>2. ASSUME NEW c \in Callers, RecordSpend(c)
      PROVE  \A p \in Payments : \A i \in DOMAIN spend[p] :
                i \in DOMAIN spend'[p] /\ spend'[p][i] = spend[p][i]
  <2>1. verdict[c].action \in Actions
    BY <1>2, CommitmentIs DEF CallersInv, TypeInv
  <2> QED BY <1>2, <2>1, CommitAppends DEF TypeInv
<1> QED BY <1>a, <1>b, <1>c, <1>d, <1>2, LedgerSteps

\* An evaluation is of a rung of the ladder, with the blockers it has then.
LEMMA EvaluationIs ==
    ASSUME TypeInv, NEW c \in Callers, WalkOk(c), RecordEvaluation(c)
    PROVE  LET i == step[c] + 1
               n == WalkLength(Ranked(c), state[c], now[c])
           IN  /\ Ranked(c) \in Seq(Actions) /\ Ranked(c) # << >>
               /\ i \in DOMAIN Ranked(c) /\ i <= n /\ n \in DOMAIN Ranked(c)
               /\ step[c] \in Nat
               /\ \A j \in 1..n - 1 : IsBlocked(Ranked(c)[j], state[c], now[c])
               /\ IsBlocked(Ranked(c)[n], state[c], now[c]) <=> WalkBlocked(Ranked(c), state[c], now[c])
<1>1. pc[c] = "evals" /\ step[c] \in Nat /\ pay[c] \in Payments
  BY DEF RecordEvaluation, Goto, TypeInv, TypeOK
<1>2. Ranked(c) \in Seq(Actions) /\ Ranked(c) # << >>
  BY <1>1, PaymentAssumption DEF Ranked, WalkOk, Guarded
<1>3. step[c] < WalkLength(Ranked(c), state[c], now[c])
  BY <1>1 DEF WalkOk
<1>4. DOMAIN Ranked(c) = 1..Len(Ranked(c)) /\ Len(Ranked(c)) \in Nat
  BY <1>2
<1> QED BY <1>1, <1>2, <1>3, <1>4, WalkEnds

\* What a call leaves with is a verdict.
LEMMA VerdictTypes ==
    /\ Undecided \in Verdicts /\ Skip("COOLDOWN") \in Verdicts
    /\ \A rung \in Actions : Act(rung) \in Verdicts
    /\ \A g \in GuardrailNames : Blocked(g) \in Verdicts
BY DEF Undecided, Skip, Act, Blocked, Verdict, Verdicts, SkipReasons

\* The types hold initially.
LEMMA InitTypes == ASSUME Init PROVE TypeInv
<1>1. TypeOK
  <2>1. NoPay \in Payments
    BY PaymentAssumption DEF NoPay
  <2>2. FreshState \in State
    BY DEF FreshState, State
  <2> QED BY <2>1, <2>2, VerdictTypes, BoundAssumption DEF Init, TypeOK, Times, Steps
<1>2. Rows(Payments) = {}
  BY DEF Init, Rows
<1> QED BY <1>1, <1>2, FS_EmptySet DEF TypeInv

\* What the callers hold.
CallerTypes ==
    /\ pc \in [Callers -> Steps] /\ pay \in [Callers -> Payments]
    /\ now \in [Callers -> Times] /\ state \in [Callers -> State]
    /\ step \in [Callers -> Nat] /\ verdict \in [Callers -> Verdicts]

\* A call that ends leaves its caller as it was before.
LEMMA EndTypes == ASSUME TypeOK, NEW c \in Callers, End(c) PROVE CallerTypes'
<1>1. NoPay \in Payments /\ 0 \in Times
  BY PaymentAssumption, BoundAssumption DEF NoPay, Times
<1>2. FreshState \in State
  BY DEF FreshState, State
<1> QED BY <1>1, <1>2, VerdictTypes DEF End, TypeOK, Steps, CallerTypes

\* Every step keeps the types of the tables and the world.
LEMMA TablesTyped ==
    ASSUME TypeInv, CallersInv, [Next]_vars
    PROVE  /\ ingested' \subseteq Payments
           /\ decisions' \in [Payments -> Seq(DecisionRow)]
           /\ evals' \subseteq EvalRow
           /\ spend' \in [Payments -> Seq(SpendRow)]
           /\ IsFiniteSet(Rows(Payments)')
<1>1. ingested' \subseteq Payments
  <2>1. ingested' = ingested \/ \E p \in Payments : IngestFailure(p)
    BY DEF Next, vars, tables, Process, Begin, LoadRow, FindPrior, Decide, ReadConfig,
       ReadSuppression, CountPaymentActions, CountContacts, SumSpend, RecordEvaluation,
       RecordSpend, RecordDecision, Crash, OptOut, EngageKillSwitch, Tick
  <2> QED BY <2>1 DEF IngestFailure, TypeInv, TypeOK
<1>2. decisions' \in [Payments -> Seq(DecisionRow)]
  <2>1. decisions' = decisions \/ \E c \in Callers : RecordDecision(c)
    BY DEF Next, vars, tables, Process, Begin, LoadRow, FindPrior, Decide, ReadConfig,
       ReadSuppression, CountPaymentActions, CountContacts, SumSpend, RecordEvaluation,
       RecordSpend, Crash, IngestFailure, OptOut, EngageKillSwitch, Tick
  <2>2. ASSUME NEW c \in Callers, RecordDecision(c) PROVE decisions' \in [Payments -> Seq(DecisionRow)]
    <3>1. pay[c] \in Payments /\ verdict[c] \in Verdicts /\ now[c] \in Times
      BY DEF TypeInv, TypeOK
    <3>2. [verdict |-> verdict[c], created_at |-> now[c]] \in DecisionRow
      BY <3>1 DEF DecisionRow
    <3>3. decisions[pay[c]] \in Seq(DecisionRow)
      BY <3>1 DEF TypeInv, TypeOK
    <3>4. Append(decisions[pay[c]], [verdict |-> verdict[c], created_at |-> now[c]]) \in Seq(DecisionRow)
      BY <3>2, <3>3
    <3> QED BY <2>2, <3>1, <3>4 DEF RecordDecision, TypeInv, TypeOK
  <2> QED BY <2>1, <2>2 DEF TypeInv, TypeOK
<1>3. evals' \subseteq EvalRow
  <2>1. evals' = evals \/ \E c \in Callers : RecordEvaluation(c)
    BY DEF Next, vars, tables, Process, Begin, LoadRow, FindPrior, Decide, ReadConfig,
       ReadSuppression, CountPaymentActions, CountContacts, SumSpend,
       RecordSpend, RecordDecision, Crash, IngestFailure, OptOut, EngageKillSwitch, Tick
  <2>2. ASSUME NEW c \in Callers, RecordEvaluation(c) PROVE evals' \subseteq EvalRow
    <3> DEFINE i == step[c] + 1
               b == BlockedBy(Ranked(c)[i], state[c], now[c])
    <3>1. Ranked(c) \in Seq(Actions) /\ i \in DOMAIN Ranked(c) /\ pay[c] \in Payments /\ now[c] \in Times
      BY <2>2, EvaluationIs DEF CallersInv, TypeInv, TypeOK
    <3>2. Ranked(c)[i] \in Actions
      BY <3>1
    <3>3. b \in SUBSET GuardrailNames
      BY DEF BlockedBy
    <3>4. evals' = evals \cup {[payment |-> pay[c], rung |-> Ranked(c)[i], ts |-> now[c], blocked_by |-> b]}
      BY <2>2 DEF RecordEvaluation
    <3> HIDE DEF i, b
    <3> QED BY <3>1, <3>2, <3>3, <3>4 DEF EvalRow, TypeInv, TypeOK
  <2> QED BY <2>1, <2>2 DEF TypeInv, TypeOK
<1>4. CASE spend' = spend
  <2>1. Rows(Payments)' = Rows(Payments)
    BY <1>4 DEF Rows
  <2> QED BY <1>1, <1>2, <1>3, <1>4, <2>1 DEF TypeInv, TypeOK
<1>5. ASSUME NEW c \in Callers, RecordSpend(c)
      PROVE  spend' \in [Payments -> Seq(SpendRow)] /\ IsFiniteSet(Rows(Payments)')
  <2>1. verdict[c].action \in Actions
    BY <1>5, CommitmentIs DEF CallersInv, TypeInv
  <2> QED BY <1>5, <2>1, CommitAppends, CommitAddsRow, FS_AddElement DEF TypeInv
<1> QED BY <1>1, <1>2, <1>3, <1>4, <1>5, LedgerSteps

\* Every step keeps the types of the world.
LEMMA WorldTyped ==
    ASSUME TypeOK, [Next]_vars
    PROVE  /\ optedOut' \in [Customers -> Times \cup {Never}] /\ killed' \in Times \cup {Never}
           /\ real_spend' \in BOOLEAN /\ one_process' \in BOOLEAN
           /\ clock' \in Times /\ crashes' \in 0..MaxCrashes
<1>1. CASE \E u \in Customers : OptOut(u)
  BY <1>1 DEF TypeOK, OptOut
<1>2. CASE EngageKillSwitch
  BY <1>2 DEF TypeOK, EngageKillSwitch
<1>3. CASE Tick
  BY <1>3, BoundAssumption DEF TypeOK, Tick, Times
<1>4. CASE \E c \in Callers : Crash(c)
  BY <1>4, BoundAssumption DEF TypeOK, Crash
<1>5. CASE UNCHANGED world
  BY <1>5 DEF TypeOK, world
<1> QED BY <1>1, <1>2, <1>3, <1>4, <1>5 DEF Next, vars, world, Process, Begin, LoadRow, FindPrior,
       Decide, ReadConfig, ReadSuppression, CountPaymentActions, CountContacts, SumSpend,
       RecordEvaluation, RecordSpend, RecordDecision, IngestFailure

\* Every step keeps the types of the callers.
LEMMA CallersTyped == ASSUME TypeInv, CallersInv, [Next]_vars PROVE CallerTypes'
<1> USE DEF CallerTypes, TypeInv
<1>1. CASE UNCHANGED <<pc, pay, now, state, step, verdict>>
  BY <1>1 DEF TypeOK
<1>2. ASSUME NEW c \in Callers, NEW p \in Payments, Begin(c, p) PROVE CallerTypes'
  BY <1>2 DEF TypeOK, Begin, Goto, Steps
<1>3. ASSUME NEW c \in Callers, End(c) PROVE CallerTypes'
  BY <1>3, EndTypes
<1>4. ASSUME NEW c \in Callers, LoadRow(c) \/ FindPrior(c) PROVE CallerTypes'
  BY <1>3, <1>4 DEF TypeOK, LoadRow, FindPrior, Goto, Steps
<1>5. ASSUME NEW c \in Callers, Decide(c) PROVE CallerTypes'
  <2> DEFINE d == IF InCooldown(c) /\ EngineAnswer[pay[c]].reason \notin EarlierGates
                  THEN Skip("COOLDOWN") ELSE EngineAnswer[pay[c]]
  <2>1. d \in Verdicts
    BY VerdictTypes, PaymentAssumption DEF TypeOK
  <2>2. verdict' = [verdict EXCEPT ![c] = d]
        /\ pc' = [pc EXCEPT ![c] = IF d.terminal = "ACT" THEN "config" ELSE "record"]
        /\ UNCHANGED <<pay, now, state, step>>
    BY <1>5 DEF Decide, Goto
  <2> HIDE DEF d
  <2> QED BY <2>1, <2>2 DEF TypeOK, Steps
<1>6. ASSUME NEW c \in Callers, ReadConfig(c) PROVE CallerTypes'
  BY <1>6 DEF TypeOK, ReadConfig, Goto, Steps, State
<1>13. ASSUME NEW c \in Callers, ReadSuppression(c) PROVE CallerTypes'
  BY <1>13 DEF TypeOK, ReadSuppression, Goto, Steps, State
<1>7. ASSUME NEW c \in Callers, CountPaymentActions(c) PROVE CallerTypes'
  <2>1. Len(spend[pay[c]]) \in Nat
    BY DEF TypeOK
  <2> QED BY <1>7, <2>1 DEF TypeOK, CountPaymentActions, Goto, Steps, State
<1>8. ASSUME NEW c \in Callers, CountContacts(c) PROVE CallerTypes'
  <2> DEFINE n == Cardinality(ContactsSince(Customer(c), now[c] - Day))
  <2>1. n \in Nat
    BY CountsAreNumbers
  <2>2. /\ state' = [state EXCEPT ![c].contact_actions_in_window = n]
        /\ pc' = [pc EXCEPT ![c] = "spent"] /\ UNCHANGED <<pay, now, step, verdict>>
    BY <1>8 DEF CountContacts, Goto
  <2> HIDE DEF n
  <2> QED BY <2>1, <2>2 DEF TypeOK, Steps, State
<1>12. ASSUME NEW c \in Callers, SumSpend(c) PROVE CallerTypes'
  BY <1>12, CountsAreNumbers DEF TypeOK, SumSpend, Goto, Steps, State
<1>9. ASSUME NEW c \in Callers, RecordEvaluation(c) PROVE CallerTypes'
  <2> DEFINE i == step[c] + 1
             last == i = WalkLength(Ranked(c), state[c], now[c])
             none == WalkBlocked(Ranked(c), state[c], now[c])
             v == IF ~last THEN verdict[c]
                  ELSE IF none THEN Blocked(Primary(BlockedBy(Ranked(c)[1], state[c], now[c])))
                  ELSE Act(Ranked(c)[i])
  <2>1. step[c] \in Nat /\ Ranked(c)[i] \in Actions
    BY <1>9, EvaluationIs DEF CallersInv
  <2>2. ASSUME last, none PROVE BlockedBy(Ranked(c)[1], state[c], now[c]) # {}
    <3>1. /\ 1 \in 1..i - 1 \/ 1 = i
          /\ \A j \in 1..i - 1 : IsBlocked(Ranked(c)[j], state[c], now[c])
          /\ IsBlocked(Ranked(c)[i], state[c], now[c])
      BY <1>9, <2>2, EvaluationIs DEF CallersInv
    <3> QED BY <3>1 DEF IsBlocked
  <2>3. ASSUME last, none PROVE Primary(BlockedBy(Ranked(c)[1], state[c], now[c])) \in GuardrailNames
    <3>1. BlockedBy(Ranked(c)[1], state[c], now[c]) \in SUBSET GuardrailNames
      BY DEF BlockedBy
    <3> QED BY <2>2, <2>3, <3>1, PrimaryBlocks
  <2>4. v \in Verdicts
    BY <2>1, <2>3, VerdictTypes DEF TypeOK
  <2>5. verdict' = [verdict EXCEPT ![c] = v] /\ step' = [step EXCEPT ![c] = i]
        /\ UNCHANGED <<pay, now, state>>
        /\ \E to \in {"evals", "record", "spend"} : pc' = [pc EXCEPT ![c] = to]
    BY <1>9 DEF RecordEvaluation, Goto
  <2> HIDE DEF v
  <2> QED BY <2>1, <2>4, <2>5 DEF TypeOK, Steps
<1>10. ASSUME NEW c \in Callers, RecordSpend(c) PROVE CallerTypes'
  BY <1>10 DEF TypeOK, RecordSpend, Goto, Steps
<1>11. ASSUME NEW c \in Callers, RecordDecision(c) \/ Crash(c) PROVE CallerTypes'
  BY <1>3, <1>11 DEF RecordDecision, Crash
<1> QED BY <1>1, <1>2, <1>4, <1>5, <1>6, <1>7, <1>8, <1>9, <1>10, <1>11, <1>12, <1>13
        DEF Next, vars, Process, IngestFailure, OptOut, EngageKillSwitch, Tick

\* Every step keeps the types.
LEMMA TypesKept == ASSUME TypeInv, CallersInv, [Next]_vars PROVE TypeInv'
BY TablesTyped, WorldTyped, CallersTyped DEF TypeInv, TypeOK, CallerTypes

----------------------------------------------------------------------------
(* The callers.                                                            *)

\* What an evaluation on record justifies stays justified.
LEMMA JustifiedStays ==
    ASSUME evals \subseteq evals', NEW p, NEW i, NEW ts, Justified(p, i, ts)
    PROVE  Justified(p, i, ts)'
BY DEF Justified, IsEvaluated

\* No step of another caller or of the world spoils what a call relies on.
LEMMA OthersKeep ==
    ASSUME TypeInv, CallersInv, [Next]_vars, NEW c \in Callers, Stays(c)
    PROVE  WalkOk(c)' /\ ReadsOk(c)'
<1>1. WalkOk(c) /\ ReadsOk(c) /\ pay[c] \in Payments /\ now[c] \in Nat /\ clock \in Nat /\ clock' \in Nat
  BY TypesKept DEF CallersInv, TypeInv, TypeOK, Times
<1>2. Ranked(c)' = Ranked(c) /\ Customer(c)' = Customer(c) /\ Customer(c) \in Customers
  BY <1>1, PaymentAssumption DEF Stays, Ranked, Customer
<1>3. ReadsOk(c)'
  BY <1>1, <1>2, TablesGrow DEF ReadsOk, Stays
<1>4. pc[c] = "evals" => /\ step[c] < WalkLength(Ranked(c), state[c], now[c])'
                         /\ \A i \in 1..step[c] : Tried(c, i)'
  <2>1. WalkLength(Ranked(c), state[c], now[c])' = WalkLength(Ranked(c), state[c], now[c])
    BY <1>2 DEF Stays
  <2>2. ASSUME NEW i, Tried(c, i) PROVE Tried(c, i)'
    BY <1>2, <2>2, TablesGrow DEF Tried, Stays
  <2> QED BY <1>1, <2>1, <2>2 DEF WalkOk
<1>5. ASSUME pc[c] = "spend"
      PROVE  \E i \in DOMAIN Ranked(c) : /\ verdict[c] = Act(Ranked(c)[i])
                                         /\ ~IsBlocked(Ranked(c)[i], state[c], now[c])
                                         /\ Justified(pay[c], i, now[c])'
  <2>1. PICK i \in DOMAIN Ranked(c) : /\ verdict[c] = Act(Ranked(c)[i])
                                      /\ ~IsBlocked(Ranked(c)[i], state[c], now[c])
                                      /\ Justified(pay[c], i, now[c])
    BY <1>1, <1>5 DEF WalkOk
  <2>2. PICK p, t : p = pay[c] /\ t = now[c] /\ p = pay'[c] /\ t = now'[c]
    BY DEF Stays
  <2>3. Justified(p, i, t)'
    BY <2>1, <2>2, TablesGrow, JustifiedStays
  <2> QED BY <2>1, <2>2, <2>3
<1>6. ASSUME pc[c] = "record", verdict[c].terminal = "ACT"
      PROVE  \E j \in DOMAIN spend'[pay[c]] : /\ spend'[pay[c]][j].rung = verdict[c].action
                                              /\ spend'[pay[c]][j].ts = now[c]
  BY <1>1, <1>6, TablesGrow DEF WalkOk
<1>7. WalkOk(c)'
  BY <1>1, <1>2, <1>4, <1>5, <1>6 DEF WalkOk, Stays
<1> QED BY <1>3, <1>7

\* The caller's own steps.
Good(c) == WalkOk(c) /\ ReadsOk(c)

\* A call that begins has read nothing, one that ends has nothing to answer for.
LEMMA CallEnds ==
    ASSUME TypeInv, CallersInv, [Next]_vars, NEW c \in Callers,
           End(c) \/ \E p \in Payments : Begin(c, p)
    PROVE  Good(c)'
<1>0. clock <= clock' /\ TypeInv'
  BY TypesKept, TablesGrow
<1>1. WalkOk(c) /\ ReadsOk(c) /\ clock \in Nat /\ clock' \in Nat /\ clock <= clock'
  BY <1>0 DEF CallersInv, TypeInv, TypeOK, Times
<1>2. CASE End(c)
  <2>1. pc'[c] = "idle" /\ now'[c] = 0 /\ step'[c] = 0
    BY <1>2 DEF End, TypeInv, TypeOK
  <2> QED BY <1>1, <2>1 DEF Good, WalkOk, ReadsOk, Guarded, SwitchRead, ListRead
<1>3. CASE \E p \in Payments : Begin(c, p)
  <2>1. pc[c] = "idle" /\ pc'[c] = "load" /\ now'[c] = clock /\ step'[c] = step[c]
    BY <1>3 DEF Begin, Goto, TypeInv, TypeOK
  <2> QED BY <1>1, <2>1 DEF Good, WalkOk, ReadsOk, Guarded, SwitchRead, ListRead
<1> QED BY <1>2, <1>3

\* Only an ACT of the engine, which ranks a rung for it, meets the guardrails.
LEMMA DecideKeeps ==
    ASSUME TypeInv, CallersInv, [Next]_vars, NEW c \in Callers, Decide(c)
    PROVE  Good(c)'
<1> DEFINE answer == EngineAnswer[pay[c]]
           d == IF InCooldown(c) /\ answer.reason \notin EarlierGates THEN Skip("COOLDOWN") ELSE answer
<1>1. WalkOk(c) /\ ReadsOk(c) /\ pay[c] \in Payments
  BY DEF CallersInv, TypeInv, TypeOK
<1>2. /\ pc[c] = "history" /\ pc'[c] = (IF d.terminal = "ACT" THEN "config" ELSE "record")
      /\ verdict'[c] = d /\ clock' = clock
      /\ pay'[c] = pay[c] /\ now'[c] = now[c] /\ step'[c] = step[c]
  <2>1. /\ pc[c] = "history" /\ pc' = [pc EXCEPT ![c] = IF d.terminal = "ACT" THEN "config" ELSE "record"]
        /\ verdict' = [verdict EXCEPT ![c] = d] /\ UNCHANGED <<clock, pay, now, step>>
    BY DEF Decide, Goto, world
  <2> HIDE DEF d
  <2> QED BY <2>1 DEF TypeInv, TypeOK
<1>3. d.terminal = "ACT" => Ranking[pay[c]] # << >>
  BY <1>1, PaymentAssumption DEF Skip, Verdict
<1> HIDE DEF d
<1> QED BY <1>1, <1>2, <1>3 DEF Good, WalkOk, ReadsOk, Guarded, SwitchRead, ListRead, Ranked

\* What a call asked for is what the operator had said by then, and the walk
\* begins at the top of a ladder.
LEMMA ReadsKeep ==
    ASSUME TypeInv, CallersInv, [Next]_vars, NEW c \in Callers,
           \/ ReadConfig(c) \/ ReadSuppression(c) \/ CountPaymentActions(c)
           \/ CountContacts(c) \/ SumSpend(c)
    PROVE  Good(c)'
<1>1. WalkOk(c) /\ ReadsOk(c) /\ pay[c] \in Payments /\ state[c] \in State
  BY DEF CallersInv, TypeInv, TypeOK
<1>2. /\ pay'[c] = pay[c] /\ now'[c] = now[c] /\ step'[c] = step[c]
      /\ clock' = clock /\ killed' = killed /\ optedOut' = optedOut
  BY DEF ReadConfig, ReadSuppression, CountPaymentActions, CountContacts, SumSpend, world
<1>3. CASE ReadConfig(c)
  <2>1. /\ pc[c] = "config" /\ pc'[c] = "suppression"
        /\ state'[c].kill_switch = (killed # Never)
    BY <1>1, <1>3 DEF ReadConfig, Goto, State, TypeInv, TypeOK
  <2> QED BY <1>1, <1>2, <2>1 DEF Good, WalkOk, ReadsOk, Guarded, SwitchRead, ListRead, Ranked, Customer
<1>4. CASE ReadSuppression(c)
  <2>1. /\ pc[c] = "suppression" /\ pc'[c] = "attempts"
        /\ state'[c].opted_out = (optedOut[Customer(c)] # Never)
        /\ state'[c].kill_switch = state[c].kill_switch
    BY <1>1, <1>4 DEF ReadSuppression, Goto, State, TypeInv, TypeOK
  <2> QED BY <1>1, <1>2, <2>1 DEF Good, WalkOk, ReadsOk, Guarded, SwitchRead, ListRead, Ranked, Customer
<1>5. CASE CountPaymentActions(c) \/ CountContacts(c)
  <2>1. /\ \/ pc[c] = "attempts" /\ pc'[c] = "contacts"
           \/ pc[c] = "contacts" /\ pc'[c] = "spent"
        /\ state'[c].opted_out = state[c].opted_out
        /\ state'[c].kill_switch = state[c].kill_switch
    BY <1>1, <1>5 DEF CountPaymentActions, CountContacts, Goto, State, TypeInv, TypeOK
  <2> QED BY <1>1, <1>2, <2>1 DEF Good, WalkOk, ReadsOk, Guarded, SwitchRead, ListRead, Ranked, Customer
<1>6. CASE SumSpend(c)
  <2>1. /\ pc[c] = "spent" /\ pc'[c] = "evals"
        /\ state'[c].opted_out = state[c].opted_out
        /\ state'[c].kill_switch = state[c].kill_switch
    BY <1>1, <1>6 DEF SumSpend, Goto, State, TypeInv, TypeOK
  <2>2. Ranked(c) \in Seq(Actions) /\ Ranked(c) # << >> /\ step[c] = 0 /\ Ranked(c)' = Ranked(c)
    BY <1>1, <1>2, <2>1, PaymentAssumption DEF WalkOk, Guarded, Ranked
  <2>3. 0 < WalkLength(Ranked(c), state'[c], now'[c])
    <3>1. WalkLength(Ranked(c), state'[c], now'[c]) \in DOMAIN Ranked(c)
      BY <2>2, WalkEnds
    <3> QED BY <2>2, <3>1
  <2> QED BY <1>1, <1>2, <2>1, <2>2, <2>3 DEF Good, WalkOk, ReadsOk, Guarded, SwitchRead, ListRead, Customer
<1> QED BY <1>3, <1>4, <1>5, <1>6

\* Each evaluation extends the walk; after the last one the outcome is the
\* open rung it ended at, with everything above evaluated and blocked.
LEMMA EvaluationKeeps ==
    ASSUME TypeInv, CallersInv, [Next]_vars, NEW c \in Callers, RecordEvaluation(c)
    PROVE  Good(c)'
<1> DEFINE i == step[c] + 1
           n == WalkLength(Ranked(c), state[c], now[c])
           none == WalkBlocked(Ranked(c), state[c], now[c])
           b == BlockedBy(Ranked(c)[i], state[c], now[c])
<1>1. WalkOk(c) /\ ReadsOk(c) /\ pc[c] = "evals"
  BY DEF CallersInv, RecordEvaluation, Goto
<1>2. /\ pay'[c] = pay[c] /\ now'[c] = now[c] /\ state'[c] = state[c] /\ step'[c] = i
      /\ clock' = clock /\ killed' = killed /\ optedOut' = optedOut
      /\ evals' = evals \cup {[payment |-> pay[c], rung |-> Ranked(c)[i], ts |-> now[c], blocked_by |-> b]}
  BY DEF RecordEvaluation, world, TypeInv, TypeOK
<1>3. /\ Ranked(c) \in Seq(Actions) /\ Ranked(c) # << >>
      /\ i \in DOMAIN Ranked(c) /\ i <= n /\ n \in DOMAIN Ranked(c) /\ step[c] \in Nat
      /\ \A j \in 1..n - 1 : IsBlocked(Ranked(c)[j], state[c], now[c])
      /\ IsBlocked(Ranked(c)[n], state[c], now[c]) <=> none
  BY <1>1, EvaluationIs
<1>4. Ranked(c)' = Ranked(c) /\ Customer(c)' = Customer(c)
  BY <1>2 DEF Ranked, Customer
<1>5. \A j \in 1..i : Tried(c, j)'
  <2>1. ASSUME NEW j \in 1..i PROVE [payment |-> pay[c], rung |-> Ranked(c)[j], ts |-> now[c],
                                     blocked_by |-> BlockedBy(Ranked(c)[j], state[c], now[c])] \in evals'
    <3>1. CASE j = i
      BY <1>2, <3>1
    <3>2. CASE j # i
      <4>1. j \in 1..step[c]
        BY <1>3, <3>2
      <4> QED BY <1>1, <1>2, <4>1 DEF WalkOk, Tried
    <3> QED BY <3>1, <3>2
  <2> QED BY <1>2, <1>4, <2>1 DEF Tried
<1>6. ReadsOk(c)'
  <2>1. pc'[c] \in SwitchRead => pc[c] \in SwitchRead
    BY <1>1 DEF SwitchRead
  <2>2. pc'[c] \in ListRead => pc[c] \in ListRead
    BY <1>1 DEF ListRead
  <2> QED BY <1>1, <1>2, <1>4, <2>1, <2>2 DEF ReadsOk
<1>7. CASE i # n
  <2>1. pc'[c] = "evals"
    BY <1>7 DEF RecordEvaluation, Goto, TypeInv, TypeOK
  <2>2. i < n
    BY <1>3, <1>7
  <2>3. WalkLength(Ranked(c), state[c], now[c])' = n
    BY <1>2, <1>4
  <2> QED BY <1>2, <1>3, <1>4, <1>5, <1>6, <2>1, <2>2, <2>3 DEF Good, WalkOk
<1>8. CASE i = n /\ none
  <2>1. pc'[c] = "record" /\ verdict'[c] = Blocked(Primary(BlockedBy(Ranked(c)[1], state[c], now[c])))
    BY <1>8 DEF RecordEvaluation, Goto, TypeInv, TypeOK
  <2>2. verdict'[c].terminal # "ACT"
    BY <2>1 DEF Blocked, Verdict
  <2> QED BY <1>6, <2>1, <2>2 DEF Good, WalkOk, Guarded
<1>9. CASE i = n /\ ~none
  <2>1. pc'[c] = "spend" /\ verdict'[c] = Act(Ranked(c)[i])
    BY <1>9 DEF RecordEvaluation, Goto, TypeInv, TypeOK
  <2>2. ~IsBlocked(Ranked(c)[i], state[c], now[c])
    BY <1>3, <1>9
  <2>3. PICK m : m = i
    OBVIOUS
  <2>4. ASSUME NEW j \in 1..i
        PROVE  \E e \in evals' : /\ e.payment = pay[c] /\ e.rung = Ranked(c)[j] /\ e.ts = now[c]
                                 /\ (e.blocked_by = {}) = (j = i)
    <3>1. [payment |-> pay[c], rung |-> Ranked(c)[j], ts |-> now[c],
           blocked_by |-> BlockedBy(Ranked(c)[j], state[c], now[c])] \in evals'
      BY <1>2, <1>4, <1>5 DEF Tried
    <3>2. (BlockedBy(Ranked(c)[j], state[c], now[c]) = {}) = (j = i)
      <4>1. j = i \/ j \in 1..n - 1
        BY <1>3, <1>9
      <4> QED BY <1>3, <2>2, <1>9, <4>1 DEF IsBlocked
    <3> QED BY <3>1, <3>2
  <2>5. Justified(pay[c], m, now[c])'
    <3>1. m \in 1..i /\ \A j \in 1..m - 1 : j \in 1..i /\ j # i
      BY <1>3, <2>3
    <3>2. \A j \in 1..i : Ranking[pay'[c]][j] = Ranked(c)[j]
      BY <1>2 DEF Ranked
    <3>3. ASSUME NEW j \in 1..i
          PROVE  \E e \in evals' : /\ e.payment = pay'[c] /\ e.rung = Ranking[pay'[c]][j] /\ e.ts = now'[c]
                                   /\ (e.blocked_by = {}) = (j = m)
      BY <1>2, <2>3, <2>4, <3>2
    <3> QED BY <2>3, <3>1, <3>3 DEF Justified, IsEvaluated
  <2> QED BY <1>2, <1>3, <1>4, <1>6, <2>1, <2>2, <2>3, <2>5 DEF Good, WalkOk, Guarded
<1> QED BY <1>7, <1>8, <1>9

\* A commitment is what the decision of the call will name.
LEMMA CommitKeeps ==
    ASSUME TypeInv, CallersInv, [Next]_vars, NEW c \in Callers, RecordSpend(c)
    PROVE  Good(c)'
<1>1. WalkOk(c) /\ ReadsOk(c)
  BY DEF CallersInv
<1>2. /\ pc[c] = "spend" /\ pc'[c] = "record" /\ pay'[c] = pay[c] /\ now'[c] = now[c]
      /\ verdict'[c] = verdict[c] /\ clock' = clock
  BY DEF RecordSpend, Goto, world, TypeInv, TypeOK
<1>3. \E j \in DOMAIN spend'[pay[c]] : /\ spend'[pay[c]][j].rung = verdict[c].action
                                       /\ spend'[pay[c]][j].ts = now[c]
  <2>1. DOMAIN spend'[pay[c]] = 1..Len(spend[pay[c]]) + 1 /\ Len(spend[pay[c]]) \in Nat
        /\ spend'[pay[c]][Len(spend[pay[c]]) + 1].rung = verdict[c].action
        /\ spend'[pay[c]][Len(spend[pay[c]]) + 1].ts = now[c]
    BY <1>1, CommitmentIs, CommitAppends DEF TypeInv
  <2> QED BY <2>1
<1> QED BY <1>1, <1>2, <1>3 DEF Good, WalkOk, ReadsOk, Guarded, SwitchRead, ListRead

\* Every step keeps what the calls rely on.
LEMMA CallersKept ==
    ASSUME TypeInv, CallersInv, [Next]_vars
    PROVE  CallersInv'
<1> SUFFICES ASSUME NEW c \in Callers PROVE Good(c)'
  BY DEF CallersInv, Good
<1>1. CASE Stays(c)
  BY <1>1, OthersKeep DEF Good
<1>2. CASE End(c) \/ \E p \in Payments : Begin(c, p)
  BY <1>2, CallEnds
<1>3. CASE LoadRow(c) \/ FindPrior(c)
  <2>1. CASE End(c)
    BY <1>2, <2>1
  <2>2. CASE ~End(c)
    <3>1. /\ WalkOk(c) /\ ReadsOk(c) /\ pc[c] \in {"load", "prior"} /\ pc'[c] \in {"prior", "history"}
          /\ pay'[c] = pay[c] /\ now'[c] = now[c] /\ step'[c] = step[c] /\ clock' = clock
      BY <1>3, <2>2 DEF LoadRow, FindPrior, Goto, world, CallersInv, TypeInv, TypeOK
    <3> QED BY <3>1 DEF Good, WalkOk, ReadsOk, Guarded, SwitchRead, ListRead
  <2> QED BY <2>1, <2>2
<1>4. CASE RecordDecision(c) \/ Crash(c)
  BY <1>2, <1>4 DEF RecordDecision, Crash
<1>5. CASE Decide(c)
  BY <1>5, DecideKeeps
<1>6. CASE ReadConfig(c) \/ ReadSuppression(c) \/ CountPaymentActions(c) \/ CountContacts(c) \/ SumSpend(c)
  BY <1>6, ReadsKeep
<1>7. CASE RecordEvaluation(c)
  BY <1>7, EvaluationKeeps
<1>8. CASE RecordSpend(c)
  BY <1>8, CommitKeeps
<1> QED BY <1>1, <1>2, <1>3, <1>4, <1>5, <1>6, <1>7, <1>8, CallerSteps DEF Process, TypeInv

----------------------------------------------------------------------------
(* The rows.                                                               *)

\* A row that was in order stays so, whatever the operator says later.
LEMMA RowStays ==
    ASSUME TypeInv, CallersInv, [Next]_vars, NEW p \in Payments, NEW r \in SpendRow, RowOk(p, r)
    PROVE  RowOk(p, r)'
<1>1. r.ts \in Nat /\ clock \in Nat /\ CustomerOf[p] \in Customers
  BY PaymentAssumption DEF SpendRow, TypeInv, TypeOK, Times
<1>2. clock' \in Nat
  BY TypesKept DEF TypeInv, TypeOK, Times
<1>3. r.ts <= clock'
  BY <1>1, <1>2, TablesGrow DEF RowOk
<1>4. \E i \in DOMAIN Ranking[p] : Ranking[p][i] = r.rung /\ Justified(p, i, r.ts)'
  BY TablesGrow, JustifiedStays DEF RowOk
<1>5. /\ r.rung \in ContactRungs /\ optedOut'[CustomerOf[p]] # Never => r.ts <= optedOut'[CustomerOf[p]]
      /\ killed' # Never => r.ts <= killed'
  BY <1>1, TablesGrow DEF RowOk
<1> QED BY <1>3, <1>4, <1>5 DEF RowOk

\* A commitment is in order: its rung was open in the state its call read.
LEMMA CommitIsOk ==
    ASSUME TypeInv, CallersInv, [Next]_vars, NEW c \in Callers, RecordSpend(c), NEW r,
           r.rung = verdict[c].action, r.ts = now[c]
    PROVE  RowOk(pay[c], r)'
<1> DEFINE p == pay[c]
<1>1. WalkOk(c) /\ ReadsOk(c) /\ TypeOK
  BY DEF CallersInv, TypeInv
<1>2. /\ pc[c] = "spend" /\ p \in Payments
      /\ ~IsBlocked(verdict[c].action, state[c], now[c])
      /\ \E i \in DOMAIN Ranking[p] : Ranking[p][i] = verdict[c].action /\ Justified(p, i, now[c])
  BY <1>1, CommitmentIs
<1>3. /\ ~state[c].kill_switch
      /\ r.rung \in ContactRungs => ~state[c].opted_out
      /\ r.rung \in QuietRungs => ~InQuietHours(r.ts)
  BY <1>2, OpenRung
<1>4. UNCHANGED <<clock, killed, optedOut, evals, pay, now>>
  BY DEF RecordSpend, world
<1>5. /\ r.ts <= clock /\ (killed # Never => r.ts <= killed)
      /\ r.rung \in ContactRungs /\ optedOut[CustomerOf[p]] # Never => r.ts <= optedOut[CustomerOf[p]]
  BY <1>1, <1>2, <1>3 DEF ReadsOk, SwitchRead, ListRead, Customer
<1>6. RowOk(p, r)
  BY <1>2, <1>3, <1>5 DEF RowOk
<1> QED BY <1>4, <1>6 DEF RowOk, Justified, IsEvaluated

\* Every step keeps the ledger in order.
LEMMA RowsKept ==
    ASSUME TypeInv, CallersInv, RowsInv, [Next]_vars
    PROVE  RowsInv'
<1> SUFFICES ASSUME NEW p \in Payments, NEW i \in DOMAIN spend'[p] PROVE RowOk(p, spend[p][i])'
  BY DEF RowsInv
<1>1. ASSUME i \in DOMAIN spend[p], spend'[p][i] = spend[p][i] PROVE RowOk(p, spend[p][i])'
  <2>1. spend[p][i] \in SpendRow /\ RowOk(p, spend[p][i])
    BY <1>1 DEF TypeInv, TypeOK, RowsInv
  <2>2. PICK r \in SpendRow : r = spend[p][i] /\ r = spend'[p][i]
    BY <1>1, <2>1
  <2>3. RowOk(p, r)'
    BY <2>1, <2>2, RowStays
  <2> QED BY <2>2, <2>3 DEF RowOk
<1>2. CASE spend' = spend
  BY <1>1, <1>2
<1>3. ASSUME NEW c \in Callers, RecordSpend(c) PROVE RowOk(p, spend[p][i])'
  <2> DEFINE q == pay[c]
  <2>1. verdict[c].action \in Actions /\ TypeOK
    BY <1>3, CommitmentIs DEF CallersInv, TypeInv
  <2>2. /\ \A s \in Payments : s # q => spend'[s] = spend[s]
        /\ DOMAIN spend[q] = 1..Len(spend[q]) /\ Len(spend[q]) \in Nat
        /\ DOMAIN spend'[q] = 1..Len(spend[q]) + 1
        /\ \A j \in DOMAIN spend[q] : spend'[q][j] = spend[q][j]
        /\ spend'[q][Len(spend[q]) + 1].rung = verdict[c].action
        /\ spend'[q][Len(spend[q]) + 1].ts = now[c]
    BY <1>3, <2>1, CommitAppends
  <2>3. CASE p # q \/ i \in DOMAIN spend[q]
    BY <1>1, <2>2, <2>3
  <2>4. CASE p = q /\ i \notin DOMAIN spend[q]
    <3>1. i = Len(spend[q]) + 1
      BY <2>2, <2>4
    <3>2. PICK r : r = spend'[p][i]
      OBVIOUS
    <3>3. RowOk(pay[c], r)'
      BY <1>3, <2>2, <2>4, <3>1, <3>2, CommitIsOk
    <3>4. pay' = pay
      BY <1>3 DEF RecordSpend
    <3> QED BY <2>4, <3>2, <3>3, <3>4 DEF RowOk
  <2> QED BY <2>3, <2>4
<1> QED BY <1>2, <1>3, LedgerSteps

\* Every decision to act keeps the row that counts it, and the next one has it.
LEMMA ActsKept ==
    ASSUME TypeInv, CallersInv, ActsAreCommitted, [Next]_vars
    PROVE  ActsAreCommitted'
<1> DEFINE Counted(p, d) == d.verdict.terminal = "ACT" =>
             \E j \in DOMAIN spend'[p] : /\ spend'[p][j].rung = d.verdict.action
                                         /\ spend'[p][j].ts = d.created_at
<1> SUFFICES ASSUME NEW p \in Payments, NEW i \in DOMAIN decisions'[p] PROVE Counted(p, decisions'[p][i])
  BY DEF ActsAreCommitted
<1>1. ASSUME i \in DOMAIN decisions[p], decisions'[p][i] = decisions[p][i]
      PROVE  Counted(p, decisions'[p][i])
  BY <1>1, TablesGrow DEF ActsAreCommitted
<1>2. CASE decisions' = decisions
  BY <1>1, <1>2
<1>3. ASSUME NEW c \in Callers, RecordDecision(c) PROVE Counted(p, decisions'[p][i])
  <2> DEFINE d == [verdict |-> verdict[c], created_at |-> now[c]]
  <2>1. /\ pc[c] = "record" /\ pay[c] \in Payments /\ spend' = spend
        /\ decisions' = [decisions EXCEPT ![pay[c]] = Append(@, d)]
        /\ decisions[p] \in Seq(DecisionRow) /\ decisions \in [Payments -> Seq(DecisionRow)]
    BY <1>3 DEF RecordDecision, TypeInv, TypeOK
  <2>2. Counted(pay[c], d)
    BY <2>1 DEF CallersInv, WalkOk
  <2> HIDE DEF d, Counted
  <2>3. CASE p # pay[c]
    BY <1>1, <2>1, <2>3
  <2>4. CASE p = pay[c]
    <3>1. decisions'[p] = Append(decisions[p], d)
      BY <2>1, <2>4
    <3>2. (i \in DOMAIN decisions[p] /\ decisions'[p][i] = decisions[p][i]) \/ decisions'[p][i] = d
      BY <2>1, <3>1
    <3> QED BY <1>1, <2>2, <2>4, <3>2
  <2> QED BY <2>3, <2>4
<1>4. decisions' = decisions \/ \E c \in Callers : RecordDecision(c)
  BY DEF Next, vars, tables, Process, Begin, LoadRow, FindPrior, Decide, ReadConfig,
     ReadSuppression, CountPaymentActions, CountContacts, SumSpend, RecordEvaluation,
     RecordSpend, Crash, IngestFailure, OptOut, EngageKillSwitch, Tick
<1> QED BY <1>2, <1>3, <1>4

----------------------------------------------------------------------------
(* The theorems.                                                           *)

\* Whatever is called, read, written, said by the operator or killed by a
\* death, the invariant holds.
THEOREM PipelineHolds == Spec => []PipelineInv
<1>1. Init => PipelineInv
  <2> SUFFICES ASSUME Init PROVE PipelineInv
    OBVIOUS
  <2>1. TypeInv
    BY InitTypes
  <2>2. CallersInv
    BY BoundAssumption DEF Init, CallersInv, WalkOk, ReadsOk, Guarded, SwitchRead, ListRead
  <2>3. RowsInv /\ ActsAreCommitted
    BY DEF Init, RowsInv, ActsAreCommitted
  <2> QED BY <2>1, <2>2, <2>3 DEF PipelineInv
<1>2. PipelineInv /\ [Next]_vars => PipelineInv'
  BY TypesKept, CallersKept, RowsKept, ActsKept DEF PipelineInv
<1> QED BY <1>1, <1>2, PTL DEF Spec

\* Tables, world and callers hold what they are declared to hold; the sum of a
\* day's debits and the count of a customer's contacts are numbers.
THEOREM PipelineTypes == Spec => []TypeOK
<1>1. PipelineInv => TypeOK
  BY DEF PipelineInv, TypeInv
<1> QED BY <1>1, PipelineHolds, PTL

\* No commitment without its walk (pipeline.record_ladder_walk, record_spend).
THEOREM CommitmentsAreJustified == Spec => []SpendIsJustified
<1>1. ASSUME PipelineInv PROVE SpendIsJustified
  <2> SUFFICES ASSUME NEW x \in Rows(Payments)
               PROVE  \E i \in DOMAIN Ranking[x[1]] :
                          Ranking[x[1]][i] = Row(x).rung /\ Justified(x[1], i, Row(x).ts)
    BY DEF SpendIsJustified, Justified
  <2>1. x[1] \in Payments /\ x[2] \in DOMAIN spend[x[1]]
    BY RowsAre
  <2> QED BY <1>1, <2>1 DEF PipelineInv, RowsInv, RowOk, Row
<1> QED BY <1>1, PipelineHolds, PTL

\* No ACT on record without the ledger row that counts it.
THEOREM ActsCount == Spec => []ActsAreCommitted
<1>1. PipelineInv => ActsAreCommitted
  BY DEF PipelineInv
<1> QED BY <1>1, PipelineHolds, PTL

\* An opt-out or the kill switch binds every call that begins after it.
THEOREM OperatorObeyed == Spec => []OperatorIsObeyed
<1>1. ASSUME PipelineInv PROVE OperatorIsObeyed
  <2>1. ASSUME NEW P \in SUBSET Payments, NEW x \in Rows(P)
        PROVE  x[1] \in P /\ x \in Rows(Payments) /\ RowOk(x[1], Row(x))
    <3>1. x[1] \in P /\ x[2] \in DOMAIN spend[x[1]] /\ x = <<x[1], x[2]>>
      BY RowsAre
    <3>2. <<x[1], x[2]>> \in Rows(Payments)
      BY <3>1, RowsAre
    <3> QED BY <1>1, <3>1, <3>2 DEF PipelineInv, RowsInv, Row
  <2>2. ASSUME NEW u \in Customers, optedOut[u] # Never, NEW x \in Rows(PaymentsOf(u)),
               Row(x).rung \in ContactRungs
        PROVE  Row(x).ts <= optedOut[u]
    <3>1. PaymentsOf(u) \in SUBSET Payments
      BY DEF PaymentsOf
    <3>2. RowOk(x[1], Row(x)) /\ CustomerOf[x[1]] = u
      BY <2>1, <3>1 DEF PaymentsOf
    <3> QED BY <2>2, <3>2 DEF RowOk
  <2>3. ASSUME killed # Never, NEW x \in Rows(Payments) PROVE Row(x).ts <= killed
    BY <2>1, <2>3 DEF RowOk
  <2> QED BY <2>2, <2>3 DEF OperatorIsObeyed
<1> QED BY <1>1, PipelineHolds, PTL

\* Taking a day off brings a tick of two days into one.
LEMMA TickOfDay ==
    ASSUME NEW n \in 0..2 * Day - 1
    PROVE  n % Day = IF n < Day THEN n ELSE n - Day
BY ClockAssumption

\* The ticks counted from the start of the window are those the guardrail
\* takes for quiet, whether or not the window wraps midnight.
LEMMA QuietTicksAreQuiet ==
    ASSUME NEW t \in Nat, t % Day \in QuietTicks
    PROVE  InQuietHours(t)
<1> DEFINE width == (QuietEnd - QuietStart) % Day
<1>1. width = IF QuietEnd >= QuietStart THEN QuietEnd - QuietStart ELSE QuietEnd - QuietStart + Day
  BY ClockAssumption
<1>2. PICK i \in 0..width - 1 : t % Day = (QuietStart + i) % Day
  BY DEF QuietTicks
<1> HIDE DEF width
<1>3. PICK m \in 0..2 * Day - 1 : m = QuietStart + i
  BY <1>1, ClockAssumption
<1>4. t % Day = m % Day
  BY <1>2, <1>3
<1>5. t % Day = IF m < Day THEN m ELSE m - Day
  <2>1. m % Day = IF m < Day THEN m ELSE m - Day
    BY TickOfDay
  <2> QED BY <1>4, <2>1
<1> QED BY <1>1, <1>3, <1>5, ClockAssumption DEF InQuietHours

\* No quiet rung is committed in the quiet hours of its call.
THEOREM QuietHoursKept == Spec => []QuietHoursHold
<1>1. ASSUME PipelineInv PROVE QuietHoursHold
  <2> SUFFICES ASSUME NEW x \in Rows(Payments), Row(x).rung \in QuietRungs,
                      Row(x).ts % Day \in QuietTicks
               PROVE  FALSE
    BY DEF QuietHoursHold
  <2>1. x[1] \in Payments /\ x[2] \in DOMAIN spend[x[1]]
    BY RowsAre
  <2>2. Row(x) \in SpendRow /\ RowOk(x[1], Row(x))
    BY <1>1, <2>1 DEF PipelineInv, TypeInv, TypeOK, RowsInv, Row
  <2>3. Row(x).ts \in Nat
    BY <2>2, BoundAssumption DEF SpendRow, Times
  <2> QED BY <2>2, <2>3, QuietTicksAreQuiet DEF RowOk
<1> QED BY <1>1, PipelineHolds, PTL

----------------------------------------------------------------------------
(* What holds while one process runs process_failure, whose calls follow   *)
(* each other: nothing that a call has counted changes under it, so every  *)
(* cap that it checked holds when it commits, however often a death makes  *)
(* the next call start over from the rows that were left.                  *)

\* One call at a time.
Alone == \A c, d \in Callers : pc[c] # "idle" /\ pc[d] # "idle" => c = d

\* Nobody acted for the customer of a call within the cooldown.
Cooled(c) ==
    \A p \in PaymentsOf(Customer(c)) : \A i \in DOMAIN decisions[p] :
        decisions[p][i].verdict.terminal = "ACT" => now[c] - decisions[p][i].created_at >= Day

\* What a call has read is still what the tables say.
Current(c) ==
    /\ pc[c] \notin {"idle", "load"} => pay[c] \in ingested
    /\ pc[c] \notin {"idle", "load", "prior"} => decisions[pay[c]] = << >>
    /\ pc[c] \in {"contacts", "spent", "evals", "spend"} =>
         state[c].payment_action_count = Len(spend[pay[c]])
    /\ pc[c] \in {"spent", "evals", "spend"} =>
         state[c].contact_actions_in_window = Cardinality(ContactsSince(Customer(c), now[c] - Day))
    /\ pc[c] \in {"evals", "spend"} => state[c].spent_today_inr = spent_today_inr(now[c])
    /\ (pc[c] \in Guarded \cup {"spend"} \/ (pc[c] = "record" /\ verdict[c].terminal = "ACT")) => Cooled(c)

\* A payment that was decided about has its normalized row.
DecidedIsIngested == \A p \in Payments : decisions[p] # << >> => p \in ingested

SeriesInv ==
    one_process =>
        /\ Alone
        /\ \A c \in Callers : Current(c)
        /\ DecidedIsIngested
        /\ OneDecision /\ AttemptCapHolds /\ ContactLimitHolds /\ CooldownHolds /\ SpendCapHolds

----------------------------------------------------------------------------
(* Nothing else moves while a call is under way.                           *)

\* Calls keep following each other.
LEMMA AloneKept ==
    ASSUME TypeOK, [Next]_vars, one_process, Alone
    PROVE  Alone' /\ one_process'
<1>1. one_process' = one_process
  BY DEF Next, vars, world, Process, Begin, LoadRow, FindPrior, Decide, ReadConfig,
     ReadSuppression, CountPaymentActions, CountContacts, SumSpend, RecordEvaluation,
     RecordSpend, RecordDecision, Crash, IngestFailure, OptOut, EngageKillSwitch, Tick
<1>2. ASSUME NEW c \in Callers, pc'[c] # "idle"
      PROVE  pc[c] # "idle" \/ \E p \in Payments : Begin(c, p)
  <2>1. Process(c) \/ Crash(c) => pc[c] # "idle"
    BY DEF Process, LoadRow, FindPrior, Decide, ReadConfig, ReadSuppression, CountPaymentActions,
       CountContacts, SumSpend, RecordEvaluation, RecordSpend, RecordDecision, Crash, Goto
  <2> QED BY <1>2, <2>1, CallerSteps DEF Stays
<1>3. ASSUME NEW c \in Callers, NEW p \in Payments, Begin(c, p), NEW d \in Callers, d # c
      PROVE  pc'[d] = "idle"
  BY <1>3 DEF Begin, Goto, TypeOK
<1> QED BY <1>1, <1>2, <1>3 DEF Alone

\* A call under way takes the next step that writes a decision or a row.
LEMMA NothingElseMoves ==
    ASSUME TypeOK, [Next]_vars, one_process, Alone, NEW c \in Callers, pc[c] # "idle"
    PROVE  \/ Process(c) \/ Crash(c)
           \/ Stays(c) /\ spend' = spend /\ decisions' = decisions /\ ingested \subseteq ingested'
<1>1. ASSUME NEW d \in Callers, Process(d) \/ Crash(d) PROVE d = c
  <2>1. pc[d] # "idle"
    BY <1>1 DEF Process, LoadRow, FindPrior, Decide, ReadConfig, ReadSuppression, CountPaymentActions,
       CountContacts, SumSpend, RecordEvaluation, RecordSpend, RecordDecision, Crash, Goto
  <2> QED BY <2>1 DEF Alone
<1>2. ASSUME NEW d \in Callers, NEW p \in Payments, Begin(d, p) PROVE FALSE
  BY <1>2 DEF Begin
<1>3. CASE \/ \E p \in Payments : IngestFailure(p)
           \/ \E u \in Customers : OptOut(u)
           \/ EngageKillSwitch \/ Tick \/ UNCHANGED vars
  BY <1>3 DEF IngestFailure, OptOut, EngageKillSwitch, Tick, vars, tables, Stays
<1> QED BY <1>1, <1>2, <1>3 DEF Next

\* Only a decision writes the decisions.
LEMMA DecisionSteps ==
    ASSUME [Next]_vars
    PROVE  /\ decisions' = decisions \/ \E c \in Callers : RecordDecision(c)
           /\ ingested \subseteq ingested'
<1>1. decisions' = decisions \/ \E c \in Callers : RecordDecision(c)
  BY DEF Next, vars, tables, Process, Begin, LoadRow, FindPrior, Decide, ReadConfig,
     ReadSuppression, CountPaymentActions, CountContacts, SumSpend, RecordEvaluation,
     RecordSpend, Crash, IngestFailure, OptOut, EngageKillSwitch, Tick
<1>2. ingested' = ingested \/ \E p \in Payments : IngestFailure(p)
  BY DEF Next, vars, tables, Process, Begin, LoadRow, FindPrior, Decide, ReadConfig,
     ReadSuppression, CountPaymentActions, CountContacts, SumSpend, RecordEvaluation,
     RecordSpend, RecordDecision, Crash, OptOut, EngageKillSwitch, Tick
<1> QED BY <1>1, <1>2 DEF IngestFailure

\* A decision appends one row to the decisions of the call's payment.
LEMMA DecisionAppends ==
    ASSUME TypeOK, NEW c \in Callers, RecordDecision(c)
    PROVE  LET p == pay[c]
               n == Len(decisions[p]) + 1
           IN  /\ pc[c] = "record" /\ p \in Payments /\ spend' = spend /\ ingested' = ingested
               /\ End(c)
               /\ \A q \in Payments : q # p => decisions'[q] = decisions[q]
               /\ Len(decisions[p]) \in Nat /\ DOMAIN decisions[p] = 1..Len(decisions[p])
               /\ Len(decisions'[p]) = n /\ DOMAIN decisions'[p] = 1..n
               /\ \A i \in DOMAIN decisions[p] : decisions'[p][i] = decisions[p][i]
               /\ decisions'[p][n].verdict = verdict[c] /\ decisions'[p][n].created_at = now[c]
<1> DEFINE p == pay[c]
           d == [verdict |-> verdict[c], created_at |-> now[c]]
<1>1. /\ pc[c] = "record" /\ p \in Payments /\ spend' = spend /\ ingested' = ingested /\ End(c)
      /\ decisions' = [decisions EXCEPT ![p] = Append(@, d)]
      /\ decisions \in [Payments -> Seq(DecisionRow)] /\ decisions[p] \in Seq(DecisionRow)
  BY DEF RecordDecision, TypeOK
<1>2. d.verdict = verdict[c] /\ d.created_at = now[c] /\ d \in DecisionRow
  BY DEF TypeOK, DecisionRow
<1> HIDE DEF d
<1>3. decisions'[p] = Append(decisions[p], d) /\ \A q \in Payments : q # p => decisions'[q] = decisions[q]
  BY <1>1
<1> QED BY <1>1, <1>2, <1>3

----------------------------------------------------------------------------
(* What a call has read stays current.                                     *)

\* Counts and sums are of the ledger alone.
LEMMA SameCounts ==
    ASSUME spend' = spend, NEW u, NEW t
    PROVE  /\ Rows(Payments)' = Rows(Payments) /\ \A x : Row(x)' = Row(x)
           /\ ContactsSince(u, t)' = ContactsSince(u, t)
           /\ spent_today_inr(t)' = spent_today_inr(t)
<1>1. Rows(Payments)' = Rows(Payments) /\ \A x : Row(x)' = Row(x)
  BY DEF Rows, Row
<1>2. ContactsSince(u, t)' = ContactsSince(u, t)
  BY DEF ContactsSince, Rows, Row, PaymentsOf
<1>3. spent_today_inr(t)' = spent_today_inr(t)
  BY <1>1 DEF spent_today_inr
<1> QED BY <1>1, <1>2, <1>3

\* A call that keeps its payment and its time finds what it found.
LEMMA StaysCurrent ==
    ASSUME TypeOK, NEW c \in Callers, spend' = spend, decisions' = decisions, pay'[c] = pay[c], now'[c] = now[c]
    PROVE  /\ spend'[pay'[c]] = spend[pay[c]] /\ decisions'[pay'[c]] = decisions[pay[c]]
           /\ Cardinality(ContactsSince(Customer(c), now[c] - Day))'
                = Cardinality(ContactsSince(Customer(c), now[c] - Day))
           /\ spent_today_inr(now[c])' = spent_today_inr(now[c])
           /\ Cooled(c) => Cooled(c)'
<1>1. PICK u, t, w : u = Customer(c) /\ u = Customer(c)' /\ t = now[c] /\ t = now'[c] /\ w = now[c] - Day
  BY DEF Customer
<1>2. ContactsSince(u, w)' = ContactsSince(u, w) /\ spent_today_inr(t)' = spent_today_inr(t)
  BY SameCounts
<1>3. ContactsSince(Customer(c), now[c] - Day)' = ContactsSince(Customer(c), now[c] - Day)
  BY <1>1, <1>2
<1>4. spent_today_inr(now[c])' = spent_today_inr(now[c])
  BY <1>1, <1>2
<1>5. Cooled(c) => Cooled(c)'
  BY <1>1 DEF Cooled, PaymentsOf
<1> QED BY <1>3, <1>4, <1>5

\* The largest of a set of bounded numbers is one of them.
LEMMA GreatestTime ==
    ASSUME NEW S \in SUBSET Times, S # {}
    PROVE  Max(S) \in S /\ \A y \in S : y <= Max(S)
<1> DEFINE D == {MaxTime - x : x \in S}
<1>1. D \subseteq Nat /\ D # {}
  <2>1. \A x \in 0..MaxTime : MaxTime - x \in Nat
    BY BoundAssumption
  <2> QED BY <2>1 DEF Times
<1>2. PICK d \in D : \A e \in D : d <= e
  <2> HIDE DEF D
  <2> QED BY <1>1, LeastNumber
<1>3. PICK x \in S : d = MaxTime - x
  OBVIOUS
<1>4. \A y \in S : x >= y
  <2> SUFFICES ASSUME NEW y \in S PROVE x >= y
    OBVIOUS
  <2>1. MaxTime - x <= MaxTime - y
    BY <1>2, <1>3
  <2>2. x \in Int /\ y \in Int /\ MaxTime \in Int
    BY BoundAssumption DEF Times
  <2> QED BY <2>1, <2>2
<1>5. Max(S) \in S /\ \A y \in S : Max(S) >= y
  BY <1>3, <1>4 DEF Max
<1> QED BY <1>5, BoundAssumption DEF Times

\* Outside the cooldown no act of the customer is within it: a payment that
\* was decided about has the row the history is read through.
LEMMA OutsideCooldown ==
    ASSUME TypeOK, DecidedIsIngested, NEW c \in Callers, ~InCooldown(c)
    PROVE  Cooled(c)
<1> SUFFICES ASSUME NEW p \in PaymentsOf(Customer(c)), NEW i \in DOMAIN decisions[p],
                    decisions[p][i].verdict.terminal = "ACT"
             PROVE  now[c] - decisions[p][i].created_at >= Day
  BY DEF Cooled
<1>1. p \in Payments /\ decisions[p] \in Seq(DecisionRow) /\ decisions[p] # << >>
  BY DEF PaymentsOf, TypeOK
<1>2. p \in ingested \cap PaymentsOf(Customer(c))
  BY <1>1 DEF DecidedIsIngested
<1>3. decisions[p][i].created_at \in ActTimes(Customer(c))
  BY <1>2 DEF ActTimes
<1>4. ActTimes(Customer(c)) \in SUBSET Times
  <2> SUFFICES ASSUME NEW q \in Payments, NEW j \in DOMAIN decisions[q] PROVE decisions[q][j].created_at \in Times
    BY DEF ActTimes, PaymentsOf
  <2>1. decisions[q] \in Seq(DecisionRow)
    BY DEF TypeOK
  <2>2. decisions[q][j] \in DecisionRow
    BY <2>1
  <2> QED BY <2>2 DEF DecisionRow
<1> DEFINE m == Max(ActTimes(Customer(c)))
<1>5. m \in Times /\ decisions[p][i].created_at <= m
  BY <1>3, <1>4, GreatestTime
<1>6. ~(now[c] - m < Day)
  BY <1>3 DEF InCooldown
<1>7. now[c] \in Int /\ m \in Int /\ Day \in Int /\ decisions[p][i].created_at \in Int
  BY <1>3, <1>4, <1>5, ClockAssumption, BoundAssumption DEF TypeOK, Times
<1> HIDE DEF m
<1> QED BY <1>5, <1>6, <1>7

\* The reads: each leaves the caller with what the tables say.
LEMMA ReadsCurrent ==
    ASSUME TypeInv, NEW c \in Callers, Current(c),
           \/ ReadConfig(c) \/ ReadSuppression(c) \/ CountPaymentActions(c)
           \/ CountContacts(c) \/ SumSpend(c)
    PROVE  Current(c)'
<1>1. /\ pay'[c] = pay[c] /\ now'[c] = now[c] /\ spend' = spend /\ decisions' = decisions
      /\ ingested' = ingested /\ state[c] \in State /\ TypeOK
  BY DEF ReadConfig, ReadSuppression, CountPaymentActions, CountContacts, SumSpend, tables, TypeInv, TypeOK
<1>2. /\ spend'[pay'[c]] = spend[pay[c]] /\ decisions'[pay'[c]] = decisions[pay[c]]
      /\ Cardinality(ContactsSince(Customer(c), now[c] - Day))'
           = Cardinality(ContactsSince(Customer(c), now[c] - Day))
      /\ spent_today_inr(now[c])' = spent_today_inr(now[c])
      /\ Cooled(c) => Cooled(c)'
  BY <1>1, StaysCurrent
<1>3. CASE ReadConfig(c) \/ ReadSuppression(c)
  <2>1. \/ pc[c] = "config" /\ pc'[c] = "suppression"
        \/ pc[c] = "suppression" /\ pc'[c] = "attempts"
    BY <1>3 DEF ReadConfig, ReadSuppression, Goto, TypeInv, TypeOK
  <2> QED BY <1>1, <1>2, <2>1 DEF Current, Guarded
<1>4. CASE CountPaymentActions(c)
  <2>1. /\ pc[c] = "attempts" /\ pc'[c] = "contacts"
        /\ state'[c].payment_action_count = Len(spend[pay[c]])
    BY <1>1, <1>4 DEF CountPaymentActions, Goto, TypeInv, TypeOK, State
  <2> QED BY <1>1, <1>2, <2>1 DEF Current, Guarded
<1>5. CASE CountContacts(c)
  <2> DEFINE n == Cardinality(ContactsSince(Customer(c), now[c] - Day))
  <2>1. /\ pc[c] = "contacts" /\ pc' = [pc EXCEPT ![c] = "spent"]
        /\ state' = [state EXCEPT ![c].contact_actions_in_window = n]
    BY <1>5 DEF CountContacts, Goto
  <2> HIDE DEF n
  <2>2. /\ pc'[c] = "spent" /\ state'[c].contact_actions_in_window = n
        /\ state'[c].payment_action_count = state[c].payment_action_count
    BY <1>1, <2>1 DEF TypeInv, TypeOK, State
  <2> QED BY <1>1, <1>2, <2>1, <2>2 DEF Current, Guarded, n
<1>6. CASE SumSpend(c)
  <2> DEFINE n == spent_today_inr(now[c])
  <2>1. /\ pc[c] = "spent" /\ pc' = [pc EXCEPT ![c] = "evals"]
        /\ state' = [state EXCEPT ![c].spent_today_inr = n]
    BY <1>6 DEF SumSpend, Goto
  <2> HIDE DEF n
  <2>2. /\ pc'[c] = "evals" /\ state'[c].spent_today_inr = n
        /\ state'[c].payment_action_count = state[c].payment_action_count
        /\ state'[c].contact_actions_in_window = state[c].contact_actions_in_window
    BY <1>1, <2>1 DEF TypeInv, TypeOK, State
  <2> QED BY <1>1, <1>2, <2>1, <2>2 DEF Current, Guarded, n
<1> QED BY <1>3, <1>4, <1>5, <1>6

\* Every step of any caller or of the world leaves the calls current.
LEMMA CurrentKept ==
    ASSUME TypeInv, CallersInv, [Next]_vars, one_process, Alone, DecidedIsIngested,
           NEW c \in Callers, Current(c)
    PROVE  Current(c)'
<1> USE DEF TypeInv
<1>1. CASE pc'[c] \in {"idle", "load"}
  BY <1>1 DEF Current, Guarded
<1>2. CASE Stays(c) /\ spend' = spend /\ decisions' = decisions /\ ingested \subseteq ingested'
  BY <1>2, StaysCurrent DEF Current, Stays
<1>3. CASE (LoadRow(c) \/ FindPrior(c)) /\ pc'[c] # "idle"
  <2>1. /\ pay'[c] = pay[c] /\ decisions' = decisions /\ ingested' = ingested
        /\ \/ pc[c] = "load" /\ pc'[c] = "prior" /\ pay[c] \in ingested
           \/ pc[c] = "prior" /\ pc'[c] = "history" /\ decisions[pay[c]] = << >>
    BY <1>3 DEF LoadRow, FindPrior, Goto, End, tables, TypeOK
  <2> QED BY <2>1 DEF Current, Guarded
<1>4. CASE Decide(c)
  <2> DEFINE answer == EngineAnswer[pay[c]]
             d == IF InCooldown(c) /\ answer.reason \notin EarlierGates THEN Skip("COOLDOWN") ELSE answer
  <2>1. /\ pc[c] = "history" /\ verdict' = [verdict EXCEPT ![c] = d]
        /\ pc' = [pc EXCEPT ![c] = IF d.terminal = "ACT" THEN "config" ELSE "record"]
        /\ UNCHANGED <<spend, decisions, ingested, pay, now>>
    BY <1>4 DEF Decide, Goto, tables
  <2>2. d.terminal = "ACT" => ~InCooldown(c)
    BY PaymentAssumption, NullAssumption DEF Skip, Verdict, TypeOK, EarlierGates, SkipReasons
  <2>3. d.terminal = "ACT" => Cooled(c)'
    BY <2>1, <2>2, OutsideCooldown, StaysCurrent
  <2> HIDE DEF d
  <2>4. pc'[c] = (IF d.terminal = "ACT" THEN "config" ELSE "record") /\ verdict'[c] = d
    BY <2>1 DEF TypeOK
  <2> QED BY <2>1, <2>3, <2>4 DEF Current, Guarded
<1>5. CASE \/ ReadConfig(c) \/ ReadSuppression(c) \/ CountPaymentActions(c)
           \/ CountContacts(c) \/ SumSpend(c)
  BY <1>5, ReadsCurrent
<1>6. CASE RecordEvaluation(c)
  <2>1. /\ pc[c] = "evals" /\ pc'[c] \in {"evals", "spend", "record"}
        /\ pay'[c] = pay[c] /\ now'[c] = now[c] /\ state'[c] = state[c]
        /\ UNCHANGED <<spend, decisions, ingested>>
    BY <1>6 DEF RecordEvaluation, Goto, TypeOK
  <2> QED BY <2>1, StaysCurrent DEF Current, Guarded
<1>7. CASE RecordSpend(c)
  <2>1. /\ pc[c] = "spend" /\ pc'[c] = "record"
        /\ pay' = pay /\ now' = now /\ UNCHANGED <<decisions, ingested>>
    BY <1>7 DEF RecordSpend, Goto, TypeOK
  <2>2. Cooled(c) => Cooled(c)'
    BY <2>1 DEF Cooled, Customer, PaymentsOf
  <2> QED BY <2>1, <2>2 DEF Current, Guarded
<1>8. CASE RecordDecision(c) \/ Crash(c)
  BY <1>1, <1>8 DEF RecordDecision, Crash, End, TypeOK
<1>9. CASE pc[c] = "idle"
  <2>1. Process(c) \/ Crash(c) => pc[c] # "idle"
    BY DEF Process, LoadRow, FindPrior, Decide, ReadConfig, ReadSuppression, CountPaymentActions,
       CountContacts, SumSpend, RecordEvaluation, RecordSpend, RecordDecision, Crash, Goto
  <2>2. pc'[c] \in {"idle", "load"}
    BY <1>9, <2>1, CallerSteps DEF Stays, Begin, Goto, TypeOK
  <2> QED BY <1>1, <2>2
<1> QED BY <1>1, <1>2, <1>3, <1>4, <1>5, <1>6, <1>7, <1>8, <1>9, NothingElseMoves DEF Process

----------------------------------------------------------------------------
(* The decisions.                                                          *)

\* A call decides about an ingested payment that has no decision.
LEMMA DecisionsKept ==
    ASSUME TypeOK, [Next]_vars, DecidedIsIngested, OneDecision, \A c \in Callers : Current(c)
    PROVE  DecidedIsIngested' /\ OneDecision'
<1>1. CASE decisions' = decisions
  BY <1>1, DecisionSteps DEF DecidedIsIngested, OneDecision
<1>2. ASSUME NEW c \in Callers, RecordDecision(c) PROVE DecidedIsIngested' /\ OneDecision'
  <2> DEFINE p == pay[c]
  <2>1. /\ pc[c] = "record" /\ p \in Payments /\ ingested' = ingested
        /\ \A q \in Payments : q # p => decisions'[q] = decisions[q]
        /\ Len(decisions'[p]) = Len(decisions[p]) + 1
    BY <1>2, DecisionAppends
  <2>2. p \in ingested /\ decisions[p] = << >>
    BY <2>1 DEF Current
  <2>3. Len(decisions'[p]) = 1
    BY <2>1, <2>2
  <2>4. DecidedIsIngested'
    <3> SUFFICES ASSUME NEW q \in Payments, decisions'[q] # << >> PROVE q \in ingested'
      BY DEF DecidedIsIngested
    <3> QED BY <2>1, <2>2 DEF DecidedIsIngested
  <2>5. OneDecision'
    <3> SUFFICES ASSUME NEW q \in Payments PROVE Len(decisions'[q]) <= 1
      BY DEF OneDecision
    <3>1. CASE q = p
      <4>1. Len(decisions'[q]) = 1
        BY <2>3, <3>1
      <4> QED BY <4>1
    <3>2. CASE q # p
      BY <2>1, <3>2 DEF OneDecision
    <3> QED BY <3>1, <3>2
  <2> QED BY <2>4, <2>5
<1> QED BY <1>1, <1>2, DecisionSteps

\* A call acts a cooldown after whatever else was done for its customer.
LEMMA CooldownKept ==
    ASSUME TypeOK, [Next]_vars, CooldownHolds, \A c \in Callers : Current(c)
    PROVE  CooldownHolds'
<1>1. CASE decisions' = decisions
  BY <1>1 DEF CooldownHolds, PaymentsOf
<1>2. ASSUME NEW c \in Callers, RecordDecision(c) PROVE CooldownHolds'
  <2> DEFINE m == pay[c]
             new == Len(decisions[m]) + 1
  <2>1. /\ pc[c] = "record" /\ m \in Payments
        /\ \A q \in Payments : q # m => decisions'[q] = decisions[q]
        /\ DOMAIN decisions[m] = 1..Len(decisions[m]) /\ DOMAIN decisions'[m] = 1..new
        /\ Len(decisions[m]) \in Nat
        /\ \A i \in DOMAIN decisions[m] : decisions'[m][i] = decisions[m][i]
        /\ decisions'[m][new].verdict = verdict[c] /\ decisions'[m][new].created_at = now[c]
    BY <1>2, DecisionAppends
  <2>2. verdict[c].terminal = "ACT" => Cooled(c)
    BY <2>1 DEF Current
  <2> SUFFICES ASSUME NEW u \in Customers, NEW p \in PaymentsOf(u), NEW q \in PaymentsOf(u),
                      NEW i \in DOMAIN decisions'[p], NEW j \in DOMAIN decisions'[q],
                      <<p, i>> # <<q, j>>,
                      decisions'[p][i].verdict.terminal = "ACT",
                      decisions'[q][j].verdict.terminal = "ACT",
                      decisions'[p][i].created_at <= decisions'[q][j].created_at
               PROVE  decisions'[q][j].created_at - decisions'[p][i].created_at >= Day
    BY DEF CooldownHolds, PaymentsOf
  <2>3. p \in Payments /\ q \in Payments /\ CustomerOf[p] = u /\ CustomerOf[q] = u
    BY DEF PaymentsOf
  <2>4. ASSUME NEW r \in Payments, NEW k \in DOMAIN decisions'[r], ~(r = m /\ k = new)
        PROVE  k \in DOMAIN decisions[r] /\ decisions'[r][k] = decisions[r][k]
               /\ decisions[r][k].created_at \in Times
    <3>1. k \in DOMAIN decisions[r] /\ decisions'[r][k] = decisions[r][k]
      BY <2>1, <2>4
    <3>2. decisions[r] \in Seq(DecisionRow)
      BY DEF TypeOK
    <3>3. decisions[r][k] \in DecisionRow
      BY <3>1, <3>2
    <3> QED BY <3>1, <3>3 DEF DecisionRow
  <2>5. now[c] \in Int /\ Day \in Nat \ {0} /\ \A t \in Times : t \in Int
    BY ClockAssumption, BoundAssumption DEF TypeOK, Times
  <2>6. CASE ~(p = m /\ i = new) /\ ~(q = m /\ j = new)
    <3>1. /\ i \in DOMAIN decisions[p] /\ decisions'[p][i] = decisions[p][i]
          /\ j \in DOMAIN decisions[q] /\ decisions'[q][j] = decisions[q][j]
      BY <2>3, <2>4, <2>6
    <3> QED BY <3>1 DEF CooldownHolds
  <2>7. CASE q = m /\ j = new
    <3>1. i \in DOMAIN decisions[p] /\ decisions'[p][i] = decisions[p][i]
      BY <2>3, <2>4, <2>7
    <3>2. Cooled(c) /\ Customer(c) = u /\ decisions'[q][j].created_at = now[c]
      BY <2>1, <2>2, <2>3, <2>7 DEF Customer
    <3> QED BY <3>1, <3>2 DEF Cooled
  <2>8. CASE p = m /\ i = new /\ ~(q = m /\ j = new)
    <3>1. j \in DOMAIN decisions[q] /\ decisions'[q][j] = decisions[q][j]
          /\ decisions[q][j].created_at \in Times
      BY <2>3, <2>4, <2>8
    <3>2. Cooled(c) /\ Customer(c) = u /\ decisions'[p][i].created_at = now[c]
      BY <2>1, <2>2, <2>3, <2>8 DEF Customer
    <3>3. now[c] - decisions[q][j].created_at >= Day
      BY <3>1, <3>2 DEF Cooled
    <3>4. now[c] <= decisions[q][j].created_at
      BY <3>1, <3>2
    <3>5. FALSE
      BY <2>5, <3>1, <3>3, <3>4
    <3> QED BY <3>5
  <2> QED BY <2>6, <2>7, <2>8
<1> QED BY <1>1, <1>2, DecisionSteps

----------------------------------------------------------------------------
(* The ledger and its caps.                                                *)

\* What a call commits to was within every cap when it counted, and it has
\* counted everything there is.
LEMMA CommitmentFits ==
    ASSUME TypeInv, NEW c \in Callers, WalkOk(c), Current(c), RecordSpend(c)
    PROVE  /\ verdict[c].action \in Actions /\ pay[c] \in Payments /\ CustomerOf[pay[c]] \in Customers
           /\ Len(spend[pay[c]]) < attempt_cap_max
           /\ verdict[c].action \in ContactRungs =>
                Cardinality(ContactsSince(Customer(c), now[c] - Day)) < contact_limit_max
           /\ spent_today_inr(now[c]) + Cost[verdict[c].action] <= spend_cap_inr
<1>1. /\ pc[c] = "spend" /\ pay[c] \in Payments /\ verdict[c].action \in Actions
      /\ ~IsBlocked(verdict[c].action, state[c], now[c])
  BY CommitmentIs DEF TypeInv
<1>2. /\ ~(state[c].payment_action_count >= attempt_cap_max)
      /\ verdict[c].action \in ContactRungs => ~(state[c].contact_actions_in_window >= contact_limit_max)
      /\ ~(state[c].spent_today_inr + Cost[verdict[c].action] > spend_cap_inr)
  BY <1>1, OpenRung
<1>3. /\ state[c].payment_action_count = Len(spend[pay[c]])
      /\ state[c].contact_actions_in_window = Cardinality(ContactsSince(Customer(c), now[c] - Day))
      /\ state[c].spent_today_inr = spent_today_inr(now[c])
  BY <1>1 DEF Current
<1>4. /\ Len(spend[pay[c]]) \in Nat /\ spent_today_inr(now[c]) \in Nat
      /\ Cardinality(ContactsSince(Customer(c), now[c] - Day)) \in Nat
      /\ Cost[verdict[c].action] \in Nat
  <2>1. spend[pay[c]] \in Seq(SpendRow)
    BY <1>1 DEF TypeInv, TypeOK
  <2>2. Len(spend[pay[c]]) \in Nat /\ Cost[verdict[c].action] \in Nat
    BY <1>1, <2>1, RungAssumption
  <2> QED BY <2>2, CountsAreNumbers
<1>5. CustomerOf[pay[c]] \in Customers
  BY <1>1, PaymentAssumption
<1> QED BY <1>1, <1>2, <1>3, <1>4, <1>5, CapAssumption

\* The lifetime cap of a payment.
LEMMA AttemptCapKept ==
    ASSUME TypeInv, CallersInv, [Next]_vars, AttemptCapHolds, \A c \in Callers : Current(c)
    PROVE  AttemptCapHolds'
<1>1. CASE spend' = spend
  BY <1>1 DEF AttemptCapHolds
<1>2. ASSUME NEW c \in Callers, RecordSpend(c) PROVE AttemptCapHolds'
  <2> DEFINE p == pay[c]
  <2>1. verdict[c].action \in Actions /\ p \in Payments /\ Len(spend[p]) < attempt_cap_max
    BY <1>2, CommitmentFits DEF CallersInv
  <2>2. /\ \A q \in Payments : q # p => spend'[q] = spend[q]
        /\ spend' \in [Payments -> Seq(SpendRow)]
        /\ DOMAIN spend'[p] = 1..Len(spend[p]) + 1 /\ Len(spend[p]) \in Nat
    BY <1>2, <2>1, CommitAppends DEF TypeInv
  <2>3. Len(spend'[p]) = Len(spend[p]) + 1
    <3>1. spend'[p] \in Seq(SpendRow)
      BY <2>1, <2>2
    <3>2. DOMAIN spend'[p] = 1..Len(spend'[p]) /\ Len(spend'[p]) \in Nat
      BY <3>1
    <3> QED BY <2>2, <3>2
  <2>4. Len(spend'[p]) <= attempt_cap_max
    BY <2>1, <2>2, <2>3, CapAssumption
  <2> SUFFICES ASSUME NEW q \in Payments PROVE Len(spend'[q]) <= attempt_cap_max
    BY DEF AttemptCapHolds
  <2>5. CASE q = p
    BY <2>4, <2>5
  <2>6. CASE q # p
    BY <2>2, <2>6 DEF AttemptCapHolds
  <2> QED BY <2>5, <2>6
<1> QED BY <1>1, <1>2, LedgerSteps

\* The contacts of a customer, as rows of the whole ledger.
LEMMA ContactsAre ==
    ASSUME NEW u, NEW t, NEW x
    PROVE  x \in ContactsSince(u, t) <=>
             /\ x \in Rows(Payments) /\ CustomerOf[x[1]] = u
             /\ Row(x).rung \in ContactRungs /\ Row(x).ts >= t
<1>1. ASSUME x \in Rows(PaymentsOf(u)) PROVE x \in Rows(Payments) /\ CustomerOf[x[1]] = u
  <2>1. x[1] \in PaymentsOf(u) /\ x[2] \in DOMAIN spend[x[1]] /\ x = <<x[1], x[2]>>
    BY <1>1, RowsAre
  <2>2. <<x[1], x[2]>> \in Rows(Payments)
    BY <2>1, RowsAre DEF PaymentsOf
  <2> QED BY <2>1, <2>2 DEF PaymentsOf
<1>2. ASSUME x \in Rows(Payments), CustomerOf[x[1]] = u PROVE x \in Rows(PaymentsOf(u))
  <2>1. x[1] \in Payments /\ x[2] \in DOMAIN spend[x[1]] /\ x = <<x[1], x[2]>>
    BY <1>2, RowsAre
  <2>2. <<x[1], x[2]>> \in Rows(PaymentsOf(u))
    BY <1>2, <2>1, RowsAre DEF PaymentsOf
  <2> QED BY <2>1, <2>2
<1> QED BY <1>1, <1>2 DEF ContactsSince

\* The contact limit of a customer: a window that ends at a commitment or
\* later holds no more of the earlier rows than the call had counted.
LEMMA ContactLimitKept ==
    ASSUME TypeInv, CallersInv, [Next]_vars, ContactLimitHolds, \A c \in Callers : Current(c)
    PROVE  ContactLimitHolds'
<1> DEFINE W(u, t) == {x \in ContactsSince(u, t - Day) : Row(x).ts <= t}
<1>1. CASE spend' = spend
  <2>1. \A u, t : ContactsSince(u, t - Day)' = ContactsSince(u, t - Day) /\ \A x : Row(x)' = Row(x)
    BY <1>1, SameCounts
  <2> QED BY <2>1 DEF ContactLimitHolds
<1>2. ASSUME NEW c \in Callers, RecordSpend(c) PROVE ContactLimitHolds'
  <2> SUFFICES ASSUME NEW u \in Customers, NEW t \in Times
               PROVE  Cardinality(W(u, t)') <= contact_limit_max
    BY DEF ContactLimitHolds
  <2>1. /\ verdict[c].action \in Actions /\ pay[c] \in Payments
        /\ verdict[c].action \in ContactRungs =>
             Cardinality(ContactsSince(Customer(c), now[c] - Day)) < contact_limit_max
    BY <1>2, CommitmentFits DEF CallersInv
  <2>2. PICK y : /\ y[1] = pay[c] /\ y \notin Rows(Payments)
                 /\ Rows(Payments)' = Rows(Payments) \cup {y}
                 /\ \A x \in Rows(Payments) : Row(x)' = Row(x)
                 /\ Row(y)' = spend'[pay[c]][Len(spend[pay[c]]) + 1]
    BY <1>2, <2>1, CommitAddsRow DEF TypeInv
  <2>3. (Row(y)').rung = verdict[c].action /\ (Row(y)').ts = now[c]
    BY <1>2, <2>1, <2>2, CommitAppends DEF TypeInv
  <2>4. /\ IsFiniteSet(W(u, t)) /\ Cardinality(W(u, t)) \in Nat /\ Cardinality(W(u, t)) <= contact_limit_max
    <3>1. IsFiniteSet(ContactsSince(u, t - Day))
      BY CountsAreNumbers
    <3> QED BY <3>1, FS_Subset, FS_CardinalityType DEF ContactLimitHolds
  <2>5. \A x : x \in W(u, t) <=> /\ x \in Rows(Payments) /\ CustomerOf[x[1]] = u
                                 /\ Row(x).rung \in ContactRungs /\ Row(x).ts >= t - Day /\ Row(x).ts <= t
    BY ContactsAre
  <2>6. \A x : x \in W(u, t)' <=> /\ x \in Rows(Payments)' /\ CustomerOf[x[1]] = u
                                  /\ (Row(x)').rung \in ContactRungs
                                  /\ (Row(x)').ts >= t - Day /\ (Row(x)').ts <= t
    <3>1. \A x : x \in Rows(PaymentsOf(u))' <=> x \in Rows(Payments)' /\ CustomerOf[x[1]] = u
      BY DEF Rows, PaymentsOf
    <3> QED BY <3>1 DEF ContactsSince
  <2> HIDE DEF W
  <2>7. CASE y \notin W(u, t)'
    <3>1. W(u, t)' = W(u, t)
      BY <2>2, <2>5, <2>6, <2>7
    <3> QED BY <2>4, <3>1
  <2>8. CASE y \in W(u, t)'
    <3>1. /\ CustomerOf[pay[c]] = u /\ verdict[c].action \in ContactRungs
          /\ now[c] >= t - Day /\ now[c] <= t
      BY <2>2, <2>3, <2>6, <2>8
    <3>2. W(u, t)' = W(u, t) \cup {y} /\ y \notin W(u, t)
      BY <2>2, <2>5, <2>6, <2>8
    <3>3. W(u, t) \subseteq ContactsSince(u, now[c] - Day)
      <4> SUFFICES ASSUME NEW x \in W(u, t) PROVE Row(x).ts >= now[c] - Day
        BY <2>5, ContactsAre
      <4>1. x[1] \in Payments /\ x[2] \in DOMAIN spend[x[1]] /\ Row(x).ts >= t - Day
        BY <2>5, RowsAre
      <4>2. spend[x[1]] \in Seq(SpendRow)
        BY <4>1 DEF TypeInv, TypeOK
      <4>3. Row(x) \in SpendRow
        BY <4>1, <4>2 DEF Row
      <4>4. Row(x).ts \in Int /\ now[c] \in Int /\ t \in Int /\ Day \in Int
        BY <4>3, ClockAssumption, BoundAssumption DEF SpendRow, TypeInv, TypeOK, Times
      <4> QED BY <3>1, <4>1, <4>4
    <3>4. /\ IsFiniteSet(ContactsSince(u, now[c] - Day))
          /\ Cardinality(ContactsSince(u, now[c] - Day)) \in Nat
          /\ Cardinality(ContactsSince(u, now[c] - Day)) < contact_limit_max
      BY <2>1, <3>1, CountsAreNumbers DEF Customer
    <3>5. Cardinality(W(u, t)) <= Cardinality(ContactsSince(u, now[c] - Day))
      BY <3>3, <3>4, FS_Subset
    <3>6. Cardinality(W(u, t)') = Cardinality(W(u, t)) + 1
      BY <2>4, <3>2, FS_AddElement
    <3> QED BY <2>4, <3>4, <3>5, <3>6, CapAssumption
  <2> QED BY <2>7, <2>8
<1> QED BY <1>1, <1>2, LedgerSteps

\* The debits of an Indian day: a commitment adds at most its rung's cost to
\* the sum its call had read, and nothing to any other day's.
LEMMA SpendCapKept ==
    ASSUME TypeInv, CallersInv, [Next]_vars, SpendCapHolds, \A c \in Callers : Current(c)
    PROVE  SpendCapHolds'
<1> DEFINE D(t) == {x \in Rows(Payments) : Row(x).status = "debit" /\ ist_day(Row(x).ts) = ist_day(t)}
           f == [x \in Rows(Payments) |-> Row(x).amount]
<1>0. \A t : spent_today_inr(t) = SumFunctionOnSet(f, D(t))
  BY DEF spent_today_inr
<1>1. CASE spend' = spend
  <2>1. \A t : spent_today_inr(t)' = spent_today_inr(t)
    BY <1>1, SameCounts
  <2> QED BY <2>1 DEF SpendCapHolds
<1>2. ASSUME NEW c \in Callers, RecordSpend(c) PROVE SpendCapHolds'
  <2> SUFFICES ASSUME NEW t \in Times PROVE spent_today_inr(t)' <= spend_cap_inr
    BY DEF SpendCapHolds
  <2>1. /\ verdict[c].action \in Actions /\ pay[c] \in Payments
        /\ spent_today_inr(now[c]) + Cost[verdict[c].action] <= spend_cap_inr
    BY <1>2, CommitmentFits DEF CallersInv
  <2>2. PICK y : /\ y[1] = pay[c] /\ y \notin Rows(Payments)
                 /\ Rows(Payments)' = Rows(Payments) \cup {y}
                 /\ \A x \in Rows(Payments) : Row(x)' = Row(x)
                 /\ Row(y)' = spend'[pay[c]][Len(spend[pay[c]]) + 1]
    BY <1>2, <2>1, CommitAddsRow DEF TypeInv
  <2>3. (Row(y)').amount \in {0, Cost[verdict[c].action]} /\ (Row(y)').ts = now[c]
    BY <1>2, <2>1, <2>2, CommitAppends DEF TypeInv
  <2>4. IsFiniteSet(D(t)) /\ \A x \in D(t) : f[x] \in Nat
    <3>1. IsFiniteSet(D(t))
      BY FS_Subset DEF TypeInv
    <3>2. ASSUME NEW x \in Rows(Payments) PROVE Row(x).amount \in Nat
      <4>1. x[1] \in Payments /\ x[2] \in DOMAIN spend[x[1]]
        BY RowsAre
      <4>2. spend[x[1]] \in Seq(SpendRow)
        BY <4>1 DEF TypeInv, TypeOK
      <4>3. spend[x[1]][x[2]] \in SpendRow
        BY <4>1, <4>2
      <4> QED BY <4>3 DEF Row, SpendRow
    <3> QED BY <3>1, <3>2
  <2>5. \A x \in D(t) : f'[x] = f[x] /\ x # y
    BY <2>2
  <2>6. spent_today_inr(t)' = SumFunctionOnSet(f', D(t)')
    BY DEF spent_today_inr
  <2>7. SumFunctionOnSet(f', D(t)) = spent_today_inr(t)
    <3> HIDE DEF f, D
    <3>1. SumFunctionOnSet(f', D(t)) = SumFunctionOnSet(f, D(t))
      BY <2>4, <2>5, SumSame
    <3> QED BY <1>0, <3>1
  <2>8. CASE y \notin D(t)'
    <3>1. D(t)' = D(t)
      BY <2>2, <2>8
    <3> HIDE DEF f, D
    <3> QED BY <2>6, <2>7, <3>1 DEF SpendCapHolds
  <2>9. CASE y \in D(t)'
    <3>1. D(t)' = D(t) \cup {y} /\ ist_day(now[c]) = ist_day(t)
      BY <2>2, <2>3, <2>9 DEF ist_day
    <3>2. f'[y] \in {0, Cost[verdict[c].action]} /\ Cost[verdict[c].action] \in Nat
      BY <2>1, <2>2, <2>3, RungAssumption
    <3>3. spent_today_inr(now[c]) = spent_today_inr(t)
      <4>1. D(now[c]) = D(t)
        BY <3>1
      <4> HIDE DEF f, D
      <4> QED BY <1>0, <4>1
    <3>4. SumFunctionOnSet(f', D(t) \cup {y}) = SumFunctionOnSet(f', D(t)) + f'[y]
      <4>1. y \notin D(t) /\ \A x \in D(t) \cup {y} : f'[x] \in Nat
        BY <2>4, <2>5, <3>2
      <4> HIDE DEF f, D
      <4> QED BY <2>4, <4>1, SumAdd
    <3>5. spent_today_inr(t) \in Nat
      BY CountsAreNumbers
    <3> HIDE DEF f, D
    <3>6. spent_today_inr(t)' = spent_today_inr(t) + f'[y]
      BY <2>6, <2>7, <3>1, <3>4
    <3> QED BY <2>1, <3>2, <3>3, <3>5, <3>6, CapAssumption
  <2> QED BY <2>8, <2>9
<1> QED BY <1>1, <1>2, LedgerSteps

----------------------------------------------------------------------------
(* The theorems.                                                           *)

\* With one process nothing a call has read changes before it commits.
THEOREM SeriesHolds == Spec => [](PipelineInv /\ SeriesInv)
<1>1. Init => SeriesInv
  <2> SUFFICES ASSUME Init PROVE SeriesInv
    OBVIOUS
  <2>1. /\ Alone /\ DecidedIsIngested /\ CooldownHolds
        /\ \A c \in Callers : Current(c)
    BY DEF Init, Alone, DecidedIsIngested, CooldownHolds, PaymentsOf, Current, Guarded
  <2>2. OneDecision /\ AttemptCapHolds
    BY CapAssumption DEF Init, OneDecision, AttemptCapHolds
  <2>3. Rows(Payments) = {}
    BY DEF Init, Rows
  <2>4. ContactLimitHolds
    <3>1. \A u, t : ContactsSince(u, t) = {}
      BY <2>3, ContactsAre
    <3>2. \A u, t : {x \in ContactsSince(u, t - Day) : Row(x).ts <= t} = {}
      BY <3>1
    <3>3. Cardinality({}) <= contact_limit_max
      BY FS_EmptySet, CapAssumption
    <3> QED BY <3>2, <3>3 DEF ContactLimitHolds
  <2>5. SpendCapHolds
    <3>1. \A t : {x \in Rows(Payments) : /\ Row(x).status = "debit"
                                         /\ ist_day(Row(x).ts) = ist_day(t)} = {}
      BY <2>3
    <3>2. ASSUME NEW t PROVE spent_today_inr(t) = 0
      <4> DEFINE f == [x \in Rows(Payments) |-> Row(x).amount]
      <4>1. spent_today_inr(t) = SumFunctionOnSet(f, {})
        BY <3>1 DEF spent_today_inr
      <4> HIDE DEF f
      <4> QED BY <4>1, SumEmpty
    <3> QED BY <3>2, CapAssumption DEF SpendCapHolds
  <2> QED BY <2>1, <2>2, <2>4, <2>5 DEF SeriesInv
<1>2. PipelineInv /\ SeriesInv /\ [Next]_vars => SeriesInv'
  <2> SUFFICES ASSUME PipelineInv, SeriesInv, [Next]_vars, one_process' PROVE SeriesInv'
    BY DEF SeriesInv
  <2>1. one_process
    BY DEF Next, vars, world, Process, Begin, LoadRow, FindPrior, Decide, ReadConfig,
       ReadSuppression, CountPaymentActions, CountContacts, SumSpend, RecordEvaluation,
       RecordSpend, RecordDecision, Crash, IngestFailure, OptOut, EngageKillSwitch, Tick
  <2>2. /\ TypeInv /\ TypeOK /\ CallersInv /\ Alone /\ DecidedIsIngested /\ OneDecision
        /\ AttemptCapHolds /\ ContactLimitHolds /\ CooldownHolds /\ SpendCapHolds
        /\ \A c \in Callers : Current(c)
    BY <2>1 DEF SeriesInv, PipelineInv, TypeInv
  <2>3. Alone' /\ \A c \in Callers : Current(c)'
    BY <2>1, <2>2, AloneKept, CurrentKept
  <2>4. DecidedIsIngested' /\ OneDecision' /\ CooldownHolds'
    BY <2>2, DecisionsKept, CooldownKept
  <2>5. AttemptCapHolds' /\ ContactLimitHolds' /\ SpendCapHolds'
    BY <2>2, AttemptCapKept, ContactLimitKept, SpendCapKept
  <2> QED BY <2>3, <2>4, <2>5 DEF SeriesInv
<1>3. Spec => []SeriesInv
  <2>1. Spec => []PipelineInv
    BY PipelineHolds
  <2> QED BY <1>1, <1>2, <2>1, PTL DEF Spec
<1> QED BY <1>3, PipelineHolds, PTL

\* A payment has at most one decision row (pipeline.process_failure asks for
\* the decision on record first), however often its process dies.
THEOREM OneDecisionEach == Spec => []OneDecisionInSeries
<1>1. SeriesInv => OneDecisionInSeries
  BY DEF SeriesInv, OneDecisionInSeries
<1> QED BY <1>1, SeriesHolds, PTL

\* A payment collects no more commitments than attempt_cap_max.
THEOREM AttemptsCapped == Spec => []AttemptCapInSeries
<1>1. SeriesInv => AttemptCapInSeries
  BY DEF SeriesInv, AttemptCapInSeries
<1> QED BY <1>1, SeriesHolds, PTL

\* No 24 hours hold more contacts of a customer than contact_limit_max.
THEOREM ContactsLimited == Spec => []ContactLimitInSeries
<1>1. SeriesInv => ContactLimitInSeries
  BY DEF SeriesInv, ContactLimitInSeries
<1> QED BY <1>1, SeriesHolds, PTL

\* Two acts for one customer are a cooldown apart.
THEOREM ActsAreApart == Spec => []CooldownInSeries
<1>1. SeriesInv => CooldownInSeries
  BY DEF SeriesInv, CooldownInSeries
<1> QED BY <1>1, SeriesHolds, PTL

\* The debits of an Indian calendar day stay within spend_cap_inr.
THEOREM SpendingCapped == Spec => []SpendCapInSeries
<1>1. SeriesInv => SpendCapInSeries
  BY DEF SeriesInv, SpendCapInSeries
<1> QED BY <1>1, SeriesHolds, PTL
=============================================================================
