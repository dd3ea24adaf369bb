--------------------------- MODULE DecisionProofs ---------------------------
(***************************************************************************)
(* The engine's decision, for every ticket, confidence, history and arm:   *)
(* its order on the rungs is total, so its ranking is a sorted arrangement *)
(* of the eligible ones that starts with the best, and the trace page's    *)
(* own loop stops at that one too.                                         *)
(***************************************************************************)
EXTENDS DecisionProps, FiniteSetTheorems, TLAPS

----------------------------------------------------------------------------
(* The ladder.                                                             *)

Places == {1, 2, 3, 4, 5}

LEMMA LadderPlaces == DOMAIN ActionLadder = Places
BY DEF ActionLadder, Places

\* Every rung costs more than the one before it.
LEMMA CostsRise ==
    /\ \A i \in Places : /\ ActionLadder[i].cost \in Nat
                         /\ ActionLadder[i].effectiveness \in Nat
    /\ \A i, j \in Places : i < j => ActionLadder[i].cost < ActionLadder[j].cost
<1>1. /\ ActionLadder[1].cost = 5 /\ ActionLadder[2].cost = 10 /\ ActionLadder[3].cost = 22
      /\ ActionLadder[4].cost = 88 /\ ActionLadder[5].cost = 4200
  BY DEF ActionLadder, Rung
<1>2. /\ ActionLadder[1].effectiveness = 7 /\ ActionLadder[2].effectiveness = 11
      /\ ActionLadder[3].effectiveness = 14 /\ ActionLadder[4].effectiveness = 20
      /\ ActionLadder[5].effectiveness = 29
  BY DEF ActionLadder, Rung
<1>3. \A i, j \in Places : i < j => ActionLadder[i].cost < ActionLadder[j].cost
  BY <1>1 DEF Places
<1> QED BY <1>1, <1>2, <1>3 DEF Places

LEMMA NamesDiffer ==
    \A i, j \in Places : ActionLadder[i].name = ActionLadder[j].name => i = j
BY DEF ActionLadder, Places, Rung

LEMMA RungsOfLadder == Rungs = {ActionLadder[i] : i \in Places}
BY LadderPlaces DEF Rungs, ToSet

LEMMA RungFacts ==
    /\ IsFiniteSet(Rungs)
    /\ \A r \in Rungs : r.cost \in Nat /\ r.effectiveness \in Nat
    /\ \A r, s \in Rungs : r.cost = s.cost \/ r.name = s.name => r = s
<1>1. IsFiniteSet(Rungs)
  <2>1. Rungs = {ActionLadder[1]} \cup {ActionLadder[2]} \cup {ActionLadder[3]}
                 \cup {ActionLadder[4]} \cup {ActionLadder[5]}
    BY RungsOfLadder DEF Places
  <2> HIDE DEF Rungs
  <2> QED BY <2>1, FS_Singleton, FS_Union
<1>2. \A r \in Rungs : r.cost \in Nat /\ r.effectiveness \in Nat
  BY RungsOfLadder, CostsRise
<1>3. ASSUME NEW r \in Rungs, NEW s \in Rungs, r.cost = s.cost \/ r.name = s.name
      PROVE  r = s
  <2>1. PICK i \in Places, j \in Places : r = ActionLadder[i] /\ s = ActionLadder[j]
    BY RungsOfLadder
  <2>2. i \in Int /\ j \in Int
    BY DEF Places
  <2>3. CASE r.name = s.name
    BY <2>1, <2>3, NamesDiffer
  <2>4. CASE r.cost = s.cost
    <3>1. ~ (i < j) /\ ~ (j < i)
      BY <2>1, <2>4, CostsRise
    <3> QED BY <2>1, <2>2, <3>1
  <2> QED BY <1>3, <2>3, <2>4
<1> QED BY <1>1, <1>2, <1>3

\* The first rung needs no channel, so there is always one to consider.
LEMMA SomeRungEligible ==
    ASSUME NEW e
    PROVE  1 \in Scored(e) /\ ActionLadder[1] \in Eligible(e) /\ Eligible(e) \in SUBSET Rungs
<1>1. ChannelOk(ActionLadder[1], e)
  BY DEF ChannelOk, ActionLadder, Rung
<1> QED BY <1>1, LadderPlaces, RungsOfLadder DEF Scored, Eligible, Places

----------------------------------------------------------------------------
(* The arithmetic.                                                         *)

LEMMA PriorFacts == \A c \in Causes : IncrementalPriors[c] \in Nat /\ IncrementalPriors[c] # 0
BY DEF Causes, IncrementalPriors

LEMMA ProductIsNat == ASSUME NEW m \in Nat, NEW n \in Nat PROVE m * n \in Nat
OBVIOUS

LEMMA EventFacts ==
    ASSUME NEW e \in Events
    PROVE  /\ e.cause \in Causes /\ e.confidence \in Nat /\ 25 - e.confidence \in Nat
           /\ e.ticket \in Nat /\ e.risk_blocked \in BOOLEAN
           /\ e.already_recovered \in BOOLEAN
<1>1. e.confidence \in 0..25 /\ e.ticket \in Nat
  BY InputAssumption DEF Events
<1> QED BY <1>1 DEF Events

LEMMA PIsNat ==
    ASSUME NEW e \in Events, NEW h \in Histories
    PROVE  PEffective(e, h) \in Nat
<1>1. e.confidence * IncrementalPriors[e.cause] \in Nat
  BY EventFacts, PriorFacts, ProductIsNat
<1>2. (25 - e.confidence) * population_incremental \in Nat
  BY EventFacts, ProductIsNat DEF population_incremental
<1>3. e.confidence * IncrementalPriors[e.cause]
        + (25 - e.confidence) * population_incremental \in Nat
  BY <1>1, <1>2
<1>4. (IF h.control_recovery THEN 1 ELSE 4) \in Nat
  OBVIOUS
<1> QED BY <1>3, <1>4, ProductIsNat DEF PEffective

LEMMA EvIsInt ==
    ASSUME NEW e \in Events, NEW h \in Histories, NEW r \in Rungs
    PROVE  Ev(r, e, h) \in Int
<1> DEFINE p == PEffective(e, h) * r.effectiveness
           q == IF p < RungCap THEN p ELSE RungCap
<1>1. p \in Nat
  BY PIsNat, RungFacts, ProductIsNat
<1>2. q \in Nat
  BY <1>1 DEF RungCap
<1>3. q * e.ticket \in Nat
  BY <1>2, EventFacts, ProductIsNat
<1>4. r.cost * (Unit \div 100) \in Nat
  <2>1. Unit \div 100 \in Nat
    BY DEF Unit
  <2> QED BY <2>1, RungFacts, ProductIsNat
<1>5. Ev(r, e, h) = q * e.ticket - r.cost * (Unit \div 100)
  BY DEF Ev
<1> QED BY <1>3, <1>4, <1>5

----------------------------------------------------------------------------
(* The order (-ev, cost) is total on the rungs.                            *)

LEMMA OrderIsTotal ==
    ASSUME NEW e \in Events, NEW h \in Histories
    PROVE  /\ \A r \in Rungs : ~ Before(r, r, e, h)
           /\ \A r, s \in Rungs : r = s \/ Before(r, s, e, h) \/ Before(s, r, e, h)
           /\ \A r, s, t \in Rungs :
                Before(r, s, e, h) /\ Before(s, t, e, h) => Before(r, t, e, h)
<1>1. \A r \in Rungs : Ev(r, e, h) \in Int /\ r.cost \in Nat
  BY EvIsInt, RungFacts
<1>2. \A r \in Rungs : ~ Before(r, r, e, h)
  BY <1>1 DEF Before
<1>3. \A r, s \in Rungs : r = s \/ Before(r, s, e, h) \/ Before(s, r, e, h)
  BY <1>1, RungFacts DEF Before
<1>4. ASSUME NEW r \in Rungs, NEW s \in Rungs, NEW t \in Rungs,
             Before(r, s, e, h), Before(s, t, e, h)
      PROVE  Before(r, t, e, h)
  BY <1>1, <1>4 DEF Before
<1> QED BY <1>2, <1>3, <1>4

\* Who ranks higher is beaten by fewer rungs.
LEMMA FewerBeatTheBetter ==
    ASSUME NEW e \in Events, NEW h \in Histories
    PROVE  /\ IsFiniteSet(Eligible(e)) /\ Cardinality(Eligible(e)) \in Nat
           /\ \A r \in Eligible(e) :
                /\ IsFiniteSet(BetterThan(r, e, h))
                /\ Cardinality(BetterThan(r, e, h)) \in 0..(Cardinality(Eligible(e)) - 1)
           /\ \A r, s \in Eligible(e) :
                Before(r, s, e, h) <=>
                  Cardinality(BetterThan(r, e, h)) < Cardinality(BetterThan(s, e, h))
<1>1. IsFiniteSet(Eligible(e)) /\ Cardinality(Eligible(e)) \in Nat
  BY SomeRungEligible, RungFacts, FS_Subset, FS_CardinalityType
<1>2. \A r \in Eligible(e) : BetterThan(r, e, h) \in SUBSET Eligible(e)
  BY DEF BetterThan
<1>3. \A r \in Eligible(e) : IsFiniteSet(BetterThan(r, e, h)) /\ Cardinality(BetterThan(r, e, h)) \in Nat
  BY <1>1, <1>2, FS_Subset, FS_CardinalityType
<1>4. ASSUME NEW r \in Eligible(e)
      PROVE  Cardinality(BetterThan(r, e, h)) <= Cardinality(Eligible(e)) - 1
  <2>1. BetterThan(r, e, h) \in SUBSET (Eligible(e) \ {r})
    BY OrderIsTotal, SomeRungEligible DEF BetterThan
  <2>2. IsFiniteSet(Eligible(e) \ {r})
        /\ Cardinality(Eligible(e) \ {r}) = Cardinality(Eligible(e)) - 1
    BY <1>1, FS_RemoveElement
  <2> QED BY <2>1, <2>2, FS_Subset
<1>5. ASSUME NEW r \in Eligible(e), NEW s \in Eligible(e), Before(r, s, e, h)
      PROVE  Cardinality(BetterThan(r, e, h)) < Cardinality(BetterThan(s, e, h))
  <2> DEFINE R == BetterThan(r, e, h)
             S == BetterThan(s, e, h)
  <2>1. r \in S /\ r \notin R /\ R \subseteq S
    BY <1>5, OrderIsTotal, SomeRungEligible DEF BetterThan
  <2>2. IsFiniteSet(R) /\ IsFiniteSet(S) /\ Cardinality(R) \in Nat /\ Cardinality(S) \in Nat
    BY <1>3
  <2> HIDE DEF R, S
  <2>3. Cardinality(R) <= Cardinality(S) /\ (Cardinality(R) = Cardinality(S) => R = S)
    <3> R \in SUBSET S
      BY <2>1
    <3> QED BY <2>2, FS_Subset
  <2>4. R # S
    BY <2>1
  <2>5. Cardinality(R) < Cardinality(S)
    BY <2>2, <2>3, <2>4
  <2> QED BY <2>5 DEF R, S
<1>6. ASSUME NEW r \in Eligible(e), NEW s \in Eligible(e),
             Cardinality(BetterThan(r, e, h)) < Cardinality(BetterThan(s, e, h))
      PROVE  Before(r, s, e, h)
  <2>1. r # s /\ ~ Before(s, r, e, h)
    BY <1>3, <1>5, <1>6
  <2> QED BY <2>1, OrderIsTotal, SomeRungEligible
<1> QED BY <1>1, <1>3, <1>4, <1>5, <1>6

----------------------------------------------------------------------------
(* The ranking.                                                            *)

\* RankedRungs is what sorted() returns: every eligible rung in one place, each
\* before those it beats.
THEOREM RankingIsSorted ==
    ASSUME NEW e \in Events, NEW h \in Histories
    PROVE  LET n == Cardinality(Eligible(e))
           IN  /\ n \in Nat \ {0}
               /\ RankedRungs(e, h) \in [1..n -> Eligible(e)]
               /\ \A r \in Eligible(e) : \E i \in 1..n : RankedRungs(e, h)[i] = r
               /\ \A i, j \in 1..n :
                    i < j <=> Before(RankedRungs(e, h)[i], RankedRungs(e, h)[j], e, h)
<1> DEFINE E == Eligible(e)
           n == Cardinality(E)
           place(r) == Cardinality(BetterThan(r, e, h)) + 1
           f == [r \in E |-> place(r)]
<1>1. /\ IsFiniteSet(E) /\ n \in Nat
      /\ \A r \in E : Cardinality(BetterThan(r, e, h)) \in 0..(n - 1)
      /\ \A r, s \in E :
           Before(r, s, e, h) <=>
             Cardinality(BetterThan(r, e, h)) < Cardinality(BetterThan(s, e, h))
  BY FewerBeatTheBetter
<1>2. n # 0
  BY <1>1, SomeRungEligible, FS_EmptySet
<1>3. \A r \in E : f[r] = place(r) /\ f[r] \in 1..n
  BY <1>1
<1>4. \A r, s \in E : Before(r, s, e, h) <=> f[r] < f[s]
  <2> SUFFICES ASSUME NEW r \in E, NEW s \in E
               PROVE  Before(r, s, e, h) <=> f[r] < f[s]
    OBVIOUS
  <2>1. Cardinality(BetterThan(r, e, h)) \in Int /\ Cardinality(BetterThan(s, e, h)) \in Int
    BY <1>1
  <2>2. place(r) < place(s) <=>
          Cardinality(BetterThan(r, e, h)) < Cardinality(BetterThan(s, e, h))
    BY <2>1
  <2> QED BY <1>1, <1>3, <2>2
<1>5. f \in Injection(E, 1..n)
  <2>1. f \in [E -> 1..n]
    BY <1>3
  <2>2. ASSUME NEW r \in E, NEW s \in E, f[r] = f[s]
        PROVE  r = s
    <3>1. f[r] \in Int /\ f[s] \in Int
      BY <1>3
    <3>2. ~ Before(r, s, e, h) /\ ~ Before(s, r, e, h)
      BY <1>4, <2>2, <3>1
    <3> QED BY <3>2, OrderIsTotal, SomeRungEligible
  <2> HIDE DEF f
  <2> QED BY <2>1, <2>2 DEF Injection, IsInjective
<1>6. f \in Surjection(E, 1..n)
  <2>1. IsFiniteSet(1..n) /\ Cardinality(1..n) = n
    BY <1>1, <1>2, FS_Interval
  <2> HIDE DEF f
  <2> QED BY <1>1, <1>5, <2>1, FS_Injection
<1>7. \A i \in 1..n : RankedRungs(e, h)[i] \in E /\ f[RankedRungs(e, h)[i]] = i
  <2> SUFFICES ASSUME NEW i \in 1..n
               PROVE  RankedRungs(e, h)[i] \in E /\ f[RankedRungs(e, h)[i]] = i
    OBVIOUS
  <2>1. PICK r \in E : f[r] = i
    <3> HIDE DEF f
    <3> QED BY <1>6 DEF Surjection
  <2>2. Cardinality(BetterThan(r, e, h)) = i - 1
    BY <1>1, <1>3, <2>1
  <2>3. RankedRungs(e, h)[i] = CHOOSE s \in E : Cardinality(BetterThan(s, e, h)) = i - 1
    BY DEF RankedRungs
  <2>4. RankedRungs(e, h)[i] \in E
        /\ Cardinality(BetterThan(RankedRungs(e, h)[i], e, h)) = i - 1
    <3> DEFINE P(s) == Cardinality(BetterThan(s, e, h)) = i - 1
    <3>1. P(r)
      BY <2>2
    <3> HIDE DEF P, E
    <3>2. (CHOOSE s \in E : P(s)) \in E /\ P(CHOOSE s \in E : P(s))
      BY <3>1
    <3> QED BY <2>3, <3>2 DEF P
  <2> QED BY <1>3, <2>4
<1>8. \A r \in E : \E i \in 1..n : RankedRungs(e, h)[i] = r
  <2> SUFFICES ASSUME NEW r \in E PROVE \E i \in 1..n : RankedRungs(e, h)[i] = r
    OBVIOUS
  <2>1. f[r] \in 1..n
    BY <1>3
  <2>2. RankedRungs(e, h)[f[r]] \in E /\ f[RankedRungs(e, h)[f[r]]] = f[r]
    BY <1>7, <2>1
  <2> HIDE DEF f
  <2>3. RankedRungs(e, h)[f[r]] = r
    BY <1>5, <2>2 DEF Injection, IsInjective
  <2> QED BY <2>1, <2>3
<1>9. RankedRungs(e, h) \in [1..n -> E]
  <2>1. RankedRungs(e, h) = [i \in 1..n |-> RankedRungs(e, h)[i]]
    BY DEF RankedRungs
  <2> HIDE DEF E
  <2> QED BY <1>7, <2>1
<1>10. \A i, j \in 1..n : i < j <=> Before(RankedRungs(e, h)[i], RankedRungs(e, h)[j], e, h)
  BY <1>4, <1>7
<1> HIDE DEF f, n, E
<1>11. /\ n \in Nat \ {0}
       /\ RankedRungs(e, h) \in [1..n -> E]
       /\ \A r \in E : \E i \in 1..n : RankedRungs(e, h)[i] = r
       /\ \A i, j \in 1..n : i < j <=> Before(RankedRungs(e, h)[i], RankedRungs(e, h)[j], e, h)
  BY <1>1, <1>2, <1>8, <1>9, <1>10
<1> QED BY <1>11 DEF n, E

\* The best rung is the first of the ranking, and no other beats it.
LEMMA BestIsFirst ==
    ASSUME NEW e \in Events, NEW h \in Histories
    PROVE  /\ Best(e, h) \in Eligible(e)
           /\ \A r \in Eligible(e) : r = Best(e, h) \/ Before(Best(e, h), r, e, h)
           /\ RankedRungs(e, h) # << >> /\ Head(RankedRungs(e, h)) = Best(e, h)
<1> DEFINE n == Cardinality(Eligible(e))
           first == RankedRungs(e, h)[1]
<1>1. /\ n \in Nat /\ 1 \in 1..n /\ first \in Eligible(e)
      /\ DOMAIN RankedRungs(e, h) = 1..n
      /\ \A r \in Eligible(e) : \E i \in 1..n : RankedRungs(e, h)[i] = r
      /\ \A i, j \in 1..n : i < j <=> Before(RankedRungs(e, h)[i], RankedRungs(e, h)[j], e, h)
  BY RankingIsSorted
<1>2. ASSUME NEW r \in Eligible(e)
      PROVE  r = first \/ Before(first, r, e, h)
  <2>1. PICK i \in 1..n : RankedRungs(e, h)[i] = r
    BY <1>1
  <2>2. i = 1 \/ 1 < i
    BY <1>1
  <2> QED BY <1>1, <2>1, <2>2
<1>3. BetterThan(first, e, h) = {}
  <2> SUFFICES ASSUME NEW r \in Eligible(e), Before(r, first, e, h) PROVE FALSE
    BY DEF BetterThan
  <2> QED BY <1>1, <1>2, OrderIsTotal, SomeRungEligible
<1>4. Best(e, h) \in Eligible(e) /\ BetterThan(Best(e, h), e, h) = {}
  <2> HIDE DEF first
  <2> QED BY <1>1, <1>3 DEF Best
<1>5. Best(e, h) = first
  <2>1. ~ Before(first, Best(e, h), e, h)
    BY <1>1, <1>4 DEF BetterThan
  <2> QED BY <1>2, <1>4, <2>1
<1>6. RankedRungs(e, h) # << >> /\ Head(RankedRungs(e, h)) = first
  <2>1. RankedRungs(e, h) \in Seq(Eligible(e))
    BY RankingIsSorted
  <2>2. RankedRungs(e, h) # << >>
    BY <1>1
  <2> QED BY <2>1, <2>2
<1> QED BY <1>2, <1>4, <1>5, <1>6

\* The trace page's loop in the order of the policy, which keeps the first of
\* the highest, finds the same rung: the ladder's costs rise.
THEOREM TraceBestIsBest ==
    ASSUME NEW e \in Events, NEW h \in Histories
    PROVE  TraceBest(e, h) = Best(e, h)
<1> DEFINE P(i) == \A j \in Scored(e) :
                     \/ Ev(ActionLadder[i], e, h) > Ev(ActionLadder[j], e, h)
                     \/ Ev(ActionLadder[i], e, h) = Ev(ActionLadder[j], e, h) /\ i <= j
<1>1. \A i \in Scored(e) : /\ i \in Places /\ i \in Int
                           /\ ActionLadder[i] \in Eligible(e)
                           /\ ActionLadder[i] \in Rungs
                           /\ Ev(ActionLadder[i], e, h) \in Int
  BY LadderPlaces, RungsOfLadder, EvIsInt DEF Scored, Eligible, Places
<1>2. PICK b \in Scored(e) : ActionLadder[b] = Best(e, h)
  BY BestIsFirst, RungsOfLadder, LadderPlaces DEF Scored, Eligible
<1>3. P(b)
  <2> SUFFICES ASSUME NEW j \in Scored(e)
               PROVE  \/ Ev(ActionLadder[b], e, h) > Ev(ActionLadder[j], e, h)
                      \/ Ev(ActionLadder[b], e, h) = Ev(ActionLadder[j], e, h) /\ b <= j
    OBVIOUS
  <2>1. ActionLadder[j] = ActionLadder[b] \/ Before(ActionLadder[b], ActionLadder[j], e, h)
    BY <1>1, <1>2, BestIsFirst
  <2>2. /\ ActionLadder[b].cost \in Nat /\ ActionLadder[j].cost \in Nat
        /\ j < b => ActionLadder[j].cost < ActionLadder[b].cost
    BY <1>1, CostsRise
  <2>3. CASE ActionLadder[j] = ActionLadder[b]
    <3>1. ~ (j < b)
      BY <2>2, <2>3
    <3> QED BY <1>1, <2>3, <3>1
  <2>4. CASE Before(ActionLadder[b], ActionLadder[j], e, h)
    BY <1>1, <2>2, <2>4 DEF Before
  <2> QED BY <2>1, <2>3, <2>4
<1>4. ASSUME NEW i \in Scored(e), P(i) PROVE i = b
  <2>1. /\ \/ Ev(ActionLadder[i], e, h) > Ev(ActionLadder[b], e, h)
           \/ Ev(ActionLadder[i], e, h) = Ev(ActionLadder[b], e, h) /\ i <= b
        /\ \/ Ev(ActionLadder[b], e, h) > Ev(ActionLadder[i], e, h)
           \/ Ev(ActionLadder[b], e, h) = Ev(ActionLadder[i], e, h) /\ b <= i
    BY <1>3, <1>4
  <2> QED BY <1>1, <2>1
<1>5. TraceBest(e, h) = ActionLadder[CHOOSE i \in Scored(e) : P(i)]
  BY DEF TraceBest
<1> HIDE DEF P
<1> QED BY <1>2, <1>3, <1>4, <1>5

----------------------------------------------------------------------------
(* The answer.                                                             *)

LEMMA GateIsAReason ==
    ASSUME NEW e \in Events, NEW h \in Histories, HardGate(e, h) # None
    PROVE  HardGate(e, h) \in EngineSkips \ {"CONTROL_ARM", "EV_BELOW_FLOOR"}
BY DEF HardGate, EngineSkips

LEMMA BestHasAName ==
    ASSUME NEW e \in Events, NEW h \in Histories
    PROVE  Best(e, h).name # None /\ Best(e, h) \in Rungs /\ Ev(Best(e, h), e, h) \in Int
BY BestIsFirst, SomeRungEligible, EvIsInt, NoneAssumption

\* The five ways out of decide_with_ladder.
LEMMA WaysOut ==
    ASSUME NEW e \in Events, NEW h \in Histories, NEW a \in Arms
    PROVE  \/ /\ HardGate(e, h) # None
              /\ decide(e, a, h) = Answer("SKIP", None, HardGate(e, h), None, << >>)
           \/ /\ HardGate(e, h) = None /\ a = "control"
              /\ decide(e, a, h) = Answer("SKIP", None, "CONTROL_ARM",
                    IF WouldAct(e, h) THEN Best(e, h).name ELSE None, << >>)
           \/ /\ HardGate(e, h) = None /\ a = "treatment" /\ BelowFloor(e, h)
              /\ decide(e, a, h) = Answer("SKIP", None, "EV_BELOW_FLOOR", None, << >>)
           \/ /\ HardGate(e, h) = None /\ a = "treatment" /\ ~ BelowFloor(e, h) /\ Routed(e, h)
              /\ decide(e, a, h) = Answer("ROUTE_TO_HUMAN", Best(e, h).name, None, None, << >>)
           \/ /\ HardGate(e, h) = None /\ a = "treatment" /\ ~ BelowFloor(e, h) /\ ~ Routed(e, h)
              /\ decide(e, a, h) = Answer("ACT", Best(e, h).name, None, None, RankedRungs(e, h))
BY DEF decide, Arms

\* What the pipeline, the dashboard and the audit assume of an answer holds of
\* every answer: a reason with each SKIP and only then, an action with the
\* others, CONTROL_ARM in the control arm only, and with an ACT the ranked
\* rungs, each once, the action first.
THEOREM AnswersAreWellFormed ==
    ASSUME NEW e \in Events, NEW h \in Histories, NEW a \in Arms
    PROVE  LET d == decide(e, a, h)
           IN  /\ d.terminal \in {"SKIP", "ROUTE_TO_HUMAN", "ACT"}
               /\ d.terminal = "SKIP" <=> d.skip_reason \in EngineSkips
               /\ d.terminal = "SKIP" <=> d.action = None
               /\ d.terminal # "SKIP" => d.skip_reason = None
               /\ d.skip_reason = "CONTROL_ARM" => a = "control"
               /\ d.terminal = "ACT" =>
                    /\ d.ranked_rungs \in Seq(Eligible(e)) /\ d.ranked_rungs # << >>
                    /\ Head(d.ranked_rungs).name = d.action
                    /\ \A i, j \in DOMAIN d.ranked_rungs :
                         d.ranked_rungs[i].name = d.ranked_rungs[j].name => i = j
<1> DEFINE d == decide(e, a, h)
           n == Cardinality(Eligible(e))
<1>1. None \notin EngineSkips /\ Best(e, h).name # None
  BY NoneAssumption, BestHasAName
<1>2. /\ RankedRungs(e, h) \in Seq(Eligible(e)) /\ RankedRungs(e, h) # << >>
      /\ Head(RankedRungs(e, h)).name = Best(e, h).name
  BY RankingIsSorted, BestIsFirst
<1>3. ASSUME NEW i \in DOMAIN RankedRungs(e, h), NEW j \in DOMAIN RankedRungs(e, h),
             RankedRungs(e, h)[i].name = RankedRungs(e, h)[j].name
      PROVE  i = j
  <2>1. /\ n \in Nat /\ i \in 1..n /\ j \in 1..n
        /\ RankedRungs(e, h)[i] \in Rungs /\ RankedRungs(e, h)[j] \in Rungs
        /\ \A k, l \in 1..n : k < l <=> Before(RankedRungs(e, h)[k], RankedRungs(e, h)[l], e, h)
    BY RankingIsSorted, SomeRungEligible
  <2>2. RankedRungs(e, h)[i] = RankedRungs(e, h)[j]
    BY <1>3, <2>1, RungFacts
  <2>3. ~ (i < j) /\ ~ (j < i)
    BY <2>1, <2>2, OrderIsTotal
  <2> QED BY <2>1, <2>3
<1>4. CASE HardGate(e, h) # None
  <2>1. d = Answer("SKIP", None, HardGate(e, h), None, << >>)
    BY <1>4, WaysOut
  <2> QED BY <1>4, <2>1, GateIsAReason DEF Answer
<1>5. CASE d.terminal = "SKIP" /\ HardGate(e, h) = None
  <2>1. d.action = None /\ d.skip_reason \in EngineSkips
        /\ (d.skip_reason = "CONTROL_ARM" => a = "control")
    BY <1>5, WaysOut DEF Answer, EngineSkips
  <2> QED BY <1>5, <2>1
<1>6. CASE d.terminal # "SKIP" /\ HardGate(e, h) = None
  <2>1. /\ d.terminal \in {"ROUTE_TO_HUMAN", "ACT"}
        /\ d.action = Best(e, h).name /\ d.skip_reason = None
        /\ d.terminal = "ACT" => d.ranked_rungs = RankedRungs(e, h)
    BY <1>6, WaysOut DEF Answer
  <2> HIDE DEF d
  <2>2. "CONTROL_ARM" \in EngineSkips
    BY DEF EngineSkips
  <2>3. d.terminal = "ACT" =>
                    /\ d.ranked_rungs \in Seq(Eligible(e)) /\ d.ranked_rungs # << >>
                    /\ Head(d.ranked_rungs).name = d.action
                    /\ \A i, j \in DOMAIN d.ranked_rungs :
                         d.ranked_rungs[i].name = d.ranked_rungs[j].name => i = j
    BY <1>2, <1>3, <2>1
  <2> QED BY <1>1, <1>6, <2>1, <2>2, <2>3 DEF d
<1> QED BY <1>4, <1>5, <1>6

----------------------------------------------------------------------------
(* The promises.                                                           *)

\* What was asked is one of the engine's inputs, and what it answered is
\* decide_with_ladder's answer to it.
AskedInv ==
    /\ event \in Events /\ history \in Histories /\ arm \in Arms
    /\ decision.terminal # "none" => decision = decide(event, arm, history)

LEMMA AskedHolds == EngineSpec => []AskedInv
<1>1. EngineInit => AskedInv
  BY DEF EngineInit, Unasked, AskedInv, Answer
<1>2. AskedInv /\ [Ask]_engine_vars => AskedInv'
  BY DEF AskedInv, Ask, engine_vars
<1> QED BY <1>1, <1>2, PTL DEF EngineSpec

\* With nothing in its way the event is acted on exactly if it would be.
LEMMA TreatedActs ==
    ASSUME NEW e \in Events, NEW h \in Histories
    PROVE  WouldAct(e, h) <=> ~ BelowFloor(e, h) /\ ~ Routed(e, h)
BY BestHasAName DEF WouldAct, BelowFloor, min_ev_inr, Unit

\* ShadowIsTreatment: the shadow action a control is recorded with is what the
\* same event would have got in treatment.
THEOREM ShadowsAreTreatments == EngineSpec => []ShadowIsTreatment
<1>1. AskedInv => ShadowIsTreatment
  <2> SUFFICES ASSUME AskedInv, decision.terminal # "none", arm = "control"
               PROVE  LET treated == decide(event, "treatment", history)
                      IN  decision.shadow_action =
                            IF treated.terminal = "ACT" THEN treated.action ELSE None
    BY DEF ShadowIsTreatment
  <2>1. event \in Events /\ history \in Histories /\ "treatment" \in Arms /\ "control" \in Arms
        /\ decision = decide(event, "control", history)
    BY DEF AskedInv, Arms
  <2>2. CASE HardGate(event, history) # None
    <3>1. decide(event, "treatment", history) = decision /\ decision.terminal = "SKIP"
          /\ decision.shadow_action = None
      BY <2>1, <2>2 DEF decide, Answer
    <3> QED BY <3>1
  <2>3. CASE HardGate(event, history) = None
    <3>1. decision.shadow_action = IF WouldAct(event, history) THEN Best(event, history).name ELSE None
      BY <2>1, <2>3 DEF decide, Answer
    <3>2. decide(event, "treatment", history).terminal = "ACT" <=>
            ~ BelowFloor(event, history) /\ ~ Routed(event, history)
      BY <2>3 DEF decide, Answer
    <3>3. decide(event, "treatment", history).terminal = "ACT" =>
            decide(event, "treatment", history).action = Best(event, history).name
      BY <2>3 DEF decide, Answer
    <3> QED BY <2>1, <3>1, <3>2, <3>3, TreatedActs
  <2> QED BY <2>2, <2>3
<1> QED BY <1>1, AskedHolds, PTL

\* A rung reaches the floor exactly if the best one does.
LEMMA FloorIsTheBests ==
    ASSUME NEW e \in Events, NEW h \in Histories
    PROVE  BelowFloor(e, h) <=> Viable(e, h) = {}
<1>1. min_ev_inr \in Int
  BY DEF min_ev_inr, Unit
<1>2. PICK b \in Scored(e) : ActionLadder[b] = Best(e, h)
  BY BestIsFirst, RungsOfLadder, LadderPlaces DEF Scored, Eligible
<1>3. ASSUME NEW i \in Scored(e)
      PROVE  Ev(ActionLadder[i], e, h) <= Ev(Best(e, h), e, h)
             /\ Ev(ActionLadder[i], e, h) \in Int
  <2>1. ActionLadder[i] \in Eligible(e) /\ ActionLadder[i] \in Rungs
    BY RungsOfLadder, LadderPlaces DEF Scored, Eligible
  <2>2. Ev(ActionLadder[i], e, h) \in Int /\ Ev(Best(e, h), e, h) \in Int
    BY <2>1, EvIsInt, BestHasAName
  <2>3. ActionLadder[i] = Best(e, h) \/ Before(Best(e, h), ActionLadder[i], e, h)
    BY <2>1, BestIsFirst
  <2> QED BY <2>2, <2>3 DEF Before
<1>4. Ev(Best(e, h), e, h) \in Int
  BY BestHasAName
<1>5. ASSUME BelowFloor(e, h), NEW i \in Viable(e, h) PROVE FALSE
  BY <1>1, <1>3, <1>4, <1>5 DEF BelowFloor, Viable
<1>6. ASSUME ~ BelowFloor(e, h) PROVE b \in Viable(e, h)
  BY <1>1, <1>2, <1>4, <1>6 DEF BelowFloor, Viable
<1> QED BY <1>5, <1>6

\* TraceScoresAlike: the rung the trace page calls the best is the one the
\* decision went by, and none is viable exactly under EV_BELOW_FLOOR.
THEOREM TraceScoresTheSame == EngineSpec => []TraceScoresAlike
<1>1. AskedInv => TraceScoresAlike
  <2> SUFFICES ASSUME AskedInv, decision.terminal # "none", HardGate(event, history) = None
               PROVE  LET best == TraceBest(event, history).name
                      IN  /\ decision.action # None => decision.action = best
                          /\ decision.shadow_action # None => decision.shadow_action = best
                          /\ decision.terminal = "ACT" => Head(decision.ranked_rungs).name = best
                          /\ arm = "treatment" =>
                               (decision.skip_reason = "EV_BELOW_FLOOR" <=> Viable(event, history) = {})
    BY DEF TraceScoresAlike
  <2>1. event \in Events /\ history \in Histories /\ arm \in Arms
        /\ decision = decide(event, arm, history)
    BY DEF AskedInv
  <2>2. TraceBest(event, history) = Best(event, history)
    BY <2>1, TraceBestIsBest
  <2>3. decision.action # None => decision.action = Best(event, history).name
    BY <2>1, WaysOut DEF Answer
  <2>4. decision.shadow_action # None => decision.shadow_action = Best(event, history).name
    BY <2>1, WaysOut DEF Answer
  <2>5. decision.terminal = "ACT" => Head(decision.ranked_rungs).name = Best(event, history).name
    <3>1. decision.terminal = "ACT" => decision.ranked_rungs = RankedRungs(event, history)
      BY <2>1, WaysOut DEF Answer
    <3> QED BY <2>1, <3>1, BestIsFirst
  <2>6. None # "EV_BELOW_FLOOR"
    BY NoneAssumption DEF EngineSkips
  <2>7. arm = "treatment" => (decision.skip_reason = "EV_BELOW_FLOOR" <=> BelowFloor(event, history))
    BY <2>1, <2>6, WaysOut DEF Answer
  <2> QED BY <2>1, <2>2, <2>3, <2>4, <2>5, <2>7, FloorIsTheBests
<1> QED BY <1>1, AskedHolds, PTL
=============================================================================
