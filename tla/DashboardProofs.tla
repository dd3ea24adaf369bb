--------------------------- MODULE DashboardProofs ---------------------------
(***************************************************************************)
(* What a page shows, for any number of callers beside its reader: what is *)
(* read first is never more than what is read later, and each decision,    *)
(* commitment and evaluation that a page joins by eye is on record in an   *)
(* order that lets it.                                                     *)
(***************************************************************************)
EXTENDS Dashboard, PipelineProofs, SequenceTheorems

----------------------------------------------------------------------------
(* What the log says of itself, whoever writes it.                         *)

\* A verdict as the engine or the walk gives it.
Sound(p, v) ==
    /\ v.terminal = "SKIP" <=> v.reason \in SkipReasons
    /\ v.terminal = "ACT" => v.action \in Actions
    /\ v.terminal \in {"SKIP", "BLOCKED"} => v.action = NoAction
    /\ v.reason = "CONTROL_ARM" => ArmOf[CustomerOf[p]] = "control"

\* A call at ts was vetoed on every rung of p's ladder, and its best rung by
\* the blocker that the terminal names.
Names(p, reason, ts) ==
    \E e \in evals : /\ e.payment = p /\ e.rung = Ranking[p][1] /\ e.ts = ts
                     /\ e.blocked_by # {} /\ Primary(e.blocked_by) = reason
Vetoed(p, reason, ts) ==
    /\ Ranking[p] # << >> /\ Names(p, reason, ts)
    /\ \A i \in DOMAIN Ranking[p] : IsEvaluated(p, Ranking[p][i], ts, FALSE)

DecisionOk(p, d) ==
    /\ Sound(p, d.verdict)
    /\ d.verdict.terminal = "BLOCKED" => Vetoed(p, d.verdict.reason, d.created_at)

\* What a call is about to record.
CallOk(c) ==
    /\ pc[c] \notin {"idle", "load"} => pay[c] \in ingested
    /\ pc[c] \notin {"idle", "load", "prior", "history"} => Sound(pay[c], verdict[c])
    /\ pc[c] = "record" /\ verdict[c].terminal = "BLOCKED" =>
         Vetoed(pay[c], verdict[c].reason, now[c])

CallsInv == \A c \in Callers : CallOk(c)
DecisionsInv ==
    /\ DecidedIsIngested
    /\ \A p \in Payments : \A i \in DOMAIN decisions[p] : DecisionOk(p, decisions[p][i])

----------------------------------------------------------------------------
(* The steps on the tables.                                                *)

\* Nothing that was decided or evaluated is lost, and nothing is forgotten.
LEMMA LogGrows ==
    ASSUME TypeInv, CallersInv, [Next]_vars
    PROVE  /\ evals \subseteq evals' /\ ingested \subseteq ingested'
           /\ \A p \in Payments : \A i \in DOMAIN decisions[p] :
                i \in DOMAIN decisions'[p] /\ decisions'[p][i] = decisions[p][i]
<1>1. ASSUME NEW c \in Callers, RecordDecision(c)
      PROVE  \A p \in Payments : \A i \in DOMAIN decisions[p] :
                i \in DOMAIN decisions'[p] /\ decisions'[p][i] = decisions[p][i]
  <2>1. TypeOK
    BY DEF TypeInv
  <2> QED BY <1>1, <2>1, DecisionAppends
<1> QED BY <1>1, TablesGrow, DecisionSteps

\* What a veto rests on stays on record.
LEMMA VetoStays ==
    ASSUME evals \subseteq evals', NEW p, NEW reason, NEW ts, Vetoed(p, reason, ts)
    PROVE  Vetoed(p, reason, ts)'
BY DEF Vetoed, Names, IsEvaluated

\* The engine's answers, and the cooldown in their place, are sound.
LEMMA AnswersSound ==
    ASSUME NEW p \in Payments
    PROVE  /\ Sound(p, EngineAnswer[p]) /\ EngineAnswer[p].terminal # "BLOCKED"
           /\ Sound(p, Skip("COOLDOWN")) /\ Skip("COOLDOWN").terminal # "BLOCKED"
<1>1. EngineAnswer[p] \in Verdicts
  BY PaymentAssumption
<1>2. EngineAnswer[p].terminal = "ACT" => EngineAnswer[p].action \in Actions
  BY <1>1, EngineAssumption DEF Verdicts
<1> QED BY <1>2, EngineAssumption DEF Sound, Skip, Verdict, SkipReasons

\* The last evaluation of a walk that found no open rung vetoes the payment.
LEMMA WalkVetoes ==
    ASSUME TypeInv, NEW c \in Callers, WalkOk(c), RecordEvaluation(c),
           pc'[c] = "record"
    PROVE  /\ verdict'[c].terminal = "BLOCKED" /\ Sound(pay[c], verdict'[c])
           /\ Vetoed(pay[c], verdict[c].reason, now[c])'
           /\ step[c] + 1 = Len(Ranked(c))
<1> DEFINE i == step[c] + 1
           n == WalkLength(Ranked(c), state[c], now[c])
           none == WalkBlocked(Ranked(c), state[c], now[c])
           first == BlockedBy(Ranked(c)[1], state[c], now[c])
<1>1. pc[c] = "evals" /\ pay[c] \in Payments /\ step[c] \in Nat
  BY DEF RecordEvaluation, Goto, TypeInv, TypeOK
<1>2. /\ Ranked(c) \in Seq(Actions) /\ Ranked(c) # << >> /\ i \in DOMAIN Ranked(c)
      /\ i <= n /\ n \in DOMAIN Ranked(c)
  BY EvaluationIs
<1>3. i = n /\ none /\ verdict'[c] = Blocked(Primary(first))
  BY <1>1 DEF RecordEvaluation, Goto, TypeInv, TypeOK
<1>4. n = Len(Ranked(c)) /\ \A j \in DOMAIN Ranked(c) : IsBlocked(Ranked(c)[j], state[c], now[c])
  BY <1>3 DEF WalkLength, WalkBlocked, Open
<1>5. /\ evals' = evals \cup {[payment |-> pay[c], rung |-> Ranked(c)[i], ts |-> now[c],
                               blocked_by |-> BlockedBy(Ranked(c)[i], state[c], now[c])]}
      /\ pay'[c] = pay[c] /\ now'[c] = now[c] /\ verdict'[c] = Blocked(Primary(first))
  BY <1>3 DEF RecordEvaluation
<1>6. ASSUME NEW j \in DOMAIN Ranked(c)
      PROVE  [payment |-> pay[c], rung |-> Ranked(c)[j], ts |-> now[c],
              blocked_by |-> BlockedBy(Ranked(c)[j], state[c], now[c])] \in evals'
  <2>1. CASE j = i
    BY <1>5, <2>1
  <2>2. CASE j # i
    <3>1. j \in 1..step[c]
      BY <1>1, <1>2, <1>3, <1>4, <2>2
    <3> QED BY <1>1, <1>5, <3>1 DEF WalkOk, Tried
  <2> QED BY <2>1, <2>2
<1>7. first # {} /\ first \in SUBSET GuardrailNames
  BY <1>2, <1>4 DEF IsBlocked, BlockedBy
<1>8. Primary(first) \in GuardrailNames /\ Primary(first) \notin SkipReasons
  <2>1. Primary(first) \in GuardrailNames
    BY <1>7, PrimaryBlocks
  <2>2. \A g \in GuardrailNames : g \notin SkipReasons
    BY DEF GuardrailNames, GUARDRAIL_ORDER, SkipReasons
  <2> QED BY <2>1, <2>2
<1> HIDE DEF first, i, n, none
<1>9. /\ verdict'[c].terminal = "BLOCKED" /\ verdict'[c].reason = Primary(first)
      /\ verdict'[c].action = NoAction
  BY <1>5 DEF Blocked, Verdict
<1>10. Sound(pay[c], verdict'[c])
  BY <1>8, <1>9 DEF Sound, SkipReasons
<1>11. PICK p, reason, ts : p = pay[c] /\ p = pay'[c] /\ ts = now[c] /\ ts = now'[c]
                            /\ reason = Primary(first)
  BY <1>5
<1>12. Vetoed(p, reason, ts)'
  <2>1. 1 \in DOMAIN Ranked(c)
    BY <1>2
  <2>2. Names(p, reason, ts)'
    BY <1>6, <1>7, <1>11, <2>1 DEF Names, first, Ranked
  <2>3. ASSUME NEW j \in DOMAIN Ranking[p] PROVE IsEvaluated(p, Ranking[p][j], ts, FALSE)'
    <3>1. j \in DOMAIN Ranked(c) /\ Ranked(c)[j] = Ranking[p][j]
      BY <1>11 DEF Ranked
    <3>2. BlockedBy(Ranked(c)[j], state[c], now[c]) # {}
      BY <1>4, <3>1 DEF IsBlocked
    <3> QED BY <1>6, <1>11, <3>1, <3>2 DEF IsEvaluated
  <2> QED BY <1>2, <1>11, <2>2, <2>3 DEF Vetoed, Ranked
<1>13. Vetoed(pay[c], verdict[c].reason, now[c])'
  BY <1>1, <1>5, <1>9, <1>11, <1>12
<1> QED BY <1>3, <1>4, <1>9, <1>10, <1>13 DEF i

\* Every step leaves a call with a payment that is ingested and, once the
\* engine has answered, with a sound verdict.
LEMMA CallsKept ==
    ASSUME TypeInv, CallersInv, CallsInv, [Next]_vars
    PROVE  CallsInv'
<1> SUFFICES ASSUME NEW c \in Callers PROVE CallOk(c)'
  BY DEF CallsInv
<1> USE DEF TypeInv
<1>1. /\ CallOk(c) /\ WalkOk(c) /\ pay[c] \in Payments
      /\ ingested \subseteq ingested' /\ evals \subseteq evals'
  BY LogGrows DEF CallsInv, CallersInv, TypeOK
<1>2. CASE Stays(c)
  <2>1. PICK p, reason, ts : p = pay[c] /\ p = pay'[c] /\ ts = now[c] /\ ts = now'[c]
                             /\ reason = verdict[c].reason
    BY <1>2 DEF Stays
  <2>2. Vetoed(p, reason, ts) => Vetoed(p, reason, ts)'
    BY <1>1, VetoStays
  <2> QED BY <1>1, <1>2, <2>1, <2>2 DEF CallOk, Stays, Sound
<1>3. CASE pc'[c] \in {"idle", "load"}
  BY <1>3 DEF CallOk
<1>4. CASE (LoadRow(c) \/ FindPrior(c)) /\ pc'[c] \notin {"idle", "load"}
  <2>1. /\ pay'[c] = pay[c] /\ ingested' = ingested /\ pc'[c] \in {"prior", "history"}
        /\ pay[c] \in ingested
    BY <1>1, <1>4 DEF LoadRow, FindPrior, Goto, End, tables, TypeOK, CallOk
  <2> QED BY <2>1 DEF CallOk
<1>5. CASE Decide(c)
  <2> DEFINE d == IF InCooldown(c) /\ EngineAnswer[pay[c]].reason \notin EarlierGates
                  THEN Skip("COOLDOWN") ELSE EngineAnswer[pay[c]]
  <2>1. Sound(pay[c], d) /\ d.terminal # "BLOCKED"
    BY <1>1, AnswersSound
  <2>2. /\ pc[c] = "history" /\ verdict' = [verdict EXCEPT ![c] = d]
        /\ pay' = pay /\ ingested' = ingested
    BY <1>5 DEF Decide, Goto, tables
  <2> HIDE DEF d
  <2>3. verdict'[c] = d
    BY <2>2 DEF TypeOK
  <2> QED BY <1>1, <2>1, <2>2, <2>3 DEF CallOk, Sound
<1>6. CASE \/ ReadConfig(c) \/ ReadSuppression(c) \/ CountPaymentActions(c)
           \/ CountContacts(c) \/ SumSpend(c)
  <2>1. /\ pay' = pay /\ ingested' = ingested /\ verdict' = verdict
        /\ pc[c] \in {"config", "suppression", "attempts", "contacts", "spent"} /\ pc'[c] # "record"
    BY <1>6 DEF ReadConfig, ReadSuppression, CountPaymentActions, CountContacts, SumSpend, Goto, tables, TypeOK
  <2> QED BY <1>1, <2>1 DEF CallOk, Sound
<1>7. CASE RecordEvaluation(c)
  <2>1. pay' = pay /\ now' = now /\ ingested' = ingested /\ pc[c] = "evals"
    BY <1>7 DEF RecordEvaluation, Goto
  <2>2. CASE pc'[c] = "record"
    BY <1>1, <1>7, <2>1, <2>2, WalkVetoes DEF CallOk, Sound
  <2>3. CASE pc'[c] # "record"
    <3>1. \/ verdict'[c] = verdict[c]
          \/ verdict'[c] = Act(Ranked(c)[step[c] + 1]) /\ Ranked(c)[step[c] + 1] \in Actions
      <4>1. step[c] + 1 \in DOMAIN Ranked(c) /\ Ranked(c) \in Seq(Actions)
        BY <1>1, <1>7, EvaluationIs
      <4>2. Ranked(c)[step[c] + 1] \in Actions
        BY <4>1
      <4>3. verdict'[c] = verdict[c] \/ verdict'[c] = Act(Ranked(c)[step[c] + 1])
        BY <1>7, <2>3 DEF RecordEvaluation, Goto, TypeOK
      <4> QED BY <4>2, <4>3
    <3>2. Sound(pay[c], verdict'[c])
      <4>1. ASSUME NEW r \in Actions PROVE Sound(pay[c], Act(r))
        BY NullAssumption DEF Sound, Act, Verdict, SkipReasons
      <4> QED BY <1>1, <2>1, <3>1, <4>1 DEF CallOk
    <3> QED BY <1>1, <2>1, <2>3, <3>2 DEF CallOk, Sound
  <2> QED BY <2>2, <2>3
<1>8. CASE RecordSpend(c)
  <2>1. /\ pay' = pay /\ ingested' = ingested /\ verdict' = verdict /\ pc[c] = "spend"
        /\ verdict[c] = Act(verdict[c].action)
    BY <1>1, <1>8, CommitmentIs DEF RecordSpend, Goto
  <2>2. verdict[c].terminal = "ACT"
    BY <2>1 DEF Act, Verdict
  <2> QED BY <1>1, <2>1, <2>2 DEF CallOk, Sound
<1>9. CASE RecordDecision(c) \/ Crash(c) \/ \E p \in Payments : Begin(c, p)
  BY <1>3, <1>9 DEF RecordDecision, Crash, Begin, Goto, End, TypeOK
<1> QED BY <1>2, <1>3, <1>4, <1>5, <1>6, <1>7, <1>8, <1>9, CallerSteps DEF Process

\* Only what a call had in hand is recorded.
LEMMA DecisionsOkKept ==
    ASSUME TypeInv, CallersInv, CallsInv, DecisionsInv, [Next]_vars
    PROVE  DecisionsInv'
<1> USE DEF TypeInv
<1>1. ASSUME NEW p, NEW d, DecisionOk(p, d) PROVE DecisionOk(p, d)'
  BY <1>1, LogGrows, VetoStays DEF DecisionOk, Sound
<1>2. CASE decisions' = decisions
  BY <1>1, <1>2, LogGrows DEF DecisionsInv, DecidedIsIngested
<1>3. ASSUME NEW c \in Callers, RecordDecision(c) PROVE DecisionsInv'
  <2> DEFINE m == pay[c]
             new == Len(decisions[m]) + 1
  <2>1. /\ pc[c] = "record" /\ m \in Payments /\ ingested' = ingested
        /\ \A q \in Payments : q # m => decisions'[q] = decisions[q]
        /\ DOMAIN decisions[m] = 1..Len(decisions[m]) /\ DOMAIN decisions'[m] = 1..new
        /\ Len(decisions[m]) \in Nat
        /\ \A i \in DOMAIN decisions[m] : decisions'[m][i] = decisions[m][i]
        /\ decisions'[m][new].verdict = verdict[c] /\ decisions'[m][new].created_at = now[c]
    BY <1>3, DecisionAppends
  <2>2. /\ m \in ingested /\ Sound(m, verdict[c])
        /\ verdict[c].terminal = "BLOCKED" => Vetoed(m, verdict[c].reason, now[c])
    BY <2>1 DEF CallsInv, CallOk
  <2>3. DecisionOk(m, decisions'[m][new])
    BY <2>1, <2>2 DEF DecisionOk
  <2>4. DecidedIsIngested'
    <3> SUFFICES ASSUME NEW q \in Payments, decisions'[q] # << >> PROVE q \in ingested'
      BY DEF DecidedIsIngested
    <3> QED BY <2>1, <2>2 DEF DecidedIsIngested, DecisionsInv
  <2>5. ASSUME NEW q \in Payments, NEW i \in DOMAIN decisions'[q] PROVE DecisionOk(q, decisions[q][i])'
    <3>1. DecisionOk(q, decisions'[q][i])
      BY <2>1, <2>3 DEF DecisionsInv
    <3>2. PICK d : d = decisions'[q][i]
      OBVIOUS
    <3>3. DecisionOk(q, d)'
      BY <1>1, <3>1, <3>2
    <3> QED BY <3>2, <3>3 DEF DecisionOk, Sound
  <2> QED BY <2>4, <2>5 DEF DecisionsInv
<1> QED BY <1>2, <1>3, DecisionSteps

----------------------------------------------------------------------------
(* Acts and commitments are counted alike.                                 *)

\* The calls that have committed to an act and not recorded it yet.
Pending == {c \in Callers : pc[c] = "record" /\ verdict[c].terminal = "ACT"}

\* An act on record or about to be has a ledger row of its own; a row without
\* one is a death between ledger and decision.
CountInv ==
    /\ IsFiniteSet(DecisionRows) /\ IsFiniteSet(Pending)
    /\ Cardinality(Acts) + Cardinality(Pending) <= Cardinality(Rows(Payments))
    /\ crashes = 0 => Cardinality(Acts) + Cardinality(Pending) = Cardinality(Rows(Payments))
    /\ ~real_spend => \A x \in Rows(Payments) : Row(x).status = "dry_run"

\* A position of the decisions is a payment and the number of one of its rows.
LEMMA DecisionRowsAre ==
    /\ \A p \in Payments : \A i \in DOMAIN decisions[p] : <<p, i>> \in DecisionRows
    /\ \A x \in DecisionRows : /\ x[1] \in Payments /\ x[2] \in DOMAIN decisions[x[1]]
                               /\ x = <<x[1], x[2]>>
BY DEF DecisionRows

\* A decision is the one position that the decisions gain.
LEMMA DecisionAddsRow ==
    ASSUME TypeOK, NEW c \in Callers, RecordDecision(c)
    PROVE  \E y : /\ y[1] = pay[c] /\ y \notin DecisionRows
                  /\ DecisionRows' = DecisionRows \cup {y}
                  /\ \A x \in DecisionRows : VerdictAt(x)' = VerdictAt(x)
                  /\ VerdictAt(y)' = verdict[c]
<1> DEFINE p == pay[c]
<1>0. PICK y : y = <<p, Len(decisions[p]) + 1>>
  OBVIOUS
<1>1. /\ p \in Payments /\ Len(decisions[p]) \in Nat
      /\ \A q \in Payments : q # p => decisions'[q] = decisions[q]
      /\ DOMAIN decisions[p] = 1..Len(decisions[p])
      /\ DOMAIN decisions'[p] = 1..Len(decisions[p]) + 1
      /\ \A i \in DOMAIN decisions[p] : decisions'[p][i] = decisions[p][i]
      /\ decisions'[p][Len(decisions[p]) + 1].verdict = verdict[c]
  BY DecisionAppends
<1>2. y[1] = p /\ y \notin DecisionRows
  BY <1>0, <1>1, DecisionRowsAre
<1>3. ASSUME NEW x PROVE x \in DecisionRows' <=> x \in DecisionRows \cup {y}
  <2>1. x \in DecisionRows' <=> \E q \in Payments : \E i \in DOMAIN decisions'[q] : x = <<q, i>>
    BY DEF DecisionRows
  <2>2. x \in DecisionRows <=> \E q \in Payments : \E i \in DOMAIN decisions[q] : x = <<q, i>>
    BY DEF DecisionRows
  <2>3. \A i : i \in DOMAIN decisions'[p] <=> i \in DOMAIN decisions[p] \/ i = Len(decisions[p]) + 1
    BY <1>1
  <2> QED BY <1>0, <1>1, <2>1, <2>2, <2>3
<1>4. ASSUME NEW x \in DecisionRows PROVE VerdictAt(x)' = VerdictAt(x)
  <2>1. x[1] \in Payments /\ x[2] \in DOMAIN decisions[x[1]]
    BY DecisionRowsAre
  <2> QED BY <1>1, <2>1 DEF VerdictAt
<1>5. VerdictAt(y)' = verdict[c]
  BY <1>0, <1>1 DEF VerdictAt
<1> QED BY <1>2, <1>3, <1>4, <1>5

\* Only the callers' last two steps and a death change who is pending.
LEMMA PendingStays ==
    ASSUME TypeInv, CallersInv, [Next]_vars,
           \A c \in Callers : ~RecordSpend(c) /\ ~RecordDecision(c) /\ ~Crash(c)
    PROVE  Pending' = Pending
<1> SUFFICES ASSUME NEW c \in Callers
             PROVE  pc'[c] = "record" /\ verdict'[c].terminal = "ACT" <=>
                    pc[c] = "record" /\ verdict[c].terminal = "ACT"
  BY DEF Pending
<1> USE DEF TypeInv
<1>1. CASE Stays(c)
  BY <1>1 DEF Stays
<1>2. CASE Decide(c)
  <2> DEFINE d == IF InCooldown(c) /\ EngineAnswer[pay[c]].reason \notin EarlierGates
                  THEN Skip("COOLDOWN") ELSE EngineAnswer[pay[c]]
  <2>1. /\ pc[c] = "history" /\ verdict' = [verdict EXCEPT ![c] = d]
        /\ pc' = [pc EXCEPT ![c] = IF d.terminal = "ACT" THEN "config" ELSE "record"]
    BY <1>2 DEF Decide, Goto
  <2> HIDE DEF d
  <2>2. verdict'[c] = d /\ pc'[c] = IF d.terminal = "ACT" THEN "config" ELSE "record"
    BY <2>1 DEF TypeOK
  <2> QED BY <2>1, <2>2
<1>3. CASE RecordEvaluation(c)
  <2>1. WalkOk(c) /\ pc[c] = "evals"
    BY <1>3 DEF CallersInv, RecordEvaluation, Goto
  <2> QED BY <1>3, <2>1, WalkVetoes
<1>4. CASE \/ LoadRow(c) \/ FindPrior(c) \/ ReadConfig(c) \/ ReadSuppression(c)
           \/ CountPaymentActions(c) \/ CountContacts(c) \/ SumSpend(c)
           \/ \E p \in Payments : Begin(c, p)
  BY <1>4 DEF LoadRow, FindPrior, ReadConfig, ReadSuppression, CountPaymentActions,
     CountContacts, SumSpend, Begin, Goto, End, TypeOK
<1> QED BY <1>1, <1>2, <1>3, <1>4, CallerSteps DEF Process

\* One element more, or one fewer.
LEMMA OneMore ==
    ASSUME NEW S, IsFiniteSet(S), NEW x, x \notin S
    PROVE  /\ IsFiniteSet(S \cup {x}) /\ Cardinality(S) \in Nat
           /\ Cardinality(S \cup {x}) = Cardinality(S) + 1
BY FS_AddElement, FS_CardinalityType

LEMMA OneFewer ==
    ASSUME NEW S, IsFiniteSet(S), NEW x \in S
    PROVE  /\ IsFiniteSet(S \ {x}) /\ Cardinality(S) \in Nat /\ Cardinality(S \ {x}) \in Nat
           /\ Cardinality(S) = Cardinality(S \ {x}) + 1
<1> DEFINE R == S \ {x}
<1>1. IsFiniteSet(R) /\ x \notin R /\ R \cup {x} = S
  BY FS_Subset
<1> HIDE DEF R
<1>2. Cardinality(R \cup {x}) = Cardinality(R) + 1 /\ Cardinality(R) \in Nat
  BY <1>1, OneMore
<1> QED BY <1>1, <1>2, FS_CardinalityType DEF R

\* Acts are as many as they can be counted.
LEMMA ActsAreFinite ==
    ASSUME IsFiniteSet(DecisionRows)
    PROVE  IsFiniteSet(Acts) /\ Cardinality(Acts) \in Nat
<1>1. Acts \subseteq DecisionRows
  BY DEF Acts, Where
<1> QED BY <1>1, FS_Subset, FS_CardinalityType

\* No step changes the deployed code, and only a death counts as one.
LEMMA CrashSteps ==
    ASSUME TypeOK, [Next]_vars
    PROVE  /\ real_spend' = real_spend /\ one_process' = one_process
           /\ crashes \in Nat /\ crashes' \in Nat /\ crashes <= crashes'
           /\ (\E c \in Callers : Crash(c)) => crashes' # 0
<1>1. crashes \in Nat
  BY BoundAssumption DEF TypeOK
<1>2. real_spend' = real_spend /\ one_process' = one_process
      /\ (crashes' = crashes \/ crashes' = crashes + 1)
  BY DEF Next, vars, world, Process, Begin, LoadRow, FindPrior, Decide, ReadConfig,
     ReadSuppression, CountPaymentActions, CountContacts, SumSpend, RecordEvaluation,
     RecordSpend, RecordDecision, Crash, IngestFailure, OptOut, EngageKillSwitch, Tick
<1>3. (\E c \in Callers : Crash(c)) => crashes' = crashes + 1
  BY DEF Crash
<1> QED BY <1>1, <1>2, <1>3

\* Without a decision or a commitment their counts are what they were.
LEMMA SameRows ==
    /\ decisions' = decisions => /\ DecisionRows' = DecisionRows
                                 /\ \A x : VerdictAt(x)' = VerdictAt(x)
                                 /\ Acts' = Acts
    /\ spend' = spend => Rows(Payments)' = Rows(Payments) /\ \A x : Row(x)' = Row(x)
<1>1. ASSUME decisions' = decisions
      PROVE  DecisionRows' = DecisionRows /\ \A x : VerdictAt(x)' = VerdictAt(x)
  BY <1>1 DEF DecisionRows, VerdictAt
<1>2. ASSUME decisions' = decisions PROVE Acts' = Acts
  BY <1>1, <1>2 DEF Acts, Where
<1> QED BY <1>1, <1>2 DEF Rows, Row

\* A commitment: one row more, one act more to record.
LEMMA CommitCounts ==
    ASSUME TypeInv, CallersInv, CountInv, [Next]_vars, NEW c \in Callers, RecordSpend(c)
    PROVE  CountInv'
<1> USE DEF TypeInv
<1>1. /\ pc[c] = "spend" /\ pc' = [pc EXCEPT ![c] = "record"] /\ verdict' = verdict
      /\ decisions' = decisions /\ crashes' = crashes
  BY DEF RecordSpend, Goto, world
<1>2. verdict[c].terminal = "ACT" /\ verdict[c].action \in Actions
  <2>1. verdict[c] = Act(verdict[c].action) /\ verdict[c].action \in Actions
    BY CommitmentIs DEF CallersInv
  <2> QED BY <2>1 DEF Act, Verdict
<1>3. Pending' = Pending \cup {c} /\ c \notin Pending
  BY <1>1, <1>2 DEF Pending, TypeOK
<1>4. PICK y : /\ y \notin Rows(Payments) /\ Rows(Payments)' = Rows(Payments) \cup {y}
               /\ \A x \in Rows(Payments) : Row(x)' = Row(x)
               /\ Row(y)' = spend'[pay[c]][Len(spend[pay[c]]) + 1]
  BY <1>2, CommitAddsRow
<1>5. DecisionRows' = DecisionRows /\ Acts' = Acts
  BY <1>1, SameRows
<1>6. /\ IsFiniteSet(Pending') /\ Cardinality(Pending') = Cardinality(Pending) + 1
      /\ Cardinality(Rows(Payments)') = Cardinality(Rows(Payments)) + 1
      /\ Cardinality(Pending) \in Nat /\ Cardinality(Rows(Payments)) \in Nat
  BY <1>3, <1>4, OneMore DEF CountInv
<1>7. ~real_spend => Row(y)'.status = "dry_run"
  <2> DEFINE p == pay[c]
             real == real_spend /\ ~dry_run
             row == [rung |-> verdict[c].action, ts |-> now[c],
                     amount |-> IF real THEN Cost[verdict[c].action] ELSE 0,
                     status |-> IF real THEN "debit" ELSE "dry_run"]
  <2>1. p \in Payments /\ spend[p] \in Seq(SpendRow) /\ now[c] \in Times
    BY DEF TypeOK
  <2>2. row \in SpendRow
    BY <1>2, <2>1, RungAssumption DEF SpendRow
  <2>3. spend' = [spend EXCEPT ![p] = Append(@, row)] /\ (~real_spend => row.status = "dry_run")
    BY DEF RecordSpend
  <2> HIDE DEF row
  <2>4. spend'[p] = Append(spend[p], row)
    BY <2>1, <2>3 DEF TypeOK
  <2>5. spend'[p][Len(spend[p]) + 1] = row
    BY <2>1, <2>2, <2>4
  <2> QED BY <1>4, <2>3, <2>5
<1>8. Cardinality(Acts) \in Nat
  BY ActsAreFinite DEF CountInv
<1>9. real_spend' = real_spend
  BY CrashSteps
<1>10. ~real_spend' => \A x \in Rows(Payments)' : Row(x)'.status = "dry_run"
  BY <1>4, <1>7, <1>9 DEF CountInv
<1> QED BY <1>1, <1>5, <1>6, <1>8, <1>10 DEF CountInv

\* A decision: the act that was pending is on record.
LEMMA DecisionCounts ==
    ASSUME TypeInv, CountInv, [Next]_vars, NEW c \in Callers, RecordDecision(c)
    PROVE  CountInv'
<1> USE DEF TypeInv
<1>1. /\ pc[c] = "record" /\ End(c) /\ spend' = spend /\ crashes' = crashes
      /\ real_spend' = real_spend
  BY DEF RecordDecision, world
<1>2. PICK y : /\ y \notin DecisionRows /\ DecisionRows' = DecisionRows \cup {y}
               /\ \A x \in DecisionRows : VerdictAt(x)' = VerdictAt(x)
               /\ VerdictAt(y)' = verdict[c]
  BY DecisionAddsRow
<1>3. Pending' = Pending \ {c}
  BY <1>1 DEF End, Pending, TypeOK
<1>4. /\ Rows(Payments)' = Rows(Payments) /\ \A x : Row(x)' = Row(x)
  BY <1>1, SameRows
<1>5. ~real_spend' => \A x \in Rows(Payments)' : Row(x)'.status = "dry_run"
  BY <1>1, <1>4 DEF CountInv
<1>6. IsFiniteSet(DecisionRows') /\ IsFiniteSet(Acts) /\ Cardinality(Acts) \in Nat
      /\ Cardinality(Rows(Payments)) \in Nat /\ Cardinality(Pending) \in Nat
  BY <1>2, OneMore, ActsAreFinite, FS_CardinalityType DEF CountInv
<1>7. CASE verdict[c].terminal = "ACT"
  <2>1. c \in Pending /\ y \notin Acts
    BY <1>1, <1>2, <1>7 DEF Pending, Acts, Where
  <2>2. Acts' = Acts \cup {y}
    BY <1>2, <1>7 DEF Acts, Where
  <2>3. Cardinality(Acts') = Cardinality(Acts) + 1
    BY <1>6, <2>1, <2>2, OneMore
  <2>4. /\ IsFiniteSet(Pending') /\ Cardinality(Pending) = Cardinality(Pending') + 1
        /\ Cardinality(Pending') \in Nat
    BY <1>3, <2>1, OneFewer DEF CountInv
  <2> QED BY <1>1, <1>4, <1>5, <1>6, <2>3, <2>4 DEF CountInv
<1>8. CASE verdict[c].terminal # "ACT"
  <2>1. Pending' = Pending
    BY <1>3, <1>8 DEF Pending
  <2>2. Acts' = Acts
    BY <1>2, <1>8 DEF Acts, Where
  <2> QED BY <1>1, <1>4, <1>5, <1>6, <2>1, <2>2 DEF CountInv
<1> QED BY <1>7, <1>8

\* Every step keeps the counts.
LEMMA CountKept ==
    ASSUME TypeInv, CallersInv, CountInv, [Next]_vars
    PROVE  CountInv'
<1> USE DEF TypeInv
<1>1. CASE \E c \in Callers : RecordSpend(c) \/ RecordDecision(c)
  BY <1>1, CommitCounts, DecisionCounts
<1>2. CASE \A c \in Callers : ~RecordSpend(c) /\ ~RecordDecision(c)
  <2>1. spend' = spend /\ decisions' = decisions
    BY <1>2, LedgerSteps, DecisionSteps
  <2>2. /\ DecisionRows' = DecisionRows /\ Acts' = Acts
        /\ Rows(Payments)' = Rows(Payments) /\ \A x : Row(x)' = Row(x)
    BY <2>1, SameRows
  <2>3. /\ Cardinality(Acts) \in Nat /\ Cardinality(Pending) \in Nat
        /\ Cardinality(Rows(Payments)) \in Nat
    BY ActsAreFinite, FS_CardinalityType DEF CountInv
  <2>4. ~real_spend' => \A x \in Rows(Payments)' : Row(x)'.status = "dry_run"
    BY <2>2, CrashSteps DEF CountInv
  <2>5. CASE \E c \in Callers : Crash(c)
    <3>1. PICK c \in Callers : Crash(c)
      BY <2>5
    <3>2. Pending' \subseteq Pending
      BY <3>1 DEF Crash, End, Pending, TypeOK
    <3>3. PICK A, B : A = Pending /\ B = Pending'
      OBVIOUS
    <3>4. IsFiniteSet(B) /\ Cardinality(B) <= Cardinality(A) /\ Cardinality(B) \in Nat
      <4>1. IsFiniteSet(A) /\ B \in SUBSET A
        BY <3>2, <3>3 DEF CountInv
      <4> QED BY <4>1, FS_Subset, FS_CardinalityType
    <3>5. crashes' # 0
      BY <3>1, CrashSteps
    <3> QED BY <2>2, <2>3, <2>4, <3>3, <3>4, <3>5 DEF CountInv
  <2>6. CASE \A c \in Callers : ~Crash(c)
    <3>1. Pending' = Pending
      BY <1>2, <2>6, PendingStays
    <3>2. crashes' = 0 => crashes = 0
      BY CrashSteps
    <3> QED BY <2>2, <2>4, <3>1, <3>2 DEF CountInv
  <2> QED BY <2>5, <2>6
<1> QED BY <1>1, <1>2

----------------------------------------------------------------------------
(* Every evaluation belongs to a walk.                                     *)

\* A veto of the i-th rung was not the end of it: the next rung was tried, a
\* call is about to try it or to record the veto, or the veto is on record.
VetoRecorded(p) == \E j \in DOMAIN decisions[p] : decisions[p][j].verdict.terminal = "BLOCKED"
AtRung(c, p, i) ==
    /\ pay[c] = p
    /\ \/ pc[c] = "evals" /\ step[c] = i
       \/ pc[c] = "record" /\ verdict[c].terminal = "BLOCKED"
NextTried(p, i) ==
    /\ i + 1 \in DOMAIN Ranking[p]
    /\ \E f \in evals : f.payment = p /\ f.rung = Ranking[p][i + 1]
GoesOn(p, i) == NextTried(p, i) \/ VetoRecorded(p) \/ \E c \in Callers : AtRung(c, p, i)

WalksInv ==
    /\ \A e \in evals : \E i \in DOMAIN Ranking[e.payment] : e.rung = Ranking[e.payment][i]
    /\ crashes = 0 =>
         \A e \in evals : \A i \in DOMAIN Ranking[e.payment] :
             e.blocked_by # {} /\ e.rung = Ranking[e.payment][i] => GoesOn(e.payment, i)

\* Only a walk evaluates.
LEMMA EvaluationSteps ==
    ASSUME [Next]_vars
    PROVE  evals' = evals \/ \E c \in Callers : RecordEvaluation(c)
BY DEF Next, vars, tables, world, Process, Begin, LoadRow, FindPrior, Decide, ReadConfig,
   ReadSuppression, CountPaymentActions, CountContacts, SumSpend, RecordSpend, RecordDecision,
   Crash, IngestFailure, OptOut, EngageKillSwitch, Tick

\* What a walk evaluates is the rung after the last one it tried.
LEMMA EvaluationAdds ==
    ASSUME TypeInv, CallersInv, NEW c \in Callers, RecordEvaluation(c)
    PROVE  \E e, i : /\ evals' = evals \cup {e} /\ i = step[c] + 1
                     /\ i \in DOMAIN Ranking[pay[c]] /\ i \in Nat \ {0}
                     /\ e.payment = pay[c] /\ e.rung = Ranking[pay[c]][i] /\ e.ts = now[c]
                     /\ e.blocked_by = BlockedBy(Ranking[pay[c]][i], state[c], now[c])
                     /\ pc[c] = "evals" /\ pay[c] \in Payments /\ step'[c] = i
<1> DEFINE i == step[c] + 1
           e == [payment |-> pay[c], rung |-> Ranked(c)[i], ts |-> now[c],
                 blocked_by |-> BlockedBy(Ranked(c)[i], state[c], now[c])]
<1>1. WalkOk(c) /\ pc[c] = "evals" /\ pay[c] \in Payments
  BY DEF CallersInv, RecordEvaluation, Goto, TypeInv, TypeOK
<1>2. i \in DOMAIN Ranked(c) /\ step[c] \in Nat
  BY <1>1, EvaluationIs
<1>3. evals' = evals \cup {e} /\ step'[c] = i
  BY <1>1 DEF RecordEvaluation, TypeInv, TypeOK
<1>4. /\ e.payment = pay[c] /\ e.rung = Ranking[pay[c]][i] /\ e.ts = now[c]
      /\ e.blocked_by = BlockedBy(Ranking[pay[c]][i], state[c], now[c])
  BY DEF Ranked
<1>5. i \in Nat \ {0}
  BY <1>2
<1> HIDE DEF e
<1> QED BY <1>1, <1>2, <1>3, <1>4, <1>5 DEF Ranked

\* A call about to try the next rung tries it, and one about to record its
\* veto records it.
LEMMA GoingOnStays ==
    ASSUME TypeInv, CallersInv, [Next]_vars, \A c \in Callers : ~Crash(c),
           NEW p \in Payments, NEW i, GoesOn(p, i)
    PROVE  GoesOn(p, i)'
<1> USE DEF TypeInv
<1>1. evals \subseteq evals'
      /\ \A j \in DOMAIN decisions[p] : j \in DOMAIN decisions'[p] /\ decisions'[p][j] = decisions[p][j]
  BY LogGrows
<1>2. CASE NextTried(p, i) \/ VetoRecorded(p)
  BY <1>1, <1>2 DEF GoesOn, NextTried, VetoRecorded
<1>3. ASSUME NEW c \in Callers, AtRung(c, p, i) PROVE GoesOn(p, i)'
  <2>1. CASE Stays(c)
    <3>1. AtRung(c, p, i)'
      BY <1>3, <2>1 DEF AtRung, Stays
    <3> QED BY <3>1 DEF GoesOn
  <2>2. CASE RecordEvaluation(c)
    <3>1. pc[c] = "evals" /\ step[c] = i
      BY <1>3, <2>2 DEF AtRung, RecordEvaluation, Goto
    <3>2. NextTried(p, i)'
      BY <1>3, <2>2, <3>1, EvaluationAdds DEF AtRung, NextTried
    <3> QED BY <3>2 DEF GoesOn
  <2>3. CASE RecordDecision(c)
    <3>1. pc[c] = "record" /\ verdict[c].terminal = "BLOCKED" /\ pay[c] = p
      BY <1>3, <2>3 DEF AtRung, RecordDecision
    <3>2. /\ DOMAIN decisions'[p] = 1..Len(decisions[p]) + 1 /\ Len(decisions[p]) \in Nat
          /\ decisions'[p][Len(decisions[p]) + 1].verdict = verdict[c]
      BY <2>3, <3>1, DecisionAppends
    <3>3. VetoRecorded(p)'
      BY <3>1, <3>2 DEF VetoRecorded
    <3> QED BY <3>3 DEF GoesOn
  <2>4. pc[c] \in {"evals", "record"}
    BY <1>3 DEF AtRung
  <2>5. \/ Stays(c) \/ RecordEvaluation(c) \/ RecordDecision(c)
    <3>1. ~Begin(c, p)
      BY <2>4 DEF Begin, Goto
    <3> QED BY <2>4, CallerSteps DEF Process, Begin, LoadRow, FindPrior, Decide, ReadConfig,
       ReadSuppression, CountPaymentActions, CountContacts, SumSpend, RecordSpend, Goto
  <2> QED BY <2>1, <2>2, <2>3, <2>5
<1> QED BY <1>2, <1>3 DEF GoesOn

\* A walk goes on after each veto.
LEMMA WalksKept ==
    ASSUME TypeInv, CallersInv, WalksInv, [Next]_vars
    PROVE  WalksInv'
<1> USE DEF TypeInv
<1>0. evals \subseteq EvalRow
  BY DEF TypeOK
<1>1. CASE evals' = evals
  <2>1. \A e \in evals' : \E i \in DOMAIN Ranking[e.payment] : e.rung = Ranking[e.payment][i]
    BY <1>1 DEF WalksInv
  <2>2. ASSUME crashes' = 0, NEW e \in evals, NEW i \in DOMAIN Ranking[e.payment],
               e.blocked_by # {}, e.rung = Ranking[e.payment][i]
        PROVE  GoesOn(e.payment, i)'
    <3>1. crashes = 0 /\ \A c \in Callers : ~Crash(c)
      BY <2>2, CrashSteps
    <3>2. GoesOn(e.payment, i) /\ e.payment \in Payments
      BY <1>0, <2>2, <3>1 DEF WalksInv, EvalRow
    <3> QED BY <3>1, <3>2, GoingOnStays
  <2> QED BY <1>1, <2>1, <2>2 DEF WalksInv
<1>2. ASSUME NEW c \in Callers, RecordEvaluation(c) PROVE WalksInv'
  <2>0. PICK p : p = pay[c]
    OBVIOUS
  <2>1. PICK e, m : /\ evals' = evals \cup {e} /\ m = step[c] + 1
                    /\ m \in DOMAIN Ranking[p] /\ m \in Nat \ {0}
                    /\ e.payment = p /\ e.rung = Ranking[p][m] /\ e.ts = now[c]
                    /\ e.blocked_by = BlockedBy(Ranking[p][m], state[c], now[c])
                    /\ pc[c] = "evals" /\ p \in Payments /\ step'[c] = m
    BY <1>2, <2>0, EvaluationAdds
  <2>2. \A f \in evals' : \E i \in DOMAIN Ranking[f.payment] : f.rung = Ranking[f.payment][i]
    BY <2>1 DEF WalksInv
  <2>3. crashes' = crashes /\ \A d \in Callers : ~Crash(d)
    <3>1. crashes' = crashes /\ crashes \in Nat
      BY <1>2, CrashSteps DEF RecordEvaluation, world
    <3> QED BY <3>1 DEF Crash
  <2>4. ASSUME e.blocked_by # {} PROVE GoesOn(p, m)'
    <3>1. /\ pay'[c] = p
          /\ pc'[c] = "evals" \/ (pc'[c] = "record" /\ verdict'[c].terminal = "BLOCKED")
      <4>1. CASE pc'[c] = "record"
        BY <1>2, <2>0, <4>1, WalkVetoes DEF CallersInv, RecordEvaluation
      <4>2. CASE pc'[c] = "spend"
        <5>1. m = WalkLength(Ranked(c), state[c], now[c]) /\ ~WalkBlocked(Ranked(c), state[c], now[c])
          BY <1>2, <2>1, <4>2 DEF RecordEvaluation, Goto, TypeOK
        <5>2. ~IsBlocked(Ranked(c)[m], state[c], now[c])
          BY <1>2, <5>1, EvaluationIs DEF CallersInv
        <5>3. BlockedBy(Ranking[p][m], state[c], now[c]) = {}
          BY <2>0, <5>2 DEF IsBlocked, Ranked
        <5> QED BY <2>1, <2>4, <5>3
      <4> QED BY <1>2, <2>0, <4>1, <4>2 DEF RecordEvaluation, Goto, TypeOK
    <3>2. AtRung(c, p, m)'
      BY <2>1, <3>1 DEF AtRung
    <3> QED BY <3>2 DEF GoesOn
  <2>5. ASSUME crashes' = 0, NEW f \in evals', NEW i \in DOMAIN Ranking[f.payment],
               f.blocked_by # {}, f.rung = Ranking[f.payment][i]
        PROVE  GoesOn(f.payment, i)'
    <3>1. CASE f \in evals
      <4>1. GoesOn(f.payment, i) /\ f.payment \in Payments
        BY <1>0, <2>3, <2>5, <3>1 DEF WalksInv, EvalRow
      <4> QED BY <2>3, <4>1, GoingOnStays
    <3>2. CASE f = e
      <4>1. i = m
        BY <2>1, <2>5, <3>2, EngineAssumption DEF IsInjective
      <4> QED BY <2>1, <2>4, <2>5, <3>2, <4>1
    <3> QED BY <2>1, <3>1, <3>2
  <2> QED BY <2>2, <2>5 DEF WalksInv
<1> QED BY <1>1, <1>2, EvaluationSteps

----------------------------------------------------------------------------
(* Where calls follow each other and none dies, a payment is walked once.  *)

\* An evaluation is of the call under way, with the blockers its reads give,
\* or of the call that decided.
Walking(c, e) ==
    /\ pc[c] \in {"evals", "spend"} \/ (pc[c] = "record" /\ verdict[c].terminal \in {"ACT", "BLOCKED"})
    /\ pay[c] = e.payment /\ now[c] = e.ts
    /\ e.blocked_by = BlockedBy(e.rung, state[c], now[c])
Walked(p) == decisions[p] # << >> /\ decisions[p][1].verdict.terminal \in {"ACT", "BLOCKED"}

OneWalk ==
    one_process /\ crashes = 0 =>
        /\ \A e \in evals : Walked(e.payment) \/ \E c \in Callers : Walking(c, e)
        /\ \A e, f \in evals : e.payment = f.payment /\ e.rung = f.rung => e = f

\* The call under way goes on with its walk, or decides.
LEMMA WalkingStays ==
    ASSUME TypeInv, CallersInv, [Next]_vars, Alone, one_process, \A c \in Callers : ~Crash(c),
           NEW c \in Callers, Current(c), NEW e, Walking(c, e)
    PROVE  Walking(c, e)' \/ Walked(e.payment)'
<1> USE DEF TypeInv
<1>1. pc[c] \in {"evals", "spend", "record"} /\ pay[c] = e.payment /\ pay[c] \in Payments
  BY DEF Walking, TypeOK
<1>2. CASE Stays(c)
  BY <1>2 DEF Walking, Stays
<1>3. CASE RecordEvaluation(c)
  <2>1. pay'[c] = pay[c] /\ now'[c] = now[c] /\ state'[c] = state[c]
    BY <1>3 DEF RecordEvaluation
  <2>2. pc'[c] \in {"evals", "spend"} \/ (pc'[c] = "record" /\ verdict'[c].terminal = "BLOCKED")
    <3>1. CASE pc'[c] = "record"
      BY <1>3, <3>1, WalkVetoes DEF CallersInv
    <3>2. CASE pc'[c] # "record"
      BY <1>3, <3>2 DEF RecordEvaluation, Goto, TypeOK
    <3> QED BY <3>1, <3>2
  <2> QED BY <2>1, <2>2 DEF Walking
<1>4. CASE RecordSpend(c)
  <2>1. pay'[c] = pay[c] /\ now'[c] = now[c] /\ state'[c] = state[c] /\ pc'[c] = "record"
        /\ verdict'[c] = verdict[c]
    BY <1>4 DEF RecordSpend, Goto, TypeOK
  <2>2. verdict[c].terminal = "ACT"
    <3>1. verdict[c] = Act(verdict[c].action)
      BY <1>4, CommitmentIs DEF CallersInv
    <3> QED BY <3>1 DEF Act, Verdict
  <2> QED BY <2>1, <2>2 DEF Walking
<1>5. CASE RecordDecision(c)
  <2>1. pc[c] = "record" /\ verdict[c].terminal \in {"ACT", "BLOCKED"}
    BY <1>5 DEF RecordDecision, Walking
  <2>2. decisions[pay[c]] = << >>
    BY <2>1 DEF Current
  <2>3. /\ Len(decisions'[pay[c]]) = Len(decisions[pay[c]]) + 1
        /\ decisions'[pay[c]][Len(decisions[pay[c]]) + 1].verdict = verdict[c]
    BY <1>5, DecisionAppends
  <2>4. decisions'[pay[c]][1].verdict = verdict[c] /\ decisions'[pay[c]] # << >>
    BY <2>2, <2>3
  <2> QED BY <1>1, <2>1, <2>4 DEF Walked
<1>6. Stays(c) \/ RecordEvaluation(c) \/ RecordSpend(c) \/ RecordDecision(c)
  BY <1>1, NothingElseMoves DEF Process, LoadRow, FindPrior, Decide, ReadConfig,
     ReadSuppression, CountPaymentActions, CountContacts, SumSpend, Goto
<1> QED BY <1>2, <1>3, <1>4, <1>5, <1>6

\* A row is its columns.
LEMMA SameEvaluation ==
    ASSUME NEW f \in EvalRow, NEW e \in EvalRow, f.payment = e.payment, f.rung = e.rung,
           f.ts = e.ts, f.blocked_by = e.blocked_by
    PROVE  f = e
BY DEF EvalRow

\* A rung that is tried has not been tried for this payment before.
LEMMA OneWalkKept ==
    ASSUME TypeInv, CallersInv, SeriesInv, OneWalk, [Next]_vars
    PROVE  OneWalk'
<1> USE DEF TypeInv
<1> SUFFICES ASSUME one_process', crashes' = 0
             PROVE  /\ \A e \in evals' : Walked(e.payment)' \/ \E c \in Callers : Walking(c, e)'
                    /\ \A e, f \in evals' : e.payment = f.payment /\ e.rung = f.rung => e = f
  BY DEF OneWalk
<1>1. one_process /\ crashes = 0 /\ \A c \in Callers : ~Crash(c)
  <2>1. \A c \in Callers : ~Crash(c)
    BY CrashSteps, Zenon
  <2>3. crashes = 0
    <3>1. crashes \in Nat /\ crashes <= crashes'
      BY CrashSteps, Zenon
    <3> QED BY <3>1
  <2>2. one_process
    BY CrashSteps, Zenon
  <2> QED BY <2>1, <2>2, <2>3
<1>2. /\ Alone /\ \A c \in Callers : Current(c)
      /\ \A e \in evals : Walked(e.payment) \/ \E c \in Callers : Walking(c, e)
      /\ \A e, f \in evals : e.payment = f.payment /\ e.rung = f.rung => e = f
  BY <1>1 DEF SeriesInv, OneWalk
<1>3. evals \subseteq EvalRow /\ evals' \subseteq EvalRow
  BY TypesKept DEF TypeOK
<1>4. ASSUME NEW e \in evals PROVE Walked(e.payment)' \/ \E c \in Callers : Walking(c, e)'
  <2>1. e.payment \in Payments
    BY <1>3 DEF EvalRow
  <2>2. Walked(e.payment) => Walked(e.payment)'
    <3>1. ASSUME Walked(e.payment) PROVE 1 \in DOMAIN decisions[e.payment]
      <4>1. decisions[e.payment] \in Seq(DecisionRow) /\ decisions[e.payment] # << >>
        BY <2>1, <3>1 DEF Walked, TypeOK
      <4> QED BY <4>1
    <3>2. ASSUME Walked(e.payment)
          PROVE  1 \in DOMAIN decisions'[e.payment] /\ decisions'[e.payment][1] = decisions[e.payment][1]
      BY <2>1, <3>1, <3>2, LogGrows
    <3> QED BY <3>2 DEF Walked
  <2> QED BY <1>1, <1>2, <2>2, WalkingStays
<1>5. CASE evals' = evals
  BY <1>2, <1>4, <1>5
<1>6. ASSUME NEW c \in Callers, RecordEvaluation(c)
      PROVE  /\ \A e \in evals' : Walked(e.payment)' \/ \E d \in Callers : Walking(d, e)'
             /\ \A e, f \in evals' : e.payment = f.payment /\ e.rung = f.rung => e = f
  <2>0. PICK p : p = pay[c]
    OBVIOUS
  <2>1. PICK e, m : /\ evals' = evals \cup {e} /\ e.payment = p /\ e.rung = Ranking[p][m]
                    /\ e.ts = now[c] /\ e.blocked_by = BlockedBy(Ranking[p][m], state[c], now[c])
                    /\ pc[c] = "evals" /\ p \in Payments
    BY <1>6, <2>0, EvaluationAdds
  <2>2. Walking(c, e)
    BY <2>0, <2>1 DEF Walking
  <2>3. Walked(e.payment)' \/ Walking(c, e)'
    BY <1>1, <1>2, <2>2, WalkingStays
  <2>4. ASSUME NEW f \in evals, f.payment = e.payment, f.rung = e.rung PROVE f = e
    <3>1. decisions[p] = << >>
      BY <1>2, <2>0, <2>1 DEF Current
    <3>2. PICK d \in Callers : Walking(d, f)
      BY <1>2, <2>1, <2>4, <3>1 DEF Walked
    <3>3. d = c
      BY <1>2, <2>1, <3>2 DEF Alone, Walking
    <3>4. f.ts = e.ts /\ f.blocked_by = e.blocked_by
      BY <2>1, <2>2, <2>4, <3>2, <3>3 DEF Walking
    <3>5. f \in EvalRow /\ e \in EvalRow
      BY <1>3, <2>1
    <3> QED BY <2>4, <3>4, <3>5, SameEvaluation
  <2> QED BY <1>2, <1>4, <2>1, <2>3, <2>4
<1> QED BY <1>5, <1>6, EvaluationSteps

----------------------------------------------------------------------------
(* The log, and the reader beside it.                                      *)

LogInv == CallsInv /\ DecisionsInv /\ CountInv /\ WalksInv /\ OneWalk
BaseInv == PipelineInv /\ SeriesInv /\ LogInv

\* Nothing is on record at first.
LEMMA LogStarts == ASSUME Init PROVE LogInv
<1>1. CallsInv /\ DecisionsInv
  BY DEF Init, CallsInv, CallOk, DecisionsInv, DecidedIsIngested
<1>2. CountInv
  <2>1. DecisionRows = {} /\ Rows(Payments) = {} /\ Pending = {}
    BY DEF Init, DecisionRows, Rows, Pending
  <2>2. Acts = {}
    BY <2>1 DEF Acts, Where
  <2> QED BY <2>1, <2>2, FS_EmptySet DEF CountInv
<1>3. WalksInv /\ OneWalk
  BY DEF Init, WalksInv, OneWalk
<1> QED BY <1>1, <1>2, <1>3 DEF LogInv

\* What decisions, commitments and evaluations say of each other holds for any
\* number of callers, their deaths included.
THEOREM LogHolds == Spec => []BaseInv
<1>1. Init => LogInv
  BY LogStarts
<1>2. ASSUME PipelineInv, SeriesInv, LogInv, [Next]_vars PROVE LogInv'
  <2> USE <1>2 DEF PipelineInv, LogInv
  <2>1. CallsInv' /\ DecisionsInv'
    BY CallsKept, DecisionsOkKept
  <2>2. CountInv' /\ WalksInv' /\ OneWalk'
    BY CountKept, WalksKept, OneWalkKept
  <2> QED BY <2>1, <2>2 DEF LogInv
<1> QED BY <1>1, <1>2, SeriesHolds, PTL DEF Spec, BaseInv

\* The reader changes none of the tables, so all this holds beside it.
THEOREM ReaderReads == DashboardSpec => Spec
<1>1. DashboardInit => Init
  BY DEF DashboardInit
<1>2. [DashboardNext]_<<vars, reader>> => [Next]_vars
  BY DEF DashboardNext
<1> QED BY <1>1, <1>2, PTL DEF DashboardSpec, Spec

----------------------------------------------------------------------------
(* The uplift.                                                             *)

\* Of finitely many indices one is the last.
LEMMA LastIndex ==
    ASSUME NEW n \in Nat, NEW S \in SUBSET (1..n), S # {}
    PROVE  \E i \in S : \A j \in S : j <= i
<1> DEFINE D == {n - i : i \in S}
<1>1. D \subseteq Nat /\ D # {}
  <2>1. \A i \in S : n - i \in Nat
    OBVIOUS
  <2> QED BY <2>1
<1>2. PICK d \in D : \A e \in D : d <= e
  <2> HIDE DEF D
  <2> QED BY <1>1, LeastNumber
<1>3. PICK i \in S : d = n - i
  OBVIOUS
<1>4. ASSUME NEW j \in S PROVE j <= i
  <2>1. n - i <= n - j
    BY <1>2, <1>3
  <2> QED BY <2>1
<1> QED BY <1>4

\* Whoever was vetoed on every rung is left out of the uplift
\* (eval/measurement.blocked_customers_from_guardrail_log), and without deaths
\* nobody else is.
THEOREM VetoesExcluded == Spec => []VetoedAreExcluded
<1>1. ASSUME BaseInv, NEW p \in Payments, VetoRecorded(p) PROVE FullyBlocked(p)
  <2>1. PICK ts, reason : Vetoed(p, reason, ts)
    BY <1>1 DEF BaseInv, LogInv, DecisionsInv, VetoRecorded, DecisionOk
  <2>2. \E e \in evals : e.payment = p
    BY <2>1 DEF Vetoed, Names
  <2>3. ASSUME NEW f \in evals, f.payment = p
        PROVE  \E e \in evals : e.payment = p /\ e.rung = f.rung /\ e.blocked_by # {}
    <3>1. PICK i \in DOMAIN Ranking[p] : f.rung = Ranking[p][i]
      BY <1>1, <2>3 DEF BaseInv, LogInv, WalksInv
    <3>2. IsEvaluated(p, Ranking[p][i], ts, FALSE)
      BY <2>1 DEF Vetoed
    <3> QED BY <3>1, <3>2 DEF IsEvaluated
  <2> QED BY <2>2, <2>3 DEF FullyBlocked
<1>2. ASSUME BaseInv, NEW p \in Payments, FullyBlocked(p), Quiet, crashes = 0
      PROVE  VetoRecorded(p)
  <2> DEFINE n == Len(Ranking[p])
             I == {i \in 1..n : \E e \in evals : e.payment = p /\ e.rung = Ranking[p][i]}
  <2>1. n \in Nat /\ DOMAIN Ranking[p] = 1..n
    BY PaymentAssumption
  <2>2. I # {}
    <3>1. PICK e \in evals : e.payment = p
      BY <1>2 DEF FullyBlocked
    <3>2. \E i \in DOMAIN Ranking[p] : e.rung = Ranking[p][i]
      BY <1>2, <3>1 DEF BaseInv, LogInv, WalksInv
    <3> QED BY <2>1, <3>1, <3>2
  <2>3. PICK i \in I : \A j \in I : j <= i
    <3> I \in SUBSET (1..n)
      OBVIOUS
    <3> HIDE DEF I
    <3> QED BY <2>1, <2>2, LastIndex
  <2>4. PICK e \in evals : e.payment = p /\ e.rung = Ranking[p][i] /\ e.blocked_by # {}
    BY <1>2 DEF FullyBlocked
  <2>5. GoesOn(p, i)
    BY <1>2, <2>1, <2>4 DEF BaseInv, LogInv, WalksInv
  <2>6. ~NextTried(p, i)
    <3>1. i + 1 \notin I
      BY <2>1, <2>3
    <3> QED BY <2>1, <3>1 DEF NextTried
  <2>7. \A c \in Callers : ~AtRung(c, p, i)
    BY <1>2 DEF Quiet, AtRung
  <2> QED BY <2>5, <2>6, <2>7 DEF GoesOn
<1>3. BaseInv => VetoedAreExcluded
  BY <1>1, <1>2 DEF VetoedAreExcluded, VetoRecorded
<1> QED BY <1>3, LogHolds, PTL

----------------------------------------------------------------------------
(* A page as it is put together.                                           *)

\* So many SELECTs have run: the first ones of the page's list.
Done == Len(Queries(page)) - Len(queries)
QueryNames == {"terminals", "skips", "arms", "cost", "dry_run_sends", "real_debit", "rungs",
               "audit", "decision", "event_id", "guardrails", "BLOCKED"} \cup SkipReasons

ReaderInv ==
    /\ page \in Pages \cup {Unopened}
    /\ page = Unopened => queries = << >>
    /\ page # Unopened =>
         /\ queries \in Seq(QueryNames) /\ Done \in Nat
         /\ \A i \in DOMAIN queries : queries[i] = Queries(page)[Done + i]
         /\ \A i \in 1..Done : Queries(page)[i] \in DOMAIN seen
         /\ page = "trace" => subject \in Payments
         /\ calm /\ queries # << >> => Quiet

\* The lists, written out.
LEMMA CategoriesAre ==
    Categories = << "CONTROL_ARM", "EV_BELOW_FLOOR", "NO_CONTACT_CHANNEL", "ALREADY_RECOVERED",
                    "COOLDOWN", "PRIOR_ZERO", "RISK_BLOCKED", "BLOCKED" >>
<1> DEFINE list == << "CONTROL_ARM", "EV_BELOW_FLOOR", "NO_CONTACT_CHANNEL", "ALREADY_RECOVERED",
                      "COOLDOWN", "PRIOR_ZERO", "RISK_BLOCKED", "BLOCKED" >>
<1>1. Categories \in Seq(QueryNames) /\ Len(Categories) = 8
  BY DEF Categories, HARD_GATE_REASONS, QueryNames, SkipReasons
<1>2. \A i \in 1..8 : Categories[i] = list[i]
  BY DEF Categories, HARD_GATE_REASONS
<1>3. list \in Seq(QueryNames) /\ Len(list) = 8
  BY DEF QueryNames, SkipReasons
<1> HIDE DEF list
<1>4. Categories = list
  BY <1>1, <1>2, <1>3, SeqEqual
<1> QED BY <1>4 DEF list

LEMMA QueriesAre ==
    /\ Queries("not_chased") =
         << "terminals", "CONTROL_ARM", "EV_BELOW_FLOOR", "NO_CONTACT_CHANNEL",
            "ALREADY_RECOVERED", "COOLDOWN", "PRIOR_ZERO", "RISK_BLOCKED", "BLOCKED" >>
    /\ Queries("metrics") =
         << "terminals", "skips", "arms", "cost", "dry_run_sends", "real_debit", "rungs" >>
    /\ Queries("audit") =
         << "terminals", "skips", "arms", "cost", "dry_run_sends", "real_debit", "rungs", "audit" >>
    /\ Queries("trace") = << "decision", "event_id", "guardrails" >>
<1> DEFINE list == << "terminals", "CONTROL_ARM", "EV_BELOW_FLOOR", "NO_CONTACT_CHANNEL",
                      "ALREADY_RECOVERED", "COOLDOWN", "PRIOR_ZERO", "RISK_BLOCKED", "BLOCKED" >>
           first == << "terminals" >>
<1>1. Queries("not_chased") = first \o Categories
  BY DEF Queries
<1>2. /\ first \o Categories \in Seq(QueryNames) /\ Len(first \o Categories) = 9
      /\ \A i \in 1..9 : (first \o Categories)[i] = list[i]
  BY CategoriesAre DEF QueryNames, SkipReasons
<1>3. list \in Seq(QueryNames) /\ Len(list) = 9
  BY DEF QueryNames, SkipReasons
<1>4. first \o Categories = list
  <2> HIDE DEF list, first
  <2> QED BY <1>2, <1>3, SeqEqual
<1>5. Queries("metrics") = LiveQueries /\ Queries("trace") = TraceQueries
  BY DEF Queries
<1> DEFINE audit == << "terminals", "skips", "arms", "cost", "dry_run_sends", "real_debit",
                       "rungs", "audit" >>
           live == Append(LiveQueries, "audit")
<1>6. Queries("audit") = live
  BY DEF Queries
<1>7. /\ live \in Seq(QueryNames) /\ Len(live) = 8 /\ \A i \in 1..8 : live[i] = audit[i]
      /\ audit \in Seq(QueryNames) /\ Len(audit) = 8
  BY DEF LiveQueries, QueryNames
<1>8. live = audit
  <2> HIDE DEF live, audit
  <2> QED BY <1>7, SeqEqual
<1> QED BY <1>1, <1>4, <1>5, <1>6, <1>8 DEF LiveQueries, TraceQueries

\* What each SELECT returns.
AnswersHold ==
    /\ Answered("terminals") = terminal_counts /\ Answered("skips") = skip_counts
    /\ Answered("arms") = arm_counts /\ Answered("rungs") = rung_counts
    /\ Answered("cost") = Total([x \in Acts |-> action_cost_inr(x)])
    /\ Answered("dry_run_sends") = Cardinality(Committed("dry_run"))
    /\ Answered("real_debit") = SumFunctionOnSet(Amounts, Committed("debit"))
    /\ Answered("audit") = [counts |-> AuditCounts, money |-> AuditMoney]
    /\ Answered("BLOCKED") = Cardinality(Where("terminal", "BLOCKED"))
    /\ \A r \in SkipReasons : Answered(r) = Cardinality(Where("reason", r))
    /\ Answered("decision") = decisions[subject][1].verdict
    /\ Answered("event_id") = (decisions[subject] # << >>)
    /\ Answered("guardrails") =
         IF seen["event_id"] THEN {e \in evals : /\ e.payment = subject
                                               /\ e.rung = Chosen(seen["decision"], subject)}
         ELSE {}

LEMMA AnswersAre == AnswersHold
<1>1. Answered("terminals") = terminal_counts
  BY DEF Answered, SkipReasons
<1>2. Answered("skips") = skip_counts
  BY DEF Answered, SkipReasons
<1>3. Answered("arms") = arm_counts
  BY DEF Answered, SkipReasons
<1>4. Answered("rungs") = rung_counts
  BY DEF Answered, SkipReasons
<1>5. Answered("cost") = Total([x \in Acts |-> action_cost_inr(x)])
  BY DEF Answered, SkipReasons
<1>6. Answered("dry_run_sends") = Cardinality(Committed("dry_run"))
  BY DEF Answered, SkipReasons
<1>7. Answered("real_debit") = SumFunctionOnSet(Amounts, Committed("debit"))
  BY DEF Answered, SkipReasons
<1>8. Answered("audit") = [counts |-> AuditCounts, money |-> AuditMoney]
  BY DEF Answered, SkipReasons
<1>9. Answered("BLOCKED") = Cardinality(Where("terminal", "BLOCKED"))
  BY DEF Answered, SkipReasons
<1>10. \A r \in SkipReasons : Answered(r) = Cardinality(Where("reason", r))
  BY DEF Answered, SkipReasons
<1>11. Answered("decision") = decisions[subject][1].verdict
  BY DEF Answered, SkipReasons
<1>12. Answered("event_id") = (decisions[subject] # << >>)
  BY DEF Answered, SkipReasons
<1>13. Answered("guardrails") =
         IF seen["event_id"] THEN {e \in evals : /\ e.payment = subject
                                               /\ e.rung = Chosen(seen["decision"], subject)}
         ELSE {}
  BY DEF Answered, SkipReasons
<1> QED BY <1>1, <1>2, <1>3, <1>4, <1>5, <1>6, <1>7, <1>8, <1>9, <1>10, <1>11, <1>12, <1>13 DEF AnswersHold

LEMMA AnswersNext == AnswersHold'
BY AnswersAre, PTL

\* Each page asks for each thing once.
LEMMA QueriesDiffer ==
    ASSUME NEW pg \in Pages
    PROVE  /\ Queries(pg) \in Seq(QueryNames) /\ Len(Queries(pg)) \in Nat \ {0}
           /\ DOMAIN Queries(pg) = 1..Len(Queries(pg))
           /\ \A i, j \in 1..Len(Queries(pg)) : Queries(pg)[i] = Queries(pg)[j] => i = j
<1> DEFINE Fits(s) == /\ s \in Seq(QueryNames) /\ Len(s) \in Nat \ {0} /\ DOMAIN s = 1..Len(s)
                      /\ \A i, j \in 1..Len(s) : s[i] = s[j] => i = j
<1>1. Fits(<< "terminals", "CONTROL_ARM", "EV_BELOW_FLOOR", "NO_CONTACT_CHANNEL",
              "ALREADY_RECOVERED", "COOLDOWN", "PRIOR_ZERO", "RISK_BLOCKED", "BLOCKED" >>)
  BY DEF QueryNames, SkipReasons
<1>2. Fits(<< "terminals", "skips", "arms", "cost", "dry_run_sends", "real_debit", "rungs" >>)
  BY DEF QueryNames
<1>3. Fits(<< "terminals", "skips", "arms", "cost", "dry_run_sends", "real_debit",
              "rungs", "audit" >>)
  BY DEF QueryNames
<1>4. Fits(<< "decision", "event_id", "guardrails" >>)
  BY DEF QueryNames
<1>5. Fits(Queries(pg))
  <2> HIDE DEF Fits
  <2> QED BY <1>1, <1>2, <1>3, <1>4, QueriesAre DEF Pages
<1> QED BY <1>5

\* The steps beside a page, and of it: the tables change, a page is opened, it
\* is not found, or its next SELECT is answered.
Works ==
    /\ [Next]_vars /\ UNCHANGED <<page, subject, queries, seen>>
    /\ calm' => calm
    /\ calm' /\ queries # << >> => Quiet /\ Quiet'
Opens ==
    /\ UNCHANGED vars
    /\ page' \in Pages /\ queries' = Queries(page')
    /\ page' = "trace" => subject' \in Payments
    /\ calm' => Quiet'
Closes == UNCHANGED vars /\ page' = Unopened /\ queries' = << >>
Asks ==
    LET list == Queries(page)
    IN  /\ UNCHANGED <<vars, page, subject, calm>>
        /\ page \in Pages /\ queries # << >>
        /\ Done \in Nat /\ Done + 1 <= Len(list) /\ Len(list) \in Nat /\ Done' = Done + 1
        /\ seen'[list[Done + 1]] = Answered(list[Done + 1])
        /\ list[Done + 1] \in DOMAIN seen'
        /\ \A i \in 1..Done : list[i] \in DOMAIN seen' /\ seen'[list[i]] = seen[list[i]]
        /\ page = "trace" /\ Done = 0 => decisions[subject] # << >>

\* The next SELECT is the next of the list, and spoils no earlier answer.
LEMMA SelectAsks ==
    ASSUME ReaderInv, Select, UNCHANGED vars
    PROVE  Closes \/ (Asks /\ queries' = Tail(queries))
<1> DEFINE list == Queries(page)
           q == Head(queries)
<1>1. /\ queries # << >> /\ page \in Pages /\ Done \in Nat /\ queries \in Seq(QueryNames)
      /\ \A i \in DOMAIN queries : queries[i] = list[Done + i]
      /\ UNCHANGED <<subject, calm>>
  BY DEF Select, ReaderInv
<1>2. /\ Len(list) \in Nat /\ Len(queries) \in Nat \ {0} /\ Done = Len(list) - Len(queries)
      /\ q = queries[1] /\ q = list[Done + 1]
  <2>1. Len(list) \in Nat
    BY <1>1, QueriesDiffer
  <2>2. Len(queries) \in Nat \ {0} /\ 1 \in DOMAIN queries /\ q = queries[1]
    BY <1>1
  <2>3. q = list[Done + 1]
    BY <1>1, <2>2
  <2> QED BY <2>1, <2>2, <2>3 DEF Done
<1>3. CASE page = "trace" /\ q = "decision" /\ decisions[subject] = << >>
  BY <1>3 DEF Select, Closes
<1>4. CASE ~(page = "trace" /\ q = "decision" /\ decisions[subject] = << >>)
  <2>1. /\ seen' = [r \in DOMAIN seen \cup {q} |-> IF r = q THEN Answered(q) ELSE seen[r]]
        /\ queries' = Tail(queries) /\ page' = page
    BY <1>4 DEF Select
  <2>2. Len(queries') = Len(queries) - 1
    BY <1>1, <1>2, <2>1
  <2>3. Done' = Done + 1
    BY <1>2, <2>1, <2>2 DEF Done
  <2>4. Done + 1 <= Len(list)
    BY <1>2
  <2>5. \A i \in 1..Done : list[i] # q /\ list[i] \in DOMAIN seen
    <3> SUFFICES ASSUME NEW i \in 1..Done PROVE list[i] # q /\ list[i] \in DOMAIN seen
      OBVIOUS
    <3>1. list[i] \in DOMAIN seen
      BY <1>1, PageAssumption DEF ReaderInv
    <3>2. i \in 1..Len(list) /\ Done + 1 \in 1..Len(list) /\ i # Done + 1
      BY <1>1, <1>2, <2>4
    <3> QED BY <1>1, <1>2, <3>1, <3>2, QueriesDiffer
  <2>6. /\ seen'[q] = Answered(q) /\ q \in DOMAIN seen'
        /\ \A i \in 1..Done : list[i] \in DOMAIN seen' /\ seen'[list[i]] = seen[list[i]]
    BY <2>1, <2>5
  <2>7. page = "trace" /\ Done = 0 => decisions[subject] # << >>
    <3>1. page = "trace" /\ Done = 0 => q = "decision"
      BY <1>2, QueriesAre
    <3> QED BY <1>4, <3>1
  <2> HIDE DEF q
  <2> QED BY <1>1, <1>2, <2>1, <2>3, <2>4, <2>6, <2>7 DEF Asks
<1> QED BY <1>3, <1>4

\* The page stays in order.
LEMMA ReaderSteps ==
    ASSUME ReaderInv, [DashboardNext]_<<vars, reader>>
    PROVE  ReaderInv' /\ (Works \/ Opens \/ Closes \/ Asks)
<1>1. CASE /\ [Next]_vars /\ UNCHANGED <<page, subject, queries, seen>>
           /\ calm' = (calm /\ (queries = << >> \/ Quiet'))
  <2>1. Works
    BY <1>1, PageAssumption DEF ReaderInv, Works
  <2>2. Done' = Done
    BY <1>1 DEF Done
  <2> QED BY <1>1, <2>1, <2>2 DEF Works, ReaderInv
<1>2. CASE UNCHANGED <<vars, reader>>
  <2>1. Works
    BY <1>2 DEF ReaderInv, Works, reader, Quiet, vars
  <2>2. Done' = Done /\ Quiet' = Quiet
    BY <1>2 DEF Done, Quiet, vars, reader
  <2> QED BY <1>2, <2>1, <2>2 DEF Works, ReaderInv, reader
<1>3. ASSUME NEW pg \in Pages, NEW p, pg = "trace" => p \in Payments, OpenPage(pg, p), UNCHANGED vars
      PROVE  ReaderInv' /\ Opens
  <2>1. /\ page' = pg /\ queries' = Queries(pg) /\ subject' = p /\ calm' = Quiet
        /\ Quiet' = Quiet
    BY <1>3 DEF OpenPage, Quiet, vars
  <2>2. /\ Queries(pg) \in Seq(QueryNames) /\ Len(Queries(pg)) \in Nat
        /\ DOMAIN Queries(pg) = 1..Len(Queries(pg))
    BY QueriesDiffer
  <2>3. Done' = 0
    BY <2>1, <2>2 DEF Done
  <2>4. \A i \in DOMAIN queries' : queries'[i] = Queries(page')[0 + i]
    BY <2>1, <2>2
  <2>5. pg # Unopened
    BY PageAssumption
  <2> QED BY <1>3, <2>1, <2>2, <2>3, <2>4, <2>5 DEF Opens, ReaderInv
<1>4. CASE Select /\ UNCHANGED vars
  <2>1. CASE Closes
    BY <2>1 DEF ReaderInv, Closes
  <2>2. CASE Asks /\ queries' = Tail(queries)
    <3> DEFINE list == Queries(page)
    <3>1. /\ page' = page /\ subject' = subject /\ calm' = calm /\ Quiet' = Quiet /\ page \in Pages
          /\ page # Unopened /\ queries # << >> /\ Done \in Nat /\ Done' = Done + 1
      BY <2>2, PageAssumption DEF Asks, Quiet, vars
    <3>2. queries \in Seq(QueryNames) /\ queries' \in Seq(QueryNames)
          /\ \A i \in DOMAIN queries' : i \in Nat /\ i + 1 \in DOMAIN queries /\ queries'[i] = queries[i + 1]
      <4>1. queries \in Seq(QueryNames)
        BY <3>1 DEF ReaderInv
      <4> QED BY <2>2, <3>1, <4>1
    <3>3. \A i \in DOMAIN queries' : queries'[i] = list[Done + 1 + i]
      <4> SUFFICES ASSUME NEW i \in DOMAIN queries' PROVE queries'[i] = list[Done + 1 + i]
        OBVIOUS
      <4>1. queries'[i] = list[Done + (i + 1)] /\ i \in Nat
        BY <3>1, <3>2 DEF ReaderInv
      <4>2. Done + (i + 1) = Done + 1 + i
        BY <3>1, <4>1
      <4> QED BY <4>1, <4>2
    <3>4. \A i \in 1..Done' : list[i] \in DOMAIN seen'
      <4> SUFFICES ASSUME NEW i \in 1..Done' PROVE list[i] \in DOMAIN seen'
        OBVIOUS
      <4>1. i \in 1..Done \/ i = Done + 1
        BY <3>1
      <4> QED BY <2>2, <4>1 DEF Asks
    <3>5. page = "trace" => subject \in Payments
      BY <3>1 DEF ReaderInv
    <3>6. calm => Quiet
      BY <3>1 DEF ReaderInv
    <3>7. Done' \in Nat /\ Queries(page') = list
      BY <3>1
    <3>8. /\ page' \in Pages /\ page' # Unopened /\ queries' \in Seq(QueryNames) /\ Done' \in Nat
          /\ \A i \in DOMAIN queries' : queries'[i] = Queries(page')[Done' + i]
          /\ \A i \in 1..Done' : Queries(page')[i] \in DOMAIN seen'
      BY <3>1, <3>2, <3>3, <3>4, <3>7
    <3> QED BY <2>2, <3>1, <3>5, <3>6, <3>8 DEF ReaderInv
  <2> QED BY <1>4, <2>1, <2>2, SelectAsks
<1>5. {"not_chased", "metrics", "audit", "trace"} \subseteq Pages
  BY DEF Pages
<1> QED BY <1>1, <1>2, <1>3, <1>4, <1>5 DEF DashboardNext

----------------------------------------------------------------------------
(* What is counted later is no less.                                       *)

\* Rows stay in the columns' categories, and are finitely many.
LEMMA CountsGrow ==
    ASSUME BaseInv, BaseInv', [Next]_vars, NEW column, NEW value
    PROVE  /\ Where(column, value) \subseteq Where(column, value)'
           /\ IsFiniteSet(Where(column, value)) /\ IsFiniteSet(Where(column, value)')
           /\ Cardinality(Where(column, value)) \in Nat /\ Cardinality(Where(column, value)') \in Nat
           /\ Cardinality(Where(column, value)) <= Cardinality(Where(column, value)')
<1>1. IsFiniteSet(DecisionRows) /\ IsFiniteSet(DecisionRows')
  BY DEF BaseInv, LogInv, CountInv
<1>2. ASSUME NEW x \in DecisionRows PROVE x \in DecisionRows' /\ VerdictAt(x)' = VerdictAt(x)
  <2>1. x[1] \in Payments /\ x[2] \in DOMAIN decisions[x[1]] /\ x = <<x[1], x[2]>>
    BY DecisionRowsAre
  <2>2. x[2] \in DOMAIN decisions'[x[1]] /\ decisions'[x[1]][x[2]] = decisions[x[1]][x[2]]
    BY <2>1, LogGrows DEF BaseInv, PipelineInv
  <2> QED BY <2>1, <2>2 DEF DecisionRows, VerdictAt
<1>3. Where(column, value) \subseteq Where(column, value)'
  BY <1>2 DEF Where
<1>4. PICK A, B : A = Where(column, value) /\ B = Where(column, value)'
  OBVIOUS
<1>5. IsFiniteSet(A) /\ IsFiniteSet(B) /\ A \in SUBSET B
  BY <1>1, <1>3, <1>4, FS_Subset DEF Where
<1>6. Cardinality(A) \in Nat /\ Cardinality(B) \in Nat /\ Cardinality(A) <= Cardinality(B)
  BY <1>5, FS_Subset, FS_CardinalityType
<1> QED BY <1>4, <1>5, <1>6

\* The rungs of the acts are all there are.
LEMMA RungsAreActs == ASSUME BaseInv PROVE Total(rung_counts) = Cardinality(Acts)
<1> DEFINE F == [a \in Actions |-> Acts \cap Where("action", a)]
           f == [a \in Actions |-> Cardinality(Acts \cap Where("action", a))]
<1>1. IsFiniteSet(Acts)
  BY ActsAreFinite DEF BaseInv, LogInv, CountInv
<1>2. \A a \in Actions : IsFiniteSet(F[a]) /\ f[a] = Cardinality(F[a])
  BY <1>1, FS_Subset
<1>3. \A a, b \in Actions : a # b => F[a] \cap F[b] = {}
  BY DEF Where
<1>4. UNION {F[a] : a \in Actions} = Acts
  <2> SUFFICES ASSUME NEW x \in Acts PROVE \E a \in Actions : x \in F[a]
    OBVIOUS
  <2>1. x \in DecisionRows /\ VerdictAt(x).terminal = "ACT"
    BY DEF Acts, Where
  <2>2. VerdictAt(x).action \in Actions
    BY <2>1, DecisionRowsAre DEF BaseInv, LogInv, DecisionsInv, DecisionOk, Sound, VerdictAt
  <2> QED BY <2>1, <2>2 DEF Where
<1>5. SumFunctionOnSet(f, Actions) = Cardinality(UNION {F[a] : a \in Actions})
  <2> HIDE DEF F, f
  <2> QED BY <1>2, <1>3, EngineAssumption, CountsAddUp
<1>6. Total(rung_counts) = SumFunctionOnSet(f, Actions)
  BY DEF Total, rung_counts
<1> QED BY <1>4, <1>5, <1>6

\* Without real money every ledger row is a dry run, and there are as many as
\* acts at least.
LEMMA SendsCoverActs ==
    ASSUME BaseInv, ~real_spend
    PROVE  /\ Committed("dry_run") = Rows(Payments)
           /\ Cardinality(Committed("dry_run")) \in Nat
           /\ Cardinality(Acts) <= Cardinality(Committed("dry_run"))
<1>1. Committed("dry_run") = Rows(Payments)
  BY DEF BaseInv, LogInv, CountInv, Committed
<1>2. /\ Cardinality(Rows(Payments)) \in Nat /\ Cardinality(Acts) \in Nat
      /\ Cardinality(Pending) \in Nat
  BY ActsAreFinite, FS_CardinalityType DEF BaseInv, LogInv, CountInv, PipelineInv, TypeInv
<1>3. Cardinality(Acts) + Cardinality(Pending) <= Cardinality(Rows(Payments))
  BY DEF BaseInv, LogInv, CountInv
<1> QED BY <1>1, <1>2, <1>3

\* The acts a live page shows are acts still, and what it shows after them
\* covers them.
MetricsInv ==
    LET acts == seen["terminals"]["ACT"]
    IN  page = "metrics" =>
            /\ Done >= 1 => acts \in Nat /\ acts <= Cardinality(Acts)
            /\ Done >= 5 /\ ~real_spend => seen["dry_run_sends"] >= acts
            /\ Done >= 7 => Total(seen["rungs"]) >= acts

LEMMA MetricsKept ==
    ASSUME BaseInv, BaseInv', ReaderInv, ReaderInv', MetricsInv, [DashboardNext]_<<vars, reader>>
    PROVE  MetricsInv'
<1> SUFFICES ASSUME page' = "metrics"
             PROVE  LET acts == seen["terminals"]["ACT"]
                    IN  /\ Done >= 1 => acts \in Nat /\ acts <= Cardinality(Acts)
                        /\ Done >= 5 /\ ~real_spend => seen["dry_run_sends"] >= acts
                        /\ Done >= 7 => Total(seen["rungs"]) >= acts
                    '
  BY DEF MetricsInv
<1>0. /\ real_spend' = real_spend
      /\ Acts = Where("terminal", "ACT") /\ Acts' = Where("terminal", "ACT")'
  <2>1. [Next]_vars /\ TypeOK
    BY DEF DashboardNext, BaseInv, PipelineInv, TypeInv
  <2> QED BY <2>1, CrashSteps DEF Acts
<1>1. CASE Works
  <2>1. page' = page /\ seen' = seen /\ Done' = Done
    BY <1>1 DEF Works, Done
  <2>2. /\ Cardinality(Acts) \in Nat /\ Cardinality(Acts') \in Nat
        /\ Cardinality(Acts) <= Cardinality(Acts')
    BY <1>0, <1>1, CountsGrow DEF Works
  <2> QED BY <1>0, <2>1, <2>2 DEF MetricsInv
<1>2. CASE Opens
  <2>1. Done' = 0
    BY <1>2, QueriesDiffer DEF Opens, Done
  <2> QED BY <2>1
<1>3. CASE Closes
  BY <1>3, PageAssumption DEF Closes, Pages
<1>4. CASE Asks
  <2>1. /\ page = "metrics" /\ Done \in Nat /\ Done' = Done + 1 /\ Done + 1 <= 7
        /\ Acts' = Acts /\ Cardinality(Acts) \in Nat
    <3>1. page = page' /\ Done \in Nat /\ Done' = Done + 1 /\ Done + 1 <= Len(Queries(page))
          /\ decisions' = decisions
      BY <1>4 DEF Asks, vars
    <3>2. Len(Queries("metrics")) = 7
      BY QueriesAre
    <3>3. Acts' = Acts
      BY <3>1, SameRows
    <3>4. Cardinality(Acts) \in Nat
      BY ActsAreFinite DEF BaseInv, LogInv, CountInv
    <3> QED BY <3>1, <3>2, <3>3, <3>4
  <2>2. PICK k : k = Done
    OBVIOUS
  <2>3. /\ k >= 1 => seen'["terminals"] = seen["terminals"]
        /\ k >= 5 => seen'["dry_run_sends"] = seen["dry_run_sends"]
        /\ k = 0 => seen'["terminals"] = terminal_counts
        /\ k = 4 => seen'["dry_run_sends"] = Cardinality(Committed("dry_run"))
        /\ k = 6 => seen'["rungs"] = rung_counts
    <3>1. /\ seen'[Queries("metrics")[k + 1]] = Answered(Queries("metrics")[k + 1])
          /\ \A i \in 1..k : seen'[Queries("metrics")[i]] = seen[Queries("metrics")[i]]
      BY <1>4, <2>1, <2>2 DEF Asks
    <3>2. /\ Answered("terminals") = terminal_counts /\ Answered("rungs") = rung_counts
          /\ Answered("dry_run_sends") = Cardinality(Committed("dry_run"))
      BY AnswersAre DEF AnswersHold
    <3>3. k \in Nat
      BY <2>1, <2>2
    <3>4. /\ k >= 1 => 1 \in 1..k
          /\ k >= 5 => 5 \in 1..k
      BY <3>3
    <3>5. /\ Queries("metrics")[1] = "terminals" /\ Queries("metrics")[5] = "dry_run_sends"
          /\ Queries("metrics")[7] = "rungs"
      BY QueriesAre
    <3> HIDE DEF Answered
    <3> QED BY <3>1, <3>2, <3>3, <3>4, <3>5
  <2>4. k = 0 => seen'["terminals"]["ACT"] = Cardinality(Acts)
    BY <2>3 DEF terminal_counts, Terminals, Acts
  <2>5. Total(rung_counts) = Cardinality(Acts)
    BY RungsAreActs
  <2>6. ~real_spend => /\ Cardinality(Committed("dry_run")) \in Nat
                       /\ Cardinality(Acts) <= Cardinality(Committed("dry_run"))
    BY SendsCoverActs
  <2>7. PICK a, d : a = seen'["terminals"]["ACT"] /\ d = seen'["dry_run_sends"]
    OBVIOUS
  <2>8. a \in Nat /\ a <= Cardinality(Acts)
    BY <2>1, <2>2, <2>3, <2>4, <2>7 DEF MetricsInv
  <2>9. k >= 4 /\ ~real_spend => d >= a
    BY <2>1, <2>2, <2>3, <2>6, <2>7, <2>8 DEF MetricsInv
  <2>10. k >= 6 => Total(seen'["rungs"]) >= a
    BY <2>1, <2>2, <2>3, <2>5, <2>8
  <2> QED BY <1>0, <2>1, <2>2, <2>7, <2>8, <2>9, <2>10 DEF Total
<1> QED BY <1>1, <1>2, <1>3, <1>4, ReaderSteps

----------------------------------------------------------------------------
(* A trace.                                                                *)

\* The evaluations a trace of p finds for its first decision.
Shown(p) == {e \in evals : e.payment = p /\ e.rung = Chosen(decisions[p][1].verdict, p)}
Explains(v, shown) ==
    /\ v.terminal = "ACT" => \E e \in shown : e.blocked_by = {}
    /\ v.terminal = "BLOCKED" =>
         \E e \in shown : e.blocked_by # {} /\ Primary(e.blocked_by) = v.reason
    /\ one_process /\ crashes = 0 =>
         Cardinality(shown) = IF v.terminal \in {"ACT", "BLOCKED"} THEN 1 ELSE 0

\* The evaluations of a payment's walk explain its first decision.
LEMMA WalkExplains ==
    ASSUME BaseInv, NEW p \in Payments, decisions[p] # << >>
    PROVE  Explains(decisions[p][1].verdict, Shown(p))
<1> USE DEF BaseInv, PipelineInv, TypeInv, LogInv
<1>1. PICK v, ts : v = decisions[p][1].verdict /\ ts = decisions[p][1].created_at
  OBVIOUS
<1>2. 1 \in DOMAIN decisions[p]
  <2>1. decisions[p] \in Seq(DecisionRow)
    BY DEF TypeOK
  <2> QED BY <2>1
<1>3. Sound(p, v) /\ (v.terminal = "BLOCKED" => Vetoed(p, v.reason, ts))
  BY <1>1, <1>2 DEF DecisionsInv, DecisionOk
<1>4. ASSUME v.terminal = "ACT" PROVE \E e \in Shown(p) : e.blocked_by = {}
  <2>1. PICK j \in DOMAIN spend[p] : spend[p][j].rung = v.action /\ spend[p][j].ts = ts
    BY <1>1, <1>2, <1>4 DEF ActsAreCommitted
  <2>2. PICK i \in DOMAIN Ranking[p] : Ranking[p][i] = v.action /\ Justified(p, i, ts)
    BY <2>1 DEF RowsInv, RowOk
  <2>3. PICK e \in evals : e.payment = p /\ e.rung = v.action /\ e.blocked_by = {}
    BY <2>2 DEF Justified, IsEvaluated
  <2>4. Chosen(v, p) = v.action
    BY <1>3, <1>4, NullAssumption DEF Sound, Chosen
  <2> QED BY <1>1, <2>3, <2>4 DEF Shown
<1>5. ASSUME v.terminal = "BLOCKED"
      PROVE  \E e \in Shown(p) : e.blocked_by # {} /\ Primary(e.blocked_by) = v.reason
  <2>1. Chosen(v, p) = Ranking[p][1]
    BY <1>3, <1>5 DEF Sound, Chosen
  <2> QED BY <1>1, <1>3, <1>5, <2>1 DEF Vetoed, Names, Shown
<1>6. ASSUME one_process, crashes = 0
      PROVE  Cardinality(Shown(p)) = IF v.terminal \in {"ACT", "BLOCKED"} THEN 1 ELSE 0
  <2>1. /\ \A e \in evals : Walked(e.payment) \/ \E c \in Callers : Walking(c, e)
        /\ \A e, f \in evals : e.payment = f.payment /\ e.rung = f.rung => e = f
        /\ \A c \in Callers : Current(c)
    BY <1>6 DEF OneWalk, SeriesInv
  <2>2. CASE v.terminal \in {"ACT", "BLOCKED"}
    <3>1. PICK e \in Shown(p) : TRUE
      BY <1>4, <1>5, <2>2
    <3>2. Shown(p) = {e}
      BY <2>1, <3>1 DEF Shown
    <3> QED BY <2>2, <3>2, FS_Singleton
  <2>3. CASE v.terminal \notin {"ACT", "BLOCKED"}
    <3>1. ASSUME NEW e \in evals, e.payment = p PROVE FALSE
      <4>1. PICK c \in Callers : Walking(c, e)
        BY <1>1, <2>1, <2>3, <3>1 DEF Walked
      <4>2. decisions[p] = << >>
        BY <2>1, <3>1, <4>1 DEF Walking, Current
      <4> QED BY <4>2
    <3>2. Shown(p) = {}
      BY <3>1 DEF Shown
    <3> QED BY <2>3, <3>2, FS_EmptySet
  <2> QED BY <2>2, <2>3
<1> QED BY <1>1, <1>4, <1>5, <1>6 DEF Explains

\* A trace shows the first decision and, once it has looked them up, the
\* evaluations that explain it.
TraceInv ==
    page = "trace" =>
        /\ Done >= 1 => decisions[subject] # << >> /\ seen["decision"] = decisions[subject][1].verdict
        /\ Done >= 2 => seen["event_id"]
        /\ Done >= 3 => Explains(seen["decision"], seen["guardrails"])

LEMMA TraceKept ==
    ASSUME BaseInv, ReaderInv, ReaderInv', TraceInv, [DashboardNext]_<<vars, reader>>
    PROVE  TraceInv'
<1> SUFFICES ASSUME page' = "trace"
             PROVE  (/\ Done >= 1 => /\ decisions[subject] # << >>
                                     /\ seen["decision"] = decisions[subject][1].verdict
                     /\ Done >= 2 => seen["event_id"]
                     /\ Done >= 3 => Explains(seen["decision"], seen["guardrails"]))'
  BY DEF TraceInv
<1>1. CASE Works
  <2>1. page' = page /\ seen' = seen /\ Done' = Done /\ subject' = subject /\ [Next]_vars
        /\ subject \in Payments
    BY <1>1, PageAssumption DEF Works, Done, ReaderInv, Pages
  <2>2. ASSUME decisions[subject] # << >>
        PROVE  decisions'[subject] # << >> /\ decisions'[subject][1] = decisions[subject][1]
    <3>1. 1 \in DOMAIN decisions[subject]
      <4>1. decisions[subject] \in Seq(DecisionRow)
        BY <2>1 DEF BaseInv, PipelineInv, TypeInv, TypeOK
      <4> QED BY <2>2, <4>1
    <3>2. 1 \in DOMAIN decisions'[subject] /\ decisions'[subject][1] = decisions[subject][1]
      BY <2>1, <3>1, LogGrows DEF BaseInv, PipelineInv
    <3>3. decisions'[subject] # << >>
      BY <3>2
    <3> QED BY <3>2, <3>3
  <2>3. PICK v, shown : v = seen["decision"] /\ shown = seen["guardrails"]
    OBVIOUS
  <2>4. one_process' = one_process /\ (crashes' = 0 => crashes = 0)
    BY <2>1, CrashSteps DEF BaseInv, PipelineInv, TypeInv
  <2>5. Explains(v, shown) => Explains(v, shown)'
    BY <2>4, Zenon DEF Explains
  <2> QED BY <2>1, <2>2, <2>3, <2>5 DEF TraceInv, Explains
<1>2. CASE Opens
  <2>1. Done' = 0
    BY <1>2, QueriesDiffer DEF Opens, Done
  <2> QED BY <2>1
<1>3. CASE Closes
  BY <1>3, PageAssumption DEF Closes, Pages
<1>4. CASE Asks
  <2>1. /\ page = "trace" /\ subject' = subject /\ decisions' = decisions /\ evals' = evals
        /\ one_process' = one_process /\ crashes' = crashes
        /\ Done \in Nat /\ Done' = Done + 1 /\ Done + 1 <= 3 /\ subject \in Payments
    <3>1. Len(Queries("trace")) = 3
      BY QueriesAre
    <3> QED BY <1>4, <3>1, PageAssumption DEF Asks, vars, ReaderInv, Pages
  <2>2. PICK k : k = Done
    OBVIOUS
  <2>3. /\ seen'[Queries("trace")[k + 1]] = Answered(Queries("trace")[k + 1])
        /\ \A i \in 1..k : seen'[Queries("trace")[i]] = seen[Queries("trace")[i]]
        /\ k = 0 => decisions[subject] # << >>
    BY <1>4, <2>1, <2>2 DEF Asks
  <2>4. /\ Queries("trace")[1] = "decision" /\ Queries("trace")[2] = "event_id"
        /\ Queries("trace")[3] = "guardrails"
    BY QueriesAre
  <2>5. CASE k = 0
    <3>1. seen'["decision"] = decisions[subject][1].verdict /\ decisions[subject] # << >>
      BY <2>3, <2>4, <2>5, AnswersAre DEF AnswersHold
    <3> QED BY <2>1, <2>2, <2>5, <3>1
  <2>6. CASE k = 1
    <3>1. seen'["decision"] = seen["decision"] /\ seen'["event_id"] = (decisions[subject] # << >>)
      BY <2>3, <2>4, <2>6, AnswersAre DEF AnswersHold
    <3>2. decisions[subject] # << >> /\ seen["decision"] = decisions[subject][1].verdict
      BY <2>1, <2>2, <2>6 DEF TraceInv
    <3>3. seen'["event_id"]
      BY <3>1, <3>2, Zenon
    <3>4. Done' = 2
      BY <2>1, <2>2, <2>6
    <3> QED BY <2>1, <3>1, <3>2, <3>3, <3>4
  <2>7. CASE k = 2
    <3>1. /\ seen'["decision"] = seen["decision"] /\ seen'["event_id"] = seen["event_id"]
          /\ seen'["guardrails"] = Answered("guardrails")
      BY <2>3, <2>4, <2>7
    <3>2. /\ seen["event_id"] /\ decisions[subject] # << >>
          /\ seen["decision"] = decisions[subject][1].verdict
      BY <2>1, <2>2, <2>7 DEF TraceInv
    <3>3. seen'["guardrails"] = Shown(subject)
      BY <3>1, <3>2, AnswersAre DEF AnswersHold, Shown
    <3>4. Explains(seen["decision"], Shown(subject))
      BY <2>1, <3>2, WalkExplains
    <3>5. PICK v, shown : v = seen["decision"] /\ shown = seen'["guardrails"]
      OBVIOUS
    <3>6. Explains(v, shown)'
      BY <2>1, <3>3, <3>4, <3>5 DEF Explains
    <3> QED BY <2>1, <2>2, <2>7, <3>1, <3>2, <3>5, <3>6 DEF Explains
  <2>8. k \in {0, 1, 2}
    BY <2>1, <2>2
  <2> QED BY <2>5, <2>6, <2>7, <2>8
<1> QED BY <1>1, <1>2, <1>3, <1>4, ReaderSteps

----------------------------------------------------------------------------
(* Every decision falls in one category.                                   *)

LEMMA DisjointCount ==
    ASSUME NEW A, NEW B, IsFiniteSet(A), IsFiniteSet(B), A \cap B = {}
    PROVE  /\ IsFiniteSet(A \cup B)
           /\ Cardinality(A \cup B) = Cardinality(A) + Cardinality(B)
<1>1. /\ IsFiniteSet(A \cup B)
      /\ Cardinality(A \cup B) = Cardinality(A) + Cardinality(B) - Cardinality(A \cap B)
  BY FS_Union
<1>2. Cardinality(A \cap B) = 0 /\ Cardinality(A) \in Nat /\ Cardinality(B) \in Nat
  BY FS_EmptySet, FS_CardinalityType
<1> QED BY <1>1, <1>2

\* What a row of the decisions holds.
LEMMA RowsAreVerdicts ==
    ASSUME BaseInv, NEW x \in DecisionRows
    PROVE  VerdictAt(x).terminal \in Terminals /\ Sound(x[1], VerdictAt(x)) /\ x[1] \in Payments
<1>1. x[1] \in Payments /\ x[2] \in DOMAIN decisions[x[1]]
  BY DecisionRowsAre
<1>2. Sound(x[1], VerdictAt(x))
  BY <1>1 DEF BaseInv, LogInv, DecisionsInv, DecisionOk, VerdictAt
<1>3. decisions[x[1]][x[2]] \in DecisionRow
  <2>1. decisions[x[1]] \in Seq(DecisionRow)
    BY <1>1 DEF BaseInv, PipelineInv, TypeInv, TypeOK
  <2> QED BY <1>1, <2>1
<1> QED BY <1>1, <1>2, <1>3 DEF DecisionRow, Verdicts, Terminals, VerdictAt

LEMMA CategoriesFinite ==
    /\ IsFiniteSet(Terminals)
    /\ DOMAIN Categories = 1..8 /\ IsFiniteSet(DOMAIN Categories)
<1>1. IsFiniteSet({"ACT", "SKIP"}) /\ IsFiniteSet({"BLOCKED", "ROUTE_TO_HUMAN"})
  <2>1. IsFiniteSet({"ACT"}) /\ IsFiniteSet({"BLOCKED"})
    BY FS_Singleton
  <2>2. IsFiniteSet({"ACT"} \cup {"SKIP"}) /\ IsFiniteSet({"BLOCKED"} \cup {"ROUTE_TO_HUMAN"})
    BY <2>1, FS_AddElement
  <2>3. {"ACT"} \cup {"SKIP"} = {"ACT", "SKIP"}
        /\ {"BLOCKED"} \cup {"ROUTE_TO_HUMAN"} = {"BLOCKED", "ROUTE_TO_HUMAN"}
    OBVIOUS
  <2> QED BY <2>2, <2>3
<1>2. Terminals = {"ACT", "SKIP"} \cup {"BLOCKED", "ROUTE_TO_HUMAN"}
  BY DEF Terminals
<1>3. IsFiniteSet({"ACT", "SKIP"} \cup {"BLOCKED", "ROUTE_TO_HUMAN"})
  <2>1. PICK A, B : A = {"ACT", "SKIP"} /\ B = {"BLOCKED", "ROUTE_TO_HUMAN"}
    OBVIOUS
  <2>2. IsFiniteSet(A \cup B)
    BY <1>1, <2>1, FS_Union
  <2> QED BY <2>1, <2>2
<1>4. DOMAIN Categories = 1..8
  BY CategoriesAre
<1>5. IsFiniteSet(1..8)
  <2>1. PICK n \in Int : n = 8
    OBVIOUS
  <2>2. IsFiniteSet(1..n)
    BY FS_Interval
  <2> QED BY <2>1, <2>2, Zenon
<1> QED BY <1>2, <1>3, <1>4, <1>5

\* The terminals are all decisions.
LEMMA TerminalsAreRows == ASSUME BaseInv PROVE Total(terminal_counts) = Cardinality(DecisionRows)
<1> DEFINE F == [t \in Terminals |-> Where("terminal", t)]
           f == [t \in Terminals |-> Cardinality(Where("terminal", t))]
<1>1. IsFiniteSet(DecisionRows)
  BY DEF BaseInv, LogInv, CountInv
<1>2. \A t \in Terminals : IsFiniteSet(F[t]) /\ f[t] = Cardinality(F[t])
  BY <1>1, FS_Subset DEF Where
<1>3. \A s, t \in Terminals : s # t => F[s] \cap F[t] = {}
  BY DEF Where
<1>4. UNION {F[t] : t \in Terminals} = DecisionRows
  <2>1. \A x \in DecisionRows : x \in F[VerdictAt(x).terminal] /\ VerdictAt(x).terminal \in Terminals
    BY RowsAreVerdicts DEF Where
  <2>2. \A t \in Terminals : F[t] \subseteq DecisionRows
    BY DEF Where
  <2> HIDE DEF F
  <2> QED BY <2>1, <2>2
<1>5. SumFunctionOnSet(f, Terminals) = Cardinality(UNION {F[t] : t \in Terminals})
  <2> HIDE DEF F, f
  <2> QED BY <1>2, <1>3, CategoriesFinite, CountsAddUp
<1>6. Total(terminal_counts) = SumFunctionOnSet(f, Terminals)
  BY DEF Total, terminal_counts
<1> QED BY <1>4, <1>5, <1>6

\* Acts, routes and the categories of the page are all decisions, each once.
CategoryRows(i) == IF Categories[i] = "BLOCKED" THEN Where("terminal", "BLOCKED")
                   ELSE Where("reason", Categories[i])
Routes == Where("terminal", "ROUTE_TO_HUMAN")

LEMMA CategoriesAddUp ==
    ASSUME BaseInv
    PROVE  LET all == Total([i \in DOMAIN Categories |-> Cardinality(CategoryRows(i))])
           IN  /\ Cardinality(Acts) \in Nat /\ Cardinality(Routes) \in Nat /\ all \in Nat
               /\ Cardinality(Acts) + Cardinality(Routes) + all = Cardinality(DecisionRows)
<1> DEFINE K == DOMAIN Categories
           F == [i \in K |-> CategoryRows(i)]
           f == [i \in K |-> Cardinality(CategoryRows(i))]
           U == UNION {F[i] : i \in K}
<1>1. IsFiniteSet(DecisionRows)
  BY DEF BaseInv, LogInv, CountInv
<1>2. \A i \in K : CategoryRows(i) \subseteq DecisionRows
  BY DEF CategoryRows, Where
<1>3. \A i \in K : IsFiniteSet(F[i]) /\ f[i] = Cardinality(F[i])
  BY <1>1, <1>2, FS_Subset
<1>4. \A r : (r \in SkipReasons \/ r = "BLOCKED") <=> \E i \in K : Categories[i] = r
  BY CategoriesAre, CategoriesFinite DEF SkipReasons
<1>5. ASSUME NEW x \in DecisionRows, NEW i \in K
      PROVE  x \in CategoryRows(i) <=>
               IF Categories[i] = "BLOCKED" THEN VerdictAt(x).terminal = "BLOCKED"
               ELSE VerdictAt(x).terminal = "SKIP" /\ VerdictAt(x).reason = Categories[i]
  <2>1. Categories[i] # "BLOCKED" => Categories[i] \in SkipReasons
    BY <1>4
  <2> QED BY <2>1, RowsAreVerdicts DEF CategoryRows, Where, Sound
<1>6. \A i, j \in K : i # j => Categories[i] # Categories[j]
  BY CategoriesAre, CategoriesFinite
<1>7. \A i, j \in K : i # j => F[i] \cap F[j] = {}
  BY <1>2, <1>5, <1>6
<1>8. U = {x \in DecisionRows : VerdictAt(x).terminal \in {"SKIP", "BLOCKED"}}
  <2>1. \A x : x \in U <=> \E i \in K : x \in CategoryRows(i)
    OBVIOUS
  <2>2. ASSUME NEW x \in DecisionRows
        PROVE  x \in U <=> VerdictAt(x).terminal \in {"SKIP", "BLOCKED"}
    <3>1. VerdictAt(x).terminal = "SKIP" => VerdictAt(x).reason \in SkipReasons
      BY RowsAreVerdicts DEF Sound
    <3>2. \A r \in SkipReasons : r # "BLOCKED"
      BY DEF SkipReasons
    <3> QED BY <1>4, <1>5, <2>1, <3>1, <3>2
  <2>3. U \subseteq DecisionRows
    BY <1>2
  <2> HIDE DEF U
  <2> QED BY <2>2, <2>3
<1>9. SumFunctionOnSet(f, K) = Cardinality(U)
  <2> HIDE DEF F, f, K
  <2>1. IsFiniteSet(K)
    BY CategoriesFinite DEF K
  <2> QED BY <1>3, <1>7, <2>1, CountsAddUp
<1>10. Total([i \in DOMAIN Categories |-> Cardinality(CategoryRows(i))]) = Cardinality(U)
  BY <1>9 DEF Total
<1> HIDE DEF U
<1>11. /\ IsFiniteSet(Acts) /\ IsFiniteSet(Routes) /\ IsFiniteSet(U)
       /\ Acts \cap Routes = {} /\ (Acts \cup Routes) \cap U = {}
       /\ (Acts \cup Routes) \cup U = DecisionRows
  <2>1. Acts \subseteq DecisionRows /\ Routes \subseteq DecisionRows /\ U \subseteq DecisionRows
    BY <1>8 DEF Acts, Routes, Where
  <2>2. \A x \in DecisionRows : /\ x \in Acts <=> VerdictAt(x).terminal = "ACT"
                                /\ x \in Routes <=> VerdictAt(x).terminal = "ROUTE_TO_HUMAN"
                                /\ VerdictAt(x).terminal \in Terminals
    BY RowsAreVerdicts DEF Acts, Routes, Where
  <2>3. IsFiniteSet(Acts) /\ IsFiniteSet(Routes) /\ IsFiniteSet(U)
    BY <1>1, <2>1, FS_Subset
  <2> QED BY <1>8, <2>1, <2>2, <2>3 DEF Terminals
<1>12. PICK A, R : A = Acts /\ R = Routes
  OBVIOUS
<1>13. /\ IsFiniteSet(A \cup R) /\ Cardinality(A \cup R) = Cardinality(A) + Cardinality(R)
  BY <1>11, <1>12, DisjointCount
<1>14. Cardinality((A \cup R) \cup U) = Cardinality(A \cup R) + Cardinality(U)
  <2>1. (A \cup R) \cap U = {} /\ IsFiniteSet(U)
    BY <1>11, <1>12
  <2> QED BY <1>13, <2>1, DisjointCount
<1>15. Cardinality(A) \in Nat /\ Cardinality(R) \in Nat /\ Cardinality(U) \in Nat
  BY <1>11, <1>12, FS_CardinalityType
<1> QED BY <1>10, <1>11, <1>12, <1>13, <1>14, <1>15

\* Between calls nothing is decided, evaluated or committed.
LEMMA QuietTables ==
    ASSUME [Next]_vars, Quiet
    PROVE  decisions' = decisions /\ evals' = evals /\ spend' = spend
<1>1. \A c \in Callers : ~RecordDecision(c) /\ ~RecordEvaluation(c) /\ ~RecordSpend(c)
  BY DEF Quiet, RecordDecision, RecordEvaluation, RecordSpend, Goto
<1> QED BY <1>1, DecisionSteps, EvaluationSteps, LedgerSteps

\* A category's share of /not-chased: what was read of it, else what it holds.
Share == [i \in DOMAIN Categories |->
            IF i < Done THEN seen[Categories[i]] ELSE Cardinality(CategoryRows(i))]
NotChasedInv ==
    LET count == seen["terminals"]
        shown == count["ACT"] + count["ROUTE_TO_HUMAN"] + Total(Share)
    IN  page = "not_chased" /\ Done >= 1 =>
            /\ count["ACT"] \in Nat /\ count["ROUTE_TO_HUMAN"] \in Nat /\ Total(count) \in Nat
            /\ \A i \in DOMAIN Categories : Share[i] \in Nat
            /\ shown >= Total(count) /\ (calm => shown = Total(count))

LEMMA CategoryAsked ==
    ASSUME NEW i \in DOMAIN Categories
    PROVE  /\ Queries("not_chased")[i + 1] = Categories[i] /\ i \in Nat \ {0} /\ i <= 8
           /\ Answered(Categories[i]) = Cardinality(CategoryRows(i))
<1>1. i \in 1..8
  BY CategoriesFinite
<1>2. Queries("not_chased")[i + 1] = Categories[i]
  BY <1>1, CategoriesAre, QueriesAre
<1>3. Categories[i] = "BLOCKED" \/ Categories[i] \in SkipReasons
  BY <1>1, CategoriesAre DEF SkipReasons
<1> QED BY <1>1, <1>2, <1>3, AnswersAre DEF AnswersHold, CategoryRows, SkipReasons

LEMMA NotChasedKept ==
    ASSUME BaseInv, BaseInv', ReaderInv, ReaderInv', NotChasedInv,
           [DashboardNext]_<<vars, reader>>
    PROVE  NotChasedInv'
<1> DEFINE K == DOMAIN Categories
           count == seen["terminals"]
           Adds(n, s, total) == n + s >= total /\ (calm' => n + s = total)
<1> SUFFICES ASSUME page' = "not_chased", Done' >= 1
             PROVE  /\ count'["ACT"] \in Nat /\ count'["ROUTE_TO_HUMAN"] \in Nat
                    /\ Total(count') \in Nat
                    /\ \A i \in K : Share'[i] \in Nat
                    /\ Adds(count'["ACT"] + count'["ROUTE_TO_HUMAN"], Total(Share'), Total(count'))
  BY DEF NotChasedInv
<1>0. K = 1..8 /\ IsFiniteSet(K) /\ DOMAIN Share = K /\ DOMAIN Share' = K
  BY CategoriesFinite DEF Share
<1>1. CASE Works
  <2>1. page = "not_chased" /\ seen' = seen /\ Done' = Done /\ [Next]_vars /\ queries' = queries
        /\ Done \in Nat
    BY <1>1, PageAssumption DEF Works, Done, ReaderInv, Pages
  <2>2. /\ count["ACT"] \in Nat /\ count["ROUTE_TO_HUMAN"] \in Nat /\ Total(count) \in Nat
        /\ \A i \in K : Share[i] \in Nat
        /\ count["ACT"] + count["ROUTE_TO_HUMAN"] + Total(Share) >= Total(count)
        /\ calm => count["ACT"] + count["ROUTE_TO_HUMAN"] + Total(Share) = Total(count)
    BY <2>1 DEF NotChasedInv
  <2>3. ASSUME NEW i \in K PROVE Share'[i] \in Nat /\ Share[i] <= Share'[i]
    <3>1. i \in Nat
      BY CategoryAsked
    <3>2. /\ Cardinality(CategoryRows(i)) \in Nat /\ Cardinality(CategoryRows(i)') \in Nat
          /\ Cardinality(CategoryRows(i)) <= Cardinality(CategoryRows(i)')
      BY <2>1, CountsGrow DEF CategoryRows
    <3>3. /\ Share[i] = IF i < Done THEN seen[Categories[i]] ELSE Cardinality(CategoryRows(i))
          /\ Share'[i] = IF i < Done THEN seen[Categories[i]] ELSE Cardinality(CategoryRows(i)')
      BY <2>1 DEF Share
    <3>4. Share[i] \in Nat
      BY <2>2
    <3> QED BY <2>1, <3>1, <3>2, <3>3, <3>4
  <2>4. calm' => Share' = Share
    <3>1. CASE queries = << >>
      <4>1. Done = 9
        BY <2>1, <3>1, QueriesAre DEF Done
      <4>2. \A i \in K : i < Done
        BY <1>0, <4>1
      <4> QED BY <2>1, <4>2 DEF Share
    <3>2. CASE queries # << >> /\ Quiet
      <4>1. DecisionRows' = DecisionRows /\ \A x : VerdictAt(x)' = VerdictAt(x)
        BY <2>1, <3>2, QuietTables, SameRows
      <4>2. \A i : CategoryRows(i)' = CategoryRows(i)
        BY <4>1 DEF CategoryRows, Where
      <4> QED BY <2>1, <4>2 DEF Share
    <3> QED BY <1>1, <3>1, <3>2 DEF Works
  <2>5. Total(Share) <= Total(Share') /\ Total(Share) \in Nat /\ Total(Share') \in Nat
    <3>1. PICK f, g : f = Share /\ g = Share'
      OBVIOUS
    <3>2. \A i \in K : f[i] \in Nat /\ g[i] \in Nat /\ f[i] <= g[i]
      BY <2>2, <2>3, <3>1
    <3>3. /\ SumFunctionOnSet(f, K) <= SumFunctionOnSet(g, K)
          /\ SumFunctionOnSet(f, K) \in Nat /\ SumFunctionOnSet(g, K) \in Nat
      <4> HIDE DEF K
      <4> QED BY <1>0, <3>2, SumMonotone, SumIsNat
    <3> QED BY <1>0, <3>1, <3>3 DEF Total
  <2>6. calm' => calm
    BY <1>1 DEF Works
  <2>7. Total(count') = Total(count) /\ count' = count
    BY <2>1
  <2>8. PICK n, s, z, total : /\ n = count["ACT"] + count["ROUTE_TO_HUMAN"] /\ s = Total(Share)
                              /\ z = Total(Share') /\ total = Total(count)
    OBVIOUS
  <2>9. n \in Nat /\ s \in Nat /\ z \in Nat /\ total \in Nat /\ s <= z /\ n + s >= total
    BY <2>2, <2>5, <2>8
  <2>10. calm' => n + z = total
    <3>1. calm' => z = s
      BY <2>4, <2>8
    <3>2. calm' => n + s = total
      BY <2>2, <2>6, <2>8, Zenon
    <3> QED BY <3>1, <3>2
  <2>11. n + z >= total
    BY <2>9
  <2>12. Adds(n, z, total)
    BY <2>10, <2>11
  <2> QED BY <2>2, <2>3, <2>7, <2>8, <2>12
<1>2. CASE Opens
  <2>1. Done' = 0
    BY <1>2, QueriesDiffer DEF Opens, Done
  <2> QED BY <2>1
<1>3. CASE Closes
  BY <1>3, PageAssumption DEF Closes, Pages
<1>4. CASE Asks
  <2>1. /\ page = "not_chased" /\ Done \in Nat /\ Done' = Done + 1 /\ Done + 1 <= 9
        /\ decisions' = decisions /\ calm' = calm
    <3>1. Len(Queries("not_chased")) = 9
      BY QueriesAre
    <3> QED BY <1>4, <3>1 DEF Asks, vars
  <2>2. PICK k : k = Done
    OBVIOUS
  <2>3. /\ seen'[Queries("not_chased")[k + 1]] = Answered(Queries("not_chased")[k + 1])
        /\ \A i \in 1..k : seen'[Queries("not_chased")[i]] = seen[Queries("not_chased")[i]]
    BY <1>4, <2>1, <2>2 DEF Asks
  <2>4. Queries("not_chased")[1] = "terminals"
    BY QueriesAre
  <2>5. \A i : CategoryRows(i)' = CategoryRows(i)
    <3>1. DecisionRows' = DecisionRows /\ \A x : VerdictAt(x)' = VerdictAt(x)
      BY <2>1, SameRows
    <3> QED BY <3>1 DEF CategoryRows, Where
  <2>6. \A i \in K : Share'[i] = IF i < k + 1 THEN seen'[Categories[i]] ELSE Cardinality(CategoryRows(i))
    BY <2>1, <2>2, <2>5 DEF Share
  <2>7. CASE k = 0
    <3>1. \A i \in K : Share'[i] = Cardinality(CategoryRows(i))
      BY <2>6, <2>7, CategoryAsked
    <3>2. Share' = [i \in K |-> Cardinality(CategoryRows(i))]
      BY <3>1 DEF Share
    <3>3. count' = terminal_counts
      BY <2>3, <2>4, <2>7, AnswersAre DEF AnswersHold
    <3>4. count'["ACT"] = Cardinality(Acts) /\ count'["ROUTE_TO_HUMAN"] = Cardinality(Routes)
      BY <3>3 DEF terminal_counts, Terminals, Acts, Routes
    <3>5. Total(count') = Cardinality(DecisionRows) /\ Cardinality(DecisionRows) \in Nat
      BY <3>3, TerminalsAreRows, FS_CardinalityType DEF BaseInv, LogInv, CountInv
    <3>6. /\ Cardinality(Acts) \in Nat /\ Cardinality(Routes) \in Nat /\ Total(Share') \in Nat
          /\ Cardinality(Acts) + Cardinality(Routes) + Total(Share') = Cardinality(DecisionRows)
      BY <3>2, CategoriesAddUp
    <3>7. \A i \in K : Cardinality(CategoryRows(i)) \in Nat
      BY CountsGrow DEF CategoryRows, DashboardNext
    <3>8. Adds(count'["ACT"] + count'["ROUTE_TO_HUMAN"], Total(Share'), Total(count'))
      BY <3>4, <3>5, <3>6
    <3> QED BY <3>1, <3>4, <3>5, <3>6, <3>7, <3>8
  <2>8. CASE k >= 1
    <3>1. count' = count
      <4>1. 1 \in 1..k
        BY <2>1, <2>2, <2>8
      <4> QED BY <2>3, <2>4, <4>1
    <3>2. \A i \in K : Share'[i] = Share[i]
      <4> SUFFICES ASSUME NEW i \in K PROVE Share'[i] = Share[i]
        OBVIOUS
      <4>1. /\ Queries("not_chased")[i + 1] = Categories[i] /\ i \in Nat
            /\ Answered(Categories[i]) = Cardinality(CategoryRows(i))
        BY CategoryAsked
      <4>2. Share[i] = IF i < k THEN seen[Categories[i]] ELSE Cardinality(CategoryRows(i))
        BY <2>2 DEF Share
      <4>3. CASE i < k
        <5>1. i + 1 \in 1..k
          BY <2>1, <2>2, <4>1, <4>3
        <5>2. seen'[Categories[i]] = seen[Categories[i]]
          BY <2>3, <4>1, <5>1
        <5> QED BY <2>1, <2>2, <2>6, <4>1, <4>2, <4>3, <5>2
      <4>4. CASE i = k
        <5>1. seen'[Categories[i]] = Cardinality(CategoryRows(i))
          BY <2>3, <4>1, <4>4
        <5> QED BY <2>1, <2>2, <2>6, <4>1, <4>2, <4>4, <5>1
      <4>5. CASE i > k
        BY <2>1, <2>2, <2>6, <4>1, <4>2, <4>5
      <4> QED BY <2>1, <2>2, <4>1, <4>3, <4>4, <4>5
    <3>3. Share' = Share
      BY <3>2 DEF Share
    <3> QED BY <2>1, <2>2, <2>8, <3>1, <3>3 DEF NotChasedInv
  <2> QED BY <2>1, <2>2, <2>7, <2>8
<1> QED BY <1>1, <1>2, <1>3, <1>4, ReaderSteps

----------------------------------------------------------------------------
(* The audit.                                                              *)

LiveFigures == {"terminals", "skips", "arms", "cost", "dry_run_sends", "real_debit", "rungs"}
Agrees ==
    LET counts == seen["audit"].counts
        money == seen["audit"].money
    IN  calm /\ crashes = 0 /\ ~real_spend =>
            /\ counts.disagree = 0
            /\ counts.decisions_total = Total(seen["terminals"])
            /\ \A f \in {"terminals", "skips", "arms"} : counts[f] = seen[f]
            /\ \A f \in {"dry_run_sends", "real_debit", "rungs"} : money[f] = seen[f]

\* While nobody writes, what was read is still so; once the audit has read as
\* well, the figures agree.
AuditInv ==
    page = "audit" =>
        /\ calm /\ Done < 8 =>
             \A i \in 1..Done : seen[Queries("audit")[i]] = Answered(Queries("audit")[i])
        /\ Done >= 8 => Agrees

\* The payments that were decided about, by arm, whatever else is ingested.
LEMMA ArmsAre ==
    ASSUME BaseInv
    PROVE  \A a : {p \in ingested : decisions[p] # << >> /\ ArmOf[CustomerOf[p]] = a}
                    = {p \in Payments : decisions[p] # << >> /\ ArmOf[CustomerOf[p]] = a}
<1>1. DecidedIsIngested /\ ingested \subseteq Payments
  BY DEF BaseInv, LogInv, DecisionsInv, PipelineInv, TypeInv, TypeOK
<1> QED BY <1>1 DEF DecidedIsIngested

\* Figures of the decisions and the ledger stay while those do.
LEMMA FiguresStay ==
    ASSUME BaseInv, BaseInv', decisions' = decisions, spend' = spend, NEW f \in LiveFigures
    PROVE  Answered(f)' = Answered(f)
<1>1. /\ DecisionRows' = DecisionRows /\ \A x : VerdictAt(x)' = VerdictAt(x)
      /\ Rows(Payments)' = Rows(Payments) /\ \A x : Row(x)' = Row(x) /\ Acts' = Acts
  BY SameRows
<1>2. \A column, value : Where(column, value)' = Where(column, value)
  BY <1>1 DEF Where
<1>3. terminal_counts' = terminal_counts /\ skip_counts' = skip_counts /\ rung_counts' = rung_counts
  BY <1>1, <1>2 DEF terminal_counts, skip_counts, rung_counts
<1>4. arm_counts' = arm_counts
  <2>1. arm_counts = [a \in {"treatment", "control"} |->
            Cardinality({p \in Payments : decisions[p] # << >> /\ ArmOf[CustomerOf[p]] = a})]
    BY ArmsAre DEF arm_counts
  <2>2. arm_counts' = [a \in {"treatment", "control"} |->
            Cardinality({p \in Payments : decisions'[p] # << >> /\ ArmOf[CustomerOf[p]] = a})]
    <3>1. DecidedIsIngested' /\ ingested' \subseteq Payments
      BY DEF BaseInv, LogInv, DecisionsInv, PipelineInv, TypeInv, TypeOK
    <3>2. \A a : {p \in ingested' : decisions'[p] # << >> /\ ArmOf[CustomerOf[p]] = a}
                    = {p \in Payments : decisions'[p] # << >> /\ ArmOf[CustomerOf[p]] = a}
      BY <3>1 DEF DecidedIsIngested
    <3> QED BY <3>2 DEF arm_counts
  <2> QED BY <2>1, <2>2
<1>5. \A status : Committed(status)' = Committed(status)
  BY <1>1 DEF Committed
<1>6. Amounts' = Amounts
  BY <1>1 DEF Amounts
<1>7. Answered("terminals")' = Answered("terminals") /\ Answered("skips")' = Answered("skips")
      /\ Answered("rungs")' = Answered("rungs") /\ Answered("arms")' = Answered("arms")
  BY <1>3, <1>4, AnswersAre, AnswersNext DEF AnswersHold
<1>8. Answered("cost")' = Answered("cost")
  <2>1. Total([x \in Acts |-> action_cost_inr(x)])' = Total([x \in Acts |-> action_cost_inr(x)])
    BY <1>1 DEF action_cost_inr
  <2> QED BY <2>1, AnswersAre, AnswersNext DEF AnswersHold
<1>9. Answered("dry_run_sends")' = Answered("dry_run_sends")
      /\ Answered("real_debit")' = Answered("real_debit")
  BY <1>5, <1>6, AnswersAre, AnswersNext DEF AnswersHold
<1> QED BY <1>7, <1>8, <1>9 DEF LiveFigures

\* Over a database nobody died at and nobody is writing, the two derivations
\* are of the same rows.
LEMMA FiguresAgree ==
    ASSUME BaseInv, Quiet, crashes = 0, ~real_spend
    PROVE  /\ AuditCounts.disagree = 0
           /\ AuditCounts.decisions_total = Total(Answered("terminals"))
           /\ \A f \in {"terminals", "skips", "arms"} : AuditCounts[f] = Answered(f)
           /\ \A f \in {"dry_run_sends", "real_debit", "rungs"} : AuditMoney[f] = Answered(f)
<1>1. AuditCounts.disagree = 0
  <2>1. \A x \in DecisionRows : VerdictAt(x).reason = "CONTROL_ARM" => ArmOf[CustomerOf[x[1]]] = "control"
    BY RowsAreVerdicts DEF Sound
  <2>2. {x \in Where("reason", "CONTROL_ARM") : ArmOf[CustomerOf[x[1]]] # "control"} = {}
    BY <2>1 DEF Where
  <2> QED BY <2>2, FS_EmptySet DEF AuditCounts
<1>2. AuditCounts.decisions_total = Total(Answered("terminals"))
  BY TerminalsAreRows, AnswersAre DEF AnswersHold, AuditCounts
<1>3. /\ AuditCounts.terminals = Answered("terminals") /\ AuditCounts.skips = Answered("skips")
      /\ AuditMoney.rungs = Answered("rungs")
  BY AnswersAre DEF AnswersHold, AuditCounts, AuditMoney
<1>4. AuditCounts.arms = Answered("arms")
  <2>1. \A a : {p \in ingested : ArmOf[CustomerOf[p]] = a /\ decisions[p] # << >>}
                 = {p \in ingested : decisions[p] # << >> /\ ArmOf[CustomerOf[p]] = a}
    OBVIOUS
  <2>2. AuditCounts.arms = arm_counts
    BY <2>1 DEF AuditCounts, arm_counts
  <2> QED BY <2>2, AnswersAre DEF AnswersHold
<1>5. AuditMoney.dry_run_sends = Answered("dry_run_sends")
  <2>1. Committed("dry_run") = Rows(Payments)
    BY SendsCoverActs
  <2>2. Pending = {}
    BY DEF Quiet, Pending
  <2>3. /\ Cardinality(Acts) + Cardinality(Pending) = Cardinality(Rows(Payments))
        /\ Cardinality(Acts) \in Nat /\ Cardinality(Pending) = 0
    BY <2>2, ActsAreFinite, FS_EmptySet DEF BaseInv, LogInv, CountInv
  <2>4. Cardinality(Acts) = Cardinality(Committed("dry_run"))
    BY <2>1, <2>3
  <2> QED BY <2>4, AnswersAre DEF AnswersHold, AuditMoney
<1>6. AuditMoney.real_debit = Answered("real_debit")
  <2>1. ASSUME NEW x \in Rows(Payments) PROVE Row(x).status \in {"debit", "dry_run"}
    <3>1. x[1] \in Payments /\ x[2] \in DOMAIN spend[x[1]]
      BY RowsAre
    <3>2. spend[x[1]] \in Seq(SpendRow)
      BY <3>1 DEF BaseInv, PipelineInv, TypeInv, TypeOK
    <3>3. spend[x[1]][x[2]] \in SpendRow
      BY <3>1, <3>2
    <3> QED BY <3>3 DEF SpendRow, Row
  <2>2. {x \in Rows(Payments) : Row(x).status \notin {"dry_run", "blocked"}} = Committed("debit")
    BY <2>1 DEF Committed
  <2> QED BY <2>2, AnswersAre DEF AnswersHold, AuditMoney
<1> QED BY <1>1, <1>2, <1>3, <1>4, <1>5, <1>6

LEMMA AuditKept ==
    ASSUME BaseInv, BaseInv', ReaderInv, ReaderInv', AuditInv, [DashboardNext]_<<vars, reader>>
    PROVE  AuditInv'
<1> DEFINE list == Queries("audit")
<1>0. /\ Len(list) = 8 /\ \A i \in 1..7 : list[i] \in LiveFigures
      /\ list[8] = "audit" /\ \A f \in LiveFigures : \E i \in 1..7 : f = list[i]
  BY QueriesAre DEF LiveFigures
<1> HIDE DEF list
<1> SUFFICES ASSUME page' = "audit"
             PROVE  /\ calm' /\ Done' < 8 => \A i \in 1..Done' : seen'[list[i]] = Answered(list[i])'
                    /\ Done' >= 8 => Agrees'
  BY DEF AuditInv, list
<1>1. CASE Works
  <2>1. /\ page = "audit" /\ seen' = seen /\ Done' = Done /\ [Next]_vars /\ queries' = queries
        /\ Done \in Nat /\ (calm' => calm)
    BY <1>1, PageAssumption DEF Works, Done, ReaderInv, Pages
  <2>2. ASSUME calm', Done' < 8, NEW i \in 1..Done' PROVE seen'[list[i]] = Answered(list[i])'
    <3>1. queries # << >>
      BY <1>0, <2>1, <2>2 DEF Done, list
    <3>2. decisions' = decisions /\ spend' = spend
      BY <1>1, <2>1, <2>2, <3>1, QuietTables DEF Works
    <3>3. list[i] \in LiveFigures
      <4>1. i \in 1..7
        BY <2>1, <2>2
      <4> QED BY <1>0, <4>1
    <3>4. seen[list[i]] = Answered(list[i])
      BY <2>1, <2>2 DEF AuditInv, list
    <3>5. PICK f : f = list[i] /\ f \in LiveFigures
      BY <3>3
    <3>6. Answered(f)' = Answered(f)
      BY <3>2, <3>5, FiguresStay
    <3>7. seen'[f] = Answered(f)'
      BY <2>1, <3>4, <3>5, <3>6
    <3>8. list' = list
      BY DEF list, Queries, Categories, HARD_GATE_REASONS, LiveQueries, TraceQueries
    <3> QED BY <3>5, <3>7, <3>8
  <2>3. Agrees => Agrees'
    <3>1. real_spend' = real_spend /\ (crashes' = 0 => crashes = 0)
      BY <2>1, CrashSteps DEF BaseInv, PipelineInv, TypeInv
    <3> QED BY <2>1, <3>1, Zenon DEF Agrees
  <2> QED BY <2>1, <2>2, <2>3 DEF AuditInv
<1>2. CASE Opens
  <2>1. Done' = 0
    BY <1>2, QueriesDiffer DEF Opens, Done
  <2> QED BY <2>1
<1>3. CASE Closes
  BY <1>3, PageAssumption DEF Closes, Pages
<1>4. CASE Asks
  <2>1. /\ page = "audit" /\ Done \in Nat /\ Done' = Done + 1 /\ Done + 1 <= 8
        /\ UNCHANGED vars /\ calm' = calm /\ queries # << >>
    BY <1>0, <1>4 DEF Asks, list
  <2>2. PICK k : k = Done
    OBVIOUS
  <2>3. /\ seen'[list[k + 1]] = Answered(list[k + 1])
        /\ \A i \in 1..k : seen'[list[i]] = seen[list[i]]
    BY <1>4, <2>1, <2>2 DEF Asks, list
  <2>4. ASSUME NEW f \in LiveFigures PROVE Answered(f)' = Answered(f)
    BY <2>1, <2>4, FiguresStay DEF vars
  <2>5. ASSUME calm, NEW i \in 1..k, i < 8 PROVE seen'[list[i]] = Answered(list[i])
    <3>1. k < 8
      BY <2>1, <2>2
    <3> QED BY <2>1, <2>2, <2>3, <2>5, <3>1 DEF AuditInv, list
  <2>6. ASSUME calm', Done' < 8, NEW i \in 1..Done' PROVE seen'[list[i]] = Answered(list[i])'
    <3>1. i \in 1..7 /\ (i \in 1..k \/ i = k + 1)
      BY <2>1, <2>2, <2>6
    <3>2. seen'[list[i]] = Answered(list[i])
      BY <2>1, <2>3, <2>5, <2>6, <3>1
    <3>3. PICK f : f = list[i] /\ f \in LiveFigures
      BY <1>0, <3>1
    <3>4. Answered(f)' = seen'[f]
      BY <2>4, <3>2, <3>3
    <3>5. list' = list
      BY DEF list, Queries, Categories, HARD_GATE_REASONS, LiveQueries, TraceQueries
    <3> QED BY <3>3, <3>4, <3>5
  <2>7. ASSUME k = 7, calm, crashes = 0, ~real_spend
        PROVE  /\ seen'["audit"].counts.disagree = 0
               /\ seen'["audit"].counts.decisions_total = Total(seen'["terminals"])
               /\ \A f \in {"terminals", "skips", "arms"} : seen'["audit"].counts[f] = seen'[f]
               /\ \A f \in {"dry_run_sends", "real_debit", "rungs"} :
                    seen'["audit"].money[f] = seen'[f]
    <3>1. seen'["audit"].counts = AuditCounts /\ seen'["audit"].money = AuditMoney
      BY <1>0, <2>3, <2>7, AnswersAre DEF AnswersHold
    <3>2. \A f \in LiveFigures : seen'[f] = Answered(f)
      BY <1>0, <2>5, <2>7
    <3>3. Quiet
      BY <2>1, <2>7, PageAssumption DEF ReaderInv, Pages
    <3>4. /\ AuditCounts.disagree = 0
          /\ AuditCounts.decisions_total = Total(Answered("terminals"))
          /\ \A f \in {"terminals", "skips", "arms"} : AuditCounts[f] = Answered(f)
          /\ \A f \in {"dry_run_sends", "real_debit", "rungs"} : AuditMoney[f] = Answered(f)
      BY <2>7, <3>3, FiguresAgree
    <3>5. \A f \in {"terminals", "skips", "arms", "rungs", "dry_run_sends", "real_debit"} :
            f \in LiveFigures
      BY DEF LiveFigures
    <3> QED BY <3>1, <3>2, <3>4, <3>5
  <2>8. k = 7 => Agrees'
    <3>1. calm' = calm /\ crashes' = crashes /\ real_spend' = real_spend
      BY <2>1 DEF vars
    <3> QED BY <2>7, <3>1, Zenon DEF Agrees, Total
  <2>9. Done' >= 8 => k = 7
    BY <2>1, <2>2
  <2> QED BY <2>6, <2>8, <2>9
<1> QED BY <1>1, <1>2, <1>3, <1>4, ReaderSteps

----------------------------------------------------------------------------
(* The theorems about the pages.                                           *)

PageInv == ReaderInv /\ MetricsInv /\ TraceInv /\ NotChasedInv /\ AuditInv

\* A page at any point of its SELECTs, with any calls, deaths and ingests in
\* between, shows what its parts say.
THEOREM PagesHold == DashboardSpec => [](BaseInv /\ PageInv)
<1>1. DashboardInit => PageInv
  BY PageAssumption DEF DashboardInit, PageInv, ReaderInv, MetricsInv, TraceInv, NotChasedInv,
     AuditInv, Pages
<1>2. ASSUME BaseInv, BaseInv', PageInv, [DashboardNext]_<<vars, reader>> PROVE PageInv'
  <2> USE <1>2 DEF PageInv
  <2>1. ReaderInv'
    BY ReaderSteps
  <2>2. MetricsInv' /\ TraceInv'
    BY <2>1, MetricsKept, TraceKept
  <2>3. NotChasedInv' /\ AuditInv'
    BY <2>1, NotChasedKept, AuditKept
  <2> QED BY <2>1, <2>2, <2>3
<1>3. DashboardSpec => []BaseInv
  BY ReaderReads, LogHolds, PTL
<1>4. BaseInv /\ BaseInv' /\ PageInv /\ [DashboardNext]_<<vars, reader>> => PageInv'
  BY <1>2
<1> QED BY <1>1, <1>3, <1>4, PTL DEF DashboardSpec

\* Every page asks its whole list before it is served.
LEMMA ServedIsDone ==
    ASSUME ReaderInv, NEW pg \in Pages, Served(pg)
    PROVE  Done = Len(Queries(pg)) /\ page = pg
BY QueriesDiffer, EmptySeq DEF Served, Done

\* Every decision is accounted for on /not-chased
\* (screens.not_chased_breakdown), whatever is decided meanwhile.
THEOREM AllAccountedFor == DashboardSpec => []NothingFallsBetween
<1>1. ASSUME BaseInv, PageInv PROVE NothingFallsBetween
  <2> SUFFICES ASSUME Served("not_chased")
               PROVE  LET shown == seen["terminals"]["ACT"] + seen["terminals"]["ROUTE_TO_HUMAN"]
                                   + Total([i \in DOMAIN Categories |-> seen[Categories[i]]])
                      IN  shown >= Total(seen["terminals"]) /\ (calm => shown = Total(seen["terminals"]))
    BY DEF NothingFallsBetween
  <2>1. Done = 9 /\ page = "not_chased"
    BY <1>1, ServedIsDone, QueriesAre DEF PageInv, Pages
  <2>2. \A i \in DOMAIN Categories : i < Done
    BY <2>1, CategoriesFinite
  <2>3. Share = [i \in DOMAIN Categories |-> seen[Categories[i]]]
    BY <2>2 DEF Share
  <2> QED BY <1>1, <2>1, <2>3 DEF PageInv, NotChasedInv
<1> QED BY <1>1, PagesHold, PTL

\* The live page never shows an act without its commitment (live.live_metrics).
THEOREM ActsCovered == DashboardSpec => []ActsAreCovered
<1>1. ASSUME BaseInv, PageInv PROVE ActsAreCovered
  <2> SUFFICES ASSUME Served("metrics")
               PROVE  /\ Total(seen["rungs"]) >= seen["terminals"]["ACT"]
                      /\ ~real_spend => seen["dry_run_sends"] >= seen["terminals"]["ACT"]
    BY DEF ActsAreCovered
  <2>1. Done = 7 /\ page = "metrics"
    BY <1>1, ServedIsDone, QueriesAre DEF PageInv, Pages
  <2> QED BY <1>1, <2>1 DEF PageInv, MetricsInv
<1> QED BY <1>1, PagesHold, PTL

\* A trace explains its decision (trace.py), whatever else is running.
THEOREM TracesExplain == DashboardSpec => []TraceExplains
<1>1. ASSUME BaseInv, PageInv PROVE TraceExplains
  <2> SUFFICES ASSUME Served("trace") PROVE Explains(seen["decision"], seen["guardrails"])
    BY DEF TraceExplains, Explains
  <2>1. Done = 3 /\ page = "trace"
    BY <1>1, ServedIsDone, QueriesAre DEF PageInv, Pages
  <2> QED BY <1>1, <2>1 DEF PageInv, TraceInv
<1> QED BY <1>1, PagesHold, PTL

\* The audit's second derivation agrees with the page's over a database nobody
\* died at and nobody is writing (scripts/audit_metrics.py).
THEOREM AuditsAgree == DashboardSpec => []AuditAgrees
<1>1. ASSUME BaseInv, PageInv PROVE AuditAgrees
  <2>1. Served("audit") => Agrees
    <3> SUFFICES ASSUME Served("audit") PROVE Agrees
      OBVIOUS
    <3>1. Done = 8 /\ page = "audit"
      BY <1>1, ServedIsDone, QueriesAre DEF PageInv, Pages
    <3> QED BY <1>1, <3>1 DEF PageInv, AuditInv
  <2> QED BY <2>1 DEF AuditAgrees, Agrees
<1> QED BY <1>1, PagesHold, PTL
==============================================================================
