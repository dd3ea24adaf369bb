--------------------------- MODULE LlmTailProofs ---------------------------
(***************************************************************************)
(* The money gate of the LLM tail for any events, causes and retry budget, *)
(* with the accept path off or on.                                         *)
(***************************************************************************)
EXTENDS LlmTail, TLAPS

\* What the gate relies on: an event's calls are within the budget, and none
\* is made for an event the rules can tell apart; ...
CallsInv ==
    /\ \A e \in Events : attempts(e) <= Budget
    /\ \A e \in Events : e \notin Ambiguous =>
            threads[e] = << >> /\ pc[e] \in {"new", "apply", "done", "raised"}
    /\ \A e \in Events : pc[e] \in {"join", "alive", "read"} => threads[e] # << >>

\* ... the thread an answer was read from has ended, so it stays what it was;
EndedInv ==
    \A e \in Events : pc[e] = "read" => This(e) # "running"

\* ... a diagnosis in hand is one that diagnose() can make of the event; ...
DiagnosisInv ==
    \A e \in Events :
        \/ diagnosis[e] = Failed
        \/ e \notin Ambiguous /\ Label[e] \in ROOT_CAUSES /\ diagnosis[e] = RulesDiagnosis(e)
        \/ /\ e \in Ambiguous /\ threads[e] # << >> /\ This(e) \in ROOT_CAUSES
           /\ diagnosis[e] = CleanAnswer(This(e))
           /\ pc[e] \in {"apply", "done"}

\* ... and apply() runs once, on a diagnosis that may be spent on.
SpendInv ==
    \A e \in Events :
        /\ pc[e] # "done" => spent[e] = << >> /\ queued[e] = 0
        /\ spent[e] # << >> => /\ spent[e] = << diagnosis[e].root_cause >>
                               /\ queued[e] = 0 /\ MaySpend(diagnosis[e])

TailInv == TypeOK /\ CallsInv /\ EndedInv /\ DiagnosisInv /\ SpendInv

----------------------------------------------------------------------------
(* Type correctness.                                                       *)

\* What diagnose() returns is a Diagnosis: a real label or "unknown", never
\* one the rules do not know (llm_diagnosis.py:311-319).
LEMMA DiagnosesAreTyped ==
    /\ Failed \in Diagnosis
    /\ \A e \in Events : Label[e] \in ROOT_CAUSES => RulesDiagnosis(e) \in Diagnosis
    /\ \A c \in ROOT_CAUSES : CleanAnswer(c) \in Diagnosis
BY DEF Failed, Diagnosis, RulesDiagnosis, CleanAnswer, ROOT_CAUSES

\* What the steps that end diagnose() have in common: which diagnosis they
\* make, and from which state.
LEMMA DiagnoseSteps ==
    ASSUME TypeOK, NEW e \in Events,
           TrustRules(e) \/ Fail(e) \/ AcceptAnswer(e) \/ Exhausted(e)
    PROVE  \E from \in {"new", "read", "call"}, d \in Diagnosis :
              /\ Diagnose(e, from, d)
              /\ from = "new" => e \notin Ambiguous
              /\ \/ d = Failed
                 \/ /\ e \notin Ambiguous /\ Label[e] \in ROOT_CAUSES
                    /\ d = RulesDiagnosis(e)
                 \/ from = "read" /\ This(e) \in ROOT_CAUSES /\ d = CleanAnswer(This(e))
<1>1. CASE TrustRules(e)
  BY <1>1, DiagnosesAreTyped DEF TrustRules
<1>2. CASE Fail(e)
  BY <1>2, DiagnosesAreTyped DEF Fail
<1>3. CASE AcceptAnswer(e)
  <2>1. PICK cause \in ROOT_CAUSES : Result(e, cause) /\ Diagnose(e, "read", CleanAnswer(cause))
    BY <1>3 DEF AcceptAnswer
  <2> QED BY <2>1, DiagnosesAreTyped DEF Result
<1>4. CASE Exhausted(e)
  BY <1>4, DiagnosesAreTyped DEF Exhausted
<1> QED BY <1>1, <1>2, <1>3, <1>4

\* An event nobody has looked at is well-typed.
LEMMA TypeInit == Init => TypeOK
BY DiagnosesAreTyped DEF Init, TypeOK, Steps

\* The switch is as it was set, on or off.
LEMMA SwitchStays == [Next]_vars => UNCHANGED TAIL_ACT_ENABLED
BY DEF Next, Step, Answer, vars

\* No step of an event, and no answer of the model, leaves the types.
LEMMA TypeNext == TypeOK /\ [Next]_vars => TypeOK'
<1> SUFFICES ASSUME TypeOK, [Next]_vars PROVE TypeOK'
  OBVIOUS
<1>0. TAIL_ACT_ENABLED' \in BOOLEAN
  BY SwitchStays DEF TypeOK
<1>1. CASE UNCHANGED vars
  BY <1>1 DEF vars, TypeOK
<1>2. ASSUME NEW e \in Events, NEW i \in 1..Budget, Answer(e, i) PROVE TypeOK'
  <2>1. PICK out \in Outs : threads' = [threads EXCEPT ![e][i] = out]
    BY <1>2 DEF Answer
  <2>2. threads[e] \in Seq(Outs \cup {"running"}) /\ i \in DOMAIN threads[e]
    BY <1>2 DEF TypeOK, Answer
  <2>3. [threads[e] EXCEPT ![i] = out] \in Seq(Outs \cup {"running"})
    BY <2>1, <2>2
  <2>4. threads' \in [Events -> Seq(Outs \cup {"running"})]
    BY <2>1, <2>3 DEF TypeOK
  <2> QED BY <1>0, <1>2, <2>4 DEF Answer, TypeOK
<1>3. ASSUME NEW e \in Events, StartWorker(e) PROVE TypeOK'
  <2>1. Append(threads[e], "running") \in Seq(Outs \cup {"running"})
    BY DEF TypeOK
  <2> QED BY <1>0, <1>3, <2>1 DEF StartWorker, Goto, TypeOK, Steps
<1>4. ASSUME NEW e \in Events,
             TrustRules(e) \/ Fail(e) \/ AcceptAnswer(e) \/ Exhausted(e)
      PROVE TypeOK'
  <2>1. PICK from \in {"new", "read", "call"}, d \in Diagnosis : Diagnose(e, from, d)
    BY <1>4, DiagnoseSteps
  <2> QED BY <1>0, <2>1 DEF Diagnose, Goto, TypeOK, Steps
<1>5. ASSUME NEW e \in Events,
             RejectLabel(e) \/ AskModel(e) \/ Join(e) \/ CheckAlive(e) \/ RetryOSError(e)
             \/ Escape(e)
      PROVE TypeOK'
  BY <1>0, <1>5 DEF RejectLabel, AskModel, Join, CheckAlive, RetryOSError, Escape, Goto, TypeOK, Steps
<1>6. ASSUME NEW e \in Events, Spend(e) PROVE TypeOK'
  <2>1. diagnosis[e].root_cause \in ROOT_CAUSES
    BY DEF TypeOK, Diagnosis
  <2>2. Append(spent[e], diagnosis[e].root_cause) \in Seq(ROOT_CAUSES)
    BY <2>1 DEF TypeOK
  <2> QED BY <1>0, <1>6, <2>2 DEF Spend, Goto, TypeOK, Steps
<1>7. ASSUME NEW e \in Events, Enqueue(e) PROVE TypeOK'
  BY <1>0, <1>7 DEF Enqueue, Goto, TypeOK, Steps
<1> QED BY <1>1, <1>2, <1>3, <1>4, <1>5, <1>6, <1>7 DEF Next, Step

----------------------------------------------------------------------------
(* The money gate.                                                         *)

\* The fields of the three diagnoses diagnose() makes.
LEMMA DiagnosisFields ==
    TypeOK =>
    /\ Failed.root_cause = Unknown /\ Failed.source = "llm_failed" /\ Failed.route = "human_queue"
    /\ \A e \in Events : /\ RulesDiagnosis(e).root_cause = Label[e]
                         /\ RulesDiagnosis(e).source = "rules"
    /\ \A c \in ROOT_CAUSES : /\ CleanAnswer(c).root_cause = c
                              /\ CleanAnswer(c).source = "llm"
                              /\ CleanAnswer(c).route = "act" => TAIL_ACT_ENABLED
<1> HAVE TypeOK
<1>1. Failed.root_cause = Unknown /\ Failed.source = "llm_failed" /\ Failed.route = "human_queue"
  BY DEF Failed
<1>2. ASSUME NEW e \in Events
      PROVE  RulesDiagnosis(e).root_cause = Label[e] /\ RulesDiagnosis(e).source = "rules"
  BY DEF RulesDiagnosis
<1>3. ASSUME NEW c \in ROOT_CAUSES
      PROVE  CleanAnswer(c).root_cause = c /\ CleanAnswer(c).source = "llm"
  BY DEF CleanAnswer
<1>4. ASSUME NEW c \in ROOT_CAUSES, CleanAnswer(c).route = "act" PROVE TAIL_ACT_ENABLED
  <2>1. CASE TAIL_ACT_ENABLED
    BY <2>1
  <2>2. CASE ~TAIL_ACT_ENABLED
    <3>1. CleanAnswer(c).route = "human_queue"
      BY <2>2 DEF TypeOK, CleanAnswer
    <3> QED BY <1>4, <3>1
  <2> QED BY <2>1, <2>2
<1> QED BY <1>1, <1>2, <1>3, <1>4

\* A diagnosis in hand is told apart by its source: the rules' for an event
\* they can tell, the model's with the current answer for the others.
LEMMA SourceTells ==
    ASSUME TypeOK, DiagnosisInv, NEW e \in Events
    PROVE  /\ diagnosis[e].source = "rules" => /\ e \notin Ambiguous
                                               /\ Label[e] = diagnosis[e].root_cause
           /\ diagnosis[e].source = "llm" =>
                /\ e \in Ambiguous /\ threads[e] # << >> /\ This(e) \in ROOT_CAUSES
                /\ This(e) = diagnosis[e].root_cause /\ diagnosis[e] = CleanAnswer(This(e))
           /\ diagnosis[e].source \in {"rules", "llm"} \/ diagnosis[e] = Failed
<1>1. CASE diagnosis[e] = Failed
  BY <1>1, DiagnosisFields
<1>2. CASE e \notin Ambiguous /\ diagnosis[e] = RulesDiagnosis(e)
  BY <1>2, DiagnosisFields
<1>3. CASE /\ e \in Ambiguous /\ threads[e] # << >> /\ This(e) \in ROOT_CAUSES
           /\ diagnosis[e] = CleanAnswer(This(e))
  BY <1>3, DiagnosisFields
<1> QED BY <1>1, <1>2, <1>3, Zenon DEF DiagnosisInv

\* The gate opens only for a real cause from the rules, or from the model
\* when the accept path is on: each layer of apply() and of the routing in
\* diagnose() implies it (llm_diagnosis.py:237-245 and 329-345).
LEMMA GateIsNarrow ==
    ASSUME TypeOK, DiagnosisInv, NEW e \in Events, MaySpend(diagnosis[e])
    PROVE  /\ diagnosis[e].root_cause \in REAL_CAUSES
           /\ e \in Ambiguous => /\ TAIL_ACT_ENABLED /\ threads[e] # << >>
                                 /\ This(e) = diagnosis[e].root_cause
           /\ e \notin Ambiguous => Label[e] = diagnosis[e].root_cause
<1>1. diagnosis[e].route = "act" /\ diagnosis[e].root_cause \in REAL_CAUSES
  BY DEF MaySpend, IsMoneyEligible
<1>2. diagnosis[e].source \in {"rules", "llm"}
  BY <1>1, SourceTells, DiagnosisFields
<1>3. CASE diagnosis[e].source = "rules"
  BY <1>1, <1>3, SourceTells
<1>4. CASE diagnosis[e].source = "llm"
  <2>1. TAIL_ACT_ENABLED
    BY <1>4 DEF MaySpend, HardGated
  <2> QED BY <1>1, <1>4, <2>1, SourceTells
<1> QED BY <1>2, <1>3, <1>4

\* Nothing has been asked, diagnosed or spent at the start.
LEMMA TailInit == Init => TailInv
<1> SUFFICES ASSUME Init PROVE TailInv
  OBVIOUS
<1>1. TypeOK
  BY TypeInit
<1>2. \A e \in Events : threads[e] = << >> /\ pc[e] = "new" /\ diagnosis[e] = Failed
                        /\ spent[e] = << >> /\ queued[e] = 0
  BY DEF Init
<1>3. Budget \in Nat /\ \A e \in Events : attempts(e) = 0
  BY <1>2, RetryAssumption DEF Budget, attempts
<1> QED BY <1>1, <1>2, <1>3 DEF TailInv, CallsInv, EndedInv, DiagnosisInv, SpendInv

\* An answer changes one running thread: none whose answer was read, and no
\* number of calls.
LEMMA AnswerKeepsTailInv ==
    ASSUME TailInv, TypeOK', NEW e \in Events, NEW i \in 1..Budget, Answer(e, i),
           UNCHANGED TAIL_ACT_ENABLED
    PROVE  TailInv'
<1>1. PICK out \in Outs : threads' = [threads EXCEPT ![e][i] = out]
  BY DEF Answer
<1>2. i \in DOMAIN threads[e] /\ threads[e][i] = "running"
      /\ UNCHANGED <<pc, diagnosis, spent, queued>>
  BY DEF Answer
<1>3. threads[e] \in Seq(Outs \cup {"running"}) /\ threads'[e] = [threads[e] EXCEPT ![i] = out]
      /\ \A f \in Events \ {e} : threads'[f] = threads[f]
  BY <1>1 DEF TailInv, TypeOK
<1>4. Len(threads'[e]) = Len(threads[e]) /\ threads[e] # << >> /\ threads'[e] # << >>
      /\ \A j \in DOMAIN threads[e] : threads[e][j] # "running" => threads'[e][j] = threads[e][j]
  BY <1>2, <1>3
<1>5. \A f \in Events : attempts(f)' = attempts(f) /\ (threads[f] = << >> <=> threads'[f] = << >>)
  BY <1>3, <1>4 DEF attempts
<1>6. CallsInv'
  BY <1>2, <1>3, <1>5 DEF TailInv, CallsInv, Budget
<1>7. \A f \in Events : threads[f] # << >> /\ This(f) # "running" => This(f)' = This(f)
  <2>1. ASSUME threads[e] # << >>, This(e) # "running" PROVE This(e)' = This(e)
    BY <1>3, <1>4, <2>1 DEF This, attempts
  <2> QED BY <1>3, <2>1 DEF This, attempts
<1>8. EndedInv'
  BY <1>2, <1>7 DEF TailInv, EndedInv, CallsInv
<1>9. DiagnosisInv'
  BY <1>2, <1>5, <1>7, NotAnOutAssumption
     DEF TailInv, DiagnosisInv, Failed, RulesDiagnosis, CleanAnswer, Outs
<1>10. SpendInv'
  BY <1>2 DEF TailInv, SpendInv, MaySpend, HardGated, IsMoneyEligible
<1> QED BY <1>6, <1>8, <1>9, <1>10 DEF TailInv

\* The end of diagnose(): the one step that makes a diagnosis.
LEMMA DiagnoseKeepsTailInv ==
    ASSUME TailInv, TypeOK', NEW e \in Events,
           TrustRules(e) \/ Fail(e) \/ AcceptAnswer(e) \/ Exhausted(e),
           UNCHANGED TAIL_ACT_ENABLED
    PROVE  TailInv'
<1>1. PICK from \in {"new", "read", "call"}, d \in Diagnosis :
              /\ Diagnose(e, from, d)
              /\ from = "new" => e \notin Ambiguous
              /\ \/ d = Failed
                 \/ /\ e \notin Ambiguous /\ Label[e] \in ROOT_CAUSES
                    /\ d = RulesDiagnosis(e)
                 \/ from = "read" /\ This(e) \in ROOT_CAUSES /\ d = CleanAnswer(This(e))
  BY DiagnoseSteps DEF TailInv
<1>2. /\ pc[e] = from /\ pc' = [pc EXCEPT ![e] = "apply"]
      /\ diagnosis' = [diagnosis EXCEPT ![e] = d]
      /\ UNCHANGED <<threads, spent, queued>>
  BY <1>1 DEF Diagnose, Goto
<1>3. pc'[e] = "apply" /\ diagnosis'[e] = d
      /\ \A f \in Events \ {e} : pc'[f] = pc[f] /\ diagnosis'[f] = diagnosis[f]
  BY <1>2 DEF TailInv, TypeOK
<1>4. CallsInv'
  BY <1>2, <1>3 DEF TailInv, CallsInv, attempts, Budget
<1>5. EndedInv'
  BY <1>2, <1>3 DEF TailInv, EndedInv, This, attempts
<1>6. DiagnosisInv'
  <2>1. from = "read" => e \in Ambiguous /\ threads[e] # << >>
    BY <1>2 DEF TailInv, CallsInv
  <2> QED BY <1>1, <1>2, <1>3, <2>1
          DEF TailInv, DiagnosisInv, This, attempts, Failed, RulesDiagnosis, CleanAnswer
<1>7. SpendInv'
  BY <1>2, <1>3 DEF TailInv, SpendInv, MaySpend, HardGated, IsMoneyEligible
<1> QED BY <1>4, <1>5, <1>6, <1>7 DEF TailInv

\* Every step keeps the invariant.
LEMMA TailNext == TailInv /\ [Next]_vars => TailInv'
<1> SUFFICES ASSUME TailInv, [Next]_vars PROVE TailInv'
  OBVIOUS
<1>0. TypeOK /\ TypeOK' /\ UNCHANGED TAIL_ACT_ENABLED
  BY TypeNext, SwitchStays DEF TailInv
<1>1. CASE UNCHANGED vars
  BY <1>0, <1>1 DEF vars, TailInv, CallsInv, EndedInv, DiagnosisInv, SpendInv, attempts,
     This, Budget, Failed, RulesDiagnosis, CleanAnswer, MaySpend, HardGated, IsMoneyEligible
<1>2. ASSUME NEW e \in Events, NEW i \in 1..Budget, Answer(e, i) PROVE TailInv'
  BY <1>0, <1>2, AnswerKeepsTailInv
<1>3. ASSUME NEW e \in Events,
             TrustRules(e) \/ Fail(e) \/ AcceptAnswer(e) \/ Exhausted(e)
      PROVE TailInv'
  BY <1>0, <1>3, DiagnoseKeepsTailInv
<1>4. ASSUME NEW e \in Events, StartWorker(e) PROVE TailInv'
  <2>1. /\ pc[e] = "call" /\ pc' = [pc EXCEPT ![e] = "join"] /\ attempts(e) < Budget
        /\ UNCHANGED <<diagnosis, spent, queued>>
    BY <1>4 DEF StartWorker, Goto
  <2>2. /\ threads'[e] = Append(threads[e], "running")
        /\ \A f \in Events \ {e} : threads'[f] = threads[f] /\ pc'[f] = pc[f]
        /\ pc'[e] = "join"
    BY <1>0, <1>4, <2>1 DEF StartWorker, TypeOK
  <2>3. Len(threads'[e]) = Len(threads[e]) + 1 /\ threads'[e] # << >>
    <3>1. threads[e] \in Seq(Outs \cup {"running"})
      BY <1>0 DEF TypeOK
    <3>2. Len(Append(threads[e], "running")) = Len(threads[e]) + 1
          /\ Append(threads[e], "running") # << >>
      BY <3>1
    <3> QED BY <2>2, <3>2
  <2>4. e \in Ambiguous
    BY <2>1 DEF TailInv, CallsInv
  <2>5. CallsInv'
    <3>1. Len(threads[e]) \in Nat /\ Budget \in Int
      BY <1>0, RetryAssumption DEF TypeOK, Budget
    <3>2. attempts(e)' <= Budget
      BY <2>1, <2>3, <3>1 DEF attempts
    <3> QED BY <2>1, <2>2, <2>3, <2>4, <3>2 DEF TailInv, CallsInv, attempts, Budget
  <2>6. EndedInv'
    BY <2>1, <2>2 DEF TailInv, EndedInv, This, attempts
  <2>7. DiagnosisInv'
    BY <1>0, <2>1, <2>2, <2>4
       DEF TailInv, DiagnosisInv, This, attempts, Failed, RulesDiagnosis, CleanAnswer
  <2>8. SpendInv'
    BY <1>0, <2>1, <2>2 DEF TailInv, SpendInv, MaySpend, HardGated, IsMoneyEligible
  <2> QED BY <1>0, <2>5, <2>6, <2>7, <2>8 DEF TailInv
<1>5. ASSUME NEW e \in Events,
             RejectLabel(e) \/ AskModel(e) \/ Join(e) \/ CheckAlive(e) \/ RetryOSError(e)
             \/ Escape(e)
      PROVE TailInv'
  <2>1. UNCHANGED <<threads, diagnosis, spent, queued>>
    BY <1>5 DEF RejectLabel, AskModel, Join, CheckAlive, RetryOSError, Escape
  <2>2. \A f \in Events \ {e} : pc'[f] = pc[f]
    BY <1>0, <1>5 DEF RejectLabel, AskModel, Join, CheckAlive, RetryOSError, Escape, Goto, TypeOK
  <2>3. /\ pc[e] \notin {"apply", "done"} /\ pc'[e] \notin {"apply", "done"}
        /\ e \notin Ambiguous => pc'[e] = "raised"
        /\ pc'[e] \in {"join", "alive", "read"} => threads[e] # << >>
        /\ pc'[e] = "read" => This(e) # "running"
    BY <1>0, <1>5 DEF RejectLabel, AskModel, Join, CheckAlive, RetryOSError, Escape, Goto, TypeOK,
                      TailInv, CallsInv, Result
  <2>4. CallsInv'
    BY <2>1, <2>2, <2>3 DEF TailInv, CallsInv, attempts, Budget
  <2>5. EndedInv'
    BY <2>1, <2>2, <2>3 DEF TailInv, EndedInv, This, attempts
  <2>6. DiagnosisInv'
    BY <1>0, <2>1, <2>2, <2>3
       DEF TailInv, DiagnosisInv, This, attempts, Failed, RulesDiagnosis, CleanAnswer
  <2>7. SpendInv'
    BY <1>0, <2>1, <2>2, <2>3 DEF TailInv, SpendInv, MaySpend, HardGated, IsMoneyEligible
  <2> QED BY <1>0, <2>4, <2>5, <2>6, <2>7 DEF TailInv
<1>6. ASSUME NEW e \in Events, Spend(e) \/ Enqueue(e) PROVE TailInv'
  <2>1. /\ pc[e] = "apply" /\ pc' = [pc EXCEPT ![e] = "done"]
        /\ UNCHANGED <<threads, diagnosis>>
    BY <1>6 DEF Spend, Enqueue, Goto
  <2>2. pc'[e] = "done" /\ \A f \in Events \ {e} : pc'[f] = pc[f]
    BY <1>0, <2>1 DEF TypeOK
  <2>3. spent[e] = << >> /\ queued[e] = 0
    BY <2>1 DEF TailInv, SpendInv
  <2>4. SpendInv'
    <3>1. CASE Spend(e)
      <4>1. /\ spent'[e] = << diagnosis[e].root_cause >> /\ queued' = queued
            /\ MaySpend(diagnosis[e])
            /\ \A f \in Events \ {e} : spent'[f] = spent[f]
        BY <1>0, <2>3, <3>1 DEF Spend, TypeOK
      <4> QED BY <1>0, <2>1, <2>2, <2>3, <4>1 DEF TailInv, SpendInv, MaySpend, HardGated, IsMoneyEligible
    <3>2. CASE Enqueue(e)
      <4>1. spent' = spent /\ \A f \in Events \ {e} : queued'[f] = queued[f]
        BY <1>0, <3>2 DEF Enqueue, TypeOK
      <4> QED BY <1>0, <2>1, <2>2, <2>3, <4>1 DEF TailInv, SpendInv, MaySpend, HardGated, IsMoneyEligible
    <3> QED BY <1>6, <3>1, <3>2
  <2>5. CallsInv' /\ EndedInv'
    BY <2>1, <2>2 DEF TailInv, CallsInv, EndedInv, This, attempts, Budget
  <2>6. DiagnosisInv'
    BY <1>0, <2>1, <2>2 DEF TailInv, DiagnosisInv, This, attempts, Failed, RulesDiagnosis, CleanAnswer
  <2> QED BY <1>0, <2>4, <2>5, <2>6 DEF TailInv
<1> QED BY <1>1, <1>2, <1>3, <1>4, <1>5, <1>6 DEF Next, Step

\* The tail's invariant holds from the first event on.
LEMMA TailInvariant == Spec => []TailInv
BY TailInit, TailNext, PTL DEF Spec, TailInv

\* For any events, causes and retry budget, with the accept path off or on,
\* money is spent only where the rules or, if allowed, the current answer of
\* the model justify it.
THEOREM MoneyGate == Spec => [](TypeOK /\ MoneyIsEarned)
<1>1. TailInv => TypeOK /\ MoneyIsEarned
  <2> SUFFICES ASSUME TailInv, NEW e \in Events, spent[e] # << >>
               PROVE  /\ Len(spent[e]) = 1 /\ queued[e] = 0
                      /\ spent[e][1] \in REAL_CAUSES
                      /\ IF e \in Ambiguous
                         THEN TAIL_ACT_ENABLED /\ threads[e] # << >> /\ This(e) = spent[e][1]
                         ELSE Label[e] = spent[e][1]
    BY DEF MoneyIsEarned, TailInv
  <2>1. spent[e] = << diagnosis[e].root_cause >> /\ queued[e] = 0 /\ MaySpend(diagnosis[e])
    BY DEF TailInv, SpendInv
  <2>2. Len(spent[e]) = 1 /\ spent[e][1] = diagnosis[e].root_cause
    BY <2>1
  <2> QED BY <2>1, <2>2, GateIsNarrow DEF TailInv
<1> QED BY <1>1, TailInvariant, PTL

\* A diagnosis of the model is the answer of the attempt that was waited for:
\* nobody uses what an abandoned thread says later.
THEOREM AnswersAreCurrent == Spec => []AnswerIsCurrent
<1>1. TailInv => AnswerIsCurrent
  BY SourceTells DEF TailInv, AnswerIsCurrent
<1> QED BY <1>1, TailInvariant, PTL

\* The model is called 1 + max_retries times at most, and never for an event
\* that is not ambiguous; so many threads can be left behind.
THEOREM CallsAreBounded == Spec => []CallsBounded
<1>1. TailInv => CallsBounded
  <2> SUFFICES ASSUME TailInv, NEW e \in Events
               PROVE  attempts(e) <= (IF e \in Ambiguous /\ MaxRetries > 0 THEN MaxRetries + 1
                                      ELSE IF e \in Ambiguous THEN 1 ELSE 0)
    BY DEF CallsBounded
  <2>1. attempts(e) <= Budget /\ (e \notin Ambiguous => attempts(e) = 0)
    BY DEF TailInv, CallsInv, attempts
  <2> QED BY <2>1, RetryAssumption DEF Budget
<1> QED BY <1>1, TailInvariant, PTL
============================================================================
