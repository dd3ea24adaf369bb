-------------------------- MODULE ExecutionProofs --------------------------
(***************************************************************************)
(* Proofs about app/execution for every number of workers, reconcilers,    *)
(* keys, payloads and retries, with crashes, timeouts and late POSTs.      *)
(***************************************************************************)
EXTENDS MCExecutionScenes, SequenceTheorems, FiniteSetTheorems, WellFoundedInduction, TLAPS

\* A set of numbers has a least one.
LEMMA LeastNumber ==
    ASSUME NEW S, S \subseteq Nat, S # {}
    PROVE  \E i \in S : \A j \in S : i <= j
<1>1. PICK i \in S : \A j \in S : ~ (<<j, i>> \in OpToRel(<, Nat))
  BY NatLessThanWellFounded, WFMin
<1>2. ASSUME NEW j \in S PROVE i <= j
  <2>1. i \in Nat /\ j \in Nat
    OBVIOUS
  <2>2. <<j, i>> \in Nat \X Nat /\ ~ (j < i)
    BY <1>1, <2>1 DEF OpToRel
  <2> QED BY <2>1, <2>2
<1> QED BY <1>2

----------------------------------------------------------------------------
(* Lemmas about the ledger's queries and its append.                       *)

\* terminal_outcome returns a terminal row of its key, the first one.
LEMMA TerminalOutcomeIsARow ==
    ASSUME TypeOK, NEW k \in Keys, HasTerminal(k)
    PROVE  /\ TerminalOutcome(k) \in Result
           /\ IsTerminal(TerminalOutcome(k))
           /\ \E i \in DOMAIN outcomes[k] : outcomes[k][i] = TerminalOutcome(k)
<1> DEFINE first == CHOOSE i \in TerminalRows(k) : \A j \in TerminalRows(k) : i <= j
<1>1. outcomes[k] \in Seq(Result)
  BY DEF TypeOK
<1>2. TerminalRows(k) \subseteq Nat /\ TerminalRows(k) # {}
  BY <1>1 DEF TerminalRows, HasTerminal
<1>3. first \in TerminalRows(k)
  BY <1>2, LeastNumber
<1>4. first \in DOMAIN outcomes[k] /\ IsTerminal(outcomes[k][first])
  BY <1>3 DEF TerminalRows
<1>5. outcomes[k][first] \in Result
  BY <1>1, <1>4, ElementOfSeq
<1> QED BY <1>4, <1>5 DEF TerminalOutcome

\* latest_outcome returns a row of its key.
LEMMA LatestOutcomeIsARow ==
    ASSUME TypeOK, NEW k \in Keys, HasOutcome(k)
    PROVE  /\ LatestOutcome(k) \in Result
           /\ \E i \in DOMAIN outcomes[k] : outcomes[k][i] = LatestOutcome(k)
<1>1. outcomes[k] \in Seq(Result) /\ outcomes[k] # << >>
  BY DEF TypeOK, HasOutcome
<1>2. Len(outcomes[k]) \in DOMAIN outcomes[k]
  BY <1>1
<1> QED BY <1>1, <1>2, ElementOfSeq DEF LatestOutcome

\* append_outcome keeps the table well typed and adds its row alone.
LEMMA AppendAddsOneRow ==
    ASSUME TypeOK, NEW k \in Keys, NEW r \in Result, AppendOutcome(k, r)
    PROVE  /\ outcomes' \in [Keys -> Seq(Result)]
           /\ \A j \in Keys \ {k} : outcomes'[j] = outcomes[j]
           /\ outcomes'[k] = Append(outcomes[k], r)
           /\ \A i \in DOMAIN outcomes'[k] :
                \/ i \in DOMAIN outcomes[k] /\ outcomes'[k][i] = outcomes[k][i]
                \/ i = Len(outcomes[k]) + 1 /\ outcomes'[k][i] = r
           /\ \A i \in DOMAIN outcomes[k] :
                i \in DOMAIN outcomes'[k] /\ outcomes'[k][i] = outcomes[k][i]
           /\ outcomes'[k][Len(outcomes[k]) + 1] = r
           /\ Len(outcomes[k]) + 1 \in DOMAIN outcomes'[k]
<1>1. outcomes[k] \in Seq(Result)
  BY DEF TypeOK
<1>2. outcomes'[k] = Append(outcomes[k], r)
  BY DEF AppendOutcome, TypeOK
<1>3. outcomes' \in [Keys -> Seq(Result)]
  BY <1>1, AppendProperties DEF AppendOutcome, TypeOK
<1>4. \A j \in Keys \ {k} : outcomes'[j] = outcomes[j]
  BY DEF AppendOutcome, TypeOK
<1>5. /\ Len(outcomes'[k]) = Len(outcomes[k]) + 1
      /\ \A i \in 1..Len(outcomes[k]) : outcomes'[k][i] = outcomes[k][i]
      /\ outcomes'[k][Len(outcomes[k]) + 1] = r
  BY <1>1, <1>2, AppendProperties
<1>6. /\ DOMAIN outcomes[k] = 1..Len(outcomes[k])
      /\ DOMAIN outcomes'[k] = 1..Len(outcomes'[k])
      /\ Len(outcomes[k]) \in Nat
  BY <1>1, <1>3, LenProperties
<1> QED BY <1>2, <1>3, <1>4, <1>5, <1>6

\* The results the code returns are ExecutionResults, and Retriable carries no
\* reference (client.py:50-59).
LEMMA ResultConstants ==
    /\ Retriable \in Result /\ Rejected \in Result /\ Mismatch \in Result
    /\ \A b \in BOOLEAN : Sent(b) \in Result /\ Duplicate(b) \in Result
    /\ ~Retriable.hasRef /\ ~Rejected.hasRef /\ ~Mismatch.hasRef
    /\ \A b \in BOOLEAN : Sent(b).hasRef = b /\ Duplicate(b).hasRef = b
BY DEF Sent, Retriable, Rejected, Mismatch, Duplicate, Answered, Result, Statuses

\* A POST creates its link, with or without an id in the answer, or is answered
\* with what carries no reference (razorpay_client.py:88-118).
LEMMA ArriveCases ==
    ASSUME NEW w \in Workers, Arrive(w)
    PROVE  \/ /\ link[key(w)] = NoLink
              /\ link' = [link EXCEPT ![key(w)] = payload(w)]
              /\ \E r \in Result : res' = [res EXCEPT ![w] = r]
           \/ /\ link' = link
              /\ \E r \in Result : ~r.hasRef /\ res' = [res EXCEPT ![w] = r]
<1>1. \A ref \in BOOLEAN : Sent(ref) \in Result
  BY ResultConstants
<1>2. \A r \in {Duplicate(FALSE), Retriable, Rejected} : r \in Result /\ ~r.hasRef
  <2>1. Duplicate(FALSE) \in Result /\ ~Duplicate(FALSE).hasRef
    BY DEF Duplicate, Answered, Result, Statuses
  <2>2. Retriable \in Result /\ Rejected \in Result /\ ~Retriable.hasRef /\ ~Rejected.hasRef
    BY ResultConstants
  <2> QED BY <2>1, <2>2, Zenon
<1>3. CASE /\ link[key(w)] = NoLink
           /\ link' = [link EXCEPT ![key(w)] = payload(w)]
           /\ \E ref \in BOOLEAN : res' = [res EXCEPT ![w] = Sent(ref)]
  BY <1>1, <1>3
<1>4. CASE /\ link' = link
           /\ \E r \in {Duplicate(FALSE), Retriable, Rejected} : res' = [res EXCEPT ![w] = r]
  BY <1>2, <1>4
<1> QED BY <1>3, <1>4 DEF Arrive

\* What an idle worker's locals hold is a call; it takes the assumption that
\* there are keys and payloads.
LEMMA NoCallType == NoCall \in Calls
<1>1. \E c : c \in Calls
  <2>1. PICK k \in Keys, p \in Payloads : TRUE
    BY SomeAssumption
  <2>2. [key |-> k, payload |-> p] \in Calls
    BY DEF Calls
  <2> QED BY <2>2
<1> QED BY <1>1 DEF NoCall

----------------------------------------------------------------------------
(* Type correctness.                                                       *)

\* An empty database and idle processes are well-typed (ledger.py:61-78).
LEMMA TypeInit == Init => TypeOK
BY NoCallType, ResultConstants, SomeAssumption, AttemptsAssumption, EmptySeq
   DEF Init, TypeOK, WorkerPC, ReconcilerPC, Sending

\* SenderOwnsKey bounds tries: a call that may POST has attempts left.
LEMMA TypeNext == TypeOK /\ SenderOwnsKey /\ [Next]_vars => TypeOK'
<1> SUFFICES ASSUME TypeOK, SenderOwnsKey, [Next]_vars PROVE TypeOK'
  OBVIOUS
<1> USE NoCallType, ResultConstants
<1>1. ASSUME NEW w \in Workers PROVE call[w] \in Calls /\ key(w) \in Keys /\ payload(w) \in Payloads
  BY DEF TypeOK, Calls, key, payload
<1>2. ASSUME NEW w \in Workers, NEW r \in Result, Return(w, r)
      PROVE  /\ pc' \in [Workers -> WorkerPC] /\ call' \in [Workers -> Calls]
             /\ tries' \in [Workers -> 0..MaxAttempts] /\ res' \in [Workers -> Result]
             /\ told' \in [Keys -> SUBSET Result]
  BY <1>2, <1>1, AttemptsAssumption DEF Return, End, TypeOK, WorkerPC
<1>3. ASSUME NEW w \in Workers, NEW c \in Calls, Begin(w, c) PROVE TypeOK'
  BY <1>3 DEF Begin, Goto, TypeOK, ledger, provider, reconcilers, WorkerPC
<1>4. ASSUME NEW w \in Workers, ExecuteStep(w) PROVE TypeOK'
  <2>1. CASE LookIntent(w)
    BY <2>1 DEF LookIntent, Goto, TypeOK, ledger, provider, reconcilers, WorkerPC
  <2>2. CASE ReturnTerminal(w)
    BY <2>2, <1>2, <1>1, TerminalOutcomeIsARow
       DEF ReturnTerminal, TypeOK, ledger, provider, reconcilers
  <2>3. CASE CompareFingerprint(w)
    BY <2>3 DEF CompareFingerprint, Goto, TypeOK, ledger, provider, reconcilers, WorkerPC
  <2>4. CASE RecordMismatch(w)
    BY <2>4, <1>2, <1>1, AppendAddsOneRow
       DEF RecordMismatch, TypeOK, provider, reconcilers
  <2>5. CASE ReturnLatest(w)
    <3> DEFINE r == IF HasOutcome(key(w)) THEN LatestOutcome(key(w)) ELSE Retriable
    <3>1. r \in Result
      BY <1>1, LatestOutcomeIsARow
    <3>2. Return(w, r)
      BY <2>5 DEF ReturnLatest
    <3> QED BY <2>5, <3>1, <3>2, <1>2 DEF ReturnLatest, TypeOK, ledger, provider, reconcilers
  <2>6. CASE InsertIntent(w)
    BY <2>6, <1>1, AttemptsAssumption DEF InsertIntent, Goto, TypeOK, provider, reconcilers, WorkerPC, Sending
  <2>7. CASE LosePrimaryKeyRace(w)
    BY <2>7 DEF LosePrimaryKeyRace, Goto, TypeOK, ledger, provider, reconcilers, WorkerPC
  <2>8. CASE ReturnAfterRace(w)
    <3> DEFINE r == IF HasTerminal(key(w)) THEN TerminalOutcome(key(w)) ELSE Retriable
    <3>1. r \in Result
      BY <1>1, TerminalOutcomeIsARow
    <3>2. Return(w, r)
      BY <2>8 DEF ReturnAfterRace
    <3> QED BY <2>8, <3>1, <3>2, <1>2 DEF ReturnAfterRace, TypeOK, ledger, provider, reconcilers
  <2>9. CASE Post(w)
    <3>1. tries[w] < MaxAttempts
      BY <2>9 DEF Post, Goto, SenderOwnsKey, Sending
    <3> QED BY <2>9, <3>1, <1>1, AttemptsAssumption
            DEF Post, Goto, TypeOK, ledger, reconcilers, WorkerPC, Sending
  <2>10. CASE Arrive(w)
    <3>1. res' \in [Workers -> Result] /\ link' \in [Keys -> Payloads \cup {NoLink}]
      BY <2>10, <1>1, ArriveCases DEF TypeOK
    <3> QED BY <2>10, <3>1
            DEF Arrive, Goto, TypeOK, ledger, reconcilers, WorkerPC, Sending
  <2>11. CASE Receive(w)
    BY <2>11 DEF Receive, AfterSend, Goto, TypeOK, ledger, provider, reconcilers, WorkerPC, Sending
  <2>12. CASE LookupDuplicate(w)
    BY <2>12 DEF LookupDuplicate, Goto, TypeOK, ledger, provider, reconcilers, WorkerPC, Sending
  <2>13. CASE Timeout(w)
    BY <2>13, <1>1 DEF Timeout, Abandon, AfterSend, TypeOK, ledger, reconcilers, WorkerPC, Sending
  <2>14. CASE RecordOutcome(w)
    <3>1. res[w] \in Result
      BY DEF TypeOK
    <3> QED BY <2>14, <3>1, <1>2, <1>1, AppendAddsOneRow
            DEF RecordOutcome, TypeOK, provider, reconcilers
  <2> QED BY <1>4, <2>1, <2>2, <2>3, <2>4, <2>5, <2>6, <2>7, <2>8, <2>9, <2>10, <2>11,
             <2>12, <2>13, <2>14 DEF ExecuteStep
<1>5. ASSUME NEW w \in Workers, Crash(w) PROVE TypeOK'
  BY <1>5, <1>1, AttemptsAssumption
     DEF Crash, End, Abandon, TypeOK, ledger, reconcilers, WorkerPC
<1>6. ASSUME NEW c \in Calls, LateArrival(c) PROVE TypeOK'
  BY <1>6 DEF LateArrival, TypeOK, ledger, executors, reconcilers, Calls
<1>7. ASSUME NEW r \in Reconcilers, ReconcileStep(r) PROVE TypeOK'
  <2>1. ASSUME NEW k \in Keys, SkipTerminal(r, k) PROVE TypeOK'
    BY <2>1 DEF SkipTerminal, TypeOK, ledger, provider, executors
  <2>2. ASSUME NEW k \in Keys, TakeOpen(r, k) PROVE TypeOK'
    BY <2>2 DEF TakeOpen, RGoto, TypeOK, ledger, provider, executors, ReconcilerPC
  <2>3. CASE FindLink(r)
    BY <2>3 DEF FindLink, RGoto, TypeOK, ledger, provider, executors, ReconcilerPC
  <2>4. CASE FindNothing(r)
    BY <2>4 DEF FindNothing, RGoto, TypeOK, ledger, provider, executors, ReconcilerPC
  <2>5. CASE Adopt(r)
    <3>1. cur[r] \in Keys
      BY DEF TypeOK
    <3> QED BY <2>5, <3>1, AppendAddsOneRow
            DEF Adopt, RGoto, TypeOK, provider, executors, ReconcilerPC
  <2>6. CASE EndScan(r)
    BY <2>6 DEF EndScan, RGoto, TypeOK, ledger, provider, executors, ReconcilerPC
  <2> QED BY <1>7, <2>1, <2>2, <2>3, <2>4, <2>5, <2>6 DEF ReconcileStep
<1>8. ASSUME NEW r \in Reconcilers, Scan(r) PROVE TypeOK'
  BY <1>8 DEF Scan, RGoto, TypeOK, ledger, provider, executors, ReconcilerPC
<1>9. ASSUME NEW r \in Reconcilers, CrashReconciler(r) PROVE TypeOK'
  BY <1>9 DEF CrashReconciler, TypeOK, ledger, provider, executors, ReconcilerPC
<1>10. CASE UNCHANGED vars
  BY <1>10 DEF vars, TypeOK
<1> QED BY <1>3, <1>4, <1>5, <1>6, <1>7, <1>8, <1>9, <1>10 DEF Next
----------------------------------------------------------------------------
(* One sender per key.                                                     *)

\* Nothing has been sent under an empty ledger.
LEMMA SenderInit == Init => SenderInv
BY AttemptsAssumption
   DEF Init, SenderInv, PostsBounded, SoleSender, LinkFromIntent, SenderOwnsKey,
       NothingBeforeIntent, Sending

\* A step that starts or advances no sender and leaves the intents and the
\* provider alone.
Quiet ==
    /\ UNCHANGED <<intents, link, posts, late>>
    /\ \A w \in Workers : pc'[w] \in Sending =>
          pc'[w] = pc[w] /\ call'[w] = call[w] /\ tries'[w] = tries[w]

\* A step that leaves intents, posts, link and the workers' sending state
\* alone keeps the sender invariant: this is what most steps are.
LEMMA QuietKeepsSenderInv == SenderInv /\ Quiet => SenderInv'
<1> SUFFICES ASSUME SenderInv, Quiet PROVE SenderInv'
  OBVIOUS
<1>1. PostsBounded' /\ LinkFromIntent' /\ NothingBeforeIntent'
  BY DEF SenderInv, Quiet, PostsBounded, LinkFromIntent, NothingBeforeIntent
<1>2. SoleSender'
  BY DEF SenderInv, Quiet, SoleSender, key
<1>3. SenderOwnsKey'
  BY DEF SenderInv, Quiet, SenderOwnsKey, key, payload
<1> QED BY <1>1, <1>2, <1>3 DEF SenderInv

\* The steps of execute() outside the sending phase are quiet.
LEMMA QuietExecuteSteps ==
    ASSUME TypeOK, NEW w \in Workers,
           \/ \E c \in Calls : Begin(w, c)
           \/ LookIntent(w) \/ ReturnTerminal(w) \/ CompareFingerprint(w)
           \/ RecordMismatch(w) \/ ReturnLatest(w) \/ LosePrimaryKeyRace(w)
           \/ ReturnAfterRace(w) \/ RecordOutcome(w)
    PROVE  Quiet
<1>1. CASE \E c \in Calls : Begin(w, c)
  BY <1>1 DEF Begin, Goto, TypeOK, Quiet, Sending, ledger, provider
<1>2. CASE LookIntent(w)
  BY <1>2 DEF LookIntent, Goto, TypeOK, Quiet, Sending, ledger, provider
<1>3. CASE CompareFingerprint(w)
  BY <1>3 DEF CompareFingerprint, Goto, TypeOK, Quiet, Sending, ledger, provider
<1>4. CASE LosePrimaryKeyRace(w)
  BY <1>4 DEF LosePrimaryKeyRace, Goto, TypeOK, Quiet, Sending, ledger, provider
<1>5. ASSUME NEW r, Return(w, r), UNCHANGED <<intents, provider>>
      PROVE  Quiet
  BY <1>5 DEF Return, End, TypeOK, Quiet, Sending, provider
<1>6. CASE ReturnTerminal(w)
  BY <1>5, <1>6 DEF ReturnTerminal, ledger
<1>7. CASE RecordMismatch(w)
  BY <1>5, <1>7 DEF RecordMismatch
<1>8. CASE ReturnLatest(w)
  BY <1>5, <1>8 DEF ReturnLatest, ledger
<1>9. CASE ReturnAfterRace(w)
  BY <1>5, <1>9 DEF ReturnAfterRace, ledger
<1>10. CASE RecordOutcome(w)
  BY <1>5, <1>10 DEF RecordOutcome
<1> QED BY <1>1, <1>2, <1>3, <1>4, <1>6, <1>7, <1>8, <1>9, <1>10

\* Every step of reconcile() is quiet.
LEMMA QuietReconcileSteps ==
    ASSUME NEW r \in Reconcilers, Scan(r) \/ ReconcileStep(r) \/ CrashReconciler(r)
    PROVE  Quiet
<1>1. UNCHANGED <<intents, link, posts, late, pc, call, tries>>
  BY DEF Scan, ReconcileStep, CrashReconciler, SkipTerminal, TakeOpen, FindLink,
         FindNothing, Adopt, EndScan, ledger, provider, executors
<1> QED BY <1>1 DEF Quiet

\* Every step of executors, reconcilers and the network keeps the sender
\* invariant: the primary key of execution_intents is the lock.
LEMMA SenderNext == TypeOK /\ SenderInv /\ [Next]_vars => SenderInv'
<1> SUFFICES ASSUME TypeOK, SenderInv, [Next]_vars PROVE SenderInv'
  OBVIOUS
<1> USE DEF Sending
<1>1. ASSUME NEW w \in Workers PROVE call[w] \in Calls /\ key(w) \in Keys /\ payload(w) \in Payloads
  BY DEF TypeOK, Calls, key, payload
<1>2. ASSUME NEW w \in Workers, InsertIntent(w) PROVE SenderInv'
  <2>1. /\ intents[key(w)] = NoIntent /\ intents' = [intents EXCEPT ![key(w)] = payload(w)]
        /\ pc[w] = "insert" /\ pc' = [pc EXCEPT ![w] = "post"]
        /\ tries' = [tries EXCEPT ![w] = 0]
        /\ UNCHANGED <<link, late, posts, call>>
    BY <1>2 DEF InsertIntent, Goto, provider
  <2>2. posts[key(w)] = 0 /\ link[key(w)] = NoLink
    BY <2>1, <1>1 DEF SenderInv, NothingBeforeIntent
  <2>3. \A v \in Workers : pc[v] \in Sending => key(v) # key(w)
    BY <2>1, <1>1, AbsentAssumption DEF SenderInv, SenderOwnsKey
  <2>4. PostsBounded' /\ LinkFromIntent'
    BY <2>1, <2>2 DEF SenderInv, PostsBounded, LinkFromIntent, TypeOK
  <2>5. SoleSender'
    BY <2>1, <2>3 DEF SenderInv, SoleSender, TypeOK, key
  <2>6. SenderOwnsKey'
    BY <2>1, <2>2, <2>3, <1>1, AttemptsAssumption
       DEF SenderInv, SenderOwnsKey, TypeOK, key, payload
  <2>7. \A c \in late : c.key \in Keys /\ c.payload \in Payloads
    BY DEF TypeOK, Calls
  <2>8. NothingBeforeIntent'
    BY <2>1, <2>7, <1>1, AbsentAssumption DEF SenderInv, NothingBeforeIntent, TypeOK
  <2> QED BY <2>4, <2>5, <2>6, <2>8 DEF SenderInv
<1>3. ASSUME NEW w \in Workers, Post(w) PROVE SenderInv'
  <2>1. /\ pc[w] = "post" /\ pc' = [pc EXCEPT ![w] = "await"]
        /\ tries' = [tries EXCEPT ![w] = @ + 1]
        /\ posts' = [posts EXCEPT ![key(w)] = @ + 1]
        /\ UNCHANGED <<intents, link, late, call>>
    BY <1>3 DEF Post, Goto, ledger
  <2>2. /\ intents[key(w)] = payload(w) /\ posts[key(w)] = tries[w]
        /\ tries[w] < MaxAttempts
    BY <2>1 DEF SenderInv, SenderOwnsKey
  <2>3. \A v \in Workers \ {w} : pc[v] \in Sending => key(v) # key(w)
    BY <2>1 DEF SenderInv, SoleSender
  <2>4. PostsBounded'
    BY <2>1, <2>2, <1>1, AttemptsAssumption DEF SenderInv, PostsBounded, TypeOK
  <2>5. SoleSender' /\ LinkFromIntent'
    BY <2>1 DEF SenderInv, SoleSender, LinkFromIntent, TypeOK, key
  <2>6. SenderOwnsKey'
    BY <2>1, <2>2, <2>3, <1>1 DEF SenderInv, SenderOwnsKey, TypeOK, key, payload
  <2>7. NothingBeforeIntent'
    BY <2>1, <2>2, <1>1, AbsentAssumption DEF SenderInv, NothingBeforeIntent, TypeOK
  <2> QED BY <2>4, <2>5, <2>6, <2>7 DEF SenderInv
<1>4. ASSUME NEW w \in Workers, Arrive(w) PROVE SenderInv'
  <2>1. /\ pc[w] = "await" /\ pc' = [pc EXCEPT ![w] = "answered"]
        /\ link' = link \/ (/\ link[key(w)] = NoLink
                            /\ link' = [link EXCEPT ![key(w)] = payload(w)])
        /\ UNCHANGED <<intents, posts, late, call, tries>>
    BY <1>4 DEF Arrive, Goto, ledger
  <2>2. intents[key(w)] = payload(w)
    BY <2>1 DEF SenderInv, SenderOwnsKey
  <2>3. LinkFromIntent' /\ NothingBeforeIntent'
    BY <2>1, <2>2, <1>1, AbsentAssumption
       DEF SenderInv, LinkFromIntent, NothingBeforeIntent, TypeOK
  <2>4. PostsBounded' /\ SoleSender' /\ SenderOwnsKey'
    BY <2>1 DEF SenderInv, PostsBounded, SoleSender, SenderOwnsKey, TypeOK, key, payload
  <2> QED BY <2>3, <2>4 DEF SenderInv
<1>5. ASSUME NEW w \in Workers, NEW next \in {"post", "lookup", "record"},
             pc[w] \in Sending, pc' = [pc EXCEPT ![w] = next],
             next = "post" => tries[w] < MaxAttempts,
             UNCHANGED <<intents, link, posts, call, tries>>, Abandon(w)
      PROVE  SenderInv'
  <2>1. \A c \in late' : c \in late \/ c = call[w]
    BY <1>5 DEF Abandon
  <2>2. NothingBeforeIntent'
    BY <2>1, <1>5 DEF SenderInv, SenderOwnsKey, NothingBeforeIntent, key, payload
  <2>3. PostsBounded' /\ SoleSender' /\ LinkFromIntent' /\ SenderOwnsKey'
    BY <1>5 DEF SenderInv, PostsBounded, SoleSender, LinkFromIntent, SenderOwnsKey,
                TypeOK, key, payload
  <2> QED BY <2>2, <2>3 DEF SenderInv
<1>6. ASSUME NEW w \in Workers, Receive(w) \/ LookupDuplicate(w) PROVE SenderInv'
  <2>1. Abandon(w)
    BY <1>6 DEF Receive, LookupDuplicate, Goto, Abandon, provider
  <2>2. CASE Receive(w)
    BY <2>1, <2>2, <1>5 DEF Receive, AfterSend, Goto, ledger, provider
  <2>3. CASE LookupDuplicate(w)
    BY <2>1, <2>3, <1>5 DEF LookupDuplicate, Goto, ledger, provider
  <2> QED BY <1>6, <2>2, <2>3
<1>7. ASSUME NEW w \in Workers, Timeout(w) PROVE SenderInv'
  BY <1>7, <1>5 DEF Timeout, AfterSend, ledger
<1>8. ASSUME NEW w \in Workers, Crash(w) PROVE SenderInv'
  <2>1. /\ pc' = [pc EXCEPT ![w] = "idle"] /\ call' = [call EXCEPT ![w] = NoCall]
        /\ tries' = [tries EXCEPT ![w] = 0]
        /\ UNCHANGED <<intents, link, posts>>
        /\ \A c \in late' : c \in late \/ (pc[w] = "await" /\ c = call[w])
    BY <1>8 DEF Crash, End, Abandon, ledger
  <2>2. NothingBeforeIntent'
    BY <2>1 DEF SenderInv, SenderOwnsKey, NothingBeforeIntent, key, payload
  <2>3. PostsBounded' /\ SoleSender' /\ LinkFromIntent' /\ SenderOwnsKey'
    BY <2>1 DEF SenderInv, PostsBounded, SoleSender, LinkFromIntent, SenderOwnsKey,
                TypeOK, key, payload
  <2> QED BY <2>2, <2>3 DEF SenderInv
<1>9. ASSUME NEW c \in Calls, LateArrival(c) PROVE SenderInv'
  <2>1. /\ c \in late /\ late' = late \ {c} /\ c.key \in Keys /\ c.payload \in Payloads
        /\ link' = link \/ (/\ link[c.key] = NoLink
                            /\ link' = [link EXCEPT ![c.key] = c.payload])
        /\ UNCHANGED <<intents, posts, pc, call, tries>>
    BY <1>9 DEF LateArrival, ledger, executors, Calls
  <2>2. intents[c.key] = c.payload
    BY <2>1 DEF SenderInv, NothingBeforeIntent
  <2>3. LinkFromIntent' /\ NothingBeforeIntent'
    BY <2>1, <2>2, AbsentAssumption
       DEF SenderInv, LinkFromIntent, NothingBeforeIntent, TypeOK
  <2>4. PostsBounded' /\ SoleSender' /\ SenderOwnsKey'
    BY <2>1 DEF SenderInv, PostsBounded, SoleSender, SenderOwnsKey, key, payload
  <2> QED BY <2>3, <2>4 DEF SenderInv
<1>10. CASE UNCHANGED vars
  BY <1>10, QuietKeepsSenderInv DEF vars, Quiet
<1> QED BY <1>2, <1>3, <1>4, <1>6, <1>7, <1>8, <1>9, <1>10, QuietKeepsSenderInv,
           QuietExecuteSteps, QuietReconcileSteps DEF Next, ExecuteStep

\* One sending call per key, at most MaxAttempts POSTs, and only for the
\* payload the committed intent fingerprinted, whatever crashes or races
\* (executor.py:13-16).
THEOREM SingleSender ==
    Spec => [](TypeOK /\ SoleSender /\ PostsBounded /\ LinkFromIntent)
<1>1. Init => TypeOK /\ SenderInv
  BY TypeInit, SenderInit
<1>2. TypeOK /\ SenderInv /\ [Next]_vars => (TypeOK /\ SenderInv)'
  BY TypeNext, SenderNext DEF SenderInv
<1>3. SenderInv => SoleSender /\ PostsBounded /\ LinkFromIntent
  BY DEF SenderInv
<1> QED BY <1>1, <1>2, <1>3, PTL DEF Spec
----------------------------------------------------------------------------
(* What the ledger and the callers are told is true.                       *)

\* The result is on the ledger under this key.
Recorded(k, r) == \E i \in DOMAIN outcomes[k] : outcomes[k][i] = r

\* Every effect a step has on the outcomes table: one row, backed by a link.
RowStep ==
    \/ outcomes' = outcomes
    \/ \E k \in Keys, r \in Result :
          AppendOutcome(k, r) /\ (r.hasRef => link[k] # NoLink)

\* Every effect on what callers were told: a recorded result.
ToldStep ==
    \/ told' = told
    \/ \E k \in Keys, r \in Result :
          /\ told' = [told EXCEPT ![k] = @ \cup {r}]
          /\ r.hasRef => link[k] # NoLink
          /\ \E i \in DOMAIN outcomes'[k] : outcomes'[k][i] = r

\* A call that returns what the ledger holds tells its caller nothing that is
\* not on record (executor.py:82-96).
LEMMA ReturnRecorded ==
    ASSUME TypeOK, RefInv, NEW w \in Workers, NEW r \in Result, Return(w, r),
           outcomes' = outcomes, IsTerminal(r) => Recorded(key(w), r)
    PROVE  ToldStep
<1>1. key(w) \in Keys
  BY DEF TypeOK, Calls, key
<1>2. CASE ~IsTerminal(r)
  BY <1>2 DEF Return, ToldStep
<1>3. CASE IsTerminal(r)
  <2>1. r.hasRef => link[key(w)] # NoLink
    BY <1>1, <1>3 DEF RefInv, RefsAreReal, Recorded
  <2>2. told' = [told EXCEPT ![key(w)] = @ \cup {r}]
    BY <1>3 DEF Return
  <2>3. \E i \in DOMAIN outcomes'[key(w)] : outcomes'[key(w)][i] = r
    BY <1>3 DEF Recorded
  <2> QED BY <1>1, <2>1, <2>2, <2>3 DEF ToldStep
<1> QED BY <1>2, <1>3

\* A call that appends its result and then returns it tells its caller what is
\* now on record (executor.py:87-90 and 117-118).
LEMMA RecordAndReturn ==
    ASSUME TypeOK, NEW w \in Workers, NEW r \in Result, Return(w, r),
           AppendOutcome(key(w), r), r.hasRef => link[key(w)] # NoLink
    PROVE  RowStep /\ ToldStep
<1>1. key(w) \in Keys
  BY DEF TypeOK, Calls, key
<1>2. RowStep
  BY <1>1 DEF RowStep
<1>3. \E i \in DOMAIN outcomes'[key(w)] : outcomes'[key(w)][i] = r
  BY <1>1, AppendAddsOneRow
<1>4. told' = told \/ told' = [told EXCEPT ![key(w)] = @ \cup {r}]
  BY DEF Return
<1> QED BY <1>1, <1>2, <1>3, <1>4 DEF ToldStep

\* Steps of execute() and reconcile(), seen from the ledger and the callers.
LEMMA StepEffects ==
    TypeOK /\ RefInv /\ [Next]_vars => RowStep /\ ToldStep
<1> SUFFICES ASSUME TypeOK, RefInv, [Next]_vars PROVE RowStep /\ ToldStep
  OBVIOUS
<1> USE ResultConstants
<1>1. ASSUME NEW w \in Workers PROVE key(w) \in Keys /\ res[w] \in Result
  BY DEF TypeOK, Calls, key
<1>2. CASE UNCHANGED <<outcomes, told>>
  BY <1>2 DEF RowStep, ToldStep
<1>3. ASSUME NEW w \in Workers, ExecuteStep(w) PROVE RowStep /\ ToldStep
  <2>1. CASE UNCHANGED <<outcomes, told>>
    BY <2>1, <1>2
  <2>2. CASE ReturnTerminal(w)
    <3>1. HasTerminal(key(w)) /\ Return(w, TerminalOutcome(key(w))) /\ outcomes' = outcomes
      BY <2>2 DEF ReturnTerminal, ledger
    <3> QED BY <3>1, <1>1, TerminalOutcomeIsARow, ReturnRecorded DEF RowStep, Recorded
  <2>3. CASE RecordMismatch(w)
    BY <2>3, RecordAndReturn DEF RecordMismatch
  <2>4. CASE ReturnLatest(w)
    <3> DEFINE r == IF HasOutcome(key(w)) THEN LatestOutcome(key(w)) ELSE Retriable
    <3>1. Return(w, r) /\ outcomes' = outcomes
      BY <2>4 DEF ReturnLatest, ledger
    <3>2. r \in Result /\ (IsTerminal(r) => Recorded(key(w), r))
      BY <1>1, LatestOutcomeIsARow
         DEF Recorded, IsTerminal, Retriable, Answered, TERMINAL_STATUSES
    <3> QED BY <3>1, <3>2, ReturnRecorded DEF RowStep
  <2>5. CASE ReturnAfterRace(w)
    <3> DEFINE r == IF HasTerminal(key(w)) THEN TerminalOutcome(key(w)) ELSE Retriable
    <3>1. Return(w, r) /\ outcomes' = outcomes
      BY <2>5 DEF ReturnAfterRace, ledger
    <3>2. r \in Result /\ (IsTerminal(r) => Recorded(key(w), r))
      BY <1>1, TerminalOutcomeIsARow
         DEF Recorded, IsTerminal, Retriable, Answered, TERMINAL_STATUSES
    <3> QED BY <3>1, <3>2, ReturnRecorded DEF RowStep
  <2>6. CASE RecordOutcome(w)
    <3>1. res[w].hasRef => link[key(w)] # NoLink
      BY DEF RefInv, RefsInHandAreReal
    <3> QED BY <2>6, <3>1, <1>1, RecordAndReturn DEF RecordOutcome
  <2>7. CASE \/ LookIntent(w) \/ CompareFingerprint(w) \/ InsertIntent(w)
             \/ LosePrimaryKeyRace(w) \/ Post(w) \/ Arrive(w) \/ Receive(w)
             \/ LookupDuplicate(w) \/ Timeout(w)
    BY <2>7, <2>1 DEF LookIntent, CompareFingerprint, InsertIntent, LosePrimaryKeyRace,
                     Post, Arrive, Receive, LookupDuplicate, Timeout, ledger
  <2> QED BY <1>3, <2>2, <2>3, <2>4, <2>5, <2>6, <2>7 DEF ExecuteStep
<1>4. ASSUME NEW r \in Reconcilers, ReconcileStep(r) PROVE RowStep /\ ToldStep
  <2>1. CASE Adopt(r)
    <3>1. link[cur[r]] # NoLink /\ cur[r] \in Keys
      BY <2>1 DEF Adopt, RGoto, RefInv, RefsInHandAreReal, TypeOK
    <3> QED BY <2>1, <3>1 DEF Adopt, RowStep, ToldStep
  <2>2. CASE ~Adopt(r)
    BY <1>4, <2>2, <1>2 DEF ReconcileStep, SkipTerminal, TakeOpen, FindLink, FindNothing,
                            EndScan, ledger
  <2> QED BY <2>1, <2>2
<1>5. ASSUME NEW w \in Workers, Crash(w) \/ \E c \in Calls : Begin(w, c)
      PROVE  RowStep /\ ToldStep
  BY <1>5, <1>2 DEF Crash, Begin, ledger
<1>6. ASSUME NEW c \in Calls, LateArrival(c) PROVE RowStep /\ ToldStep
  BY <1>6, <1>2 DEF LateArrival, ledger
<1>7. ASSUME NEW r \in Reconcilers, Scan(r) \/ CrashReconciler(r)
      PROVE  RowStep /\ ToldStep
  BY <1>7, <1>2 DEF Scan, CrashReconciler, ledger
<1>8. CASE UNCHANGED vars
  BY <1>8, <1>2 DEF vars
<1> QED BY <1>3, <1>4, <1>5, <1>6, <1>7, <1>8 DEF Next

\* The provider forgets no link.
LEMMA LinksStay ==
    ASSUME TypeOK, [Next]_vars, NEW k \in Keys, link[k] # NoLink
    PROVE  link'[k] = link[k]
<1>1. CASE link' = link
  BY <1>1
<1>2. ASSUME NEW w \in Workers, Arrive(w) PROVE link'[k] = link[k]
  BY <1>2 DEF Arrive, TypeOK
<1>3. ASSUME NEW c \in Calls, LateArrival(c) PROVE link'[k] = link[k]
  BY <1>3 DEF LateArrival, TypeOK
<1>4. ASSUME NEW w \in Workers,
             \/ \E c \in Calls : Begin(w, c)
             \/ ExecuteStep(w) /\ ~Arrive(w)
             \/ Crash(w)
      PROVE  link' = link
  BY <1>4 DEF Begin, ExecuteStep, Crash, LookIntent, ReturnTerminal, CompareFingerprint,
              RecordMismatch, ReturnLatest, InsertIntent, LosePrimaryKeyRace,
              ReturnAfterRace, Post, Receive, LookupDuplicate, Timeout, RecordOutcome, provider
<1>5. ASSUME NEW r \in Reconcilers, Scan(r) \/ ReconcileStep(r) \/ CrashReconciler(r)
      PROVE  link' = link
  BY <1>5, QuietReconcileSteps DEF Quiet
<1> QED BY <1>1, <1>2, <1>3, <1>4, <1>5 DEF Next, vars

\* A step adds at most one row to a key; the reference of a new row, if it has
\* one, belongs to a link that exists.
LEMMA RowsAfterStep ==
    ASSUME TypeOK, RowStep, NEW k \in Keys
    PROVE  /\ \A i \in DOMAIN outcomes[k] :
                i \in DOMAIN outcomes'[k] /\ outcomes'[k][i] = outcomes[k][i]
           /\ \A i \in DOMAIN outcomes'[k] :
                \/ i \in DOMAIN outcomes[k] /\ outcomes'[k][i] = outcomes[k][i]
                \/ outcomes'[k][i].hasRef => link[k] # NoLink
<1>1. CASE outcomes' = outcomes
  BY <1>1
<1>2. ASSUME NEW j \in Keys, NEW r \in Result, AppendOutcome(j, r),
             r.hasRef => link[j] # NoLink
      PROVE  /\ \A i \in DOMAIN outcomes[k] :
                  i \in DOMAIN outcomes'[k] /\ outcomes'[k][i] = outcomes[k][i]
             /\ \A i \in DOMAIN outcomes'[k] :
                  \/ i \in DOMAIN outcomes[k] /\ outcomes'[k][i] = outcomes[k][i]
                  \/ outcomes'[k][i].hasRef => link[k] # NoLink
  <2>1. CASE j = k
    BY <1>2, <2>1, AppendAddsOneRow
  <2>2. CASE j # k
    <3>1. outcomes'[k] = outcomes[k]
      BY <1>2, <2>2 DEF AppendOutcome, TypeOK
    <3> QED BY <3>1
  <2> QED BY <2>1, <2>2
<1> QED BY <1>1, <1>2 DEF RowStep

\* A step tells callers only what is on the ledger afterwards.
LEMMA ToldAfterStep ==
    ASSUME TypeOK, ToldStep, NEW k \in Keys, NEW r \in told'[k]
    PROVE  \/ r \in told[k]
           \/ /\ r.hasRef => link[k] # NoLink
              /\ \E i \in DOMAIN outcomes'[k] : outcomes'[k][i] = r
<1>1. CASE told' = told
  BY <1>1
<1>2. CASE \E j \in Keys, q \in Result :
             /\ told' = [told EXCEPT ![j] = @ \cup {q}]
             /\ q.hasRef => link[j] # NoLink
             /\ \E i \in DOMAIN outcomes'[j] : outcomes'[j][i] = q
  <2>1. PICK j \in Keys, q \in Result :
             /\ told' = [told EXCEPT ![j] = @ \cup {q}]
             /\ q.hasRef => link[j] # NoLink
             /\ \E i \in DOMAIN outcomes'[j] : outcomes'[j][i] = q
    BY <1>2
  <2>2. r \in told[k] \/ (j = k /\ r = q)
    <3>1. told'[k] = IF j = k THEN told[k] \cup {q} ELSE told[k]
      BY <2>1 DEF TypeOK
    <3> QED BY <3>1
  <2> QED BY <2>1, <2>2
<1> QED BY <1>1, <1>2 DEF ToldStep

\* An empty ledger names no reference.
LEMMA RefInit == Init => RefInv /\ AnswersAreRecorded
BY ResultConstants
   DEF Init, RefInv, RefsAreReal, RefsInHandAreReal, AnswersAreRecorded

\* The references on the ledger stay real: links are never taken back.
LEMMA RefsStayReal ==
    TypeOK /\ RefInv /\ [Next]_vars => RefsAreReal'
<1> SUFFICES ASSUME TypeOK, RefInv, [Next]_vars, NEW k \in Keys
             PROVE  /\ \A i \in DOMAIN outcomes'[k] :
                         outcomes'[k][i].hasRef => link'[k] # NoLink
                    /\ \A r \in told'[k] : r.hasRef => link'[k] # NoLink
  BY DEF RefsAreReal
<1>1. link[k] # NoLink => link'[k] # NoLink
  BY LinksStay
<1>2. RowStep /\ ToldStep
  BY StepEffects
<1>3. \A i \in DOMAIN outcomes'[k] : outcomes'[k][i].hasRef => link'[k] # NoLink
  BY <1>1, <1>2, RowsAfterStep DEF RefInv, RefsAreReal
<1>4. \A r \in told'[k] : r.hasRef => link'[k] # NoLink
  BY <1>1, <1>2, ToldAfterStep DEF RefInv, RefsAreReal
<1> QED BY <1>3, <1>4

\* A recorded answer stays recorded: rows are never removed.
LEMMA AnswersStayRecorded ==
    TypeOK /\ RefInv /\ AnswersAreRecorded /\ [Next]_vars => AnswersAreRecorded'
<1> SUFFICES ASSUME TypeOK, RefInv, AnswersAreRecorded, [Next]_vars,
                    NEW k \in Keys, NEW r \in told'[k]
             PROVE  \E i \in DOMAIN outcomes'[k] : outcomes'[k][i] = r
  BY DEF AnswersAreRecorded
<1>1. RowStep /\ ToldStep
  BY StepEffects
<1>2. r \in told[k] \/ \E i \in DOMAIN outcomes'[k] : outcomes'[k][i] = r
  BY <1>1, ToldAfterStep
<1>3. ASSUME r \in told[k] PROVE \E i \in DOMAIN outcomes'[k] : outcomes'[k][i] = r
  <2>1. PICK i \in DOMAIN outcomes[k] : outcomes[k][i] = r
    BY <1>3 DEF AnswersAreRecorded
  <2>2. i \in DOMAIN outcomes'[k] /\ outcomes'[k][i] = outcomes[k][i]
    BY <1>1, RowsAfterStep
  <2> QED BY <2>1, <2>2
<1> QED BY <1>2, <1>3

\* A reference a process holds in its locals is that of an existing link.
LEMMA RefsInHandStayReal ==
    TypeOK /\ RefInv /\ [Next]_vars => RefsInHandAreReal'
<1> SUFFICES ASSUME TypeOK, RefInv, [Next]_vars PROVE RefsInHandAreReal'
  OBVIOUS
<1> USE ResultConstants
<1> DEFINE Hand(w) == res[w].hasRef => pc[w] \in Sending /\ link[key(w)] # NoLink
           HandNext(w) == res'[w].hasRef => pc'[w] \in Sending /\ link'[call'[w].key] # NoLink
           Held(r) == rpc[r] = "adopt" => link[cur[r]] # NoLink
           HeldNext(r) == rpc'[r] = "adopt" => link'[cur'[r]] # NoLink
<1>1. \A k \in Keys : link[k] # NoLink => link'[k] # NoLink
  BY LinksStay
<1>2. /\ \A w \in Workers : Hand(w) /\ key(w) \in Keys
      /\ \A r \in Reconcilers : Held(r) /\ cur[r] \in Keys
  BY DEF RefInv, RefsInHandAreReal, TypeOK, Calls, key
<1>3. ASSUME NEW w \in Workers, res'[w] = res[w], call'[w] = call[w],
             pc[w] \in Sending => pc'[w] \in Sending
      PROVE  HandNext(w)
  BY <1>1, <1>2, <1>3 DEF key
<1>4. ASSUME NEW r \in Reconcilers, rpc'[r] = rpc[r], cur'[r] = cur[r] PROVE HeldNext(r)
  BY <1>1, <1>2, <1>4
<1>5. (\A w \in Workers : HandNext(w)) /\ (\A r \in Reconcilers : HeldNext(r))
         => RefsInHandAreReal'
  BY DEF RefsInHandAreReal, key
<1>6. ASSUME NEW w \in Workers,
             (\E c \in Calls : Begin(w, c)) \/ ExecuteStep(w) \/ Crash(w)
      PROVE  RefsInHandAreReal'
  <2>1. UNCHANGED reconcilers
    BY <1>6 DEF Begin, ExecuteStep, Crash, LookIntent, ReturnTerminal, CompareFingerprint,
       RecordMismatch, ReturnLatest, InsertIntent, LosePrimaryKeyRace, ReturnAfterRace, Post,
       Arrive, Receive, LookupDuplicate, Timeout, RecordOutcome
  <2>2. \A r \in Reconcilers : HeldNext(r)
    BY <2>1, <1>4 DEF reconcilers
  <2>3. \A v \in Workers \ {w} : res'[v] = res[v] /\ call'[v] = call[v] /\ pc'[v] = pc[v]
    BY <1>6 DEF TypeOK, Begin, ExecuteStep, Crash, LookIntent, ReturnTerminal,
       CompareFingerprint, RecordMismatch, ReturnLatest, InsertIntent, LosePrimaryKeyRace,
       ReturnAfterRace, Post, Arrive, Receive, LookupDuplicate, Timeout, RecordOutcome,
       Goto, Return, End
  <2>4. HandNext(w)
    <3>1. CASE res'[w] = Retriable
      BY <3>1
    <3>2. CASE \E c \in Calls : Begin(w, c)
      BY <3>2, <1>2 DEF Begin, Goto, Sending
    <3>3. CASE Crash(w) \/ Timeout(w)
      BY <3>1, <3>3 DEF Crash, End, Timeout, TypeOK
    <3>4. CASE \/ ReturnTerminal(w) \/ RecordMismatch(w) \/ ReturnLatest(w)
               \/ ReturnAfterRace(w) \/ RecordOutcome(w)
      BY <3>1, <3>4 DEF ReturnTerminal, RecordMismatch, ReturnLatest, ReturnAfterRace,
                        RecordOutcome, Return, End, TypeOK
    <3>5. CASE \/ LookIntent(w) \/ CompareFingerprint(w) \/ InsertIntent(w)
               \/ LosePrimaryKeyRace(w) \/ Post(w) \/ Receive(w)
      BY <3>5, <1>3 DEF LookIntent, CompareFingerprint, InsertIntent, LosePrimaryKeyRace,
                        Post, Receive, AfterSend, Goto, TypeOK, Sending
    <3>6. CASE Arrive(w)
      <4>1. /\ pc'[w] \in Sending /\ call' = call
            /\ \/ link'[key(w)] # NoLink
               \/ ~res'[w].hasRef
        <5>1. pc'[w] \in Sending /\ call' = call
          BY <3>6 DEF Arrive, Goto, TypeOK, Sending
        <5>2. CASE link[key(w)] = NoLink /\ link' = [link EXCEPT ![key(w)] = payload(w)]
          <6>1. payload(w) # NoLink
            BY AbsentAssumption DEF TypeOK, Calls, payload
          <6> QED BY <5>1, <5>2, <6>1, <1>2 DEF TypeOK
        <5>3. CASE \E a \in Result : ~a.hasRef /\ res' = [res EXCEPT ![w] = a]
          BY <5>1, <5>3 DEF TypeOK
        <5> QED BY <3>6, <5>2, <5>3, ArriveCases
      <4> QED BY <4>1 DEF key
    <3>7. CASE LookupDuplicate(w)
      <4>1. PICK found \in BOOLEAN : /\ found => link[key(w)] # NoLink
                                     /\ res' = [res EXCEPT ![w] = Duplicate(found)]
        BY <3>7 DEF LookupDuplicate
      <4>2. pc'[w] \in Sending /\ call' = call /\ link' = link
        BY <3>7 DEF LookupDuplicate, Goto, TypeOK, Sending, provider
      <4> QED BY <4>1, <4>2 DEF key, TypeOK
    <3> QED BY <1>6, <3>2, <3>3, <3>4, <3>5, <3>6, <3>7 DEF ExecuteStep
  <2> QED BY <1>3, <1>5, <2>2, <2>3, <2>4
<1>7. ASSUME NEW r \in Reconcilers, Scan(r) \/ ReconcileStep(r) \/ CrashReconciler(r)
      PROVE  RefsInHandAreReal'
  <2>1. UNCHANGED <<executors, link>>
    BY <1>7 DEF Scan, ReconcileStep, CrashReconciler, SkipTerminal, TakeOpen, FindLink,
                FindNothing, Adopt, EndScan, provider
  <2>2. \A w \in Workers : HandNext(w)
    BY <2>1, <1>3 DEF executors
  <2>3. \A q \in Reconcilers \ {r} : rpc'[q] = rpc[q] /\ cur'[q] = cur[q]
    BY <1>7 DEF TypeOK, RGoto, Scan, ReconcileStep, CrashReconciler, SkipTerminal, TakeOpen,
                FindLink, FindNothing, Adopt, EndScan
  <2>4. HeldNext(r)
    BY <1>7, <1>2, <2>1
       DEF TypeOK, RGoto, Scan, ReconcileStep, CrashReconciler, SkipTerminal, TakeOpen,
           FindLink, FindNothing, Adopt, EndScan
  <2> QED BY <1>4, <1>5, <2>2, <2>3, <2>4
<1>8. ASSUME NEW c \in Calls, LateArrival(c) PROVE RefsInHandAreReal'
  BY <1>8, <1>3, <1>4, <1>5 DEF LateArrival, executors, reconcilers
<1>9. CASE UNCHANGED vars
  BY <1>9, <1>3, <1>4, <1>5 DEF vars
<1> QED BY <1>6, <1>7, <1>8, <1>9 DEF Next

\* The whole inductive invariant of the executors and the reconcilers.
THEOREM ExecutionInvariant == Spec => []IndInv
<1>1. Init => IndInv
  BY TypeInit, SenderInit, RefInit DEF IndInv
<1>2. IndInv /\ [Next]_vars => IndInv'
  BY TypeNext, SenderNext, RefsStayReal, RefsInHandStayReal, AnswersStayRecorded
     DEF IndInv, RefInv, SenderInv
<1> QED BY <1>1, <1>2, PTL DEF Spec

\* References on the ledger and successes told to callers are backed by a link
\* at the provider.
THEOREM LedgerIsTrue == Spec => []RefsAreReal
<1>1. IndInv => RefsAreReal
  BY DEF IndInv, RefInv
<1> QED BY <1>1, ExecutionInvariant, PTL

\* A terminal answer a caller was given is a row of the ledger, whoever crashes
\* afterwards (append_outcome commits before execute returns).
THEOREM AnswersSurvive == Spec => []AnswersAreRecorded
<1>1. IndInv => AnswersAreRecorded
  BY DEF IndInv
<1> QED BY <1>1, ExecutionInvariant, PTL
----------------------------------------------------------------------------
(* Append-only tables, and the refinement of NudgeOnce.                    *)

\* Which step changes the intents or the provider, and how.
LEMMA IntentAndLinkSteps ==
    ASSUME TypeOK, SenderInv, [Next]_vars
    PROVE  \/ UNCHANGED <<intents, link>>
           \/ /\ UNCHANGED <<link, outcomes>>
              /\ \E k \in Keys, p \in Payloads :
                    intents[k] = NoIntent /\ intents' = [intents EXCEPT ![k] = p]
           \/ /\ UNCHANGED <<intents, outcomes>>
              /\ \E k \in Keys : /\ intents[k] # NoIntent /\ link[k] = NoLink
                                 /\ link' = [link EXCEPT ![k] = intents[k]]
<1> DEFINE Claims == /\ UNCHANGED <<link, outcomes>>
                     /\ \E k \in Keys, p \in Payloads :
                           intents[k] = NoIntent /\ intents' = [intents EXCEPT ![k] = p]
           Links == /\ UNCHANGED <<intents, outcomes>>
                    /\ \E k \in Keys : /\ intents[k] # NoIntent /\ link[k] = NoLink
                                       /\ link' = [link EXCEPT ![k] = intents[k]]
<1>1. ASSUME NEW w \in Workers PROVE key(w) \in Keys /\ payload(w) \in Payloads
  BY DEF TypeOK, Calls, key, payload
<1>2. ASSUME NEW w \in Workers, InsertIntent(w) PROVE Claims
  BY <1>1, <1>2 DEF InsertIntent, provider
<1>3. ASSUME NEW w \in Workers, Arrive(w) PROVE UNCHANGED <<intents, link>> \/ Links
  <2>1. intents[key(w)] = payload(w) /\ intents[key(w)] # NoIntent
    BY <1>1, <1>3, AbsentAssumption DEF Arrive, Goto, SenderInv, SenderOwnsKey, Sending
  <2> QED BY <1>1, <1>3, <2>1 DEF Arrive, ledger
<1>4. ASSUME NEW c \in Calls, LateArrival(c) PROVE UNCHANGED <<intents, link>> \/ Links
  <2>1. c.key \in Keys /\ c.payload \in Payloads /\ intents[c.key] = c.payload
    BY <1>4 DEF LateArrival, SenderInv, NothingBeforeIntent, Calls
  <2> QED BY <1>4, <2>1, AbsentAssumption DEF LateArrival, ledger
<1>5. ASSUME NEW w \in Workers,
             \/ \E c \in Calls : Begin(w, c)
             \/ ExecuteStep(w) /\ ~Arrive(w) /\ ~InsertIntent(w)
             \/ Crash(w)
      PROVE  UNCHANGED <<intents, link>>
  BY <1>5 DEF Begin, ExecuteStep, Crash, LookIntent, ReturnTerminal, CompareFingerprint,
              RecordMismatch, ReturnLatest, LosePrimaryKeyRace, ReturnAfterRace, Post,
              Receive, LookupDuplicate, Timeout, RecordOutcome, provider, ledger
<1>6. ASSUME NEW r \in Reconcilers, Scan(r) \/ ReconcileStep(r) \/ CrashReconciler(r)
      PROVE  UNCHANGED <<intents, link>>
  BY <1>6, QuietReconcileSteps DEF Quiet
<1>7. CASE UNCHANGED vars
  BY <1>7 DEF vars
<1> QED BY <1>2, <1>3, <1>4, <1>5, <1>6, <1>7 DEF Next

\* Confirmed keys, as the refinement mapping defines them.
ConfirmedKeys == {k \in Keys : \E i \in DOMAIN outcomes[k] : outcomes[k][i].hasRef}

\* What becomes confirmed in a step has its link already.
LEMMA ConfirmedAfterStep ==
    ASSUME TypeOK, RowStep
    PROVE  \/ ConfirmedKeys' = ConfirmedKeys
           \/ \E k \in Keys : /\ link[k] # NoLink
                              /\ ConfirmedKeys' = ConfirmedKeys \cup {k}
<1>1. CASE outcomes' = outcomes
  BY <1>1 DEF ConfirmedKeys
<1>2. ASSUME NEW k \in Keys, NEW r \in Result, AppendOutcome(k, r),
             r.hasRef => link[k] # NoLink
      PROVE  \/ ConfirmedKeys' = ConfirmedKeys
             \/ link[k] # NoLink /\ ConfirmedKeys' = ConfirmedKeys \cup {k}
  <2>1. \A j \in Keys \ {k} : j \in ConfirmedKeys' <=> j \in ConfirmedKeys
    BY <1>2, AppendAddsOneRow DEF ConfirmedKeys
  <2>2. k \in ConfirmedKeys' <=> (k \in ConfirmedKeys \/ r.hasRef)
    BY <1>2, AppendAddsOneRow DEF ConfirmedKeys
  <2>3. ConfirmedKeys \subseteq Keys /\ ConfirmedKeys' \subseteq Keys
    BY DEF ConfirmedKeys
  <2>4. CASE r.hasRef
    BY <1>2, <2>1, <2>2, <2>3, <2>4
  <2>5. CASE ~r.hasRef
    BY <2>1, <2>2, <2>3, <2>5
  <2> QED BY <2>4, <2>5
<1> QED BY <1>1, <1>2 DEF RowStep

\* The executors, the reconcilers, the ledger and the provider together
\* implement the promise of NudgeOnce: one payload per key, one link at most,
\* recorded only once it exists.
THEOREM ImplementsNudgeOnce == Spec => NudgeOncePromise
<1>1. Init => Nudges!Init
  BY DEF Init, Nudges!Init
<1>2. IndInv /\ IndInv' /\ [Next]_vars => [Nudges!Next]_(Nudges!vars)
  <2> SUFFICES ASSUME IndInv, [Next]_vars PROVE [Nudges!Next]_(Nudges!vars)
    OBVIOUS
  <2>1. TypeOK /\ SenderInv /\ RefInv
    BY DEF IndInv
  <2>2. RowStep
    BY <2>1, StepEffects
  <2>3. CASE UNCHANGED <<intents, link>>
    <3>1. CASE ConfirmedKeys' = ConfirmedKeys
      BY <2>3, <3>1 DEF Nudges!vars, ConfirmedKeys
    <3>2. ASSUME NEW k \in Keys, link[k] # NoLink, ConfirmedKeys' = ConfirmedKeys \cup {k},
                 k \notin ConfirmedKeys
          PROVE  Nudges!Next
      <4>1. Nudges!Confirm(k)
        BY <2>3, <3>2 DEF Nudges!Confirm, ConfirmedKeys
      <4> QED BY <4>1 DEF Nudges!Next
    <3> QED BY <2>1, <2>2, <3>1, <3>2, ConfirmedAfterStep
  <2>4. ASSUME UNCHANGED <<link, outcomes>>, NEW k \in Keys, NEW p \in Payloads,
               intents[k] = NoIntent, intents' = [intents EXCEPT ![k] = p]
        PROVE  Nudges!Next
    <3>1. Nudges!Claim(k, p)
      BY <2>4 DEF Nudges!Claim
    <3> QED BY <3>1 DEF Nudges!Next
  <2>5. ASSUME UNCHANGED <<intents, outcomes>>, NEW k \in Keys,
               intents[k] # NoIntent, link[k] = NoLink,
               link' = [link EXCEPT ![k] = intents[k]]
        PROVE  Nudges!Next
    <3>1. Nudges!Nudge(k)
      BY <2>5 DEF Nudges!Nudge
    <3> QED BY <3>1 DEF Nudges!Next
  <2> QED BY <2>1, <2>3, <2>4, <2>5, IntentAndLinkSteps
<1> QED BY <1>1, <1>2, ExecutionInvariant, PTL DEF Spec, NudgeOncePromise, Nudges!Spec

----------------------------------------------------------------------------
(* One terminal row, where execute() and reconcile() are used as the docs  *)
(* have it (ledger.py:151).                                                *)

\* A key has rows only under an intent, its terminal row is its last one, the
\* owner of an intent finds the key without rows, no call finds another payload
\* on record, and what a reconciler looks up is open.
UnclaimedIsEmpty == \A k \in Keys : intents[k] = NoIntent => outcomes[k] = << >>
TerminalIsLast == \A k \in Keys : \A i \in TerminalRows(k) : i = Len(outcomes[k])
CallIsFirst(w) ==
    /\ pc[w] \in Sending => outcomes[key(w)] = << >>
    /\ pc[w] = "terminal" => intents[key(w)] # NoIntent
    /\ pc[w] # "mismatch"
KeyIsOpen(r) == rpc[r] \in {"lookup", "adopt"} => ~HasTerminal(cur[r])

TerminalInv ==
    /\ UnclaimedIsEmpty /\ TerminalIsLast
    /\ \A w \in Workers : CallIsFirst(w)
    /\ \A r \in Reconcilers : KeyIsOpen(r)

\* A row appended to a key that has no terminal row leaves one at most, the last.
LEMMA FirstTerminalIsLast ==
    ASSUME TypeOK, TerminalIsLast, NEW k \in Keys, NEW row \in Result,
           AppendOutcome(k, row), ~HasTerminal(k)
    PROVE  TerminalIsLast'
<1>1. /\ outcomes'[k] = Append(outcomes[k], row) /\ outcomes[k] \in Seq(Result)
      /\ \A j \in Keys : j # k => outcomes'[j] = outcomes[j]
      /\ \A i \in DOMAIN outcomes'[k] :
            \/ i \in DOMAIN outcomes[k] /\ outcomes'[k][i] = outcomes[k][i]
            \/ i = Len(outcomes[k]) + 1
  BY AppendAddsOneRow DEF TypeOK
<1>2. Len(outcomes'[k]) = Len(outcomes[k]) + 1
  BY <1>1, AppendProperties
<1> QED BY <1>1, <1>2 DEF TerminalIsLast, TerminalRows, HasTerminal

\* What a worker's step does to the other processes.
LEMMA WorkerSteps ==
    ASSUME TypeOK, NEW w \in Workers,
           (\E c \in Calls : Begin(w, c)) \/ ExecuteStep(w) \/ Crash(w)
    PROVE  /\ UNCHANGED reconcilers
           /\ \A v \in Workers \ {w} : pc'[v] = pc[v] /\ call'[v] = call[v]
           /\ pc'[w] # "idle" /\ pc[w] # "idle" => call'[w] = call[w]
BY DEF TypeOK, Begin, ExecuteStep, Crash, LookIntent, ReturnTerminal, CompareFingerprint,
   RecordMismatch, ReturnLatest, InsertIntent, LosePrimaryKeyRace, ReturnAfterRace, Post,
   Arrive, Receive, LookupDuplicate, Timeout, RecordOutcome, Goto, Return, End

\* The steps of a call that write no row keep the call the first of its key.
LEMMA CallsStayFirst ==
    ASSUME TypeOK, TerminalInv, Orderly, NEW w \in Workers, outcomes' = outcomes,
           (\E c \in Calls : Begin(w, c)) \/ ExecuteStep(w) \/ Crash(w)
    PROVE  TerminalInv'
<1> DEFINE FirstNext(v) == /\ pc'[v] \in Sending => outcomes[call'[v].key] = << >>
                           /\ pc'[v] = "terminal" => intents'[call'[v].key] # NoIntent
                           /\ pc'[v] # "mismatch"
<1>1. \A v \in Workers : CallIsFirst(v) /\ key(v) \in Keys /\ payload(v) \in Payloads
  BY DEF TerminalInv, TypeOK, Calls, key, payload
<1>2. \/ intents' = intents
      \/ InsertIntent(w) /\ intents[key(w)] = NoIntent /\ pc[w] = "insert"
         /\ intents' = [intents EXCEPT ![key(w)] = payload(w)]
  BY DEF Begin, ExecuteStep, Crash, LookIntent, ReturnTerminal, CompareFingerprint,
     RecordMismatch, ReturnLatest, InsertIntent, LosePrimaryKeyRace, ReturnAfterRace, Post,
     Arrive, Receive, LookupDuplicate, Timeout, RecordOutcome, Goto, ledger
<1>3. \A k \in Keys : intents[k] # NoIntent => intents'[k] = intents[k]
  BY <1>1, <1>2 DEF TypeOK
<1>4. ASSUME NEW v \in Workers \ {w} PROVE FirstNext(v)
  BY <1>1, <1>3, WorkerSteps DEF CallIsFirst, key
<1>5. FirstNext(w)
  <2>1. CASE pc'[w] = "idle"
    BY <2>1 DEF Sending
  <2>2. CASE \E c \in Calls : Begin(w, c)
    BY <2>2 DEF Begin, Goto, TypeOK, Sending
  <2>3. CASE LookIntent(w)
    BY <2>3 DEF LookIntent, Goto, TypeOK, Sending, key, ledger
  <2>4. CASE CompareFingerprint(w)
    <3>1. pc[w] = "terminal" /\ pc' = [pc EXCEPT ![w] = IF intents[key(w)] = payload(w)
                                                        THEN "latest" ELSE "mismatch"]
      BY <2>4 DEF CompareFingerprint, Goto
    <3>2. intents[key(w)] = payload(w)
      BY <1>1, <3>1 DEF CallIsFirst, Orderly
    <3> QED BY <3>1, <3>2 DEF TypeOK, Sending
  <2>5. CASE InsertIntent(w)
    <3>1. intents[key(w)] = NoIntent /\ pc'[w] = "post" /\ call' = call
      BY <2>5 DEF InsertIntent, Goto, TypeOK
    <3>2. outcomes[key(w)] = << >>
      BY <1>1, <3>1 DEF TerminalInv, UnclaimedIsEmpty
    <3> QED BY <3>1, <3>2 DEF key
  <2>6. CASE LosePrimaryKeyRace(w)
    BY <2>6 DEF LosePrimaryKeyRace, Goto, TypeOK, Sending
  <2>7. CASE \/ Post(w) \/ Arrive(w) \/ Receive(w) \/ LookupDuplicate(w) \/ Timeout(w)
    <3>1. pc[w] \in Sending /\ pc'[w] \in Sending /\ call' = call
      BY <2>7 DEF Post, Arrive, Receive, LookupDuplicate, Timeout, AfterSend, Goto, TypeOK, Sending
    <3> QED BY <1>1, <3>1 DEF CallIsFirst, Sending, key
  <2>8. CASE \/ ReturnTerminal(w) \/ RecordMismatch(w) \/ ReturnLatest(w)
             \/ ReturnAfterRace(w) \/ RecordOutcome(w) \/ Crash(w)
    BY <2>1, <2>8 DEF ReturnTerminal, RecordMismatch, ReturnLatest, ReturnAfterRace,
                      RecordOutcome, Crash, Return, End, TypeOK
  <2> QED BY <2>2, <2>3, <2>4, <2>5, <2>6, <2>7, <2>8 DEF ExecuteStep
<1>6. \A v \in Workers : CallIsFirst(v)'
  BY <1>4, <1>5 DEF CallIsFirst, key
<1>7. UnclaimedIsEmpty'
  BY <1>3, AbsentAssumption DEF TerminalInv, UnclaimedIsEmpty
<1>8. TerminalIsLast' /\ \A r \in Reconcilers : KeyIsOpen(r)'
  BY WorkerSteps DEF TerminalInv, TerminalIsLast, TerminalRows, HasTerminal, KeyIsOpen, reconcilers
<1> QED BY <1>6, <1>7, <1>8 DEF TerminalInv

\* The owner of an intent writes the first row of its key, while no reconcile
\* pass is under way.
LEMMA OutcomeIsFirst ==
    ASSUME TypeOK, SenderInv, TerminalInv, Orderly, NEW w \in Workers, RecordOutcome(w)
    PROVE  TerminalInv'
<1>1. /\ pc[w] = "record" /\ key(w) \in Keys /\ res[w] \in Result
      /\ AppendOutcome(key(w), res[w]) /\ intents' = intents /\ pc'[w] = "idle"
  BY DEF RecordOutcome, Return, End, TypeOK, Calls, key
<1>2. outcomes[key(w)] = << >> /\ ~HasTerminal(key(w))
  BY <1>1 DEF TerminalInv, CallIsFirst, Sending, HasTerminal, TerminalRows
<1>3. \A k \in Keys : k # key(w) => outcomes'[k] = outcomes[k]
  BY <1>1, AppendAddsOneRow
<1>4. /\ UNCHANGED reconcilers
      /\ \A v \in Workers \ {w} : pc'[v] = pc[v] /\ call'[v] = call[v]
  BY WorkerSteps DEF ExecuteStep
<1>5. TerminalIsLast'
  BY <1>1, <1>2, FirstTerminalIsLast DEF TerminalInv
<1>6. UnclaimedIsEmpty'
  <2>1. intents[key(w)] # NoIntent
    BY <1>1, AbsentAssumption DEF SenderInv, SenderOwnsKey, Sending, TypeOK, Calls, payload
  <2> QED BY <1>1, <1>3, <2>1 DEF TerminalInv, UnclaimedIsEmpty
<1>7. ASSUME NEW v \in Workers PROVE CallIsFirst(v)'
  <2>1. CASE v = w
    BY <1>1, <2>1 DEF CallIsFirst, Sending
  <2>2. CASE v # w
    <3>1. pc[v] \in Sending => key(v) # key(w)
      BY <1>1, <2>2 DEF SenderInv, SoleSender, Sending
    <3>2. CallIsFirst(v) /\ key(v) \in Keys /\ key(v)' = key(v) /\ pc'[v] = pc[v]
      BY <1>4, <2>2 DEF TerminalInv, TypeOK, Calls, key
    <3> QED BY <1>1, <1>3, <3>1, <3>2 DEF CallIsFirst
  <2> QED BY <2>1, <2>2
<1>8. \A r \in Reconcilers : KeyIsOpen(r)'
  BY <1>1, <1>4 DEF Orderly, KeyIsOpen, reconcilers
<1> QED BY <1>5, <1>6, <1>7, <1>8 DEF TerminalInv

\* The one reconcile pass, while no call is under way, adopts a link for a key
\* without a terminal row.
LEMMA PassKeeps ==
    ASSUME TypeOK, SenderInv, RefInv, TerminalInv, Orderly, NEW r \in Reconcilers,
           Scan(r) \/ ReconcileStep(r) \/ CrashReconciler(r)
    PROVE  TerminalInv'
<1>1. /\ UNCHANGED <<intents, executors>>
      /\ \A q \in Reconcilers \ {r} : rpc'[q] = rpc[q] /\ cur'[q] = cur[q]
  BY DEF TypeOK, RGoto, Scan, ReconcileStep, CrashReconciler, SkipTerminal, TakeOpen,
     FindLink, FindNothing, Adopt, EndScan, ledger
<1>2. CASE Adopt(r)
  <2>0. PICK row \in Result : AppendOutcome(cur[r], row)
    <3>1. Sent(TRUE) \in Result
      BY DEF Sent, Answered, Result, Statuses
    <3> QED BY <1>2, <3>1, Zenon DEF Adopt
  <2>1. rpc[r] = "adopt" /\ rpc'[r] = "next" /\ cur[r] \in Keys
    BY <1>2 DEF Adopt, RGoto, TypeOK
  <2>2. ~HasTerminal(cur[r])
    BY <2>1 DEF TerminalInv, KeyIsOpen
  <2>3. intents[cur[r]] # NoIntent
    BY <2>1, AbsentAssumption DEF RefInv, RefsInHandAreReal, SenderInv, NothingBeforeIntent
  <2>4. \A k \in Keys : k # cur[r] => outcomes'[k] = outcomes[k]
    BY <2>0, <2>1, AppendAddsOneRow
  <2>5. TerminalIsLast' /\ UnclaimedIsEmpty'
    BY <1>1, <2>0, <2>1, <2>2, <2>3, <2>4, FirstTerminalIsLast DEF TerminalInv, UnclaimedIsEmpty
  <2>6. \A q \in Reconcilers : KeyIsOpen(q)'
    BY <1>1, <2>1 DEF Orderly, KeyIsOpen
  <2>7. \A w \in Workers : pc'[w] = "idle"
    BY <1>1, <2>1 DEF Orderly, executors
  <2>8. \A w \in Workers : CallIsFirst(w)'
    BY <2>7 DEF CallIsFirst, Sending
  <2> QED BY <2>5, <2>6, <2>8 DEF TerminalInv
<1>3. CASE ~Adopt(r)
  <2>1. outcomes' = outcomes
    BY <1>3 DEF Scan, ReconcileStep, CrashReconciler, SkipTerminal, TakeOpen, FindLink,
       FindNothing, EndScan, ledger
  <2>2. ASSUME NEW k \in Keys, TakeOpen(r, k) PROVE ~HasTerminal(k)
    <3>1. outcomes[k] \in Seq(Result) /\ ~ (HasOutcome(k) /\ IsTerminal(LatestOutcome(k)))
      BY <2>2 DEF TakeOpen, TypeOK
    <3>2. ASSUME NEW i \in TerminalRows(k) PROVE FALSE
      <4>1. i = Len(outcomes[k]) /\ i \in DOMAIN outcomes[k] /\ IsTerminal(outcomes[k][i])
        BY <3>2 DEF TerminalInv, TerminalIsLast, TerminalRows
      <4> QED BY <3>1, <4>1 DEF HasOutcome, LatestOutcome
    <3> QED BY <3>2 DEF HasTerminal
  <2>3. rpc'[r] \in {"lookup", "adopt"} => ~HasTerminal(cur'[r])
    <3>1. CASE \E k \in Keys : TakeOpen(r, k)
      BY <2>2, <3>1 DEF TakeOpen, TypeOK
    <3>2. CASE ~\E k \in Keys : TakeOpen(r, k)
      <4>1. rpc'[r] \in {"lookup", "adopt"} => rpc[r] \in {"lookup", "adopt"} /\ cur'[r] = cur[r]
        BY <1>3, <3>2 DEF TypeOK, RGoto, Scan, ReconcileStep, CrashReconciler, SkipTerminal,
           FindLink, FindNothing, EndScan
      <4> QED BY <4>1 DEF TerminalInv, KeyIsOpen
    <3> QED BY <3>1, <3>2
  <2>4. ASSUME NEW q \in Reconcilers PROVE KeyIsOpen(q)'
    BY <1>1, <2>1, <2>3 DEF TerminalInv, KeyIsOpen, HasTerminal, TerminalRows
  <2>5. UnclaimedIsEmpty' /\ TerminalIsLast'
    BY <1>1, <2>1 DEF TerminalInv, UnclaimedIsEmpty, TerminalIsLast, TerminalRows
  <2>6. \A w \in Workers : CallIsFirst(w)'
    BY <1>1, <2>1 DEF TerminalInv, CallIsFirst, key, executors
  <2> QED BY <2>4, <2>5, <2>6 DEF TerminalInv
<1> QED BY <1>2, <1>3

\* As long as reconcile() keeps away from running calls and from other passes,
\* and calls for a key carry one payload, a key has one terminal row at most,
\* whatever crashes, timeouts and late POSTs do.  With a second payload it may
\* have two: RecordMismatch writes FAILED_TERMINAL while the first call is on
\* its way to SENT.
THEOREM OneTerminalRow == Spec /\ []Orderly => []AtMostOneTerminal
<1>1. Init => TerminalInv
  BY DEF Init, TerminalInv, UnclaimedIsEmpty, TerminalIsLast, CallIsFirst, KeyIsOpen,
     TerminalRows, HasTerminal, Sending
<1>2. IndInv /\ Orderly /\ TerminalInv /\ [Next]_vars => TerminalInv'
  <2> SUFFICES ASSUME IndInv, Orderly, TerminalInv, [Next]_vars PROVE TerminalInv'
    OBVIOUS
  <2>1. TypeOK /\ SenderInv /\ RefInv
    BY DEF IndInv
  <2>2. ASSUME NEW w \in Workers,
               (\E c \in Calls : Begin(w, c)) \/ ExecuteStep(w) \/ Crash(w)
        PROVE  TerminalInv'
    <3>1. ~RecordMismatch(w)
      BY DEF RecordMismatch, TerminalInv, CallIsFirst
    <3>2. CASE RecordOutcome(w)
      BY <2>1, <3>2, OutcomeIsFirst
    <3>3. CASE ~RecordOutcome(w)
      <4>1. outcomes' = outcomes
        BY <2>2, <3>1, <3>3 DEF Begin, ExecuteStep, Crash, LookIntent, ReturnTerminal,
           CompareFingerprint, ReturnLatest, InsertIntent, LosePrimaryKeyRace, ReturnAfterRace,
           Post, Arrive, Receive, LookupDuplicate, Timeout, ledger
      <4> QED BY <2>1, <2>2, <4>1, CallsStayFirst
    <3> QED BY <3>2, <3>3
  <2>3. ASSUME NEW r \in Reconcilers, Scan(r) \/ ReconcileStep(r) \/ CrashReconciler(r)
        PROVE  TerminalInv'
    BY <2>1, <2>3, PassKeeps
  <2>4. CASE (\E c \in Calls : LateArrival(c)) \/ UNCHANGED vars
    <3>1. UNCHANGED <<ledger, executors, reconcilers>>
      BY <2>4 DEF LateArrival, vars, ledger, executors, reconcilers
    <3> QED BY <3>1 DEF TerminalInv, UnclaimedIsEmpty, TerminalIsLast, CallIsFirst, KeyIsOpen,
            TerminalRows, HasTerminal, key, ledger, executors, reconcilers
  <2> QED BY <2>2, <2>3, <2>4 DEF Next
<1>3. IndInv /\ TerminalInv => AtMostOneTerminal
  <2> SUFFICES ASSUME IndInv, TerminalInv, NEW k \in Keys PROVE Cardinality(TerminalRows(k)) <= 1
    BY DEF AtMostOneTerminal
  <2>1. TerminalRows(k) = {} \/ TerminalRows(k) = {Len(outcomes[k])}
    BY DEF TerminalInv, TerminalIsLast
  <2>2. Cardinality({}) = 0 /\ Cardinality({Len(outcomes[k])}) = 1
    BY FS_EmptySet, FS_Singleton
  <2>3. Cardinality(TerminalRows(k)) \in {0, 1}
    BY <2>1, <2>2, Zenon
  <2> QED BY <2>3
<1> QED BY <1>1, <1>2, <1>3, ExecutionInvariant, PTL DEF Spec

\* AtMostOneTerminalAtStartup: in the scene of the run where reconcile() is
\* confined to startup a key has one terminal outcome, over any keys.
THEOREM OneTerminalAtStartup == MCSpec => []AtMostOneTerminalAtStartup
<1> DEFINE Chosen == scene = "startup"
<1>1. MCSpec => Spec
  <2>1. MCInit => Init
    BY DEF MCInit
  <2>2. [MCNext]_<<vars, scene>> => [Next]_vars
    BY DEF MCNext
  <2> QED BY <2>1, <2>2, PTL DEF MCSpec, Spec
<1>2. MCInit => (Chosen => Orderly)
  BY DEF MCInit, Init, Orderly
<1>3. [MCNext]_<<vars, scene>> => (Chosen' <=> Chosen)
  BY DEF MCNext
<1>4. (Chosen => Orderly) /\ [MCNext]_<<vars, scene>> => (Chosen => Orderly)'
  <2>1. CASE UNCHANGED <<vars, scene>>
    BY <2>1 DEF vars, Orderly, key, payload
  <2>2. CASE MCNext
    BY <2>2 DEF MCNext, Startup
  <2> QED BY <2>1, <2>2
<1>5. MCSpec => ([]Chosen \/ []~Chosen) /\ [](Chosen => Orderly)
  BY <1>2, <1>3, <1>4, PTL DEF MCSpec
<1>6. (Chosen => AtMostOneTerminal) <=> AtMostOneTerminalAtStartup
  BY DEF AtMostOneTerminalAtStartup
<1> QED BY <1>1, <1>5, <1>6, OneTerminalRow, PTL
============================================================================
