------------------------------ MODULE LlmTail ------------------------------
(***************************************************************************)
(* app/llm_diagnosis.py: diagnose() asks a model about the events the      *)
(* rules cannot tell apart, apply() acts on the diagnosis.                 *)
(*                                                                         *)
(* Every model call runs on a daemon thread of its own that is abandoned   *)
(* at the deadline, not stopped: it may answer during any later attempt,   *)
(* or never.  Events are handled independently of each other; each is a    *)
(* process here.                                                           *)
(***************************************************************************)
EXTENDS Integers, Sequences

CONSTANTS
    Events,
    Label,             \* rules_label per event
    ErrorCode,         \* error_code of the payment entity, per event
    REAL_CAUSES,
    Unknown,           \* the cause "unknown"
    MaxRetries         \* max_retries

ROOT_CAUSES == REAL_CAUSES \cup {Unknown}

\* How a model call ends, other than with an answer in ALLOWED_OUTPUT: with
\* text that is no such answer (or no text: the thread died of a
\* BaseException), text json.loads gives up on with a RecursionError, an
\* OSError, any other exception.
Failures == {"bad_output", "too_deep", "OSError", "exception"}
Outs == ROOT_CAUSES \cup Failures

ASSUME CauseAssumption == Unknown \notin REAL_CAUSES /\ ROOT_CAUSES \cap Failures = {}
ASSUME NotAnOutAssumption == "running" \notin Outs
ASSUME EventAssumption == DOMAIN Label = Events /\ DOMAIN ErrorCode = Events
ASSUME RetryAssumption == MaxRetries \in Int

\* The rules cannot split this code, nor may the gate read anything else.
Ambiguous == {e \in Events : ErrorCode[e] = "BAD_REQUEST_ERROR"}

Diagnosis == [root_cause : ROOT_CAUSES, source : {"rules", "llm", "llm_failed"},
              route : {"act", "human_queue"}]
Failed == [root_cause |-> Unknown, source |-> "llm_failed", route |-> "human_queue"]

VARIABLES
    pc,         \* per event
    threads,    \* per event and attempt: "running", or how the call ended
    diagnosis,
    spent,      \* per event: the causes spend() was called with
    queued,     \* per event: calls of enqueue()
    TAIL_ACT_ENABLED   \* the module's switch: False as shipped, never reassigned

vars == <<pc, threads, diagnosis, spent, queued, TAIL_ACT_ENABLED>>

Steps == {"new", "call", "join", "alive", "read", "apply", "done", "raised"}
attempts(e) == Len(threads[e])
This(e) == threads[e][attempts(e)]    \* the thread of the current attempt

TypeOK ==
    /\ pc \in [Events -> Steps]
    /\ threads \in [Events -> Seq(Outs \cup {"running"})]
    /\ diagnosis \in [Events -> Diagnosis]
    /\ spent \in [Events -> Seq(ROOT_CAUSES)]
    /\ queued \in [Events -> Nat]
    /\ TAIL_ACT_ENABLED \in BOOLEAN

Init ==
    /\ pc = [e \in Events |-> "new"]
    /\ threads = [e \in Events |-> << >>]
    /\ diagnosis = [e \in Events |-> Failed]
    /\ spent = [e \in Events |-> << >>]
    /\ queued = [e \in Events |-> 0]
    /\ TAIL_ACT_ENABLED \in BOOLEAN

----------------------------------------------------------------------------
Goto(e, from, to) == pc[e] = from /\ pc' = [pc EXCEPT ![e] = to]

\* The tail is done with the event: d is what diagnose() returns.
Diagnose(e, from, d) ==
    /\ Goto(e, from, "apply")
    /\ diagnosis' = [diagnosis EXCEPT ![e] = d]
    /\ UNCHANGED <<threads, spent, queued>>

RulesDiagnosis(e) ==
    [root_cause |-> Label[e], source |-> "rules",
     route |-> IF Label[e] \in REAL_CAUSES THEN "act" ELSE "human_queue"]

RejectLabel(e) ==
    /\ Label[e] \notin ROOT_CAUSES
    /\ Goto(e, "new", "raised")
    /\ UNCHANGED <<threads, diagnosis, spent, queued>>

\* Mutant: a real rules label is trusted, ambiguous or not.
TrustRules_Always(e) ==
    /\ Label[e] \in ROOT_CAUSES
    /\ Diagnose(e, "new", RulesDiagnosis(e))

TrustRules(e) ==
    /\ Label[e] \in ROOT_CAUSES /\ e \notin Ambiguous
    /\ Diagnose(e, "new", RulesDiagnosis(e))

AskModel(e) ==
    /\ Label[e] \in ROOT_CAUSES /\ e \in Ambiguous
    /\ Goto(e, "new", "call")
    /\ UNCHANGED <<threads, diagnosis, spent, queued>>

\* range(max(1, max_retries + 1))
Budget == IF MaxRetries + 1 > 1 THEN MaxRetries + 1 ELSE 1

\* _call_once: box = {}, worker.start()
StartWorker(e) ==
    /\ attempts(e) < Budget
    /\ Goto(e, "call", "join")
    /\ threads' = [threads EXCEPT ![e] = Append(@, "running")]
    /\ UNCHANGED <<diagnosis, spent, queued>>

\* The transport of attempt i answers or raises, in time or not.
Answer(e, i) ==
    /\ i \in DOMAIN threads[e] /\ threads[e][i] = "running"
    /\ \E out \in Outs : threads' = [threads EXCEPT ![e][i] = out]
    /\ UNCHANGED <<pc, diagnosis, spent, queued, TAIL_ACT_ENABLED>>

\* Mutant: join() without the deadline.
Join_Forever(e) ==
    /\ Goto(e, "join", "alive")
    /\ This(e) # "running"
    /\ UNCHANGED <<threads, diagnosis, spent, queued>>

\* worker.join(timeout_s) returns: the thread has ended or the time is up.
Join(e) ==
    /\ Goto(e, "join", "alive")
    /\ UNCHANGED <<threads, diagnosis, spent, queued>>

\* worker.is_alive(), asked after the join: an answer that came in between
\* still counts, a thread that still runs is left behind (TailTimeout).
CheckAlive(e) ==
    /\ Goto(e, "alive", IF This(e) = "running" THEN "call" ELSE "read")
    /\ UNCHANGED <<threads, diagnosis, spent, queued>>

\* Mutant: one box for all attempts, so any thread's answer is read.
Result_SharedBox(e, out) ==
    pc[e] = "read" /\ \E i \in DOMAIN threads[e] : threads[e][i] = out /\ out # "running"

\* What the box of this attempt holds.
Result(e, out) == pc[e] = "read" /\ out = This(e)

RetryOSError(e) ==
    /\ Result(e, "OSError")
    /\ Goto(e, "read", "call")
    /\ UNCHANGED <<threads, diagnosis, spent, queued>>

\* Neither is retried: the prompt would be the same.
Fail(e) ==
    /\ Result(e, "bad_output") \/ Result(e, "exception")
    /\ Diagnose(e, "read", Failed)

\* parse_output catches ValueError only: the error leaves diagnose().
Escape(e) ==
    /\ Result(e, "too_deep")
    /\ Goto(e, "read", "raised")
    /\ UNCHANGED <<threads, diagnosis, spent, queued>>

\* _route_clean_answer; "unknown" is an honest abstention.
CleanAnswer(cause) ==
    [root_cause |-> cause, source |-> "llm",
     route |-> IF cause # Unknown /\ TAIL_ACT_ENABLED THEN "act" ELSE "human_queue"]

AcceptAnswer(e) ==
    \E cause \in ROOT_CAUSES :
        Result(e, cause) /\ Diagnose(e, "read", CleanAnswer(cause))

Exhausted(e) ==
    /\ attempts(e) >= Budget
    /\ Diagnose(e, "call", Failed)

----------------------------------------------------------------------------
(* apply()                                                                 *)

HardGated(d) == d.source \in {"llm", "llm_failed"} /\ ~TAIL_ACT_ENABLED
IsMoneyEligible(d) == d.route = "act" /\ d.root_cause \in REAL_CAUSES
MaySpend(d) == ~HardGated(d) /\ IsMoneyEligible(d)

Spend(e) ==
    /\ MaySpend(diagnosis[e])
    /\ Goto(e, "apply", "done")
    /\ spent' = [spent EXCEPT ![e] = Append(@, diagnosis[e].root_cause)]
    /\ UNCHANGED <<threads, diagnosis, queued>>

Enqueue(e) ==
    /\ ~MaySpend(diagnosis[e])
    /\ Goto(e, "apply", "done")
    /\ queued' = [queued EXCEPT ![e] = @ + 1]
    /\ UNCHANGED <<threads, diagnosis, spent>>

----------------------------------------------------------------------------
Step(e) ==
    /\ \/ RejectLabel(e) \/ TrustRules(e) \/ AskModel(e)
       \/ StartWorker(e) \/ Join(e) \/ CheckAlive(e)
       \/ RetryOSError(e) \/ Fail(e) \/ Escape(e) \/ AcceptAnswer(e) \/ Exhausted(e)
       \/ Spend(e) \/ Enqueue(e)
    /\ UNCHANGED TAIL_ACT_ENABLED

Next == \E e \in Events : Step(e) \/ \E i \in 1..Budget : Answer(e, i)

Spec == Init /\ [][Next]_vars

\* The caller's thread runs on; the model need never answer.
FairSpec == Spec /\ \A e \in Events : WF_vars(Step(e))

----------------------------------------------------------------------------
(* What the tail promises.                                                 *)

\* The money gate: an event is spent on at most once, for a real cause, and
\* only on the word of the rules about an event they can tell apart or, with
\* the accept path enabled, of the model in its last attempt.
MoneyIsEarned ==
    \A e \in Events :
        spent[e] # << >> =>
            /\ Len(spent[e]) = 1 /\ queued[e] = 0
            /\ spent[e][1] \in REAL_CAUSES
            /\ IF e \in Ambiguous
               THEN TAIL_ACT_ENABLED /\ threads[e] # << >> /\ This(e) = spent[e][1]
               ELSE Label[e] = spent[e][1]

\* A diagnosis of the model is the answer of the attempt it was taken from:
\* what an abandoned thread says later is used by nobody.
AnswerIsCurrent ==
    \A e \in Events :
        diagnosis[e].source = "llm" =>
            threads[e] # << >> /\ This(e) = diagnosis[e].root_cause

\* The model is called for ambiguous events only, and no more than
\* 1 + max_retries times: that bounds the abandoned threads too.
CallsBounded ==
    \A e \in Events : attempts(e) <= (IF e \in Ambiguous /\ MaxRetries > 0
                                      THEN MaxRetries + 1
                                      ELSE IF e \in Ambiguous THEN 1 ELSE 0)

\* Liveness: every event is spent on or queued in the end, although the model
\* may hang for ever, unless the caller gets an exception: for a label nobody
\* knows, or for the answer of the current attempt, too deep to parse.
EventsSettle ==
    \A e \in Events :
        <>(\/ spent[e] # << >> \/ queued[e] > 0
           \/ /\ pc[e] = "raised"
              /\ Label[e] \notin ROOT_CAUSES \/ (e \in Ambiguous /\ This(e) = "too_deep"))
============================================================================
