------------------------------ MODULE Pipeline ------------------------------
(***************************************************************************)
(* app/pipeline.py: process_failure and the tables it reads and writes     *)
(* (normalized_events, decisions, guardrail_evaluations, spend_ledger,     *)
(* suppression_list).                                                      *)
(*                                                                         *)
(* Each read and each commit uses a connection of its own, so each is one  *)
(* action; now_utc is taken when the call begins and stays what it was.    *)
(* Callers are processes (webhook servers, a batch run); one that dies     *)
(* leaves what it committed, and the payment may be processed again.       *)
(*                                                                         *)
(* What the engine makes of an event outside a cooldown is the constant    *)
(* EngineAnswer, and the ladder it hands over with an ACT the constant Ranking.  *)
(***************************************************************************)
EXTENDS Guardrails, FiniteSets, FiniteSetsExt

CONSTANTS
    Callers,
    Payments,
    Customers,
    CustomerOf,         \* customer_id of a payment's normalized row
    Ranking,            \* decide_with_ladder's ranked_rungs per payment
    EngineAnswer,       \* and its decision, were there no cooldown
    Never,              \* not (yet): opt-out, kill switch
    NoAction,           \* Python's None as an action or a reason
    Operator,           \* bound: what the operator does in a run
    MaxTime,            \* bound: the clock
    MaxCrashes          \* bound: deaths of callers

ASSUME BoundAssumption ==
    /\ MaxTime \in Nat /\ MaxCrashes \in Nat
    /\ Operator \subseteq {"opt_out", "kill_switch"}

VARIABLES
    ingested,   \* normalized_events: payments with a card_failure row
    decisions,  \* decisions: rows per payment, in id order
    evals,      \* guardrail_evaluations: one element per seven-row block
    spend,      \* spend_ledger: rows per payment, in id order
    optedOut,   \* suppression_list: customer -> added_at
    killed,     \* when the kill switch was engaged in config/guardrails.json
    real_spend, \* _REAL_SPEND_ENABLED of the deployed code
    one_process, \* calls follow each other: webhook() has no await inside one,
                \* and the corpus run is a loop; FALSE: several processes
    clock,
    crashes,
    pc, pay, now, state, step, verdict   \* per caller

tables == <<ingested, decisions, evals, spend>>
world == <<optedOut, killed, real_spend, one_process, clock, crashes>>
vars == <<ingested, decisions, evals, spend, optedOut, killed, real_spend, one_process,
          clock, crashes, pc, pay, now, state, step, verdict>>

Times == 0..MaxTime
SkipReasons == {"RISK_BLOCKED", "ALREADY_RECOVERED", "NO_CONTACT_CHANNEL", "COOLDOWN",
                "PRIOR_ZERO", "CONTROL_ARM", "EV_BELOW_FLOOR"}
\* A reason is a SKIP's skip_reason or what follows the slash of BLOCKED/.
Verdict(terminal, action, reason) ==
    [terminal |-> terminal, action |-> action, reason |-> reason]
Verdicts == [terminal : {"ACT", "SKIP", "BLOCKED", "ROUTE_TO_HUMAN"},
             action : Actions \cup {NoAction},
             reason : SkipReasons \cup GuardrailNames \cup {NoAction}]
Skip(reason) == Verdict("SKIP", NoAction, reason)
Blocked(primary) == Verdict("BLOCKED", NoAction, primary)
Act(rung) == Verdict("ACT", rung, NoAction)
Undecided == Skip(NoAction)   \* what an idle caller holds

ASSUME PaymentAssumption ==
    /\ Payments # {}
    /\ CustomerOf \in [Payments -> Customers]
    /\ Ranking \in [Payments -> Seq(Actions)]
    /\ EngineAnswer \in [Payments -> Verdicts]
    /\ \A p \in Payments : EngineAnswer[p].terminal = "ACT" =>
         Ranking[p] # << >> /\ EngineAnswer[p].reason = NoAction
ASSUME NullAssumption == Never \notin Nat /\ NoAction \notin Actions
                         /\ NoAction \notin SkipReasons \cup GuardrailNames

\* A decision row is a verdict and the created_at of its call.
DecisionRow == [verdict : Verdicts, created_at : Times]
EvalRow == [payment : Payments, rung : Actions, ts : Times,
            blocked_by : SUBSET GuardrailNames]
SpendRow == [rung : Actions, amount : Nat, status : {"debit", "dry_run"}, ts : Times]
Steps == {"idle", "load", "prior", "history", "config", "suppression",
          "attempts", "contacts", "spent", "evals", "spend", "record"}
NoPay == CHOOSE p \in Payments : TRUE   \* what an idle caller holds
Ranked(c) == Ranking[pay[c]]
Customer(c) == CustomerOf[pay[c]]

TypeOK ==
    /\ ingested \subseteq Payments
    /\ decisions \in [Payments -> Seq(DecisionRow)]
    /\ evals \subseteq EvalRow
    /\ spend \in [Payments -> Seq(SpendRow)]
    /\ optedOut \in [Customers -> Times \cup {Never}]
    /\ killed \in Times \cup {Never}
    /\ real_spend \in BOOLEAN /\ one_process \in BOOLEAN
    /\ clock \in Times
    /\ crashes \in 0..MaxCrashes
    /\ pc \in [Callers -> Steps]
    /\ pay \in [Callers -> Payments]
    /\ now \in [Callers -> Times]
    /\ state \in [Callers -> State]
    /\ step \in [Callers -> Nat]
    /\ verdict \in [Callers -> Verdicts]

Init ==
    /\ ingested = {}
    /\ decisions = [p \in Payments |-> << >>]
    /\ evals = {}
    /\ spend = [p \in Payments |-> << >>]
    /\ optedOut = [u \in Customers |-> Never]
    /\ killed = Never
    /\ real_spend \in BOOLEAN /\ one_process \in BOOLEAN
    /\ clock = 0
    /\ crashes = 0
    /\ pc = [c \in Callers |-> "idle"]
    /\ pay = [c \in Callers |-> NoPay]
    /\ now = [c \in Callers |-> 0]
    /\ state = [c \in Callers |-> FreshState]
    /\ step = [c \in Callers |-> 0]
    /\ verdict = [c \in Callers |-> Undecided]

----------------------------------------------------------------------------
(* The tables as the code queries them.                                    *)

\* Positions of the ledger rows of a set of payments.  Each row is a debit or
\* a dry run, and both are commitments.
Rows(P) == UNION {{<<p, i>> : i \in DOMAIN spend[p]} : p \in P}
Row(x) == spend[x[1]][x[2]]
PaymentsOf(u) == {p \in Payments : CustomerOf[p] = u}

ContactsSince(u, t) ==
    {x \in Rows(PaymentsOf(u)) : Row(x).rung \in ContactRungs /\ Row(x).ts >= t}

spent_today_inr(t) ==
    SumFunctionOnSet([x \in Rows(Payments) |-> Row(x).amount],
                     {x \in Rows(Payments) : /\ Row(x).status = "debit"
                                             /\ ist_day(Row(x).ts) = ist_day(t)})

\* _history: when the customer's ACT decisions were made; the latest of them
\* starts the cooldown.
ActTimes(u) ==
    UNION {{decisions[p][i].created_at :
              i \in {j \in DOMAIN decisions[p] : decisions[p][j].verdict.terminal = "ACT"}} :
           p \in ingested \cap PaymentsOf(u)}

\* Mutant: the cooldown looks at this payment's decisions only.
InCooldown_PerPayment(c) ==
    \E i \in DOMAIN decisions[pay[c]] :
        /\ decisions[pay[c]][i].verdict.terminal = "ACT"
        /\ now[c] - decisions[pay[c]][i].created_at < Day

InCooldown(c) ==
    ActTimes(Customer(c)) # {} /\ now[c] - Max(ActTimes(Customer(c))) < Day

----------------------------------------------------------------------------
(* process_failure: one action per read or commit.                         *)

Goto(c, from, to) == pc[c] = from /\ pc' = [pc EXCEPT ![c] = to]

End(c) ==
    /\ pc' = [pc EXCEPT ![c] = "idle"]
    /\ pay' = [pay EXCEPT ![c] = NoPay]
    /\ now' = [now EXCEPT ![c] = 0]
    /\ state' = [state EXCEPT ![c] = FreshState]
    /\ step' = [step EXCEPT ![c] = 0]
    /\ verdict' = [verdict EXCEPT ![c] = Undecided]

\* process_failure(p, now_utc = the present) is called.
Begin(c, p) ==
    /\ one_process => \A d \in Callers : pc[d] = "idle"
    /\ Goto(c, "idle", "load")
    /\ pay' = [pay EXCEPT ![c] = p]
    /\ now' = [now EXCEPT ![c] = clock]
    /\ UNCHANGED <<tables, world, state, step, verdict>>

\* No normalized row: None, and nothing is written.
LoadRow(c) ==
    /\ pc[c] = "load"
    /\ IF pay[c] \in ingested
       THEN Goto(c, "load", "prior") /\ UNCHANGED <<pay, now, state, step, verdict>>
       ELSE End(c)
    /\ UNCHANGED <<tables, world>>

\* Mutant: nobody asks for a decision on record.
FindPrior_Never(c) ==
    /\ Goto(c, "prior", "history")
    /\ UNCHANGED <<tables, world, pay, now, state, step, verdict>>

\* A decision on record is returned as it is.
FindPrior(c) ==
    /\ pc[c] = "prior"
    /\ IF decisions[pay[c]] # << >> THEN End(c)
       ELSE Goto(c, "prior", "history") /\ UNCHANGED <<pay, now, state, step, verdict>>
    /\ UNCHANGED <<tables, world>>

\* The gates the engine tries before the cooldown.
EarlierGates == {"RISK_BLOCKED", "ALREADY_RECOVERED", "NO_CONTACT_CHANNEL"}

\* The history is read and the engine decides; only an ACT goes on to the
\* guardrails.
Decide(c) ==
    LET answer == EngineAnswer[pay[c]]
        decision == IF InCooldown(c) /\ answer.reason \notin EarlierGates
                    THEN Skip("COOLDOWN") ELSE answer
    IN  /\ Goto(c, "history", IF decision.terminal = "ACT" THEN "config" ELSE "record")
        /\ verdict' = [verdict EXCEPT ![c] = decision]
        /\ UNCHANGED <<tables, world, pay, now, state, step>>

\* load_state, one connection per query.
ReadConfig(c) ==
    /\ Goto(c, "config", "suppression")
    /\ state' = [state EXCEPT ![c].kill_switch = killed # Never]
    /\ UNCHANGED <<tables, world, pay, now, step, verdict>>

ReadSuppression(c) ==
    /\ Goto(c, "suppression", "attempts")
    /\ state' = [state EXCEPT ![c].opted_out = optedOut[Customer(c)] # Never]
    /\ UNCHANGED <<tables, world, pay, now, step, verdict>>

CountPaymentActions(c) ==
    /\ Goto(c, "attempts", "contacts")
    /\ state' = [state EXCEPT ![c].payment_action_count = Len(spend[pay[c]])]
    /\ UNCHANGED <<tables, world, pay, now, step, verdict>>

\* Mutant: the window is a payment's, not a customer's.
CountContacts_PerPayment(c) ==
    /\ Goto(c, "contacts", "spent")
    /\ state' = [state EXCEPT ![c].contact_actions_in_window =
                    Cardinality({x \in ContactsSince(Customer(c), now[c] - Day) :
                                    x[1] = pay[c]})]
    /\ UNCHANGED <<tables, world, pay, now, step, verdict>>

CountContacts(c) ==
    /\ Goto(c, "contacts", "spent")
    /\ state' = [state EXCEPT ![c].contact_actions_in_window =
                    Cardinality(ContactsSince(Customer(c), now[c] - Day))]
    /\ UNCHANGED <<tables, world, pay, now, step, verdict>>

SumSpend(c) ==
    /\ Goto(c, "spent", "evals")
    /\ state' = [state EXCEPT ![c].spent_today_inr = spent_today_inr(now[c])]
    /\ UNCHANGED <<tables, world, pay, now, step, verdict>>

\* record_ladder_walk: one commit per rung tried.  After the last one the
\* walk's outcome is known: blocked, or the rung it ended at.
RecordEvaluation(c) ==
    LET i == step[c] + 1
        rung == Ranked(c)[i]
        last == i = WalkLength(Ranked(c), state[c], now[c])
        none == WalkBlocked(Ranked(c), state[c], now[c])
    IN  /\ Goto(c, "evals", IF ~last THEN "evals" ELSE IF none THEN "record" ELSE "spend")
        /\ evals' = evals \cup {[payment |-> pay[c], rung |-> rung, ts |-> now[c],
                                 blocked_by |-> BlockedBy(rung, state[c], now[c])]}
        /\ step' = [step EXCEPT ![c] = i]
        /\ verdict' = [verdict EXCEPT ![c] =
                          IF ~last THEN @
                          ELSE IF none THEN Blocked(Primary(BlockedBy(Ranked(c)[1], state[c], now[c])))
                          ELSE Act(rung)]
        /\ UNCHANGED <<ingested, decisions, spend, world, pay, now, state>>

\* Mutant: neither dispatched nor dry run, so the row is one nothing counts.
RecordSpend_Blocked(c) ==
    /\ Goto(c, "spend", "record")
    /\ spend' = [spend EXCEPT ![pay[c]] = Append(@,
                    [rung |-> verdict[c].action, ts |-> now[c],
                     amount |-> 0, status |-> "blocked"])]
    /\ UNCHANGED <<ingested, decisions, evals, world, pay, now, state, step, verdict>>

RecordSpend(c) ==
    LET rung == verdict[c].action
        real == real_spend /\ ~dry_run
    IN  /\ Goto(c, "spend", "record")
        /\ spend' = [spend EXCEPT ![pay[c]] = Append(@,
                        [rung |-> rung, ts |-> now[c],
                         amount |-> IF real THEN Cost[rung] ELSE 0,
                         status |-> IF real THEN "debit" ELSE "dry_run"])]
        /\ UNCHANGED <<ingested, decisions, evals, world, pay, now, state, step, verdict>>

\* Mutant: the row is dated when it is written, not when the call began.
RecordDecision_WallClock(c) ==
    /\ pc[c] = "record"
    /\ decisions' = [decisions EXCEPT ![pay[c]] = Append(@,
                        [verdict |-> verdict[c], created_at |-> clock])]
    /\ End(c)
    /\ UNCHANGED <<ingested, evals, spend, world>>

\* record_decision: the row and its audit row in one transaction; return.
RecordDecision(c) ==
    /\ pc[c] = "record"
    /\ decisions' = [decisions EXCEPT ![pay[c]] = Append(@,
                        [verdict |-> verdict[c], created_at |-> now[c]])]
    /\ End(c)
    /\ UNCHANGED <<ingested, evals, spend, world>>

Crash(c) ==
    /\ pc[c] # "idle" /\ crashes < MaxCrashes
    /\ crashes' = crashes + 1
    /\ End(c)
    /\ UNCHANGED <<tables, optedOut, killed, real_spend, one_process, clock>>

----------------------------------------------------------------------------
(* The world around the callers.                                           *)

\* ingest_live_failure, or a batch's Ingestor: INSERT OR IGNORE on event_id.
IngestFailure(p) ==
    /\ p \notin ingested
    /\ ingested' = ingested \cup {p}
    /\ UNCHANGED <<decisions, evals, spend, world, pc, pay, now, state, step, verdict>>

\* add_suppression: INSERT OR REPLACE.
OptOut(u) ==
    /\ "opt_out" \in Operator
    /\ optedOut' = [optedOut EXCEPT ![u] = clock]
    /\ UNCHANGED <<tables, killed, real_spend, one_process, clock, crashes,
                   pc, pay, now, state, step, verdict>>

\* The operator sets kill_switch in config/guardrails.json.
EngageKillSwitch ==
    /\ "kill_switch" \in Operator /\ killed = Never
    /\ killed' = clock
    /\ UNCHANGED <<tables, optedOut, real_spend, one_process, clock, crashes,
                   pc, pay, now, state, step, verdict>>

Tick ==
    /\ clock < MaxTime
    /\ clock' = clock + 1
    /\ UNCHANGED <<tables, optedOut, killed, real_spend, one_process, crashes,
                   pc, pay, now, state, step, verdict>>

Process(c) ==
    \/ LoadRow(c) \/ FindPrior(c) \/ Decide(c)
    \/ ReadConfig(c) \/ ReadSuppression(c) \/ CountPaymentActions(c)
    \/ CountContacts(c) \/ SumSpend(c)
    \/ RecordEvaluation(c) \/ RecordSpend(c) \/ RecordDecision(c)

Next ==
    \/ \E c \in Callers : \/ \E p \in Payments : Begin(c, p)
                          \/ Process(c)
                          \/ Crash(c)
    \/ \E p \in Payments : IngestFailure(p)
    \/ \E u \in Customers : OptOut(u)
    \/ EngageKillSwitch
    \/ Tick

Spec == Init /\ [][Next]_vars
=============================================================================
