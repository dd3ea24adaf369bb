------------------------------ MODULE Dashboard ------------------------------
(***************************************************************************)
(* app/dashboard (screens.py, live.py, trace.py), scripts/audit_metrics.py *)
(* and the guardrail log as eval/measurement.py reads it: one reader       *)
(* beside the callers of process_failure.                                  *)
(*                                                                         *)
(* A page is a list of SELECTs on one read-only connection without a       *)
(* transaction, so each of them sees the tables as they are when it runs.  *)
(* What a row of the page is made of is kept, its wording is not.  The     *)
(* cards about recoveries and uplift are left out.                         *)
(***************************************************************************)
EXTENDS PipelineProps, TLC

CONSTANTS
    ArmOf,      \* assign_arm under the policy's experiment_seed, per customer
    Unopened    \* no page is open

Pages == {"not_chased", "metrics", "audit", "trace"}

ASSUME ArmAssumption == ArmOf \in [Customers -> {"treatment", "control"}]
ASSUME PageAssumption == Unopened \notin Pages
\* What engine._decide returns: an action with every ACT and ROUTE_TO_HUMAN, a
\* reason with every SKIP, CONTROL_ARM in the control arm only, and the names
\* of a finite action ladder, each ranked once.
ASSUME EngineAssumption ==
    /\ IsFiniteSet(Actions)
    /\ \A p \in Payments :
         /\ EngineAnswer[p].terminal # "BLOCKED"
         /\ EngineAnswer[p].terminal = "SKIP" <=> EngineAnswer[p].reason \in SkipReasons
         /\ EngineAnswer[p].terminal = "SKIP" <=> EngineAnswer[p].action = NoAction
         /\ EngineAnswer[p].reason = "CONTROL_ARM" => ArmOf[CustomerOf[p]] = "control"
         /\ IsInjective(Ranking[p])

VARIABLES
    page,       \* the page that is served
    subject,    \* the payment a trace is about
    queries,    \* its SELECTs that have not run yet
    seen,       \* what the others returned
    calm        \* no call of process_failure was under way so far

reader == <<page, subject, queries, seen, calm>>

----------------------------------------------------------------------------
(* Rows as the SELECTs count them.                                         *)

DecisionRows == UNION {{<<p, i>> : i \in DOMAIN decisions[p]} : p \in Payments}
VerdictAt(x) == decisions[x[1]][x[2]].verdict
Where(column, value) == {x \in DecisionRows : VerdictAt(x)[column] = value}
Acts == Where("terminal", "ACT")
Total(count) == SumFunctionOnSet(count, DOMAIN count)

\* A decision keeps the cost of the best rung, whichever the walk ended at.
action_cost_inr(x) == Cost[Ranking[x[1]][1]]

Terminals == {"ACT", "SKIP", "BLOCKED", "ROUTE_TO_HUMAN"}
terminal_counts == [t \in Terminals |-> Cardinality(Where("terminal", t))]
skip_counts ==
    [r \in SkipReasons |-> Cardinality(Where("terminal", "SKIP") \cap Where("reason", r))]
rung_counts ==
    [a \in Actions |-> Cardinality(Acts \cap Where("action", a))]
\* arm_by_pid: the decided payments with a normalized row, one each.
arm_counts ==
    [a \in {"treatment", "control"} |->
        Cardinality({p \in ingested : decisions[p] # << >> /\ ArmOf[CustomerOf[p]] = a})]
Committed(status) == {x \in Rows(Payments) : Row(x).status = status}
Amounts == [x \in Rows(Payments) |-> Row(x).amount]

----------------------------------------------------------------------------
(* The pages.                                                              *)

\* Mutant: a reason is forgotten.
HARD_GATE_REASONS_Four ==
    << "NO_CONTACT_CHANNEL", "ALREADY_RECOVERED", "PRIOR_ZERO", "RISK_BLOCKED" >>

HARD_GATE_REASONS ==
    << "NO_CONTACT_CHANNEL", "ALREADY_RECOVERED", "COOLDOWN", "PRIOR_ZERO", "RISK_BLOCKED" >>
Categories == << "CONTROL_ARM", "EV_BELOW_FLOOR" >> \o HARD_GATE_REASONS \o << "BLOCKED" >>

\* Mutant: the money comes before what it was spent on.
LiveQueries_MoneyFirst ==
    << "dry_run_sends", "real_debit", "terminals", "skips", "arms", "cost", "rungs" >>

LiveQueries ==
    << "terminals", "skips", "arms", "cost", "dry_run_sends", "real_debit", "rungs" >>

\* Mutant: the guardrail rows are looked up before the decision they explain.
TraceQueries_AuditFirst == << "event_id", "decision", "guardrails" >>

TraceQueries == << "decision", "event_id", "guardrails" >>

Queries(pg) ==
    CASE pg = "not_chased" -> << "terminals" >> \o Categories
      [] pg = "metrics"    -> LiveQueries
      [] pg = "audit"      -> Append(LiveQueries, "audit")
      [] pg = "trace"      -> TraceQueries

\* The rung a trace explains: the one the decision names, else the best of the
\* ladder it scores again (no hard gate leaves anything to score).  It scores
\* the ladder of CONTROL_ARM and EV_BELOW_FLOOR too, but no call of such a
\* payment reaches the guardrails, so there is nothing to look up.
Chosen(v, p) ==
    IF v.action # NoAction THEN v.action
    ELSE IF v.terminal = "BLOCKED" THEN Ranking[p][1] ELSE NoAction

\* audit_live: the same figures, derived another way.  Its SELECTs are one step
\* here, for they are only held against the page's over a quiet database.
AuditCounts ==
    [decisions_total |-> Cardinality(DecisionRows),
     terminals |-> terminal_counts, skips |-> skip_counts,
     arms |-> [a \in {"treatment", "control"} |->
                 Cardinality({p \in ingested : ArmOf[CustomerOf[p]] = a /\ decisions[p] # << >>})],
     disagree |-> Cardinality({x \in Where("reason", "CONTROL_ARM") :
                                    ArmOf[CustomerOf[x[1]]] # "control"})]
AuditMoney ==
    [dry_run_sends |-> Cardinality(Acts),
     cost |-> Total([x \in Committed("dry_run") \cup Committed("debit") |-> Cost[Row(x).rung]]),
     real_debit |-> SumFunctionOnSet(Amounts,
                        {x \in Rows(Payments) : Row(x).status \notin {"dry_run", "blocked"}}),
     rungs |-> rung_counts]

Answered(q) ==
    CASE q = "terminals"     -> terminal_counts
      [] q = "skips"         -> skip_counts
      [] q = "arms"          -> arm_counts
      [] q = "rungs"         -> rung_counts
      [] q = "cost"          -> Total([x \in Acts |-> action_cost_inr(x)])
      [] q = "dry_run_sends" -> Cardinality(Committed("dry_run"))
      [] q = "real_debit"    -> SumFunctionOnSet(Amounts, Committed("debit"))
      [] q = "audit"         -> [counts |-> AuditCounts, money |-> AuditMoney]
      [] q = "BLOCKED"       -> Cardinality(Where("terminal", "BLOCKED"))
      [] q \in SkipReasons   -> Cardinality(Where("reason", q))
      [] q = "decision"      -> decisions[subject][1].verdict
      [] q = "event_id"      -> decisions[subject] # << >>
      [] q = "guardrails"    ->
           IF seen["event_id"]
           THEN {e \in evals : /\ e.payment = subject
                               /\ e.rung = Chosen(seen["decision"], subject)}
           ELSE {}

----------------------------------------------------------------------------
(* The reader.                                                             *)

Quiet == \A c \in Callers : pc[c] = "idle"

\* GET /not-chased, /metrics, /trace/{payment_id}, or the audit script starts.
OpenPage(pg, p) ==
    /\ page = Unopened
    /\ page' = pg /\ subject' = p /\ queries' = Queries(pg) /\ calm' = Quiet
    /\ UNCHANGED seen

\* The next SELECT; a trace of a payment nothing was decided about is a 404.
Select ==
    /\ queries # << >>
    /\ IF page = "trace" /\ Head(queries) = "decision" /\ decisions[subject] = << >>
       THEN page' = Unopened /\ queries' = << >> /\ seen' = << >>
       ELSE /\ seen' = [q \in DOMAIN seen \cup {Head(queries)} |->
                          IF q = Head(queries) THEN Answered(q) ELSE seen[q]]
            /\ queries' = Tail(queries)
            /\ UNCHANGED page
    /\ UNCHANGED <<subject, calm>>

DashboardInit ==
    /\ Init
    /\ page = Unopened /\ subject = NoPay /\ queries = << >> /\ seen = << >> /\ calm = FALSE

DashboardNext ==
    \/ /\ Next
       /\ calm' = (calm /\ (queries = << >> \/ Quiet'))
       /\ UNCHANGED <<page, subject, queries, seen>>
    \/ /\ \/ \E pg \in {"not_chased", "metrics", "audit"} : OpenPage(pg, NoPay)
          \/ \E p \in Payments : OpenPage("trace", p)
          \/ Select
       /\ UNCHANGED vars

DashboardSpec == DashboardInit /\ [][DashboardNext]_<<vars, reader>>

Served(pg) == page = pg /\ queries = << >>

----------------------------------------------------------------------------
(* What the pages promise.                                                 *)

\* Every decision is accounted for on /not-chased: whatever is decided while
\* the page is put together, acts, routes and categories reach the total, and
\* with no call under way they are exactly the total.
NothingFallsBetween ==
    Served("not_chased") =>
        LET shown == seen["terminals"]["ACT"] + seen["terminals"]["ROUTE_TO_HUMAN"]
                     + Total([i \in DOMAIN Categories |-> seen[Categories[i]]])
        IN  shown >= Total(seen["terminals"]) /\ (calm => shown = Total(seen["terminals"]))

\* The live page never shows an act without its commitment: the sends and the
\* rungs it counts are at least the acts it counts, although each figure is of
\* another moment.
ActsAreCovered ==
    Served("metrics") =>
        /\ Total(seen["rungs"]) >= seen["terminals"]["ACT"]
        /\ ~real_spend => seen["dry_run_sends"] >= seen["terminals"]["ACT"]

\* A trace explains its decision: an act by an evaluation of its rung that let
\* it pass, a veto by one that names the blocker of the terminal; where calls
\* follow each other and none died there is no other evaluation to confuse it
\* with.
TraceExplains ==
    Served("trace") =>
        LET v == seen["decision"]
            shown == seen["guardrails"]
        IN  /\ v.terminal = "ACT" => \E e \in shown : e.blocked_by = {}
            /\ v.terminal = "BLOCKED" =>
                 \E e \in shown : e.blocked_by # {} /\ Primary(e.blocked_by) = v.reason
            /\ one_process /\ crashes = 0 =>
                 Cardinality(shown) = IF v.terminal \in {"ACT", "BLOCKED"} THEN 1 ELSE 0

\* The audit's second derivation agrees with the page's on every figure but
\* the would-be cost, over a database nobody died at and nobody is writing.
AuditAgrees ==
    (Served("audit") /\ calm /\ crashes = 0 /\ ~real_spend) =>
        LET counts == seen["audit"].counts
            money == seen["audit"].money
        IN  /\ counts.disagree = 0
            /\ counts.decisions_total = Total(seen["terminals"])
            /\ \A f \in {"terminals", "skips", "arms"} : counts[f] = seen[f]
            /\ \A f \in {"dry_run_sends", "real_debit", "rungs"} : money[f] = seen[f]

\* The would-be cost agrees as well (DECISIONS.md: every live figure).
CostAgrees ==
    (Served("audit") /\ calm /\ crashes = 0) => seen["audit"].money.cost = seen["cost"]

----------------------------------------------------------------------------
(* blocked_customers_from_guardrail_log, per event.                        *)

\* Mutant: a rung counts as blocked when no evaluation let it pass.
FullyBlocked_NoPass(p) ==
    LET rungs == {e.rung : e \in {f \in evals : f.payment = p}}
    IN  rungs # {} /\ \A r \in rungs :
            \A e \in evals : e.payment = p /\ e.rung = r => e.blocked_by # {}

FullyBlocked(p) ==
    LET rungs == {e.rung : e \in {f \in evals : f.payment = p}}
    IN  rungs # {} /\ \A r \in rungs :
            \E e \in evals : e.payment = p /\ e.rung = r /\ e.blocked_by # {}

\* Whoever was vetoed on every rung is left out of the uplift, even if an
\* interrupted call had got further; and without deaths or calls under way
\* nobody else is.
VetoedAreExcluded ==
    \A p \in Payments :
        LET vetoed == \E i \in DOMAIN decisions[p] : decisions[p][i].verdict.terminal = "BLOCKED"
        IN  /\ vetoed => FullyBlocked(p)
            /\ (FullyBlocked(p) /\ Quiet /\ crashes = 0) => vetoed
==============================================================================
