--------------------------- MODULE PipelineProps ---------------------------
(* What process_failure promises about the tables it writes.               *)
EXTENDS Pipeline

----------------------------------------------------------------------------
(* For any number of callers and whenever one of them dies.                *)

IsEvaluated(p, rung, ts, open) ==
    \E e \in evals : /\ e.payment = p /\ e.rung = rung /\ e.ts = ts
                     /\ (e.blocked_by = {}) = open

\* No commitment without its walk: a ledger row names a rung whose seven
\* verdicts are on record and let it pass, and every rung the engine ranked
\* above it has an evaluation of the same call on record that blocked it.
SpendIsJustified ==
    \A x \in Rows(Payments) :
        LET p == x[1]
        IN  \E i \in DOMAIN Ranking[p] :
                /\ Ranking[p][i] = Row(x).rung
                /\ IsEvaluated(p, Ranking[p][i], Row(x).ts, TRUE)
                /\ \A j \in 1..i - 1 : IsEvaluated(p, Ranking[p][j], Row(x).ts, FALSE)

\* No ACT without its commitment: the caps count ledger rows, so an ACT on
\* record always has the row that counts it.
ActsAreCommitted ==
    \A p \in Payments : \A i \in DOMAIN decisions[p] :
        decisions[p][i].verdict.terminal = "ACT" =>
            \E j \in DOMAIN spend[p] : /\ spend[p][j].rung = decisions[p][i].verdict.action
                                       /\ spend[p][j].ts = decisions[p][i].created_at

\* The operator's word binds every call that begins after it, whatever else
\* is running: no contact of a customer on the suppression list, and nothing
\* at all once the kill switch is on.
OperatorIsObeyed ==
    /\ \A u \in Customers : optedOut[u] # Never =>
         \A x \in Rows(PaymentsOf(u)) :
             Row(x).rung \in ContactRungs => Row(x).ts <= optedOut[u]
    /\ killed # Never => \A x \in Rows(Payments) : Row(x).ts <= killed

\* The ticks of the day from QuietStart up to, not including, QuietEnd.
QuietTicks == {(QuietStart + i) % Day : i \in 0..((QuietEnd - QuietStart) % Day) - 1}

\* No quiet rung is committed in the quiet hours of its call.
QuietHoursHold ==
    \A x \in Rows(Payments) : Row(x).rung \in QuietRungs => Row(x).ts % Day \notin QuietTicks

----------------------------------------------------------------------------
(* For one process, which may die and be run again.                        *)

\* A payment has at most one decision row.
OneDecision == \A p \in Payments : Len(decisions[p]) <= 1

\* A payment collects no more commitments than the lifetime cap, although a
\* death between ledger and decision makes the next call commit again.
AttemptCapHolds == \A p \in Payments : Len(spend[p]) <= attempt_cap_max

\* No 24 hours hold more contacts of a customer than the limit, whichever
\* payments they were for.
ContactLimitHolds ==
    \A u \in Customers, t \in Times :
        Cardinality({x \in ContactsSince(u, t - Day) : Row(x).ts <= t}) <= contact_limit_max

\* Two ACT decisions for one customer are a cooldown apart.
CooldownHolds ==
    \A u \in Customers : \A p, q \in PaymentsOf(u) :
        \A i \in DOMAIN decisions[p], j \in DOMAIN decisions[q] :
            (/\ <<p, i>> # <<q, j>>
             /\ decisions[p][i].verdict.terminal = "ACT"
             /\ decisions[q][j].verdict.terminal = "ACT"
             /\ decisions[p][i].created_at <= decisions[q][j].created_at)
            => decisions[q][j].created_at - decisions[p][i].created_at >= Day

\* The debits of an Indian calendar day stay within the daily cap.
SpendCapHolds == \A t \in Times : spent_today_inr(t) <= spend_cap_inr

\* A payment has at most one decision row, however often a caller dies.
OneDecisionInSeries == one_process => OneDecision
\* The lifetime cap of a payment holds, however often a caller dies.
AttemptCapInSeries == one_process => AttemptCapHolds
\* The contact limit of a customer holds over any 24 hours.
ContactLimitInSeries == one_process => ContactLimitHolds
\* A customer's acts are a cooldown apart.
CooldownInSeries == one_process => CooldownHolds
\* A day's debits stay within the cap.
SpendCapInSeries == one_process => SpendCapHolds
============================================================================
