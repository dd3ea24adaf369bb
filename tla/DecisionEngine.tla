--------------------------- MODULE DecisionEngine ---------------------------
(***************************************************************************)
(* app/decision/engine.py over config/decision_policy.json: what to do     *)
(* about one failed payment, as a pure function of the event, the arm and  *)
(* the customer's history.                                                 *)
(*                                                                         *)
(* Money and probabilities are integers.  A confidence is a number of      *)
(* 25ths (the rules path's 0.32 is 8), a prior is in percent, an           *)
(* effectiveness in 20ths, a cost in paise, so every EV is a whole number  *)
(* of 1/Unit rupees.  The code's floats differ from it only by rounding.   *)
(* The 0.95 cap on a rung's probability is kept; with this policy no       *)
(* product reaches it.                                                     *)
(***************************************************************************)
EXTENDS Integers, Sequences, FiniteSets, SequencesExt

CONSTANTS
    Tickets,      \* ticket sizes in rupees
    Confidences,  \* cause confidences, in 25ths
    Hours,        \* hours since the customer's last ACT decision, if any
    None          \* Python's None

ASSUME InputAssumption ==
    /\ Tickets \subseteq Nat /\ Confidences \subseteq 0..25 /\ Hours \subseteq Nat
    /\ None \notin Hours

Unit == 200000
RungCap == 190000    \* 0.95

\* action_ladder
Rung(name, cost, effectiveness, channel) ==
    [name |-> name, cost |-> cost, effectiveness |-> effectiveness,
     requires_channel |-> channel]
ActionLadder ==
    << Rung("retry_silent",    5,  7, None),
       Rung("email",          10, 11, "email"),
       Rung("sms",            22, 14, "phone"),
       Rung("whatsapp",       88, 20, "phone"),
       Rung("agent_call",   4200, 29, "phone") >>
Rungs == ToSet(ActionLadder)

EngineSkips == {"RISK_BLOCKED", "NO_CONTACT_CHANNEL", "ALREADY_RECOVERED", "COOLDOWN",
                "CONTROL_ARM", "EV_BELOW_FLOOR", "PRIOR_ZERO"}

ASSUME NoneAssumption == None \notin EngineSkips \cup {r.name : r \in Rungs}

\* incremental_priors, in percent
IncrementalPriors ==
    [bank_downtime |-> 4, gateway_timeout |-> 5, insufficient_funds |-> 9,
     invalid_card |-> 16, expired_card |-> 22, otp_timeout |-> 5, unknown |-> 10]
Causes == DOMAIN IncrementalPriors

population_incremental == 10
min_ev_inr == 2 * Unit
cooldown_hours == 24
human_review_ticket_inr == 10000
high_touch_rungs == {"agent_call"}
review_confidence_threshold == 55    \* percent

Events == [cause : Causes, confidence : Confidences, ticket : Tickets,
           risk_blocked : BOOLEAN, already_recovered : BOOLEAN,
           email : BOOLEAN, phone : BOOLEAN]
Histories == [last_contact : Hours \cup {None}, control_recovery : BOOLEAN]
Arms == {"treatment", "control"}

----------------------------------------------------------------------------
ChannelOk(rung, e) ==
    \/ rung.requires_channel = None
    \/ rung.requires_channel = "email" /\ e.email
    \/ rung.requires_channel = "phone" /\ e.phone
Eligible(e) == {r \in Rungs : ChannelOk(r, e)}

\* The skip a gate forces before any EV arithmetic; the order is the code's.
\* retry_silent needs no channel, so NO_CONTACT_CHANNEL cannot fire with this
\* ladder, and PRIOR_ZERO cannot with these priors.
HardGate(e, h) ==
    IF e.risk_blocked THEN "RISK_BLOCKED"
    ELSE IF e.already_recovered THEN "ALREADY_RECOVERED"
    ELSE IF Eligible(e) = {} THEN "NO_CONTACT_CHANNEL"
    ELSE IF h.last_contact # None /\ h.last_contact < cooldown_hours THEN "COOLDOWN"
    ELSE IF IncrementalPriors[e.cause] = 0 THEN "PRIOR_ZERO"
    ELSE None

\* The prior blended toward the population rate, quartered once the customer
\* came back unaided from the control arm; in 10000ths.
PEffective(e, h) ==
    (e.confidence * IncrementalPriors[e.cause]
        + (25 - e.confidence) * population_incremental)
    * (IF h.control_recovery THEN 1 ELSE 4)

\* Expected value of a rung, in 1/Unit rupees.
Ev(r, e, h) ==
    LET p == PEffective(e, h) * r.effectiveness
    IN  (IF p < RungCap THEN p ELSE RungCap) * e.ticket
        - r.cost * (Unit \div 100)

\* The key (-ev, cost): the better EV first, ties to the cheaper rung.
Before(r, s, e, h) ==
    \/ Ev(r, e, h) > Ev(s, e, h)
    \/ Ev(r, e, h) = Ev(s, e, h) /\ r.cost < s.cost
BetterThan(r, e, h) == {s \in Eligible(e) : Before(s, r, e, h)}

\* _compute_ladder's min over that key.
Best(e, h) == CHOOSE r \in Eligible(e) : BetterThan(r, e, h) = {}

\* The same rungs sorted by it: in place i the one that i - 1 others beat.
RankedRungs(e, h) ==
    [i \in 1..Cardinality(Eligible(e)) |->
        CHOOSE r \in Eligible(e) : Cardinality(BetterThan(r, e, h)) = i - 1]

Routed(e, h) ==
    /\ Best(e, h).name \in high_touch_rungs
    /\ e.ticket >= human_review_ticket_inr
    /\ 4 * e.confidence < review_confidence_threshold

\* Mutant: the floor alone decides, the review rule is forgotten.
WouldAct_Unrouted(e, h) == Ev(Best(e, h), e, h) >= min_ev_inr

WouldAct(e, h) == Ev(Best(e, h), e, h) >= min_ev_inr /\ ~Routed(e, h)

Answer(terminal, action, reason, shadow, ranked) ==
    [terminal |-> terminal, action |-> action, skip_reason |-> reason,
     shadow_action |-> shadow, ranked_rungs |-> ranked]

BelowFloor(e, h) == Ev(Best(e, h), e, h) < min_ev_inr

\* decide, with decide_with_ladder's ranking.
decide(e, a, h) ==
    LET best == Best(e, h).name
        Skip(reason, shadow) == Answer("SKIP", None, reason, shadow, << >>)
    IN  IF HardGate(e, h) # None THEN Skip(HardGate(e, h), None)
        ELSE IF a = "control"
          THEN Skip("CONTROL_ARM", IF WouldAct(e, h) THEN best ELSE None)
        ELSE IF BelowFloor(e, h) THEN Skip("EV_BELOW_FLOOR", None)
        ELSE IF Routed(e, h) THEN Answer("ROUTE_TO_HUMAN", best, None, None, << >>)
        ELSE Answer("ACT", best, None, None, RankedRungs(e, h))

----------------------------------------------------------------------------
(* dashboard/trace.py scores the ladder of a recorded decision again, from  *)
(* the stored p_effective and the channels on file: one pass in the order   *)
(* of the policy that keeps the first rung of the highest EV.               *)

\* Mutant: rungs are scored whose channel the customer does not have.
Scored_AnyChannel(e) == DOMAIN ActionLadder

Scored(e) == {i \in DOMAIN ActionLadder : ChannelOk(ActionLadder[i], e)}
Viable(e, h) == {i \in Scored(e) : Ev(ActionLadder[i], e, h) >= min_ev_inr}

TraceBest(e, h) ==
    ActionLadder[CHOOSE i \in Scored(e) : \A j \in Scored(e) :
        \/ Ev(ActionLadder[i], e, h) > Ev(ActionLadder[j], e, h)
        \/ Ev(ActionLadder[i], e, h) = Ev(ActionLadder[j], e, h) /\ i <= j]
=============================================================================
