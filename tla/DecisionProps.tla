--------------------------- MODULE DecisionProps ---------------------------
(***************************************************************************)
(* The engine is asked about any event, history and arm, and the promises  *)
(* its decision keeps.                                                     *)
(***************************************************************************)
EXTENDS DecisionEngine

VARIABLES event, history, arm, decision
engine_vars == <<event, history, arm, decision>>

Unasked == Answer("none", None, None, None, << >>)

EngineInit ==
    /\ event \in Events /\ history \in Histories /\ arm \in Arms
    /\ decision = Unasked

Ask ==
    /\ decision.terminal = "none"
    /\ decision' = decide(event, arm, history)
    /\ UNCHANGED <<event, history, arm>>

EngineSpec == EngineInit /\ [][Ask]_engine_vars

----------------------------------------------------------------------------
(* What a decision promises.                                               *)

\* The counterfactual of the experiment: what control records as its shadow
\* action is the action the same event gets in treatment, and none where
\* treatment skips or routes.
ShadowIsTreatment ==
    (decision.terminal # "none" /\ arm = "control") =>
        LET treated == decide(event, "treatment", history)
        IN  decision.shadow_action =
              IF treated.terminal = "ACT" THEN treated.action ELSE None

\* The trace page scores the ladder in a loop of its own, and what it says of a
\* decision is what the engine went by: the rung it calls the best is the one
\* acted on, routed or held back in control, it is viable then, and under
\* EV_BELOW_FLOOR no rung is.
TraceScoresAlike ==
    (decision.terminal # "none" /\ HardGate(event, history) = None) =>
        LET best == TraceBest(event, history).name
        IN  /\ decision.action # None => decision.action = best
            /\ decision.shadow_action # None => decision.shadow_action = best
            /\ decision.terminal = "ACT" => Head(decision.ranked_rungs).name = best
            /\ arm = "treatment" =>
                 (decision.skip_reason = "EV_BELOW_FLOOR" <=> Viable(event, history) = {})
=============================================================================
