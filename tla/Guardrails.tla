----------------------------- MODULE Guardrails -----------------------------
(***************************************************************************)
(* app/guardrails.py, the pure part: seven predicates over a rung and the  *)
(* state read for one decision, and the walk down a ranked ladder.         *)
(*                                                                         *)
(* Time is counted in ticks of Indian time, Day ticks to 24 hours, so that *)
(* ist_day is a division and the quiet window a range of ticks of the day. *)
(***************************************************************************)
EXTENDS Integers, Sequences

CONSTANTS
    Actions,            \* action ladder entries
    ContactRungs,       \* those with a requires_channel
    QuietRungs,         \* quiet_hours_blocked_rungs
    Cost,               \* cost_inr per rung
    attempt_cap_max, contact_limit_max, spend_cap_inr,
    Day,                \* ticks in 24 hours, the rolling window
    QuietStart, QuietEnd, \* ticks of the day
    dry_run             \* the config flag

ASSUME RungAssumption ==
    /\ ContactRungs \subseteq Actions /\ QuietRungs \subseteq Actions
    /\ Cost \in [Actions -> Nat]
ASSUME CapAssumption ==
    /\ attempt_cap_max \in Nat /\ contact_limit_max \in Nat /\ spend_cap_inr \in Nat
    /\ dry_run \in BOOLEAN
ASSUME ClockAssumption ==
    /\ Day \in Nat \ {0} /\ QuietStart \in 0..Day - 1 /\ QuietEnd \in 0..Day - 1

ist_day(now) == now \div Day

\* GuardrailState: what load_state reads for one decision.
State == [kill_switch : BOOLEAN, opted_out : BOOLEAN,
          payment_action_count : Nat, contact_actions_in_window : Nat,
          spent_today_inr : Nat]
FreshState == [kill_switch |-> FALSE, opted_out |-> FALSE,
               payment_action_count |-> 0, contact_actions_in_window |-> 0,
               spent_today_inr |-> 0]

GUARDRAIL_ORDER == << "kill_switch", "opt_out", "attempt_cap", "contact_limit",
                      "quiet_hours", "spend_cap", "dry_run" >>
GuardrailNames == {GUARDRAIL_ORDER[i] : i \in DOMAIN GUARDRAIL_ORDER}

\* Mutant: a window that wraps midnight is taken to end at midnight.
InQuietHours_EveningOnly(now) ==
    IF QuietStart > QuietEnd
    THEN now % Day >= QuietStart
    ELSE QuietStart <= now % Day /\ now % Day < QuietEnd

\* A window whose start is after its end wraps midnight.
InQuietHours(now) ==
    IF QuietStart > QuietEnd
    THEN now % Day >= QuietStart \/ now % Day < QuietEnd
    ELSE QuietStart <= now % Day /\ now % Day < QuietEnd

\* Mutants of the seven predicates: off by one at a cap.
Blocks_CapPlusOne(g, rung, st, now) ==
    CASE g = "kill_switch"   -> st.kill_switch
      [] g = "opt_out"       -> st.opted_out /\ rung \in ContactRungs
      [] g = "attempt_cap"   -> st.payment_action_count > attempt_cap_max
      [] g = "contact_limit" -> rung \in ContactRungs
                                /\ st.contact_actions_in_window >= contact_limit_max
      [] g = "quiet_hours"   -> InQuietHours(now) /\ rung \in QuietRungs
      [] g = "spend_cap"     -> st.spent_today_inr > spend_cap_inr
      [] g = "dry_run"       -> FALSE

\* Mutant: opt-out is read as a preference for another contact channel.
Blocks_ContactsAnyway(g, rung, st, now) ==
    CASE g = "kill_switch"   -> st.kill_switch /\ rung \in ContactRungs
      [] g = "opt_out"       -> st.opted_out /\ rung \in QuietRungs
      [] g = "attempt_cap"   -> st.payment_action_count >= attempt_cap_max
      [] g = "contact_limit" -> rung \in ContactRungs
                                /\ st.contact_actions_in_window > contact_limit_max
      [] g = "quiet_hours"   -> InQuietHours(now) /\ rung \in QuietRungs
      [] g = "spend_cap"     -> st.spent_today_inr + Cost[rung] > spend_cap_inr
      [] g = "dry_run"       -> FALSE

Blocks(g, rung, st, now) ==
    CASE g = "kill_switch"   -> st.kill_switch
      [] g = "opt_out"       -> st.opted_out /\ rung \in ContactRungs
      [] g = "attempt_cap"   -> st.payment_action_count >= attempt_cap_max
      [] g = "contact_limit" -> rung \in ContactRungs
                                /\ st.contact_actions_in_window >= contact_limit_max
      [] g = "quiet_hours"   -> InQuietHours(now) /\ rung \in QuietRungs
      [] g = "spend_cap"     -> st.spent_today_inr + Cost[rung] > spend_cap_inr
      [] g = "dry_run"       -> FALSE

\* evaluate_all: every blocker of a rung.
BlockedBy(rung, st, now) == {g \in GuardrailNames : Blocks(g, rung, st, now)}
IsBlocked(rung, st, now) == BlockedBy(rung, st, now) # {}

\* The blocker that gives the reason is the first in precedence order.
Primary(blockers) ==
    GUARDRAIL_ORDER[CHOOSE i \in DOMAIN GUARDRAIL_ORDER :
                        /\ GUARDRAIL_ORDER[i] \in blockers
                        /\ \A j \in 1..i - 1 : GUARDRAIL_ORDER[j] \notin blockers]

\* Positions of a ranked ladder whose rung nothing blocks.
Open(ranked, st, now) == {i \in DOMAIN ranked : ~IsBlocked(ranked[i], st, now)}

\* Mutant: the walk ends at the lowest rung that is open.
WalkLength_Lowest(ranked, st, now) ==
    IF Open(ranked, st, now) = {} THEN Len(ranked)
    ELSE CHOOSE i \in Open(ranked, st, now) :
             \A j \in Open(ranked, st, now) : j <= i

\* walk_ladder: the length of the walk, which ends at the first open rung or
\* at the foot of the ladder.
WalkLength(ranked, st, now) ==
    IF Open(ranked, st, now) = {} THEN Len(ranked)
    ELSE CHOOSE i \in Open(ranked, st, now) :
             \A j \in Open(ranked, st, now) : i <= j

\* The rung it ends at is chosen unless that one is blocked too.
WalkBlocked(ranked, st, now) == Open(ranked, st, now) = {}
=============================================================================
