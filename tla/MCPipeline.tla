----------------------------- MODULE MCPipeline -----------------------------
(* The pipeline and its reader over three payments, with the ladder of the  *)
(* decision engine.  A tick is eight hours and the first one is 05:00, so   *)
(* that a day has a quiet tick after midnight, an open one at 13:00 and a   *)
(* quiet one at 21:00, the window wraps midnight, and a day of the spend    *)
(* ledger begins with the quiet tick in the middle of the window.           *)
(*                                                                          *)
(* Four scenes share one configuration: callers that race for one payment,  *)
(* one caller at a time with money and days, one caller beside the          *)
(* dashboard, and the engine alone, asked about any event: its tickets are  *)
(* on both sides of the floor, of each change of the best rung and of the   *)
(* review limit.                                                            *)
EXTENDS Dashboard, DecisionProps

CONSTANTS p1, p2, p3, u1, u2

\* u1 can be reached by phone and mail for p1 and by mail for p2; u2, who owes
\* p3, is a control.
MCCustomerOf == [p \in Payments |-> IF p = p3 THEN u2 ELSE u1]
MCCustomers == {MCCustomerOf[p] : p \in Payments}
MCArmOf == [u \in MCCustomers |-> IF u = u2 THEN "control" ELSE "treatment"]
MCRungs == {"retry_silent", "email", "sms", "whatsapp", "agent_call"}
MCContactRungs == MCRungs \ {"retry_silent"}
MCQuietRungs == {"sms", "whatsapp", "agent_call"}
MCCost == [retry_silent |-> 5, email |-> 10, sms |-> 22, whatsapp |-> 88,
           agent_call |-> 4200]
AllRankings == (p1 :> <<"whatsapp", "sms", "email", "retry_silent", "agent_call">>)
               @@ (p2 :> <<"email", "retry_silent">>) @@ (p3 :> << >>)
MCRanking == [p \in Payments |-> AllRankings[p]]
AllAnswers == (p1 :> Act("whatsapp")) @@ (p2 :> Act("email")) @@ (p3 :> Skip("CONTROL_ARM"))
MCEngineAnswer == [p \in Payments |-> AllAnswers[p]]

----------------------------------------------------------------------------
(* These are the engine's: it answers and ranks like this for such events.  *)
(* Both modules' None is the same value.                                    *)

MCTickets == {1, 3, 6, 12, 20, 24, 60, 900, 9999, 10000, 18000}
Event(email, phone) ==
    [cause |-> "unknown", confidence |-> 8, ticket |-> 60,
     risk_blocked |-> FALSE, already_recovered |-> FALSE,
     email |-> email, phone |-> phone]
EventOf == (p1 :> Event(TRUE, TRUE)) @@ (p2 :> Event(TRUE, FALSE))
           @@ (p3 :> Event(TRUE, TRUE))
NoHistory == [last_contact |-> None, control_recovery |-> FALSE]
Asked(p) == decide(EventOf[p], MCArmOf[MCCustomerOf[p]], NoHistory)

ASSUME AnswersAreTheEngines ==
    \A p \in Payments :
        /\ MCRanking[p] = [i \in DOMAIN Asked(p).ranked_rungs |-> Asked(p).ranked_rungs[i].name]
        /\ MCEngineAnswer[p] = Verdict(Asked(p).terminal, Asked(p).action, Asked(p).skip_reason)
ASSUME LadderIsThePolicys ==
    \A r \in Rungs : /\ MCCost[r.name] = r.cost
                     /\ r.name \in MCContactRungs <=> r.requires_channel # None

----------------------------------------------------------------------------
VARIABLE scene

\* The watched scene is at 13:00, the others begin at 05:00.
Scenes == [race    |-> [payments |-> {p1},         from |-> 0, time |-> 1, crashes |-> 1],
           serial  |-> [payments |-> {p1, p2},     from |-> 0, time |-> 4, crashes |-> 3],
           watched |-> [payments |-> {p1, p2, p3}, from |-> 1, time |-> 1, crashes |-> 1],
           engine  |-> [payments |-> {},           from |-> 0, time |-> 0, crashes |-> 0]]
Bound == Scenes[scene]

MCInit ==
    /\ DashboardInit
    /\ scene \in DOMAIN Scenes
    /\ real_spend = (scene = "serial")
    /\ one_process = (scene # "race")
    /\ IF scene = "engine" THEN EngineInit
       ELSE /\ event = EventOf[p1] /\ history = NoHistory /\ arm = "treatment"
            /\ decision = Unasked

\* The payments of a watched behaviour are ingested before anything else, u1
\* opts out before that, the page is opened once something has been evaluated,
\* the kill switch engaged then too but between calls, and the behaviour ends
\* when the page is served.
Watched ==
    /\ page # Unopened => queries # << >>
    /\ ~Quiet' => ingested = Bound.payments
    /\ page' # Unopened => evals # {}
    /\ optedOut' # optedOut => ingested = {}
    /\ killed' # killed => evals # {} /\ Quiet

PipelineRuns ==
    /\ DashboardNext
    /\ ingested' \subseteq Bound.payments
    /\ clock < Bound.from => clock' > clock
    /\ clock' <= Bound.time /\ crashes' <= Bound.crashes
    /\ \A c \in Callers : pay'[c] \in Bound.payments
    /\ optedOut'[u2] = Never
    /\ scene = "serial" => optedOut' = optedOut /\ killed' = killed
    /\ IF scene = "watched" THEN Watched ELSE page' = page
    /\ UNCHANGED <<engine_vars, scene>>

EngineRuns == Ask /\ UNCHANGED <<vars, reader, scene>>

MCNext == IF scene = "engine" THEN EngineRuns ELSE PipelineRuns
MCSpec == MCInit /\ [][MCNext]_<<vars, reader, engine_vars, scene>>

CallerSymmetry == Permutations(Callers)

=============================================================================
