------------------------------ MODULE Webhook ------------------------------
(***************************************************************************)
(* app/main.py: POST /webhooks/razorpay over the tables of app/db.py.      *)
(*                                                                         *)
(* The handler has one await, before its first statement, so within one    *)
(* server process deliveries are handled one after the other; Servers are  *)
(* processes that share the database.  Every helper of db.py opens its own *)
(* connection and commits: one action each.  A process may die between two *)
(* commits, and the provider sends a delivery again until it gets a 200.   *)
(*                                                                         *)
(* The decision pipeline is kept to what the handler sees of it: it looks  *)
(* for a decision, records one, or fails in a way the handler swallows.    *)
(* audit is a set of rows; a row that is written again is told from the    *)
(* first one by its field again, so a repeat counts as a second row (only  *)
(* the copies after the second one are merged).                            *)
(***************************************************************************)
EXTENDS Integers, FiniteSets

CONSTANTS
    Servers,          \* server processes
    Deliveries,       \* signed or forged webhook requests, see Delivery
    Payments,         \* payment ids
    EventIds,         \* values of x-razorpay-event-id
    NoId,             \* the header is absent
    NoPayment,        \* no payment id in the body, NULL in audit
    PipelineMayFail,  \* the adapter may reject, the pipeline may raise
    MaxCrashes        \* bound: server deaths in one behaviour

\* failed and captured have a transition, unhandled is any other event type,
\* scalar is JSON that is no object, malformed is no JSON.
Kinds == {"failed", "captured", "unhandled", "scalar", "malformed"}
HANDLED_EVENT_TYPES == {"failed", "captured"}

Delivery == [id : EventIds \cup {NoId}, payment : Payments \cup {NoPayment},
             kind : Kinds, signed : BOOLEAN]

ASSUME DeliveryAssumption == Deliveries \subseteq Delivery /\ Deliveries # {}
ASSUME NullAssumption ==
    NoId \notin EventIds /\ NoPayment \notin Payments /\ EventIds \cap Payments = {}
ASSUME SwitchAssumption == PipelineMayFail \in BOOLEAN /\ MaxCrashes \in Nat

VARIABLES
    raw,        \* webhook_events: the deliveries stored
    parsed,     \* webhook_events: ids with parsed_ok = 1
    events,     \* events: payment -> its row
    audit,      \* audit: rows
    decisions,  \* decisions: rows per payment
    acked,      \* deliveries the provider got a 200 for
    crashes,    \* server deaths so far
    pc, msg, existing    \* per server: step, request, status read

tables == <<raw, parsed, events, audit, decisions>>
locals == <<pc, msg, existing>>
vars == <<raw, parsed, events, audit, decisions, acked, crashes,
          pc, msg, existing>>

EventStatus == {"none", "failed", "captured", "recovered"}
Event == [status : EventStatus, first : EventIds \cup {NoId},
          last : EventIds \cup {NoId}]
NoEvent == [status |-> "none", first |-> NoId, last |-> NoId]
AuditActions == {"ingested", "outcome_observed", "duplicate_delivery",
                 "parse_failed", "unhandled_event_type", "decision"}
\* A decision is made against the ingested row, card_failure:<payment id>.
AuditRow == [payment : Payments \cup {NoPayment}, id : EventIds \cup Payments,
             action : AuditActions, again : BOOLEAN]
Steps == {"idle", "store", "duplicate", "parse", "unhandled", "read", "write",
          "log", "decide", "record"}
NoMessage == CHOOSE d \in Deliveries : TRUE   \* what an idle server holds
Payment(s) == msg[s].payment

TypeOK ==
    /\ raw \subseteq Deliveries
    /\ parsed \subseteq EventIds
    /\ events \in [Payments -> Event]
    /\ audit \subseteq AuditRow
    /\ decisions \in [Payments -> Nat]
    /\ acked \subseteq Deliveries
    /\ crashes \in 0..MaxCrashes
    /\ pc \in [Servers -> Steps]
    /\ msg \in [Servers -> Deliveries]
    /\ existing \in [Servers -> EventStatus]

Init ==
    /\ raw = {}
    /\ parsed = {}
    /\ events = [p \in Payments |-> NoEvent]
    /\ audit = {}
    /\ decisions = [p \in Payments |-> 0]
    /\ acked = {}
    /\ crashes = 0
    /\ pc = [s \in Servers |-> "idle"]
    /\ msg = [s \in Servers |-> NoMessage]
    /\ existing = [s \in Servers |-> "none"]

----------------------------------------------------------------------------
Goto(s, from, to) == pc[s] = from /\ pc' = [pc EXCEPT ![s] = to]

\* The handler is over: answered or dead, its locals are gone.
End(s) ==
    /\ pc' = [pc EXCEPT ![s] = "idle"]
    /\ msg' = [msg EXCEPT ![s] = NoMessage]
    /\ existing' = [existing EXCEPT ![s] = "none"]

\* The provider reads a 200, or an answer after which it will try again.
Answer200(s) == End(s) /\ acked' = acked \cup {msg[s]} /\ UNCHANGED crashes
AnswerError(s) == End(s) /\ UNCHANGED <<acked, crashes>>

\* The new row of an append_audit call; again if such a row is there already.
NewRow(p, id, action) ==
    [payment |-> p, id |-> id, action |-> action,
     again |-> \E r \in audit : r.payment = p /\ r.id = id /\ r.action = action]
AppendAudit(p, id, action) == audit' = audit \cup {NewRow(p, id, action)}

\* A request that fails the signature check is answered 401 and leaves no
\* trace, so only genuine ones get past verify_signature.
Receive(s, d) ==
    /\ d.signed
    /\ Goto(s, "idle", "store")
    /\ msg' = [msg EXCEPT ![s] = d]
    /\ UNCHANGED <<tables, acked, crashes, existing>>

\* event_id is UNIQUE, and NULL never equals NULL.
Stored(d) == d.id # NoId /\ \E r \in raw : r.id = d.id

\* Mutant: a repeated event id is no reason to stop.
StoreRaw_Again(s) ==
    /\ Goto(s, "store", "parse")
    /\ raw' = raw \cup {msg[s]}
    /\ UNCHANGED <<parsed, events, audit, decisions, acked, crashes,
                   msg, existing>>

StoreRaw(s) ==
    /\ Goto(s, "store", IF Stored(msg[s]) THEN "duplicate" ELSE "parse")
    /\ raw' = IF Stored(msg[s]) THEN raw ELSE raw \cup {msg[s]}
    /\ UNCHANGED <<parsed, events, audit, decisions, acked, crashes,
                   msg, existing>>

\* Mutant: a repeat is answered as an error.
LogDuplicate_Error(s) ==
    /\ pc[s] = "duplicate"
    /\ AppendAudit(NoPayment, msg[s].id, "duplicate_delivery")
    /\ AnswerError(s)
    /\ UNCHANGED <<raw, parsed, events, decisions>>

LogDuplicate(s) ==
    /\ pc[s] = "duplicate"
    /\ AppendAudit(NoPayment, msg[s].id, "duplicate_delivery")
    /\ Answer200(s)
    /\ UNCHANGED <<raw, parsed, events, decisions>>

FailParse(s) ==   \* 400
    /\ pc[s] = "parse" /\ msg[s].kind = "malformed"
    /\ IF msg[s].id = NoId THEN UNCHANGED audit
       ELSE AppendAudit(NoPayment, msg[s].id, "parse_failed")
    /\ AnswerError(s)
    /\ UNCHANGED <<raw, parsed, events, decisions>>

\* mark_parsed, then the shape of the payload decides what is next; one that
\* is no object raises, a 500.
MarkParsed(s) ==
    /\ pc[s] = "parse" /\ msg[s].kind # "malformed"
    /\ parsed' = parsed \cup ({msg[s].id} \ {NoId})
    /\ \/ /\ msg[s].kind = "scalar"
          /\ AnswerError(s)
       \/ /\ \/ msg[s].kind = "unhandled"
             \/ msg[s].kind # "scalar" /\ Payment(s) = NoPayment
          /\ IF msg[s].id = NoId THEN Answer200(s)
             ELSE Goto(s, "parse", "unhandled")
                  /\ UNCHANGED <<acked, crashes, msg, existing>>
       \/ /\ msg[s].kind \in HANDLED_EVENT_TYPES /\ Payment(s) # NoPayment
          /\ Goto(s, "parse", "read")
          /\ UNCHANGED <<acked, crashes, msg, existing>>
    /\ UNCHANGED <<raw, events, audit, decisions>>

LogUnhandled(s) ==
    /\ pc[s] = "unhandled"
    /\ AppendAudit(NoPayment, msg[s].id, "unhandled_event_type")
    /\ Answer200(s)
    /\ UNCHANGED <<raw, parsed, events, decisions>>

\* Mutant: the row is looked up by delivery, not by payment.
GetEvent_ByDelivery(s) ==
    /\ Goto(s, "read", "write")
    /\ existing' = [existing EXCEPT ![s] =
                       IF events[Payment(s)].last = msg[s].id
                       THEN events[Payment(s)].status ELSE "none"]
    /\ UNCHANGED <<tables, acked, crashes, msg>>

GetEvent(s) ==
    /\ Goto(s, "read", "write")
    /\ existing' = [existing EXCEPT ![s] = events[Payment(s)].status]
    /\ UNCHANGED <<tables, acked, crashes, msg>>

\* Mutant: INSERT OR REPLACE.
CreateEvent_Replaces(s) ==
    /\ existing[s] = "none"
    /\ Goto(s, "write", "log")
    /\ events' = [events EXCEPT ![Payment(s)] =
                    [status |-> msg[s].kind, first |-> msg[s].id,
                     last |-> msg[s].id]]
    /\ UNCHANGED <<raw, parsed, audit, decisions, acked, crashes,
                   msg, existing>>

\* INSERT OR IGNORE; whether a row was made is returned, and ignored.
CreateEvent(s) ==
    /\ existing[s] = "none"
    /\ Goto(s, "write", "log")
    /\ events' = IF events[Payment(s)] # NoEvent THEN events
                 ELSE [events EXCEPT ![Payment(s)] =
                         [status |-> msg[s].kind, first |-> msg[s].id,
                          last |-> msg[s].id]]
    /\ UNCHANGED <<raw, parsed, audit, decisions, acked, crashes,
                   msg, existing>>

\* Mutant: any second delivery of a failed payment is its recovery.
Recovers_Any(s) == existing[s] = "failed"

Recovers(s) == msg[s].kind = "captured" /\ existing[s] = "failed"

\* Mutant: every later event overwrites the status with its own.
UpdateEvent_Overwrites(s) ==
    /\ existing[s] # "none"
    /\ Goto(s, "write", "log")
    /\ events' = [events EXCEPT ![Payment(s)].last = msg[s].id,
                                ![Payment(s)].status = msg[s].kind]
    /\ UNCHANGED <<raw, parsed, audit, decisions, acked, crashes,
                   msg, existing>>

UpdateEvent(s) ==
    /\ existing[s] # "none"
    /\ Goto(s, "write", "log")
    /\ events' = [events EXCEPT ![Payment(s)].last = msg[s].id,
                                ![Payment(s)].status =
                                    IF Recovers(s) THEN "recovered" ELSE @]
    /\ UNCHANGED <<raw, parsed, audit, decisions, acked, crashes,
                   msg, existing>>

EventAction(s) ==
    CASE existing[s] = "none" -> "ingested"
      [] Recovers(s)          -> "outcome_observed"
      [] OTHER                -> "duplicate_delivery"
SettledFailed(s) == msg[s].kind = "failed" /\ existing[s] = "none"

LogEvent(s) ==
    /\ pc[s] = "log" /\ msg[s].id # NoId
    /\ AppendAudit(Payment(s), msg[s].id, EventAction(s))
    /\ IF SettledFailed(s)
       THEN Goto(s, "log", "decide")
            /\ UNCHANGED <<acked, crashes, msg, existing>>
       ELSE Answer200(s)
    /\ UNCHANGED <<raw, parsed, events, decisions>>

\* audit.event_id is NOT NULL: the insert raises, a 500 after the commit.
RaiseOnNullId(s) ==
    /\ pc[s] = "log" /\ msg[s].id = NoId
    /\ AnswerError(s)
    /\ UNCHANGED tables

\* process_failure returns the decision on record, if there is one ...
FindDecision(s) ==
    /\ pc[s] = "decide"
    /\ IF decisions[Payment(s)] > 0 THEN Answer200(s)
       ELSE Goto(s, "decide", "record")
            /\ UNCHANGED <<acked, crashes, msg, existing>>
    /\ UNCHANGED tables

\* ... and records one, with its audit row, if there is none.
RecordDecision(s) ==
    /\ pc[s] = "record"
    /\ decisions' = [decisions EXCEPT ![Payment(s)] = @ + 1]
    /\ AppendAudit(Payment(s), Payment(s), "decision")
    /\ Answer200(s)
    /\ UNCHANGED <<raw, parsed, events>>

\* _run_decision_pipeline logs a rejection or an exception; still a 200.
SwallowFailure(s) ==
    /\ PipelineMayFail
    /\ pc[s] \in {"decide", "record"}
    /\ Answer200(s)
    /\ UNCHANGED tables

Crash(s) ==
    /\ pc[s] # "idle" /\ crashes < MaxCrashes
    /\ crashes' = crashes + 1
    /\ End(s)
    /\ UNCHANGED <<tables, acked>>

----------------------------------------------------------------------------
Handle(s) ==
    \/ StoreRaw(s) \/ LogDuplicate(s) \/ FailParse(s) \/ MarkParsed(s)
    \/ LogUnhandled(s) \/ GetEvent(s) \/ CreateEvent(s) \/ UpdateEvent(s)
    \/ LogEvent(s) \/ RaiseOnNullId(s) \/ FindDecision(s)
    \/ RecordDecision(s) \/ SwallowFailure(s)

Next ==
    \E s \in Servers : \/ \E d \in Deliveries : Receive(s, d)
                       \/ Handle(s)
                       \/ Crash(s)

Spec == Init /\ [][Next]_vars

\* A handler that is not killed runs on, and the provider goes on sending a
\* delivery it has no 200 for until it finds a server that takes it.
Redeliver(d) == d \notin acked /\ \E s \in Servers : Receive(s, d)
FairSpec ==
    /\ Spec
    /\ \A s \in Servers : WF_vars(Handle(s))
    /\ \A d \in Deliveries : SF_vars(Redeliver(d))

----------------------------------------------------------------------------
(* What the tables promise.                                                *)

RowsOf(p) == {r \in audit : r.payment = p}
StoredKinds(p) == {d.kind : d \in {r \in raw : r.payment = p /\ r.signed}}

\* A payment's status is never ahead of the deliveries: a failed or captured
\* row needs such a delivery among the stored ones, a recovered row needs
\* both, whatever two servers read of each other and whenever one dies.
EventsAreWitnessed ==
    \A p \in Payments :
        CASE events[p].status = "none"      -> TRUE
          [] events[p].status = "recovered" -> {"failed", "captured"} \subseteq StoredKinds(p)
          [] OTHER                          -> events[p].status \in StoredKinds(p)

\* The audit trail never runs ahead of the events table (main.py commits the
\* event before its audit row): a payment with an audit row has an events
\* row, an outcome_observed row stands for a payment that is recovered, and
\* a decision row for a decision on record.
AuditFollowsEvents ==
    \A r \in audit :
        /\ r.payment # NoPayment => events[r.payment] # NoEvent
        /\ r.action = "outcome_observed" => events[r.payment].status = "recovered"
        /\ r.action = "decision" => decisions[r.payment] > 0

\* One delivery, one effect: an event id leaves at most one audit row of a
\* payment, however often and wherever it is resent.
HandledOnce ==
    \A id \in EventIds :
        Cardinality({r \in audit : r.id = id /\ r.payment # NoPayment}) <= 1

\* events.status only moves from nothing to failed or captured, and from
\* failed to recovered; a late failed delivery never takes a capture back.
StatusMovesForward ==
    [][\A p \in Payments :
          \/ events'[p].status = events[p].status
          \/ events[p].status = "none" /\ events'[p].status \in {"failed", "captured"}
          \/ events[p].status = "failed" /\ events'[p].status = "recovered"]_vars

\* A payment is ingested once: one ingested row, naming first_event_id.
OneFirstSighting ==
    \A p \in Payments :
        LET ingested == {r \in RowsOf(p) : r.action = "ingested"}
        IN  /\ Cardinality(ingested) <= 1
            /\ \A r \in ingested : r.id = events[p].first

\* Every acknowledged failure of a payment that was not captured before it
\* has a decision on record once no handler is at work.
FailuresAreDecided ==
    (\A s \in Servers : pc[s] = "idle") =>
        \A d \in acked : (d.kind = "failed" /\ d.payment # NoPayment)
            => decisions[d.payment] > 0 \/ events[d.payment].status = "captured"

\* Liveness: every delivery that carries an event id is acknowledged in the
\* end; an error answer is given once, the repeat is a duplicate, so nothing is
\* resent for ever.
EveryDeliveryAcked ==
    \A d \in Deliveries : (d.signed /\ d.id # NoId) => <>(d \in acked)
============================================================================
