--------------------------- MODULE WebhookProofs ---------------------------
(***************************************************************************)
(* The tables of the webhook receiver for any number of servers,           *)
(* deliveries, payments and deaths.                                        *)
(***************************************************************************)
EXTENDS Webhook, FiniteSetTheorems, TLAPS

\* Where a handler has its delivery on record, where it has the row of its
\* payment to write, and where it has written it.
Past == {"parse", "unhandled", "read", "write", "log", "decide", "record"}
Settling == {"read", "write", "log", "decide", "record"}
Written == {"log", "decide", "record"}
Logging == Past \ {"decide", "record"}   \* ... and is not done with its audit row

\* A handler holds a genuine delivery, which is stored once it is past the
\* dedupe, and one that names a payment once it settles it.
HandlersInv ==
    /\ \A r \in raw : r.signed
    /\ \A s \in Servers :
         /\ pc[s] # "idle" => msg[s].signed
         /\ pc[s] \in Past => msg[s] \in raw
         /\ pc[s] \in Settling => msg[s].kind \in HANDLED_EVENT_TYPES /\ Payment(s) \in Payments
         /\ pc[s] \in {"duplicate", "unhandled"} => msg[s].id # NoId

\* What a handler read may be stale, but only in the direction in which the
\* status moves; after its write the row is there, and recovered if the
\* handler takes it for recovered.
ReadsInv ==
    /\ \A p \in Payments : events[p].status = "none" => events[p] = NoEvent
    /\ \A s \in Servers :
         /\ pc[s] \in {"write"} \cup Written /\ existing[s] # "none" =>
                \/ events[Payment(s)].status = existing[s]
                \/ existing[s] = "failed" /\ events[Payment(s)].status = "recovered"
         /\ pc[s] \in Written => events[Payment(s)].status # "none"
         /\ pc[s] \in Written /\ Recovers(s) => events[Payment(s)].status = "recovered"

\* Rows about an outcome or a decision name a payment.
NamesInv ==
    \A r \in audit : r.action \in {"outcome_observed", "decision"} => r.payment \in Payments

\* An event id is handled by the one server that stored it; until that one
\* logs, no row of a payment carries the id, and afterwards the id is stored.
OnceInv ==
    /\ \A s, t \in Servers :
         s # t /\ pc[s] \in Past /\ pc[t] \in Past /\ msg[s].id = msg[t].id => msg[s].id = NoId
    /\ \A r \in audit : r.id \in EventIds /\ r.payment # NoPayment => \E d \in raw : d.id = r.id
    /\ \A s \in Servers, r \in audit :
         /\ pc[s] \in Logging
         /\ r.id = msg[s].id /\ r.payment # NoPayment
         => msg[s].id = NoId
    /\ \A q, r \in audit :
         /\ q.id \in EventIds /\ q.id = r.id
         /\ q.payment # NoPayment /\ r.payment # NoPayment
         => q = r

WebhookInv ==
    /\ TypeOK /\ HandlersInv /\ ReadsInv /\ EventsAreWitnessed
    /\ NamesInv /\ AuditFollowsEvents /\ OnceInv

\* With one server nothing comes between read and write: a handler that found
\* no row makes it, and is the first to log it.
FirstInv ==
    /\ \A s \in Servers :
         pc[s] = "write" /\ existing[s] = "none" => events[Payment(s)] = NoEvent
    /\ \A s \in Servers :
         pc[s] = "log" /\ existing[s] = "none" =>
             /\ events[Payment(s)].first = msg[s].id
             /\ \A r \in audit : ~(r.payment = Payment(s) /\ r.action = "ingested")
    /\ \A r \in audit : r.action = "ingested" =>
         /\ r.payment \in Payments /\ events[r.payment] # NoEvent
         /\ r.id = events[r.payment].first
    /\ \A q, r \in audit :
         q.action = "ingested" /\ r.action = "ingested" /\ q.payment = r.payment => q = r

----------------------------------------------------------------------------
(* Type correctness.                                                       *)

\* There is a delivery for an idle server's locals to hold.
LEMMA NoMessageType == NoMessage \in Deliveries
BY DeliveryAssumption DEF NoMessage

\* The parts of the request a server works on.
LEMMA MessageType ==
    ASSUME TypeOK, NEW s \in Servers
    PROVE  /\ msg[s] \in Deliveries
           /\ msg[s].id \in EventIds \cup {NoId}
           /\ Payment(s) \in Payments \cup {NoPayment}
           /\ msg[s].kind \in Kinds
           /\ existing[s] \in EventStatus
BY DeliveryAssumption DEF TypeOK, Delivery, Payment

\* The end of a handler leaves its locals well-typed.
LEMMA EndTypes ==
    ASSUME TypeOK, NEW s \in Servers, End(s)
    PROVE  /\ pc' \in [Servers -> Steps]
           /\ msg' \in [Servers -> Deliveries]
           /\ existing' \in [Servers -> EventStatus]
BY NoMessageType DEF TypeOK, End, Steps, EventStatus

\* So do both answers; the provider remembers a delivery it sent.
LEMMA AnswerTypes ==
    ASSUME TypeOK, NEW s \in Servers, Answer200(s) \/ AnswerError(s)
    PROVE  /\ pc' \in [Servers -> Steps]
           /\ msg' \in [Servers -> Deliveries]
           /\ existing' \in [Servers -> EventStatus]
           /\ acked' \subseteq Deliveries
           /\ crashes' \in 0..MaxCrashes
BY EndTypes DEF TypeOK, Answer200, AnswerError

\* append_audit keeps the table well-typed.
LEMMA AuditTypes ==
    ASSUME TypeOK, NEW p \in Payments \cup {NoPayment}, NEW id \in EventIds \cup Payments,
           NEW action \in AuditActions, AppendAudit(p, id, action)
    PROVE  audit' \subseteq AuditRow
<1>1. NewRow(p, id, action) \in AuditRow
  <2> DEFINE again == \E r \in audit : r.payment = p /\ r.id = id /\ r.action = action
  <2>1. again \in BOOLEAN
    OBVIOUS
  <2> HIDE DEF again
  <2>2. [payment |-> p, id |-> id, action |-> action, again |-> again] \in AuditRow
    BY <2>1 DEF AuditRow
  <2> QED BY <2>2 DEF again, NewRow
<1> QED BY <1>1 DEF TypeOK, AppendAudit

\* An empty database and idle servers are well-typed.
LEMMA TypeInit == Init => TypeOK
BY NoMessageType, SwitchAssumption
   DEF Init, TypeOK, NoEvent, Event, EventStatus, Steps

\* Every commit of the handler, a request and a death keep the types.
LEMMA TypeNext == TypeOK /\ HandlersInv /\ [Next]_vars => TypeOK'
<1> SUFFICES ASSUME TypeOK, HandlersInv, [Next]_vars PROVE TypeOK'
  OBVIOUS
<1>1. CASE UNCHANGED vars
  BY <1>1 DEF vars, TypeOK
<1>2. ASSUME NEW s \in Servers, NEW d \in Deliveries, Receive(s, d) PROVE TypeOK'
  BY <1>2 DEF Receive, Goto, TypeOK, tables, Steps
<1>3. ASSUME NEW s \in Servers, StoreRaw(s) PROVE TypeOK'
  <2>1. "duplicate" \in Steps /\ "parse" \in Steps
    BY DEF Steps
  <2>2. pc' \in [Servers -> Steps]
    BY <1>3, <2>1 DEF StoreRaw, Goto, TypeOK
  <2>3. raw' \subseteq Deliveries
    BY <1>3, MessageType DEF StoreRaw, TypeOK
  <2> QED BY <1>3, <2>2, <2>3 DEF StoreRaw, TypeOK
<1>4. ASSUME NEW s \in Servers, LogDuplicate(s) PROVE TypeOK'
  <2>1. msg[s].id \in EventIds
    BY <1>4, MessageType DEF LogDuplicate, HandlersInv
  <2>2. audit' \subseteq AuditRow
    BY <1>4, <2>1, AuditTypes DEF LogDuplicate, AuditActions
  <2> QED BY <1>4, <2>2, AnswerTypes DEF LogDuplicate, TypeOK
<1>5. ASSUME NEW s \in Servers, FailParse(s) PROVE TypeOK'
  <2>1. audit' \subseteq AuditRow
    BY <1>5, MessageType, AuditTypes DEF FailParse, AuditActions, TypeOK
  <2> QED BY <1>5, <2>1, AnswerTypes DEF FailParse, TypeOK
<1>6. ASSUME NEW s \in Servers, MarkParsed(s) PROVE TypeOK'
  <2>1. parsed' \subseteq EventIds /\ UNCHANGED <<raw, events, audit, decisions>>
    BY <1>6, MessageType DEF MarkParsed, TypeOK
  <2>2. \/ Answer200(s) \/ AnswerError(s)
        \/ /\ pc' = [pc EXCEPT ![s] = "unhandled"] \/ pc' = [pc EXCEPT ![s] = "read"]
           /\ UNCHANGED <<acked, crashes, msg, existing>>
    BY <1>6 DEF MarkParsed, Goto
  <2> QED BY <2>1, <2>2, AnswerTypes DEF TypeOK, Steps
<1>7. ASSUME NEW s \in Servers, LogUnhandled(s) PROVE TypeOK'
  <2>1. msg[s].id \in EventIds
    BY <1>7, MessageType DEF LogUnhandled, HandlersInv
  <2>2. audit' \subseteq AuditRow
    BY <1>7, <2>1, AuditTypes DEF LogUnhandled, AuditActions
  <2> QED BY <1>7, <2>2, AnswerTypes DEF LogUnhandled, TypeOK
<1>8. ASSUME NEW s \in Servers, GetEvent(s) PROVE TypeOK'
  <2>1. Payment(s) \in Payments
    BY <1>8 DEF GetEvent, Goto, HandlersInv, Settling
  <2>2. existing' \in [Servers -> EventStatus]
    BY <1>8, <2>1 DEF GetEvent, TypeOK, Event
  <2> QED BY <1>8, <2>2 DEF GetEvent, Goto, TypeOK, tables, Steps
<1>9. ASSUME NEW s \in Servers, CreateEvent(s) PROVE TypeOK'
  <2>1. msg[s].kind \in EventStatus
    BY <1>9 DEF CreateEvent, Goto, HandlersInv, Settling, EventStatus, HANDLED_EVENT_TYPES
  <2>2. [status |-> msg[s].kind, first |-> msg[s].id, last |-> msg[s].id] \in Event
    BY <2>1, MessageType DEF Event
  <2>3. events' \in [Payments -> Event]
    BY <1>9, <2>2 DEF CreateEvent, TypeOK
  <2> QED BY <1>9, <2>3 DEF CreateEvent, Goto, TypeOK, Steps
<1>10. ASSUME NEW s \in Servers, UpdateEvent(s) PROVE TypeOK'
  <2>1. "recovered" \in EventStatus
    BY DEF EventStatus
  <2>2. events' \in [Payments -> Event]
    BY <1>10, <2>1, MessageType DEF UpdateEvent, TypeOK, Event
  <2> QED BY <1>10, <2>2 DEF UpdateEvent, Goto, TypeOK, Steps
<1>11. ASSUME NEW s \in Servers, LogEvent(s) PROVE TypeOK'
  <2>1. EventAction(s) \in AuditActions
    BY DEF EventAction, AuditActions
  <2>2. audit' \subseteq AuditRow
    BY <1>11, <2>1, MessageType, AuditTypes DEF LogEvent
  <2>3. \/ Answer200(s)
        \/ pc' = [pc EXCEPT ![s] = "decide"] /\ UNCHANGED <<acked, crashes, msg, existing>>
    BY <1>11 DEF LogEvent, Goto
  <2> QED BY <1>11, <2>2, <2>3, AnswerTypes DEF LogEvent, TypeOK, Steps
<1>12. ASSUME NEW s \in Servers, RaiseOnNullId(s) PROVE TypeOK'
  BY <1>12, AnswerTypes DEF RaiseOnNullId, TypeOK, tables
<1>13. ASSUME NEW s \in Servers, FindDecision(s) PROVE TypeOK'
  <2>1. \/ Answer200(s)
        \/ pc' = [pc EXCEPT ![s] = "record"] /\ UNCHANGED <<acked, crashes, msg, existing>>
    BY <1>13 DEF FindDecision, Goto
  <2> QED BY <1>13, <2>1, AnswerTypes DEF FindDecision, TypeOK, tables, Steps
<1>14. ASSUME NEW s \in Servers, RecordDecision(s) PROVE TypeOK'
  <2>1. Payment(s) \in Payments
    BY <1>14 DEF RecordDecision, HandlersInv, Settling
  <2>2. audit' \subseteq AuditRow
    BY <1>14, <2>1, AuditTypes DEF RecordDecision, AuditActions
  <2>3. decisions' \in [Payments -> Nat]
    BY <1>14, <2>1 DEF RecordDecision, TypeOK
  <2> QED BY <1>14, <2>2, <2>3, AnswerTypes DEF RecordDecision, TypeOK
<1>15. ASSUME NEW s \in Servers, SwallowFailure(s) PROVE TypeOK'
  BY <1>15, AnswerTypes DEF SwallowFailure, TypeOK, tables
<1>16. ASSUME NEW s \in Servers, Crash(s) PROVE TypeOK'
  BY <1>16, EndTypes, SwitchAssumption DEF Crash, TypeOK, tables
<1> QED BY <1>1, <1>2, <1>3, <1>4, <1>5, <1>6, <1>7, <1>8, <1>9, <1>10, <1>11, <1>12,
           <1>13, <1>14, <1>15, <1>16 DEF Next, Handle

----------------------------------------------------------------------------
(* What a step does to the locals and to each table.                       *)

StepOf(s) == (\E d \in Deliveries : Receive(s, d)) \/ Handle(s) \/ Crash(s)

\* Passing from one step of the handler to the next.
Passes == {<<"parse", "unhandled">>, <<"parse", "read">>, <<"write", "log">>,
           <<"log", "decide">>, <<"decide", "record">>}

\* A step of one server leaves the others' locals alone; its own handler is
\* over, begins, stores or reads, or goes on with the locals it has.
LEMMA LocalSteps ==
    ASSUME TypeOK, NEW s \in Servers, StepOf(s)
    PROVE  /\ \A t \in Servers \ {s} : /\ pc'[t] = pc[t] /\ msg'[t] = msg[t]
                                       /\ existing'[t] = existing[t]
           /\ \/ pc'[s] = "idle"
              \/ \E d \in Deliveries : Receive(s, d)
              \/ StoreRaw(s) \/ GetEvent(s)
              \/ /\ msg'[s] = msg[s] /\ existing'[s] = existing[s]
                 /\ <<pc[s], pc'[s]>> \in Passes
<1>1. CASE \E d \in Deliveries : Receive(s, d)
  BY <1>1 DEF Receive, Goto, TypeOK
<1>2. CASE StoreRaw(s) \/ GetEvent(s)
  BY <1>2 DEF StoreRaw, GetEvent, Goto, TypeOK
<1>3. CASE Answer200(s) \/ AnswerError(s) \/ End(s)
  BY <1>3 DEF Answer200, AnswerError, End, TypeOK
<1>4. ASSUME NEW from, NEW to, <<from, to>> \in Passes, Goto(s, from, to),
             UNCHANGED <<msg, existing>>
      PROVE  /\ \A t \in Servers \ {s} : pc'[t] = pc[t]
             /\ <<pc[s], pc'[s]>> \in Passes
  BY <1>4 DEF Goto, TypeOK
<1>5. CASE MarkParsed(s)
  <2>1. \/ Answer200(s) \/ AnswerError(s)
        \/ /\ Goto(s, "parse", "unhandled") \/ Goto(s, "parse", "read")
           /\ UNCHANGED <<msg, existing>>
    BY <1>5 DEF MarkParsed
  <2> QED BY <2>1, <1>3, <1>4 DEF Passes
<1>6. CASE CreateEvent(s) \/ UpdateEvent(s)
  BY <1>6, <1>4 DEF CreateEvent, UpdateEvent, Passes
<1>7. CASE LogEvent(s)
  BY <1>7, <1>3, <1>4 DEF LogEvent, Passes
<1>8. CASE FindDecision(s)
  BY <1>8, <1>3, <1>4 DEF FindDecision, Passes
<1>9. CASE \/ LogDuplicate(s) \/ FailParse(s) \/ LogUnhandled(s) \/ RaiseOnNullId(s)
           \/ RecordDecision(s) \/ SwallowFailure(s) \/ Crash(s)
  BY <1>9, <1>3 DEF LogDuplicate, FailParse, LogUnhandled, RaiseOnNullId,
                    RecordDecision, SwallowFailure, Crash
<1> QED BY <1>1, <1>2, <1>5, <1>6, <1>7, <1>8, <1>9 DEF StepOf, Handle

\* webhook_events only grows, by genuine deliveries whose id is new.
LEMMA RawSteps ==
    ASSUME TypeOK, HandlersInv, [Next]_vars
    PROVE  \/ raw' = raw
           \/ \E s \in Servers : /\ StoreRaw(s) /\ ~Stored(msg[s])
                                /\ msg[s].signed /\ raw' = raw \cup {msg[s]}
<1>1. CASE UNCHANGED vars
  BY <1>1 DEF vars
<1>2. ASSUME NEW s \in Servers, StoreRaw(s)
      PROVE  \/ raw' = raw
             \/ ~Stored(msg[s]) /\ msg[s].signed /\ raw' = raw \cup {msg[s]}
  BY <1>2 DEF StoreRaw, Goto, HandlersInv
<1>3. ASSUME NEW s \in Servers, StepOf(s), ~StoreRaw(s) PROVE raw' = raw
  BY <1>3 DEF StepOf, Handle, Receive, LogDuplicate, FailParse, MarkParsed, LogUnhandled,
              GetEvent, CreateEvent, UpdateEvent, LogEvent, RaiseOnNullId, FindDecision,
              RecordDecision, SwallowFailure, Crash, tables
<1> QED BY <1>1, <1>2, <1>3 DEF Next, StepOf

\* So what was stored of a payment stays stored.
LEMMA StoredKindsGrow ==
    ASSUME TypeOK, HandlersInv, [Next]_vars, NEW p \in Payments
    PROVE  StoredKinds(p) \subseteq StoredKinds(p)'
<1>1. raw \subseteq raw'
  BY RawSteps
<1> QED BY <1>1 DEF StoredKinds

\* A genuine stored delivery shows among the kinds of its payment.
LEMMA StoredKind ==
    ASSUME HandlersInv, NEW s \in Servers, pc[s] \in Past
    PROVE  msg[s].kind \in StoredKinds(Payment(s))
BY DEF HandlersInv, StoredKinds, Payment

\* No handler is at work in the empty database, and nothing is stored in it.
LEMMA HandlersInit == Init => HandlersInv
BY DEF Init, HandlersInv, Past, Settling

\* The checks stand before what they guard: signature, dedupe, event type and
\* payment (main.py:95-147).
LEMMA HandlersNext == TypeOK /\ HandlersInv /\ [Next]_vars => HandlersInv'
<1> SUFFICES ASSUME TypeOK, HandlersInv, [Next]_vars PROVE HandlersInv'
  OBVIOUS
<1>1. raw \subseteq raw' /\ \A r \in raw' : r.signed
  BY RawSteps DEF HandlersInv
<1>2. CASE UNCHANGED vars
  BY <1>2 DEF vars, HandlersInv, Payment
<1>3. ASSUME NEW s \in Servers, StepOf(s) PROVE HandlersInv'
  <2> DEFINE Good(t) ==
        /\ pc'[t] # "idle" => msg'[t].signed
        /\ pc'[t] \in Past => msg'[t] \in raw'
        /\ pc'[t] \in Settling => msg'[t].kind \in HANDLED_EVENT_TYPES /\ msg'[t].payment \in Payments
        /\ pc'[t] \in {"duplicate", "unhandled"} => msg'[t].id # NoId
  <2>1. \A t \in Servers \ {s} : Good(t)
    BY <1>1, <1>3, LocalSteps DEF HandlersInv, Payment
  <2>2. ASSUME pc'[s] = "idle" PROVE Good(s)
    BY <2>2 DEF Past, Settling
  <2>3. ASSUME \E d \in Deliveries : Receive(s, d) PROVE Good(s)
    BY <2>3 DEF Receive, Goto, TypeOK, Past, Settling
  <2>4. ASSUME StoreRaw(s) PROVE Good(s)
    <3>1. msg' = msg /\ msg[s].signed
      BY <2>4 DEF StoreRaw, Goto, HandlersInv
    <3>2. CASE Stored(msg[s])
      BY <2>4, <3>1, <3>2 DEF StoreRaw, Goto, TypeOK, Stored, Past, Settling
    <3>3. CASE ~Stored(msg[s])
      BY <2>4, <3>1, <3>3 DEF StoreRaw, Goto, TypeOK, Past, Settling
    <3> QED BY <3>2, <3>3
  <2>5. ASSUME GetEvent(s) PROVE Good(s)
    BY <2>5, <1>1 DEF GetEvent, Goto, TypeOK, HandlersInv, Past, Settling, Payment
  <2>6. ASSUME msg'[s] = msg[s], <<pc[s], pc'[s]>> \in Passes PROVE Good(s)
    <3>1. CASE pc[s] = "parse"
      <4>1. MarkParsed(s)
        BY <1>3, <3>1, <2>6
           DEF StepOf, Handle, Receive, StoreRaw, LogDuplicate, FailParse, LogUnhandled,
               GetEvent, CreateEvent, UpdateEvent, LogEvent, RaiseOnNullId, FindDecision,
               RecordDecision, SwallowFailure, Crash, Goto, AnswerError, End, TypeOK, Passes
      <4>2. \/ pc'[s] = "unhandled" /\ msg[s].id # NoId
            \/ /\ pc'[s] = "read" /\ msg[s].kind \in HANDLED_EVENT_TYPES
               /\ Payment(s) # NoPayment
        BY <4>1, <2>6 DEF MarkParsed, Goto, Answer200, AnswerError, End, TypeOK, Passes
      <4> QED BY <2>6, <3>1, <4>2, <1>1, MessageType
              DEF HandlersInv, Past, Settling, Payment
    <3>2. CASE pc[s] # "parse"
      BY <2>6, <3>2, <1>1 DEF HandlersInv, Passes, Past, Settling, Payment
    <3> QED BY <3>1, <3>2
  <2>7. Good(s)
    BY <1>3, LocalSteps, <2>2, <2>3, <2>4, <2>5, <2>6
  <2> QED BY <1>1, <2>1, <2>7 DEF HandlersInv, Payment
<1> QED BY <1>2, <1>3 DEF Next, StepOf

----------------------------------------------------------------------------
(* The events table.                                                       *)

\* Created: by CreateEvent of s, where there was no row.
Creates(s) ==
    /\ pc[s] = "write" /\ existing[s] = "none" /\ events[Payment(s)] = NoEvent
    /\ events' = [events EXCEPT ![Payment(s)] =
                    [status |-> msg[s].kind, first |-> msg[s].id, last |-> msg[s].id]]

\* Updated: by UpdateEvent of s, which read a row.
Updates(s) ==
    /\ pc[s] = "write" /\ existing[s] # "none"
    /\ \A p \in Payments \ {Payment(s)} : events'[p] = events[p]
    /\ events'[Payment(s)].status =
          IF Recovers(s) THEN "recovered" ELSE events[Payment(s)].status
    /\ events'[Payment(s)].first = events[Payment(s)].first

\* No other step writes the table.
LEMMA EventSteps ==
    ASSUME TypeOK, HandlersInv, [Next]_vars
    PROVE  \/ events' = events
           \/ \E s \in Servers : StepOf(s) /\ (Creates(s) \/ Updates(s))
<1>1. CASE UNCHANGED vars
  BY <1>1 DEF vars
<1>2. ASSUME NEW s \in Servers, CreateEvent(s) PROVE events' = events \/ Creates(s)
  BY <1>2 DEF CreateEvent, Creates, Goto
<1>3. ASSUME NEW s \in Servers, UpdateEvent(s) PROVE Updates(s)
  <2>1. Payment(s) \in Payments
    BY <1>3 DEF UpdateEvent, Goto, HandlersInv, Settling
  <2> QED BY <1>3, <2>1 DEF UpdateEvent, Updates, Goto, TypeOK, Event
<1>4. ASSUME NEW s \in Servers, StepOf(s), ~CreateEvent(s), ~UpdateEvent(s)
      PROVE  events' = events
  BY <1>4 DEF StepOf, Handle, Receive, StoreRaw, LogDuplicate, FailParse, MarkParsed,
              LogUnhandled, GetEvent, LogEvent, RaiseOnNullId, FindDecision,
              RecordDecision, SwallowFailure, Crash, tables
<1> QED BY <1>1, <1>2, <1>3, <1>4 DEF Next, StepOf

\* What that means for one payment: its row stays, is created with the kind
\* of a stored delivery, keeps its status, or is recovered after a failure by
\* a stored capture; a row that is there keeps its first event id.
LEMMA RowSteps ==
    ASSUME TypeOK, HandlersInv, ReadsInv, [Next]_vars, NEW p \in Payments
    PROVE  /\ \/ events'[p] = events[p]
              \/ /\ events[p] = NoEvent
                 /\ events'[p].status \in {"failed", "captured"} \cap StoredKinds(p)
              \/ /\ events'[p].status = events[p].status
                 /\ events[p].status # "none"
              \/ /\ events[p].status = "failed" /\ events'[p].status = "recovered"
                 /\ "captured" \in StoredKinds(p)
           /\ events[p] # NoEvent => events'[p].first = events[p].first
<1>1. CASE events' = events
  BY <1>1
<1>2. ASSUME NEW s \in Servers, Creates(s) \/ Updates(s), Payment(s) # p
      PROVE  events'[p] = events[p]
  BY <1>2 DEF Creates, Updates, TypeOK
<1>3. ASSUME NEW s \in Servers, Creates(s), Payment(s) = p
      PROVE  /\ events[p] = NoEvent
             /\ events'[p].status \in {"failed", "captured"} \cap StoredKinds(p)
  <2>1. pc[s] \in Past /\ msg[s].kind \in HANDLED_EVENT_TYPES
    BY <1>3 DEF Creates, HandlersInv, Settling, Past
  <2>2. msg[s].kind \in StoredKinds(p)
    BY <2>1, <1>3, StoredKind
  <2> QED BY <1>3, <2>1, <2>2 DEF Creates, HANDLED_EVENT_TYPES, TypeOK
<1>4. ASSUME NEW s \in Servers, Updates(s), Payment(s) = p
      PROVE  /\ \/ /\ events'[p].status = events[p].status
                    /\ events[p].status # "none"
                \/ /\ events[p].status = "failed" /\ events'[p].status = "recovered"
                   /\ "captured" \in StoredKinds(p)
             /\ events'[p].first = events[p].first
  <2>1. /\ pc[s] \in Past
        /\ \/ events[p].status = existing[s]
           \/ existing[s] = "failed" /\ events[p].status = "recovered"
        /\ existing[s] # "none"
    BY <1>4 DEF Updates, ReadsInv, Past
  <2>2. msg[s].kind \in StoredKinds(p)
    BY <2>1, <1>4, StoredKind
  <2>3. /\ events'[p].status = IF Recovers(s) THEN "recovered" ELSE events[p].status
        /\ events'[p].first = events[p].first
    BY <1>4 DEF Updates, TypeOK
  <2> QED BY <2>1, <2>2, <2>3 DEF Recovers
<1> QED BY <1>1, <1>2, <1>3, <1>4, EventSteps

\* The empty table is witnessed, and nothing was read of it.
LEMMA EventsInit == Init => ReadsInv /\ EventsAreWitnessed
BY DEF Init, ReadsInv, Written, EventsAreWitnessed, NoEvent

\* Every status a step leaves behind is witnessed by stored deliveries.
LEMMA WitnessedNext ==
    TypeOK /\ HandlersInv /\ ReadsInv /\ EventsAreWitnessed /\ [Next]_vars
        => EventsAreWitnessed'
<1> SUFFICES ASSUME TypeOK, HandlersInv, ReadsInv, EventsAreWitnessed, [Next]_vars,
                    NEW p \in Payments
             PROVE  CASE events'[p].status = "none"      -> TRUE
                      [] events'[p].status = "recovered" ->
                             {"failed", "captured"} \subseteq StoredKinds(p)'
                      [] OTHER -> events'[p].status \in StoredKinds(p)'
  BY DEF EventsAreWitnessed
<1>1. StoredKinds(p) \subseteq StoredKinds(p)'
  BY StoredKindsGrow
<1>2. /\ events[p].status = "recovered" => {"failed", "captured"} \subseteq StoredKinds(p)
      /\ events[p].status \notin {"none", "recovered"} => events[p].status \in StoredKinds(p)
  BY DEF EventsAreWitnessed
<1>3. \/ events'[p].status = events[p].status
      \/ events'[p].status \in {"failed", "captured"} \cap StoredKinds(p)
      \/ /\ events[p].status = "failed" /\ events'[p].status = "recovered"
         /\ "captured" \in StoredKinds(p)
  BY RowSteps
<1> QED BY <1>1, <1>2, <1>3

\* What was read stays a status the row has been in.
LEMMA ReadsNext ==
    TypeOK /\ HandlersInv /\ ReadsInv /\ [Next]_vars => ReadsInv'
<1> SUFFICES ASSUME TypeOK, HandlersInv, ReadsInv, [Next]_vars PROVE ReadsInv'
  OBVIOUS
<1> DEFINE Good(t) ==
      /\ pc'[t] \in {"write"} \cup Written /\ existing'[t] # "none" =>
            \/ events'[msg'[t].payment].status = existing'[t]
            \/ existing'[t] = "failed" /\ events'[msg'[t].payment].status = "recovered"
      /\ pc'[t] \in Written => events'[msg'[t].payment].status # "none"
      /\ pc'[t] \in Written /\ msg'[t].kind = "captured" /\ existing'[t] = "failed"
            => events'[msg'[t].payment].status = "recovered"
<1>1. \A p \in Payments : events'[p].status = "none" => events'[p] = NoEvent
  BY RowSteps DEF ReadsInv, NoEvent
<1>2. ASSUME NEW t \in Servers, pc'[t] = pc[t], msg'[t] = msg[t], existing'[t] = existing[t]
      PROVE  Good(t)
  <2>1. CASE pc[t] \in {"write"} \cup Written
    <3>1. Payment(t) \in Payments
      BY <2>1 DEF HandlersInv, Settling, Written
    <3>2. \/ events'[Payment(t)].status = events[Payment(t)].status
          \/ events[Payment(t)] = NoEvent /\ events'[Payment(t)].status # "none"
          \/ /\ events[Payment(t)].status = "failed"
             /\ events'[Payment(t)].status = "recovered"
      BY <3>1, RowSteps
    <3> QED BY <1>2, <3>2 DEF ReadsInv, Recovers, Payment, NoEvent
  <2>2. CASE pc[t] \notin {"write"} \cup Written
    BY <1>2, <2>2
  <2> QED BY <2>1, <2>2
<1>3. ASSUME NEW s \in Servers, StepOf(s) PROVE Good(s)
  <2>1. CASE pc'[s] \notin {"write"} \cup Written
    BY <2>1
  <2>2. CASE GetEvent(s)
    BY <2>2 DEF GetEvent, Goto, TypeOK, tables, Payment, Written
  <2>3. CASE msg'[s] = msg[s] /\ existing'[s] = existing[s] /\ <<pc[s], pc'[s]>> \in Passes
    <3>1. CASE pc[s] = "write"
      <4>1. Payment(s) \in Payments /\ msg[s].kind \in HANDLED_EVENT_TYPES
        BY <3>1 DEF HandlersInv, Settling
      <4>2. CreateEvent(s) \/ UpdateEvent(s)
        BY <1>3, <3>1, <2>3
           DEF StepOf, Handle, Receive, StoreRaw, LogDuplicate, FailParse, MarkParsed,
               LogUnhandled, GetEvent, LogEvent, RaiseOnNullId, FindDecision,
               RecordDecision, SwallowFailure, Crash, Goto, End, TypeOK, Passes
      <4>3. ASSUME CreateEvent(s) PROVE Good(s)
        <5>1. existing[s] = "none" /\ events'[Payment(s)].status # "none"
          BY <4>1, <4>3 DEF CreateEvent, TypeOK, ReadsInv, HANDLED_EVENT_TYPES
        <5> QED BY <2>3, <5>1 DEF Payment
      <4>4. ASSUME UpdateEvent(s) PROVE Good(s)
        <5>1. /\ existing[s] # "none"
              /\ events'[Payment(s)].status =
                    IF Recovers(s) THEN "recovered" ELSE events[Payment(s)].status
          BY <4>1, <4>4 DEF UpdateEvent, TypeOK, Event
        <5>2. \/ events[Payment(s)].status = existing[s]
              \/ existing[s] = "failed" /\ events[Payment(s)].status = "recovered"
          BY <3>1, <5>1 DEF ReadsInv
        <5> QED BY <2>3, <5>1, <5>2 DEF Payment, Recovers
      <4> QED BY <4>2, <4>3, <4>4
    <3>2. CASE pc[s] \in Written
      <4>1. Payment(s) \in Payments
        BY <3>2 DEF HandlersInv, Settling, Written
      <4>2. \/ events'[Payment(s)].status = events[Payment(s)].status
            \/ events[Payment(s)] = NoEvent /\ events'[Payment(s)].status # "none"
            \/ /\ events[Payment(s)].status = "failed"
               /\ events'[Payment(s)].status = "recovered"
        BY <4>1, RowSteps
      <4> QED BY <2>3, <3>2, <4>2 DEF ReadsInv, Recovers, Payment, NoEvent
    <3> QED BY <2>1, <2>3, <3>1, <3>2 DEF Passes, Written
  <2> QED BY <1>3, LocalSteps, <2>1, <2>2, <2>3 DEF Receive, StoreRaw, Goto, TypeOK, Written
<1>4. CASE UNCHANGED vars
  BY <1>4 DEF vars, ReadsInv, Recovers, Payment
<1>5. ASSUME NEW s \in Servers, StepOf(s) PROVE \A t \in Servers : Good(t)
  BY <1>2, <1>3, <1>5, LocalSteps
<1>6. CASE \E s \in Servers : StepOf(s)
  BY <1>1, <1>5, <1>6 DEF ReadsInv, Recovers, Payment
<1> QED BY <1>4, <1>6 DEF Next, StepOf

----------------------------------------------------------------------------
(* The audit trail.                                                        *)

\* A step adds no row, one about a delivery that names no payment, the row of
\* an event (a step that leaves the other tables alone), or a decision's.
LEMMA AuditSteps ==
    ASSUME TypeOK, [Next]_vars
    PROVE  \/ audit' = audit
           \/ \E s \in Servers,
                 action \in {"duplicate_delivery", "parse_failed", "unhandled_event_type"} :
                 audit' = audit \cup {NewRow(NoPayment, msg[s].id, action)}
           \/ \E s \in Servers :
                 /\ LogEvent(s) /\ UNCHANGED <<raw, events, decisions>>
                 /\ audit' = audit \cup {NewRow(Payment(s), msg[s].id, EventAction(s))}
           \/ \E s \in Servers :
                 /\ RecordDecision(s) /\ UNCHANGED <<raw, events>>
                 /\ audit' = audit \cup {NewRow(Payment(s), Payment(s), "decision")}
<1> USE DEF AppendAudit
<1>1. CASE UNCHANGED vars
  BY <1>1 DEF vars
<1>2. ASSUME NEW s \in Servers, LogDuplicate(s) \/ FailParse(s) \/ LogUnhandled(s)
      PROVE  \/ audit' = audit
             \/ \E action \in {"duplicate_delivery", "parse_failed", "unhandled_event_type"} :
                   audit' = audit \cup {NewRow(NoPayment, msg[s].id, action)}
  BY <1>2 DEF LogDuplicate, FailParse, LogUnhandled
<1>3. ASSUME NEW s \in Servers, LogEvent(s)
      PROVE  /\ UNCHANGED <<raw, events, decisions>>
             /\ audit' = audit \cup {NewRow(Payment(s), msg[s].id, EventAction(s))}
  BY <1>3 DEF LogEvent
<1>4. ASSUME NEW s \in Servers, RecordDecision(s)
      PROVE  /\ UNCHANGED <<raw, events>>
             /\ audit' = audit \cup {NewRow(Payment(s), Payment(s), "decision")}
  BY <1>4 DEF RecordDecision
<1>5. ASSUME NEW s \in Servers, StepOf(s),
             ~ (LogDuplicate(s) \/ FailParse(s) \/ LogUnhandled(s)),
             ~ LogEvent(s), ~ RecordDecision(s)
      PROVE  audit' = audit
  BY <1>5 DEF StepOf, Handle, Receive, StoreRaw, MarkParsed, GetEvent, CreateEvent,
              UpdateEvent, RaiseOnNullId, FindDecision, SwallowFailure, Crash, tables
<1> QED BY <1>1, <1>2, <1>3, <1>4, <1>5 DEF Next, StepOf

\* A decision on record is not taken back.
LEMMA DecisionsStay ==
    ASSUME TypeOK, [Next]_vars, NEW p \in Payments, decisions[p] > 0
    PROVE  decisions'[p] > 0
<1>1. CASE UNCHANGED vars
  BY <1>1 DEF vars
<1>2. ASSUME NEW s \in Servers, RecordDecision(s) PROVE decisions'[p] > 0
  BY <1>2 DEF RecordDecision, TypeOK
<1>3. ASSUME NEW s \in Servers, StepOf(s), ~ RecordDecision(s) PROVE decisions' = decisions
  BY <1>3 DEF StepOf, Handle, Receive, StoreRaw, LogDuplicate, FailParse, MarkParsed,
              LogUnhandled, GetEvent, CreateEvent, UpdateEvent, LogEvent, RaiseOnNullId,
              FindDecision, SwallowFailure, Crash, tables
<1> QED BY <1>1, <1>2, <1>3 DEF Next, StepOf

LEMMA AuditInit == Init => NamesInv /\ AuditFollowsEvents /\ OnceInv
BY DEF Init, NamesInv, AuditFollowsEvents, OnceInv, Past, Logging

\* A row is added when what it tells is in the tables, and those do not go
\* back behind it.
LEMMA AuditNext ==
    /\ TypeOK /\ HandlersInv /\ ReadsInv /\ NamesInv /\ AuditFollowsEvents
    /\ [Next]_vars
    => NamesInv' /\ AuditFollowsEvents'
<1> SUFFICES ASSUME TypeOK, HandlersInv, ReadsInv, NamesInv, AuditFollowsEvents,
                    [Next]_vars, NEW r \in audit'
             PROVE  /\ r.action \in {"outcome_observed", "decision"} => r.payment \in Payments
                    /\ r.payment # NoPayment => events'[r.payment] # NoEvent
                    /\ r.action = "outcome_observed" => events'[r.payment].status = "recovered"
                    /\ r.action = "decision" => decisions'[r.payment] > 0
  BY DEF NamesInv, AuditFollowsEvents
<1> USE DEF NewRow
<1>1. CASE r \in audit
  <2>1. r.payment \in Payments \cup {NoPayment}
    BY <1>1 DEF TypeOK, AuditRow
  <2>2. CASE r.payment = NoPayment
    BY <1>1, <2>2, NullAssumption DEF NamesInv
  <2>3. CASE r.payment \in Payments
    <3>1. /\ events[r.payment] # NoEvent
          /\ r.action = "outcome_observed" => events[r.payment].status = "recovered"
          /\ r.action = "decision" => decisions[r.payment] > 0
      BY <1>1, <2>3, NullAssumption DEF AuditFollowsEvents
    <3>2. events'[r.payment] # NoEvent
      BY <2>3, <3>1, RowSteps DEF ReadsInv, NoEvent
    <3>3. events[r.payment].status = "recovered" => events'[r.payment].status = "recovered"
      BY <2>3, <3>1, RowSteps
    <3>4. r.action = "decision" => decisions'[r.payment] > 0
      BY <2>3, <3>1, DecisionsStay
    <3> QED BY <2>3, <3>1, <3>2, <3>3, <3>4
  <2> QED BY <2>1, <2>2, <2>3
<1>2. ASSUME NEW s \in Servers,
             NEW action \in {"duplicate_delivery", "parse_failed", "unhandled_event_type"},
             r = NewRow(NoPayment, msg[s].id, action)
      PROVE  r.payment = NoPayment /\ r.action \notin {"outcome_observed", "decision"}
  BY <1>2
<1>3. ASSUME NEW s \in Servers, LogEvent(s), UNCHANGED <<raw, events, decisions>>,
             r = NewRow(Payment(s), msg[s].id, EventAction(s))
      PROVE  /\ r.payment \in Payments /\ events'[r.payment] # NoEvent
             /\ r.action = "outcome_observed" => events'[r.payment].status = "recovered"
             /\ r.action # "decision"
  <2>1. pc[s] = "log"
    BY <1>3 DEF LogEvent
  <2>2. Payment(s) \in Payments /\ events[Payment(s)].status # "none"
    BY <2>1 DEF HandlersInv, ReadsInv, Settling, Written
  <2>3. EventAction(s) = "outcome_observed" => Recovers(s)
    BY DEF EventAction
  <2>4. EventAction(s) # "decision"
    BY DEF EventAction
  <2> QED BY <1>3, <2>1, <2>2, <2>3, <2>4 DEF ReadsInv, Written, NoEvent
<1>4. ASSUME NEW s \in Servers, RecordDecision(s), UNCHANGED <<raw, events>>,
             r = NewRow(Payment(s), Payment(s), "decision")
      PROVE  /\ r.payment \in Payments /\ events'[r.payment] # NoEvent
             /\ r.action = "decision" /\ decisions'[r.payment] > 0
  <2>1. pc[s] = "record"
    BY <1>4 DEF RecordDecision
  <2>2. Payment(s) \in Payments /\ events[Payment(s)].status # "none"
    BY <2>1 DEF HandlersInv, ReadsInv, Settling, Written
  <2>3. decisions'[Payment(s)] = decisions[Payment(s)] + 1 /\ decisions[Payment(s)] \in Nat
    BY <1>4, <2>2 DEF RecordDecision, TypeOK
  <2> QED BY <1>4, <2>2, <2>3 DEF NoEvent
<1> QED BY <1>1, <1>2, <1>3, <1>4, AuditSteps

\* A server gets past the dedupe with an id nobody had stored, and then goes
\* on with it.
LEMMA PastSteps ==
    ASSUME TypeOK, NEW s \in Servers, StepOf(s), pc'[s] \in Past
    PROVE  /\ msg'[s] = msg[s]
           /\ \/ pc[s] \in Past /\ (pc'[s] \in Logging => pc[s] \in Logging)
              \/ StoreRaw(s) /\ ~Stored(msg[s])
<1>1. CASE \E d \in Deliveries : Receive(s, d)
  BY <1>1 DEF Receive, Goto, TypeOK, Past
<1>2. CASE StoreRaw(s)
  BY <1>2 DEF StoreRaw, Goto, TypeOK, Past
<1>3. CASE GetEvent(s)
  BY <1>3 DEF GetEvent, Goto, TypeOK, Past, Logging
<1>4. CASE msg'[s] = msg[s] /\ <<pc[s], pc'[s]>> \in Passes
  BY <1>4 DEF Passes, Past, Logging
<1> QED BY <1>1, <1>2, <1>3, <1>4, LocalSteps DEF Past

\* The UNIQUE event id of webhook_events lets one server handle an id.
LEMMA OnceNext ==
    TypeOK /\ HandlersInv /\ OnceInv /\ [Next]_vars => OnceInv'
<1> SUFFICES ASSUME TypeOK, HandlersInv, OnceInv, [Next]_vars PROVE OnceInv'
  OBVIOUS
<1> USE DEF NewRow
<1>1. CASE UNCHANGED vars
  BY <1>1 DEF vars, OnceInv
<1>2. ASSUME NEW u \in Servers, StepOf(u) PROVE OnceInv'
  <2>1. ASSUME NEW t \in Servers, t # u
        PROVE  pc'[t] = pc[t] /\ msg'[t] = msg[t]
    BY <1>2, <2>1, LocalSteps
  <2>2. ASSUME NEW t \in Servers, pc'[t] \in Past
        PROVE  /\ msg'[t] = msg[t]
               /\ \/ pc[t] \in Past /\ (pc'[t] \in Logging => pc[t] \in Logging)
                  \/ t = u /\ \A d \in raw : d.id = msg[t].id => d.id = NoId
    BY <1>2, <2>1, <2>2, PastSteps DEF Stored
  <2>3. ASSUME NEW s \in Servers, NEW t \in Servers, s # t,
               pc'[s] \in Past, pc'[t] \in Past, msg'[s].id = msg'[t].id
        PROVE  msg'[s].id = NoId
    <3>1. CASE pc[s] \in Past /\ pc[t] \in Past
      BY <2>2, <2>3, <3>1 DEF OnceInv
    <3>2. ASSUME NEW a \in Servers, NEW b \in Servers, a # b, a = u,
                 pc'[a] \in Past, pc'[b] \in Past, msg'[a].id = msg'[b].id,
                 pc[a] \notin Past
          PROVE  msg'[a].id = NoId
      <4>1. msg[b] \in raw /\ msg'[b] = msg[b] /\ msg'[a] = msg[a]
        BY <2>1, <2>2, <3>2 DEF HandlersInv
      <4> QED BY <2>2, <3>2, <4>1
    <3> QED BY <2>2, <2>3, <3>1, <3>2
  <2>4. raw \subseteq raw'
    BY RawSteps
  <2>5. ASSUME NEW r \in audit', r.id \in EventIds, r.payment # NoPayment
        PROVE  \/ r \in audit
               \/ \E s \in Servers : /\ LogEvent(s) /\ pc[s] = "log" /\ s = u
                                    /\ pc'[s] \in {"idle", "decide"}
                                    /\ r = NewRow(Payment(s), msg[s].id, EventAction(s))
    <3>1. ASSUME NEW s \in Servers, LogEvent(s)
          PROVE  pc[s] = "log" /\ s = u /\ pc'[s] \in {"idle", "decide"}
      <4>1. pc[s] = "log" /\ pc'[s] \in {"idle", "decide"}
        BY <3>1 DEF LogEvent, Goto, Answer200, End, TypeOK
      <4> QED BY <2>1, <4>1
    <3>2. ASSUME NEW s \in Servers, RecordDecision(s)
          PROVE  Payment(s) \in Payments
      BY <3>2 DEF RecordDecision, HandlersInv, Settling
    <3> QED BY <2>5, <3>1, <3>2, AuditSteps, NullAssumption
  <2>6. ASSUME NEW r \in audit', r.id \in EventIds, r.payment # NoPayment
        PROVE  \E d \in raw' : d.id = r.id
    <3>1. CASE r \in audit
      BY <2>4, <2>6, <3>1 DEF OnceInv
    <3>2. ASSUME NEW s \in Servers, pc[s] = "log",
                 r = NewRow(Payment(s), msg[s].id, EventAction(s))
          PROVE  msg[s] \in raw /\ msg[s].id = r.id
      BY <3>2 DEF HandlersInv, Past
    <3> QED BY <2>4, <2>5, <2>6, <3>1, <3>2
  <2>7. ASSUME NEW t \in Servers, NEW r \in audit', pc'[t] \in Logging,
               r.id = msg'[t].id, r.payment # NoPayment
        PROVE  msg'[t].id = NoId
    <3>1. SUFFICES ASSUME msg'[t].id # NoId PROVE FALSE
      OBVIOUS
    <3>2. pc'[t] \in Past /\ msg'[t] = msg[t]
      BY <2>2, <2>7 DEF Logging
    <3>3. r.id \in EventIds
      BY <2>7, <3>1, <3>2, MessageType
    <3>4. CASE r \in audit /\ pc[t] \in Logging
      BY <2>7, <3>1, <3>2, <3>4 DEF OnceInv
    <3>5. CASE r \in audit /\ pc[t] \notin Logging
      <4>1. \A d \in raw : d.id = msg[t].id => d.id = NoId
        BY <2>2, <2>7, <3>2, <3>5
      <4>2. \E d \in raw : d.id = r.id
        BY <2>7, <3>3, <3>5 DEF OnceInv
      <4> QED BY <2>7, <3>1, <3>2, <4>1, <4>2
    <3>6. CASE r \notin audit
      <4>1. PICK s \in Servers : /\ pc[s] = "log" /\ s = u /\ pc'[s] \in {"idle", "decide"}
                                 /\ r = NewRow(Payment(s), msg[s].id, EventAction(s))
        BY <2>5, <2>7, <3>3, <3>6
      <4>2. t # s /\ pc[s] \in Past /\ pc[t] \in Past
        BY <2>1, <2>7, <3>2, <4>1 DEF Logging, Past
      <4> QED BY <2>7, <3>1, <3>2, <4>1, <4>2 DEF OnceInv
    <3> QED BY <3>4, <3>5, <3>6
  <2>8. ASSUME NEW q \in audit', NEW r \in audit', q.id \in EventIds, q.id = r.id,
               q.payment # NoPayment, r.payment # NoPayment
        PROVE  q = r
    <3>1. ASSUME NEW a \in audit, NEW b \in audit', b \notin audit, a.id = b.id,
                 a.id \in EventIds, a.payment # NoPayment, b.payment # NoPayment
          PROVE  FALSE
      <4>1. PICK s \in Servers : /\ pc[s] = "log"
                                 /\ b = NewRow(Payment(s), msg[s].id, EventAction(s))
        BY <2>5, <3>1
      <4>2. pc[s] \in Logging /\ a.id = msg[s].id
        BY <3>1, <4>1 DEF Logging, Past
      <4> QED BY <3>1, <4>2, NullAssumption DEF OnceInv
    <3>2. CASE q \in audit /\ r \in audit
      BY <2>8, <3>2 DEF OnceInv
    <3>3. CASE q \notin audit /\ r \notin audit
      <4> HIDE DEF NewRow
      <4>1. \A x \in {q, r} : x = NewRow(Payment(u), msg[u].id, EventAction(u))
        <5>1. ASSUME NEW x \in audit', x.id \in EventIds, x.payment # NoPayment, x \notin audit
              PROVE  x = NewRow(Payment(u), msg[u].id, EventAction(u))
          BY <2>5, <5>1
        <5> QED BY <2>8, <3>3, <5>1
      <4> QED BY <4>1
    <3> QED BY <2>8, <3>1, <3>2, <3>3
  <2> QED BY <2>3, <2>6, <2>7, <2>8 DEF OnceInv
<1> QED BY <1>1, <1>2 DEF Next, StepOf

----------------------------------------------------------------------------
(* One server: the first sighting.                                         *)

OneServer == \A s, t \in Servers : s = t

LEMMA FirstInit == Init => FirstInv
BY DEF Init, FirstInv

\* The server that read no row makes it, and logs it under the id it made it
\* with; whoever comes after a death finds the row and logs no first sighting.
LEMMA FirstNext ==
    ASSUME OneServer
    PROVE  TypeOK /\ HandlersInv /\ ReadsInv /\ FirstInv /\ [Next]_vars => FirstInv'
<1> SUFFICES ASSUME TypeOK, HandlersInv, ReadsInv, FirstInv, [Next]_vars PROVE FirstInv'
  OBVIOUS
<1> USE DEF NewRow
<1>1. CASE UNCHANGED vars
  BY <1>1 DEF vars, FirstInv, Payment
<1>2. ASSUME NEW s \in Servers, StepOf(s) PROVE FirstInv'
  <2>1. \A t \in Servers : t = s
    BY DEF OneServer
  <2>2. ASSUME pc'[s] = "write", existing'[s] = "none"
        PROVE  events'[msg'[s].payment] = NoEvent
    <3>1. GetEvent(s)
      BY <1>2, <2>2, LocalSteps DEF Receive, StoreRaw, Goto, TypeOK, Passes
    <3>2. Payment(s) \in Payments
      BY <3>1 DEF GetEvent, Goto, HandlersInv, Settling
    <3> QED BY <2>2, <3>1, <3>2 DEF GetEvent, TypeOK, tables, ReadsInv, Payment
  <2>3. ASSUME NEW r \in audit', r.action = "ingested"
        PROVE  \/ r \in audit
               \/ /\ LogEvent(s) /\ UNCHANGED events
                  /\ r = NewRow(Payment(s), msg[s].id, "ingested")
                  /\ existing[s] = "none" /\ pc[s] = "log" /\ pc'[s] # "log"
    <3>1. ASSUME LogEvent(s) PROVE pc[s] = "log" /\ pc'[s] # "log"
      BY <3>1 DEF LogEvent, Goto, Answer200, End, TypeOK
    <3>2. EventAction(s) = "ingested" => existing[s] = "none"
      BY DEF EventAction
    <3> QED BY <2>1, <2>3, <3>1, <3>2, AuditSteps
  <2>4. ASSUME NEW r \in audit', r.action = "ingested"
        PROVE  /\ r.payment \in Payments /\ events'[r.payment] # NoEvent
               /\ r.id = events'[r.payment].first
    <3>1. CASE r \in audit
      BY <2>4, <3>1, RowSteps DEF FirstInv, ReadsInv, NoEvent
    <3>2. CASE r \notin audit
      <4>1. /\ UNCHANGED events /\ pc[s] = "log" /\ existing[s] = "none"
            /\ r.payment = Payment(s) /\ r.id = msg[s].id /\ LogEvent(s)
        BY <2>3, <2>4, <3>2
      <4>2. Payment(s) \in Payments /\ events[Payment(s)].status # "none"
        BY <4>1 DEF HandlersInv, ReadsInv, Settling, Written
      <4>3. events[Payment(s)].first = msg[s].id
        BY <4>1 DEF FirstInv
      <4> QED BY <4>1, <4>2, <4>3 DEF NoEvent
    <3> QED BY <3>1, <3>2
  <2>5. ASSUME NEW q \in audit', NEW r \in audit', q.action = "ingested",
               r.action = "ingested", q.payment = r.payment
        PROVE  q = r
    <3>1. ASSUME NEW a \in audit, NEW b \in audit', b \notin audit, a.action = "ingested",
                 b.action = "ingested", a.payment = b.payment
          PROVE  FALSE
      BY <2>3, <3>1 DEF FirstInv
    <3> QED BY <2>3, <2>5, <3>1 DEF FirstInv
  <2>6. ASSUME pc'[s] = "log", existing'[s] = "none"
        PROVE  /\ events'[msg'[s].payment].first = msg'[s].id
               /\ \A r \in audit' : ~(r.payment = msg'[s].payment /\ r.action = "ingested")
    <3>1. pc[s] = "write" /\ msg'[s] = msg[s] /\ existing[s] = "none"
      BY <1>2, <2>6, LocalSteps DEF Receive, StoreRaw, GetEvent, Goto, TypeOK, Passes
    <3>2. Payment(s) \in Payments /\ events[Payment(s)] = NoEvent
      BY <3>1 DEF HandlersInv, Settling, FirstInv
    <3>3. CreateEvent(s)
      BY <1>2, <3>1, <2>6
         DEF StepOf, Handle, Receive, StoreRaw, LogDuplicate, FailParse, MarkParsed,
             LogUnhandled, GetEvent, UpdateEvent, LogEvent, RaiseOnNullId, FindDecision,
             RecordDecision, SwallowFailure, Crash, Goto, End, TypeOK
    <3>4. audit' = audit /\ events'[Payment(s)].first = msg[s].id
      BY <3>2, <3>3 DEF CreateEvent, TypeOK
    <3> QED BY <3>1, <3>2, <3>4 DEF FirstInv, Payment
  <2> QED BY <2>1, <2>2, <2>4, <2>5, <2>6 DEF FirstInv, Payment
<1> QED BY <1>1, <1>2 DEF Next, StepOf

----------------------------------------------------------------------------
(* The theorems.                                                           *)

\* A set whose members are all equal has one at most.
LEMMA AtMostOne ==
    ASSUME NEW S, \A x, y \in S : x = y
    PROVE  Cardinality(S) <= 1
<1>1. CASE S = {}
  BY <1>1, FS_EmptySet
<1>2. CASE S # {}
  <2>1. PICK x \in S : S = {x}
    BY <1>2
  <2>2. Cardinality({x}) = 1
    BY FS_Singleton
  <2> QED BY <2>1, <2>2
<1> QED BY <1>1, <1>2

\* The invariant of the receiver holds from the empty database on.
LEMMA WebhookInvariant == Spec => []WebhookInv
<1>1. Init => WebhookInv
  BY TypeInit, HandlersInit, EventsInit, AuditInit DEF WebhookInv
<1>2. WebhookInv /\ [Next]_vars => WebhookInv'
  BY TypeNext, HandlersNext, ReadsNext, WitnessedNext, AuditNext, OnceNext DEF WebhookInv
<1> QED BY <1>1, <1>2, PTL DEF Spec

\* However many servers read and write a payment's row across each other, and
\* whenever they die, a status stands for deliveries that were stored
\* (main.py:149-178).
THEOREM RowsAreWitnessed == Spec => [](TypeOK /\ EventsAreWitnessed)
<1>1. WebhookInv => TypeOK /\ EventsAreWitnessed
  BY DEF WebhookInv
<1> QED BY <1>1, WebhookInvariant, PTL

\* The audit trail never runs ahead: a row of a payment has its events row, an
\* outcome_observed row a recovered one, a decision row a decision on record
\* (main.py:180-204).
THEOREM AuditIsTrue == Spec => []AuditFollowsEvents
<1>1. WebhookInv => AuditFollowsEvents
  BY DEF WebhookInv
<1> QED BY <1>1, WebhookInvariant, PTL

\* The UNIQUE event id makes a delivery count once, on any number of servers
\* (main.py:117-123).
THEOREM DeliveriesCountOnce == Spec => []HandledOnce
<1>1. WebhookInv => HandledOnce
  <2> SUFFICES ASSUME WebhookInv, NEW id \in EventIds
               PROVE  Cardinality({r \in audit : r.id = id /\ r.payment # NoPayment}) <= 1
    BY DEF HandledOnce
  <2>1. \A q, r \in {r \in audit : r.id = id /\ r.payment # NoPayment} : q = r
    BY DEF WebhookInv, OnceInv
  <2> QED BY <2>1, AtMostOne
<1> QED BY <1>1, WebhookInvariant, PTL

\* events.status goes from nothing to failed or captured and from failed to
\* recovered, in every interleaving of stale reads (main.py:150-178).
THEOREM StatusForward == Spec => StatusMovesForward
<1>1. WebhookInv /\ [Next]_vars =>
        [\A p \in Payments :
           \/ events'[p].status = events[p].status
           \/ events[p].status = "none" /\ events'[p].status \in {"failed", "captured"}
           \/ events[p].status = "failed" /\ events'[p].status = "recovered"]_vars
  BY RowSteps DEF WebhookInv, NoEvent
<1> QED BY <1>1, WebhookInvariant, PTL DEF Spec, StatusMovesForward

\* With one server process a payment is ingested once, under the event id that
\* made its row, although the server may die between the row and its log.
THEOREM FirstSightingIsOne == OneServer => (Spec => []OneFirstSighting)
<1> SUFFICES ASSUME OneServer PROVE Spec => []OneFirstSighting
  OBVIOUS
<1>1. Init => FirstInv
  BY FirstInit
<1>2. WebhookInv /\ FirstInv /\ [Next]_vars => FirstInv'
  BY FirstNext DEF WebhookInv
<1>3. FirstInv => OneFirstSighting
  <2> SUFFICES ASSUME FirstInv, NEW p \in Payments
               PROVE  LET ingested == {r \in RowsOf(p) : r.action = "ingested"}
                      IN  /\ Cardinality(ingested) <= 1
                          /\ \A r \in ingested : r.id = events[p].first
    BY DEF OneFirstSighting
  <2> DEFINE ingested == {r \in RowsOf(p) : r.action = "ingested"}
  <2>1. \A q, r \in ingested : q = r
    BY DEF FirstInv, RowsOf
  <2>2. Cardinality(ingested) <= 1
    BY <2>1, AtMostOne
  <2>3. \A r \in ingested : r.id = events[p].first
    BY DEF FirstInv, RowsOf
  <2> QED BY <2>2, <2>3
<1> QED BY <1>1, <1>2, <1>3, WebhookInvariant, PTL DEF Spec
=============================================================================
