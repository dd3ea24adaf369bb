------------------------------- MODULE Ingest -------------------------------
(***************************************************************************)
(* app/ingest.py: Ingestors of several processes over one database file,   *)
(* and the bridge of app/pipeline.py that feeds a live failure to one.     *)
(*                                                                         *)
(* A payload is what the adapters can tell apart of it.  Its row is a pure *)
(* function of it, so a stored row is the payload it was made from.        *)
(***************************************************************************)
EXTENDS Integers, FiniteSets

CONSTANTS
    Ingestors,    \* processes with an open Ingestor on the file
    Payloads,     \* what they may be given, see Payload
    References,   \* business ids
    NoReference,  \* the id is missing
    NoEntity,     \* a body without payload.payment.entity
    NoRow,
    MaxCalls      \* bound: ingest() calls in one behaviour

ADAPTERS == {"card_failure", "abandoned_cart", "mandate_failure"}

\* customer: named, named by an empty string, or not at all.
\* contact: an email or a phone is left after cleaning.
\* amount: "infinite" is the JSON number Infinity, "huge" needs more than the
\* 64 bits of an SQLite integer.
Payload ==
    [source : ADAPTERS \cup {"other"},
     reference : References \cup {NoReference, NoEntity},
     customer : {"named", "empty", "missing", "derived"},
     contact : BOOLEAN,
     amount : {"good", "missing", "bad", "infinite", "huge"},
     time : {"good", "missing", "bad"},
     live : BOOLEAN]   \* given to ingest_live_failure, not to ingest

ASSUME PayloadAssumption ==
    /\ Payloads \subseteq Payload /\ Payloads # {}
    /\ \A p \in Payloads : p.live => p.source = "card_failure"
    /\ {NoReference, NoEntity} \cap References = {}
    /\ NoRow \notin Payload
ASSUME BoundAssumption == MaxCalls \in Nat

VARIABLES
    normalized,  \* normalized_events: the row of an event id
    rejected,    \* rejected_events: rows per payload
    stats,       \* per Ingestor: its counters
    pc, payload, rowcount,     \* per Ingestor: place in ingest(), locals
    calls,       \* ingest() calls so far
    told         \* history: how often a payload got an outcome

tables == <<normalized, rejected>>
vars == <<normalized, rejected, stats, pc, payload, rowcount, calls, told>>

EventIds == ADAPTERS \X References

\* Mutant: business ids of different sources are taken for one another.
event_id_ReferenceOnly(p) == <<"card_failure", p.reference>>

event_id(p) == <<p.source, p.reference>>
Outcome == {"INSERTED", "DUPLICATE", "REJECTED"}
Zero == [o \in Outcome |-> 0]

\* The bridge names the customer after the payment when nobody else does.
Bridged(p) ==
    IF p.live /\ p.customer # "named" THEN [p EXCEPT !.customer = "derived"] ELSE p
Inputs == {Bridged(p) : p \in Payloads}
NoPayload == CHOOSE p \in Inputs : TRUE   \* what an idle Ingestor holds

TypeOK ==
    /\ normalized \in [EventIds -> Inputs \cup {NoRow}]
    /\ rejected \in [Inputs -> Nat]
    /\ stats \in [Ingestors -> [Outcome -> Nat]]
    /\ pc \in [Ingestors -> {"idle", "insert", "fetch", "reject", "count"}]
    /\ payload \in [Ingestors -> Inputs]
    /\ rowcount \in [Ingestors -> {0, 1}]
    /\ calls \in 0..MaxCalls
    /\ told \in [Inputs -> [Outcome -> Nat]]

Init ==
    /\ normalized = [e \in EventIds |-> NoRow]
    /\ rejected = [p \in Inputs |-> 0]
    /\ stats = [c \in Ingestors |-> Zero]
    /\ pc = [c \in Ingestors |-> "idle"]
    /\ payload = [c \in Ingestors |-> NoPayload]
    /\ rowcount = [c \in Ingestors |-> 0]
    /\ calls = 0
    /\ told = [p \in Inputs |-> Zero]

----------------------------------------------------------------------------
(* The adapters: pure, and the same in the order of their checks.          *)

\* customer_ref of a mandate need only be present.
NamesCustomer(p) ==
    p.customer \in (IF p.source = "mandate_failure"
                    THEN {"named", "empty", "derived"} ELSE {"named", "derived"})

\* allow_missing_contact is what the bridge passes.
Contactless(p) == ~p.contact /\ ~p.live

\* int(Infinity) raises what _paise_from_minor does not catch: ingest takes
\* any exception of an adapter for a missing field.
BadAmount(p) ==
    IF p.amount = "infinite" /\ p.source # "abandoned_cart"
    THEN "missing_required_field" ELSE "bad_amount"

\* The reason code of an AdapterError, "none" if there is a row.
Reason(p) ==
    CASE p.source \notin ADAPTERS        -> "unknown_source"
      [] p.reference \notin References \/ ~NamesCustomer(p) -> "missing_required_field"
      [] Contactless(p)                  -> "no_contact_channel"
      [] p.amount = "missing"            -> "missing_required_field"
      [] p.amount \in {"bad", "infinite"} -> BadAmount(p)
      [] p.time = "missing"              -> "missing_required_field"
      [] p.time = "bad"                  -> "bad_timestamp"
      [] OTHER                           -> "none"

----------------------------------------------------------------------------
(* ingest(): one action per commit.                                        *)

Goto(c, from, to) == pc[c] = from /\ pc' = [pc EXCEPT ![c] = to]

\* ingest() is called and the adapter answers.
Take(c, p) ==
    /\ calls < MaxCalls
    /\ ~(p.live /\ p.reference = NoEntity)
    /\ calls' = calls + 1
    /\ Goto(c, "idle", IF Reason(Bridged(p)) = "none" THEN "insert" ELSE "reject")
    /\ payload' = [payload EXCEPT ![c] = Bridged(p)]
    /\ UNCHANGED <<tables, stats, rowcount, told>>

\* Mutant: INSERT OR REPLACE.
Insert_Replace(c) ==
    /\ payload[c].amount # "huge"
    /\ Goto(c, "insert", "fetch")
    /\ normalized' = [normalized EXCEPT ![event_id(payload[c])] = payload[c]]
    /\ rowcount' = [rowcount EXCEPT ![c] = 1]
    /\ UNCHANGED <<rejected, stats, payload, calls, told>>

\* INSERT OR IGNORE and commit.
Insert(c) ==
    LET e == event_id(payload[c])
    IN  /\ payload[c].amount # "huge"
        /\ Goto(c, "insert", "fetch")
        /\ normalized' = [normalized EXCEPT ![e] = IF @ = NoRow THEN payload[c] ELSE @]
        /\ rowcount' = [rowcount EXCEPT ![c] = IF normalized[e] = NoRow THEN 1 ELSE 0]
        /\ UNCHANGED <<rejected, stats, payload, calls, told>>

\* _reject: INSERT and commit.
Quarantine(c) ==
    /\ Goto(c, "reject", "count")
    /\ rejected' = [rejected EXCEPT ![payload[c]] = @ + 1]
    /\ UNCHANGED <<normalized, stats, payload, rowcount, calls, told>>

\* The call is over.  A live payload was given to an Ingestor of the bridge's
\* own, whose counters go with it: those of c stay.
End(c, counted) ==
    /\ pc' = [pc EXCEPT ![c] = "idle"]
    /\ payload' = [payload EXCEPT ![c] = NoPayload]
    /\ rowcount' = [rowcount EXCEPT ![c] = 0]
    /\ stats' = [stats EXCEPT ![c] = IF payload[c].live THEN @ ELSE counted]
    /\ UNCHANGED <<tables, calls>>

\* Count, and tell the caller.
Return(c, outcome) ==
    /\ End(c, [stats[c] EXCEPT ![outcome] = @ + 1])
    /\ told' = [told EXCEPT ![payload[c]][outcome] = @ + 1]

ReturnStored(c) ==
    pc[c] = "fetch" /\ Return(c, IF rowcount[c] > 0 THEN "INSERTED" ELSE "DUPLICATE")

ReturnRejected(c) == pc[c] = "count" /\ Return(c, "REJECTED")

\* The statement raises before it changes anything: a value SQLite cannot
\* take, or another process holds the lock beyond the busy timeout.
Raise(c) ==
    /\ pc[c] \in {"insert", "reject"}
    /\ End(c, stats[c])
    /\ UNCHANGED told

\* The Ingestor is closed, or its process dies, and a new one is opened.
Restart(c) ==
    /\ pc[c] # "idle" \/ stats[c] # Zero
    /\ pc' = [pc EXCEPT ![c] = "idle"]
    /\ payload' = [payload EXCEPT ![c] = NoPayload]
    /\ rowcount' = [rowcount EXCEPT ![c] = 0]
    /\ stats' = [stats EXCEPT ![c] = Zero]
    /\ UNCHANGED <<tables, calls, told>>

Next ==
    \E c \in Ingestors :
        \/ \E p \in Payloads : Take(c, p)
        \/ Insert(c) \/ ReturnStored(c)
        \/ Quarantine(c) \/ ReturnRejected(c)
        \/ Raise(c) \/ Restart(c)

Spec == Init /\ [][Next]_vars

----------------------------------------------------------------------------
(* What the tables promise.                                                *)

InputsOf(e) == {p \in Inputs : event_id(p) = e}
WasTold(p, outcome) == told[p][outcome] > 0

\* Dedupe holds over connections, restarts and the bridge: one caller at most
\* is told INSERTED for an event id, and an id anyone got an answer for has
\* its row.  (A death after the commit may leave nobody who was told.)
InsertedOnce ==
    \A e \in EventIds :
        /\ \A p \in InputsOf(e) : told[p]["INSERTED"] <= 1
        /\ \A p, q \in InputsOf(e) :
             WasTold(p, "INSERTED") /\ WasTold(q, "INSERTED") => p = q
        /\ \A p \in InputsOf(e) :
             WasTold(p, "INSERTED") \/ WasTold(p, "DUPLICATE") => normalized[e] # NoRow

\* No input is lost: one that was accepted has a row of its own source and
\* business id, and each rejection a caller was told of is a row of its own
\* in quarantine.
NothingIsLost ==
    \A p \in Inputs :
        /\ WasTold(p, "INSERTED") \/ WasTold(p, "DUPLICATE") =>
               \E e \in EventIds : /\ normalized[e] # NoRow
                                   /\ normalized[e].source = p.source
                                   /\ normalized[e].reference = p.reference
        /\ told[p]["REJECTED"] <= rejected[p]
============================================================================
