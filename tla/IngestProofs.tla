---------------------------- MODULE IngestProofs ----------------------------
(***************************************************************************)
(* ingest() for any payloads and any number of Ingestors on one file, with *)
(* deaths and restarts anywhere.                                           *)
(***************************************************************************)
EXTENDS Ingest, FiniteSetTheorems, TLAPS

\* The Ingestor whose INSERT made the row and who has not said so yet.
Winner(c) == pc[c] = "fetch" /\ rowcount[c] > 0
\* The Ingestors that have committed a rejection of p and not said so yet.
Rejecting(p) == {c \in Ingestors : pc[c] = "count" /\ payload[c] = p}

\* Only what an adapter turned into a row goes to the table, and whoever is
\* past the INSERT finds a row under its event id.
CallsOk ==
    \A c \in Ingestors :
        /\ pc[c] \in {"insert", "fetch"} => event_id(payload[c]) \in EventIds
        /\ pc[c] = "fetch" => normalized[event_id(payload[c])] # NoRow

\* A row is stored under its own event id.
RowsOk == \A e \in EventIds : normalized[e] # NoRow => event_id(normalized[e]) = e

\* An event id anyone got an answer for has its row.
AnswersOk ==
    \A p \in Inputs :
        WasTold(p, "INSERTED") \/ WasTold(p, "DUPLICATE") =>
            event_id(p) \in EventIds /\ normalized[event_id(p)] # NoRow

\* Among those told INSERTED and those about to be, no two share an event id.
FirstOk ==
    /\ \A p \in Inputs : told[p]["INSERTED"] <= 1
    /\ \A p, q \in Inputs : WasTold(p, "INSERTED") /\ WasTold(q, "INSERTED")
                               /\ event_id(p) = event_id(q) => p = q
    /\ \A c, d \in Ingestors : Winner(c) /\ Winner(d)
                                 /\ event_id(payload[c]) = event_id(payload[d]) => c = d
    /\ \A c \in Ingestors, p \in Inputs :
         Winner(c) /\ WasTold(p, "INSERTED") => event_id(payload[c]) # event_id(p)

\* Every rejection told, or about to be, is a row in quarantine.
QuarantineOk ==
    \A p \in Inputs :
        /\ IsFiniteSet(Rejecting(p))
        /\ told[p]["REJECTED"] + Cardinality(Rejecting(p)) <= rejected[p]

IngestInv == TypeOK /\ CallsOk /\ RowsOk /\ AnswersOk /\ FirstOk /\ QuarantineOk

----------------------------------------------------------------------------
(* The adapters and the bridge.                                            *)

LEMMA InputsAreRows == Inputs \subseteq Payload /\ NoRow \notin Inputs
<1>1. ASSUME NEW p \in Payloads PROVE Bridged(p) \in Payload
  <2>1. p \in Payload
    BY PayloadAssumption
  <2> DEFINE n == [p EXCEPT !.customer = "derived"]
  <2>2. n \in Payload
    BY <2>1 DEF Payload
  <2> QED BY <2>1, <2>2 DEF Bridged
<1> QED BY <1>1, PayloadAssumption DEF Inputs

LEMMA AcceptedHasId ==
    ASSUME NEW p \in Inputs, Reason(p) = "none"
    PROVE  event_id(p) \in EventIds
<1>1. p.source \in ADAPTERS /\ p.reference \in References
  BY DEF Reason, BadAmount
<1> QED BY <1>1 DEF event_id, EventIds

----------------------------------------------------------------------------
(* Types.                                                                  *)

LEMMA IdleHoldsInput == NoPayload \in Inputs
BY PayloadAssumption DEF NoPayload, Inputs

LEMMA TypeInit == Init => TypeOK
<1> SUFFICES ASSUME Init PROVE TypeOK
  OBVIOUS
<1>1. Zero \in [Outcome -> Nat]
  BY DEF Zero
<1> QED BY <1>1, BoundAssumption, IdleHoldsInput DEF Init, TypeOK

\* The end of a call, told or not.
LEMMA EndTypes ==
    ASSUME TypeOK, NEW c \in Ingestors, NEW counted \in [Outcome -> Nat], End(c, counted)
    PROVE  /\ UNCHANGED <<normalized, rejected, calls>>
           /\ pc' = [pc EXCEPT ![c] = "idle"]
           /\ payload' \in [Ingestors -> Inputs]
           /\ \A d \in Ingestors \ {c} : payload'[d] = payload[d] /\ rowcount'[d] = rowcount[d]
           /\ rowcount' \in [Ingestors -> {0, 1}]
           /\ stats' \in [Ingestors -> [Outcome -> Nat]]
<1>1. Zero \in [Outcome -> Nat]
  BY DEF Zero
<1> QED BY <1>1, IdleHoldsInput DEF End, TypeOK, tables

\* Telling an outcome adds one to one entry of told.
LEMMA ReturnTells ==
    ASSUME TypeOK, NEW c \in Ingestors, NEW outcome \in Outcome, Return(c, outcome)
    PROVE  /\ End(c, [stats[c] EXCEPT ![outcome] = stats[c][outcome] + 1])
           /\ told' \in [Inputs -> [Outcome -> Nat]]
           /\ told'[payload[c]][outcome] = told[payload[c]][outcome] + 1
           /\ \A p \in Inputs, o \in Outcome :
                p # payload[c] \/ o # outcome => told'[p][o] = told[p][o]
<1>1. End(c, [stats[c] EXCEPT ![outcome] = stats[c][outcome] + 1])
  BY DEF Return
<1>2. PICK n : n = [told[payload[c]] EXCEPT ![outcome] = told[payload[c]][outcome] + 1]
  OBVIOUS
<1>3. payload[c] \in Inputs /\ told[payload[c]] \in [Outcome -> Nat]
  BY DEF TypeOK
<1>4. /\ n \in [Outcome -> Nat] /\ n[outcome] = told[payload[c]][outcome] + 1
      /\ \A o \in Outcome : o # outcome => n[o] = told[payload[c]][o]
  BY <1>2, <1>3
<1>5. told' = [told EXCEPT ![payload[c]] = n]
  BY <1>2 DEF Return
<1>6. told' \in [Inputs -> [Outcome -> Nat]]
  BY <1>3, <1>4, <1>5 DEF TypeOK
<1> QED BY <1>1, <1>3, <1>4, <1>5, <1>6 DEF TypeOK

\* What the six steps of a call come to.
LEMMA ReturnTypes ==
    ASSUME TypeOK, NEW c \in Ingestors, NEW outcome \in Outcome, Return(c, outcome)
    PROVE  TypeOK'
<1>1. [stats[c] EXCEPT ![outcome] = stats[c][outcome] + 1] \in [Outcome -> Nat]
  <2>1. stats[c] \in [Outcome -> Nat]
    BY DEF TypeOK
  <2> QED BY <2>1
<1> DEFINE counted == [stats[c] EXCEPT ![outcome] = stats[c][outcome] + 1]
<1>2. /\ UNCHANGED <<normalized, rejected, calls>>
      /\ pc' = [pc EXCEPT ![c] = "idle"]
      /\ payload' \in [Ingestors -> Inputs]
      /\ rowcount' \in [Ingestors -> {0, 1}]
      /\ stats' \in [Ingestors -> [Outcome -> Nat]]
  <2>1. counted \in [Outcome -> Nat] /\ End(c, counted)
    BY <1>1, ReturnTells
  <2> HIDE DEF counted
  <2> QED BY <2>1, EndTypes
<1>3. told' \in [Inputs -> [Outcome -> Nat]]
  BY ReturnTells
<1> QED BY <1>2, <1>3 DEF TypeOK

LEMMA TypeNext == TypeOK /\ [Next]_vars => TypeOK'
<1> SUFFICES ASSUME TypeOK, [Next]_vars PROVE TypeOK'
  OBVIOUS
<1>1. ASSUME NEW c \in Ingestors, NEW p \in Payloads, Take(c, p) PROVE TypeOK'
  <2>1. Bridged(p) \in Inputs
    BY DEF Inputs
  <2>2. PICK s : s \in {"insert", "reject"} /\ pc' = [pc EXCEPT ![c] = s]
    BY <1>1 DEF Take, Goto
  <2> QED BY <1>1, <2>1, <2>2, BoundAssumption DEF Take, TypeOK, tables
<1>2. ASSUME NEW c \in Ingestors, Insert(c) PROVE TypeOK'
  <2>1. PICK n : /\ n \in Inputs \cup {NoRow}
                 /\ normalized' = [normalized EXCEPT ![event_id(payload[c])] = n]
    BY <1>2 DEF Insert, TypeOK
  <2>2. PICK m : m \in {0, 1} /\ rowcount' = [rowcount EXCEPT ![c] = m]
    BY <1>2 DEF Insert
  <2> QED BY <1>2, <2>1, <2>2 DEF Insert, Goto, TypeOK
<1>3. ASSUME NEW c \in Ingestors, Quarantine(c) PROVE TypeOK'
  BY <1>3 DEF Quarantine, Goto, TypeOK
<1>4. ASSUME NEW c \in Ingestors, ReturnStored(c) \/ ReturnRejected(c) PROVE TypeOK'
  <2>1. PICK outcome \in Outcome : Return(c, outcome)
    BY <1>4 DEF ReturnStored, ReturnRejected, Outcome
  <2> QED BY <2>1, ReturnTypes
<1>5. ASSUME NEW c \in Ingestors, Raise(c) PROVE TypeOK'
  <2>1. stats[c] \in [Outcome -> Nat] /\ End(c, stats[c]) /\ told' = told
    BY <1>5 DEF Raise, TypeOK
  <2> QED BY <2>1, EndTypes DEF TypeOK
<1>6. ASSUME NEW c \in Ingestors, Restart(c) PROVE TypeOK'
  <2>1. Zero \in [Outcome -> Nat]
    BY DEF Zero
  <2> QED BY <1>6, <2>1, IdleHoldsInput DEF Restart, TypeOK, tables
<1>7. CASE UNCHANGED vars
  BY <1>7 DEF vars, tables, TypeOK
<1> QED BY <1>1, <1>2, <1>3, <1>4, <1>5, <1>6, <1>7 DEF Next

----------------------------------------------------------------------------
(* The steps keep the invariant.                                           *)

LEMMA IngestInit == Init => IngestInv
<1> SUFFICES ASSUME Init PROVE IngestInv
  OBVIOUS
<1>1. \A p \in Inputs, o \in Outcome : told[p][o] = 0
  BY DEF Init, Zero
<1>2. \A p \in Inputs : Rejecting(p) = {}
  BY DEF Init, Rejecting
<1>3. QuarantineOk
  BY <1>1, <1>2, FS_EmptySet DEF QuarantineOk, Init, Outcome
<1>4. CallsOk /\ RowsOk /\ AnswersOk /\ FirstOk
  BY <1>1 DEF Init, CallsOk, RowsOk, AnswersOk, FirstOk, WasTold, Winner, Outcome
<1> QED BY <1>3, <1>4, TypeInit DEF IngestInv

\* Fewer rejections in hand, the rest as it was.
LEMMA QuarantineKept ==
    ASSUME QuarantineOk, TypeOK, TypeOK', rejected' = rejected, NEW p \in Inputs,
           told'[p]["REJECTED"] = told[p]["REJECTED"], Rejecting(p)' \subseteq Rejecting(p)
    PROVE  /\ IsFiniteSet(Rejecting(p)')
           /\ told'[p]["REJECTED"] + Cardinality(Rejecting(p)') <= rejected'[p]
<1>1. IsFiniteSet(Rejecting(p)) /\ told[p]["REJECTED"] + Cardinality(Rejecting(p)) <= rejected[p]
  BY DEF QuarantineOk
<1>2. /\ IsFiniteSet(Rejecting(p)')
      /\ Cardinality(Rejecting(p)') <= Cardinality(Rejecting(p))
      /\ Cardinality(Rejecting(p)') \in Nat /\ Cardinality(Rejecting(p)) \in Nat
  <2> DEFINE R == Rejecting(p)
             S == Rejecting(p)'
  <2>1. IsFiniteSet(R) /\ S \in SUBSET R
    BY <1>1
  <2> HIDE DEF R, S
  <2>2. IsFiniteSet(S) /\ Cardinality(S) <= Cardinality(R) /\ Cardinality(S) \in Nat /\ Cardinality(R) \in Nat
    BY <2>1, FS_Subset, FS_CardinalityType
  <2> QED BY <2>2 DEF R, S
<1>3. told[p]["REJECTED"] \in Nat /\ rejected[p] \in Nat
  BY DEF TypeOK, Outcome
<1> QED BY <1>1, <1>2, <1>3

\* A call that begins, fails or dies tells nobody anything.
LEMMA QuietKeeps ==
    ASSUME IngestInv, TypeOK', UNCHANGED <<normalized, rejected, told>>, NEW c \in Ingestors,
           \A d \in Ingestors \ {c} :
               pc'[d] = pc[d] /\ payload'[d] = payload[d] /\ rowcount'[d] = rowcount[d],
           \/ pc'[c] \in {"idle", "reject"}
           \/ pc'[c] = "insert" /\ event_id(payload'[c]) \in EventIds
    PROVE  IngestInv'
<1> USE DEF IngestInv
<1>1. CallsOk'
  BY DEF CallsOk, event_id
<1>2. RowsOk' /\ AnswersOk'
  BY DEF RowsOk, AnswersOk, WasTold, event_id
<1>3. FirstOk'
  BY DEF FirstOk, WasTold, Winner, event_id
<1>4. QuarantineOk'
  <2> SUFFICES ASSUME NEW p \in Inputs
               PROVE  /\ IsFiniteSet(Rejecting(p)')
                      /\ told'[p]["REJECTED"] + Cardinality(Rejecting(p)') <= rejected'[p]
    BY DEF QuarantineOk
  <2>1. Rejecting(p)' \subseteq Rejecting(p)
    BY DEF Rejecting
  <2> QED BY <2>1, QuarantineKept
<1> QED BY <1>1, <1>2, <1>3, <1>4

\* INSERT OR IGNORE: of two callers with one event id only the first changes
\* a row, and nobody was told INSERTED before.
LEMMA InsertKeeps ==
    ASSUME IngestInv, TypeOK', NEW c \in Ingestors, Insert(c)
    PROVE  IngestInv'
<1> DEFINE e == event_id(payload[c])
<1> USE DEF IngestInv
<1>1. /\ e \in EventIds /\ payload[c] \in Inputs /\ payload[c] # NoRow
      /\ pc[c] = "insert" /\ pc' = [pc EXCEPT ![c] = "fetch"]
      /\ UNCHANGED <<rejected, payload, told>>
  BY InputsAreRows DEF Insert, Goto, CallsOk, TypeOK
<1>2. /\ normalized'[e] = (IF normalized[e] = NoRow THEN payload[c] ELSE normalized[e])
      /\ \A f \in EventIds : f # e => normalized'[f] = normalized[f]
      /\ normalized'[e] # NoRow
  BY <1>1 DEF Insert, TypeOK
<1>3. /\ rowcount'[c] = (IF normalized[e] = NoRow THEN 1 ELSE 0)
      /\ \A d \in Ingestors \ {c} : rowcount'[d] = rowcount[d] /\ pc'[d] = pc[d]
      /\ pc'[c] = "fetch"
  BY <1>1 DEF Insert, TypeOK
<1>4. \A f \in EventIds : normalized[f] # NoRow => normalized'[f] # NoRow
  BY <1>2
<1>5. CallsOk'
  BY <1>1, <1>2, <1>3, <1>4 DEF CallsOk, event_id
<1>6. RowsOk' /\ AnswersOk'
  <2>1. RowsOk'
    BY <1>1, <1>2 DEF RowsOk, event_id
  <2>2. AnswersOk'
    BY <1>1, <1>4 DEF AnswersOk, WasTold, event_id
  <2> QED BY <2>1, <2>2
<1>7. FirstOk'
  <2>1. \A d \in Ingestors : Winner(d) /\ event_id(payload[d]) = e => normalized[e] # NoRow
    BY DEF CallsOk, Winner
  <2>2. \A p \in Inputs : WasTold(p, "INSERTED") /\ event_id(p) = e => normalized[e] # NoRow
    BY DEF AnswersOk
  <2>3. Winner(c)' => normalized[e] = NoRow
    BY <1>3 DEF Winner
  <2>4. \A d \in Ingestors \ {c} : Winner(d)' <=> Winner(d)
    BY <1>3 DEF Winner
  <2> HIDE DEF e
  <2>5. \A d \in Ingestors \ {c} : Winner(c)' /\ Winner(d)' => event_id(payload[d]) # e
    BY <2>1, <2>3, <2>4
  <2>6. \A p \in Inputs : Winner(c)' /\ WasTold(p, "INSERTED") => event_id(p) # e
    BY <2>2, <2>3
  <2>7. /\ \A p \in Inputs : WasTold(p, "INSERTED")' <=> WasTold(p, "INSERTED")
        /\ \A p \in Inputs : told'[p]["INSERTED"] = told[p]["INSERTED"]
        /\ \A p \in Inputs : event_id(p)' = event_id(p)
        /\ \A d \in Ingestors : event_id(payload[d])' = event_id(payload[d])
    BY <1>1 DEF WasTold, event_id
  <2> QED BY <2>4, <2>5, <2>6, <2>7 DEF FirstOk, e
<1>8. QuarantineOk'
  <2> SUFFICES ASSUME NEW p \in Inputs
               PROVE  /\ IsFiniteSet(Rejecting(p)')
                      /\ told'[p]["REJECTED"] + Cardinality(Rejecting(p)') <= rejected'[p]
    BY DEF QuarantineOk
  <2>1. Rejecting(p)' \subseteq Rejecting(p)
    BY <1>1, <1>3 DEF Rejecting
  <2> QED BY <1>1, <2>1, QuarantineKept
<1> QED BY <1>5, <1>6, <1>7, <1>8

\* The quarantine row is committed before anybody is told.
LEMMA QuarantineKeeps ==
    ASSUME IngestInv, TypeOK', NEW c \in Ingestors, Quarantine(c)
    PROVE  IngestInv'
<1> USE DEF IngestInv
<1>1. /\ pc[c] = "reject" /\ pc'[c] = "count" /\ payload[c] \in Inputs
      /\ \A d \in Ingestors \ {c} : pc'[d] = pc[d]
      /\ UNCHANGED <<normalized, payload, rowcount, told>>
      /\ rejected'[payload[c]] = rejected[payload[c]] + 1
      /\ \A p \in Inputs : p # payload[c] => rejected'[p] = rejected[p]
  BY DEF Quarantine, Goto, TypeOK
<1>2. CallsOk' /\ RowsOk' /\ AnswersOk'
  BY <1>1 DEF CallsOk, RowsOk, AnswersOk, WasTold, event_id
<1>3. FirstOk'
  BY <1>1 DEF FirstOk, WasTold, Winner, event_id
<1>4. QuarantineOk'
  <2> SUFFICES ASSUME NEW p \in Inputs
               PROVE  /\ IsFiniteSet(Rejecting(p)')
                      /\ told'[p]["REJECTED"] + Cardinality(Rejecting(p)') <= rejected'[p]
    BY DEF QuarantineOk
  <2>1. /\ IsFiniteSet(Rejecting(p))
        /\ told[p]["REJECTED"] + Cardinality(Rejecting(p)) <= rejected[p]
        /\ told[p]["REJECTED"] \in Nat /\ rejected[p] \in Nat /\ Cardinality(Rejecting(p)) \in Nat
    BY FS_CardinalityType DEF QuarantineOk, TypeOK, Outcome
  <2>2. CASE p = payload[c]
    <3>1. Rejecting(p)' = Rejecting(p) \cup {c} /\ c \notin Rejecting(p)
      BY <1>1, <2>2 DEF Rejecting
    <3>2. /\ IsFiniteSet(Rejecting(p) \cup {c})
          /\ Cardinality(Rejecting(p) \cup {c}) = Cardinality(Rejecting(p)) + 1
      BY <2>1, <3>1, FS_AddElement
    <3> QED BY <1>1, <2>1, <2>2, <3>1, <3>2
  <2>3. CASE p # payload[c]
    <3>1. Rejecting(p)' = Rejecting(p)
      BY <1>1, <2>3 DEF Rejecting
    <3> QED BY <1>1, <2>1, <2>3, <3>1
  <2> QED BY <2>2, <2>3
<1> QED BY <1>2, <1>3, <1>4

\* An answer turns the Ingestor about to give it into somebody who was told.
LEMMA AnswerKeeps ==
    ASSUME IngestInv, TypeOK', NEW c \in Ingestors, ReturnStored(c) \/ ReturnRejected(c)
    PROVE  IngestInv'
<1> USE DEF IngestInv
<1>1. PICK outcome \in Outcome :
        /\ Return(c, outcome)
        /\ pc[c] = "fetch" => outcome = (IF rowcount[c] > 0 THEN "INSERTED" ELSE "DUPLICATE")
        /\ pc[c] # "fetch" => pc[c] = "count" /\ outcome = "REJECTED"
  BY DEF ReturnStored, ReturnRejected, Outcome
<1> DEFINE q == payload[c]
<1>2. q \in Inputs
  BY DEF TypeOK
<1>3. /\ told'[q][outcome] = told[q][outcome] + 1
      /\ \A p \in Inputs, o \in Outcome : p # q \/ o # outcome => told'[p][o] = told[p][o]
      /\ \A p \in Inputs, o \in Outcome : told[p][o] \in Nat
  BY <1>1, ReturnTells DEF TypeOK
<1>4. /\ UNCHANGED <<normalized, rejected>> /\ pc'[c] = "idle"
      /\ \A d \in Ingestors \ {c} :
            pc'[d] = pc[d] /\ payload'[d] = payload[d] /\ rowcount'[d] = rowcount[d]
  <2>1. stats[c] \in [Outcome -> Nat]
    BY DEF TypeOK
  <2> DEFINE counted == [stats[c] EXCEPT ![outcome] = stats[c][outcome] + 1]
  <2>2. counted \in [Outcome -> Nat] /\ End(c, counted)
    BY <1>1, <2>1, ReturnTells
  <2> HIDE DEF counted
  <2> QED BY <2>2, EndTypes DEF TypeOK
<1> HIDE DEF q
<1>5. CallsOk' /\ RowsOk'
  BY <1>4 DEF CallsOk, RowsOk, event_id
<1>6. \A p \in Inputs, o \in Outcome :
         (told'[p][o] > 0) <=> (told[p][o] > 0 \/ (p = q /\ o = outcome))
  BY <1>2, <1>3
<1>7. AnswersOk'
  <2>1. ASSUME pc[c] = "fetch" PROVE event_id(q) \in EventIds /\ normalized[event_id(q)] # NoRow
    BY <2>1 DEF CallsOk, q
  <2> QED BY <1>1, <1>4, <1>6, <2>1 DEF AnswersOk, WasTold, Outcome, event_id
<1>8. FirstOk'
  <2>1. CASE pc[c] = "fetch" /\ rowcount[c] > 0
    <3>1. outcome = "INSERTED" /\ Winner(c)
      BY <1>1, <2>1 DEF Winner
    <3>2. \A p \in Inputs : WasTold(p, "INSERTED") => event_id(p) # event_id(q)
      BY <3>1 DEF FirstOk, q
    <3>3. told[q]["INSERTED"] = 0
      BY <1>2, <1>3, <3>2 DEF WasTold, Outcome
    <3>4. \A d \in Ingestors : Winner(d)' => /\ d # c /\ Winner(d)
                                             /\ payload'[d] = payload[d]
                                             /\ event_id(payload[d]) # event_id(q)
      BY <1>4, <3>1 DEF Winner, FirstOk, q
    <3>5. \A p \in Inputs : WasTold(p, "INSERTED")' <=> (WasTold(p, "INSERTED") \/ p = q)
      BY <1>6, <3>1 DEF WasTold, Outcome
    <3>6. \A p \in Inputs : told'[p]["INSERTED"] <= 1
      BY <1>2, <1>3, <3>1, <3>3 DEF FirstOk, Outcome
    <3>7. \A p \in Inputs : event_id(p)' = event_id(p)
      BY DEF event_id
    <3>8. \A d \in Ingestors : Winner(d)' => event_id(payload[d])' = event_id(payload[d])
      BY <3>4 DEF event_id
    <3> QED BY <3>2, <3>4, <3>5, <3>6, <3>7, <3>8 DEF FirstOk
  <2>2. CASE ~(pc[c] = "fetch" /\ rowcount[c] > 0)
    <3>1. outcome # "INSERTED"
      BY <1>1, <2>2 DEF Outcome
    <3>2. \A p \in Inputs : told'[p]["INSERTED"] = told[p]["INSERTED"]
      BY <1>3, <3>1 DEF Outcome
    <3>3. \A d \in Ingestors : Winner(d)' => Winner(d) /\ payload'[d] = payload[d]
      BY <1>4 DEF Winner
    <3> QED BY <3>2, <3>3 DEF FirstOk, WasTold, event_id
  <2> QED BY <2>1, <2>2
<1>9. QuarantineOk'
  <2> SUFFICES ASSUME NEW p \in Inputs
               PROVE  /\ IsFiniteSet(Rejecting(p)')
                      /\ told'[p]["REJECTED"] + Cardinality(Rejecting(p)') <= rejected'[p]
    BY DEF QuarantineOk
  <2>1. Rejecting(p)' \subseteq Rejecting(p)
    BY <1>4 DEF Rejecting
  <2>2. CASE p = q /\ outcome = "REJECTED"
    <3>1. /\ IsFiniteSet(Rejecting(p))
          /\ told[p]["REJECTED"] + Cardinality(Rejecting(p)) <= rejected[p]
          /\ told[p]["REJECTED"] \in Nat /\ rejected[p] \in Nat /\ Cardinality(Rejecting(p)) \in Nat
      BY FS_CardinalityType DEF QuarantineOk, TypeOK, Outcome
    <3>2. pc[c] = "count"
      BY <1>1, <2>2
    <3>3. c \in Rejecting(p) /\ Rejecting(p)' = Rejecting(p) \ {c}
      BY <1>4, <2>2, <3>2 DEF Rejecting, q
    <3>4. /\ IsFiniteSet(Rejecting(p) \ {c})
          /\ Cardinality(Rejecting(p) \ {c}) = Cardinality(Rejecting(p)) - 1
      BY <3>1, <3>3, FS_RemoveElement
    <3>5. told'[p]["REJECTED"] = told[p]["REJECTED"] + 1 /\ rejected' = rejected
      BY <1>3, <1>4, <2>2
    <3> QED BY <3>1, <3>3, <3>4, <3>5
  <2>3. CASE ~(p = q /\ outcome = "REJECTED")
    <3>1. told'[p]["REJECTED"] = told[p]["REJECTED"]
      BY <1>3, <2>3 DEF Outcome
    <3> QED BY <1>4, <2>1, <3>1, QuarantineKept
  <2> QED BY <2>2, <2>3
<1> QED BY <1>5, <1>7, <1>8, <1>9

THEOREM IngestHolds == Spec => []IngestInv
<1>1. IngestInv /\ [Next]_vars => IngestInv'
  <2> SUFFICES ASSUME IngestInv, [Next]_vars PROVE IngestInv'
    OBVIOUS
  <2>1. TypeOK /\ TypeOK'
    BY TypeNext DEF IngestInv
  <2>2. ASSUME NEW c \in Ingestors, NEW p \in Payloads, Take(c, p) PROVE IngestInv'
    <3>1. Bridged(p) \in Inputs
      BY DEF Inputs
    <3>2. payload'[c] = Bridged(p)
      BY <2>1, <2>2 DEF Take, TypeOK
    <3>3. /\ pc'[c] = (IF Reason(Bridged(p)) = "none" THEN "insert" ELSE "reject")
          /\ UNCHANGED <<normalized, rejected, told, rowcount>>
          /\ \A d \in Ingestors \ {c} : pc'[d] = pc[d] /\ payload'[d] = payload[d]
      BY <2>1, <2>2 DEF Take, Goto, TypeOK, tables
    <3>4. pc'[c] = "insert" => event_id(payload'[c]) \in EventIds
      BY <3>1, <3>2, <3>3, AcceptedHasId
    <3> QED BY <2>1, <3>3, <3>4, QuietKeeps
  <2>3. ASSUME NEW c \in Ingestors, Raise(c) PROVE IngestInv'
    <3>1. stats[c] \in [Outcome -> Nat] /\ End(c, stats[c]) /\ told' = told
      BY <2>1, <2>3 DEF Raise, TypeOK
    <3>2. /\ UNCHANGED <<normalized, rejected, told>> /\ pc'[c] = "idle"
          /\ \A d \in Ingestors \ {c} :
                pc'[d] = pc[d] /\ payload'[d] = payload[d] /\ rowcount'[d] = rowcount[d]
      BY <2>1, <3>1, EndTypes DEF TypeOK
    <3> QED BY <2>1, <3>2, QuietKeeps
  <2>4. ASSUME NEW c \in Ingestors, Restart(c) PROVE IngestInv'
    <3>1. /\ UNCHANGED <<normalized, rejected, told>> /\ pc'[c] = "idle"
          /\ \A d \in Ingestors \ {c} :
                pc'[d] = pc[d] /\ payload'[d] = payload[d] /\ rowcount'[d] = rowcount[d]
      BY <2>1, <2>4 DEF Restart, TypeOK, tables
    <3> QED BY <2>1, <3>1, QuietKeeps
  <2>5. CASE UNCHANGED vars
    <3>1. UNCHANGED <<normalized, rejected, told, stats, pc, payload, rowcount, calls>>
      BY <2>5 DEF vars, tables
    <3> QED BY <2>1, <3>1 DEF IngestInv, CallsOk, RowsOk, AnswersOk, FirstOk, QuarantineOk,
                             Rejecting, Winner, WasTold, event_id
  <2> QED BY <2>1, <2>2, <2>3, <2>4, <2>5, InsertKeeps, QuarantineKeeps, AnswerKeeps DEF Next
<1> QED BY <1>1, IngestInit, PTL DEF Spec

----------------------------------------------------------------------------
(* What the tables promise.                                                *)

\* INSERT OR IGNORE dedupes over any number of connections, restarts and the
\* bridge (ingest.py:382): one caller at most hears INSERTED for an event id,
\* and the id of any answer has its row.
THEOREM DedupeHolds == Spec => [](TypeOK /\ InsertedOnce)
<1>1. IngestInv => TypeOK /\ InsertedOnce
  BY DEF IngestInv, FirstOk, AnswersOk, InsertedOnce, InputsOf
<1> QED BY <1>1, IngestHolds, PTL

\* What was accepted has a row of its own source and business id, and every
\* rejection somebody heard of is a row in quarantine.
THEOREM InputsAreKept == Spec => []NothingIsLost
<1>1. IngestInv => NothingIsLost
  <2> SUFFICES ASSUME IngestInv, NEW p \in Inputs
               PROVE  /\ WasTold(p, "INSERTED") \/ WasTold(p, "DUPLICATE") =>
                           \E e \in EventIds : /\ normalized[e] # NoRow
                                               /\ normalized[e].source = p.source
                                               /\ normalized[e].reference = p.reference
                      /\ told[p]["REJECTED"] <= rejected[p]
    BY DEF NothingIsLost
  <2>1. told[p]["REJECTED"] <= rejected[p]
    <3>1. /\ IsFiniteSet(Rejecting(p))
          /\ told[p]["REJECTED"] + Cardinality(Rejecting(p)) <= rejected[p]
          /\ told[p]["REJECTED"] \in Nat /\ rejected[p] \in Nat /\ Cardinality(Rejecting(p)) \in Nat
      BY FS_CardinalityType DEF IngestInv, QuarantineOk, TypeOK, Outcome
    <3> QED BY <3>1
  <2>2. ASSUME WasTold(p, "INSERTED") \/ WasTold(p, "DUPLICATE")
        PROVE  \E e \in EventIds : /\ normalized[e] # NoRow
                                   /\ normalized[e].source = p.source
                                   /\ normalized[e].reference = p.reference
    <3>1. event_id(p) \in EventIds /\ normalized[event_id(p)] # NoRow
      BY <2>2 DEF IngestInv, AnswersOk
    <3>2. event_id(normalized[event_id(p)]) = event_id(p)
      BY <3>1 DEF IngestInv, RowsOk
    <3> QED BY <3>1, <3>2 DEF event_id
  <2> QED BY <2>1, <2>2
<1> QED BY <1>1, IngestHolds, PTL
=============================================================================
