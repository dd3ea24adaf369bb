----------------------------- MODULE MCIngest -----------------------------
\* Ingest with a few payloads that collide or fail in different ways.
EXTENDS Ingest

CONSTANTS c1, c2, i1, noReference, noEntity

From(source, live) ==
    [source |-> source, reference |-> i1, customer |-> "named", contact |-> TRUE,
     amount |-> "good", time |-> "good", live |-> live]
Card == From("card_failure", FALSE)
Live == [From("card_failure", TRUE) EXCEPT !.customer = "missing", !.contact = FALSE]
Mandate == From("mandate_failure", FALSE)

\* A failed card payment from the batch, the same one live and from a
\* customer nobody knows, one without contact, a mandate with the same
\* business id and an empty customer, and amounts, times, ids and sources
\* that are refused.
MCPayloads ==
    {Card, Live, [Card EXCEPT !.contact = FALSE],
     [Mandate EXCEPT !.customer = "empty"], [Mandate EXCEPT !.amount = "huge"],
     [Card EXCEPT !.amount = "infinite"], [Live EXCEPT !.time = "bad"],
     [Live EXCEPT !.reference = noEntity], From("other", FALSE)}
============================================================================
