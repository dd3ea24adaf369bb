----------------------------- MODULE MCWebhook -----------------------------
\* Webhook with small sets of deliveries.
EXTENDS Webhook

CONSTANTS e1, e2, e3, e4, p1, p2, noId, noPayment

Message(id, p, kind) ==
    [id |-> id, payment |-> p, kind |-> kind, signed |-> TRUE]

Forged(d) == [d EXCEPT !.signed = FALSE]

\* Two failures and a capture of one payment, an authorization, and a forged
\* capture under the id of the first failure.
OnePayment == {Message(e1, p1, "failed"), Message(e2, p1, "failed"),
               Message(e3, p1, "captured"), Message(e4, p1, "unhandled"),
               Forged(Message(e1, p1, "captured"))}

\* One payment fails and is captured, another fails; one body names none.
TwoPayments == {Message(e1, p1, "failed"), Message(e2, p1, "captured"),
                Message(e3, p2, "failed"), Message(noId, noPayment, "failed")}

\* A failure and its capture, and deliveries that end in an error: no event
\* id, no object, no JSON.
Errors == {Message(e1, p1, "failed"), Message(e2, p1, "captured"),
           Message(noId, p1, "failed"), Message(e3, noPayment, "scalar"),
           Message(e4, noPayment, "malformed")}
============================================================================
