----------------------------- MODULE MCLlmTail -----------------------------
\* One event of each kind: ambiguous, told by its code, told to be unknown,
\* and one with a label nobody knows; the accept path off, and on.
EXTENDS LlmTail

CONSTANTS ambiguous, told, untold, mislabelled, c1, c2, other

MCLabel == [e \in Events |-> CASE e = ambiguous   -> c1
                               [] e = told        -> c2
                               [] e = untold      -> Unknown
                               [] e = mislabelled -> other]

MCErrorCode == [e \in Events |-> IF e = ambiguous THEN "BAD_REQUEST_ERROR"
                                 ELSE "GATEWAY_ERROR"]
============================================================================
