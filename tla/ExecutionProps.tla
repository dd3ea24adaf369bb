--------------------------- MODULE ExecutionProps ---------------------------
(***************************************************************************)
(* The correctness properties of app/execution.                            *)
(***************************************************************************)
EXTENDS Execution

----------------------------------------------------------------------------
(* Safety.                                                                 *)

\* However many workers race, crash and call again with one key, the key sees
\* at most one execute() call's worth of POSTs: the first send and its
\* retries (executor.py:13-16, the PRIMARY KEY is the lock).
PostsBounded == \A k \in Keys : posts[k] <= MaxAttempts

\* At any time at most one worker is between its insert_intent and its
\* append_outcome for a key.
SoleSender ==
    \A v, w \in Workers :
        v # w /\ pc[v] \in Sending /\ pc[w] \in Sending => key(v) # key(w)

\* Intent before send: whatever link the provider holds was asked for by a
\* committed intent, with the very payload that intent fingerprinted; this
\* covers POSTs that arrive after their client gave up or died.
LinkFromIntent == \A k \in Keys : link[k] # NoLink => intents[k] = link[k]

\* A provider_ref on the ledger, and a SENT told to a caller, is backed by a
\* link at the provider.
RefsAreReal ==
    \A k \in Keys :
        /\ \A i \in DOMAIN outcomes[k] : outcomes[k][i].hasRef => link[k] # NoLink
        /\ \A r \in told[k] : r.hasRef => link[k] # NoLink

\* What makes the four invariants above inductive: only the call that
\* committed the intent sends, its POSTs are all the POSTs of the key, ...
SenderOwnsKey ==
    \A w \in Workers : pc[w] \in Sending =>
        /\ intents[key(w)] = payload(w)
        /\ posts[key(w)] = tries[w]
        /\ pc[w] = "post" => tries[w] < MaxAttempts

\* ... nothing happened under a key nobody claimed, an abandoned POST carries
\* the claimed payload, ...
NothingBeforeIntent ==
    /\ \A k \in Keys : intents[k] = NoIntent => posts[k] = 0 /\ link[k] = NoLink
    /\ \A c \in late : intents[c.key] = c.payload

\* ... and a reference in hand, not on the ledger yet, is real too.
RefsInHandAreReal ==
    /\ \A w \in Workers :
          res[w].hasRef => pc[w] \in Sending /\ link[key(w)] # NoLink
    /\ \A r \in Reconcilers : rpc[r] = "adopt" => link[cur[r]] # NoLink

SenderInv == PostsBounded /\ SoleSender /\ LinkFromIntent
             /\ SenderOwnsKey /\ NothingBeforeIntent
RefInv == RefsAreReal /\ RefsInHandAreReal

\* A terminal answer given to a caller survives every crash: it is a row of
\* the ledger (append_outcome commits before execute returns).
AnswersAreRecorded ==
    \A k \in Keys : \A r \in told[k] : \E i \in DOMAIN outcomes[k] : outcomes[k][i] = r

IndInv == TypeOK /\ SenderInv /\ RefInv /\ AnswersAreRecorded

\* How the docs have the two commands used: one reconcile() at a time and only
\* while no execute() runs, and every call for a key with the same payload.
Orderly ==
    /\ (\A w \in Workers : pc[w] = "idle") \/ (\A r \in Reconcilers : rpc[r] = "idle")
    /\ \A q, r \in Reconcilers : rpc[q] # "idle" /\ rpc[r] # "idle" => q = r
    /\ \A w \in Workers : pc[w] # "idle" => intents[key(w)] \in {NoIntent, payload(w)}

\* "By construction there is at most one" terminal outcome (ledger.py:151).
\* Holds as long as the use is Orderly.
AtMostOneTerminal == \A k \in Keys : Cardinality(TerminalRows(k)) <= 1

\* Liveness: a call that began returns, and a reconcile pass finishes,
\* whatever the others do to the keys they share.
CallsAndScansEnd ==
    /\ \A w \in Workers : pc[w] # "idle" ~> pc[w] = "idle"
    /\ \A r \in Reconcilers : rpc[r] # "idle" ~> rpc[r] = "idle"

\* What accounts for a link: a row that says it was sent.  A FAILED_TERMINAL
\* row says the opposite and makes reconcile() skip the key for ever.
Accounted(k) == \E i \in DOMAIN outcomes[k] : outcomes[k][i].status \in {"SENT", "DUPLICATE"}
Refused(k) == \E i \in DOMAIN outcomes[k] : outcomes[k][i].status = "FAILED_TERMINAL"
Rejects(k) == \E i \in DOMAIN outcomes[k] : outcomes[k][i] = Rejected

\* Liveness: under a key where no call is ever refused, whoever dies, times out
\* or is too early, a link the customer received gets a row that says so if
\* reconcile() is rerun (reconcile.py:30-44).
LinksAreSettled ==
    \A k \in Keys : []~Refused(k) => (link[k] # NoLink ~> Accounted(k))

\* "reconcile adopts crashed / retriable sends from the provider"
\* (execution/__init__.py:7-9), so a link gets its row unless the provider
\* itself answered a POST of the key with a rejection.  The code does not: a
\* call with another payload leaves a FAILED_TERMINAL row beside a send that
\* then dies (executor.py:85-90), and reconcile() passes over the key.
CrashedSendsAreAdopted ==
    \A k \in Keys : []~Rejects(k) => (link[k] # NoLink ~> Accounted(k))

\* The ledger implements the abstract promise of NudgeOnce.
Nudges == INSTANCE NudgeOnce WITH
    Unclaimed <- NoIntent, Unsent <- NoLink,
    claim <- intents, nudge <- link,
    confirmed <- {k \in Keys : \E i \in DOMAIN outcomes[k] : outcomes[k][i].hasRef}
NudgeOncePromise == Nudges!Spec
=============================================================================
