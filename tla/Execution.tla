----------------------------- MODULE Execution -----------------------------
(***************************************************************************)
(* app/execution: executors and reconcilers that share one SQLite ledger   *)
(* (execution_intents, execution_outcomes) and one payment provider.       *)
(*                                                                         *)
(* Every ledger call of the code opens its own connection and commits, so  *)
(* each is one action here, and any step of another process may come       *)
(* between two of them.  A POST and the provider's answer to it are        *)
(* separate steps: a client may time out before the provider sees the      *)
(* request, or after it acted on it.  A process may die between any two    *)
(* steps; the ledger and the provider survive, its locals do not.          *)
(*                                                                         *)
(* All statements of the ledger filter on idem_key and order by id, so the *)
(* outcomes table is kept as one sequence of rows per key.                 *)
(***************************************************************************)
EXTENDS Integers, Sequences, FiniteSets

CONSTANTS
    Workers,      \* processes that call execute()
    Reconcilers,  \* processes that run reconcile()
    Keys,         \* idem_keys, one per (event_id, action_type, attempt_n)
    Payloads,     \* request bodies, equal iff their fingerprints are
    MaxAttempts,  \* first send + len(_BACKOFFS_S) retries
    NoIntent,     \* no row in execution_intents
    NoLink        \* no payment link under this reference_id

ASSUME AttemptsAssumption == MaxAttempts \in Nat \ {0}
ASSUME SomeAssumption     == Keys # {} /\ Payloads # {}
ASSUME AbsentAssumption   == NoIntent \notin Payloads /\ NoLink \notin Payloads

Statuses == {"SENT", "DUPLICATE", "FAILED_RETRIABLE", "FAILED_TERMINAL"}
TERMINAL_STATUSES == {"SENT", "DUPLICATE", "FAILED_TERMINAL"}

\* An ExecutionResult; hasRef tells whether provider_ref is set.  Within one
\* key every reference is the id of the one link the provider holds for it.
\* mismatch is the error "idem_key_payload_mismatch"; no other error is read.
Result == [status : Statuses, hasRef : BOOLEAN, mismatch : BOOLEAN]
Answered(status, ref) == [status |-> status, hasRef |-> ref, mismatch |-> FALSE]
Sent(ref) == Answered("SENT", ref)
Duplicate(ref) == Answered("DUPLICATE", ref)
Retriable == Answered("FAILED_RETRIABLE", FALSE)
Rejected == Answered("FAILED_TERMINAL", FALSE)
Mismatch == [status |-> "FAILED_TERMINAL", hasRef |-> FALSE, mismatch |-> TRUE]
IsTerminal(r) == r.status \in TERMINAL_STATUSES

VARIABLES
    intents,   \* execution_intents: key -> fingerprinted payload
    outcomes,  \* execution_outcomes: key -> rows in id order
    link,      \* the provider: key -> payload of the link it created
    late,      \* POSTs whose client gave up while they were on the network
    posts,     \* history: POSTs ever made under a key
    told,      \* history: terminal results execute() returned, per key
    pc, call, tries, res,     \* executor locals
    rpc, todo, cur            \* reconciler locals

ledger == <<intents, outcomes>>
provider == <<link, late, posts>>
executors == <<pc, call, tries, res>>
reconcilers == <<rpc, todo, cur>>
vars == <<intents, outcomes, link, late, posts, told,
          pc, call, tries, res, rpc, todo, cur>>

Sending == {"post", "await", "answered", "lookup", "record"}
WorkerPC == Sending \cup {"idle", "intent", "terminal", "mismatch", "latest",
                          "insert", "lost"}
ReconcilerPC == {"idle", "next", "lookup", "adopt"}
Calls == [key : Keys, payload : Payloads]
NoCall == CHOOSE c \in Calls : TRUE   \* what an idle worker's locals hold
key(w) == call[w].key
payload(w) == call[w].payload

TypeOK ==
    /\ intents \in [Keys -> Payloads \cup {NoIntent}]
    /\ outcomes \in [Keys -> Seq(Result)]
    /\ link \in [Keys -> Payloads \cup {NoLink}]
    /\ late \subseteq Calls
    /\ posts \in [Keys -> Nat]
    /\ told \in [Keys -> SUBSET Result]
    /\ pc \in [Workers -> WorkerPC]
    /\ call \in [Workers -> Calls]
    /\ tries \in [Workers -> 0..MaxAttempts]
    /\ res \in [Workers -> Result]
    /\ rpc \in [Reconcilers -> ReconcilerPC]
    /\ todo \in [Reconcilers -> SUBSET Keys]
    /\ cur \in [Reconcilers -> Keys]

Init ==
    /\ intents = [k \in Keys |-> NoIntent]
    /\ outcomes = [k \in Keys |-> << >>]
    /\ link = [k \in Keys |-> NoLink]
    /\ late = {}
    /\ posts = [k \in Keys |-> 0]
    /\ told = [k \in Keys |-> {}]
    /\ pc = [w \in Workers |-> "idle"]
    /\ call = [w \in Workers |-> NoCall]
    /\ tries = [w \in Workers |-> 0]
    /\ res = [w \in Workers |-> Retriable]
    /\ rpc = [r \in Reconcilers |-> "idle"]
    /\ todo = [r \in Reconcilers |-> {}]
    /\ cur = [r \in Reconcilers |-> CHOOSE k \in Keys : TRUE]

----------------------------------------------------------------------------
(* The ledger's queries and its one append.                                *)

TerminalRows(k) == {i \in DOMAIN outcomes[k] : IsTerminal(outcomes[k][i])}
HasTerminal(k) == TerminalRows(k) # {}

\* terminal_outcome: the FIRST terminal row of the key.
TerminalOutcome(k) ==
    outcomes[k][CHOOSE i \in TerminalRows(k) : \A j \in TerminalRows(k) : i <= j]

\* latest_outcome: the LAST row of the key.
HasOutcome(k) == outcomes[k] # << >>
LatestOutcome(k) == outcomes[k][Len(outcomes[k])]

AppendOutcome(k, r) == outcomes' = [outcomes EXCEPT ![k] = Append(@, r)]

----------------------------------------------------------------------------
(* execute(): one action per ledger call or network step.                  *)

Goto(w, from, to) == pc[w] = from /\ pc' = [pc EXCEPT ![w] = to]

\* The call is over and its locals are gone.
End(w) ==
    /\ pc' = [pc EXCEPT ![w] = "idle"]
    /\ call' = [call EXCEPT ![w] = NoCall]
    /\ tries' = [tries EXCEPT ![w] = 0]
    /\ res' = [res EXCEPT ![w] = Retriable]

\* The call hands r to its caller; terminal answers are remembered.
Return(w, r) ==
    /\ End(w)
    /\ told' = IF IsTerminal(r) THEN [told EXCEPT ![key(w)] = @ \cup {r}]
                                ELSE told

\* execute(..., payload) is called: steps (a), init_execution_ledger.
Begin(w, c) ==
    /\ Goto(w, "idle", "intent")
    /\ call' = [call EXCEPT ![w] = c]
    /\ UNCHANGED <<ledger, provider, told, tries, res, reconcilers>>

\* get_intent
LookIntent(w) ==
    /\ \/ intents[key(w)] = NoIntent /\ Goto(w, "intent", "insert")
       \/ intents[key(w)] # NoIntent /\ Goto(w, "intent", "terminal")
    /\ UNCHANGED <<ledger, provider, told, call, tries, res, reconcilers>>

\* (b) a terminal outcome is returned with no provider call
ReturnTerminal(w) ==
    /\ pc[w] = "terminal" /\ HasTerminal(key(w))
    /\ Return(w, TerminalOutcome(key(w)))
    /\ UNCHANGED <<ledger, provider, reconcilers>>

\* Mutant: wait here for the call that holds the intent to finish.
CompareFingerprint_Polls(w) ==
    /\ ~HasTerminal(key(w))
    /\ \/ intents[key(w)] # payload(w) /\ Goto(w, "terminal", "mismatch")
       \/ intents[key(w)] = payload(w) /\ Goto(w, "terminal", "intent")
    /\ UNCHANGED <<ledger, provider, told, call, tries, res, reconcilers>>

\* no terminal outcome: compare fingerprints
CompareFingerprint(w) ==
    /\ ~HasTerminal(key(w))
    /\ \/ intents[key(w)] # payload(w) /\ Goto(w, "terminal", "mismatch")
       \/ intents[key(w)] = payload(w) /\ Goto(w, "terminal", "latest")
    /\ UNCHANGED <<ledger, provider, told, call, tries, res, reconcilers>>

\* Mutant: the mismatch is reported and not recorded.
RecordMismatch_Unrecorded(w) ==
    /\ pc[w] = "mismatch"
    /\ Return(w, Mismatch)
    /\ UNCHANGED <<ledger, provider, reconcilers>>

\* (c) same key, other payload: record the failure, send nothing
RecordMismatch(w) ==
    /\ pc[w] = "mismatch"
    /\ AppendOutcome(key(w), Mismatch)
    /\ Return(w, Mismatch)
    /\ UNCHANGED <<intents, provider, reconcilers>>

\* same key, same payload, unfinished: report, leave recovery to reconcile()
ReturnLatest(w) ==
    /\ pc[w] = "latest"
    /\ Return(w, IF HasOutcome(key(w)) THEN LatestOutcome(key(w)) ELSE Retriable)
    /\ UNCHANGED <<ledger, provider, reconcilers>>

\* Mutant: INSERT OR REPLACE, no primary-key lock.
InsertIntent_Replaces(w) ==
    /\ Goto(w, "insert", "post")
    /\ intents' = [intents EXCEPT ![key(w)] = payload(w)]
    /\ tries' = [tries EXCEPT ![w] = 0]
    /\ UNCHANGED <<outcomes, provider, told, call, res, reconcilers>>

\* (d) insert_intent commits: this call alone may send
InsertIntent(w) ==
    /\ intents[key(w)] = NoIntent
    /\ Goto(w, "insert", "post")
    /\ intents' = [intents EXCEPT ![key(w)] = payload(w)]
    /\ tries' = [tries EXCEPT ![w] = 0]
    /\ UNCHANGED <<outcomes, provider, told, call, res, reconcilers>>

\* Mutant: INSERT OR IGNORE, then send all the same.
LosePrimaryKeyRace_Sends(w) ==
    /\ intents[key(w)] # NoIntent
    /\ Goto(w, "insert", "post")
    /\ UNCHANGED <<ledger, provider, told, call, tries, res, reconcilers>>

\* IntegrityError: another call inserted first
LosePrimaryKeyRace(w) ==
    /\ intents[key(w)] # NoIntent
    /\ Goto(w, "insert", "lost")
    /\ UNCHANGED <<ledger, provider, told, call, tries, res, reconcilers>>

ReturnAfterRace(w) ==
    /\ pc[w] = "lost"
    /\ Return(w, IF HasTerminal(key(w)) THEN TerminalOutcome(key(w)) ELSE Retriable)
    /\ UNCHANGED <<ledger, provider, reconcilers>>

\* client.send puts a POST on the network
Post(w) ==
    /\ Goto(w, "post", "await")
    /\ tries' = [tries EXCEPT ![w] = @ + 1]
    /\ posts' = [posts EXCEPT ![key(w)] = @ + 1]
    /\ UNCHANGED <<ledger, link, late, told, call, res, reconcilers>>

\* The provider acts on the POST: it creates the link of a fresh reference_id
\* (data.get("id") is None if the body does not name it), refuses a
\* reference_id it knows, or fails (5xx) or refuses (4xx: bad body,
\* rate limit) without acting.
Arrive(w) ==
    /\ Goto(w, "await", "answered")
    /\ \/ /\ link[key(w)] = NoLink
          /\ link' = [link EXCEPT ![key(w)] = payload(w)]
          /\ \E ref \in BOOLEAN : res' = [res EXCEPT ![w] = Sent(ref)]
       \/ /\ link[key(w)] # NoLink
          /\ res' = [res EXCEPT ![w] = Duplicate(FALSE)]
          /\ UNCHANGED link
       \/ /\ \E r \in {Retriable, Rejected} : res' = [res EXCEPT ![w] = r]
          /\ UNCHANGED link
    /\ UNCHANGED <<ledger, late, posts, told, call, tries, reconcilers>>

\* _call_with_retries: again while retriable and attempts are left
AfterSend(w, r) ==
    IF r = Retriable /\ tries[w] < MaxAttempts THEN "post" ELSE "record"

\* The answer reaches the client; a duplicate-reference 400 is looked up.
Receive(w) ==
    /\ Goto(w, "answered", IF res[w].status = "DUPLICATE" THEN "lookup"
                           ELSE AfterSend(w, res[w]))
    /\ UNCHANGED <<ledger, provider, told, call, tries, res, reconcilers>>

\* GET /v1/payment_links?reference_id: an error or timeout finds nothing
LookupDuplicate(w) ==
    /\ Goto(w, "lookup", "record")
    /\ \E found \in BOOLEAN :
          /\ found => link[key(w)] # NoLink
          /\ res' = [res EXCEPT ![w] = Duplicate(found)]
    /\ UNCHANGED <<ledger, provider, told, call, tries, reconcilers>>

\* The socket times out or breaks.  A POST the provider has not seen yet is
\* lost or stays on the network without its client.
Abandon(w) ==
    IF pc[w] = "await" THEN late' \in {late, late \cup {call[w]}} ELSE late' = late

Timeout(w) ==
    /\ pc[w] \in {"await", "answered"}
    /\ pc' = [pc EXCEPT ![w] = AfterSend(w, Retriable)]
    /\ res' = [res EXCEPT ![w] = Retriable]
    /\ Abandon(w)
    /\ UNCHANGED <<ledger, link, posts, told, call, tries, reconcilers>>

LateArrival(c) ==
    /\ c \in late
    /\ late' = late \ {c}
    /\ link' = IF link[c.key] = NoLink THEN [link EXCEPT ![c.key] = c.payload] ELSE link
    /\ UNCHANGED <<ledger, posts, told, executors, reconcilers>>

\* (e) append_outcome, then return
RecordOutcome(w) ==
    /\ pc[w] = "record"
    /\ AppendOutcome(key(w), res[w])
    /\ Return(w, res[w])
    /\ UNCHANGED <<intents, provider, reconcilers>>

\* SIGKILL, or an exception no except clause of execute() catches
Crash(w) ==
    /\ pc[w] # "idle"
    /\ End(w)
    /\ Abandon(w)
    /\ UNCHANGED <<ledger, link, posts, told, reconcilers>>

----------------------------------------------------------------------------
(* reconcile(): a snapshot of the intents, then one intent after another.  *)

RGoto(r, from, to) == rpc[r] = from /\ rpc' = [rpc EXCEPT ![r] = to]

\* all_intents
Scan(r) ==
    /\ RGoto(r, "idle", "next")
    /\ todo' = [todo EXCEPT ![r] = {k \in Keys : intents[k] # NoIntent}]
    /\ UNCHANGED <<ledger, provider, told, executors, cur>>

\* latest_outcome is terminal: nothing to do for this intent
SkipTerminal(r, k) ==
    /\ rpc[r] = "next" /\ k \in todo[r]
    /\ HasOutcome(k) /\ IsTerminal(LatestOutcome(k))
    /\ todo' = [todo EXCEPT ![r] = @ \ {k}]
    /\ UNCHANGED <<ledger, provider, told, executors, rpc, cur>>

\* Mutants: every intent is looked up again; only intents with no row are.
TakeOpen_All(r, k) ==
    /\ k \in todo[r]
    /\ RGoto(r, "next", "lookup")
    /\ cur' = [cur EXCEPT ![r] = k]
    /\ todo' = [todo EXCEPT ![r] = @ \ {k}]
    /\ UNCHANGED <<ledger, provider, told, executors>>

TakeOpen_MissingOnly(r, k) ==
    /\ k \in todo[r] /\ ~HasOutcome(k)
    /\ RGoto(r, "next", "lookup")
    /\ cur' = [cur EXCEPT ![r] = k]
    /\ todo' = [todo EXCEPT ![r] = @ \ {k}]
    /\ UNCHANGED <<ledger, provider, told, executors>>

TakeOpen(r, k) ==
    /\ k \in todo[r]
    /\ ~(HasOutcome(k) /\ IsTerminal(LatestOutcome(k)))
    /\ RGoto(r, "next", "lookup")
    /\ cur' = [cur EXCEPT ![r] = k]
    /\ todo' = [todo EXCEPT ![r] = @ \ {k}]
    /\ UNCHANGED <<ledger, provider, told, executors>>

\* Mutant: a lookup that found nothing is adopted too.
FindLink_Unchecked(r) ==
    /\ RGoto(r, "lookup", "adopt")
    /\ UNCHANGED <<ledger, provider, told, executors, todo, cur>>

\* client.lookup finds the link ...
FindLink(r) ==
    /\ link[cur[r]] # NoLink
    /\ RGoto(r, "lookup", "adopt")
    /\ UNCHANGED <<ledger, provider, told, executors, todo, cur>>

\* ... or not: no link yet, or the GET failed; the key stays open
FindNothing(r) ==
    /\ RGoto(r, "lookup", "next")
    /\ UNCHANGED <<ledger, provider, told, executors, todo, cur>>

\* Only what has a provider_ref is adopted.
Adopt(r) ==
    /\ RGoto(r, "adopt", "next")
    /\ AppendOutcome(cur[r], Sent(TRUE))
    /\ UNCHANGED <<intents, provider, told, executors, todo, cur>>

EndScan(r) ==
    /\ todo[r] = {}
    /\ RGoto(r, "next", "idle")
    /\ UNCHANGED <<ledger, provider, told, executors, todo, cur>>

CrashReconciler(r) ==
    /\ rpc[r] # "idle"
    /\ rpc' = [rpc EXCEPT ![r] = "idle"]
    /\ todo' = [todo EXCEPT ![r] = {}]
    /\ UNCHANGED <<ledger, provider, told, executors, cur>>

----------------------------------------------------------------------------
ExecuteStep(w) ==
    \/ LookIntent(w) \/ ReturnTerminal(w) \/ CompareFingerprint(w)
    \/ RecordMismatch(w) \/ ReturnLatest(w) \/ InsertIntent(w)
    \/ LosePrimaryKeyRace(w) \/ ReturnAfterRace(w) \/ Post(w) \/ Arrive(w)
    \/ Receive(w) \/ LookupDuplicate(w) \/ Timeout(w) \/ RecordOutcome(w)

ReconcileStep(r) ==
    \/ \E k \in Keys : SkipTerminal(r, k) \/ TakeOpen(r, k)
    \/ FindLink(r) \/ FindNothing(r) \/ Adopt(r) \/ EndScan(r)

Next ==
    \/ \E w \in Workers :
          \/ \E c \in Calls : Begin(w, c)
          \/ ExecuteStep(w)
          \/ Crash(w)
    \/ \E c \in Calls : LateArrival(c)
    \/ \E r \in Reconcilers : Scan(r) \/ ReconcileStep(r) \/ CrashReconciler(r)

Spec == Init /\ [][Next]_vars

\* A call that is running takes its next step: the code never waits on
\* another process, and every network wait ends by _HTTP_TIMEOUT_S.
Fairness ==
    /\ \A w \in Workers : WF_vars(ExecuteStep(w))
    /\ \A r \in Reconcilers : WF_vars(ReconcileStep(r))

FairSpec == Spec /\ Fairness

\* An operator who reruns reconcile() for ever, crashes or not, against a
\* provider that answers GETs again and again.
Operator ==
    \A r \in Reconcilers :
        /\ WF_vars(Scan(r))
        /\ SF_vars(\E k \in Keys : SkipTerminal(r, k) \/ TakeOpen(r, k))
        /\ SF_vars(FindLink(r))
        /\ SF_vars(Adopt(r))

OperatedSpec == FairSpec /\ Operator
============================================================================
