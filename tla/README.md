# AI Revenue Recovery in TLA+

The repository watches failed payments at a merchant, decides whether and how
to win each of them back, and sends a payment link for those it chooses. It is
a FastAPI process and some batch scripts over one SQLite file. This directory
models the parts that keep state and act, checks them with TLC on small
instances, and proves each safety property that those runs check for every
instance: of the execution layer, the webhook receiver, the decision pipeline
with its guardrails, the decision engine, the dashboard with its audit, ingest,
the LLM tail and the label harness.

File names without a directory are under `src/app/`.

## 1. The system

| Part | State it keeps | Operations | Talks to |
|---|---|---|---|
| Webhook receiver (`main.py`, `db.py`, `security.py`) | `webhook_events`, `events`, `audit` | `POST /webhooks/razorpay`: verify, store raw, parse, create or update the event, audit, start the decision | provider (deliveries, retried until a 200); pipeline (direct call, exceptions swallowed) |
| Ingest (`ingest.py`) | `normalized_events`, `rejected_events`, counters | three adapters, quarantine, `INSERT OR IGNORE` per `event_id` | called by the pipeline's live bridge and by the corpus scripts |
| Decision pipeline (`pipeline.py`, `decision/store.py`) | `decisions` | `ingest_live_failure`, `process_failure` | engine (pure call), guardrails (reads, then commits), audit |
| Decision engine (`decision/engine.py`, `decision_policy.json`) | none | `decide_with_ladder`: gates, expected values, ranking, routing | - |
| Guardrails (`guardrails.py`, `guardrails.json`) | `guardrail_evaluations`, `spend_ledger`, `suppression_list` | load the state, evaluate seven predicates per rung, walk down the ladder, record | operator: suppression list, kill switch |
| Execution (`execution/`) | `execution_intents`, `execution_outcomes` | `execute`, `reconcile` | provider: `POST` and `GET /v1/payment_links` |
| LLM tail (`llm_diagnosis.py`) | none; abandoned worker threads | `diagnose`, `apply` | model API; not called by the pipeline |
| Rules diagnosis, arms (`diagnosis.py`, `arms.py`) | none | code to cause, hash to arm | inputs of the engine |
| Dashboard (`dashboard/`) | none | `/not-chased`, `/metrics`, `/trace/{payment_id}`, `/decisions`, `/queue`: SELECTs on one read-only connection | the tables the pipeline and the receiver write |
| Metrics audit (`scripts/audit_metrics.py`) | none | derives the live page's figures another way and compares | dashboard, tables |
| Measurement (`eval/`) | none | uplift over a synthetic corpus; who was vetoed, from the guardrail log | `guardrail_evaluations` |
| Label harness (`tools/label_harness.py`) | `labels/blind_sample.json`, `labels/_truth_manifest.json` | `schema`, `sample`, `label`, `score` | a person at the keyboard |
| Corpus and scripts (`datagen.py`, `scripts/`, `audit/`) | JSON and report files | one process, run by hand | the pipeline; the label harness reads what `datagen.py` wrote |

Nothing in the code holds a transaction across two statements of different
helpers: nearly every helper opens a connection, executes, commits and closes.
Between two of them any other process may commit, and a death leaves the first
without the second. That is where most of what is hard here comes from:

* **Execution.** A process is the lock holder of a business attempt once its
  `INSERT` into `execution_intents` commits; the POST, its retries, the answer
  and the outcome row follow as separate steps. Hard: two processes with one
  key; a POST that is still on the network when its client gave up; a death
  between link and row; the duplicate answer whose lookup fails; `reconcile`
  next to a running `execute`. Correct if one call sends, within its retry
  budget and with the payload on record; if no reference is invented; if the
  ledger covers everything a caller was told; and if a link that exists is
  accounted for in the end.
* **Webhook receiver.** At-least-once deliveries in any order, several server
  processes, deaths between the commits of one delivery, deliveries that end
  in an error after a commit. Correct if a status is never ahead of the
  deliveries and never goes back, if one delivery has one effect, if the audit
  trail never runs ahead of the tables, and if deliveries get acknowledged.
* **Pipeline and guardrails.** Check-then-act on five separate reads, two
  callers for one payment, a death between evaluations, ledger row and
  decision row, caps counted over rows of several payments, a quiet window
  that wraps midnight. Correct if no action is committed without an open walk
  of its own call, no ACT without the row that counts it, opt-outs and the
  kill switch bind every later call, and (for one caller at a time) the caps
  hold and a payment is decided once.
* **Engine.** Pure: what matters is that the ranking is the order the walk
  relies on, that floor, review rule and hard gates agree with the expected
  values, and that control's shadow action is what treatment would have done.
* **LLM tail.** Retries only on transport failures, a hard gate in front of
  the money action, abandoned calls that answer late.
* **Ingest.** Several connections on one file, restarts, payloads that fail in
  different places, a bridge with laxer rules. Correct if one caller is told
  INSERTED for an event id, if nothing accepted or rejected goes missing, and
  if the bridge drops no failure it could keep.

* **Dashboard and audit.** A page is several SELECTs without a transaction, so
  it shows a state that never was. Correct if what it shows is nevertheless
  coherent in the direction a reader would draw conclusions from (no decision
  falls between the categories, no act without its send, no veto without its
  blocker), and if, with nobody writing, page and audit agree.
* **Label harness.** One person, two files, and data that may be generated anew
  between two commands. Correct if a draw is fair whatever the order of its
  filters does, if labels survive any interruption, if no row is passed over,
  and if labels meet the right key.

`PROJECT.json` lists the hazards with their lines and the properties that
cover each.

## 2. Modules

| Module | Models |
|---|---|
| `NudgeOnce` | the promise of the execution layer: claim a key, nudge once with the claimed payload, confirm only what was sent |
| `Execution` | `executor.py`, `ledger.py`, `client.py`, `razorpay_client.py`, `reconcile.py`, and the provider as the client sees it |
| `ExecutionProps` | properties of `Execution`, its inductive invariant, its refinement of `NudgeOnce` |
| `ExecutionProofs` | theorems about it (section 5) |
| `Webhook` | the POST handler over `db.py`, with its properties |
| `WebhookProofs` | theorems about it |
| `DecisionEngine`, `DecisionProps` | the engine as operators; every question it can be asked and what its answer promises |
| `DecisionProofs` | theorems about them |
| `Guardrails` | predicates and ladder walk, pure |
| `Pipeline`, `PipelineProps` | `process_failure` over its tables, extending `Guardrails`; what holds with any callers, and what holds in one process |
| `PipelineProofs` | theorems about the one and the other, and the facts about sums they need |
| `Dashboard` | a reader beside the callers of `Pipeline`: pages, audit script, the guardrail log's reduction, and what they promise |
| `DashboardProofs` | theorems about it |
| `LlmTail` | `llm_diagnosis.py`: `diagnose` with its worker threads, `apply`, and its properties |
| `LlmTailProofs` | theorems about it |
| `Ingest` | `ingest.py` and the live bridge of `pipeline.py`, with its properties |
| `IngestProofs` | theorems about it |
| `LabelHarness` | `tools/label_harness.py`: `sample`, `label`, `score`, and their properties |
| `LabelHarnessProofs` | theorems about it |
| `MC*` | instances for TLC |

Operators whose name carries an underscore suffix and whose comment begins
with "Mutant" are plausible bugs of the definition that follows them. They are
used by nothing; putting one in the place of its original must break the
property that `PROJECT.json` pairs it with.

### Execution

`intents` and `outcomes` are the two tables, per `idem_key`; every ledger query
filters on the key and orders by id, so a sequence per key is the whole table.
`link` is the provider's memory, at most one link per `reference_id`
(DECISIONS.md records that Razorpay refuses a second one). `late` holds POSTs
whose client is gone; each may still arrive or be lost. `posts` and `told` are
history variables: the code does not keep them, the properties talk about them.

A result is a status, whether it has a reference (`hasRef`; a 2xx whose body
names no id is a SENT without one), and whether it is the payload mismatch, the
one refusal that does not come from the provider. `Accounted` and `Rejects` tell
these apart.

`pc[w]` is a worker's place in `execute()`; the actions stand in the order of
the code, (a) to (e), one per ledger call or network event. `Return` wipes the
locals. `Crash` may strike anywhere and stands for SIGKILL and for exceptions
`execute` lets through. The provider may create the link, refuse a known
reference, fail or refuse without acting. `Timeout` covers a client that gives
up before or after the provider acted. A payload is a value that equals
another exactly when the fingerprints do; a reference needs no value, as within
one key there is only one link it can name.

`reconcile()` takes a snapshot of the intents, then judges each by its latest
row, and looks up those that are open. A found link is adopted as a SENT row.
The order of the keys is left open, as no property depends on it.

`Orderly` (in `ExecutionProps`) is how the docs have the two used: one
`reconcile()` at a time and none beside a running call, and one payload per
key. Nothing in the code enforces it, so it is no part of the specification;
what depends on it says so.

### Webhook

One action per commit of `razorpay_webhook`. The handler is `async` with its
only `await` in front of the first statement, so within a server process
deliveries do not overlap; `Servers` is the set of processes. `existing` is the
status read by `get_event`, used after other processes may have written: the
stale read is in the model. The pipeline is reduced to what the handler can see
of it. `audit` is a set of rows; a row that repeats an earlier one has `again`
set, so that a second effect of a delivery is a second row (only a third would
be merged with it). A NULL event id is `NoId`; SQLite lets NULL repeat in a
UNIQUE column and refuses it in `audit.event_id`, and both are modelled. A
failed signature check leaves no trace, so forged deliveries are never
received.

### DecisionEngine

Money and probabilities are scaled to integers (the header gives the units), so
comparisons are exact where the code rounds. The policy's numbers are those of
`config/decision_policy.json`. Diagnostics of the record that gate nothing
(lower bounds, rationale, hashes) are left out. The code takes the best rung
with `min` and the ranking with `sorted`, two calls with one key: `Before` is
the key's order, `Best` the rung that none is before, and `RankedRungs` puts in
place i the rung that i - 1 others are before. That this is a sorted
arrangement of all of them is a theorem (`RankingIsSorted`).

### Guardrails and Pipeline

`Guardrails` is the predicates in their precedence order, `evaluate_all` and
the walk. `Pipeline` runs callers through `process_failure`: load the row,
look for a decision on record, read history and decide, five reads for the
guardrail state, one commit per rung tried, the ledger row, the decision row.
`now_utc` is taken when the call begins and used throughout, as in the code:
an opt-out that arrives while a call is running is seen or not depending on
the read, and the properties say so (`ts <= optedOut`). `clock` ticks in
units of `24 h / Day`; `MCPipeline`'s are eight hours, and the first is 05:00.
What the engine makes of an event outside a cooldown is
the constant `EngineAnswer`, a terminal with its rung or reason, and the ladder it
hands over with an ACT the constant `Ranking`; `MCPipeline` asserts that both
are what `DecisionEngine` returns for its events and arms, and that costs and
channels are the policy's. `real_spend` is `_REAL_SPEND_ENABLED`, a constant of
the deployed code that an instance chooses in its initial states. So is
`one_process`: with it a call begins only when no other is under way, as in the
corpus run, which is a loop, and within one server, whose handler has no await
between `process_failure` and its return. A walk's blockers are a set, of which
`Primary` is the first in the order of precedence. The audit row of a decision
is written in the transaction of `RecordDecision`.

### Dashboard

`queries` holds the SELECTs of the open page that have not run yet, in the
order of the code, and `seen` what the others returned; `Select` runs the next
one against the tables of that moment. What the engine is assumed to answer
(`EngineAssumption`) is what `DecisionProofs.AnswersAreWellFormed` shows of every
answer it gives. `calm` remembers whether a call of
`process_failure` was under way while the page was read. `/not-chased` counts
terminals and then its eight categories; the live page counts terminals, skip
reasons, arms, cost, sends, debits and rungs; a trace reads its decision, the
event id of the decision's audit row, and the evaluations of the rung it
explains. The audit script runs the live page's queries and then its own, in
one step, as nothing is claimed about an audit that runs beside writers.
Amounts withheld, sentences and the cards about recoveries and uplift are left
out. `FullyBlocked` is `blocked_customers_from_guardrail_log`, for an event.

`DecisionEngine.TraceBest` is the loop by which the trace page scores the
ladder again, in ladder order with a strict comparison, where the engine sorts
by value and cost.

### LabelHarness

The two files are values: absent, torn (opened for writing, the process then
killed), or rows and key. `sample` empties and writes one file after the
other; `label` replaces its file in one step after every keystroke, so a
keystroke is an action. The random top-up and the shuffle are a choice over
all outcomes (`Draws`, `SetToSeqs`). `Quit` is q and every interrupt the key
reader takes for q; `Kill` is a death, and an interrupt at the note prompt.

`Regenerate` is `datagen.py` run between two commands: other events and another
truth, with ids that begin at 1 again. An event may be without an id, and ids
may repeat; then no field of the corpus identifies its rows (`HasIds`), and they
are known by their place in the filtered and collapsed list of that draw
(`RowId`, `Index`). `Args` are the command line's: any integer for `--n` and
`--min-per-class`, grouping by customer, by another field, which an event may
lack, or not at all. The order of ids is that of numbers, where the code
compares strings; datagen's and the made-up ones are padded to one length.

Four variables are history. `said` is what the person last said of each row of
the present sample, and nothing but a keystroke that says something else changes
it; `givenUp` is the rows left without a label at the note prompt since then;
`source` is the data from which the sample and the key were drawn; `whole` is
whether the last `sample` wrote both its files.

### LlmTail

Each event is a process: nothing is shared between two `diagnose` calls, and
the caller may run them in any order. `threads[e]` is one daemon thread per
attempt; it stays "running" or ends with what it returned or raised, at any
time, also when its attempt was given up. `Join` and `CheckAlive` are two
actions, as in the code: an answer that comes in between counts. Which events
are ambiguous follows from their error code; how an answer parses is data: an
answer is a cause, "bad_output", "too_deep" (the text makes `json.loads` raise a
RecursionError, which `parse_output` does not catch, so that it leaves
`diagnose`: `Escape`), or one of two kinds of exception (an OSError is retried,
as is a deadline; anything else ends the tail). A call that an exception left is
at "raised". `TAIL_ACT_ENABLED` is a variable chosen in the initial states and
never changed. `spend` and `enqueue` are the caller's callbacks, recorded as
history.

### Ingest

An Ingestor is a process with a connection of its own. A payload is a record of
what the adapters can tell apart; `Reason` is their verdict in the order of
their checks, and as a row is a pure function of its payload, the table holds
the payload. `ingest` is one action up to the adapter's verdict, one per
commit, and one for the count and the answer. `Raise` is a statement that
fails: an amount beyond 64 bits, or a lock held longer than the busy timeout.
`Restart` is `close()` or a death, followed by a new Ingestor with counters at
zero. A payload with `live` goes through `ingest_live_failure`, which fills in
the customer, allows a missing contact, uses an Ingestor of its own (so that
the counters of the caller's stay as they are), and turns a body without an
entity away before anything is written.

## 3. Runs

The largest passing runs, `MCPipeline`, `MCLabelHarness` and `MCWebhookRace`,
take about two minutes, the others less than one. Bounds are constants:
`MaxCrashes`, `MaxTime`, `MaxAttempts`, `MaxRetries`, `MaxCalls`, `Operator`,
and the sizes of the sets. Where one configuration holds several scenes, a
variable `scene` of the MC module is chosen in the initial states and says
which bounds and which restrictions hold from then on; it restricts behaviours
and changes no action.

| Run | Instance | Question |
|---|---|---|
| `MCExecutionScenes` | race: 2 workers, 2 reconcilers, 1 key, 2 payloads, 4 attempts; startup: 2 keys, 1 payload, reconcile at startup only | Do races, retries, late POSTs and deaths leave one sender, true references, a row for every answer, and is `NudgeOnce` implemented? Is there one terminal row under the conditions the docs have in mind? |
| `MCExecutionEnds` | 2 workers, 1 reconciler, 2 payloads, 2 attempts, fair | Does every call and every pass end, and is a link accounted for wherever no call was refused? |
| `MCExecutionOrphaned` | violation | "reconcile adopts crashed / retriable sends from the provider" (`execution/__init__.py:7-9`): not the send beside which a mismatching call wrote FAILED_TERMINAL. |
| `MCWebhookRace` | 2 servers, 1 death, two failures, a capture, another event, a forgery | Are tables and audit trail true to the deliveries whatever servers read of each other? |
| `MCWebhookEnds` | 1 server, 1 death, erroneous deliveries, fair | Is every delivery acknowledged, and is a payment ingested once? |
| `MCWebhookLostFailure` | violation | "a decision on record for every failure" (README.md:79): a death after `store_raw_event` loses one. |
| `MCPipeline`, race | 2 callers, 1 payment, 1 death, opt-out, kill switch, day and night | Is everything committed justified by the call's own evaluations, and are opt-out, kill switch and quiet hours respected? |
| `MCPipeline`, serial | 1 caller at a time, 2 payments of a customer, 3 deaths, 5 ticks, debits | Do idempotence, cooldown and the three caps hold over deaths and reruns? |
| `MCPipeline`, watched | 1 caller at a time beside a reader, 3 payments (acted on or vetoed, the same by mail only, a control's), 1 death, opt-out, kill switch | Is a page coherent although each of its SELECTs sees another moment, does a trace explain its decision, do page and audit agree, is who was vetoed left out of the uplift? |
| `MCPipeline`, engine | all causes, arms, gates; confidences around the review threshold; tickets around every crossing | Does the trace page find the engine's rung, and is control's shadow action what treatment would have done? |
| `MCAuditCost` | violation | "Re-derives every figure in the LIVE panel" (`scripts/audit_metrics.py:3`), 25/25 PASS: the would-be cost does not agree once the walk stepped down. |
| `MCLlmTail` | an ambiguous, a clear, an unknown and a mislabelled event, 3 attempts, accept path off and on, fair | Is money spent only as earned, is a late answer used by nobody, is every event settled unless an exception reaches the caller? |
| `MCIngest` | 2 Ingestors, 9 payloads, 4 calls, any number of restarts | Do dedupe and quarantine keep their word over connections and restarts? |
| `MCLabelHarness` | two corpora of 6 and 4 records of 4 customers, two causes, 4 command lines, deaths anywhere, data generated anew | Is a draw fair, are labels and rows kept, is every label judged by its own cause? |
| `MCLabelHarnessLost` | violation | "an interrupted run resumes at the first unlabelled row and loses nothing" (`label_harness.py:29-30`): the end of the input at the note prompt takes a label off the file. |

**Why these bounds are enough.** Execution: nothing in the ledger relates two
keys, so one is enough wherever `reconcile`'s snapshot is not the point, and
the startup scene has two. Two workers and two payloads give every conflict
between the owner of a key, a caller with the same and a caller with another
body; two reconcilers overlap in every way. Four attempts is the code's own
number (`_BACKOFFS_S` has three). Webhook: two servers suffice for a stale
read; the four deliveries of one payment contain each pair whose order
matters. Pipeline: a walk over five rungs meets every guardrail; two payments
of one customer are what counts per customer and counts per payment need to
differ; three deaths leave as many orphaned ledger rows as the attempt cap
admits, and the fourth call must be stopped by it; the spend cap of 181 equals
88 + 88 + 5, so it is met to the rupee and the next rupee must be refused. The
ticks of a day are at 05:00, 13:00 and 21:00: one quiet tick on either side of
midnight and one open one between, so that both halves of the wrapped window are
met, and the ledger's Indian day begins with the tick at 05:00. Dashboard: a page
reads counts, so what matters is which kinds of decision can appear between
two of its SELECTs: an act on the best rung, an act lower down (mail only, or
after an opt-out), a veto (kill switch), a cooldown and a control are all
there, and one death leaves an orphan for the trace and the log to meet. The
page opens once something was evaluated, as before that every SELECT is empty.
Engine: tickets are picked on both sides of every crossing of two rungs and of
both thresholds. LLM tail: events do not interact, so one of each kind is
enough, and three attempts (the code's default) let two abandoned threads
answer next to a current one. Ingest: four calls put two inserts, a duplicate
and a rejection on one event id and its neighbours of another source; the
payloads cover each reason code and each way around it. Label harness: one
customer succeeds before failing twice, with record ids against the order of
time, two fail once, at one moment and for different causes, and one has no
truth row, so that each change of the order of filter, collapse, join and
floor shows; three rows are enough to go back over a labelled one. With the
successes one corpus has an id twice and the other an event without one, so that
draws with real and with made-up ids follow each other; an id of the first is
another customer's in the second, and the causes differ. The command lines have
a negative size, a negative floor, no grouping, and a grouping by a field that
some events lack.

`MCExecutionScenes` and `MCPipeline` use symmetry over identical processes;
runs with liveness properties use none.

**Deadlock checking** is off where the bounds stop the system: a run ends when
all crashes and ticks are used up, when the page is served, or when every
question was asked.

### Fairness

* `execute()` and `reconcile()` contain no wait on another process; a network
  wait ends by `_HTTP_TIMEOUT_S`, and the retry loop is bounded. Weak fairness
  of each process's own steps is what the operating system's scheduler gives.
  Crashes, new calls and the arrival of late POSTs are not assumed.
* `LinksAreSettled` needs more: an operator who runs `reconcile()` again and
  again (it is a command, and the docs say to run it at startup), passes that
  do not die at the same place for ever, and a provider whose GET succeeds
  infinitely often (strong fairness of `FindLink` and `Adopt`). Without these
  the code promises nothing of the kind.
* `EventsSettle` needs only that the caller's thread runs: no fairness for
  `Answer`, as the model may hang for ever. `Join` is enabled at once because
  `worker.join(timeout_s)` returns at the deadline whatever the worker does.
* `EveryDeliveryAcked` needs the provider to retry what has no 200, and a
  server that takes it infinitely often: strong fairness of `Redeliver`.

## 4. What the checks show, and where code and docs part

The four violation runs are disagreements with a quoted line; `findings` in
`PROJECT.json` has the details. Some facts about the code bound the
properties that do hold:

* A decision keeps the cost of the best rung when the walk steps down
  (`pipeline.py:253`), so the would-be cost of the live page and the audit's
  differ (`MCAuditCost`). All the other modelled figures agree (`AuditAgrees`).
* An interrupted call may have been able to act where its rerun is vetoed on
  every rung. The guardrail log is reduced by OR, so such a customer counts as
  vetoed. The converse holds only for histories without deaths: a call that
  died in the middle of its walk leaves only blocked rungs behind, and until
  the payment is processed again its customer counts as vetoed.
* `execute()` judges a payload mismatch by the intent alone (`executor.py:85-90`),
  so it may write FAILED_TERMINAL to the key of a send that is under way. If that
  sender then dies after the provider created its link, `reconcile()` finds a
  terminal row and skips the key for ever: the customer has the link and no row
  says so (`MCExecutionOrphaned`). If it lives, its SENT is the key's second
  terminal row, where `ledger.py:151` says "By construction there is at most
  one". `LinksAreSettled` is therefore about keys under which nothing is refused,
  and `AtMostOneTerminal` holds as long as the use is `Orderly` only (theorem
  `OneTerminalRow`). Both disagreements have the one cause, so one run shows it.
* `label_harness.py:29-30` says an interrupted run loses nothing, and `:622` that
  an interrupt cannot lose a label. Going back to a labelled row with b,
  pressing u and ending the input at the note prompt erases the row's label on
  disk (`:767-770`, `EndOfNote`): `MCLabelHarnessLost`. `LabelsAreKept` says that
  this is the only way to lose one.
* `score` asks the key by record id and never compares the digest it holds with
  the sample's. After a death between the two writes of `sample` the key is that
  of an earlier draw. If that draw was from other data (`datagen.py` numbers its
  events from `evt_00001` for every seed), or its ids were made up by place,
  labels are judged by other records' causes. `ScoreIsHonest` says what is left:
  with both files of one draw every label is judged by its own record's cause,
  and with an older key of the same data a row with an id of its own is judged
  by its own cause or by none. TLC finds it violated when either condition is
  dropped.
* The live page takes `events.updated_at` for the moment of recovery, and every
  later delivery of the payment moves it (`main.py:175`); a delivery after 72
  hours takes the recovery off the card. No run shows it, the recovery cards
  not being modelled.
* A trace finds exactly the one evaluation behind its decision only where calls
  follow each other and none died (`TraceExplains`, third part). Two racing
  calls, or a call that died and its rerun, leave two evaluations of one rung,
  and the page lists both. That the evaluation it must show is among them holds
  for any callers and deaths.
* A reference is recorded once only while `reconcile()` keeps to startup. Next
  to a running `execute()` it adopts the link before the owner records its
  SENT, and the ledger names the link twice.
* A payment has one first sighting (`ingested` audit row) only with one server
  process. Two of them can both read "no event".
* Decisions, attempt, contact and spend caps hold for one caller at a time.
  Nothing serialises two callers; the docs claim idempotence, not caps, across
  processes.
* `pipeline.py:276-277` calls `process_failure` idempotent. Two concurrent
  calls both find no decision and both insert one, as `decisions` has no unique
  key on the payment: `OneDecision` fails in the race scene.
* `razorpay_client.py:13-16` answers a duplicate reference with the id a GET
  recovered. When that GET fails, a terminal DUPLICATE without a reference is
  recorded, and nothing looks again. The model has this row.
* `ingest.py:14` says `ingest` never raises on bad input. An amount beyond 64
  bits passes its adapter and makes the INSERT raise (`OverflowError`), and so
  does a `method` that is a JSON object. Nothing is stored or quarantined then,
  and no outcome told, which is why `NothingIsLost` holds. An infinite amount
  is quarantined as `missing_required_field`.
* The same live payment may be in `rejected_events` from a batch and in
  `normalized_events` from the bridge; whichever row comes first stays.
* A death between `record_spend` and `record_decision` leaves a commitment
  without a decision; the next call commits again. The attempt cap bounds how
  often. DECISIONS.md:1079-1081 argues idempotence from the decision row
  alone.

## 5. Proofs

Everything below is proved for any number of processes, keys, payments,
deliveries, payloads, attempts and deaths, under the named assumptions of the
component's module; TLC evaluates these in the component's runs. They say that
a constant has its type (a cap is a natural number, a ladder a sequence of
rungs), that a NULL is not one of the values it stands beside, that a set from
which an idle process must hold something is not empty (`Keys`, `Payloads`,
`Payments`, `SampleArgs`), that an ACT of the engine comes with a ladder, that
a live payload is a card failure's, and that a corpus is finite and its records
stand in different places. The dashboard's theorems use one more about the
engine's answers, `EngineAssumption` (a reason with every SKIP and an action
with the rest, `CONTROL_ARM` in the control arm only, finitely many rungs and
none of them twice in a ranking), which is proved of the engine
(`AnswersAreWellFormed`). The engine's theorems are about the ladder, the
priors and the thresholds of `decision_policy.json`, for every ticket in whole
rupees, confidence in 25ths, channel, history and arm. A theorem that needs
more has it as a hypothesis. An inductive invariant, its lemmas and its
theorems share a module.

### Execution layer: `ExecutionProofs`

* `SingleSender`: type correctness, `SoleSender`, `PostsBounded` and
  `LinkFromIntent`;
* `LedgerIsTrue`: `RefsAreReal`; `AnswersSurvive`: `AnswersAreRecorded`;
* `ExecutionInvariant`: `IndInv`, which joins them;
* `ImplementsNudgeOnce`: every behaviour of `Execution` is one of `NudgeOnce`;
* `OneTerminalRow`: as long as the use is `Orderly`, `AtMostOneTerminal`;
* `OneTerminalAtStartup`: `AtMostOneTerminalAtStartup`. The startup scene of
  `MCExecutionScenes` is such a use, which is why `ExecutionProofs` extends that
  module.

*The argument.* `SoleSender` is not inductive: nothing in it stops a second
worker from entering the sending states. `SenderOwnsKey` says a sending worker
holds the intent of its key with its own payload, and that the POSTs of the
key are its own tries. A second sender would have to pass `InsertIntent`,
whose guard is a missing intent, and then `SenderOwnsKey` contradicts it.
`NothingBeforeIntent` adds that a key without an intent has no POST and no
link, so the owner starts from zero, and that every POST on the network,
abandoned ones included, carries the claimed payload; hence whichever POST
arrives first creates the claimed link. Most steps touch none of this:
`QuietKeepsSenderInv` deals with them at once.

For the ledger, `RefsInHandAreReal` carries a reference through the locals
between the answer and the row. `StepEffects` condenses `Next` into two facts
(a step adds at most one row, whose reference exists; it tells callers only
what is recorded), and links are never taken back (`LinksStay`).

The refinement maps `intents` to claims, `link` to nudges and the keys with a
referenced row to `confirmed`. Each step is a stutter or one abstract action,
`InsertIntent` being `Claim`, `Arrive` and `LateArrival` `Nudge`, and the rows
of executor and reconciler `Confirm`.

For `OneTerminalRow`, `TerminalInv` says that the owner of an intent finds its
key without rows and that a reconciler looks up keys without a terminal row.
It is the latest row that `reconcile` judges by, so the invariant also says that
a terminal row is the last one of its key.

### Webhook receiver: `WebhookProofs`

* `RowsAreWitnessed`: type correctness and `EventsAreWitnessed`;
* `AuditIsTrue`: `AuditFollowsEvents`;
* `DeliveriesCountOnce`: `HandledOnce`;
* `StatusForward`: the action property `StatusMovesForward`;
* `FirstSightingIsOne`: `OneFirstSighting`, if there is one server process. With
  two it is false (section 4), and the hypothesis `OneServer` is a condition on
  the constant `Servers` that an instance meets or not.

*The argument.* A handler writes `events` on the strength of a status that it
read earlier, when another server may have written since. `ReadsInv` says what
such a read is still worth: the row has the status that was read, or the read
said "failed" and the row is recovered by now, so a stale write can only
repeat what is there or do what the row was waiting for. `HandlersInv` says
that a handler past the dedupe has its own delivery among the stored ones,
which is what witnesses the status it writes. For `HandledOnce`, `OnceInv`
relates three things: two servers never hold one event id past the dedupe; an
audit row about a payment carries an id that is stored; and while a server has
not yet logged, no such row carries its id. A second row would have to come
from a second holder. `FirstInv` adds, for one server, that a first sighting is
logged under the id that created the row, before anything else is read.

### Pipeline and guardrails: `PipelineProofs`

For any number of callers that race, and whatever the engine answers (any
ladder, any decision):

* `PipelineTypes`: type correctness;
* `CommitmentsAreJustified`: `SpendIsJustified`; `ActsCount`: `ActsAreCommitted`;
* `OperatorObeyed`: `OperatorIsObeyed`; `QuietHoursKept`: `QuietHoursHold`;
* `PipelineHolds`: `PipelineInv`, from which they follow.

*The argument.* Each of these relates a row of the ledger to what was read and
recorded in earlier steps of its call, at times when others may have written.
`WalkOk` follows a call's walk: the rungs evaluated so far are on record under
the call's own time, the walk has not passed its end (`WalkEnds`: the end is the
first open rung or the foot of the ladder, and everything above is blocked),
and a call about to write its row or its ACT has the open evaluation, or the
row, that justifies it. `ReadsOk` says what not finding an opt-out or the kill
switch means later: if it has come since, it came no earlier than the call
began. `RowOk` is what each row of the ledger satisfies, with `CommitIsOk` as
the one place where both are used. Quiet hours are compared through
`QuietTicks`, a set that does not share its arithmetic with `InQuietHours`.

### Pipeline, one process: `PipelineProofs`

Where calls follow each other (`one_process`), over any number of deaths and
reruns:

* `OneDecisionEach`, `AttemptsCapped`, `ContactsLimited`, `ActsAreApart`,
  `SpendingCapped`: the five properties `...InSeries`;
* `SeriesHolds`: `SeriesInv`, which holds beside `PipelineInv`.

*The argument.* `Current` says, read by read, that what the running call has
counted is still what the tables say: the decision it did not find, the
commitments of the payment, the contacts of the customer in the window, the
debits of the day, and that the customer is outside a cooldown. `Alone` keeps it
so (`NothingElseMoves`). A commitment is then within a cap because the walk that
leads to it met an open guardrail on current figures, and it moves each figure
by one row: a row more in a finite set for the attempts and contacts, and one
amount more in the sum for the debits (`SumAdd`), which is kept per Indian day
and customer. A window that contains the new row is a window that ends with it,
as no row is later than the clock. A death needs no argument of its own: the
next call starts with nothing read.

### LLM tail: `LlmTailProofs`

For any events, labels, causes and retry limit (a negative one included), with
the accept path off or on:

* `MoneyGate`: type correctness and `MoneyIsEarned`;
* `AnswersAreCurrent`: `AnswerIsCurrent`; `CallsAreBounded`: `CallsBounded`.

*The argument.* `MoneyIsEarned` speaks of the last attempt's thread, so one
has to know that no attempt begins after an answer was accepted. `CallsInv`
ties attempts to the ambiguous events and to the budget; `EndedInv` says that
the thread an answer is read from has ended, so a late `Answer` can only touch
another one; `DiagnosisInv` says what a diagnosis at "apply" or "done" can
look like (from the rules on an unambiguous event, or clean from the current
thread, or failed); `SpendInv` adds that money moves in the step to "done" and
only past both gates. Together they are `TailInv`, which is inductive.

### Ingest: `IngestProofs`

* `DedupeHolds`: type correctness and `InsertedOnce`;
* `InputsAreKept`: `NothingIsLost`; both from `IngestHolds`.

*The argument.* Between the commit of a row and the answer its writer is known
by its `rowcount` alone. `FirstOk` therefore counts it with those already told
INSERTED, and says that no two of them share an event id; the INSERT that would
add a second finds the row, and a row is never taken away (`RowsOk`,
`AnswersOk`). `QuarantineOk` counts in the same way the rejections told and
those committed but not told yet: a death may leave more rows than answers,
never fewer.

### Label harness: `LabelHarnessProofs`

For any corpora, truths and command lines, any keys, a death anywhere, and data
replaced between commands:

* `LabelsSurvive`: `LabelsAreKept`; `RowsAreShown`: `NoRowIsPassedOver`;
* `ScoresAreHonest`: `ScoreIsHonest`; `SamplesAreFair`: `SampleIsFair`;
* `HarnessHolds`: `HarnessInv`, which they follow from.

*The argument.* `RowsOk` relates the sample on disk to what was said and given
up, and each row's id to its record; `LabelOk` says that the rows in memory are
those on disk and that the rows above the cursor are labelled. `SeekStops` (the
cursor goes to the first unlabelled row, or past the last) makes both hold again
after every key.

A label meets the right key for two reasons. Within a draw ids differ
(`RowIdsDiffer`): real ids because `HasIds` looked, made-up ones because two
records kept of the list have different indices (`IndexIsOwn`: of two kept
records one is ahead of the other, `OneIsAhead`, so it has fewer ahead of it).
So `KeyOk` holds: while sample and key are of one draw the key names each row's
cause. Between draws from the same data an id of the record's own is unique
among the events or among the failures, whichever list it was found in, and as
it identifies the one it identifies the other (`RealIdIsOwn`).

For the draw, `SampleOk` says that what is shuffled is one of the draws the
command line allows, and the lemmas follow filter, collapse, join and floor. The
order in which a group is collapsed is total (`EarlierIsTotal`), so a finite
group has a first record (`FirstOfSome`), which is the one kept, and a group is
the same seen from any of its members (`GroupIsShared`). Hence no customer is
missing from the pool (`PoolHasEveryCustomer`), each class gets its floor
(`FloorIsFull`), and the top-up fills what is left (`DrawIsLargeEnough`).

### Decision engine: `DecisionProofs`

* `RankingIsSorted`: `RankedRungs` holds every eligible rung in one place, each
  before those it beats; `TraceBestIsBest`: the trace page's loop finds the
  engine's best rung;
* `ShadowsAreTreatments`: `ShadowIsTreatment`; `TraceScoresTheSame`:
  `TraceScoresAlike`;
* `AnswersAreWellFormed`: what pipeline and dashboard assume of an answer.

*The argument.* Expected values are integers (`EvIsInt`) and no two rungs cost
the same (`CostsRise`), so `Before` is total (`OrderIsTotal`). Then the number of
rungs before a rung tells it from the others and is below the number of rungs
(`FewerBeatTheBetter`); an injection between sets of one size is onto, so each
place of the ranking is taken. The trace keeps the first of the highest values
in the order of the policy and the engine the cheapest; the two agree because
the policy lists its rungs by rising cost, and for no other reason. A floor that
the best rung misses is missed by all (`FloorIsTheBests`).

### Dashboard and audit: `DashboardProofs`

For any number of payments and callers, racing or not, deaths, opt-outs and
ticks, and a reader whose SELECTs fall anywhere between their steps:

* `AllAccountedFor`: `NothingFallsBetween`; `ActsCovered`: `ActsAreCovered`;
* `TracesExplain`: `TraceExplains`; `AuditsAgree`: `AuditAgrees`;
* `VetoesExcluded`: `VetoedAreExcluded`, which needs no reader;
* `LogHolds`: `BaseInv`; `PagesHold`: `BaseInv` and `PageInv`, from which they
  follow; `ReaderReads`: a reader changes nothing the pipeline does.

*The argument.* Two invariants. `LogInv` relates the three tables to each other
and to the calls under way. A BLOCKED decision has the evaluation of each rung
of its own call, the first of which names its blocker (`DecisionsInv`,
`WalkVetoes`). Acts on record and acts committed but not recorded yet (`Pending`)
are together no more than the rows of the ledger, and exactly as many while
nobody died (`CountInv`): `RecordSpend` adds one to both sides, `RecordDecision`
moves one from the second term to the first, a death takes one from the left.
Without deaths a blocked evaluation is never the end of the matter (`WalksInv`):
the next rung was tried, a veto is recorded, or a call stands at that rung; so a
payment that is blocked throughout with no call under way is a vetoed one.
`OneWalk` says that where calls follow each other each rung of a payment is
evaluated once.

`PageInv` says what the SELECTs that have run are worth now. A count that can only
grow was, when it was read, no more than it is (`MetricsInv`): hence what is read
later covers what was read earlier, in the order in which the code reads.
`NotChasedInv` does the same for a sum: `Share` takes for each category what was
read of it, or what it holds now, and acts, routes and shares together reach the
total at every step, equal to it while nobody writes. That categories miss no
decision and count none twice is `CountsAddUp`, a partition of the rows. A trace
finds the first decision, which is never replaced, and evaluations are never
taken away (`TraceInv`). For the audit, figures do not move while the tables do
not (`FiguresStay`), and over one state the two derivations are of the same rows
(`FiguresAgree`).

### Sums

The library's theorem about folds takes an operator, which no installed prover
can instantiate, so `PipelineProofs` argues about `SumFunctionOnSet` from its
definition: the fold is a recursive function on the subsets of a finite set,
and if its value at some subset were not what a lemma says, there would be a
least such subset. Least numbers come from the library's well-founded orders.

### What is not proved

Liveness (`CallsAndScansEnd`, `LinksAreSettled`, `EveryDeliveryAcked`,
`EventsSettle`): the prover does not reach fairness. TLC alone checks these
four; every other property of a passing run is a theorem. The conditions that
`CrashedSendsAreAdopted` and `NothingSaidIsLost` lack are in `LinksAreSettled` and
`LabelsAreKept`. That an answer of the
engine for `MCPipeline`'s events is the constant it is given there is evaluated
by TLC (`AnswersAreTheEngines`). `PostsBounded`, `LinkFromIntent`, `CallsBounded`
and the type invariants other than the pipeline's are proved only and are not
checked by a run of their own.

## 6. Not modelled

* Of the dashboard: the recovery, uplift and net-value cards and `/queue`,
  which join the decisions to the receiver's `events`; `/decisions`, one
  SELECT; banners and the static corpus report. Of the audit: the same cards.
* Of the label harness: `schema`, the detection of field names, and the
  matrices of `score` but for the reference each label meets; timestamps that
  are missing or no numbers; a death of `datagen.py` between its two files.
* What `datagen.py` draws, the uplift estimate and the remaining scripts run alone
  and offline; what could be wrong there is statistics.
* `execution/run_once.py`, `config.py` and `fake_client.py` choose a client and
  call `execute` once; what the fake answers the provider can answer too.
* Rationale sentences, rounding of displayed amounts, hashes, HMAC: data.
* `db.py`'s and `ledger.py`'s triggers against UPDATE and DELETE: the modules
  have no action that updates or deletes, as the code has no such statement.

## 7. Plan

Built: the modules of section 2, with proofs of every safety property of the
passing runs.

Next: `Recovery`, which is `Webhook` composed with `Ingest`'s bridge and
`Pipeline`, so that the handler's `FindDecision` and `RecordDecision` are the
whole of `_run_decision_pipeline`; with it the recovery cards and `/queue`.
