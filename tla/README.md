# Cairn chat backend: specifications and proofs

TLA+ specifications of the Cairn backend (`src/backend/app`) and of its chat
widget (`src/widget/src`), the TLC instances that check them, and TLAPS proofs
about them. Every definition is translated from the source; `PROJECT.json` maps each
one to the lines it stands for.

Contents: [1 Inventory](#1-inventory) - [2 How it was built](#2-how-it-was-built) -
[3 The modules](#3-the-modules) - [4 What the runs check](#4-what-the-runs-check) -
[5 Proofs](#5-proofs) -
[6 Where code and documents disagree](#6-where-code-and-documents-disagree) -
[7 What is not modelled](#7-what-is-not-modelled)

## 1. Inventory

Cairn is a self-hosted chat service: a browser widget posts a message, the
backend retrieves passages from a corpus and streams a grounded answer as
server-sent events. A public deployment can run with *endpoint controls*: rate
limits, a bound on concurrent streams with a FIFO queue, and a budget for
provider calls, kept in a store that several backend processes share.

| Part | Source | State it keeps | Operations | Modelled |
|---|---|---|---|---|
| Endpoint-control store | `endpoint_controls.py:1472-2348` | rate records, FIFO tickets, fenced leases, hour and day budget windows, operation receipts, two sequences | `admit_or_enqueue`, `wait_for_admission`, `renew`, `finalize`, `cancel_ticket`, `check_budget_readiness`, a lazy prune in each | `EndpointControlStore` |
| Endpoint controller | `endpoint_controls.py:2432-3262` | a local deadline and store expiry per lease | the same calls, each bounded (5 s) and replayed once under its operation id; `authority_remaining` | `ControlledChat` |
| Controlled chat response | `api/chat.py:382-962` | the owner's ticket, lease and accounting session; timers | queued stream, admitted stream, settlement when the response ends | `ControlledChat`; partly |
| Chat event stream | `api/chat.py:60-300` | pending provider item, ping deadline, characters sent | `stream_with_pings`, `chat_event_stream` | `ChatStream`, `ChatEvents` |
| Request accounting | `request_accounting.py` | attempts, their usage, completion or uncertainty, one summary | attempt started, usage, finished, uncertain; finalize; observer binding | `RequestAccounting` |
| Corpus lifecycle | `corpus_lifecycle.py`, `corpus_lifecycle_firestore.py` | a lifecycle document per version, an active pointer, two kinds of audits | `mark_ready`, `switch_active`, `remove_version`, `resolve_active_state` | `CorpusLifecycle`, `CorpusHistory` |
| Candidate persistence | `ingest/candidate_persistence.py`, `candidate_firestore.py` | header, documents, chunks and attestation of a candidate | `persist_and_attest_candidate`, `verify_attested_candidate` | `CandidatePersistence`, `ImmutableCandidate`, `CandidateBatches` |
| Retrieval route | `retrieval_route.py` | last good fingerprint, last policy pair, a refresh lock | `resolve_route`, `check_readiness` | `RetrievalRoute`; partly |
| Retrieval, grounding | `retrieval*.py` | none | query, validate, compile the grounding bundle | `Grounding`; partly |
| Readiness | `readiness.py` | a filter count shared by evaluations | one evaluation of independent probes | `Readiness`; partly |
| Telemetry | `telemetry.py`, `logging_config.py` | per request: fuse, finished, first token; a concurrency gauge | start, first token, corpus, complete | `ChatTelemetry`; partly |
| Providers | `providers/` | an HTTP stream and an attempt counter per call | `stream` | `ChatStream`, `RequestAccounting`; partly |
| Rate limit without controls | `ratelimit.py` | one bucket per key, never forgotten | `allow` | no |
| Vector store, static ingestion | `vectorstore.py`, `ingest/pipeline.py`, `startup.py` | chunks in one SQLite file, the documents table in another | start-up ingestion: replace, record, delete, prune | `StaticIngestion`; partly |
| Ingestion planning | `ingest/planner.py`, `manifest_workflow.py`, `provenance.py` | none | pure construction of plans and digests | no |
| Application | `main.py`, `db/__init__.py` | resources open, migrations on disk | start-up, migrations, shutdown | `Application`; partly |
| Widget | `widget/src/index.ts`, `protocol.ts` | generation, controllers, active reader, history | configure, open, send, clear, abort | `Widget`; partly |

**How the parts interact.** `chat_message` asks the controller for admission,
and the controller asks the store. A lease or ticket goes to a response owner,
which binds an accounting session when its stream begins. The stream pulls
events from the chat event stream, which resolves a retrieval route (a read of
the corpus lifecycle and of a verified candidate), retrieves, and pulls tokens
from a provider; the provider reports its attempts to the session. When the
response ends, for whatever reason, the owner turns the session's summary into
a charge and settles the lease. Operators run ingestion, candidate persistence
and the lifecycle calls from other processes, against the same documents. The
widget negotiates compatibility with the backend, posts messages and reads the
stream. The lifespan opens the stores, ingests a mounted corpus and closes what
it opened.

**What is hard.** The store is correct under any interleaving only if every
call prunes, replays, checks room and records its receipt in one order. The
controller sees the store through calls that may be late, replayed or lost,
and both keep time. The streams race timers, answers, slow clients and
cancellation. The lifecycle registry has no locks but its transactions, and a
commit whose answer is lost may land at any later time, as may a create of the
candidate store. Start-up writes two databases without a common transaction. An
adapter runs each step in a task of its own, which timers and cancellations
take for the whole. In the browser a page may act between any two microtasks.
`PROJECT.json` lists
these hazards with their lines.

**What makes each part correct.**

- Store: a grant is made once per operation, first come first served; live
  work is never refused the calls that end it; reservations, spending and
  budget agree across window boundaries and expiry; tokens are conserved.
- Controller and streams: local authority never outlives the store's lease;
  no event is fetched without one; a grant has one owner; the store's allowance
  of polls and renewals suffices; provider work is charged, and work that cost
  more than was reserved is never settled in silence.
- Corpus lifecycle: the documents always fit one another; pointer audits are
  an unbroken, immutable chain; receipts are true. A call ends after its one
  retry, which is how it is written; no liveness property repeats it.
- Chat stream: one terminal event, after which nothing is sent; the character
  limit is honest; attempts do not overlap and are closed; every response ends.
- Accounting: an attempt of unknown cost is charged its reserve; the summary is
  there whenever the provider behaved; a grounded answer is counted once.
- Candidate persistence: a version belongs to one plan for good, is attested
  once and only when complete; receipts are true; an interrupted call can be
  repeated.
- Retrieval route: a passage comes from a version that was active during the
  request and is attested under the policy then in force; policies do not go back.
- Grounding: refusals of the two stores agree, the cut is not arbitrary, what is
  cited supports what is given.
- Static ingestion: what is served is the corpus that was read; nothing is
  deleted before its replacement is there; a restart gets through.
- Readiness and telemetry: the report is what the probes said, at one time per
  source; the gauge counts the responses under way; a failing sink is left alone.
- Application: serving means complete, ending means closed, the schema is in
  order.
- Widget: nothing of an earlier generation touches the current conversation;
  a panel that says it is busy is; every wait ends.


## 2. How it was built

Modules were written in the order of what matters most, each checked before it
was proved about: the store; the corpus lifecycle with its abstract history;
the composition of requests, controller and store; accounting; the chat stream,
which extends accounting; candidate persistence with its abstract candidate; the
retrieval route, which uses the lifecycle's abstract history in place of the
detailed registry; grounding; the widget; static ingestion; telemetry;
readiness; the application.

What composes what:

```
EndpointControlStore <- ControlledChat          (EXTENDS: calls are messages)
RequestAccounting    <- ChatStream              (EXTENDS: observer calls inside steps)
ChatEvents           <= ChatStream              (refinement, PromisesKept)
CorpusHistory        <= CorpusLifecycle         (refinement, ImplementsHistory)
CorpusHistory        <- RetrievalRoute          (INSTANCE: the registry as promised)
ImmutableCandidate   <= CandidatePersistence    (refinement, ImplementsCandidate)
```

Open work, most valuable first: the queued and admitted streams of
`ControlledChat` with `ChatStream` inside them instead of "the next event"; the
readiness variant of the route; a proof about the split of records into batches.

## 3. The modules

| Module | Role |
|---|---|
| `EndpointControlStore`, `_proofs`, `MC...` | the store: one action per coroutine |
| `ControlledChat`, `_proofs`, `MC...` | chat requests, controller and streams over the store |
| `CorpusHistory` | what the lifecycle registry promises |
| `CorpusLifecycle`, `_proofs`, `MC...` | the registry: service calls over store transactions |
| `RequestAccounting` | one accounting session |
| `ChatEvents` | what a response promises its client |
| `ChatStream`, `_proofs`, `MC...` | one response: adapter, pings, events, settlement; its proofs begin with accounting's |
| `ImmutableCandidate` | what the candidate collections promise |
| `CandidatePersistence`, `_proofs`, `MC...` | the calls that persist, attest and verify a version |
| `CandidateBatches` | the split of records into batches |
| `RetrievalRoute`, `_proofs`, `MC...` | the resolver with its policy and refresh lock |
| `Grounding` | from a corpus and a query to the provider's context |
| `StaticIngestion`, `MC...` | start-up ingestion over two databases |
| `Readiness` | the evaluation and its report |
| `ChatTelemetry` | units, tracker and sink |
| `Application` | the lifespan and the migrations |
| `Widget`, `_proofs`, `MC...` | the browser element |
| `MCParts`, `Parts_proofs` | instances of four parts that share no state; proofs of three of them and of static ingestion |

An `MC` module holds the instances' small values, the symmetry and the view.
`MCCandidatePersistence` also evaluates `CandidateBatches`, and `MCRetrievalRoute`
evaluates `Grounding`, as assumptions about every small input. `MCParts` checks
accounting, application, telemetry and readiness: a behaviour is one part's,
chosen in its initial state, and the others stand still.

### EndpointControlStore

The store is single-process memory behind an `asyncio.Lock`, so a coroutine is
one atomic action, given an operation id, its arguments and a time `now` that
never goes back. Each action is written as the code is ordered: prune, replay
(a recorded operation answers from its receipt), fence, room, then the change
and its receipt. Variables are the code's tables: `rates` (`_ip_rates`,
`_session_rates`), `tickets`, `leases`, `windows` (`_hours` and `_days`),
`receipts`, `sequence` and `tokenSequence`, and `lastNow`, the latest time
seen. Amounts are integers where the code has decimals; time is in ticks.
A fingerprint is the arguments themselves; a fencing token is modelled by
whether the caller presents the right one. Bounds: `MaxPairs` (grants),
`MaxSequence` (tickets), `Horizon` (time).

The ASSUMEs state what `EndpointControlConfig` enforces: the sizing formula of
`max_keys`, TTLs and capacities. The proofs need the sizing.

### CorpusLifecycle and CorpusHistory

A service call of an operator is a small machine, `calls[o]`, whose phases are
the awaits of the code: verify the candidate, look up, read the active pointer,
read the target, commit, and after a commit that was refused or not answered,
confirm by reading again. Between phases any other operator moves. A commit is
the transaction of `corpus_lifecycle_firestore.py`: it reads what it depends
on and applies or conflicts. `CommitUnknown` loses the answer: the transaction
stays in `stray` and may `Land` at any later time, or never. `Cancel` is a
cancellation or a crash at any await. Candidates are immutable, so evidence is
a function of the version and not written down.

`CorpusHistory` is the promise: versions are registered, activated and removed
atomically, a removed version is never registered again, and the history of
activations only grows, by a registered version that is not removed.

### ControlledChat

`EXTENDS EndpointControlStore`: every store call of a request is a message,
and `Land` executes the store's own action for it. `phase[r]` is the await a
request is in; `call[r]` is the controller call it waits for, with its attempt
and deadlines; `authority` is the controller's table of local deadlines;
`work[r]` is what the accounting session knows. An attempt starts at
`budget_reserve_per_attempt`, its share of the reservation, and ends at any
price up to `MaxCost`, which may be above that share: nothing in the code relates
the two (`reconciliation_from_summary` adds what the price list says), and the
store settles a charge above its reservation and marks the overrun.

| Phase | Code |
|---|---|
| `admitting` | `controller.admit` in `chat_message` |
| `responding` | the response is returned, its generator not yet started |
| `queued`, `polling` | `_queued_controlled_stream` between and in polls |
| `streaming` | `_admitted_controlled_stream` waits for an event or the renewal timer |
| `renewing` | it waits for `controller.renew` |
| `sending` | the event is yielded, the send to the client has not returned |
| `closing`, `settling` | the generator is closed; the owner's `finalize` |

A message may reach the store up to `Latency` ticks late, after its caller
timed out, replayed or was cancelled, or be lost: it is dropped when it is too
old. The clock ticks only when no timer is due (`TimerDue`): the event loop
runs ready callbacks before it waits again, so a process that is not starved
serves a deadline at its time. Cancellation may strike in every await. The
chat stream inside a request is its next event, at any time; `ChatStream` has
its inside.

One tick is one call timeout. The configuration requires a lease TTL of three
renewal periods and a renewal period of at least two call timeouts, which
`TimingAssumption` states; the instances use the smallest such values.

### RequestAccounting

The session is called by observers without an await, so an action is a call:
`AttemptStarted`, `UsageObserved`, `AttemptFinished`, `AttemptUncertain`,
`ActiveCleanupUncertain`, `Finalize`. An event the session cannot place is an
action too: it raises and leaves the attempt uncertain. Usage counts and prices
come from small sets, among them partial, growing, shrinking and malformed
reports and two price snapshots that overlap. `ChargeFor` is the
reconciliation:
an uncertain attempt costs its whole reserve. `spoilt` is a history variable of
the attempts an event was refused about.

### ChatStream and ChatEvents

`EXTENDS RequestAccounting`. An action is the code from one await or yield to
the next. The adapter is a generator (`gen`): it runs only while a task fetches
its next item, and each fetch is a task of its own, numbered by `fetches`.
Timers belong to the task that entered them, which section 6 comes back to. The
upstream answers, fails or
falls silent; closing it may fail; the client stops reading or goes away; the
server cancels. `provider` is the adapter of the behaviour: Gemini's (two
attempts, a sleep between them), Ollama's (one, whose close may fail) or the echo
adapter, which calls nobody. `ChatEvents` says which
event may follow which and that nothing follows the end; `PromisesKept` is the
refinement, with pings as stutters.

### CandidatePersistence, ImmutableCandidate, CandidateBatches

A call is a machine whose steps are its store operations: header, pages of
documents and chunks, batches, missing records, re-reads, attestation. A create
lands whole or not at all; when its answer is lost the batch stays in `pending`
and may `Land` at any later time or be dropped. Faults are failures, lost
answers and cancellations, bounded by `MaxFaults`; there is no lock, and
callers of different plans and signers interleave between any two operations.
Signatures and digests are the identity of what they are over. `CandidateBatches`
is the greedy split as a function on sequences, checked for every input up to a
length. `ImmutableCandidate` is the promise: reserved by one plan, filled, then
attested once when complete; a receipt tells the truth.

### RetrievalRoute

A request takes the supplied policy, reads the active version, waits for the
refresh lock when pointer or policy is new, compares again under it, verifies,
records and retrieves; each is a step, and operators (through `CorpusHistory`)
and policies (`SupplyPolicy`) move in between. `refreshLock` is the queue of
`asyncio.Lock`, its head the holder. A version's evidence is a function of the
version, since candidates are immutable. `activeDuring[r]` remembers which
versions were active while a request ran, for the properties alone.

### Grounding

Operators, not a machine: a corpus is a set of chunks with distance, size,
source and citation. `FirestoreResults` and `LocalResult` translate the two
stores' cut at `MaxResults` and distance, where ties may be broken either way;
`CompileGroundingBundle` is the bundle. TLC evaluates `CutIsNotArbitrary` and
`SupportIsCited` of `MCRetrievalRoute` before `route_switch` begins.

### StaticIngestion

`Replace` commits a document's chunks in one SQLite file and `CommitRow` its
hash in the other; `DeleteChunks` and `DeleteRow` are the two commits of a
removal. `phase` is where the process is; `StopPoints` says in which phases it
may stop and `EditPhases` in which the operator edits the directory and its
manifest. A document may be absent, blank, without text, short or long, with
one of two titles. The order of paths is left open. `MCStaticIngestion` adds a
careful operator, who edits nothing while a stop has left a document's chunks
without the row that vouches for them (`Torn`).

### Readiness

An evaluation is a sequence of probes with an await between them, so what a
probe reports may have changed by the next one; probes answer anything they can.
`Compositions` enumerates every legal combination of route profile, provider,
embedding and budget; the checks, their reasons, the readiness of the report and
the three public facts are operators. Where the code tries one reason after
another, so does the operator (IF ... ELSE IF), since guards overlap. Several
evaluations share the log filter
while they read Ollama's catalog.

### ChatTelemetry

A unit's methods do not await; responses interleave between them. A delivery of
several events fails after any number of them, with an exception that fuses the
unit or one that propagates. `told` is what the sink accepted of each response,
`gauge` the last value it was told.

### Application

`Boot` is `create_app` with any composition: each of retrieval, catalog and
provider is the application's own, the host's or absent. Start-up takes the
steps of the lifespan in order; inside the first, bootstrap connects to the
database file (`Connect`), then each migration's statements are committed one by
one and its version afterwards. The lifespan holds the connection only when
bootstrap has returned it. A step may raise, the
process may crash anywhere, closing calls the closings in order and may be
cancelled in those that are awaited. While the process is down the operator
deploys any release, older ones included. The deployment guide rules out a second
process on the database file, so there is none here.

### Widget

JavaScript's loop is modelled as it runs: a network answer, timer or click is a
task; a woken coroutine goes on in a microtask, before any other task of the
element (`Drained`). The host page is not bound by that: it sets attributes and
removes or inserts the element between any two microtasks, and inside the
element's own `dispatchEvent`, which calls listeners synchronously. `frame` is
the handler that waits for its listeners to return. A generation is bumped by
configuration, clear and removal; a check's identity is its generation. `sends`
keeps every send with its two attempts, `checks` every capability check.
`stranded` marks a check that was abandoned because the element left the page.

## 4. What the runs check

| Run | Instance | Properties |
|---|---|---|
| `store_queue` | one lease, queue of two, the smallest `max_keys` the sizing formula allows, wrong and right fences, six operations | `GrantsOnRecord`, `LifecycleNeverRefused`, `NoOvertaking` |
| `store_budget` | two leases and two addresses over hour and day boundaries, settled below, at and above the reserve or expired | `TypeOK`, `ReservationsBacked`, `WithinBudget`, `SpendingRemembered`, `RateTokensConserved` |
| `lifecycle_safety` | two operators, two versions, three pointer revisions, one lost commit, one retry | `RegistryWellFormed`, `AuditsChain`, `ReceiptsHonest`, `ImplementsHistory` |
| `chat_streams` | two requests, one lease, one place in the queue, a lease lifetime with a renewal | `AuthorityBacked`, `StreamsBounded`, `OneOwner`, `CallsAffordable`, `FetchesUnderLease` |
| `chat_charges` | two requests whose leases share budget windows, up to two provider attempts each at up to twice their share of the reservation, windows that end during the run | `WorkIsCharged`, `OverspendingIsMarked` |
| `stream_response` | each of three adapters, limit of 3, four items of 1 or 2, one ping, under fairness | `OneVoice`, `NothingLeftOpen`, `CompletedIsDelivered`, `PromisesKept`, `ResponseEnds` |
| `candidate_race` | two callers, plans and signers, a retry, a fault, under fairness; every sequence of up to five records of four sizes | `CreatedOnce`, `ImplementsCandidate`, `ReplaySucceeds` |
| `route_switch` | two requests, three resolutions, three pointer revisions, a policy that is replaced by an older one, a newer one or one that clashes with it in generation or in version, under fairness; every corpus of up to four chunks of one document, or three of three | `RouteWasActive`, `PolicyNeverRegresses`, `ResolutionEnds` |
| `widget_work` | two bases, two generations, two messages, histories of two turns, under fairness | `GenerationsApart`, `WorkEnds` |
| `static_failures` | two documents, stops anywhere, edits while the process is down or serving but not while a document is torn between its two commits, under fairness | `ServesTheCorpus`, `PrunedWhenWhole`, `Recovers` |
| `parts_alone` | two owners and attempts; three releases and two faults; two responses and two faulty deliveries; one evaluation of every composition, or two at once | `DoubtIsCharged`, `SummaryAvailable`, `NeverServesHalf`, `TelemetryIsTrue`, `ReadinessIsTrue` |
| `static_mixed` | the same documents, stops and edits anywhere; expects a violation (section 6) | `ChangedBytesReplaceOldChunks` |

What the properties say, where the name does not:

- `GrantsOnRecord`: a grant in force is on record under exactly one operation
  id, so a late replay is not granted twice; `NoOvertaking`: a lease goes to the
  oldest ticket, or to a newcomer when nobody waits; `LifecycleNeverRefused`: the
  polls, renewals and closing calls a live grant may still need find room.
- `CallsAffordable`: no poll or renewal on its way exceeds what the store
  reserved for its ticket or lease.
- `WorkIsCharged`: in each hour and day a lease was granted in, what is committed
  and what is still reserved cover, for all leases of that window together, the
  whole cost of the requests whose lease is settled, and the cost up to what was
  reserved for the attempts made of those whose lease is not, or when the window
  is marked uncertain; and the store keeps the window to its end.
  More cannot be promised: a lease that expires is charged its reservation, and an
  abandoned request what was reserved for the attempts it made, although they may
  have cost more.
  `OverspendingIsMarked` is about that rest: once the lease of a request that cost
  more than its whole reservation is gone, settled or expired, each of its windows
  is marked overrun or uncertain, so that budget readiness is refused until the window
  is over. The fields `lease` and `windows` of `work` observe this: the code has
  no such record.
- `PolicyNeverRegresses`: a policy that vouched for a route is followed only by
  one of a larger generation and another version, and a route is served only under
  the one on record.
- `OneVoice`: the client never hears two attempts; `NothingLeftOpen`: the summary
  is never drawn over an attempt nobody judged; `CompletedIsDelivered`: a
  completion is accounted only for an answer that was sent whole.
- `ReplaySucceeds`: a call that starts when the version is its plan's, and meets
  no fault, ends with its receipt, unless another signature was attested.
- `DoubtIsCharged`: an attempt of unknown cost is charged its reserve;
  `SummaryAvailable`: the summary can always be drawn, unless a retry followed an
  attempt that two price snapshots match.
- `GenerationsApart`: a turn of the history belongs to the session that is
  shown, a panel that says it is busy is, and nothing is sent to a base that has
  not said it is compatible since it was configured.

**Bounds.** In `store_queue` a lease and two tickets are held at once, so that
the older and the younger ticket poll for the same lease, one leaves or expires
before the other, and a newcomer finds the queue full or half empty. Three tickets
and five grants can be issued in all, by six operations. `max_keys` is 25, the
configuration's minimum, so that the receipts on record and those still reserved fill
their share to the last one, where a wrong reserve of one shows.
`Horizon` is above every TTL of that instance, so records expire and are granted
again. Its view (`QueueView`) compares receipts by what a replay finds in them, not
by the identity of their operation, and leaves out what was spent in the windows,
since neither the budget nor the buckets bind there. In `store_budget` the horizon
is two hours and a day of the instance, so that a lease is granted in one window and
settled in the next.
Two versions and three revisions are the least in which a pointer goes from A
to B and back to A, which a comparison without revisions would confuse. One
lost commit is enough to land before, between and after two others. In
`chat_streams` the horizon is the lease TTL, so that an owner whose answers are
late meets the end of its authority; a retried call may be carried out by the
store after a later one. In `chat_charges` a request makes two calls: it is admitted,
and then renews its lease, which is left to expire, or settles. A price of up to
two with a share of one makes a request cost from nothing to twice its
reservation, and the store settles charges over that whole range; an hour is half
of a lease's lifetime, so the second lease is granted in the same hour as the first
or in a later one of the same day, and each is settled in its hour or after it.

A chat stream of four items passes the limit with a chunk that fits, one that
straddles it and one beyond it, in either attempt; two attempts are all the code
allows. Two plans that share a chunk are the least that can mix, and one fault
loses the answer of a create that lands late, or cuts a call off. Two requests
and three revisions let one wait for the lock while the other verifies a newer
pointer. A corpus of four chunks has a tie on either side of a cut of two. Two
generations leave a base while something begun before is under way; a third
would add one more change of the same kind. Two documents let one be replaced
while the other is stale; sizes of zero, one and two chunks let a document grow
and shrink. Two telemetry faults fail a delivery of each response, or two of one.
Two evaluations that read at once let either be the filter's last reader. Three
releases let a migration be pending behind one that is recorded.

Every property has a mutant of the code that violates it in the same instance,
so no bound is too small for the case it is about.

Deadlock is checked in the store, the lifecycle, `ControlledChat` and
`static_failures`: the store can always be asked again, an operator can always
begin, time passes, and a process that is down can be started. The other runs
switch it off, because one stream, a bounded number of calls, faults, generations or
messages, or one evaluation, ends.

**The view of ControlledChat.** The two runs compare states under
`Observable`, which leaves out what no later step and no property can depend on in
these instances: tickets and leases as they were before the prune that the next call
begins with (their windows stay, since the properties read them), receipts of
operations that can no longer be sent, late messages whose operation is on record
and whose answer nobody awaits, timers of phases that do not wait for them, what
accounting knows of a request that is over except its cost, and rate records (the
buckets never bind). Budget windows are kept whole, with their marks. Two states with
the same view have the same futures and agree on every invariant of those runs;
action properties are evaluated on every step TLC generates, before the view is
applied.

**Fairness.** Assumed only by these runs:

- `stream_response`: weak fairness of the adapter's and the consumer's steps: the
  upstream's client library and the retry sleep have timeouts, and a client
  reads or disconnects. After a first item the Gemini adapter has no such
  timeout of its own (section 6), so `ResponseEnds` rests on the library's.
- `candidate_race`, `route_switch`: weak fairness of a call's `Progress`: each
  operation has a timeout, and `asyncio.Lock` is first come first served.
- `static_failures`: weak fairness of start-up, which is straight-line code, and
  of its restart, which is the operator's (docs/RELEASE.md section 4). `Recovers`
  supposes that stops and edits cease, `<>[][Startup]_vars`, and allows one
  exception: chunks that an earlier stop left in the way, `<>[]Stranded`.
- `widget_work`: microtasks run (weak) and timers fire. A deadline is strongly
  fair because it is pending again and again while a server goes on sending: each
  attempt has a total deadline of 600 s and a send has at most two attempts.

That a controlled chat request is settled eventually is *not* claimed: a client
that never reads holds its stream in `send` without a timeout, and the store's
TTL is what returns the lease.

## 5. Proofs

All proofs are for every value of the constants that meets the ASSUMEs.

`EndpointControlStore_proofs`, of the store alone:

- `TypeCorrect`, `ReservationsAreBacked`: the inductive invariant is
  `WindowInv == TypeOK /\ ReservationsBacked`. Type correctness of a window
  needs that a settlement never gives back more than is reserved, which is
  what backing says: the windows of a lease hold one reservation per lease,
  counted by cardinality. The step is split into the prune, which every call
  starts with, and the call's own effect on the pruned tables.
- `CapacityReserved`, `TablesStayBounded`: the inductive invariant is
  `CapacityInv`: the receipts on record and the receipts every live grant may
  still need fit in the receipt share, and each table in its own. Grants move
  room from "needed" to "recorded" one at a time, and the sizing assumption
  turns the shares into `max_keys`.
- `FirstComeFirstServed` (`QueueInv`): the tickets' sequence numbers differ and
  are not above the counter; with that, a grant is `Due` to the oldest ticket.
- `GrantsStayOnRecord` (`GrantsInv`): each grant is named by one receipt and no
  receipt names an id yet to be issued; pruning keeps the receipts of live
  grants, and a replay adds none.
- `BudgetKept`, and the action properties `SpendingStays` and `TokensConserved`,
  which follow each call through its prune, its refill and its charge.

`CorpusLifecycle_proofs`:

- the inductive invariant `IInv` joins the registry's well-formedness and audit
  chain with what lost commits and calls in progress rely on: a switch in
  flight expects a pointer with another target, and a call that has read the
  pointer still finds that pointer's audit on record. Alone,
  `ReceiptsHonest` is not inductive: a
  confirmation is true only because an audit is never rewritten.
- from it `TypeCorrect`, `StaysWellFormed`, `ChainHolds`, `ReceiptsStayHonest`,
  the action property `AuditsStay`, and `Refinement`: every step of the
  registry is one registration, activation or removal of `CorpusHistory`, or a
  stutter.

`ControlledChat_proofs`, which builds on them, for any number of requests, any
delays and timers that meet `TimingAssumption`:

- the inductive invariant is `ChatInv`: the store's `WindowInv`; every receipt
  names an id that was issued (`ReceiptsNamed`), so an answer from it does, and
  so does what a request takes from the answer; every message on its way, and
  every call that may be replayed, is one the store serves (`Servable`); what
  is due for a request is at most `MostPerAttempt` for each attempt it started
  (`WorkInv`, `DueOK`), which bounds the charges the store is asked to settle but
  does not keep them inside the reservation. A late message needs no case of its own:
  `Servable` only grows, since ids are never
  taken back.
- `UsesTheStore`: each step of the composition is one step of the store's
  specification or leaves the store alone; settlements above the reservation are
  among them. `StoreHoldsUnderChat` draws from it
  what was proved of the store alone; `ChatTypeCorrect` is the composition's
  own type correctness.
- `AuthorityStaysBacked`, `OwnersStayApart`, `StreamsStayBounded` and
  `FetchesHoldLeases` need more, `TenureInv`. An id is claimed by the request
  that owns it or that the store would still tell of it, in the reply it was sent or
  in a receipt that a replay would find (`Claims`), and no two requests claim the
  same (`ClaimsApart`): this is inductive where `OneOwner` is not, because a grant is
  known to the store before anyone owns it. It rests on operation ids being
  their request's own and drawn before use (`DrawnInv`). A lease whose
  settlement is asked for is claimed by nobody any more (`ReleasedInv`), so that
  a late `finalize` takes nothing from a stream. What an answer says of a lease
  is still so while anyone may act on it, and counts from the start of the call
  (`AnswersStand`), which makes the local deadline one the store keeps
  (`BackedInv`); and a stream's timers never outlast that deadline
  (`HoldInv`). Each step of a request then only has to show that it takes what
  it claims (`Moves`), each step of the store that it shortens no lease but the
  one it closes (`StoreEffect`).
- `CallsStayAffordable` counts what is left of the store's allowances against
  what a request may still ask for (`AllowanceInv`). A lease's renewals and the
  ticks its owner has used make at least `RenewalTicks`, and more while a renewal
  that is not yet charged is on its way (`LeasesAfford`). A ticket's polls are
  counted in time: those it has left last, from the next poll, to the end of the
  wait (`Paced`), because `NextPoll` puts a whole period between two polls and a
  poll is charged once, however often it is replayed (`Polled`). Calls not yet
  charged about one ticket or lease are all of one operation, since only its
  owner asks about it (`OwnersInv`). The theorem has the premise
  `CallTimeout + Latency < ReceiptTTL`, so that a late message of a renewal is
  answered from its receipt instead of being charged again. Receipts last at
  least as long as leases, and those six call timeouts, so the premise holds
  when messages are late by less than five more.
- `WorkStaysCharged` and `OverspendingStaysMarked` are drawn from one invariant,
  `FundInv`. It keeps an account per unit of money, so that the sums over requests
  and leases are cardinalities. In each window a lease was granted in, the lease
  stands for as many slots as its request may have to be charged there (`Most`,
  `Slots`): all that was reserved until the lease is gone, then what its attempts
  came to cost, or, in a window marked uncertain, that cost up to what was reserved for
  them. Slots of a lease the store still has are covered by the reservation; those
  of a lease it has closed (`Gone`) must be committed (`ChargedInv`), and a cost
  above the reservation must have left its mark (`MarkedInv`). A closed lease was
  either expired, charged in full and marked, or settled by a call that pays what
  its request owes, or at least what was reserved for its attempts and says that it is
  uncertain (`Pays`), whether that call is under way, late or asked again
  (`SettlementInv`): after it is asked no attempt may change what is due. The
  lease a session is bound to is its request's alone, for good, and its windows are
  the ones it was granted in (`BoundInv`).

`CandidatePersistence_proofs`, for any callers, plans, signers, page size and
numbers of faults: nothing removes a record, so all a call has seen stays true.
The invariant `Inv` says that whatever can still reach the store is good
(`Good`): creates that were given up stay good while they are pending
(`StrayInv`), because the calls that made them had seen enough (`CallsInv`), and
a good create keeps the store well-formed (`StoreInv`); who may say "created" is
in `ClaimInv`. From it `PersistenceTypeCorrect`, `CreatedOnceHolds` and the
refinement `CandidateRefined`.

`ChatStream_proofs`, first part, for any owners, prices, reports and order of
events: `SessionInv == AttemptsInv /\ RetryFollowsError /\ SpoiltInv /\ SummaryInv`.
A verdict is final: the completion of an attempt never changes and its
uncertainty is never taken back, so an attempt an event was refused about stays
uncertain, and the summary is the record of attempts that no longer change.
From it the properties of accounting in `parts_alone`, and
`RetryFollowsError` and `GroundedOnce`.

Second part, of a whole response: `ResponseInv` joins `StreamTypeInv`, what is
still to be sent follows from what was sent last (`Script`), where the adapter
can be at each stage (`Progress`), the text sent, being sent or held back is all
of the adapter's current attempt (`Voice`), which is the last one the session
recorded (`Recorded`), and what was left was judged (`LeftClosed`). It needs
`SessionInv`, which each step of the response keeps because it makes at most one
call of the observer. From it `OneVoice`, `NothingLeftOpen`,
`CompletedIsDelivered`, `CallsRecorded`, the properties of accounting for the
composed session (`ResponseAccounted`), and the refinement `PromisesAreKept`:
each step of a response is one promise of `ChatEvents`, or a stutter.

`RetrievalRoute_proofs`, for any requests, versions and policies:
`RouteInv == TypesInv /\ LockInv /\ GoodInv /\ CallInv`. A policy that
verifies still rotates the one on record, since it was compared before the lock
was taken or again under it, and only the holder changes it; what a request
read was active during it and is attested by an identity its policy trusts.

`Parts_proofs`, of the parts that `parts_alone` composes with accounting, and of
static ingestion.

- Application, for any number of releases, statements and faults: `LifeInv` adds
  what start-up knows half way: the statements before the cursor are in effect
  (`ScriptInv`), past the first step no migration is pending and a handle is held
  of all that is open, except the connection of a bootstrap that has not returned
  (`HeldInv`, `Unreturned`), and closing has called the closing of all
  whose turn has come (`TurnInv`).
- Telemetry, for any responses and faults: each unit's bookkeeping agrees with
  what the sink accepted of its response (`UnitSound`), and the tracker's gauge
  with its active set. A delivery that stops half way leaves a prefix in order,
  which is what keeps the invariant when the unit is fused.
- Readiness: of one evaluation, what was judged of a check stays so until the
  report (`JudgedAt`, `JudgedStays`, `LoneInv`); of any set of evaluations, the
  filter's count is the number that are inside it (`FilterInv`).
- Static ingestion, for every corpus: one condition is enough, that the process
  does not stop between the two commits of a document (`Clean`) or that nobody
  edits the corpus before it is served (`Quiet`). `IngestionInv` says how far
  the two databases may then disagree: a document's chunks agree with its row or
  are those of the file being read (`Ahead`). The theorems have that disjunction
  as their premise. `static_failures` checks the same properties under stops
  anywhere and a careful operator, which neither half includes, and
  `static_mixed` shows that some such condition is needed.

`Widget_proofs`, for any numbers of turns, checks and generations that the
constants allow. Coroutines are never killed, only abandoned, so the invariant
`WidgetInv` says of every coroutine that can still run that either its
controller still names it, and it is of the current generation and works from
the element's base, or it was settled and waits only for its turn to return
(`CheckInv`, `SendInv`; `OwnCheckInv`, `OwnSendInv` and `StateInv` say the
same from the element's side). The turns of the history, and those each request
carried, are of sends of the same session that were kept (`TurnInv`,
`PostedInv`). `GenerationsStayApart` follows. `HistoryIsBounded` states for every
transcript what `boundedHistory` returns: turns of the transcript, none made
up, within both limits, by induction over the turns.

An induction over data is possible in one form. The library's induction rules
take an operator as a parameter, which no installed prover instantiates;
`NatLessThanWellFounded` with `WFMin` is first-order, and a least counterexample
gives the same. So folds and recursive functions can be proved about, RECURSIVE
operators not.

Only proved, since a run would repeat it: the remaining type invariants,
`TablesBounded`, `AuditsImmutable`, `RetryFollowsError`, `GroundedOnce`,
`CallsRecorded`, `RecordedByItsOwn`, `ReingestionReplaces`, `SchemaIsSound`,
`ClosesWhatItOwns` and `HistoryIsBounded`.

Every safety property of the passing runs is a theorem. Only model-checked:
`Grounding` and `CandidateBatches`, and every liveness property (`ResponseEnds`,
`ReplaySucceeds`, `ResolutionEnds`, `WorkEnds`, `Recovers`), since liveness and
ENABLED are beyond the prover.

## 6. Where code and documents disagree

The run `static_mixed` shows the first; the others are read off the models,
whose actions have them, and no run is spent on them.

- **A document put back after a stop** (`ingest/pipeline.py:82`). After a stop
  between the commit of a document's chunks and the commit of its row, a document
  put back as it was is taken for unchanged, with chunks of the other version in
  the store. `pipeline.py:63-64`: "changed bytes replace the old chunks."
- **A start-up that cannot succeed** (`ingest/pipeline.py:89`). After the same stop
  in a new document, or one that grew, its chunks stand in the way of every
  later start-up: the primary key refuses the identifiers that are there. `Recovers`
  excepts this case, `Stranded`.
  docs/QA_CHECKLIST.md:33-34: "Re-running `make demo` is safe".
- **Gemini's wall-clock limit** (`providers/gemini.py:326`). `asyncio.timeout`
  belongs to the task that fetches the first item, and `stream_with_pings`
  fetches each item in a new task, so after the first no limit is in force.
  docs/ARCHITECTURE.md:175-178: "applies bounded token and wall-clock limits".
- **A cancellation taken for a timeout** (`providers/gemini.py:392`). Once that
  timer has lapsed unnoticed, a cancellation becomes an error event and the
  response goes on. docs/ARCHITECTURE.md:177-178: "propagates task cancellation
  so disconnects stop work".
- **Clear chat in an invalid element** (`widget/src/index.ts:648`). The error is
  replaced by "checking", which nothing does. docs/WIDGET.md:29-30: "An invalid
  snapshot fails closed with fixed content-free UI."
- **Migrations and their transaction** (`db/__init__.py:47`). `executescript`
  commits first and runs in autocommit mode, so the script is not in the
  transaction that records it; db/__init__.py:3-4 says it is. The shipped scripts
  may run again, so start-up recovers; one that may not would lock the
  application out.
- **The connection of a bootstrap that raises** (`db/__init__.py:53-56`). It is
  opened before the migrations run and returned after them; when one raises, the
  lifespan has no `db` to close (`main.py:392`, 508-518), and the connection stays
  open until the interpreter drops it. `ClosesWhatItOwns` excepts it by name,
  `Unreturned`.
- **The price of work and its reservation**
  (`endpoint_controls.py:2381-2394`). A charge is the sum of what the price list
  says of each attempt; nothing keeps it inside `budget_reserve_per_attempt`, and work
  whose settlement is lost, or that is abandoned, is charged what was reserved however
  much it cost. The store marks both cases (`OverspendingIsMarked`), so that budget
  readiness is refused; what the window has committed can be less than what was
  spent.

## 7. What is not modelled

Pure I/O and conversions (codecs, HTTP clients, SQLite, parsing, chunking, SSE
framing), numeric code (embeddings, distances), pure construction and digests of
plans and manifests (`ingest/planner.py`, `manifest_workflow.py`,
`provenance.py`): they have neither state nor order to get wrong, and unit tests
reach them. Validation of settings and of strict records is what the ASSUMEs of
the modules state. The rate limit without controls is one bucket per key without
awaits; the store has the shared version. The widget's rendering, hand-off links
and nonce, the event schemas of telemetry, and development tools are left out.
`PROJECT.json` gives the status and reason of each part.

Details left out of modelled parts. In `ControlledChat`, a store that raises
`unknown_outcome` or `store_timeout` is replayed at once, and one that raises
`store_unavailable` is a failure at once; the model has both only as the timeout of
the call, after which the same replay or failure follows. The store that is shipped,
in memory, raises none of the three in these calls except `store_unavailable`. The
pings of the queued stream are left out: one to a client that reads slowly delays the
next poll, which uses fewer of the ticket's polls, not more. In `Readiness` every
application has a probe of its deployment mode, which answers one thing in the instances
(without it the check is `misconfigured` and no report is ready), and the closing
of the owned catalog probe, which filters the logs as a read does, is left out.

Within the modelled parts the data is abstract: messages, addresses, versions
and operation ids are model values; decimals are integers; validation of
foreign answers is "an answer or a failure". Two processes that disagree about
the time, or a store clock that goes back, are outside the models: the store
refuses the latter (`store_conflict`), and the controller uses only intervals.
Data races do not occur: the backend runs on one event loop, and what it shares
between processes it shares through the stores' transactions.
