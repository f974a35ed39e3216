# A verification project for the mediation system

This directory holds TLA+ models of the advertising mediation system in
`mediation/`, the TLC configurations that model-check them on small instances,
and theorems about them checked by TLAPS. Every definition is translated from
the source; `PROJECT.json` maps each one to its lines and lists the runs, the
mutants, the hazards and the findings. Paths below are relative to the
repository, and within `mediation/src` where they name a file of it.

## 1. The system and its parts

An SDK asks the gateway for an advertisement while a conversation goes on. The
gateway reads the configuration that applies, retrieves and ranks offers from an
inventory the networks feed, lets them compete for a placement, answers with at
most one winner, and is told what became of it: it was shown, it was clicked, it
led to a sale. Clicks and sales make revenue and use up the budget of a campaign.

The source tells this story twice. The *gateway* (`mediation/src/devtools/mediation`
with `mediation/src/runtime`, `connectors`, `cache`, `infra`) is the program that is
deployed. The *contract modules A-H* (`mediation/src/mediation`) are engines for
each stage, with a contract document each (`docs/design/mediation/modules`); the
integration tests put them together, and H is also served by a configuration API.

### The gateway

| Part | State it keeps | Operations | What is hard | What makes it correct |
| --- | --- | --- | --- | --- |
| Campaign budgets (`mediation-gateway.js` 6116-6680) | limits, reservations and a ledger in PostgreSQL; a pool of connections per process | reserve, settle, give back expired reservations, snapshot, upsert from the dashboard | statements of concurrent transactions interleave; COMMIT answers get lost; processes die; a call that holds the only connection waits for another | the ledger tells the life of every reservation; a budget is overdrawn by a bounded amount; every call returns |
| Bid requests (`mediation-gateway.js` 7700-8700, `runtime-routes.js`, `opportunity-writer.js`, `global-placement-auction.js`) | opportunity, delivery and event records, the decision log, a map per process from a request to an opportunity | evaluate all placements concurrently, choose a candidate under the budget, auction, log, answer, record events | one placement fails while others run on; several share one remembered opportunity; the process restarts before events come | an answered bid is on record and paid for, no other money is held, events reach an opportunity that was delivered, every request is answered |
| Retrieval, relevance, pricing, ranking (`opportunity-*.js`, `relevance-model.js`, `pricing-model.js`) | none; the inventory changes between their two queries | query by words and by vector, fuse, filter, gate, price, order, walk down past floor, risk and budget | many filters that undo one another's order; a stage that falls back to another set of candidates | whatever sells better than the ad served was refused for a reason that holds; paying more never ranks worse |
| Clicks, postbacks, risk rules (`mediation-gateway.js` 4860-5070, 5640-6110, 6725-7010, `runtime-routes.js` 300-420) | the facts table; decisions, last clicks and bursts in the memory of a process | judge a click, write its fact, record a postback, log | judgement and insert are apart; retries over several processes; restarts forget | clicks on an ad are spaced, bursts bounded, a conversion counted once, answers backed by facts |
| Placement runtime (`ads-runtime.js`, `cache/`, `network-health-state.js`) | two TTL caches, a circuit per network | fan-out over the networks, snapshots as a fallback, health probes | overlapping calls on one circuit; a fallback that is stored again | nothing given is older than its parts allow; a network that is back gets well |
| Inventory synchronization (`inventory-sync.js`) and connectors (`connectors/`, `offers/`) | raw and normalized offers, embeddings, the serving snapshot, the runs | fetch with retries over changing paths, map, upsert, embed, refresh the snapshot | a transaction spread over statements of a shared connection; a network that answers in part | a snapshot is one reading; a rebuild reaches every offer; what is missing is reported |
| Control plane (`control-plane-routes.js`), authentication (`infra/auth`, `mediation-gateway.js`) | users, sessions, keys, tokens in the store and a copy in every process | register, log in and out, create, rotate, revoke, issue, exchange, refresh the copy | whole rows written from a copy across awaits; a copy loaded table by table | one user per address, a token is spent before it bears another, a session stays |
| Clients (`sdk/client.js`, `runtime/contracts-client.js`, `runtime-routes.js`) | none that lasts | configure, bid, report, render, with timeouts; retry | a request the client gave up still arrives; a body breaks off | what a client tells of a turn is what happened; the chat goes on |
| Reconciliation, observability (`infra/`), intent scores and calibration | counters | compare, count, fit | - | - |

### The contract modules

| Part | State it keeps | Operations | What is hard | What makes it correct |
| --- | --- | --- | --- | --- |
| A ingress, opportunity | trace and request keys, an emitter with retries | trigger, create, emit | retries of what was acknowledged, overlapping emissions | one event per opportunity, whatever is retried |
| B normalization | an emitter with retries | normalize, resolve conflicts, bucket, redact, project, audit | precedence of conflicting signals; five steps that each may drop the guard of another | what is traded is what the most trusted source said, and nothing the policy protects |
| C policy | none | gates in order, constraints | precedence; soft outcomes after hard ones | a block is final, what leaves is constrained |
| D supply routing | an adapter register with awaits, a route plan | register, start, stop, plan, execute, fall back, conclude | operators against walks; claims of the caller that disagree with the walk | a plan is walked to its end or to a fill |
| E delivery | terminal events per attempt | compose, gate, deliver, build events | three sources of constraints, and defaults for what is missing | what is shown was permitted by policy, placement and device |
| F event attribution | per event key a record; per attempt a closure and billing keys; per record its write status | ingest, deduplicate, close, time out, map, archive | events repeated, reordered, late or in one batch; timeouts racing impressions; late answers of the archive | accepted once, decided once, billed once |
| G audit and replay | appended records, append acknowledgements | append, replay at a cutoff page by page, compare | appends between the pages of a replay; an append retried | a token finds its record, a replay skips nothing |
| H configuration | cached configurations, publish operations, rollout circuits, frozen versions | resolve, gate, cache, publish, roll back, expose gradually, freeze | an await between reading and storing; rollback of what was replayed; calls out of order | a version line is written once, what is served is recent, what was frozen stands |

### How the parts interact

A bid request calls the reservation of a budget for each candidate it tries and
holds the money for the one it serves; the reservation is given back when it
expires (any later budget statement does it) or settled by a click. The decision
log a bid request writes is what a click is looked up in. Events from the SDK go
to the opportunity records of the bid, clicks and postbacks to the facts. The
synchronization feeds the table retrieval reads. In the contract modules, an
opportunity goes from ingress over policy, routing and delivery to events; an event
goes from the endpoint or the idempotency engine to the closure of its attempt; the
mapper reads the closure and decides what is billed; the archive builder stores
what the mapper decided, and the audit store what every module did.

## 2. Modules

| Module | What it is | Uses |
| --- | --- | --- |
| `BudgetAccount` | abstract: one bid's money is opened once, then released or charged once | |
| `BudgetReservations` | the budget calls, one SQL statement per action, with transactions, row locks and connection pools | implements `BudgetAccount` |
| `BudgetReservationsProofs` | theorems about it | |
| `BidRequests` | bid requests from arrival to answer and the events after it | its budget is an instance of `BudgetAccount` |
| `BidRequestsProofs` | theorems about it | |
| `OfferSelection` | how the ad of one placement is found: retrieval, gate, pricing, order, walk | |
| `ClickRevenue` | clicks, postbacks, risk rules and the facts table | |
| `SdkFlow` | the two clients, the network and the runtime routes | |
| `AdsProofs` | theorems about clicks, postbacks and clients | extends `ClickRevenue`, `SdkFlow` |
| `PlacementRuntime` | the retrieval pipeline, its TTL caches and circuits | |
| `InventorySync` | synchronizations, embeddings and refreshes on one connection | |
| `NetworkFetch` | the requests of a connector, with retries and path candidates | |
| `InventoryProofs` | theorems about synchronization, fetch, pipeline and the choice of an offer | extends `InventorySync`, `NetworkFetch`, `PlacementRuntime`, `OfferSelection` |
| `ControlPlane` | users, sessions, keys, tokens; store, copies, loads | |
| `ControlPlaneProofs` | theorems about it | |
| `IngressEvents` | module A, and the emitters of A and B | |
| `SignalNormalization` | module B, a packet from normalization to the traded request | |
| `PolicyGates` | module C as operators | |
| `AdapterRegistry` | module D: the adapter register and its waits | |
| `RoutePlan` | module D: plan, transitions, conclusion and audit as operators | |
| `DeliveryCompose` | module E: composition, gate, response, events | |
| `ContractRoute` | one opportunity through C, D and E | extends the four above |
| `ContractProofs` | theorems about the loop, the adapter register, the emitters and the traded packet | extends `ContractRoute`, `IngressEvents`, `SignalNormalization` |
| `EventIngest` | module F: the events endpoint | |
| `EventDedup` | module F: the idempotency engine | |
| `AttemptOutcome` | abstract: a render attempt is decided once; a presumed failure may turn into a success | |
| `TerminalClosure` | module F: the terminal closure engine | implements `AttemptOutcome` |
| `EventFacts` | module F: billable facts, composed with the closures | extends `TerminalClosure` |
| `ArchiveRecords` | module F: the records for the archive and the answers of the archive | |
| `AuditReplay` | module G: what is decided about a record and a query; the store and paged replays | |
| `AttributionProofs` | theorems about closures, billing, archive, dedup, ingest and audit | extends `EventFacts` and the four |
| `ConfigPublish` | module H: publishing and rolling back | |
| `ConfigDelivery` | module H: the configuration endpoint and its cache | extends `ConfigPublish` |
| `ConfigResolution` | module H: the merge of the scopes and the version gate | |
| `RolloutCircuit` | module H: gray rollout with its circuit | |
| `VersionAnchors` | module H: versions frozen for a request | |
| `ConfigProofs` | theorems about the five | extends them |
| `MC...` | what the configurations give to the constants, and which subject a behaviour is about | |

### Subjects

Components that do not call each other share a run where one configuration can hold
them: a variable of the MC module (`about`, `subject`, `dashboard`), chosen at the
start and never changed, says which component's steps the behaviour takes, and the
others stay in an initial state. A run is then the union of the state spaces, not
their product, and an invariant of one component is checked on all the states that
component reaches. The properties themselves never mention the subject.

### Budgets

An action of `BudgetReservations` is one statement of `tryReserveCampaignBudget`,
`settleCampaignBudgetReservation`, `getCampaignBudgetSnapshot` or the dashboard's
upsert. Transactions are READ COMMITTED, as PostgreSQL runs them by default: a
statement sees what is committed plus its own writes, rows that were written stay
locked to the end, a statement that meets a locked row waits, and `NOW()` is the
start of the transaction. A call holds a connection of its process's pool
(`PoolMax` is `DB_POOL_MAX`), and the snapshot after COMMIT asks the pool for a
second one while the first is still held, as the code does. Any statement may
fail, the answer of a COMMIT may be lost, a process may die at any point (its
transactions are rolled back). Amounts are whole dollars.

`Account` reads each bid's `BudgetAccount` state off its ledger entries, so the
refinement says that the ledger, which is what accounting sees, has a sensible
history.

### Bid requests and the ad they find

A step of `BidRequests` is what runs between two awaits. All placements of a
request are evaluated concurrently (`Promise.all`), each with its opportunity
record, its walk down the ranked candidates, its delivery record and its final
update. Which candidates there are, their order and their scores are constants.
The map of the opportunity writer (`context`) is per process and shared by the
placements of a request: with several placements, an event on the ad shown goes to
the opportunity that was delivered last, which may have lost the auction.
`EventsReachDelivery` says what remains true.

`OfferSelection` opens up the walk for one placement: the word query and the vector
query are two reads with changes of the inventory between them; what they found is
fused, filtered by network, language and family, judged by the relevance gate in its
modes, priced, ordered and walked. Texts enter as traits of an offer, scores as
integers (80 is 1.0), so that no property hangs on floating point.

### Clicks and postbacks

A call of `ClickRevenue` looks up its decision (memory first, then the log), is
judged by the rules without an await, writes its fact and is logged. A click's key
is fresh for every call, since no route passes what would make it stable; a
postback's key is made of its content. Settlement of the reservation and the
click-through rules are not modelled: the campaign of a click is never known
(section 7), so they cannot be reached from here. `BudgetReservations` has the
settlement anyway, with any caller.

### Clients

`SdkFlow` has a chat turn of the ads SDK - configuration, bid, event, render, result -
and a call of the contracts client with its retries. A request on the wire may be
lost, arrive after its client gave it up, and be answered with headers whose body
breaks off. The server side is what the runtime routes do with it; the dashboard
switches placements on and off meanwhile.

### Placement runtime

Two calls of the pipeline in `PlacementRuntime` meet at every await: recognition,
the health check of a network, its fetch. Time is relative: cooldowns and cache
entries count down, offers count up from the moment the network gave them, so the
age of an ad survives its way through snapshot and answer cache.

### Inventory

`InventorySync` has one action per statement. A gateway has one connection
(`DB_POOL_MAX`), and the refresh of the snapshot sends BEGIN, TRUNCATE, INSERT and
COMMIT as separate queries of the pool: statements of another job come between them
and share the transaction. `NetworkFetch` is what happens before: lists are read in
parallel, over path candidates with retries, and of the offers of one key that they
hold the first of the highest priority is kept (`FetchedOffers`).

### Control plane

A handler of `ControlPlane` reads the copy in memory, writes whole rows to the store
with an await each, then the copy; loads replace the copy table by table. Rows keep
the status and what handlers compare.

### The contract loop

`ContractRoute` takes an opportunity through the policy's gates, a route plan, the
walk of an orchestrator (which the repository leaves to its caller: it asks
`resolveRouteTransition` after every answer and does what it says), the conclusion
with whatever winner the caller claims, composition, delivery and the events of the
render, while operators register, start and stop adapters. `IngressEvents` and
`SignalNormalization` come before it. Each stage is a set of operators named after
the functions they translate, and the state is what passes between them.

### Event attribution

`EventIngest` handles a batch in one action, since the handler has no await after
it starts; validation, the sequence number of a scope and the dedup store are
updated event by event in it. `EventDedup` is the other dedup engine, with records
that move through states, a lock and windows that expire. Its two interfaces,
evaluating in one go and locking before committing, share the records: an
evaluation that meets a lock marks the record, and the lock is gone.

`TerminalClosure` has a closure for each attempt. `Signal`, `Impression`, `Failure`
are single events, `Batch` is `processBatch` with its sorting, `ScanTimeouts` gives
up all attempts that are due. A failure that is reported names its origin itself,
so it may claim to be synthesized. With `LateSignals`, `ad_filled` may come after
or together with a terminal event, and the closure then opens again (a finding);
the properties and theorems that say an attempt is decided once are for opening
signals that come first, which is the order the SDK reports in.

`EventFacts` adds the mapper. Nothing under `mediation/src` calls these engines in
sequence; the end-to-end test does: acknowledge, close, take the snapshot, map.
Each is a call of its own, so other events may come in between, and they do in the
model. The acknowledgement is any of the three.

`ArchiveRecords` has the records of one mapped event. The archive is not in the
repository: an answer may come at any time, late or repeated.

### Audit and replay

An append and a page of a replay are one step each; appends come between pages. A
record is a name and `AuditContent` says what it holds, incomplete, contradictory
and oversized records included. Replays are paged by the code's own cursor.

### Configuration

`publishConfig` awaits nothing and is one step; `ConfigDelivery` puts the endpoint
and its cache in front of what was published, with requests that overlap while the
resolver reads. `ConfigResolution`, `RolloutCircuit` and `VersionAnchors` judge a
request: each keeps what the code keeps between two judgements, the last two over
any sequence of calls.

## 3. Runs

| Run | Shows | Instance |
| --- | --- | --- |
| `budget_race` | the ledger tells every reservation's life; over-reservation is bounded by what overlaps; refinement of the account | three bids of a dollar on a one-dollar campaign, clicks that settle one or two; two calls on two processes with one connection each, or one call while the dashboard configures, changes and pauses; expiry after one tick, one-tick days |
| `budget_waits` | every call returns, and fresh reservations can be granted | two bids, two calls on one process with two connections |
| `bid_requests` | answers are on record, money is that of ads, events stand, every request is answered | one request on two placements that rank two ads in opposite orders, budgets enforced; or two requests, one naming its placement, on processes that monitor budgets or have none |
| `ads` | the best ad that stands is served, bids pay; risk rules hold, a conversion counts once; clients tell what happened, a turn ends | three offers of every kind and policy, with a change between the queries; a chat turn; a repeated call of the contracts client; three clicks in two lives of a process; two postbacks and a click on two processes |
| `attribution` | one event per key, accepted once, billed once; `AttemptOutcome`; accepted is billed; tokens and replays find what is stored; retries end with the window | two events of one key with four answers; batches of up to two of eight events; two attempts, a wait of two ticks in three; two archive records in five ticks; three appends around one paged replay |
| `config` | a line of versions is written once, what is served is recent, the last scope's word on an adapter stands, a tripped circuit stays narrow, what was frozen stands | three publish calls of eight kinds; two clients and two versions; eight scope configurations in all combinations; two release units under four policies, requests in and out of the experiment over four ticks; three anchored versions that change |
| `runtime` | what is given is recent; a network that is back gets well | two calls, two networks of which one fails, snapshots of two ticks, answers of one |
| `control` | one user per address, a token is spent first, sessions hold | two overlapping calls at one gateway, writes that fail, loads that tear and one that fails |
| `contract` | what is shown was permitted; a no-fill has tried everything; one event per opportunity; what is traded stands; an old stop spares a new registration | four sources, every policy, strategy, budget, claim, placement and device in turn; three operator changes; two emissions with two retries; one packet of each kind |
| `inventory` | what is missing is reported, a snapshot is one reading, a rebuild reaches all | two jobs, three offers, pages and chunks of one, one fault; two lists on two paths with one retry |
| `facts_reopened` | violation: a closed closure opens | the closures with late signals |
| `replay_cutoff` | violation: a replay at one cutoff changes | the audit store with two replays |

The bounds, and why they are enough. Contention for the one dollar needs two bids; a
third lets a released one be followed by another. A second process is needed for
locks across pools; more calls repeat what two do. Windows and times to live
(`DuplicateWindow`, `DedupWindow`, `CompensationWindow`, `WaitWindow`, `Grace`,
`SnapshotTtl`, ...) are small but larger than one tick where both sides of an edge
must be seen, and the clocks (`MaxTime`, `MaxDedupTime`, `MaxArchiveTime`,
`MaxAuditTime`, `MaxIngressTime`, `LastTime`) go past their end. `MaxLives` is one
restart. `MaxCalls` three publish calls are a publication, its rollback and a repetition;
`MaxVerdicts` four answers of the idempotency engine are an acceptance, a duplicate,
and what follows a duplicate in both directions; `MaxEvents`, `MaxAnswers` let a batch
be posted twice in full and twice in part; `MaxReports` lets two events be between
their processing and their mapping; `MaxAppends` three appends fill two pages and
shift them; `MaxReplays` is one replay, two where a repetition is the question.
`MaxFaults`, `MaxFailures`: one failure meets every statement in turn; where the code
counts failures (`MaxRetries`, `FailureThreshold`) they are as many as it counts.
`MaxChanges` three changes are what it takes to
remove and register a source again under a stop that waits. `MaxToggles` one change of
the dashboard falls at every moment of a turn; `MaxVersion` two lets a row change
once and be withdrawn. `MaxSecret` is one rotation. Attempts, keys and campaigns do not
touch each other, so one or two of them show what any number does; where that
argument is a proof, it is in section 5.

Bids (`budget_race`), attempts (`attribution`) and clients (`config`) differ in
nothing but their names, no definition chooses among them, and those runs check
safety only, so they are symmetric sets there.

Where `CHECK_DEADLOCK` is off, the instance has finitely many calls or a bounded
clock or history, and the system stops when they are used up. `budget_race`,
`budget_waits`, `runtime` and `control` check for deadlock: there, something can always
come.

**Findings.** `facts_reopened` states what the design says of a terminal state,
`replay_cutoff` what it says of a replay at a cutoff; each shows that the code does
otherwise, and `findings` in `PROJECT.json` quotes the lines. No passing property
depends on the code being repaired. Section 7 lists what else was found at odds.

## 4. Fairness

- Budgets (`Fairness` of `BudgetReservations`): weak fairness of each call's next
  statement - the database answers or the connection errors out, and Node runs the
  continuation; waiting for a connection ends by the pool's connection timeout
  (`connectionTimeoutMillis`), which is a step of the call. Strong fairness of
  obtaining a row lock: PostgreSQL queues waiters, and a holder's transaction ends.
  Nothing is assumed of arrivals, failures, crashes or the clock.
- Bids (`Fairness` of `BidRequests`): weak fairness of the steps of a running request.
  Each is the continuation of an await that resolves or rejects.
- Chat turns (`SdkFairness`): weak fairness of the client's own steps and its timers,
  and the host's chat promise settles. Nothing is assumed of the server or the network:
  that the turn ends anyway is what `TurnEnds` is about.
- Placement runtime (`Fairness` of `PlacementRuntime`): time passes, the steps of a call
  are continuations of awaits that have a timeout, and requests that name an entity
  keep coming, which takes strong fairness since a slot must be free. A circuit is
  closed by requests alone, so without them `CircuitHeals` could not hold.
- Control plane (`Fairness` of `ControlPlane`): the steps of handlers and loads, and
  clients that go on using their
  session while it is theirs. At most `MaxFailures` loads fail, so the store answers
  in the end.
- The contract modules: none. Their engines answer in one piece, nothing in the
  repository calls `scanTimeouts` or the retry queues, so that an attempt is eventually
  decided or an event delivered is not something the code promises.

## 5. Proofs

A theorem here is for every value of the constants, under the named assumption of
its module on them; TLC evaluates each of these assumptions in a run. Assumptions
say what sort of thing a constant is (windows are natural numbers, a ranking is a
sequence of ads, a table's identifiers are not another's) and nothing about how many
there are; of a number, that it is positive where the code has it so, and of `MaxRetries`
of the client at most 5, as it clamps them. Bounds of the instances (`MaxTime`,
`MaxCalls`, ...) are constants too, so a theorem holds whatever they are.

The theorems about a component are one inductive invariant, shown to hold initially,
to be kept by every action (one lemma for each that does something), and to imply the
property. What follows names the invariants and says why the property alone is not
enough.

**Budgets** (`BudgetReservationsProofs`). `TypeCorrect`, `LedgerCorrect` and
`ImplementsBudgetAccount` rest on the invariant
`IInv == TypeOK /\ LockDiscipline /\ LedgerTellsStatus`. `LedgerTellsStatus` alone
is not inductive: that a commit adds the right entries follows from rows written
by an open transaction being untouched by others, which `LockDiscipline` states
(rows given back or settled by an open transaction are still reserved in the
tables, and no two transactions hold one row). `ChargeInv` says what a settlement
writes is a permitted amount; with it each step is a step of the account or leaves
it alone (`AccountStep`).

`BudgetBound`: a campaign is overdrawn by at most one reservation per further connection.
A sum of amounts is the number of their units, so it needs no recursion. The invariant is
`BoundInv`. `PendingCovered` says of every set of calls that have found headroom and not
committed that the bound holds even when all of them commit. When a call finds headroom it
can be misled twice: by calls that are pending beside it (`Rivals`), and by rows it may not
count, since they were committed after its cleanup and expire before its `NOW()`
(`Uncounted`: their transactions are older than a reservation lives). `RivalsBounded`
counts both together against the connections: who commits such a row stops being a rival,
or has given back another of them, on whose lock the row depended. `StepKinds` sorts all
steps into five kinds, each kept by a lemma.

**Bid requests** (`BidRequestsProofs`). `AnswersRecorded`, `MoneyCorrect` and
`EventsCorrect` share `BidInv`. `EvaluationAt` follows one evaluation through its
statements and says what each has written by then, `HandlerAt` what the request
around them knows, `MoneyAt` whose money is set aside: an account is open only for
an ad that a placement of the request won with, or for a reservation whose answer
was lost. `ContextTrue` keeps the writer's map to placements of the request.

**Clicks, postbacks and clients** (`AdsProofs`).
- `PostbackCorrect`: `FactsKeyed` (a fact has the key of the call that wrote it, and no
  two facts one key) and `ToldTrue` (who was told of a fact finds it).
- `RiskRulesCorrect`: `RiskInv` covers the clicks that have passed the rules and not been
  written (`Passes`), since the rules are judged before an await. A pass is remembered by
  its process for as long as a window needs (`PassesKept`), and the passes of one process
  keep the rules among each other (`PassesRuled`).
- `ClientsCorrect`: `ServerInv` says of what is on the wire who asked, and of each reply
  that it was given to a request that arrived; `FlowTrue` and `JobTrue` what a turn or a
  job knows at each of its stages. What was served, logged and made only grows
  (`Grows`), so that what a client says stays true however late.

**Configuration** (`ConfigProofs`).
- `VersionsCorrect`: `LineInv` adds to the line of versions that records and answers tell
  the same of a version and that a change set is recorded once.
- `ServedRecently`: `ServeInv` dates everything that may be served, the entry of the cache
  and what a request has resolved and not stored, against `lastCurrent`. It needs that
  versions do not get older (`SeenGrows`), since a slow request may store its answer
  over a newer one.
- `GateKeeps` shows that the merge of the three scopes keeps the narrowest usable word
  on any setting, and that only a request's own minima are put before it; `AnchorsStand` and `CircuitNarrows` need little beside their types,
  the latter how long the cooldown of an open circuit still is.

**Event attribution, archive and audit** (`AttributionProofs`).
- `IngestCorrect`: the acknowledgements tell what is stored (`TellsOf`), proved along a
  batch, event by event, by induction on the length of what was acknowledged.
- `DedupCorrect`: `DedupInv` says that after an acceptance, as long as evaluation answered
  neither a duplicate nor a conflict (`LeftAloneSince`), the record stands that the next
  evaluation is compared with, and that who holds a key has a record to commit.
- `RetriesEnd`: the failure a record remembers is the first one of its key.
- `TokensCorrect` and `ReplayCorrect`: `ReplayInv` says that pages read so far cover all that
  comes before the cursor, among what was stored when the replay began; an append puts
  no key before where it was (`AppendCovers`), and a replay says so when one moved.

**Closures and billing** (`AttributionProofs`). `ClosuresTyped` goes operator by operator
(`OperatorsTyped`), as every step applies one of them to a closure.
`ImplementsOutcome`, under `LateSignals = FALSE`: `OperatorsAdvance` says each
operator keeps the outcome of a closure or advances it, `AdvanceIsStep` that an
advance of one attempt is a step of `AttemptOutcome`; the scan gives up many
attempts in one step, `Presume(S)`. `BillingCorrect` proves `BilledOnce` and
`BilledIsSuccess`, also under `LateSignals = FALSE`. They are not inductive: an
impression is billed by a snapshot that was read earlier. The invariant adds
`SnapshotsStand` (what a waiting snapshot says of a success is still true, since
success stands) and `StoreTellsEmitted` (the store of keys counts what was
returned). `AcceptedBilled` adds that an impression whose report waits has decided its
attempt (`ImpressionsDecided`). With `LateSignals` the three are false, which is the finding
`facts_reopened`; signals that open first are the order the SDK reports in.

**Control plane** (`ControlPlaneProofs`). `OneUserEach` and `SourcesSpent` share `ControlInv`.
A row in a copy, in a load or in the plan of a call may be old, so the invariant says
what it stands on in the store (`Backed`): the user is there under this address, the
token is there, the source of the access token is spent. The store keeps all that
(`Keeps`) through every write. A plan is sound (`Writable`, `GroupSound`, `PlanSound`) if each of
its rows may be written when its turn comes: it is there already under the same
address, or the call alone makes it; a token is written active only when it is new;
an access token comes after the write that spends its source. `GrantsStand` is about
clients that were told they registered.

**The contract loop** (`ContractProofs`). `PermittedIsShown` and `NothingIsLeftOut` share
`RouteInv`: `PlanStands` (what the plan is, for any set of sources: the sources of a tier
have an order, shown first), `WalkStands` (which steps of each tier are still open, from
the tier the walk is in and the switches it made), `CandidatesAsked` and
`ConclusionStands`. The register changes meanwhile, which the walk may not notice.
`OldStopsSpare` is an action property and needs the register's types only.
`OneEventEach`: an emission that is under way has its key in the store
(`EmissionsStored`), so that no second one begins.

**Inventory** (`InventoryProofs`).
- `FetchCorrect`: `WalkTrue` says of the walk over the paths of a list that the paths
  before the one it is at do not exist, and what its result tells of this one. That of the
  offers of one key exactly one is left takes no recursion: places in the lists are ordered,
  and among finitely many one is preferred to all others (`HasBest`).
- `SnapshotsCorrect` and `RebuildsCorrect` share `SyncInv`. `RefreshTrue` says what stands
  in the snapshot at each statement of a refresh that is the only one under way, `AloneTrue`
  that for one that no statement came between, besides, nothing has failed. `JobTrue` is
  about a rebuild: what was active all along and has no embedding yet is behind the cursor
  or in the rows that the job holds, and all of these are of something. That pages reach
  every row is a fact about ranks in a finite set (`RanksCount`, `PagesReach`).

**Placement runtime** (`InventoryProofs`). `AgesBounded`: `RuntimeInv` adds up ages and times
to live. Of an entry of a cache, its age and the time it has left are bounded together, so
that a tick changes nothing of their sum; what a network brought to a call is as old as
a snapshot may be plus what the call has waited since.

**The choice of an offer** (`InventoryProofs`). `SelectsBest` and `BidsCount` share `SelectInv`:
while an evaluation walks, and after it has ranked, the order is the auction order of the
answers it got (`WalkStandsHere`), all offers before the walk's place were passed over, and
each for a reason that is still true (`PassedTrue`). The auction order is given by ranks: the
marks of two offers always tell which is ahead (`AheadOrders`), so every place is taken once
and the order goes down (`OrderedTells`, `RankingTells`), with no induction over a sort.
`BidsCount` then follows the bid through the factor of its network, the bounded price, the
share of an order and the rounding of each (`BidsRaise`, `SharesGrow`): each keeps the order.
That the answers of the two queries were of different moments needs no assumption: what was
found is what is judged.

**The traded packet** (`ContractProofs`). `TradesHold`: by `SignalInv` an answer of a service, once
given, stands, so that what the projection and the audit read apart is the same. A slot
settles to a statement of its most trusted sources since ties are broken among finitely many
numbers (`OneIsMost`, `TieBreakIsOne`), and in any order of the statements since the resolver
reads the set of them when they say their number (`OrderDoesNotMatter`).

**Only model-checked**, and why:

- Liveness (`CallsReturn`, `RequestsAnswered`, `TurnEnds`, `CircuitHeals`, `SessionsHold`):
  fairness and ENABLED are outside of what the proof system does.
- That a recursive definition computes what it should for every input: no module a theorem
  is about has one. Orders, sums and walks are stated by ranks, cardinalities and recursive
  functions instead.

## 6. What is left

The placement and budget routes of the control plane, once there is something to say of
them beyond a single statement; reconciliation and observability, if they come to decide
anything.

## 7. Where the code and its documents differ, and what the models met

The models do what the code does, and the properties are stated so that they hold of
it. What follows is not a run of its own unless it says so.

**Bids, clicks and budgets**

- The opportunity writer remembers one opportunity per request, whichever placement
  delivered last (`opportunity-writer.js:179`).
- A daily limit of NULL, which the schema allows
  (`migrations/0009_campaign_budget_and_risk_foundation.sql:27`), is read as 0: every
  bid on the campaign is refused (`mediation-gateway.js:6235`).
- The key of a click is drawn at random for every call (`mediation-gateway.js:6751`): a
  click that the redirect billed is billed again when the SDK reports it, unless
  risk rules are enforced.
- The campaign of a click is read from `decision.runtime.winnerBid`, which no decision
  row has (`mediation-gateway.js:6841`): with budgets enforced every click is refused
  as `budget_unconfigured`, and otherwise no reservation is settled.
- A placement that loses the auction keeps its reservation until it expires. When the
  decision cannot be logged after the winner was reserved, the answer is "No bid" and
  the money is held.
- An event overwrites the state of its opportunity whatever it was
  (`opportunity-writer.js:332`). A click whose insert failed after it passed the
  duplicate rule is refused when it is retried within the window.
- A store that failed to initialize once is never tried again
  (`settlementStore.initPromise`, `mediation-gateway.js:4939`).

**The ad of a placement**

- The gateway ignores the `winner` of `rankOpportunityCandidates`
  (`opportunity-ranking.js:646`) and walks `ranked` in auction order
  (`mediation-gateway.js:7942`); the debug record may say `rankDominanceApplied` though
  another ad was served.
- Reasons of the ranking never reach the answer, since the selection always has one of
  its own; `full-chain-discovery-report-2026-02-28.zh-CN.md:213` (in
  `docs/execution-plans/implementation`) lists `rank_below_floor`.
- Where no bidder of a placement is enabled, the offers of all enabled networks are
  read (`mediation-gateway.js:732`). A relevance gate that only observes still changes
  the order. One strict candidate of another vertical suppresses the relaxed ones. The
  order of two offers depends on a third through the min-max normalisation.
- A bid of CJ up to 1 is read as a share of an order of $80; an offer without a bid
  ranks before one with a low PartnerStack bid. `BidsPay` excepts both.

**Clients**

- A body that breaks off after its headers is read as `{}` by both clients
  (`client.js:274`): a bid that was served is reported as a confirmed no-fill, a disabled
  placement is read as enabled. The contracts client clears its timer before it reads
  the body.
- The contracts client repeats every route, also the creation of keys (two keys, the
  first secret lost), the exchange of tokens (the repetition is refused though the first
  was done), bids and events. A 400 whose message contains "socket" is repeated.
- A failing store is answered 400 by `/sdk/events` although the event may be logged. A
  factory or a render function that throws rejects the turn, where `README.md:143` has
  the ad chain all fail-open. A bid error that is no timeout, with `failOpen`, is
  classified as a confirmed no-fill.
- `/v2/bid` refuses a placement id and evaluates all placements, so the ad shown may be
  of another placement than the one whose configuration was read.

**Placement runtime, inventory, control plane**

- The refresh of the serving snapshot sends its transaction as separate queries of a
  shared pool (`inventory-sync.js:703`): statements of other requests run inside it, two
  overlapping refreshes can commit an empty snapshot, and a COMMIT of an aborted
  transaction is answered ok. `SnapshotIsOneReading` and `RebuildReachesAll` except these.
- Overlapping runs may leave the raw record and the row of an offer from different runs;
  a gateway that dies leaves its runs as running; rows that were withdrawn upstream stay
  active; a fetch of CJ whose lists all failed is a success of nothing; a retry-after is
  waited for however long it is. An answer of 200 whose body holds no list is an empty
  list without an error (`cj-connector.js:258`, `partnerstack-connector.js:26`), and one
  page of a list is read: `MissingIsReported` counts both as answered.
- The later write wins where a use, a rotation and a revocation of one key overlap, and
  two exchanges of one token both find it active (`control-plane-routes.js:873`, `:1252`).
- A refresh of the origins that listed them before a PUT overwrites the newer ones in
  memory until the next refresh; placement configurations are process memory only.

**A-E**

- A trigger whose budget is softly exceeded is admitted before its configuration is
  looked at (`trigger-handler.js:202`), against
  `module-a-sdk-ingress-opportunity-sensing.md:477`. A trigger whose request time is after
  its own is admitted, and its opportunity then refused (`create-opportunity.js:211`).
- An emission that is repeated after it was exhausted or rejected is answered as an
  accepted duplicate though nobody took it; without an explicit time it is a conflict.
- Two aliases of the dictionary lead to a value that is not in it
  (`canonical-dict.js:94`). An explicitly unknown value of a gating slot is accepted, and
  an unknown value of higher priority beats a known one. The default policy protects
  restricted categories and request times, and `openrtb-projection.js:119` and `:241`
  trade both as they are (`module-b-...md:546`); an empty session key is hashed into a
  user id; a path that no policy names is public. A value whose action is none of the
  contract's four (`module-b-...md:529`) passes as it is, whatever its class
  (`redaction.js:216`). `TradedSignalsStand` is about the identifiers and these actions.
- An allow list whose members are all blocked becomes a list of what is blocked
  (`output-builder.js:124` of module C). The audit of C names an unknown rule whatever
  gate decided (`policy-audit.js:40`).
- A waterfall that meets a retryable error skips its secondary tier. A winner that is not
  among the candidates is silently replaced by the first of them
  (`supply-routing/output-builder.js:331`, where `module-d` line 660 wants it to be one), and
  bidding takes the first candidate, not the highest bid. The route audit takes the
  sources of the plan for the pool, and files a no-fill under the primary tier.
- `compose.js:609` tells clients to report `ad_clicked`; `event-output.js:12` knows
  `on_click` only. A route that did not serve still has its first candidate bound to the
  plan with reason `e_candidate_selected` (`compose.js:746`; `module-e` lines 313, 343). A
  served candidate of price 0 is refused. The gate and the composer prefer modes in
  different orders and disagree on a slot count of zero.
- `buildEvent` believes a `deliveryStatusSnapshot` of its caller over the status of the
  response (`event-output.js:113`): an impression may be reported of a response that was
  not served. Nobody in the repository states one; `ShownIsPermitted` is about the
  impressions that carry the status of their response.
- Of overlapping starts and stops of one adapter the last to finish wins, and
  `adaptRequest` does not look again after its await.

**F**

- An opening signal opens a closed closure again (run `facts_reopened`;
  `terminal-closure.js:106`).
- `commit` looks its record up by the key alone: a commit that comes after its lock
  ran out ends the lock another caller has taken (`idempotency.js:257`), against
  `module-f-event-attribution-processor.md:299`. An evaluation under a lock ends it, too.
- A replay moves a record to `duplicate_committed`, which no later report is compared
  with: the third report of one event is accepted (`idempotency.js:343`), against
  line 333 of the same document. `OneEventPerKey` is about any two acceptances under a key:
  within the window or the lock of the first, there is a duplicate or a conflict that
  evaluation answered between them. That third report is the only one accepted again.
- A click that is posted again is refused for its sequence number before the dedup
  store is asked (`events-controller.js:378`), so it is never answered `duplicate`; a
  click that is late or out of order is refused for good; an event that is refused for
  its key has advanced its scope all the same. Two errors with different stages that
  the endpoint does not know become one payload.
- A click without a billed impression is pending and remembered nowhere
  (`facts-mapper.js:224`); line 514 would have it upgraded.
- A late answer of the archive commits a record that was given up
  (`archive-record-builder.js:257`), against line 587, and the aggregate
  `consistent_committed` of line 618 is never reported.

**G**

- A replay at a cutoff is not repeatable (run `replay_cutoff`; `replay-engine.js:368`). A
  replay that states no cutoff cannot be paged once the clock has moved.
- A diverged record and one without a comparison on one page are reported as
  deterministic (`replay-engine.js:800`). One record without an anchor refuses its page and
  all pages after it.
- A record appended once with and once without a key is stored twice. After the window a
  different payload replaces a record, and old tokens find the new one. Three of the
  append's checks never fire, since "NA" passes them (`audit-store.js:209`); the queue of
  the store is never emptied.

**H**

- A retryable failure is answered from the dedup record and never tried again
  (`config-publish.js:427`, `:578`), against `module-h` §3.10.19 rule 3. Compensation on a
  unit that had nothing sets its snapshot to the base the request claimed.
- A circuit that tripped never recovers beyond its half-open share.

## 8. What is not modelled

- Scores, prices and texts (floating point and string handling): intent scores,
  embeddings, calibration and the composite score of the auction are traits of an
  offer or constants. Cryptography of tokens and keys; reason codes and formats where
  no property is about them; logs, metrics and counters.
- How a connector reads one record of a network, and the house catalog with its cache:
  they map data to data. The base adapters and `bid-runtime.js`, which only tests use.
- The placement, budget and origin routes of the control plane: each is one statement
  on one row, or process memory. Service-to-service assertions: they keep no state.
- `error-degrade.js` and the gateway's `evaluateRequest`, which nothing calls; the
  intent-card retrieval route, which reads a vector index in process and keeps nothing.
- Raw payloads and the statuses of the replay controller; the field provenance and the
  hashes of a resolved configuration; the table of failure modes, a constant lookup.
- Why a policy input is refused, other than for consent: all such inputs count as one
  that is missing. A source declares the same placement types at every registration.
- Reconciliation: a comparison of two aggregates with tolerances, without state.
- Migrations other than as the meaning of the tables; scripts, dashboards, the
  deployment shells under `apps/`; observability, topic and key names.

Hazards the models reach and no property covers, since the code promises nothing that
could be violated: a limit read as 0, an event overwriting a later state, money held for
losing placements, the fresh key of a repeated click, a settlement that is never reached,
a click refused after its insert failed, clicks that arrive out of order, clicks mapped
before their impression, the queue nobody empties, rows written back over newer ones,
two exchanges of one token, an exhausted event nobody sends, runs left as running,
raw and normalized records of different runs, a fetch of nothing recorded as a success,
refreshes that share a transaction or are rolled back after they were answered for, bids
of CJ of 1 or less, and a body that breaks off read as a no-fill. Section 7 describes
what becomes of each.
