# Dianchi in TLA+

Dianchi takes in retired lithium batteries, inspects and reserves them, has them
dismantled, records what was recovered and certifies it. The program is a Go
server on SQLite. This directory holds TLA+ modules translated from its source,
TLC configurations that check them on small instances, and theorems that hold
for every instance.

    tlc -workers 2 -config MCLifecycle.cfg MCLifecycle.tla
    tlapm LifecycleProofs.tla

Paths below are relative to `internal/` unless they start with another
directory of the repository.

## The system

| Component | State | Operations | Works with |
|---|---|---|---|
| Lot service (`service/lifecycle.go`, `domain/battery`, `domain/auth`) | none of its own | Intake, Inspect, Reserve, BeginDismantling, Recover, Certify, List | the store, one transaction per call |
| Store (`storage/sqlite/store.go`, `migrations/`) | the tables; a pool of one connection | one statement per method, `WithTx` | called by the services and the outbox worker |
| Outbox worker (`service/worker.go`) | rows of `outbox` | claim, publish, mark | rows come from Recover; an external publisher |
| API and sessions (`httpapi`, `service/auth.go`) | `operators`, `sessions` | register, log in and out, authenticate, route | calls the lot service |
| Queue, dispatcher, health (`worker/queue.go`, `dispatcher.go`, `monitor.go`) | a list, a one-token channel, handlers | push, pop, close, run | goroutines and a lock |
| Scheduler (`worker/scheduler.go`) | a map of jobs | add, cancel, stop, run | goroutines, a lock, a ticker |
| Reconciliation (`service/reconciliation.go`, `domain/reconciliation`) | a cache; a store behind it | create, append, submit, review | saves to the store, then the cache |
| Dispatch routes (`service/reconciliation.go`, `domain/dispatch`) | the planner's routes; the store | plan, add a stop, advance | saves to the store after the planner's lock |
| Material stock (`service/material.go`) | lots per tenant | add, reserve, prune, balance | a lock |
| Notifications (`service/notification.go`) | messages | queue, claim, complete | a lock; senders outside it |
| Batch intake (`service/batch.go`) | the result of one import | import, retry what failed | goroutines and a semaphore; calls Intake |
| Retrier (`service/retry.go`) | attempts per key | do | its callers share the attempts |
| Transport (`service/transport.go`), manifests (`manifest.go`), incidents (`incident.go`), compliance (`compliance.go`), safety and quarantine (`safety.go`, `quarantine.go`), with their rules in `domain/` | maps in memory, a lock each | create, add to, move through a transition table; record, resolve, review; hold, release, expire | nothing: they name lots, and are not connected to them |
| Trace graph (`domain/trace`), paging (`pagination`, `ListLots`) | a chain of nodes and edges; none | add, reach; read a page | pure, or a statement |
| Operators, policy, energy, reports, analytics, audit log, helpers | maps in memory, or none | | not connected to the rest |

What is hard here: transactions whose statements or commits fail while other
requests wait for the only connection; clients that lose an answer and ask
again; workers that die between claiming and marking; one token that stands for
two kinds of news; copies that are changed and written back after the lock was
released; a cache and a store that are written in two steps; sessions that end
between the check and the deed. `PROJECT.json` lists these hazards by line, with
the properties that would catch them.

What makes each component correct, in a sentence each:

- *Lots*: the tables agree with one another and with the workflow in every
  reachable state, and a transaction is all or nothing.
- *Outbox*: retries are bounded, spaced and end; published means delivered.
- *API*: a session that is over admits nobody.
- *Dispatcher*: no job lost, none consumed twice, nobody asleep while there is
  work.
- *Scheduler*: what is cancelled stays out, what failed comes back.
- *Reconciliation*: an approved report is within tolerance; cache and store agree.
- *Routes*: vehicles are not overloaded; the store has a past of the planner.
- *Stock*: it amounts to an account, of which exactly what is there is granted;
  *notifications*: one sender each, no starvation.
- *Batches*: every item is answered for, and the import returns; *retrier*: all
  attempts are used before it gives up.
- *Trips, manifests, incidents, certificates*: what is decided, sealed, closed or
  under way stays so, with times in order and decisions on record.
- *Safety, quarantine*: danger stays open until it is resolved; notes belong to
  a stay.
- *Trace, paging*: what a path leads to, and nothing else; no lot missed.

## Modules

| Module | What it is |
|---|---|
| `Battery` | states, permissions and rules of lots, as pure operators |
| `Store` | the tables as one record, each statement an operator on it, each constraint a predicate |
| `Lifecycle` | the abstract specification: each successful operation is one atomic change |
| `LifecycleTx` | the service as it runs: statements, rollbacks, commits that fail, lost answers, crashes; implements `Lifecycle` |
| `Api` | extends `Lifecycle` with operators, sessions and requests |
| `Outbox`, `Dispatcher`, `Scheduler`, `Reconciliation`, `Routes` | one component each |
| `Worker` | composes `Dispatcher` and `Scheduler` |
| `Ledger` | abstract specification of stock: an account per tenant and kind |
| `Batch` | extends `Lifecycle` with an import and its goroutines |
| `Materials` (implements `Ledger`), `Notifications`, `Retrier`, `Transport`, `Manifests`, `Incidents`, `Compliance`, `Safety`, `Trace`, `Paging` | one component each |
| `Services` | composes `Batch` and the ten above |
| `LifecycleProofs`, `LifecycleTxProofs`, `OutboxProofs`, `ApiProofs`, `ReconciliationProofs`, `RoutesProofs`, `WorkerProofs`, `ServicesProofs` | theorems |
| `MC*` | instances for TLC |

Definitions whose comment begins with "A mutant of" are plausible bugs: each
property is known to fail when one of them takes the place of the code it is a
mutant of (`PROJECT.json`, `mutants`).

### Lots: Store, Lifecycle, LifecycleTx

A database is a record with a field per table; rows of child tables are kept per
lot. `Store!UpdateLotState(d, id, state)` and its like are the statements.
`Lifecycle` strings them together in the order of the code (`RecoverTx` is the
body of `Recover`) under the guards of the handler, and keeps one variable,
`db`. A refused call is a stuttering step there.

`LifecycleTx` runs the same statements one step at a time. `Program(c)` lists
them per call; `Statement(r)` executes the next one on the private image of
request `r`, or refuses; `StatementFails(r)` is a driver error; `Rollback` gives
the connection back. Details kept from the code:

- `GetIdempotency`, `ActiveReservation` and `FindCertificate` are used for
  whether they returned an error, whichever it was. A failing query therefore
  reads as "no such row": `StatementFails` goes on after it, except in
  `BeginDismantling`, which answers with a conflict.
- a commit may report an error with the transaction applied (`CommitUnsure`) or
  not (`CommitFails`); the client is told of an error in both cases.
- a retry presents the same call; `RetryIsAnswered` is about what it is told.
- `Crash` drops every open image and every request; the file keeps what was
  committed.

`Abstract == INSTANCE Lifecycle` maps `db` to `db`; `Atomic` is its
specification.

Left out: random ids, times, names and notes (nothing compares them); the
overflow of the sum of three weights (it needs weights near 2^63); `ListLots`,
which only reads.

### Outbox

`Select` and `Claim` are the two statements of `ClaimOutbox`, with other workers
in between; `PublishSucceeds` and `PublishFails` the publisher's answer, which
may be an error although the event is out; `MarkPublished` and `MarkFailed` the
two statements of `MarkOutbox`. Time stamps are compared as text by the query,
and `RFC3339Nano` drops the zeros at the end of a fraction, and the point with
them, so that within a second `05.999999999Z` sorts before `05.5Z`, and that
before `05Z`: an event may be claimed up to just under one second early.
`DueNow` computes that order from the digits (`Sign`, `TextAtMost`); a tick is
the smallest fraction that `Digits` digits to the base `Base` can show, in the
program nine to the base ten. The server does not start the worker; the model is
of what happens when someone does (`Start`), once or more often.

### Api

A request is authenticated in one step (`FindSession`) and acts in a later one
as the person that was found. The code reads the clock just before the query
(`service/auth.go:49`); the model does both in `FindSession`, which tells nothing
apart that `OverIsOver` is about: a request that arrives late reads a late clock
in either case. `Tick` runs sessions down; at zero they are over
(`!now.Before(t)`). Certify has no route in the switch of `Server.action`, and
`BeginDismantling` does have one. The operation itself is one step of
`Lifecycle`, which `LifecycleTx` justifies.

### Dispatcher, Scheduler, Worker

`Worker` puts the two parts of the package side by side. They share nothing, so a
behaviour follows one of them (`focus`): the run `worker` has both, and
`scheduler_reuse` asks for the scheduler (`Focus`).

A lock section is a step. In `Dispatcher` looking at the queue (`Pop`) and the
select on the channel (`Wake`) are separate, so a runner can be overtaken
between them; `Close` is two steps, flag and token. In `Scheduler` a runner
takes copies (`Snapshot`), runs the first without the lock and then compares it
with the entry (`Unchanged`, `Reschedule`). `Next` instants are kept as the time
that is left, and the failure or the caller that set them stands for the instant
itself, which is what the comparison of the code tells apart. `Add` takes the
attempts and the time its caller gives (`given`), as long as attempts are not
negative; all times in the past are one. `overtaken` has the ids that were added
while a runner still had a copy of what was there before; the code keeps no such
thing, it is there for properties to name the case in which the code goes wrong.

### Reconciliation and Routes

An operation of `Reconciliation` is a program counter: load from the cache or
from the store and fill the cache, change the copy, save to the store, save to
the cache. `Restart` empties the cache. Reports carry the set of measurements
they were last evaluated with. In `Routes` the planner's part is one step and
the save another. `RouteService` never compares tenants, and neither does the
model. A save that reports an error has stored nothing: the code does not say what
its stores do, and one that applies and then fails would leave the cache behind
the store and the properties about both false (see below).

### Services

The components `Services` composes have no state in common but the clock and
never call one another, so each sees any interleaving of them as one in which it
is alone. A behaviour therefore chooses one of them at the start (`focus`) and
follows it; one run checks them all without multiplying their states. The
constants of all of them, their assumptions and the names of their properties
are in `Services`.

- `Materials` implements `Ledger` with `available` mapped to `Balance`. `answer`
  keeps what `Reserve` was asked and told, so that the refinement includes that
  a refusal is justified. The loop over lots is a recursive function
  (`Remaining`), from which both the decision and what is taken follow.
- `Notifications` keeps of the times what `Claim` compares: the seconds left,
  and the order of those that are due. `Complete` of the code takes any id from
  anybody; nothing under `src/` calls it, and the senders of the model complete
  what they have claimed, once.
- `Batch` has a program counter per goroutine: the select (`Acquire` or `Skip`,
  both possible once the context has ended), the intake (the atomic one of
  `Lifecycle`, or a failure), the record under the mutex, the slot given back.
  Other clients take lots in meanwhile.
- `Retrier` is `Do` for one key: read, call, count, wait, with callers in
  between. `failed` counts failures since the last success and `overlap`
  notes whether two calls were ever under way at once; the code has neither.
- `Transport`, `Incidents` and `Safety` take trips, incidents and findings as
  callers made them, with whatever times, stops or resolution they carry, as the
  code does. The transition tables are those of `domain/`.
- `Manifests` has the backing array of the slice a caller passes to `Create`:
  `AppendItem` is Go's `append`, in place while there is room.
- `Compliance` checks evidence and requirements as far as the code does: that
  some evidence is named, and that something is provided for each requirement.
- In `Safety`, `holds` counts the times a lot was held since it last was not, to
  compare the notes with.
- `Trace!Sweep` is a round of the loop of `Reachable`, which ends with the first
  round that changes nothing (`Settled`); that there is one is part of
  `ReachableMeansPath`.
- `Paging` keeps the lots of one tenant in the order of pages, into which new
  ones may come anywhere, since `received_at` is compared as text. Rows of one
  instant keep their order from page to page in the model; the statement has no
  second column to order them by (`store.go:182`) and leaves that to SQLite.

## Runs

| Run | Question | Instance |
|---|---|---|
| `lifecycle` | do the tables stay consistent? | 2 lots, 2 tenants, 2 codes, 3 roles each, a hazard on each side of the limit, valid and invalid weights |
| `lifecycle_certify` | is every recovered lot certified when its supervisor keeps asking? **No** | 2 tenants with one code |
| `lifecycle_tx` | is every transaction one step of `Lifecycle` or none; is success always true; is a retry answered; does every request end? | 2 requests, 2 lots, one role that may and one that may not, failures anywhere |
| `outbox` | what holds in a race; while one worker runs, is publishing bounded, spaced and final; does every event settle? | 1 event, 2 workers, 3 faults |
| `outbox_crash` | does every event settle even when its worker dies? **No** | 1 event, 1 worker, 1 fault |
| `worker` | dispatcher: nothing lost, no lost wakeup, everybody leaves; scheduler: is what was accepted scheduled until it is done, does what was cancelled stay out, does all come to an end? | 3 jobs, one malformed; 2 submissions of one id, one of which comes with an attempt and a time, each may fail twice; 2 runners |
| `scheduler_reuse` | does what was cancelled always stay out? **No** | 2 submissions of one id, one failure each, 1 runner |
| `reconciliation` | what holds when operations overlap; do cache and store agree and reports advance with one caller? | 3 measurements (clean, out of tolerance, too old and unexpected), 2 callers, 2 tenants, failures and restarts |
| `routes` | limits, what is under way, the order of saves | 3 operations at a time, one route, 7 stops |
| `api` | sessions that end | 2 requests, 2 tokens, 3 roles |
| `services` | the fifteen properties of the services above | 2 tenants and 3 people; per service 2 or 3 ids, numbers on both sides of each limit; an import of 3 items, one code twice, over 1 or 2 slots; 3 callers of `Do`; 3 messages, 2 senders; 4 nodes, 3 edges; 4 lots over pages of 1 and 2 |
| `manifest_inputs` | does a manifest keep the items it was given? **No** | a template with room for 2 items, 2 manifests |

The four runs answered "No" are expected to be violated: each states what the
repository's README, or the name of a test, says and shows a behaviour of the
code that disagrees; `findings` in `PROJECT.json` quotes both sides.

In several modules the workers, runners or callers join one at a time (`Start`,
`callers`). What the code promises to any number of them is stated as it is;
what it keeps only for one is stated while at most one has joined (`OneWorker`,
`OneRunner`, `OneCaller`). One run then checks both.

`lifecycle_tx` has one tenant and one code, so that a second lot meets the unique
codes and nothing more; all else that the constraints decide is in the runs of
`Lifecycle`, which the transactions implement, and in the theorems about both.

The type invariants of `Lifecycle`, `LifecycleTx` and `Outbox` are proved; those
of the other concurrent modules held in TLC and are not repeated in the runs,
and neither is what the theorems about `Lifecycle` say beyond its run. The
services have none: their properties fail on a wrong type.

### What does not hold without those conditions

Each of these is a behaviour of the code that TLC finds when the condition is
taken away:

- *Outbox*, two workers: both select a row before either claims it, both publish
  it, and the later mark may set a published row back to pending
  (`store.go:244-260`).
- *Dispatcher*, two runners waiting: `Close` leaves one token, the runner that
  takes it returns without passing it on, and the other waits for ever
  (`queue.go:58`). `TestQueuePopWakesForPushAndClose` has one waiting runner.
- *Scheduler*, an id that is cancelled while its job runs and then added anew:
  the comparison of attempts and time does not tell the two entries apart, and
  after a failure the cancelled job is written over the new one
  (`scheduler.go:58`), see the run `scheduler_reuse`. `CancelledStaysOut`,
  `ScheduledUntilDone` and `EveryJobSucceeds` leave out the ids in `overtaken`
  and no others. With two runners an id can also be added anew after a success
  while the second still has a copy. `ScheduledUntilDone` is stated for one
  runner: of two that run a job at once one may fail before the other succeeds,
  and the job comes back although it has succeeded.
- *Reconciliation*, two callers: an append that has loaded a draft is saved over
  the submission; and two saves may reach the store in one order and the cache in
  the other, so that the service says approved and the store does not
  (`service/reconciliation.go:145-158`). A save that is stored and reports an
  error does the same to a single caller.
- *Routes*, two operations: a save that is late puts an older route into the
  store; `StoreIsPast` says that it is at least a past of the planner's.
- *Manifests* that share an array, see the run `manifest_inputs`: items of a
  manifest are replaced by what others append, also when it is sealed.
  `ReplacedFromBelow` says which ones, and that none is added or lost. Trips
  share their stops in the same way (`service/transport.go:58`), and `Plan`
  takes stops that `AddStop` would refuse; the model has the second and not the
  first.
- *Retrier*, calls that overlap: each writes back the attempt it read, so that
  the count goes backwards and a call may give up after fewer failures than
  `Max` (`service/retry.go:39-52`); `GivesUpAfterMax` is stated while none
  overlapped. The attempts of a call whose context ended stay and are held
  against the next. A success deletes the count all calls share (`retry.go:44`):
  a call whose function always fails goes on for ever if others succeed often
  enough. `DoReturns` says that nothing else keeps it going, for any number of
  calls one after the other and at once.
- *Batch*: `RetryFailed` takes in what failed with hazard 1 and chemistry LFP,
  whatever the item said (`service/batch.go:78`), and failures are kept by code,
  so two items of a code share an entry, which is all that `EveryItemAnswered` can
  ask for. It is about what `Import` returns.
- *Safety*: of two findings with one id the second can never be resolved
  (`service/safety.go:49`).
- *Compliance*: certificates name any lot; nothing compares them with the lots of
  the lifecycle, or with the certificates of `Certify`.
- *Notifications*: a message whose sender dies stays in sending, and `Complete`
  asks neither for its status nor for who has it.
- *Stock*: `Ledger` lets any operation but `Reserve` take material off an account:
  a lot may be rejected or pruned.
- *Paging*: a client that stops when it has seen `Total` lots, or that filters on
  a state lots leave meanwhile, can miss some; `WalkMissesNothing` is about one
  that reads on to the empty page.
- *Api*: the switch of `Server.action` has no case for "certificate", although
  the README of the repository lists `/v1/lots/{id}/certificate`: no sequence of
  requests makes a recovered lot certified.

### Bounds, and why they are enough

Two lots, tenants or codes are what uniqueness and isolation are about: a third
one meets the same constraints pairwise. Two requests, workers or runners give
every interleaving of two transactions, claims or copies; one job id that is used,
cancelled and used again meets whatever another could do to it, since entries of
different ids never touch each other; requests are replaced
by new ones when they end, so histories are not bounded by their number.
`MaxFaults`, `MaxFailures`, `MaxBirths`, `MaxAdds`, `MaxLost`, `MaxCount`,
`MaxStops`, `MaxItems`, `MaxActions`, `MaxFindings`, `MaxNotes`, `MaxEdges` and
`MaxNow` bound lists and counters that the program does not bound: two faults
are enough for one that hits the recovery from another, and the outbox run has
three. Steps on two outbox events touch different rows, and the theorems about
the outbox hold for any number of them; that they settle is checked with one.
The run has fractions of two digits to the base two, the fewest with fractions
of different length after the same first digit, and a `Delay` of one and a half
seconds instead of sixty: longer than the second within which text order
matters, which is all the model compares it with; the theorems have any of them.
Three edges over four nodes are enough for a path against the order of the edges
and for a cycle; four lots for an insertion before, between and behind two
pages. Where the bounds matter most, for the lots and the outbox, the theorems
do without them.

Deadlock is checked except where the program really may stop: lots that are all
certified or quarantined (`Lifecycle`), runners that have left (`Dispatcher`),
routes that are delivered (`Routes`), services whose bounds are used up
(`Services`).

### Fairness

- `LifecycleTx`: a goroutine that can run does (weak), whether its statement
  succeeds or not. The pool hands the connection to waiting requests in turn:
  strong fairness of `Begin`.
- `Outbox`: the ticker goes on, statements and the publisher return, time
  passes. No order among due rows is assumed.
- `Dispatcher`, `Scheduler`: goroutines run, handlers and jobs return, the
  ticker ticks. Nobody has to push, add, close, cancel or stop.
- `Lifecycle!FairSpec` has clients that ask for ever; nothing in the program makes
  them, and only `lifecycle_certify`, which is to be violated, uses it.
- `Notifications`: senders claim and come back; sending may fail for ever.
- `Batch`: goroutines that can run do, and an intake ends one way or the other.
  `Retrier`: functions return and timers fire. In `Services` the fairness of a
  service that is not in focus asks for nothing: none of its steps is possible.

## Proofs

Each theorem holds for every value of the constants that the named `ASSUME`s of
the modules allow: roles are strings, hazards, weights and limits integers, the
"none" values are not real ones, bounds are natural numbers. Nothing is assumed
about how many lots, people, requests, workers, callers, messages or stops
there are.

**Lifecycle** (`LifecycleProofs`). It begins with the tables: for each statement
of `Store` a lemma says, pointwise, what it changes and that it keeps the
database in its type. None of the safety properties is inductive: that a lot has
one reservation when it is dismantled follows from what `Reserve` did two steps
before. `IInv` strengthens them together. `LotOK(id)` fixes, for a lot in a
state, exactly what all of its child rows and its audit log look like
(`LotExplained`), `Unused` that a lot that was never taken in has none;
`CodesUnique` carries the constraint on codes, and `KeysAnswerForOwnRecovery` is
inductive beside them. The proof has an effect lemma per operation (what the new
tables are, from the lemmas on statements), a lemma per operation that `IInv` is
kept, the case distinction (`NextKeepsIInv`), and a lemma per property that
`IInv` implies it. `StepsFollow` is about steps and uses `IInv` for the state
before; so does `RecordsKept`: no step takes a lot, an audit event, a balance or
the answer of a key away. Proved: `TypeOK`, `AuditReplays`, `RecordsMatchState`,
`OnlySafeLotsReserved`, `TenantIsolation`, `KeysAnswerForOwnRecovery`,
`StepsFollowNextState`. `SerialFreeWithinTenant`, a part of `RecordsMatchState`,
also says where the certificate finding comes from: within a tenant the serial
of a recovered lot is always free, so only another tenant can have taken it.

**LifecycleTx** (`LifecycleTxProofs`). `TxInv` says that at most one request
holds the connection, so that the database does not change under an open
transaction (`TypeOK`); that its image is the database with exactly the
statements it has passed applied, the checks among them having succeeded on it
(`TransactionAt`, one predicate per operation); and that what was answered "ok"
is in the database (`Durable`). When the transaction reaches its commit its
image is that of the operation of `Lifecycle`: that gives the refinement
(`Implements`), where a commit that is applied maps to one step and everything
else, rollbacks, lost answers and crashes included, to none. `TxInv` has the
`IInv` of `Lifecycle` as a conjunct, kept because each step is one of
`Lifecycle`, and `Durable` stays because nothing is taken off the record
(`Kept`). `RetryAnswered` is about the step at which a recovery ends: in
`TransactionAt` a known key that was looked up leads to its answer and never to
a check that could refuse it.

**Outbox** (`OutboxProofs`). With any number of workers `Racing` is inductive: a
worker past a successful publish has a delivered event. It gives `TypeOK`,
`AttemptsBounded` and `PublishedWasDelivered`. `CallsBounded` and
`SettledIsFinal` are false once two workers run; as long as one does, the
invariant `OneWorker => AllInStep` ties the row of an event to where its worker
is. It is inductive because workers only ever join: a step that ends with one
worker has begun with at most one (`InStepInvariant`). `BackoffRespected` needs
the same premise, and that the row a worker has selected is less than a second
from due until it is claimed (`InTime`): a second worker could mark it as
failed, and so postpone it, in between. That a row is that near when SELECT
finds it is where the text order of time stamps comes in (`DueSoon`).

**Api** (`ApiProofs`). `OverIsOver` needs that a request that arrived late waits
with a session that is over already (`LateIsOver`), and that a session which is
over stays so.

**Dispatcher and Scheduler** (`WorkerProofs`). A runner has a job exactly while
it looks it up or handles it, so a pop never overwrites one, and jobs move
between the queue, hands and what is done one at a time: `NoJobLost`, by
counting both the set and the number of them. For the scheduler,
`CancelledStaysOut` needs that under the id of a copy in hand there is the work
of that copy or nothing, unless the id was overtaken (`CopiesOwn`): then what is
written back is written over itself. `ScheduledUntilDone` also needs that, with
one runner, every copy in hand is the entry of its id but for the time it is
due, or has been cancelled or overtaken, and that no two copies are of one id
(`CopiesCurrent`). Ids may be shared, cancelled and used again in any way; what
`overtaken` excepts is described above.

**Reconciliation** (`ReconciliationProofs`). Callers overwrite each other's
copies, so for several of them no invariant ties the cache, the store and the
copies together. But every operation makes a `Sound` report of a sound one,
whichever copy it had, and then it does not matter which is saved last:
`ApprovedIsClean`. For one caller `SoloInv` does tie them together: the cache
has what the store has, except that between its two saves the caller's copy is
in the store already; what it has in hand is what is stored, or what one
operation makes of it, which is never further back. It gives `CacheMatchesStore`
and `StoredAdvances`.

**Routes** (`RoutesProofs`). The planner's routes only grow; each copy on its
way to the store, and each that got there, is a `Past` of the planner's:
`StoreIsPast`. `LoadWithinLimits` is about a sum over a set of stops, which is a
recursive function: that it does not depend on the order, and grows by the
weight of a stop that is added, is shown with a least counterexample
(`LeastSubset`: among subsets of a finite set there is always a least one),
which needs no induction principle.

**Services** (`ServicesProofs`). `EachAlone` says that a step of the composition
is a step of one service and a stutter of the others (the clock two of them read
may advance under both), so each service has an invariant of its own:

- *Notifications*: nobody stands in line twice, and who stands there is ready
  and so in nobody's hand: `OneSenderEach`, for any order in which messages
  become due.
- *Batch*: a goroutine that was answered has no lot or one made of its item, what
  it has recorded is on record, and when the import returns all of them have:
  `EveryItemAnswered`. None is created twice because codes are unique (`LotsOK`).
- *Compliance*, *Transport*: `DecidedOnRecord` and `JourneyInOrder`, from what
  each state of a record says about its evidence, reviews or times.
- *Incidents*: `ClosedOnce`, by what each step does to the one record it changes.
- *Manifests*: `ReplacedFromBelow` needs that slices of the template's array are
  no longer than it; an append in place writes right behind one of them, and
  into no array that a manifest has for its own.
- *Safety*: `DangerStaysOpen` because what is dangerous by its reading is called
  so until it is resolved (`Marked`); `NotesOfThisStay` is inductive.
- *Retrier*: while no calls have overlapped one call is under way, it has the
  stored count in hand, and that is never more than the failures since the last
  success: `GivesUpAfterMax`.
- *Paging*: what a client should see it has seen, or it comes after the pages it
  has read, since a lot that comes in pushes others on and none back:
  `WalkMissesNothing`.
- *Materials*: `MaterialsImplementsLedger`, the refinement step by step.
  `Balance` and `Prune` are loops over a list, so folds: `FoldsExist` shows
  once, with a least counterexample, that the function such a loop is defined
  with exists, and the lemmas after it that the balance of a list is the last of
  the `Totals` after each lot (`GramsAreTotals`), that an added lot adds its
  `Share` (`AppendAdds`), and that what `Reserve` has yet to find after each lot
  is what the total does not cover (`RemainingIs`). So it finds enough exactly
  when the balance covers it (`SufficientIs`), takes that and nothing of another
  kind (`TakeTakes`), and `Prune` never adds (`KeptIsLess`).
- *Trace*: `ReachableMeansPath`. A sweep adds the ends of the edges that lead
  out of what is seen and stays within whatever is closed under the edges
  (`SweepFinds`). As long as what is seen is not closed every sweep adds
  something, and what can be added are the ends of edges, so that after as many
  sweeps as there are edges it is closed (`AfterFinds`, `ReachableCloses`); and
  what a path leads to, one leads to that follows no edge twice (`PathShort`).

Only model-checked: liveness, since the prover has no fairness or ENABLED
(`EveryRequestEnds`, `SettlesOrOrphaned`, `EveryJobConsumed`, `RunReturns`,
`AllEnds`, `WaitingIsClaimed`, `ImportReturns`, `DoReturns`). Every safety
property of a run that passes, and every refinement, is a theorem.

## Not modelled, and the plan

Modelled first was what the program is for: lots, their transactions, what
leaves through the outbox and comes in through the API; then the concurrent
parts of `worker`, and the services with state of their own. Next:
the array that trips share with their callers, as `Manifests` has it.

Left out for good, with the reason per component in `PROJECT.json`: operators,
policy and energy, whose operations are one assignment or one formula over
floating point numbers; reports and analytics, which add up copies; the log and
the retention rules that no lot operation writes to; the transaction, vacuum and
health helpers and the repositories of manifests, compliance, safety and energy,
which nothing calls; the clock helpers, formatting, JSON, configuration and
metrics, which keep no state the other parts depend on.
