# Verification of autospace-parking

TLA+ models of the parts of this repository that carry its own logic, TLC
configurations that check them on small instances, and TLAPS proofs of the
properties that matter most. Paths are relative to `src/`. `PROJECT.json` maps
every definition to the lines it stands for.

## 1. Inventory

| Part | State | Operations | Interacts with |
| --- | --- | --- | --- |
| Transactional outbox (`apps/api/src/common/outbox`) | table `platform_outbox_events`; per API process a `running` flag, a timer and the rows of the current batch | `OutboxService.enqueue`; `OutboxRelayWorker.runOnce` / `OutboxRelayService.publishBatch`; `KafkaOutboxPublisher.publish` | PostgreSQL (transactions, `FOR UPDATE SKIP LOCKED`), Kafka, other API processes through the table |
| Kafka consumer (same directory) | offsets of a group, table `platform_consumed_events` | `KafkaEventConsumer.onModuleInit`, `process` | Kafka, PostgreSQL, other members of its group |
| Availability holds (`apps/services/go/availability/internal`) | table `availability_holds`, a Redis key per hold, in-memory copies of holds | `Hold.Confirm`, `Hold.Release`, `EffectiveStatus`; repository `Create`, `FindByID`, `Update`, `Expire`; coordinator `Acquire`, `Release` | PostgreSQL, Redis, other instances |
| Availability process (`cmd/server/main.go`) | a gRPC server, an HTTP server, a signal context, an error channel | start, serve, graceful stop, health check | orchestrator, gRPC clients |
| Search process (`apps/search-service`) | an HTTP server | start, serve, bounded shutdown; `/v1/search` answers 501 | orchestrator |
| gRPC client of the API (`apps/api/src/common/availability`) | one promise and one deadline per call | `getAvailability` with a deadline of 2 s | availability process |
| Place box (`libs/util/hooks/location.ts`, `SearchPlacesBox.tsx`) | text, debounced text, the geocoding request, the loading flag, the answer, "initial location applied" | typing, picking, debounce, request, abort, answer, first flight | Mapbox, the map, the form |
| Search form and results (`libs/forms`, `ShowGarages.tsx`, `SearchGarageCard.tsx`) | form data, errors, debounced copy, query variables, the query, its data, the booking dialog | edits, validation, debounce, conversion, lazy query, booking | the map, the GraphQL API |
| Search page (`SearchPage.tsx`, `web/src/app/page.tsx`, `search/page.tsx`) | none of its own | opens from the URL of the home page; load, dragend and zoomend of the map set the area | box, form, map |
| Sign-in and session (`libs/network/src/config/authOptions.ts`) | a signed token in a cookie all tabs share | sign-in (look up, register), log-in, encode, decode, session | a GraphQL server that is not in the repository, next-auth |
| Other pages, contracts, bootstrap | none of their own | rendering, message definitions, configuration | - |

Components meet in five places. The outbox relay feeds the topics the consumer
reads: what the first promises (every committed event at least once, possibly
several times, in no particular order) is what the second must cope with.
Callers of the hold repository meet in one table row and one Redis key. The API
calls the availability process over gRPC, which does not use holds yet. Place
box, form and map share the map's area: whoever moves the map decides what is
searched. Tabs share the session cookie.

What is hard, part by part (`PROJECT.json` "hazards" has each item at its line):

- Outbox: two processes poll one table while row locks are released before
  anything is published; a crash or a failed call between Kafka and the table;
  writes computed from rows read before an `await`; rows that always fail.
- Consumer: lookup, handler and ledger insert are three steps; the topic
  repeats events; rebalances give a partition away while `process` is running.
- Holds: callers write back stale copies; the sweep runs among them; Redis keys
  lapse, are deleted unconditionally, or vanish.
- Processes: two servers, one error channel and a signal; an unbounded graceful
  stop in front of a bounded one.
- gRPC client: a deadline that races with the answer, with the service's start
  and end, and with `GracefulStop`.
- Search page: debounced data combined with current validation marks; searches,
  geocoding requests and flights that overlap; errors of one field that depend
  on another; a map that moves by itself while the user acts, and moves of which
  the page does not hear.
- Sign-in: look-up and registration are two calls; tokens are re-encoded by
  several tabs at once, and each encoding drops what it does not copy.

What makes each part correct: nothing committed is lost or invented, and it is
repeated only as often as faults explain (outbox, consumer); a booking that was
confirmed is not given away (holds); an exit code tells what happened to calls,
and the process does end (services); each promise is settled (client); the
last edit wins (page); a token keeps its user and slides (sign-in).

## 2. Modules

| Module | Models |
| --- | --- |
| `EventPublication` | abstract: facts are committed, then delivered, then acknowledged, and nothing is taken back; implemented twice, from the table to Kafka and from Kafka to the ledger |
| `OutboxRelay` | the outbox: transactions that enqueue, relays that poll and publish, the topic, faults |
| `EventConsumer` | members of consumer groups on one partition, offsets and the ledger |
| `EventPipeline` | outbox and consumers together, from the transaction to the ledger, with its proofs |
| `HoldDomain` | the rules of `domain/hold.go` as operators |
| `HoldStore` | holds at rest: the table, the Redis keys, callers, the sweep, time |
| `ServiceProcess` | `main()` of the two Go services, from start to exit |
| `AvailabilityCall` | the API's calls of the availability process, composed with `ServiceProcess` |
| `LocationSearch` | the place box and its geocoding hook |
| `SearchForm` | the form, its validation and debounce, the query, the cards |
| `SearchPage` | box, form and map composed into the page |
| `SignIn` | sign-in and session token, for several tabs |
| `MC*` | constants and symmetry for TLC |
| `OutboxRelayProofs`, `EventConsumerProofs`, `HoldStoreProofs`, `ServiceProcessProofs`, `AvailabilityCallProofs`, `SearchPageProofs`, `SignInProofs` | invariants, lemmas, theorems |

Operators commented "Seeded fault" (`CandidatesAnyRow`, `SweptStrictly`, ...)
are wrong variants of the operator below them. No specification uses them. Put
in the place of the operator they follow, each makes TLC find the property
violated that `PROJECT.json` "mutants" names: this is how we know that every
checked property depends on the code.

### OutboxRelay

| Model | Code |
| --- | --- |
| `row[e]` | `published_at`, `attempts`, `last_error` of the row; `occurredAt[e]`, `writer[e]` when it was inserted and by which transaction |
| `pc[r] # "idle"` | `running` of the worker in process `r` |
| `batch[r]`, `current[r]`, `snapshot[r]` | rest of `events`, the loop variable, `event.attempts` as selected |
| `SelectBatch`, `CommitSelection` | the locking SELECT and the end of its transaction |
| `Publish`, `PublishRejected`, `PublishFails` | `publisher.publish(event)` returns; throws because the broker has no such topic; throws with or without the message appended |
| `MarkPublished`, `MarkFails` | the update after publishing |
| `CountFailure`, `NoteError`, `CatchFails` | the two writes of the `catch` block |
| `ProducerResends` | KafkaJS sending again after a lost acknowledgement |
| `Crash` | the process dies or its selecting transaction fails |

Each `await` of `publishBatch` ends a step, so relays and producers interleave
between any two database or Kafka calls. `enqueue` with a manager writes rows
that become visible when the caller's transaction commits and whose
`occurred_at` is the start of that transaction (`now()`); without a manager the
row commits at once. `main.ts` never enables shutdown hooks, so stopping a
process is `Crash`. A statement sent by a process that crashed is taken to have
had its effect before the crash or never.

### EventConsumer

`log` is one partition. KafkaJS is external: it calls `process` for the owner's
next message, delivers again after an error, and commits resolved offsets some
time later; the coordinator refuses offsets of a member that lost the
partition. `Receive`, `Check`, `Handle`, `Insert` are the steps of `process`;
`ProcessFails` lets any of its calls reject, with or without effect. `Rebalance`
takes the partition from a member that may be inside `process` and does not
notice. A group starts at the end of the log (`fromBeginning: false`). A message
that is not an event throws each time, so nothing behind it is read. `handled`
counts runs of the handler, whatever it will be: the repository has only the
empty one.

### HoldDomain and HoldStore

`Confirm` and `Release` return the hold as the Go methods leave it, also when
they return an error, and the error. `row` is the table, `key[h]` the instant
at which the Redis key lapses (0: no key). No handler in the repository calls
the repository and the coordinator yet (`docs/MILESTONE_STATUS.md:52-54`), so
the caller is an assumption, marked external in the map: it reads a hold,
settles its copy, writes the copy back when that succeeded or when it was told
that the hold has expired, and, when it is one of the `Coordinated` callers, does
this between `Acquire` and `Release` of the coordinator and gives up without deleting anything when
`Acquire` fails. It may stop at any step. `Acquire` is two steps, since SETNX
may reach Redis well after the ttl was computed. All instances and Redis share
one clock: skew is not modelled.

### ServiceProcess

`service` chooses the program. `main` is where `main()` is: in `select`
("serving"), in `GracefulStop`, in `Shutdown` before or after its first look at
the connections, or at its end. `server[s]` is the goroutine of a server and
whether it accepts, `calls[s]` what it has in flight, `serverErrors` the channel
of capacity one. net/http and grpc-go are external: told to stop, a server
accepts nothing more; `GracefulStop` waits for all RPCs, `Shutdown` for all
requests or the end of the context. `select` may take either branch when both
are ready. A signal before `NotifyContext` ends the process, one after the first
does nothing. The health check mode of the binaries is a separate process that
only reads. Fairness, and whether the process ends, depend on who calls it and
are stated in `AvailabilityCall`.

### AvailabilityCall

`promise[c]` is what `getAvailability` returned for call `c`, and `deadline` the
calls whose two seconds are running. `Accepted` and `Answered` are a call's
beginning and end at the server (`CallBegins`, `CallEnds` of `ServiceProcess`).
`DeadlineExceeded` settles the promise in the API; `Cancelled` is the server
noticing, a step of its own, since the promise is rejected without waiting for
it. A call that finds nobody listening is refused, one whose process has gone is
dropped. The API's calls compete with other clients' (`OtherCalls`), of which
those in `Stuck` are never ended by their clients. grpc-js and grpc-go are
external; the metadata, the message types and `close()`, which nothing calls, are
left out.

### LocationSearch, SearchForm and SearchPage

| Model | Code |
| --- | --- |
| `searchText`, `debouncedSearchText` | text of the hook, which is also the form's `destination`; its debounced copy |
| `requests` | fetches that have not been aborted, by text |
| `locationInfo`, `loading` | state of the hook; `Nowhere`: the empty list |
| `hasApplied` | `hasAppliedInitialLocation` |
| `flight`, `view` | where `map.flyTo` is heading; where the map is, also on its way |
| `unheard` | history: the map has moved since it last raised load, dragend or zoomend |
| `form`, `errors` | `watch()`, `formState.errors` |
| `checked` | history: the times were validated at least once with an area |
| `debouncing` | the debounced copy is older than the form |
| `variables` | state of `useConvertSearchFormToVariables` |
| `requested`, `query`, `results` | the lazy query: last variables, state, variables of the data shown |
| `bookable`, `dialog` | a garage on the page has a free space; times of the open booking dialog |

An effect that runs after a render is part of the step that causes the render:
`InitialEffect` in every step that changes text or answer, `Geocode` when the
debounced text changes, `SearchWhenErrorsClear` when an edit changes `errors`,
`Search` when the debounce changes `variables`. A `setValue` from a callback is
part of that callback's step, so typing in the box also touches the form.

`SearchPage` hears three events of the map, and each sets the area to the bounds
the map has then (`MapChanged`): load (`MapLoads`), dragend (`Drag`) and zoomend,
which comes when the user has zoomed (`Drag`), when a flight ends
(`FlightArrives`) and when it is stopped where it is, by the user
(`FlightBreaks`) or by the next `flyTo` (`BoxFollowed`). Other moves end with
moveend alone, for which there is no handler, and leave the area as it is: the
map glides on after it is let go, is moved with the keys, is rotated or pitched, or
the window is resized (`Drift`), and `flyTo` jumps without a change of zoom,
which it does for users who prefer reduced motion, since `essential` is
commented out (`SearchPlacesBox.tsx:60`; `FlyTo`, and the second alternative of
`BoxFollowed`). The zoom is not modelled, so a jump may raise zoomend or not. A
drag that glides on is a `Drag` and a `Drift`, between which anything may happen.

Times are 0 (empty) to `MaxTime` and are compared with `now` as the schema's
refinements compare them; zod runs refinements only on an object of the right shape, so
nothing is compared before the map has set `locationFilter`. The sidebar's
fields are one setting, which is sent only when it is not the default.

Used but not in the repository, hence external and modelled from their use:
`useDebounce`, `isStartTimeValid`, `isEndTimeValid`, `intFilter`, `FilterSidebar`,
`Dialog`, the booking form. External libraries: react-hook-form (a triggered
validation replaces the errors of the triggered fields, and is over before
300 ms are), Apollo (answers the last variables only, keeps previous data, does
nothing for variables it has or is getting), Mapbox, the Autocomplete. The `Map`
component is imported but not in the repository either, and is taken to pass its
handlers and the initial view on to Mapbox. The case without a Mapbox token, in
which nothing is requested, is left out, and so are the product mode and the category, which no search looks at.

### SignIn

`flow[t]` is the request tab `t` waits for: `checking` and `registering` are the
two calls of `signIn`, `loggingIn` is `authorize`, `refreshing` a session request
with the cookie as it was when it was sent, `answered` an answer on its way
with the token it will store. `Encode` and `Decode` act on what a token keeps:
`sub`, `uid`, `exp`. A GraphQL call may come back without data, which looks like
an unknown user, or throw, which denies the sign-in; a registration may fail with
or without effect, and only a throw denies. next-auth (order of callbacks, `sub`
of a new token, clearing the cookie when decoding gave null) and the server are
external. `issuedTo` is history: the user who signed in for the cookie, or for the
one it renews; a session request carries it in `user`, which nothing else reads.
Signing out is next-auth's own and left out, as are the parts of the
token that are only carried along (name, image, email).

## 3. Runs

| Run | Instance | Result |
| --- | --- | --- |
| `outbox_safety` | 2 relays, 2 events, 1 transaction, 2 faults | type; at most `relays + faults` copies of an event; the outbox implements `EventPublication` |
| `outbox_liveness` | 1 fair relay, 3 events of which 1 undeliverable, batch of 2, 1 fault | every other committed event is marked in the end; `attempts` never decreases; without a fault the order of commits is kept |
| `outbox_starvation` | 1 fair relay, batch of 1, 1 undeliverable event | violation: an event behind it is never published |
| `outbox_order` | 1 relay, no fault, 1 transaction | violation: the second event of a transaction is published first |
| `hold_races` | 1 hold, one caller with Redis and one without, Redis may lose its data once, times 0..3, fair clock | type; status, booking and reason fit; nothing expires early; SQL and Go agree on the boundary; keys of crashed callers lapse |
| `hold_coordinated` | 1 hold, 3 callers with Redis, times 0..3 | one caller at a time until expiry; no confirmed hold is resold, in one step or over its whole life |
| `hold_redis_loss` | 1 hold, 2 callers, Redis loses its data once | violation: a confirmed hold is released or confirmed for another booking |
| `consumer` | 1 group of 2 members, 3 messages over 2 events and the two non-events, 2 faults | offsets follow the handler; repeated handling is owed to faults; the consumer implements `EventPublication`; all that can be read is done |
| `consumer_groups` | 2 groups sharing the ledger | violation: a group commits an event that only the other group has handled |
| `service_stops` | both programs; 2 calls of the API, 1 RPC of another client that is stuck and 1 that is not; HTTP requests may hang | types; exit code 0 drops nothing, of the API's calls in particular; what exit code 1 drops is explained; every promise is settled; only an RPC held open keeps the process |
| `search_page` | 2 texts, 2 places, 1 filter, times 0..2, 2 things the user does | types; the last text wins; errors are current; a page at rest shows what the form says, and what the map says if the page has heard of its last move; a booking has the times that were searched; the map is steered by the user; the page comes to rest |
| `sign_in` | 2 tabs, a Google user and one with a password, 4 sign-ins, 1 failing call, times 0..3, tokens valid for 2 | types; a token names the user who signed in for it, and slides; whoever has a session is registered; registrations are bounded |

Bounds. Two relays are what the hazards of the outbox need (select, lose the
lock, publish twice), two faults let a retry fail again, and a third event
distinguishes the rows in a batch from those behind it. `MaxAttempts`
saturates `attempts`, which no guard reads. Three callers let one
caller delete the key of a second while a third enters. Time only matters as
before, at or after expiry; 0..3 gives a hold time to be acquired, to be worked
on and to expire. Two members and three messages let an event be repeated and
a partition be taken away inside `process` and come back. `batchSize` is 50 in
the code; the properties do not depend on it except starvation, which happens
when that many rows fail (times the number of relays). Two calls of the API let one end while another is in
flight. In `search_page` two texts, one with an answer and one without, give
requests that overlap and end in either order; two things the user does are
enough to make an error with one field and undo it with the other, or to type
and then pick, and each is followed by any number of steps that happen by
themselves (589 000 states). A `Drift` is one of these two things, so the map
may drift before or after a drag, a pick or an edit.
In `sign_in` four sign-ins in two tabs let first sign-ins overlap, fail and be
repeated while the other tab refreshes, and time 3 lets a token lapse that was
renewed once. `consumer` and `consumer_groups` do not check deadlock, since a
log of bounded length runs dry, nor do `service_stops`, where the process ends,
and `search_page` and `sign_in`, whose users finish.

Fairness. The relay's steps are weakly fair because `setInterval` calls
`runOnce` for as long as the process runs and PostgreSQL and Kafka are assumed
to answer in the end; faults are not fair and bounded by `MaxFaults`. Members of
a group are weakly fair because KafkaJS polls forever. For holds only the clock
and Redis' removal of lapsed keys are fair: callers may stop anywhere. In
`AvailabilityCall`, `main`, the timers of the process and of the deadlines, the
cancellation of a call and RPCs of other clients that are not stuck are fair;
answers to the API's calls and HTTP requests are not, so what settles promises
is the deadline alone. In `SearchPage` the browser's timers fire, flights end,
the map loads, and Mapbox and the API answer or fail in the end; the user and
the clock need not move. `SignIn` states safety only. Fairness
of a disjunction of steps is enough, since a relay or a member is always at
exactly one step of its procedure.

## 4. Where the code departs from the documents

- Order within an aggregate (`docs/EVENTS.md:35`): the relay orders by
  `occurred_at`, which ties inside a transaction. A failed publish and a second
  relay also reorder. What one relay does keep is `CommitOrderKept`: an
  event whose transaction had ended before a later one was committed, and whose
  `occurred_at` is smaller, is in Kafka first as long as no call fails.
- Starvation (`docs/IMPLEMENTATION_ROADMAP.md:351`): rows that always fail keep
  their place at the head of every batch. `outbox_liveness` shows that the rest
  is published as long as they are fewer than `batchSize`; `FullBatchesStarve`
  proves that with `n` processes `n * batchSize` of them stop everything behind
  them. That many are needed: with fewer, a process whose poll skips rows another
  has locked may reach further.
- Disposable Redis state (`docs/ARCHITECTURE.md:9` and `:85`): `Update` has no
  condition on the status it replaces, so safety of a confirmed hold rests on
  the Redis key alone. `hold_coordinated` shows that the key suffices as long as
  Redis keeps it.
- Ledger (`docs/EVENTS.md:49`): `platform_consumed_events` is keyed by the event
  id, not by event and group.

Each of these four is a run that TLC finds violated. Seen while modelling, and
not contradicted by a document, or only by one that does not name the case:

- Graceful shutdown (`docs/ARCHITECTURE.md:143`, `config.go:21`): `GracefulStop`
  comes before the bounded `Shutdown` and knows nothing of `SHUTDOWN_TIMEOUT`.
  An RPC that its client holds open keeps the process for good;
  `EventuallyExits` names exactly this exception.
- A caller whose key lapsed at expiry may still write CONFIRMED over EXPIRED, and
  one whose SETNX was delayed may write EXPIRED over CONFIRMED. `NeverResold`
  therefore allows a confirmed hold to become EXPIRED; it forbids that it is
  released or given to another booking. `SoldOnce` closes the way around: also
  after EXPIRED the hold is not released or sold to anybody else.
- With two relays a stale mark writes an `attempts` below what the other has
  counted. `AttemptsNeverDecrease` is stated for one.
- The hook of the form keeps the variables it converted while the times were
  rejected. When an edit makes the errors go away they are searched at once,
  300 ms before those of the new times. `SettledShowsForm` holds again when the
  debounce has fired.
- The times of the home page's form and of its links are never validated before
  one of them is edited. `ErrorsAreCurrent` speaks of times that were.
- Moves of the map that end with moveend alone (`SearchPage.tsx:50-52`) leave the
  page at rest with the garages of another place, until the next drag or zoom.
  `RestShowsMap` names them as its exception, `unheard`; TLC finds the state at
  once when the exception is dropped.
- The first answer may fly the map away from a place picked while the request was
  out. `OnlyUserSteers` begins when it has done so.
- The dialog of a card takes the times of the form, not those its garage was
  found free for; they differ while a change is debounced, rejected or loading.
  `BookedAsSearched` excludes these states.
- A session request sent before expiry and answered after it clears a cookie
  that another tab has renewed. `SessionSlides` speaks of answers with a token.
- A registration that fails without a throw goes unnoticed, and its user has a
  session. `SessionIsRegistered` holds as long as no call goes wrong.

## 5. Proofs

TLAPS checks, for every value of the constants that meets the ASSUMEs:

`OutboxRelayProofs`. The inductive invariant `IInv` adds to type correctness
that unwritten rows have no writer, that every row in a batch and every loop
variable is committed, and that between `publish` and the update the event is
in Kafka. The last is what makes `PublishedIsOnTopic` inductive: a relay marks
only what it has published itself. Theorems: `TypeCorrect`, `NothingLost`,
`OnlyCommittedFacts`, `PublishedStays` and `Refinement` (`OutboxRelay` implements
`EventPublication`: ending a transaction and `EnqueueAlone` map to
`CommitFacts`, an append to `Deliver`, a mark to `Acknowledge`, everything
else to stuttering). `RepetitionIsBounded` counts: copies of an event, plus the
relays that may still publish it in their poll (`Pending`), are at most relays
plus faults. Only a poll enlarges `Pending`, and it takes unmarked rows, so the
second half of `CopiesInv` bounds the copies of an unmarked row by the relays
that are about to mark it (`Marking`) and the faults.

Two theorems are about a single relay. `OneRelayCountsUp` shows that what it read
of a row it has still to settle is what the row holds.
`OneRelayKeepsCommitOrder` rests on `FirstInLine`: once `e` is committed and `f`
is not, the relay can have `f` in its batch only with `e` before it, since a poll
takes the older row first. `FullBatchesStarve` is about any number of relays: while
`n * BatchSize` undeliverable rows are older than `e`, the other relays lock at
most `(n - 1) * BatchSize` of them (`EnoughUnlocked`, from the counting lemma
`CoveredSize`), so the poll of a relay is full before it gets to `e`. The last
two, and `CoordinationSellsOnce` below, have the form `[](P => []Q)`: a state
predicate that `P` implies, that every step keeps and that implies `Q` is named
(`InOrder`, `Behind`, `SoldTo`), and temporal logic does the rest.

`EventConsumerProofs`. `Basics` is type correctness with the positions of members
in the log. `CountInv` counts runs of the handler, past and coming: they are at
most one more than the faults, and no more than the faults while the ledger is
empty and the owner is not at the event, since then it was a fault that took
somebody away from it (`HandledOnce`, any number of groups). `ConsumerRefinement` (any
number of groups) maps a message to `CommitFacts`, a run of the handler to
`Deliver` and a row of the ledger to `Acknowledge`; it needs that a member about
to insert has run the handler (`InsertingIsHandled`). `EvidenceInv` adds that a
row of the ledger, a resolved message and a committed offset each mean that the
handler of some group has run (`CommitsFollowSomeHandler`). With a single group
that is the committing one (`CommitsFollowHandler`); `consumer_groups` is the
counterexample with two.

`EventPipeline`. The conjunction of the two specifications, which meet only in
Kafka: the partition holds no event that is not on the topic
(`KafkaAddsNothing`, an assumption about Kafka), and no step is taken by both at
once. `EndToEnd` composes the two refinements: what the first delivers is what
the second may commit, so from the transaction to the ledger the platform
implements `EventPublication` once more; `NothingInvented` is what that means in
a state. Both need `OnlyCommittedFacts`, and nothing about how either stage works.
There is no run of this module: TLC does not check a conjunction of specifications.

`HoldStoreProofs`. `StoreInv` says that every row and every copy a caller holds
is coherent and not expired early; it needs no assumption on the callers, and
gives `HoldTypeCorrect`, `RowsCoherent`, `NeverExpiredEarly`, `SweepAgrees`.
`CoordInv` assumes that all callers coordinate and `MaxLosses = 0`. Its chain of reasons: a key, and a SETNX on
its way, lasts at least until the hold's expiry; so before expiry whoever works
on a hold has its key there; so there is one worker; so its copy is the row as
it is; so at most one caller is about to write an outcome, and none once one is
written. Expiry ends the first links of the chain but not the last, which is
why `NeverResold` holds also for callers that write late. Theorems:
`CoordinationExcludes`, `CoordinationPreventsResale`, and `CoordinationSellsOnce`,
whose predicate `SoldTo(h, b)` says that the row is EXPIRED or confirmed for `b` and
that nobody is about to write an outcome to it. Without any assumption on callers
or Redis, `SettlingIsFinal` says that `Confirm` and `Release` change no hold that
is not ACTIVE, and `NeverActiveAgain` that therefore no copy, however stale,
makes a row ACTIVE again: what a caller writes back is an outcome
(`SavesOutcome`).

`ServiceProcessProofs`. `ProcessInv` adds that stopping is always asked for by a
signal, that servers are told to stop only then, and that the gRPC server is
empty before the HTTP server is told to stop. Theorems: `ProcessTypeCorrect`,
`CleanExit`, `DropsAreExplained`.

`AvailabilityCallProofs`. `ServesTheApi` shows that the process, composed with
its client, still takes only steps of `ServiceProcess`; so its theorems hold here
too. `CallInv` adds that an accepted call is in flight at the server, for good
if the process has ended, and `CleanExit` then gives `CleanExitIsCleanForApi`.

`SearchPageProofs`. Each part has its own invariant, proved over the part's steps
alone. `BoxInv`: the loading flag is up exactly while the last text is requested
(`LastTextAlwaysWins`). `FormInv`: the variables are those of the form once typing
has paused, data are those of the last search, and nothing is searched before
there is an area (`ErrorsStayCurrent`, `LastEditWins`, `BookingsMatchSearch`).
`PageInv` joins them by one fact of the composition, `Heard`: the area of the form,
once set, is where the map is, unless it has moved there unheard
(`ResultsMatchMap`). `UserSteers` follows from the steps.

`SignInProofs`. `SessionInv` follows a token through cookie and requests: it names
the user who signed in for it, one whom the server knows unless a call went
wrong, and an answer's token lasts `MaxAge` from when it was asked for
(`TokensKeepTheirUser`, `SessionsAreRegistered`, `AnswersRenew`). `RegistrationInv` counts the
registrations received and on their way; none is received while the server does
not know the user, so the tabs then on their way are all there can be
(`RegistrationsAreBounded`).

Assumptions are those of the modules: finite sets of relays, members and tabs,
names that differ, bounds that are numbers, what the geocoder and the options are.

Only model-checked: liveness (`EventuallyPublished`, `KeyEventuallyFree`,
`EventuallyDone`, `EventuallyExits`, `CallsSettle`, `EventuallySettled`), since
fairness and ENABLED are beyond the prover. No RECURSIVE operator is used, and
nothing is proved by induction over data.

## 6. Not modelled

- Presentational components: they render props. `AdminHome.tsx` filters one page
  of listings as a pure function of what was loaded and typed; its pagination
  hook and the buttons that verify a garage are not in the repository.
- API bootstrap, database options and health endpoints: configuration and
  constant answers. That `main.ts` enables no shutdown hooks is used in
  `OutboxRelay`.
- Contracts: message definitions and generated code. Booking, payment and the
  hold RPCs have no implementation in the repository.
- Configuration parsing, logging, styling.
- The GraphQL server, Mapbox, the callers of `enqueue`, of the hold repository
  and of the gRPC client, and the components the pages import from outside the
  repository.

Worth adding when the code does: a handler in `EventPipeline` whose effect can be
compared with the committed facts; the callers of the hold repository in place of the
assumed ones; the publisher's connection promise, once something reconnects it.
