# Verification of the Ocelloids service node

TLA+ models of the XCM monitoring service in `packages/server` and of the
websocket side of the client library in `packages/client`, model-checked with
TLC and partly proved with TLAPS. Paths below are relative to
`packages/server/src/services` unless they say otherwise.

## 1. The system

The node observes blocks of several chains, extracts what concerns cross-chain
messages (XCM), correlates the observations of one message across chains, and
notifies subscribers of its progress. It is one Node.js process (or two, when
the ingress runs apart and feeds the node through Redis streams): there are no
threads, and every interleaving happens at an `await` or between two emissions
of an RxJS pipe.

| Component | State | Operations | Talks to |
| --- | --- | --- | --- |
| Matching engine `monitoring/matching.ts` | four database sublevels (outbound, inbound, relay, hop), a mutex | `onOutboundMessage`, `onInboundMessage`, `onRelayedMessage`, `clearPendingStates`, `#onXcmSwept` | called by the switchboard's pipes; schedules clean-ups with the janitor; emits notifications to the switchboard |
| Janitor `persistence/janitor.ts` | none of its own | `schedule`, `#sweep` | listens to the scheduler; deletes database entries; emits `sweep` |
| Scheduler `persistence/scheduler.ts` | persisted tasks, a loop | `schedule`, `#sched`, `remove`, `stop` | emits task types to the janitor and the webhook notifier |
| Head catcher `ingress/watcher/head-catcher.ts` | persisted tip and pending ranges per chain, a mutex per chain, the pipes | `finalizedBlocks`, `#targetHeights`, `#catchUpToHeight`, `#recoverRanges` | node RPC; feeds the switchboard (or the producer) |
| Local block cache `ingress/watcher/local-cache.ts` | cached blocks and storage items | `watch`, `getBlock`, `getStorage` | node RPC, janitor |
| Switchboard `monitoring/switchboard.ts` | the live subscriptions, counters, shared block streams, retry timers | `subscribe`, `unsubscribe`, `update*`, `start`, `stop` | subscription store, ingress consumer, matching engine, notifier hub |
| Subscription store `persistence/subs.ts` | persisted subscriptions | `insert`, `save`, `remove`, `getById`, `getAll` | database |
| HTTP API `monitoring/api/routes.ts` | none | POST, PATCH, DELETE of subscriptions | switchboard, store |
| Websocket protocol `monitoring/api/ws/protocol.ts` | connections, client count, broadcaster | `handle`, `#addSubscriber` | switchboard |
| Webhook notifier `notification/webhook.ts` | retry tasks (persisted by the scheduler) | `notify`, `#dispatch`, `#post` | scheduler, HTTP |
| Notifier hub, log notifier, templates `notification/*` | none | `notify` | the notifiers |
| Distributed ingress `ingress/distributor.ts`, `consumer`, `producer`, `server` | Redis streams, last ids, block streams | `read`, `add`, storage requests and answers | Redis, head catcher, switchboard |
| Extractors and criteria `monitoring/ops/*` | controls (criteria that change at runtime) | pure pipes from blocks to observations | head catcher, switchboard |
| Connector, configuration, auth, admin API, telemetry, process entry | - | set-up and I/O | everything |
| Client library `packages/client` | a websocket and its handlers | `subscribe`, `onMessage` | the websocket API |

### What is hard, and what makes each part correct

* **Matching.** Observations of one message come from independent pipes in any
  order and more than once; each is handled under a mutex, but the janitor's
  sweeps and the clearing of a removed subscription do not take it. Correct: an
  outbound and its inbound never wait side by side; a match is reported once;
  nothing stored is forgotten; everything sent is settled; a clearing touches
  its own subscription only.
* **Head catcher.** Heads arrive with gaps while earlier gaps are being caught
  up; requests fail, pipes are re-subscribed, the process dies. Correct: no
  finalized height is forgotten, none is delivered twice without a failure, the
  tip does not fall.
* **Switchboard and store.** Subscriptions are created, changed and removed by
  concurrent requests, in memory and in the database, while failed pipes wait
  for a retry timer. Correct: memory and database agree when nothing is under
  way, limits hold, a removed subscription stays removed and stops notifying.
* **Webhooks.** Deliveries fail and are retried through the scheduler, which
  survives a restart. A dispatch posts to every webhook channel of the
  subscription, and there is one for each channel. Correct: a delivery that is
  due stays due until it is made; repetitions and multiplications have a reason.
* **Websockets and clients.** Sockets open, ask and close while callbacks are put
  off with `setImmediate`; the library pairs replies with handlers by order, and on
  some platforms reads the text of a message asynchronously. Correct: the counts
  are those of the sockets and handlers; ephemeral subscriptions go with their
  socket; each message reaches the handler it is for; requests are answered.
* **Distributed ingress.** Streams are read by id, entry by entry, and trimmed;
  storage requests share one connection that BRPOP blocks, and meet their answers
  in named lists. Correct: no block is skipped while a stream is read, an
  answer is for the request's own block, requests end.
* **Extractors.** Events and calls do not carry the message: the storage of the
  block is asked for, answers come in any order, messages look alike or cannot be
  read. Correct: a report is about the message of its event, with the stops it
  makes and the keys under which the other chain's report will meet it; what is
  not reported has a known reason.

`PROJECT.json` lists the hazards line by line.

## 2. Modules

| Module | Models |
| --- | --- |
| `Matching` | the matching engine, the janitor and the dispatch of the scheduler; one action per awaited database operation |
| `XcmTypes` | the constructors of the observations (`monitoring/types.ts`), used to build the instances |
| `MCMatching` | the instances of `Matching` for TLC |
| `MatchingProofs` | the theorems about `Matching` |
| `HeadCatcher` | the head catcher of one chain and its pipe |
| `MCHeadCatcher` | compares the target heights of `HeadCatcher` with the loop of the code, for TLC |
| `HeadCatcherProofs` | the theorems about `HeadCatcher` |
| `Switchboard` | the switchboard, the subscription store and the HTTP API |
| `MCSwitchboard` | the instance of `Switchboard` for TLC |
| `SwitchboardProofs` | the theorems about `Switchboard` |
| `Delivery` | what the webhook notifier promises, abstractly |
| `Webhook` | the webhook notifier, the hub's fan-out and the scheduler; implements `Delivery` |
| `MCWebhook` | the instance of `Webhook` for TLC |
| `WebhookProofs` | finite bags, the type invariant of `Webhook`, and that it implements `Delivery` |
| `WebhookRepeats` | the theorems about `Webhook` that count: repetitions, lines of dispatches |
| `Websocket` | the websocket protocol of the server, and the switchboard's part in ephemeral subscriptions |
| `Client` | the websocket side of the client library |
| `Session` | `Websocket` and `Client`, composed by their sockets |
| `MCSession` | the instance of `Session` for TLC |
| `SessionProofs` | the theorems about `Websocket` and `Client` in `Session` |
| `Distributor` | the reader of a Redis stream, shared by producer and consumer |
| `Ingress` | the producer and the consumer of the distributed ingress, around Redis |
| `MCIngress` | the instance of `Ingress` for TLC |
| `IngressProofs` | the theorems about `Distributor` and `Ingress` |
| `Extract` | the extractors, criteria and locations, for one subscription |
| `MCExtract` | the instance of `Extract` for TLC: the chains, messages and routes |
| `ExtractProofs` | the theorems about `Extract` |

The definitions named *Variant* are plausible bugs: each stands before the
definition it would replace, and a property of a run is violated when it does.
Every module with state has a `TypeOK`; for `Matching` it is also a property of a
run. It is a theorem for `Matching`, `HeadCatcher`, `Switchboard`, `Webhook` and
`Ingress`.

### Matching

The state is the four sublevels (`store`, a function from sublevel and key to
the entry), the persisted janitor tasks, and what is in flight: the handler
that holds the mutex (`running`, a record with a program counter `pc`), the
sweeps between their `get` and their `del` (`sweeps`), and the clearings
(`clears`). `seen`, `notes`, `live` and `crashes` are history: deliveries,
notifications, subscriptions that were not removed, crashes.

A handler step is what runs up to the completion of one awaited operation:
`FindRelayInbound` the `get` of `#findRelayInbound`, `ClaimRelay` its `del` and
the notification behind it, and so on; the map in `PROJECT.json` gives the
lines. `StoreEntry` and `ScheduleSweep` are the two writes of
`#storekeysOnOutbound` (repeated for every leg), of `#tryHopMatchOnInbound` and
of `onRelayedMessage`. `Promise.any` over two keys is a choice among those that
succeed. A batch is one atomic write. A failing database operation is taken for
"not found", as the `catch` blocks do; failures of a write are not modelled.

Keys are records (subscription, reference, chain) where the code has the text
`subscription:reference:chain`. What the text does, that an id may be the
beginning of another one followed by a colon, is kept by the constant
`Prefixed`: the ids whose keys the range scan of `clearPendingStates` returns
(`$SafeId` allows the separator in an id).

Time is left out: `Dispatch` may take any task at any moment, so each run
covers every expiry. The janitor's listener is not awaited, so the task is
deleted while the sweep runs; a crash may come between (`Crash`).

### HeadCatcher

`tip` and `pending` are stored; `calls` are the calls of `#targetHeights` in the
order they ask for the mutex, `catchups` the running `#catchUpToHeight`, with the
current batch (`index`), the header it started from (`base`) and the last one
fetched (`at`). `fetching` are the headers handed to `blockFromHeader`. A first batch
that ends one below the new head (`IsOneHeader`: batches of one, or a range of one)
takes no request: the head is handed over as the catch-up begins (`HandedAtOnce`),
which is then in its second batch, or complete (`Begun`, `CompleteAtOnce`).
`Resubscribe` is what a retry or a change of subscribers does to the pipe: the
finalizers of the catch-ups run, downloads are dropped, and the calls of
`#targetHeights` under way run on with nobody to take their result. The heads,
the failures and the crashes come from the environment. Heights are the
numbers `0..MaxHeight`, and a head is its height: the source delivers finalized
heads only, so there are no forks. The target heights of a gap, which the code finds
by a loop over the blocks between, are given in closed form, so that they can be
reasoned about; an assumption of `MCHeadCatcher` compares them with the loop.

### Switchboard

`db` is the store: the descriptor by id and origin chain, which the code calls a
family (one database sublevel per chain). `subs` are the handlers in memory,
each with the streams it listens to (`origin`, `dests`, `relay`), the criteria of the
streams at the origin (`senders`, `message`), which `#monitor` takes from the descriptor
and patches change in place, and that of the relay stream (`relayMessage`), which
`#monitorRelay` takes from the descriptor for each stream and nothing changes after. `persistent` is the count the limit goes by. `reqs` is the
request each client waits for, a record whose `at` names the awaited operation:

| `at` | Awaited | Steps |
| --- | --- | --- |
| `exists`, `put` | the two operations of `SubsStore.insert`, once for each element of a POST | `CheckExists`, `Insert` |
| `get`, `save` | `getById` and `save` of a PATCH | `GetToPatch`, `Save` |
| `clear`, `find`, `remove` | the clearing of `Matching`, and the two operations of `SubsStore.remove`, in a DELETE or in the undoing of a batch | `Cleared`, `FindToRemove`, `Remove` |

`timers` are the five-second retries of failed streams, with the descriptor they
captured; `RetryOrigin`, `RetryDest` and `RetryRelay` fire them at any moment.
`orphans` are the streams that still emit and that no handler holds. When one
of them fails, its observer finds the handler by the id and the chain, and takes the
healthy stream there for its own (`OrphanFails`). `boot`
counts the families loaded at the start; requests are served after. A retry that
throws closes the process (`closeWithGrace`), and `Restart` is what a supervisor
does then.

An id is meant to have one descriptor, but the families are separate: two racing
insertions with different origins store it in both, and from then on `getById` finds
the first family, `save` writes that of the descriptor, and a start loads both, one
after the other. The instance has such a descriptor, and the properties name what it
leads to.

Left out: the validation of requests (what is posted is valid), ephemeral
subscriptions (they are in `Websocket`), the fields of a descriptor
that only choose channels, database writes that fail, the orderly `stop`. `getById`,
which goes through the families one by one, is one read. What a patch makes of
a descriptor is any descriptor that differs in the patched fields only.

### Webhook

`stored` are the channels of the subscription in the database, `sub` those of the
descriptor the switchboard holds. `jobs` is a bag of dispatches: `load` waits for
the descriptor (`GetChannels`), `post` for the answer of an endpoint (`Posted`,
`PostFails`), `schedule` for the write of the task (`Schedule`,
`ScheduleFails`). `waiting` and `due` count the stored tasks of each id, and
`Tick`, `Emit` and `DeleteTask` are the scheduler: it emits a due task, the
notifier starts a dispatch that nobody awaits, and the task is deleted. The key of a
task is the time, in milliseconds, and the id: two failures of one dispatch are two
tasks, or one if they come within the same millisecond (`PutTask`). The retries inside one HTTP request are part of the post.
`From` is how far the loop over the channels gets without a post: to the first
webhook that accepts the type of the message. `MaxHooks` bounds the webhook channels
of a subscription, of which the ulids of the model are made.

`Delivery` says what reliable delivery means: a pair of a message and an endpoint,
once due, stays due until it is done, unless a fault intervenes; with fairness it is
done. `Promise` maps `Webhook` to it: a delivery is due when some dispatch or task
still carries it. Faults are what the notifier cannot repair: a crash, a
change of the channels (which may withdraw a delivery under way), a write that
fails.

### Websocket, Client, Session

In `Websocket`, `stage` is how far `handle` is with a socket, `deferred` the data
whose `setImmediate` callbacks have not run, `listening` the sockets with a close
listener and the subscription it belongs to, `conns` and `clientsNum` the fields of
the protocol, `subs` and `ephemeral` the switchboard's handlers and its count,
`clearing` the removals that wait for `clearPendingStates`. `Refuse`, `Listen`,
`Attach`, `Data` and the answers are the callbacks; `Close` is the close event,
which does what the listener installed at that moment does, and nothing without
one. The validation of what a client sends is reduced to whether it parses
(`request`) or not (`token`: the library sends the token as a message, and the
server has no handler for it).

In `Client`, `queue`, `streaming` and the handlers are those of `Protocol`;
`texts` are calls that wait for `Blob.text()`. A message takes its handler when
it arrives (`HandleText`, `HandleBlob`) and gives it the text when that is there
(`TextReady`). `Open` is `onopen` with what it queues and sends.

`Session` joins them: `up` and `down` are the messages on each socket, in order,
and are lost when it closes. The HTTP methods of the library are plain `fetch`
calls and are left out.

### Distributor and Ingress

`Distributor` is `RedisDistributor.read`: a reader has the id it reads after and
whether it is between reads, waiting in XREAD, stopped by an error, or off. A
reader begins at the latest entry; a time-out repeats the read; an error ends the
loop.

In `Ingress`, Redis is the set of networks, the metadata, a stream of blocks
and one of storage requests for each chain, and the reply lists. The producer
(`StartProducer`, `WriteMetadata`, `OpenStream`, `Publish`, the listener's steps,
`Push`) and the consumer (`StartConsumer` to `StartChain`, `Poll`, the reader's
steps, `Ask` to `PopTimesOut`) start, stop and restart on their own. `pipe` is the
consumer's connection: one command is served at a time, and a BRPOP blocks those
behind it. Redis itself is external and does not lose data, except for trimming.

### Extract

One subscription, from the blocks of its origin to the observations. A block
(`OriginBlock`, `OddBlock`) leaves events and calls (`Told`), which the extractors
that are subscribed turn into storage queries (`Query`); `Answer` is the rest of
the extractor's pipe: find the message, resolve its stops, apply the criterion, emit.
A value that cannot be read ends the stream (`Fall`) with every query of it;
`Resubscribe` is the switchboard's retry. `RelayBlock` is the relay extractor on a
backed candidate, `Arrive` and `OtherEvent` the inbound extractor with its
`bufferCount(2, 1)`.

A message is a record of where it is sent from, the chains it goes to (`path`) and which
of them sends to each (`sender`: a program may send on to several chains, and theirs to
others), its hash, topic, XCM version and what its assets and beneficiary look like
(`shape`). Locations, programs and pages keep the structure the code looks at: version,
parents, consensus, chain id and parachain; the format of a page and its fragments. Of a
program and the programs nested in it only the destinations are kept, each with the one
whose program it is in, as nothing else of them leads to a stop.
`recursiveExtractStops` is then a function of the position: each program is read as the
chain of the stop it is for would, and none below a stop that could not be named.
Reading may throw as well (`Unread`): `isV2Junctions` and `isV4Junctions` read `asX1`, which
polkadot-js refuses for junctions that are not X1. What a chain does (`Told`, `Outcomes`,
`Location`, `Program`) is external. Left out: the senders' criterion, what was trapped,
what an execution error was, and that `matchEvent` and `matchExtrinsic` (util.ts:293-301) do
not look at the section when the method is a single name, so that an event of that name
of another pallet passes. `MessagesAssumption` says what chains can send: a message is
handed to another chain of its consensus, no chain sends one on to itself, an Ethereum
sends nothing on, and version 2 knows no other consensus.


## 3. Runs

CHECK_DEADLOCK is off everywhere: the bounds on deliveries, heads, failures and
crashes end every behaviour, and a service without work waits.

| Run | Question | Bounds |
| --- | --- | --- |
| `MatchJourney` | types, nothing stored forgotten, no relay beside its outbound; timeouts contradict only where a sweep races; with fairness everything sent is settled | one journey of two legs, its three observations once each in any order |
| `MatchCrash` | no missed match, nothing received more often than observed | an outbound and an inbound with topic, each up to twice, one crash |
| `MatchHop` | hops are recognised when the origin comes first | two outbounds, two inbounds, once each |
| `MatchRemove` | which steps lose a message in silence: removals of a neighbour, storing and sweeping of another message under its key, in any interleaving of clearings, handlers and sweeps | `a` observes two messages that share a key, `a:b` one of them, and one arrives; both may be removed |
| `HeadCatchUp` | a light client: gaps kept, no block twice, the tip never falls | heights to 6, distance 4, batches of 2, a block given up, one crash |
| `HeadFailures` | which steps only may forget a gap, with batches of one header | heights to 4, batches of 1, one failure of any request, one interruption |
| `HeadLive` | with fairness gaps are filled and ranges complete, over a crash | heights to 4, one crash |
| `Switch` | which steps only may make the count, the store, the criteria or the streams wrong; with fairness failed streams return | one id, two clients, four descriptors (one of another origin), a batch of one and a batch of both origins that undoes itself, one failure, one crash |
| `Webhook` | `Webhook` implements `Delivery`, safety and liveness; repeats have a reason, dispatches multiply in one way only | one message, one or two webhooks beside a log channel, three failing posts, one fault (crash, patch, removal, failing write) |
| `Session` | counts, handlers, abandoned and deaf sockets; with fairness requests are answered | three clients (owner, guest, either), limits of two clients and one ephemeral subscription, one notification, one HTTP request |
| `Ingress` | no block skipped, answers for the right block, blocks missing only for late networks; with fairness blocks arrive and requests end | three loads: three blocks of one chain with two restarts, an error, an upgrade and a trimming; three storage requests, two of them equal; a second network that comes later |
| `Extract` | reports about the right message, with its stops and keys; what is missed and what ends a stream has a named reason; with fairness what has a topic is reported | six routes (downward, horizontal, upward; from the origin and at the destination), blocks of up to two messages, one fault |

The bounds are enough for what can go wrong. A race of the matching engine
involves one key, two observations of one message and one sweep or clearing;
the second delivery brings the repeated and the crossed orders, the second
subscription the clearing of a neighbour, a second message the sharing of a key. For the head catcher, six heights with
batches of two give a first, a middle and a last (shorter) batch, two gaps at
once, and a gap wider than the maximum distance; batches of one give the first that takes
no request. For the switchboard, ids meet only
in the count: one id with two clients has every pair of concurrent requests,
and a limit of one is reached by the batch of two. A webhook dispatch multiplies when
two posts of one dispatch fail, which takes two endpoints and two failures; the
third failure lets a repeated dispatch fail too. In a session, three sockets are an
owner, one attached to it, and one that competes for the limit of ephemeral
subscriptions. Two equal storage requests are what it takes to find an answer left
behind, a third one to wait behind them on the connection. The messages of
`Extract` come in twins (same hash, same looks), unreadable ones, old versions, a program
that forks, and paths of up to four chains with a relay chain and a parachain of another
consensus and an Ethereum among them; two to a block are enough for one to be taken for
the other, or to hide it in its page.

Where the code is known to lose or confuse something in certain steps, the property
names them: what was wrong stays all that is wrong, *or* the step is one of those.
All properties called `Only...` have this form. They say that the list of
culprits is complete; a change of the code that adds one is found, and a fix of
the code lets the list shrink.

### Fairness

Weak fairness throughout, and only of what the program or its runtime completes by
itself:

* `Matching!FairSpec`: the handlers, the sweeps and the clearings (the event loop
  completes every promise that was started) and the scheduler's loop (it runs as
  long as the process).
* `HeadCatcher!FairSpec`: the calls, the catch-ups, the recovery and the downloads
  (a request is answered or fails).
* `Switchboard!FairSpec`: the timers only; requests may wait for the database as long
  as they like.
* `Webhook!FairSpec`: the steps of dispatches that do not fail, and the scheduler.
* `Session!FairSpec`: callbacks, texts and clearings; a client need not close,
  the server's own close is carried out.
* `Ingress!FairSpec`: the commands of each loop (Redis answers, reads are repeated,
  BRPOP times out). Publishing, restarts, failures and polls are not fair.
* `Extract!FairSpec`: each query is answered or its stream fails.

Deliveries, heads, requests, removals, failures and crashes come as they like.

### What the properties record about the code

The known weaknesses are the exceptions the properties name, or what a property
deliberately does not claim:

* Matching. A sweep that read an outbound before the inbound handler claimed it
  reports a timeout after the received (`OnlyRacingSweepsContradict`). A relay
  message that comes after the match is never reported. Without the order the
  engine assumes, a hop is taken for an arrival. Removing the subscription `a`
  also clears the entries of an id `a:b`, and of two messages of a subscription
  under one key the later replaces the earlier: what is lost so is never
  reported (`OnlyNeighboursLose`, which holds only with these exceptions). A task
  names a key, so an old one sweeps a newer entry too early; nothing rules that out.
* Head catcher. One failing header request completes the pending range, and an
  interruption before the last batch forgets the batches after the current one
  (`OnlyInterruptionsForget`). Recovered headers move the stored tip back:
  `TipIsHighest` is checked for a light client, which recovers nothing. Headers
  handed over whose blocks were not downloaded at a crash are not recovered.
* Switchboard. Racing insertions of one id miscount and diverge, and may store it
  for two origins: then a removal or a patch changes one of the two, and a start
  loads both, counts them twice and lets go of the streams of the first
  (`MonitorsAgain`). A patch saved
  after the removal and a removal that finds the id again diverge; the retry of an
  origin brings back the criteria it failed with, a patch made of a replaced descriptor
  leaves those of the patch it undoes, and a patch of the destinations leaves the relay
  stream with the old ones, until it fails and is retried or the process restarts
  (`OnlyStaleWritesMislead`; the README of the server says that criteria are updated
  "in real-time, without need for restarts", `packages/server/README.md:15`); a failing stream of a pair, a
  retry beside a patch or beside a new insertion, and racing insertions leave streams
  emitting. The
  limit of persistent subscriptions is checked before the insertion is awaited and
  may be overshot. A retry whose subscription was removed throws outside any
  handler (`RetryThrows`, which restarts the process).
* Webhooks. Every dispatch posts to all webhook channels and there is one for
  each: two channels get each message twice, and two failures of one dispatch
  double its repetitions (`OnlySecondFailuresMultiply`).
* Websocket. A callback that runs after the close makes a subscription nothing ends
  (`OnlyLateCallbacksAbandon`); an attached socket goes deaf when another one of
  the ephemeral subscription closes (`OnlyOthersDeafen`). On-demand sockets, for which
  the limit is looked at when they open and counted when they ask, may overshoot it.
* Client. With a token and an existing subscription, the first notification goes to
  the handler of the token (`HandlersGetTheirs`).
* Ingress. The stored pointer of a stream is read and not used: what was published
  while the consumer was down is skipped. An error of a reader ends it for good.
  Networks found by a later poll have no blocks (`OnlyLateNetworksAreBlockless`).
* Extractors. Look-alikes find each other's messages. A stop in another consensus is not
  named if it is its relay chain, or an Ethereum unless a parachain writes it in version
  3, and takes what comes of it along (`StopsFollowPath`). If it is a parachain, reading it
  throws: the message is not reported, and the stream ends with every query of it
  (`OnlyUnreadablesEndStreams`). What comes after an unreadable fragment of a page is
  dropped in silence, an exception of `TaggedAreReported` as of
  `OnlyFirstRecipientsAreRelayed`; the former also excepts messages with a stop that cannot
  be named, as the criterion goes by the last one that is. The first event after a subscription, downward failures and what follows the first wanted
  recipient of a candidate are missed.

The hazards in `PROJECT.json` give the lines.

## 4. Proofs

The theorems hold for every value of the constants that satisfies the named
assumptions of the modules: any observations, subscriptions, chains, webhooks,
sockets, requests and heights, any number of deliveries, failures and crashes; a
theorem that needs more has it as a hypothesis, named below.

### Matching (`MatchingProofs`)

* `TypeCorrect`: `Spec => []TypeOK`. `TypeInv` strengthens it with what each
  point of a handler knows of its message and counterpart (`HandlerOK`) and with
  the kind of the entry a sweep read.
* `MatchNeverMissed`: `Spec => []NoMissedMatch`. Not inductive alone: the handler
  looks for the counterpart and stores in separate steps. `MatchInv` adds that at
  most one handler runs and that a handler about to store saw no counterpart
  (`SawNoCounterpart`); everything else only removes entries (`Shrinks`).
* `RelayNeverMissed`: `Spec => []NoMissedRelay`, if `ReferencesAgree`: two
  observations of one message with equal hashes have equal references. The hypothesis
  is what the code has: the extractor of the origin and that of the relay chain take
  the hash and the topic from the same program. Without it a relay observation with
  another topic looks under another key, and rightly finds nothing. `RelayInv` follows
  the pattern of `MatchInv` over two sublevels, `outbound` and `hop`.
* `EntriesAreDue`: `Spec => []EveryEntryIsDue`, by the same shrinking argument:
  what removes a task or a sweep removes its entry, and the put and the
  scheduling are joined by the handler in between.
* `NeighboursLose`: `Spec => OnlyNeighboursLose`, for every `Prefixed`, ids that begin
  one another included. What was announced is, as long as its subscription is there,
  settled, stored, or in the hands of a handler or a sweep (`Accounted`), and a case for
  each step says how it passes from one to the next or which exception took it. Three
  invariants carry it: what a clearing scanned are keys of ids with its prefix
  (`ScannedByPrefix`), a subscription is not there while it is cleared
  (`ClearsAreRemoved`), and what waits is under keys of its own subscription
  (`StoredUnderOwn`).
* `HopsRecognised`: `Spec => []HopsAreRecognised`, if each observation comes once,
  nothing is removed, the process does not crash, and `JourneysApart`: the origin of a
  journey is observed before what has its topic id at a hop, and no other journey or leg
  has that id there. TLC violates the property of `MatchHop` without each of the first
  three: what is stored again, cleared or left without a task leaves the guard early. A
  journey that stops twice on one chain is excluded, because the sweep of one leg takes
  the entry of both. `HopInv` says that until the task of a hop is dispatched
  its entry is there and nothing that would match it was announced, stored or is about
  to be (`Guarded`), and that a handler that runs was overtaken by nothing it must precede
  (`IsFirst`). A key of the hash alone has no such guard: other messages may share it.
* `RacingSweepsContradict`: `Spec => OnlyRacingSweepsContradict`, if each observation
  comes once and `IdsAgree`: an outbound and an inbound that share a reference share the
  topic id, where both have one. Otherwise the entry under the outbound's own id outlives
  the match, and an outbound observed again is stored again; either expires without a race.
  `SettledInv` says that an outbound that was received is neither stored nor on its
  way to be, because the inbound handler claims every key of it (`ClaimsAll`).

* `MatchedAtMostDelivered`: `Spec => []ReceivedAtMostDelivered`, over any deliveries,
  crashes, removals and sweeps, if each observation has `NothingLeft`: a match takes
  away every key under which another observation could still find it. `CountInv` counts
  for an observation how often it was reported received and the chances that it is
  again: one while it waits under a key where it is looked for, was found there or is
  about to be stored (`Held`), one while its own handler looks for a counterpart
  (`Searches`); both together are at most the times it was delivered. The sums go over
  sets of observations; that a sum changes by what one element changes is proved first
  (section *Sums*), by a least counterexample to the existence of the recursive sum.
* `OutboundsMatchOnce`: the half of it that is about outbounds follows from
  `IdsAgree`, also across hops where the hash changes. For inbounds there is no such
  hypothesis about ids alone: an inbound at a hop that was matched by its topic keeps
  its entry under its hash, and an outbound whose own entry expired meanwhile finds it
  there. `NothingLeft` holds on the instances of `MatchJourney`, `MatchCrash`,
  `MatchRemove`; on that of `MatchHop`, where the hash changes, it does not.

### HeadCatcher (`HeadCatcherProofs`)

* `TypeCorrect`: `HeadInv` adds to `TypeOK` that the calls in line and the
  catch-ups are those `arrayOfTargetHeights` makes of a gap (`CallsFit`,
  `CatchUpFits`), that stored ranges are not empty (`RangesFit`), and what is known
  of a gap since it was seen (`SinceFits`).
* `InterruptionsForgetOnly`: the action property `OnlyInterruptionsForget`, under
  all failures at once.
* `GapsKept`: `Spec => []GapsAreKept`, if header requests do not fail and the pipe is
  not interrupted. These are the two ways in which the code does forget a gap, as the
  theorem before says; crashes, recoveries, failing ranges and blocks given up are
  allowed. What makes it inductive is that a catch-up has handed over all that is above
  its current batch (`CatchUpFits`), and that the stored range stays until the last
  batch is handed over.
* `TipNeverFalls`: `Spec => TipIsHighest` for a light client. Its invariant `OrderInv`
  says that the calls wait in the order of their heads, which all arrived, and that the
  tip is one of these and above none. It is about the mutex: the first call alone has
  begun, and the head it will put is not below the tip when it does. The hypothesis is
  needed: recovered headers enter as heads below the tip.
* `BlocksAreOnce`: `Spec => []BlocksOnce` when the pipe is not interrupted (after an
  interruption the source repeats its latest head, whose block comes twice).
  `OnceInv` says of each height that it is downloaded at most once, or is still to be
  handed over by one catch-up alone (`Claims`), and that all these are at most the tip
  and below the heads that wait. A new catch-up claims what is above the tip it
  was made at (`NewClaims`); a batch that ends turns claims into downloads (`Rework`).
  The seam between batches is where this could fail: the header after the target ends a
  batch, and the next one starts below it (`AtFits`). A first batch of one header leaves
  to the catch-up what is below the head, which `Begun` says and `NewClaims` uses. Up
  to the first crash
  nothing is recovered, so that `OrderInv` holds and heads only rise.

### Switchboard (`SwitchboardProofs`)

* `TypeCorrect`: `SwitchInv` adds to `TypeOK` that the count is at least what it counts
  (`CountFits`; without it the count could go below zero), that a patch about to be
  saved differs from what it was made of in its own fields only (`PatchFits`), and,
  while subscriptions are loaded, that no request is served and each handler is that of
  a family loaded before (`BootFits`).
* Four action properties follow from `SwitchInv`. The proofs reduce every step of a
  request to `Goes`: from handlers `h` the request goes on, or starts to clear one of
  them; and every step of a stream to `StreamStep`.
  `RacesMiscount` (`OnlyRacesMiscount`): `Goes` keeps the sum of handlers and clearings.
  `RacesDiverge` (`OnlyRacesDiverge`): for each id, `h` has what is now stored, or a
  removal of the id is under way, or nothing changed; `OneFamily` says when what is
  written is what will be found. `StaleWritesMislead` (`OnlyStaleWritesMislead`) is
  about each criterion by itself; that of the origin's streams needs `PatchFits`, and for
  that of the relay stream `RelayKept` says that an update keeps both the stream and the
  criterion or makes the stream anew. `RetriesLeaveStreams` (`OnlyRetriesLeaveStreams`).

The attempt to prove these properties showed that they did not hold for descriptors of
different origins, of which the instance had none: the steps that come of an id stored
twice are named in the properties since, and the instance has both origins.
`None` is assumed to be no handler and no descriptor.

### Webhook (`WebhookProofs`, `WebhookRepeats`)

Dispatches are a bag, so the first lemmas are about finite bags: how many copies of
the elements of a set there are, and what a step that replaces one element by at most
one other does to that number (`BagReplace`).

* `TypeCorrect`: `WebhookInv` adds that a dispatch that posts has an accepted
  webhook to post to, that no webhook is twice in what is left, and that an emitted task
  is still stored.
* `Reliable`: `Spec => ReliableDelivery`, the refinement of `Delivery!Safety`. Each
  step keeps what is due (`Kept`, a step `Owe` of `Delivery`), makes one delivery
  (`PostedDelivers`, `Deliver`, or `Owe` when it was made before), or is a fault.
  The case that matters is a failed post: the dispatch about to store the task carries
  all that is wanted, and so does the task before the dispatch goes on.
* `Repeats`: `Spec => []RepeatsHaveAReason`. `Budget` counts, for an id and a
  webhook, the posts made and whatever may still make one: the dispatches that
  have the webhook left, those about to store a task, the tasks, and the dispatches
  whose turn in `notify` is still to come. Together they are at most one more than
  the failed posts of the id and the crashes. `Known` says that an id whose message
  was not notified has spent nothing.
* `Lines`: the action property `OnlySecondFailuresMultiply`. `Future` says that a
  dispatch still to be made is made once, and is the first of its id.

### Session (`SessionProofs`)

* `CountsHold`: `Spec => []CountsAreRight`. `ServerInv` has a type for each variable
  of the server, what each stage of a socket implies for its listener and its
  subscription (`StageFits`), and that every handler is registered (`Registered`); the
  two counts are then cardinalities of finite sets that a step changes by one.
* `LateCallbacksAbandon`, `OthersDeafenOnly`: the two action properties that name who
  is to blame.
* `HandlersAreRight`: `Spec => []HandlersGetTheirs`, over sockets whose messages
  are a queue and whose texts come in any order. `JourneyInv` gives, for each phase of a
  connection, what is on the wire in both directions and what the library's queue of
  handlers holds (`Phase`).

The names of the composed module (`OnDemand`, `Http`, `None`) are assumed to differ
from the clients and from one another, as their counterparts in the code do.

### Distributor and Ingress (`IngressProofs`)

* `TypeCorrect`: `TypeInv` adds that what was trimmed is at most what was added.
* `AnswersFit`: `Spec => []AnswersAreForTheBlock`. Two equal requests share a reply
  list and may find each other's answers there; `RepliesFit` says that every answer in a
  list is the one its name asks for.
* `NoBlockSkipped`: `Spec => []BlocksAreContiguous`. `Contiguous` relates the id a
  reader goes on from to what was seen and to what was trimmed.
* `LateNetworks`: the action property `OnlyLateNetworksAreBlockless`, from
  `StartInv`: what is known was there at the start or was found by a poll.

The constants `Down` (a process that is down, beside sets of chains) and `Latest` (the
entry `$`, beside numbers) are assumed to be different from what they stand beside.

### Extract (`ExtractProofs`)

The five invariants and the action property of the run are theorems, over any routes, blocks, orders of answers and
faults. The variables that grow need no bound: each theorem is about the elements of
`reports`, `relayed` and `inbound` one by one, or about a message and its events.

* `LookalikesMislead`: `Spec => []OnlyLookalikesMislead`, if `TopicsDiffer`: the
  topic id of a message of the origin is neither that of another one nor its hash. Nothing in the extractors
  guarantees this, the chains do: who sets the topic of another message is taken for
  it, because the search compares ids only. `ReportInv` says of each query that its
  storage holds messages of the place it asks (`QueryFits`), and of each report what
  led from the event or call to the message (`ToldBy`).
* `StopsFollow`: `Spec => []StopsFollowPath`. `ReadLemma` says what
  `networkIdFromMultiLocation` makes of the location one chain writes of another: that
  chain, no name, or `Unread`, by `Nameable` and `Bridged` alone. `StopsLemma` carries it
  over programs of any depth: a stop has its name if all the chains before it on its way
  have theirs. A first position where this fails has its sender before it, where it holds.
  That the stops are what the recursive function says is a lemma of its own
  (`NamesExist`), again by a least counterexample.
* `UnreadablesEndStreams`: `Spec => OnlyUnreadablesEndStreams`. Only an answer, a refusal
  or a block of the relay chain ends a stream; for an answer, `Found` is `Unread` by what
  is in the storage, or the stops are, which `StopsLemma` traces to a parachain of another
  consensus on the path.
* `TheyMeet`: `Spec => []ReportsMeet`. `InboundInv` and `RelayInv` keep the hash and the
  id of an observation equal to those of its message.
* `FirstOutcomesMissed`: `Spec => []OnlyFirstOutcomesAreMissed`. The extractor holds one
  event back (`bufferCount(2, 1)`); between
  two messages what it holds is never a trap, so an outcome is not given that of another
  message.
* `FirstRecipientsRelayed`: `Spec => []OnlyFirstRecipientsAreRelayed`, for candidates of
  any number of pages; the joined fragments are the flattened sequence of
  the community modules (`JoinsExist`).

`ValuesAssumption` sets `None` apart from chains and strings, and `Unread` from `None`,
chains, strings, messages and sequences of them; the messages of a route are finitely
many.

### Model-checked only

Every safety invariant and every action property that a run checks is stated by a
theorem, and so is the safety part of the refinement. With TLC stay the properties
under fairness, which are out of the prover's reach: `EventuallyDelivered` and the
liveness part of `Delivery`, the settling of journeys, the filling of gaps, the return
of failed streams, the answering of requests, the arrival of blocks, the reporting of
messages with a topic. So does the comparison of the target heights of `HeadCatcher`
with the loop of the code, an assumption over bounded heights (`MCHeadCatcher`).

Where an argument goes by the first or the least of something, or a recursive function
must exist, it is by a least counterexample, from the well-foundedness of the
naturals; the library's induction theorems take operators and cannot be used.

## 5. Plan

What is left is breadth. In the order of what it would show: the local block cache beside
the head catcher, with the clean-up tasks it shares with the janitor; the
orderly `stop` of the switchboard against running requests; an abstract specification
of the matching engine (what a pair of observations is promised) that `Matching`
implements, for which `NoMissedMatch`, `EveryEntryIsDue` and `ReceivedAtMostDelivered` are
the safety part.

## 6. Not modelled

* **Local block cache**: a write-through cache whose miss falls back to the network;
  each write is followed by its clean-up task, the pattern that `Matching` checks for
  its own entries. What the head catcher can tell apart, that a light client gives a
  block up, is in `HeadCatcher`.
* **Connector, configuration, auth, admin API, persistence set-up, process entry**:
  set-up and I/O without protocol state.
* **Telemetry**: counters nothing reads back.
* **Log notifier and templates**, the codecs of chain data, the HTTP methods of the
  client: formatting or single calls.
* Of modelled parts: request validation, the orderly `stop` of the
  switchboard and of the websocket protocol, the senders' criterion, the decoding
  of programs to assets and errors.
