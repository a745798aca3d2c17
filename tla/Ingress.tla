------------------------------- MODULE Ingress -------------------------------
(***************************************************************************)
(* The distributed ingress: a producer (services/ingress/producer/index.ts) *)
(* and a consumer (services/ingress/consumer/index.ts, the class            *)
(* DistributedIngressConsumer) that meet in Redis.                          *)
(*                                                                         *)
(* The producer writes the networks it is configured with, the metadata of  *)
(* each chain when it starts, and each finalized block to the stream of its *)
(* chain.  The consumer reads the networks when it starts and every minute, *)
(* and the streams of the chains it knew when it started.  Storage is asked *)
(* for through another stream, which the producer reads; the answer goes to *)
(* a list named after the request, popped with a BRPOP on the connection    *)
(* that the consumer's other commands wait for too.                         *)
(***************************************************************************)
EXTENDS Integers, Sequences, SequencesExt, FiniteSets, FiniteSetsExt, Distributor

CONSTANTS
    Chains,
    Requests,     \* storage requests
    Chain, Key, At,  \* of each request: its chain, storage key and block hash
    Loads,        \* bound: what a behaviour may hold (see Load)
    MaxBlocks,    \* bound: the blocks of a load
    Down,         \* a process that does not run
    None

Load == [configs : SUBSET SUBSET Chains, blocks : Nat, requests : SUBSET Requests, restarts : Nat, errors : Nat,
         upgrades : Nat, trims : Nat]

ASSUME IngressAssumption ==
    /\ \A S \in SUBSET Chains : S # Down
    /\ Latest \notin Nat
    /\ Chain \in [Requests -> Chains]
    /\ DOMAIN Key = Requests /\ DOMAIN At = Requests
    /\ Loads \subseteq Load
    /\ \A l \in Loads : l.blocks <= MaxBlocks

VARIABLES
    \* Redis
    networks,   \* the set NETWORKS
    metadata,   \* per chain: the runtime version whose metadata is stored, 0 for none
    stream,     \* per chain: the blocks added, each with the runtime it is of
    trimmed,    \* per chain: how many of the oldest ones are gone
    asked,      \* per chain: the storage requests added
    replies,    \* per reply list: the answers pushed
    \* the chains and the producer
    runtime,    \* per chain: the runtime version
    producer,   \* Down, or the chains whose stream is still to be opened
    opened,     \* the chains whose blocks are published
    listener,   \* per chain: the reader of the storage requests
    fetching,   \* the requests whose storage is being fetched
    \* the consumer
    consumer,   \* Down, or the chains still to be read from
    known,      \* #networks
    consumers,  \* the chains with a subject in #blockConsumers
    registry,   \* per chain: the version of the registry cached
    reader,     \* per chain: the reader of the blocks
    seen,       \* per chain: the entries handed to the subject since the start
    stored,     \* per chain: lastBlockStreamId in the database
    pipe,       \* the commands on the connection, the first one being served
    state,      \* per request: how far it is
    load        \* bound: what is left of the load

redis == <<networks, metadata, stream, trimmed, asked, replies>>
producing == <<runtime, producer, opened, listener, fetching>>
consuming == <<consumer, known, consumers, registry, reader, seen, stored, pipe, state>>
vars == <<redis, producing, consuming, load>>

\* Variant: the hash of the block is not part of the name.
ReplyToKey(r) == <<Chain[r], Key[r]>>

\* The list the answer goes to.
ReplyTo(r) == <<Chain[r], Key[r], At[r]>>

\* What the answer to a request tells.
Answer(r) == <<Chain[r], Key[r], At[r]>>

Command == [op : {"add", "pop"}, req : Requests]

RequestState ==
    {[at |-> a, got |-> None] : a \in {"new", "adding", "popping", "rejected"}}
    \cup [at : {"answered"}, got : {Answer(r) : r \in Requests}]

TypeOK ==
    /\ networks \subseteq Chains /\ known \subseteq Chains /\ opened \subseteq Chains
    /\ consumers \subseteq known
    /\ metadata \in [Chains -> Nat] /\ runtime \in [Chains -> Nat]
    /\ registry \in [Chains -> Nat]
    /\ \A c \in Chains : /\ stream[c] \in Seq(Nat) /\ trimmed[c] \in 0..Len(stream[c])
                         /\ asked[c] \in Seq(Requests)
                         /\ listener[c] \in Reader /\ reader[c] \in Reader
                         /\ seen[c] \subseteq 1..Len(stream[c])
                         /\ stored[c] \in seen[c] \cup (0..Len(stream[c]))
    /\ fetching \subseteq Requests
    /\ pipe \in Seq(Command)
    /\ state \in [Requests -> RequestState]
    /\ load \in Load

Init ==
    /\ networks = {} /\ metadata = [c \in Chains |-> 0]
    /\ stream = [c \in Chains |-> <<>>] /\ trimmed = metadata
    /\ asked = stream
    /\ replies = [l \in {ReplyTo(r) : r \in Requests} |-> <<>>]
    /\ runtime = [c \in Chains |-> 1]
    /\ producer = Down /\ opened = {} /\ fetching = {}
    /\ listener = [c \in Chains |-> NoReader]
    /\ consumer = Down /\ known = {} /\ consumers = {}
    /\ registry = metadata /\ reader = listener
    /\ seen = [c \in Chains |-> {}] /\ stored = metadata
    /\ pipe = <<>> /\ state = [r \in Requests |-> [at |-> "new", got |-> None]]
    /\ load \in Loads

Spend(what) == load[what] > 0 /\ load' = [load EXCEPT ![what] = @ - 1]
----------------------------------------------------------------------------
(* The producer *)

\* start: the networks are written; the streams are opened without being waited for.
StartProducer(config) ==
    /\ producer = Down
    /\ networks' = networks \cup config
    /\ producer' = config
    /\ UNCHANGED <<metadata, stream, trimmed, asked, replies, runtime, opened,
                   listener, fetching, consuming, load>>

Opening(c) == producer # Down /\ c \in producer

\* The metadata is written when the runtime is not the one it was written for.
WriteMetadata(c) ==
    /\ Opening(c) /\ metadata[c] # runtime[c]
    /\ metadata' = [metadata EXCEPT ![c] = runtime[c]]
    /\ UNCHANGED <<networks, stream, trimmed, asked, replies, producing, consuming, load>>

\* Blocks are published from now on, and storage requests are listened to.
OpenStream(c) ==
    /\ Opening(c) /\ metadata[c] = runtime[c]
    /\ producer' = producer \ {c}
    /\ opened' = opened \cup {c}
    /\ listener' = [listener EXCEPT ![c] = NewReader(Latest)]
    /\ UNCHANGED <<redis, runtime, fetching, consuming, load>>

Publish(c) ==
    /\ c \in opened /\ Spend("blocks")
    /\ stream' = [stream EXCEPT ![c] = Append(@, runtime[c])]
    /\ UNCHANGED <<networks, metadata, trimmed, asked, replies, producing, consuming>>

\* XADD trims to about a thousand entries.
Trim(c) ==
    /\ trimmed[c] < Len(stream[c]) /\ Spend("trims")
    /\ trimmed' = [trimmed EXCEPT ![c] = @ + 1]
    /\ UNCHANGED <<networks, metadata, stream, asked, replies, producing, consuming>>

\* The chain upgrades its runtime, which neither process is told.
Upgrade(c) ==
    /\ Spend("upgrades")
    /\ runtime' = [runtime EXCEPT ![c] = @ + 1]
    /\ UNCHANGED <<redis, producer, opened, listener, fetching, consuming>>

StopProducer ==
    /\ producer # Down /\ Spend("restarts")
    /\ producer' = Down /\ opened' = {} /\ fetching' = {}
    /\ listener' = [c \in Chains |-> NoReader]
    /\ UNCHANGED <<redis, runtime, consuming>>

\* The reader of the storage requests, step by step (see Distributor).
Listens(c, l) == listener' = [listener EXCEPT ![c] = l]

ListenerCalls(c) ==
    /\ listener[c].at = "calling"
    /\ Listens(c, XRead(listener[c], Len(asked[c])))
    /\ UNCHANGED <<redis, runtime, producer, opened, fetching, consuming, load>>

GetRequest(c) ==
    /\ HasEntry(listener[c], 0, Len(asked[c]))
    /\ LET n == Entry(listener[c], 0)
       IN  /\ Listens(c, After(listener[c], n))
           /\ fetching' = fetching \cup {asked[c][n]}
    /\ UNCHANGED <<redis, runtime, producer, opened, consuming, load>>

ListenerTimesOut(c) ==
    /\ listener[c].at = "blocked" /\ ~HasEntry(listener[c], 0, Len(asked[c]))
    /\ Listens(c, TimedOut(listener[c]))
    /\ UNCHANGED <<redis, runtime, producer, opened, fetching, consuming, load>>

ListenerFails(c) ==
    /\ listener[c].at \in {"calling", "blocked"} /\ Spend("errors")
    /\ Listens(c, Stopped(listener[c]))
    /\ UNCHANGED <<redis, runtime, producer, opened, fetching, consuming>>

\* The storage is there: it is pushed to the list the request names.
Push(r) ==
    /\ r \in fetching
    /\ fetching' = fetching \ {r}
    /\ replies' = [replies EXCEPT ![ReplyTo(r)] = Append(@, Answer(r))]
    /\ UNCHANGED <<networks, metadata, stream, trimmed, asked, runtime, producer, opened,
                   listener, consuming, load>>
----------------------------------------------------------------------------
(* The consumer *)

ReadNetworks == known' = known \cup networks

StartConsumer ==
    /\ consumer = Down
    /\ ReadNetworks
    /\ consumer' = networks
    /\ UNCHANGED <<redis, producing, consumers, registry, reader, seen, stored, pipe, state, load>>

Starting(c) == consumer # Down /\ c \in consumer

\* getRegistry: the metadata is read once for each chain.
StartChain(c) ==
    /\ Starting(c) /\ metadata[c] > 0
    /\ registry' = [registry EXCEPT ![c] = metadata[c]]
    /\ consumer' = consumer \ {c}
    /\ consumers' = consumers \cup {c}
    /\ reader' = [reader EXCEPT ![c] = NewReader(Latest)]
    /\ UNCHANGED <<redis, producing, known, seen, stored, pipe, state, load>>

\* What a process that ends takes with it.
LoseConsumer ==
    /\ consumer' = Down /\ known' = {} /\ consumers' = {}
    /\ registry' = [c \in Chains |-> 0]
    /\ reader' = [c \in Chains |-> NoReader]
    /\ seen' = [c \in Chains |-> {}] /\ pipe' = <<>>
    /\ state' = [r \in Requests |->
                    IF state[r].at \in {"adding", "popping"}
                    THEN [at |-> "rejected", got |-> None] ELSE state[r]]
    /\ UNCHANGED <<redis, producing, stored>>

\* Variant: the chain is gone without.
StartWithout(c) ==
    /\ Starting(c) /\ metadata[c] = 0
    /\ consumer' = consumer \ {c}
    /\ UNCHANGED <<redis, producing, known, consumers, registry, reader, seen, stored,
                   pipe, state, load>>

\* There is no metadata yet: start throws, and the process ends.
StartFails(c) ==
    /\ Starting(c) /\ metadata[c] = 0
    /\ LoseConsumer /\ UNCHANGED load

StopConsumer ==
    /\ consumer # Down /\ Spend("restarts")
    /\ LoseConsumer

\* Every minute: networks found now are known, and have no block consumer.  The
\* command waits for those before it on the connection.
Poll ==
    /\ consumer = {} /\ pipe = <<>>
    /\ known # known \cup networks
    /\ ReadNetworks
    /\ UNCHANGED <<redis, producing, consumer, consumers, registry, reader, seen, stored,
                   pipe, state, load>>

Reads(c, r) == reader' = [reader EXCEPT ![c] = r]

ReaderCalls(c) ==
    /\ reader[c].at = "calling"
    /\ Reads(c, XRead(reader[c], Len(stream[c])))
    /\ UNCHANGED <<redis, producing, consumer, known, consumers, registry, seen, stored,
                   pipe, state, load>>

NextBlock(c) == Entry(reader[c], trimmed[c])

\* A block that decodes goes to the subject, and its id to the database.
GetBlock(c) ==
    /\ HasEntry(reader[c], trimmed[c], Len(stream[c]))
    /\ Reads(c, After(reader[c], NextBlock(c)))
    /\ seen' = [seen EXCEPT ![c] = @ \cup {NextBlock(c)}]
    /\ stored' = [stored EXCEPT ![c] = NextBlock(c)]
    /\ UNCHANGED <<redis, producing, consumer, known, consumers, registry, pipe, state, load>>

\* A block of another runtime than the registry's may not decode: the handler throws.
BlockThrows(c) ==
    /\ HasEntry(reader[c], trimmed[c], Len(stream[c]))
    /\ stream[c][NextBlock(c)] # registry[c]
    /\ Reads(c, Stopped(reader[c]))
    /\ UNCHANGED <<redis, producing, consumer, known, consumers, registry, seen, stored,
                   pipe, state, load>>

ReaderTimesOut(c) ==
    /\ reader[c].at = "blocked" /\ ~HasEntry(reader[c], trimmed[c], Len(stream[c]))
    /\ Reads(c, TimedOut(reader[c]))
    /\ UNCHANGED <<redis, producing, consumer, known, consumers, registry, seen, stored,
                   pipe, state, load>>

ReaderFails(c) ==
    /\ reader[c].at \in {"calling", "blocked"} /\ Spend("errors")
    /\ Reads(c, Stopped(reader[c]))
    /\ UNCHANGED <<redis, producing, consumer, known, consumers, registry, seen, stored,
                   pipe, state>>
----------------------------------------------------------------------------
(* Storage requests *)

Steps(r, at) == state' = [state EXCEPT ![r] = [at |-> at, got |-> None]]

Ask(r) ==
    /\ Chain[r] \in consumers /\ state[r].at = "new" /\ r \in load.requests
    /\ Steps(r, "adding")
    /\ pipe' = Append(pipe, [op |-> "add", req |-> r])
    /\ UNCHANGED <<redis, producing, consumer, known, consumers, registry, reader, seen,
                   stored, load>>

First(op, r) == pipe # <<>> /\ Head(pipe) = [op |-> op, req |-> r]

\* XADD resolves, and the BRPOP is sent behind what was sent meanwhile.
Added(r) ==
    /\ First("add", r)
    /\ asked' = [asked EXCEPT ![Chain[r]] = Append(@, r)]
    /\ Steps(r, "popping")
    /\ pipe' = Append(Tail(pipe), [op |-> "pop", req |-> r])
    /\ UNCHANGED <<networks, metadata, stream, trimmed, replies, producing, consumer, known,
                   consumers, registry, reader, seen, stored, load>>

Popped(r) ==
    /\ First("pop", r) /\ replies[ReplyTo(r)] # <<>>
    /\ replies' = [replies EXCEPT ![ReplyTo(r)] = Tail(@)]
    /\ state' = [state EXCEPT ![r] = [at |-> "answered", got |-> Head(replies[ReplyTo(r)])]]
    /\ pipe' = Tail(pipe)
    /\ UNCHANGED <<networks, metadata, stream, trimmed, asked, producing, consumer, known,
                   consumers, registry, reader, seen, stored, load>>

\* Entries a listener will still get: those after its last id, or, when it has
\* none yet, those after the latest one its XREAD found.
Ahead(l, top) ==
    CASE l.at = "blocked" -> (l.from + 1)..top
      [] l.at = "calling" /\ l.id # Latest -> (l.id + 1)..top
      [] OTHER -> {}

\* A request for the list of r that the producer has or will get.
Coming(r) ==
    \E q \in Requests :
        /\ ReplyTo(q) = ReplyTo(r)
        /\ \/ q \in fetching
           \/ \E n \in Ahead(listener[Chain[q]], Len(asked[Chain[q]])) : asked[Chain[q]][n] = q

\* Variant: BRPOP waits for ever.
WaitForEver(r) == FALSE /\ UNCHANGED vars

\* BRPOP gives up after a thousand seconds, longer than anything else takes.
PopTimesOut(r) ==
    /\ First("pop", r) /\ replies[ReplyTo(r)] = <<>> /\ ~Coming(r)
    /\ Steps(r, "rejected")
    /\ pipe' = Tail(pipe)
    /\ UNCHANGED <<redis, producing, consumer, known, consumers, registry, reader, seen,
                   stored, load>>

Producing(c) ==
    \/ WriteMetadata(c) \/ OpenStream(c)
    \/ ListenerCalls(c) \/ GetRequest(c) \/ ListenerTimesOut(c)

Reading(c) ==
    \/ StartChain(c) \/ StartFails(c)
    \/ ReaderCalls(c) \/ GetBlock(c) \/ BlockThrows(c)

Asking(r) == Push(r) \/ Added(r) \/ Popped(r) \/ PopTimesOut(r)

Next ==
    \/ \E config \in load.configs : StartProducer(config)
    \/ StopProducer \/ StartConsumer \/ StopConsumer \/ Poll
    \/ \E c \in Chains :
          \/ Producing(c) \/ Reading(c)
          \/ Publish(c) \/ Trim(c) \/ Upgrade(c)
          \/ ListenerFails(c) \/ ReaderFails(c) \/ ReaderTimesOut(c)
    \/ \E r \in Requests : Ask(r) \/ Asking(r)

Spec == Init /\ [][Next]_vars

\* Redis answers, reads are repeated, storage is fetched and timers fire.
FairSpec ==
    /\ Spec
    /\ \A c \in Chains : WF_vars(Producing(c)) /\ WF_vars(Reading(c))
    /\ \A r \in Requests : WF_vars(Asking(r))
----------------------------------------------------------------------------
(* Properties *)

\* From the first block a consumer reads on, it is given every block the stream
\* still holds: time-outs of reads, however they fall, skip nothing
\* (distributor.ts:104-127).
BlocksAreContiguous ==
    \A c \in Chains :
        seen[c] # {} => Min(seen[c])..Max(seen[c]) \subseteq seen[c] \cup 1..trimmed[c]

\* A block added to a stream that is being read, past its first entry, is handed
\* over, unless the reading stops for ever, the process ends, or the entry is
\* trimmed before.
BlocksArrive ==
    \A c \in Chains : \A n \in 1..MaxBlocks :
        (reader[c].id # Latest /\ n <= Len(stream[c]))
            ~> (n \in seen[c] \/ reader[c].at \in {"off", "stopped"} \/ n <= trimmed[c]
                \/ \A m \in seen[c] : n < m)

\* A request is answered with the storage of its own chain, key and block, also
\* when an answer was left behind in its list by a request of an earlier run.
AnswersAreForTheBlock ==
    \A r \in Requests : state[r].at = "answered" => state[r].got = Answer(r)

\* A request ends, answered or rejected, whatever was lost with the producer:
\* those behind it on the connection go on (consumer/index.ts:205-240).
RequestsEnd ==
    \A r \in Requests :
        state[r].at \in {"adding", "popping"} ~> state[r].at \in {"answered", "rejected"}

\* Networks the consumer knows and has no blocks of: a subscription to one is
\* stored, and then finalizedBlocks throws.
Blockless == IF consumer = {} THEN known \ consumers ELSE {}

\* They are those found after the start, and no others.
OnlyLateNetworksAreBlockless ==
    [][Blockless' \ Blockless # {} => Poll]_vars

=============================================================================
