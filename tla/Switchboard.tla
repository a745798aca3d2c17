----------------------------- MODULE Switchboard -----------------------------
(***************************************************************************)
(* The switchboard of the monitoring service                               *)
(* (services/monitoring/switchboard.ts) with the subscription store        *)
(* (services/persistence/subs.ts) and the HTTP API that drive it           *)
(* (services/monitoring/api/routes.ts).                                    *)
(*                                                                         *)
(* A subscription is a descriptor in the database and, while the process    *)
(* runs, a handler in memory that holds the streams it listens to: two at    *)
(* its origin, one at each destination, one at the relay chain.  Requests   *)
(* of several clients interleave at every await; a stream that fails is     *)
(* subscribed again by a timer, which knows nothing of the requests served  *)
(* meanwhile.                                                              *)
(***************************************************************************)
EXTENDS Integers, Sequences, FiniteSets

CONSTANTS
    Ids,            \* subscription ids
    ChainOrder,     \* the configured chains, in the order the store goes through them
    RelayChain,     \* the relay chain among them
    Descs,          \* descriptors: the origin, the destinations, the senders' criterion,
                    \* and whether xcm.relayed is among the events
    Batches,        \* the bodies of POST requests: sequences of [id, desc]
    PatchOps,       \* bound: the sets of fields a patch has operations on
    Clients,        \* bound: the requests served at the same time
    None,           \* nothing stored, no handler
    MaxPersistent,  \* subscriptionMaxPersistent
    MaxErrors,      \* bound: failures of streams
    MaxCrash        \* bound: crashes of the process

Chains == {ChainOrder[n] : n \in DOMAIN ChainOrder}

ASSUME SwitchboardAssumption ==
    /\ ChainOrder \in Seq(Chains)
    /\ \A m, n \in DOMAIN ChainOrder : ChainOrder[m] = ChainOrder[n] => m = n
    /\ \A d \in Descs :
          /\ DOMAIN d = {"origin", "dests", "senders", "relayed"}
          /\ d.origin \in Chains /\ d.dests \subseteq Chains /\ d.relayed \in BOOLEAN
    /\ Batches \subseteq Seq([id : Ids, desc : Descs])
    /\ PatchOps \subseteq SUBSET {"senders", "destinations", "events"}
    /\ None \notin Descs
    /\ IsFiniteSet(Ids) /\ IsFiniteSet(Clients)
    /\ MaxPersistent \in Nat /\ MaxErrors \in Nat /\ MaxCrash \in Nat

VARIABLES
    db,          \* stored: the descriptor by id and origin chain (the "family")
    subs,        \* the handlers by id
    persistent,  \* the count of persistent subscriptions
    reqs,        \* the request each client waits for
    timers,      \* the pending retries of failed streams
    orphans,     \* streams that still emit but that no handler holds
    boot,        \* the chain whose subscriptions are loaded next
    errors, crashes

memory == <<subs, persistent, reqs, timers, orphans, boot>>
bounds == <<errors, crashes>>
vars == <<db, memory, bounds>>

\* Both streams of an origin: by transport for a parachain, from extrinsics and
\* from events for a relay chain.
Pipes == {1, 2}

Handler ==
    [desc : Descs, chain : Chains, origin : SUBSET Pipes, senders : {d.senders : d \in Descs},
     message : {d.dests : d \in Descs}, dests : SUBSET Chains,
     relay : {"none", "live", "dead"}, relayMessage : SUBSET Chains]

ASSUME NoneIsNoHandler == None \notin Handler

Stream == [kind : {"origin", "dest", "relay"}, id : Ids, chain : Chains]

Ready == boot > Len(ChainOrder)
----------------------------------------------------------------------------
(* The store *)

\* getById: the first family that has the id.
Families(id) == {n \in DOMAIN ChainOrder : db[id][ChainOrder[n]] # None}
Exists(id) == Families(id) # {}
FamilyOf(id) == ChainOrder[CHOOSE n \in Families(id) : \A m \in Families(id) : n <= m]

Written(id, chain, d) == [db EXCEPT ![id][chain] = d]
----------------------------------------------------------------------------
(* Monitors *)

ShouldMonitorRelay(d) ==
    d.relayed /\ d.origin # RelayChain /\ d.dests \ {RelayChain} # {}

\* The streams the handler of id listens to.
StreamsOf(id) ==
    IF subs[id] = None THEN {}
    ELSE LET h == subs[id]
             At(kind, cs) == {[kind |-> kind, id |-> id, chain |-> c] : c \in cs}
         IN  At("origin", IF h.origin = {} THEN {} ELSE {h.chain})
                 \cup At("dest", h.dests)
                 \cup At("relay", IF h.relay = "live" THEN {h.chain} ELSE {})

\* Variant: nothing keeps an origin from being monitored twice.
NeverDuplicated(id, chain) == FALSE

\* Fatal: duplicated origin monitor.
Duplicated(id, chain) ==
    subs[id] # None /\ subs[id].origin # {} /\ subs[id].chain = chain

\* The handler #monitor sets up.  It skips the destinations the handler it takes
\* the place of (if any) listens to, and lets go of that handler's streams.
Monitored(id, d) ==
    [desc |-> d, chain |-> d.origin, origin |-> Pipes,
     senders |-> d.senders, message |-> d.dests,
     dests |-> IF subs[id] = None THEN d.dests ELSE d.dests \ subs[id].dests,
     relay |-> IF ShouldMonitorRelay(d) THEN "live" ELSE "none",
     relayMessage |-> IF ShouldMonitorRelay(d) THEN d.dests ELSE {}]
----------------------------------------------------------------------------
(* Requests *)

Idle == [at |-> "idle"]

Request ==
    {Idle}
    \cup [at : {"exists", "put"}, id : Ids, desc : Descs,
          todo : Seq([id : Ids, desc : Descs]), undo : Seq(Ids)]
    \cup [at : {"get"}, id : Ids]
    \cup [at : {"save"}, id : Ids, desc : Descs,
          ops : PatchOps, base : Descs]
    \cup [at : {"clear", "find"}, id : Ids, undo : Seq(Ids)]
    \cup [at : {"remove"}, id : Ids, chain : Chains, undo : Seq(Ids)]

Reply(c, r) == reqs' = [reqs EXCEPT ![c] = r]

\* unsubscribe(id) for every id in turn, up to its first await: ids without a
\* handler are ignored, the streams of the first one with a handler are
\* unsubscribed and the handler is forgotten.
Unsubscribe(c, ids, handlers) ==
    LET known == {n \in DOMAIN ids : handlers[ids[n]] # None}
    IN  \/ known = {} /\ Reply(c, Idle) /\ subs' = handlers
        \/ \E n \in known :
              /\ \A m \in known : n <= m
              /\ subs' = [handlers EXCEPT ![ids[n]] = None]
              /\ Reply(c, [at |-> "clear", id |-> ids[n],
                           undo |-> SubSeq(ids, n + 1, Len(ids))])

\* subscribe(todo[1]) up to its first await.  A batch that cannot go on undoes
\* what it did.
Subscribe(c, todo, undo, handlers, count) ==
    IF todo = <<>> THEN Reply(c, Idle) /\ subs' = handlers
    ELSE IF count >= MaxPersistent THEN Unsubscribe(c, undo, handlers)
    ELSE /\ subs' = handlers
         /\ Reply(c, [at |-> "exists", id |-> todo[1].id, desc |-> todo[1].desc,
                      todo |-> Tail(todo), undo |-> undo])

Post(c, batch) ==
    /\ Ready /\ reqs[c] = Idle
    /\ Subscribe(c, batch, <<>>, subs, persistent)
    /\ UNCHANGED <<db, persistent, timers, orphans, boot, bounds>>

\* SubsStore.insert: the id must not exist.
CheckExists(c) ==
    LET r == reqs[c]
    IN  /\ r.at = "exists"
        /\ IF Exists(r.id) THEN Unsubscribe(c, r.undo, subs)
           ELSE Reply(c, [r EXCEPT !.at = "put"]) /\ UNCHANGED subs
        /\ UNCHANGED <<db, persistent, timers, orphans, boot, bounds>>

\* The descriptor is put and the subscription monitored.
Insert(c) ==
    LET r == reqs[c]
    IN  /\ r.at = "put"
        /\ db' = Written(r.id, r.desc.origin, r.desc)
        /\ IF Duplicated(r.id, r.desc.origin)
           THEN Unsubscribe(c, r.undo, subs) /\ UNCHANGED <<persistent, orphans>>
           ELSE /\ persistent' = persistent + 1
                /\ orphans' = orphans \cup StreamsOf(r.id)
                /\ Subscribe(c, r.todo, Append(r.undo, r.id),
                             [subs EXCEPT ![r.id] = Monitored(r.id, r.desc)],
                             persistent + 1)
        /\ UNCHANGED <<timers, boot, bounds>>

Delete(c, id) ==
    /\ Ready /\ reqs[c] = Idle
    /\ subs[id] # None
    /\ Unsubscribe(c, <<id>>, subs)
    /\ UNCHANGED <<db, persistent, timers, orphans, boot, bounds>>

\* Variant: the subscription still counts.
ClearedUncounted(c) ==
    /\ reqs[c].at = "clear"
    /\ Reply(c, [reqs[c] EXCEPT !.at = "find"])
    /\ UNCHANGED <<db, subs, persistent, timers, orphans, boot, bounds>>

\* clearPendingStates is over (see Matching).
Cleared(c) ==
    /\ reqs[c].at = "clear"
    /\ persistent' = persistent - 1
    /\ Reply(c, [reqs[c] EXCEPT !.at = "find"])
    /\ UNCHANGED <<db, subs, timers, orphans, boot, bounds>>

\* SubsStore.remove looks the id up; when it is gone the error is logged.
FindToRemove(c) ==
    LET r == reqs[c]
    IN  /\ r.at = "find"
        /\ IF Exists(r.id)
           THEN /\ Reply(c, [at |-> "remove", id |-> r.id, chain |-> FamilyOf(r.id),
                             undo |-> r.undo])
                /\ UNCHANGED subs
           ELSE Unsubscribe(c, r.undo, subs)
        /\ UNCHANGED <<db, persistent, timers, orphans, boot, bounds>>

Remove(c) ==
    LET r == reqs[c]
    IN  /\ r.at = "remove"
        /\ db' = Written(r.id, r.chain, None)
        /\ Unsubscribe(c, r.undo, subs)
        /\ UNCHANGED <<persistent, timers, orphans, boot, bounds>>

Patch(c, id) ==
    /\ Ready /\ reqs[c] = Idle
    /\ Reply(c, [at |-> "get", id |-> id])
    /\ UNCHANGED <<db, subs, persistent, timers, orphans, boot, bounds>>

\* What a patch with operations on the fields ops may turn d into.
Patched(d, ops) ==
    {e \in Descs :
        /\ e.origin = d.origin
        /\ "senders" \notin ops => e.senders = d.senders
        /\ "destinations" \notin ops => e.dests = d.dests
        /\ "events" \notin ops => e.relayed = d.relayed}

\* The stored descriptor is read and patched.
GetToPatch(c, ops) ==
    LET r == reqs[c]
    IN  /\ r.at = "get"
        /\ \/ ~Exists(r.id) /\ Reply(c, Idle)
           \/ /\ Exists(r.id)
              /\ LET d == db[r.id][FamilyOf(r.id)]
                 IN  \E e \in Patched(d, ops) :
                        Reply(c, [at |-> "save", id |-> r.id, desc |-> e, ops |-> ops,
                                  base |-> d])
        /\ UNCHANGED <<db, subs, persistent, timers, orphans, boot, bounds>>

\* Variant: the criteria of the messages stay as they are.
ForgetCriteria(h, d) == [h EXCEPT !.dests = d.dests]

\* The streams of new destinations are added, those of removed ones dropped.  The
\* criterion of the origin's streams changes, not that of the relay stream, which
\* #monitorRelay has made for itself.
UpdateDestinations(h, d) == [h EXCEPT !.message = d.dests, !.dests = d.dests]

UpdateSenders(h, d) == [h EXCEPT !.senders = d.senders]

\* A stream there is stays as it is, a dead one too; a new one has the destinations of
\* the descriptor for its criterion.
UpdateEvents(h, d) ==
    IF ~ShouldMonitorRelay(d) THEN [h EXCEPT !.relay = "none", !.relayMessage = {}]
    ELSE IF h.relay = "none" THEN [h EXCEPT !.relay = "live", !.relayMessage = d.dests]
    ELSE h

Updated(h, d, ops) ==
    LET h1 == [h EXCEPT !.desc = d]
        h2 == IF "senders" \in ops THEN UpdateSenders(h1, d) ELSE h1
        h3 == IF "destinations" \in ops THEN UpdateDestinations(h2, d) ELSE h2
    IN  IF "events" \in ops THEN UpdateEvents(h3, d) ELSE h3

\* Variant: the handler keeps its descriptor.
SaveOnly(c) ==
    LET r == reqs[c]
    IN  /\ r.at = "save"
        /\ db' = Written(r.id, r.desc.origin, r.desc)
        /\ Reply(c, Idle)
        /\ UNCHANGED <<subs, persistent, timers, orphans, boot, bounds>>

\* The patched descriptor is saved, and the handler (if there still is one)
\* brought up to date.
Save(c) ==
    LET r == reqs[c]
    IN  /\ r.at = "save"
        /\ db' = Written(r.id, r.desc.origin, r.desc)
        /\ subs' = [subs EXCEPT ![r.id] =
                        IF @ = None THEN None ELSE Updated(@, r.desc, r.ops)]
        /\ Reply(c, Idle)
        /\ UNCHANGED <<persistent, timers, orphans, boot, bounds>>
----------------------------------------------------------------------------
(* Failures of streams and their retries *)

Retry(s, d) ==
    [n |-> errors, kind |-> s.kind, id |-> s.id, chain |-> s.chain, desc |-> d]

Fail ==
    /\ errors < MaxErrors
    /\ errors' = errors + 1

\* Variant: no retry is set up.
OriginLost(id, failing) ==
    /\ Fail
    /\ subs[id] # None /\ failing \subseteq subs[id].origin /\ failing # {}
    /\ subs' = [subs EXCEPT ![id].origin = {}]
    /\ orphans' = orphans \cup
           (IF subs[id].origin = failing THEN {}
            ELSE {[kind |-> "origin", id |-> id, chain |-> subs[id].chain]})
    /\ UNCHANGED <<db, persistent, reqs, timers, boot, crashes>>

WithoutStream(h, s) ==
    IF s.kind = "origin" THEN [h EXCEPT !.origin = {}]
    ELSE [h EXCEPT !.dests = @ \ {s.chain}]

\* The handler lets go of the streams that go with s, and a retry is set up.
LetGo(s) ==
    /\ subs' = [subs EXCEPT ![s.id] = WithoutStream(@, s)]
    /\ timers' = timers \cup {Retry(s, subs[s.id].desc)}

\* One stream of the origin fails, or both with the blocks they share.  The
\* handler lets go of both.
OriginFails(id, failing) ==
    /\ Fail
    /\ subs[id] # None /\ failing \subseteq subs[id].origin /\ failing # {}
    /\ LET s == [kind |-> "origin", id |-> id, chain |-> subs[id].chain]
       IN  /\ LetGo(s)
           /\ orphans' = orphans \cup (IF subs[id].origin = failing THEN {} ELSE {s})
    /\ UNCHANGED <<db, persistent, reqs, boot, crashes>>

DestFails(id, chain) ==
    /\ Fail
    /\ subs[id] # None /\ chain \in subs[id].dests
    /\ LetGo([kind |-> "dest", id |-> id, chain |-> chain])
    /\ UNCHANGED <<db, persistent, reqs, orphans, boot, crashes>>

RelayFails(id) ==
    /\ Fail
    /\ subs[id] # None /\ subs[id].relay = "live"
    /\ subs' = [subs EXCEPT ![id].relay = "dead", ![id].relayMessage = {}]
    /\ timers' = timers \cup
           {Retry([kind |-> "relay", id |-> id, chain |-> subs[id].chain], subs[id].desc)}
    /\ UNCHANGED <<db, persistent, reqs, orphans, boot, crashes>>

\* A stream left behind fails.  The handler takes it for the one it listens to and
\* lets go of that one, which is left behind in its place; of a relay stream it does
\* not, but sets up a retry, whether it listens to one or not.
OrphanFails(s) ==
    /\ Fail
    /\ s \in orphans
    /\ IF s.kind # "relay" /\ s \in StreamsOf(s.id) THEN LetGo(s) /\ UNCHANGED orphans
       ELSE /\ orphans' \in {orphans, orphans \ {s}}
            /\ timers' = IF s.kind = "relay" /\ subs[s.id] # None
                         THEN timers \cup {Retry(s, subs[s.id].desc)} ELSE timers
            /\ UNCHANGED subs
    /\ UNCHANGED <<db, persistent, reqs, boot, crashes>>

\* The writes under way when the process dies.
Writing(c) == reqs[c].at \in {"put", "save", "remove"}
WrittenBy(c) ==
    LET r == reqs[c]
    IN  IF r.at = "remove" THEN [id |-> r.id, chain |-> r.chain, desc |-> None]
        ELSE [id |-> r.id, chain |-> r.desc.origin, desc |-> r.desc]

\* The process ends and starts again; any of the writes under way may have
\* reached the database.
Restart ==
    /\ \E done \in SUBSET {WrittenBy(c) : c \in {c \in Clients : Writing(c)}} :
          /\ \A v, w \in done : v.id = w.id /\ v.chain = w.chain => v = w
          /\ db' = [id \in Ids |-> [chain \in Chains |->
                       IF \E w \in done : w.id = id /\ w.chain = chain
                       THEN (CHOOSE w \in done : w.id = id /\ w.chain = chain).desc
                       ELSE db[id][chain]]]
    /\ subs' = [id \in Ids |-> None]
    /\ persistent' = 0
    /\ reqs' = [c \in Clients |-> Idle]
    /\ timers' = {}
    /\ orphans' = {}
    /\ boot' = 1

\* A retry whose subscription was removed throws, and so does one of an origin
\* that is monitored again: nothing catches it, and the process closes.
Throws(t) ==
    \/ subs[t.id] = None /\ t.kind # "origin"
    \/ t.kind = "origin" /\ Duplicated(t.id, t.desc.origin)

RetryThrows(t) == Throws(t) /\ Restart /\ UNCHANGED bounds

\* The origin is monitored as the descriptor had it when the stream failed.
RetryOrigin(t) ==
    /\ t.kind = "origin" /\ ~Throws(t)
    /\ timers' = timers \ {t}
    /\ subs' = [subs EXCEPT ![t.id] =
                    IF @ = None THEN None
                    ELSE [@ EXCEPT !.chain = t.desc.origin, !.origin = Pipes,
                                   !.senders = t.desc.senders,
                                   !.message = t.desc.dests]]
    /\ orphans' = orphans \cup {s \in StreamsOf(t.id) : s.kind = "origin"}
    /\ UNCHANGED <<db, persistent, reqs, boot, bounds>>

RetryDest(t) ==
    /\ t.kind = "dest" /\ ~Throws(t)
    /\ timers' = timers \ {t}
    /\ subs' = [subs EXCEPT ![t.id].dests = subs[t.id].desc.dests]
    /\ UNCHANGED <<db, persistent, reqs, orphans, boot, bounds>>

\* The relay chain is monitored whether the subscription still asks for it or
\* not, and whether it is monitored already or not.
RetryRelay(t) ==
    /\ t.kind = "relay" /\ ~Throws(t)
    /\ timers' = timers \ {t}
    /\ subs' = [subs EXCEPT ![t.id].relay = "live",
                            ![t.id].relayMessage = subs[t.id].desc.dests]
    /\ orphans' = orphans \cup {s \in StreamsOf(t.id) : s.kind = "relay"}
    /\ UNCHANGED <<db, persistent, reqs, boot, bounds>>

Crash ==
    /\ crashes < MaxCrash
    /\ crashes' = crashes + 1
    /\ Restart
    /\ UNCHANGED errors

\* The subscriptions stored for the next chain are monitored.
Boot ==
    /\ ~Ready
    /\ boot' = boot + 1
    /\ LET chain == ChainOrder[boot]
           stored == {id \in Ids : db[id][chain] # None}
       IN  /\ subs' = [id \in Ids |->
                          IF id \in stored THEN Monitored(id, db[id][chain]) ELSE subs[id]]
           /\ persistent' = persistent + Cardinality(stored)
           /\ orphans' = orphans \cup UNION {StreamsOf(id) : id \in stored}
    /\ UNCHANGED <<db, reqs, timers, bounds>>
----------------------------------------------------------------------------
Init ==
    /\ db = [id \in Ids |-> [chain \in Chains |-> None]]
    /\ subs = [id \in Ids |-> None]
    /\ persistent = 0
    /\ reqs = [c \in Clients |-> Idle]
    /\ timers = {}
    /\ orphans = {}
    /\ boot = 1
    /\ errors = 0 /\ crashes = 0

Ask(c) ==
    \/ \E batch \in Batches : Post(c, batch)
    \/ \E id \in Ids : Delete(c, id) \/ Patch(c, id)

Serve(c) ==
    \/ CheckExists(c) \/ Insert(c)
    \/ Cleared(c) \/ FindToRemove(c) \/ Remove(c)
    \/ \E ops \in PatchOps : GetToPatch(c, ops)
    \/ Save(c)

StreamFails(id) ==
    \/ \E failing \in SUBSET Pipes : OriginFails(id, failing)
    \/ \E chain \in Chains : DestFails(id, chain)
    \/ RelayFails(id)

RunTimers ==
    \E t \in timers : RetryOrigin(t) \/ RetryDest(t) \/ RetryRelay(t) \/ RetryThrows(t)

Next ==
    \/ \E c \in Clients : Ask(c) \/ Serve(c)
    \/ \E id \in Ids : StreamFails(id)
    \/ \E s \in orphans : OrphanFails(s)
    \/ RunTimers \/ Boot \/ Crash

Spec == Init /\ [][Next]_vars

\* Timers fire; requests, failures and crashes come as they like, and the database
\* answers when it likes.
FairSpec == Spec /\ WF_vars(RunTimers)
----------------------------------------------------------------------------
(* Properties *)

Timer ==
    [n : 0..MaxErrors, kind : {"origin", "dest", "relay"}, id : Ids, chain : Chains,
     desc : Descs]

TypeOK ==
    /\ db \in [Ids -> [Chains -> Descs \cup {None}]]
    /\ subs \in [Ids -> Handler \cup {None}]
    /\ persistent \in Nat
    /\ reqs \in [Clients -> Request]
    /\ timers \subseteq Timer
    /\ orphans \subseteq Stream
    /\ boot \in 1..Len(ChainOrder) + 1
    /\ errors \in 0..MaxErrors /\ crashes \in 0..MaxCrash

StatsAgree ==
    persistent = Cardinality({id \in Ids : subs[id] # None})
                     + Cardinality({c \in Clients : reqs[c].at = "clear"})

\* A request inserts an id that another one inserted since it looked (and that
\* a removal may have taken out of the database again).
InsertRaces(c) ==
    /\ reqs[c].at = "put"
    /\ Exists(reqs[c].id) \/ subs[reqs[c].id] # None
    /\ Insert(c)

\* The start monitors an id again that it has monitored for another origin.
MonitorsAgain == Boot /\ \E id \in Ids : subs[id] # None /\ db[id][ChainOrder[boot]] # None

\* The count that the limit of subscriptions goes by is the number of handlers,
\* and of those being cleared, whatever requests interleave, fail or are undone.
\* Only racing insertions of one id make it wrong: when the second one is
\* monitored, and again after a restart when they have stored it for two origins.
OnlyRacesMiscount ==
    [][StatsAgree => StatsAgree' \/ MonitorsAgain \/ \E c \in Clients : InsertRaces(c)]_vars

\* The ids that memory and database disagree on, with no removal under way.
Diverged ==
    IF ~Ready THEN {}
    ELSE {id \in Ids :
            /\ \A c \in Clients : reqs[c].at \in {"clear", "find", "remove"} => reqs[c].id # id
            /\ (IF subs[id] = None THEN None ELSE subs[id].desc)
                   # (IF Exists(id) THEN db[id][FamilyOf(id)] ELSE None)}

StoredElsewhere(id, chain) == \E n \in Families(id) : ChainOrder[n] # chain

\* Memory and database come to disagree in three races only: two requests insert
\* one id, a patch is saved after its subscription was removed, and a removal
\* finds the id inserted again; and, where these have stored the id for two
\* origins, when one of the two is saved, removed, or monitored at a start.  No
\* other order of requests, undone batch, crash or failing stream makes them
\* disagree.
OnlyRacesDiverge ==
    [][\/ Diverged' \subseteq Diverged
       \/ \E c \in Clients :
              LET r == reqs[c]
              IN  \/ InsertRaces(c)
                  \/ Save(c) /\ (subs[r.id] = None \/ StoredElsewhere(r.id, r.desc.origin))
                  \/ FindToRemove(c) /\ subs[r.id] # None
                  \/ Remove(c) /\ (subs[r.id] # None \/ StoredElsewhere(r.id, r.chain))
       \/ Boot /\ \A id \in Diverged' : Cardinality(Families(id)) > 1]_vars

\* The criteria of a handler: the senders and the destinations that its streams at the
\* origin go by, and the destinations that its relay stream goes by.
Criteria == {"senders", "message", "relay"}

\* The criterion is that of the descriptor.
Follows(h, criterion) ==
    /\ criterion = "senders" => h.senders = h.desc.senders
    /\ criterion = "message" => h.message = h.desc.dests
    /\ criterion = "relay" /\ h.relay = "live" => h.relayMessage = h.desc.dests

Misled(id, criterion) == subs[id] # None /\ ~Follows(subs[id], criterion)

\* The retry of an origin brings back the criteria of the descriptor it failed with; a
\* patch is saved that was made from a descriptor another patch replaced meanwhile.
StaleWrite(id) ==
    \/ \E t \in timers : t.id = id /\ t.desc # subs[id].desc /\ RetryOrigin(t)
    \/ \E c \in Clients :
          reqs[c].at = "save" /\ reqs[c].id = id /\ reqs[c].base # subs[id].desc /\ Save(c)

\* A patch changes the destinations and leaves the relay stream there is as it was.
DestinationsChange(id) ==
    \E c \in Clients : /\ reqs[c].at = "save" /\ reqs[c].id = id
                       /\ reqs[c].desc.dests # subs[id].desc.dests /\ Save(c)

\* The criteria are updated "in real-time, without need for restarts"
\* (packages/server/README.md:15) but for three cases.  Those of the origin's streams
\* fall behind their descriptor only by a stale write, and that of the relay stream only
\* when a patch changes the destinations while the stream is there; a retry of it, or a
\* restart, brings that one up to date again.
OnlyStaleWritesMislead ==
    [][\A id \in Ids : \A criterion \in Criteria :
          Misled(id, criterion)' /\ ~Misled(id, criterion) =>
              /\ subs[id] # None
              /\ IF criterion = "relay" THEN DestinationsChange(id) ELSE StaleWrite(id)]_vars

\* A stream is left behind, emitting with nobody to unsubscribe it, in three ways
\* only: one of the two streams of an origin fails, a retry finds that what it is for
\* is listened to again (a patch has asked for the relay chain anew, the id was
\* inserted for another origin), and two insertions race, or are both monitored at
\* a start.
OnlyRetriesLeaveStreams ==
    [][\/ orphans' \subseteq orphans
       \/ \E id \in Ids : \E failing \in SUBSET Pipes :
              subs[id] # None /\ failing # subs[id].origin
                  /\ OriginFails(id, failing)
       \/ \E t \in timers : subs[t.id] # None
              /\ \/ subs[t.id].relay = "live" /\ RetryRelay(t)
                 \/ /\ subs[t.id].origin # {} /\ subs[t.id].chain # t.desc.origin
                    /\ RetryOrigin(t)
       \/ MonitorsAgain
       \/ \E c \in Clients : InsertRaces(c)]_vars

\* A stream that failed is listened to again, unless the subscription goes or
\* does not ask for it any more, whatever is patched, removed or inserted before
\* the timer fires.
FailedStreamsReturn ==
    \A id \in Ids :
        /\ (subs[id] # None /\ subs[id].origin = {})
               ~> (subs[id] = None \/ subs[id].origin # {})
        /\ (subs[id] # None /\ subs[id].relay = "dead")
               ~> (subs[id] = None \/ subs[id].relay # "dead")
        /\ \A chain \in Chains :
              (\E t \in timers : t.kind = "dest" /\ t.id = id /\ t.chain = chain)
                  ~> (\/ subs[id] = None
                      \/ chain \notin subs[id].desc.dests
                      \/ chain \in subs[id].dests)
=============================================================================
