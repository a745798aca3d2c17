------------------------------ MODULE Matching ------------------------------
(***************************************************************************)
(* The matching engine of the monitoring service                           *)
(* (services/monitoring/matching.ts) over the persistence services it      *)
(* uses: the scheduler (persistence/scheduler.ts) and the janitor          *)
(* (persistence/janitor.ts).                                               *)
(*                                                                         *)
(* The engine correlates what is observed of one XCM on several chains:    *)
(* the message leaving its origin (an XcmSent), being relayed (an          *)
(* XcmRelayedWithContext), leaving or entering an intermediate chain (a    *)
(* hop) and arriving at its destination (an XcmInbound).  An observation   *)
(* that finds no counterpart is stored, in one of four database sublevels, *)
(* under keys built from the subscription, the hash or topic id of the     *)
(* message, and a chain.                                                   *)
(*                                                                         *)
(* One step of this module is what happens up to the completion of one     *)
(* awaited database operation.  Handlers exclude one another by a mutex;   *)
(* the janitor's sweeps and the clearing of a removed subscription do not  *)
(* take it, so they interleave with a handler at every await.              *)
(***************************************************************************)
EXTENDS Naturals, Sequences, Functions

CONSTANTS
    Subs,        \* subscription ids
    Prefixed,    \* [Subs -> SUBSET Subs]: the ids that are s or start with s ":"
    Removable,   \* bound: the subscriptions that may be removed
    Refs,        \* message hashes and topic ids
    NoId,        \* the id of an outbound message without topic
    Chains,      \* chain ids
    Relay,       \* the relay chain of the (single) consensus
    None,        \* nothing stored, nothing read yet
    Outs,        \* the XcmSent observations
    Ins,         \* the XcmInbound observations
    Relays,      \* the XcmRelayedWithContext observations
    Before,      \* pairs <<m, n>>: n is never delivered before m
    MaxDeliver,  \* bound: deliveries of one observation
    MaxCrash     \* bound: crashes of the process

Msgs == Outs \cup Ins \cup Relays

ASSUME MessagesAssumption ==
    /\ Outs \subseteq [kind : {"out"}, sub : Subs, origin : Chains, dest : Chains,
                       hash : Refs, id : Refs \cup {NoId}, stops : Seq(Chains)]
    /\ \A o \in Outs : o.stops # <<>> /\ o.stops[Len(o.stops)] = o.dest
    /\ Ins \subseteq [kind : {"in"}, sub : Subs, chain : Chains,
                      hash : Refs, id : Refs]
    /\ Relays \subseteq [kind : {"relay"}, sub : Subs, origin : Chains,
                         recipient : Chains, hash : Refs, id : Refs \cup {NoId}]

ASSUME ValuesAssumption ==
    /\ NoId \notin Refs
    /\ None \notin Msgs
    /\ Relay \in Chains
    /\ Prefixed \in [Subs -> SUBSET Subs]
    /\ Removable \subseteq Subs
    /\ Before \subseteq Msgs \X Msgs
    /\ MaxDeliver \in Nat
    /\ MaxCrash \in Nat

Stores == {"outbound", "inbound", "relay", "hop"}
Keys == [sub : Subs, ref : Refs, chain : Chains]

VARIABLES
    store,    \* the four sublevels: [Stores -> [Keys -> Msgs \cup {None}]]
    tasks,    \* the janitor tasks the scheduler holds
    sweeps,   \* the janitor sweeps in flight
    running,  \* the handlers that hold the mutex (at most one)
    seen,     \* how often each observation was handed to the engine
    notes,    \* how often each notification was emitted
    live,     \* the subscriptions that were not removed
    clears,   \* the clearPendingStates calls in flight
    crashes   \* crashes so far

vars == <<store, tasks, sweeps, running, seen, notes, live, clears, crashes>>
----------------------------------------------------------------------------
(* Keys *)

MatchingKey(sub, chain, ref) == [sub |-> sub, ref |-> ref, chain |-> chain]

Ref(m) == IF m.id = NoId THEN m.hash ELSE m.id

\* The keys of m at chain c: by its hash and, when it has one, by its id.
KeysAt(m, c) == {MatchingKey(m.sub, c, r) : r \in {m.hash, m.id} \ {NoId}}

RelayKey(m) == MatchingKey(m.sub, m.origin, Ref(m))
RelayedIdKey(m) == MatchingKey(m.sub, m.recipient, Ref(m))
RelayedHopKey(m) == MatchingKey(m.sub, Relay, Ref(m))

\* Variant: only the key the inbound matched by its hash is removed.
ClaimedByHash(i, o) == {MatchingKey(i.sub, i.chain, o.hash)}

\* The outbound keys an inbound i removes when it matched o.  When i carries one
\* reference only they are rebuilt from o; otherwise only the hash is.
ClaimedKeys(i, o) ==
    IF i.hash = i.id
    THEN IF o.id = NoId THEN KeysAt(i, i.chain)
         ELSE {MatchingKey(i.sub, i.chain, r) : r \in {o.id, o.hash}}
    ELSE {MatchingKey(i.sub, i.chain, r) : r \in {i.id, o.hash}}
----------------------------------------------------------------------------
(* Notifications *)

Sent(o) == [type |-> "sent", out |-> o]
Timeout(o) == [type |-> "timeout", out |-> o]
Received(o, i) == [type |-> "received", out |-> o, by |-> i]
Relayed(o, r) == [type |-> "relayed", out |-> o, by |-> r]
Hop(o, m) == [type |-> "hop", out |-> o, by |-> m]

Note ==
    {Sent(o) : o \in Outs} \cup {Timeout(o) : o \in Outs}
        \cup {Received(p[1], p[2]) : p \in Outs \X Ins}
        \cup {Relayed(p[1], p[2]) : p \in Outs \X Relays}
        \cup {Hop(p[1], p[2]) : p \in Outs \X (Outs \cup Ins)}

Notify(n) == notes' = [notes EXCEPT ![n] = @ + 1]
----------------------------------------------------------------------------
(* Database operations.  A batch is written atomically. *)

Found(s, ks) == {k \in ks : store[s][k] # None}

Put(s, ks, m) ==
    store' = [store EXCEPT ![s] = [k \in Keys |-> IF k \in ks THEN m ELSE @[k]]]

Del(s, ks) == Put(s, ks, None)

\* A janitor task: what it sweeps, and the scheduling call it stems from (the
\* observation, which of its deliveries, and the leg of its journey).
Task == [store : Stores, key : Keys, msg : Msgs, nth : Nat, leg : Nat]
Sweep == [task : Task, item : Msgs \cup {None}]
----------------------------------------------------------------------------
(* Handlers *)

Pc == {"findRelay", "claimRelay", "hopOut", "getInbound", "claimInbound",
       "getOutbound", "claimOutbound", "hopIn", "getRelayed", "claimRelayed",
       "put", "schedule"}

\* got: the counterpart read from the database; msg itself before that.
Handler == [pc : Pc, msg : Msgs, nth : Nat, leg : Nat, got : Msgs]

Init ==
    /\ store = [s \in Stores |-> [k \in Keys |-> None]]
    /\ tasks = {}
    /\ sweeps = {}
    /\ running = {}
    /\ seen = [m \in Msgs |-> 0]
    /\ notes = [n \in Note |-> 0]
    /\ live = Subs
    /\ clears = {}
    /\ crashes = 0

Become(t, u) == running' = (running \ {t}) \cup {u}
Goto(t, pc) == Become(t, [t EXCEPT !.pc = pc])
GotoWith(t, pc, m) == Become(t, [t EXCEPT !.pc = pc, !.got = m])
Release(t) == running' = running \ {t}

EntryPoint(m) ==
    CASE m.kind = "out" -> "findRelay"
      [] m.kind = "in" -> "getOutbound"
      [] m.kind = "relay" -> "getRelayed"

\* Variant: handlers are not serialised.
NoMutex == TRUE

MutexFree == running = {}

\* onOutboundMessage, onInboundMessage or onRelayedMessage enters runExclusive.
\* Observations come in any order that Before allows, and may come again: a
\* chain may be scanned twice, and two extractors may find the same message.
Deliver(m) ==
    /\ MutexFree
    /\ seen[m] < MaxDeliver
    /\ \A p \in Before : p[2] = m => seen[p[1]] > 0
    /\ seen' = [seen EXCEPT ![m] = @ + 1]
    /\ running' = running \cup
           {[pc |-> EntryPoint(m), msg |-> m, nth |-> seen[m] + 1,
             leg |-> 1, got |-> m]}
    /\ UNCHANGED <<store, tasks, sweeps, notes, live, clears, crashes>>

untouched == <<seen, live, clears, crashes, tasks, sweeps>>

(* The outbound handler *)

\* Variant: stored relay messages are not looked for.
SkipRelayInbound(t) ==
    /\ t.pc = "findRelay"
    /\ Goto(t, "hopOut")
    /\ UNCHANGED <<untouched, store, notes>>

FindRelayInbound(t) ==
    /\ t.pc = "findRelay"
    /\ LET r == store["relay"][RelayKey(t.msg)]
       IN  IF r # None THEN GotoWith(t, "claimRelay", r) ELSE Goto(t, "hopOut")
    /\ UNCHANGED <<untouched, store, notes>>

ClaimRelay(t) ==
    /\ t.pc = "claimRelay"
    /\ Del("relay", {RelayKey(t.msg)})
    /\ Notify(Relayed(t.msg, t.got))
    /\ Goto(t, "hopOut")
    /\ UNCHANGED untouched

\* Variant: hops looked up by hash, which changes at every hop.
HopKeyByHash(m, c) == MatchingKey(m.sub, c, m.hash)

\* NOTE of the source: hops use the id, the hash differs on each hop.
HopKey(m, c) == MatchingKey(m.sub, c, m.id)

\* An outbound with an id whose origin is a stop of a stored message is a hop.
MatchHopOut(t) ==
    /\ t.pc = "hopOut"
    /\ t.msg.id # NoId
    /\ LET o == store["hop"][HopKey(t.msg, t.msg.origin)]
       IN  o # None /\ Notify(Hop(o, t.msg))
    /\ Release(t)
    /\ UNCHANGED <<untouched, store>>

\* Any other outbound is the origin of a journey.
AnnounceSent(t) ==
    /\ t.pc = "hopOut"
    /\ t.msg.id # NoId => store["hop"][HopKey(t.msg, t.msg.origin)] = None
    /\ Notify(Sent(t.msg))
    /\ Goto(t, "getInbound")
    /\ UNCHANGED <<untouched, store>>

\* Promise.any over the keys settles on whichever read succeeds first.
TryMatchOnOutbound(t) ==
    /\ t.pc = "getInbound"
    /\ LET ks == Found("inbound", KeysAt(t.msg, t.msg.dest))
       IN  \/ \E k \in ks : GotoWith(t, "claimInbound", store["inbound"][k])
           \/ ks = {} /\ Goto(t, "put")
    /\ UNCHANGED <<untouched, store, notes>>

\* Variant: the match is reported before the stored inbound is deleted.
NotifyThenClaimInbound(t) ==
    /\ t.pc = "claimInbound"
    /\ IF t.got = t.msg
       THEN Del("inbound", KeysAt(t.msg, t.msg.dest)) /\ Release(t) /\ UNCHANGED notes
       ELSE Notify(Received(t.msg, t.got)) /\ GotoWith(t, t.pc, t.msg) /\ UNCHANGED store
    /\ UNCHANGED untouched

ClaimInbound(t) ==
    /\ t.pc = "claimInbound"
    /\ Del("inbound", KeysAt(t.msg, t.msg.dest))
    /\ Notify(Received(t.msg, t.got))
    /\ Release(t)
    /\ UNCHANGED untouched

(* The inbound handler *)

MatchOutbound(t) ==
    /\ t.pc = "getOutbound"
    /\ LET ks == Found("outbound", KeysAt(t.msg, t.msg.chain))
       IN  \/ \E k \in ks : GotoWith(t, "claimOutbound", store["outbound"][k])
           \/ ks = {} /\ Goto(t, "hopIn")
    /\ UNCHANGED <<untouched, store, notes>>

ClaimOutbound(t) ==
    /\ t.pc = "claimOutbound"
    /\ Del("outbound", ClaimedKeys(t.msg, t.got))
    /\ Notify(Received(t.got, t.msg))
    /\ Release(t)
    /\ UNCHANGED untouched

TryHopMatchOnInbound(t) ==
    /\ t.pc = "hopIn"
    /\ LET o == store["hop"][HopKey(t.msg, t.msg.chain)]
       IN  \/ o # None /\ Notify(Hop(o, t.msg)) /\ Release(t)
           \/ o = None /\ Goto(t, "put") /\ UNCHANGED notes
    /\ UNCHANGED <<untouched, store>>

(* The relay handler *)

MatchRelayed(t) ==
    /\ t.pc = "getRelayed"
    /\ LET found == {store["outbound"][RelayedIdKey(t.msg)],
                     store["hop"][RelayedHopKey(t.msg)]} \ {None}
       IN  \/ \E o \in found : GotoWith(t, "claimRelayed", o)
           \/ found = {} /\ Goto(t, "put")
    /\ UNCHANGED <<untouched, store, notes>>

ClaimRelayed(t) ==
    /\ t.pc = "claimRelayed"
    /\ Del("relay", {RelayedIdKey(t.msg), RelayedHopKey(t.msg)})
    /\ Notify(Relayed(t.got, t.msg))
    /\ Release(t)
    /\ UNCHANGED untouched

(* Storing what found no counterpart, and scheduling its clean-up *)

LastLeg(t) == t.msg.kind # "out" \/ t.leg = Len(t.msg.stops)

\* Variant: relay messages go to the inbound sublevel.
RelayWithInbound(t) ==
    IF t.msg.kind # "out" THEN "inbound"
    ELSE IF LastLeg(t) THEN "outbound" ELSE "hop"

TargetStore(t) ==
    CASE t.msg.kind = "in" -> "inbound"
      [] t.msg.kind = "relay" -> "relay"
      [] OTHER -> IF LastLeg(t) THEN "outbound" ELSE "hop"

TargetKeys(t) ==
    CASE t.msg.kind = "in" -> KeysAt(t.msg, t.msg.chain)
      [] t.msg.kind = "relay" -> {RelayKey(t.msg)}
      [] OTHER -> KeysAt(t.msg, t.msg.stops[t.leg])

StoreEntry(t) ==
    /\ t.pc = "put"
    /\ Put(TargetStore(t), TargetKeys(t), t.msg)
    /\ Goto(t, "schedule")
    /\ UNCHANGED <<untouched, notes>>

TasksOf(t) ==
    {[store |-> TargetStore(t), key |-> k, msg |-> t.msg, nth |-> t.nth,
      leg |-> t.leg] : k \in TargetKeys(t)}

\* Variant: the tasks of all legs are scheduled once, with the last one.
ScheduleLast(t) ==
    /\ t.pc = "schedule"
    /\ IF LastLeg(t) THEN Release(t) /\ tasks' = tasks \cup TasksOf(t)
       ELSE Become(t, [t EXCEPT !.pc = "put", !.leg = @ + 1]) /\ UNCHANGED tasks
    /\ UNCHANGED <<store, sweeps, seen, notes, live, clears, crashes>>

\* An outbound goes on with its next leg.
ScheduleSweep(t) ==
    /\ t.pc = "schedule"
    /\ tasks' = tasks \cup TasksOf(t)
    /\ IF LastLeg(t) THEN Release(t)
       ELSE Become(t, [t EXCEPT !.pc = "put", !.leg = @ + 1])
    /\ UNCHANGED <<store, sweeps, seen, notes, live, clears, crashes>>

HandlerStep(t) ==
    \/ FindRelayInbound(t) \/ ClaimRelay(t)
    \/ MatchHopOut(t) \/ AnnounceSent(t)
    \/ TryMatchOnOutbound(t) \/ ClaimInbound(t)
    \/ MatchOutbound(t) \/ ClaimOutbound(t) \/ TryHopMatchOnInbound(t)
    \/ MatchRelayed(t) \/ ClaimRelayed(t)
    \/ StoreEntry(t) \/ ScheduleSweep(t)
----------------------------------------------------------------------------
(* The scheduler and the janitor.  Time is left out: a task may be due at   *)
(* any moment after it was scheduled.                                       *)

\* The scheduler emits a due task; the janitor's listener is asynchronous and
\* is not awaited, and the task is deleted at once (but see Crash).
Dispatch(j) ==
    /\ tasks' = tasks \ {j}
    /\ sweeps' = sweeps \cup {[task |-> j, item |-> None]}
    /\ UNCHANGED <<store, running, seen, notes, live, clears, crashes>>

SweepGet(w) ==
    /\ w.item = None
    /\ LET m == store[w.task.store][w.task.key]
       IN  sweeps' = (sweeps \ {w}) \cup
               (IF m = None THEN {} ELSE {[w EXCEPT !.item = m]})
    /\ UNCHANGED <<store, tasks, running, seen, notes, live, clears, crashes>>

\* Variant: a swept outbound is dropped without a timeout.
SilentSweepDel(w) ==
    /\ w.item # None
    /\ Del(w.task.store, {w.task.key})
    /\ sweeps' = sweeps \ {w}
    /\ UNCHANGED <<notes, tasks, running, seen, live, clears, crashes>>

\* The item is deleted and the engine told of it: onXcmSwept.
SweepDel(w) ==
    /\ w.item # None
    /\ Del(w.task.store, {w.task.key})
    /\ sweeps' = sweeps \ {w}
    /\ IF w.task.store = "outbound" THEN Notify(Timeout(w.item))
       ELSE UNCHANGED notes
    /\ UNCHANGED <<tasks, running, seen, live, clears, crashes>>
----------------------------------------------------------------------------
(* Removal of a subscription: clearPendingStates, one sublevel at a time,   *)
(* each by a scan of its keys and a batch of deletions.                     *)

ClearOrder == <<"inbound", "outbound", "relay", "hop">>
Clear == [sub : Subs, at : 1..4, scanned : BOOLEAN, keys : SUBSET Keys]

Unsubscribe(s) ==
    /\ s \in live
    /\ live' = live \ {s}
    /\ clears' = clears \cup
           {[sub |-> s, at |-> 1, scanned |-> FALSE, keys |-> {}]}
    /\ UNCHANGED <<store, tasks, sweeps, running, seen, notes, crashes>>

\* Variant: the scan does not stop at the end of the prefix.
ClearScanAll(c) ==
    /\ ~c.scanned
    /\ clears' = (clears \ {c}) \cup
           {[c EXCEPT !.scanned = TRUE, !.keys = Found(ClearOrder[c.at], Keys)]}
    /\ UNCHANGED <<store, tasks, sweeps, running, seen, notes, live, crashes>>

ClearScan(c) ==
    /\ ~c.scanned
    /\ LET ks == {k \in Keys : k.sub \in Prefixed[c.sub]}
       IN  clears' = (clears \ {c}) \cup
               {[c EXCEPT !.scanned = TRUE, !.keys = Found(ClearOrder[c.at], ks)]}
    /\ UNCHANGED <<store, tasks, sweeps, running, seen, notes, live, crashes>>

ClearWrite(c) ==
    /\ c.scanned
    /\ Del(ClearOrder[c.at], c.keys)
    /\ clears' = (clears \ {c}) \cup
           (IF c.at = Len(ClearOrder) THEN {}
            ELSE {[c EXCEPT !.at = @ + 1, !.scanned = FALSE, !.keys = {}]})
    /\ UNCHANGED <<tasks, sweeps, running, seen, notes, live, crashes>>

\* The entries a handler is deleting before it notifies.
Claiming(t) ==
    CASE t.pc = "claimRelay" -> {"relay"} \X {RelayKey(t.msg)}
      [] t.pc = "claimInbound" -> {"inbound"} \X KeysAt(t.msg, t.msg.dest)
      [] t.pc = "claimOutbound" -> {"outbound"} \X ClaimedKeys(t.msg, t.got)
      [] t.pc = "claimRelayed" ->
             {"relay"} \X {RelayedIdKey(t.msg), RelayedHopKey(t.msg)}
      [] OTHER -> {}

Sweeping(w) == IF w.item = None THEN {} ELSE {<<w.task.store, w.task.key>>}

\* The process dies and starts again.  The database survives, and with it the
\* record of a subscription whose removal was under way.  A deletion may have
\* been written that was not notified yet, and the deletion of a dispatched task
\* may not have been written.
Crash ==
    /\ crashes < MaxCrash
    /\ crashes' = crashes + 1
    /\ \E written \in SUBSET ({Claiming(t) : t \in running} \cup {Sweeping(w) : w \in sweeps}) :
          store' = [s \in Stores |-> [k \in Keys |->
                        IF <<s, k>> \in UNION written THEN None ELSE store[s][k]]]
    /\ \E again \in {{}} \cup {{w.task} : w \in sweeps} : tasks' = tasks \cup again
    /\ running' = {}
    /\ sweeps' = {}
    /\ clears' = {}
    /\ live' = live \cup {c.sub : c \in clears}
    /\ UNCHANGED <<seen, notes>>
----------------------------------------------------------------------------
Handle == \E t \in running : HandlerStep(t)
RunScheduler == \E j \in tasks : Dispatch(j)
RunSweep == \E w \in sweeps : SweepGet(w) \/ SweepDel(w)
RunClear == \E c \in clears : ClearScan(c) \/ ClearWrite(c)

Next ==
    \/ \E m \in Msgs : Deliver(m)
    \/ Handle \/ RunScheduler \/ RunSweep \/ RunClear
    \/ \E s \in Removable : Unsubscribe(s)
    \/ Crash

Spec == Init /\ [][Next]_vars

\* The event loop completes every promise it started and the scheduler's loop
\* runs for as long as the process does; deliveries, removals and crashes are
\* up to the environment.
Fairness ==
    WF_vars(Handle) /\ WF_vars(RunScheduler) /\ WF_vars(RunSweep) /\ WF_vars(RunClear)

FairSpec == Spec /\ Fairness
----------------------------------------------------------------------------
(* Properties *)

Holds(s) ==
    CASE s = "inbound" -> Ins
      [] s = "relay" -> Relays
      [] OTHER -> Outs

StoreOK ==
    /\ store \in [Stores -> [Keys -> Msgs \cup {None}]]
    /\ \A s \in Stores, k \in Keys : store[s][k] \in Holds(s) \cup {None}

TypeOK ==
    /\ StoreOK
    /\ tasks \subseteq Task
    /\ sweeps \subseteq Sweep
    /\ running \subseteq Handler
    /\ seen \in [Msgs -> 0..MaxDeliver]
    /\ notes \in [Note -> Nat]
    /\ live \subseteq Subs
    /\ clears \subseteq Clear
    /\ crashes \in 0..MaxCrash

\* What each point of a handler knows of its message and of the counterpart.
HandlerOK(t) ==
    /\ t.pc \in {"findRelay", "claimRelay", "hopOut", "getInbound", "claimInbound"}
          => t.msg \in Outs
    /\ t.pc \in {"getOutbound", "claimOutbound", "hopIn"} => t.msg \in Ins
    /\ t.pc \in {"getRelayed", "claimRelayed"} => t.msg \in Relays
    /\ t.pc = "claimRelay" => t.got \in Relays
    /\ t.pc = "claimInbound" => t.got \in Ins
    /\ t.pc \in {"claimOutbound", "claimRelayed"} => t.got \in Outs
    /\ t.msg \in Outs => t.leg \in 1..Len(t.msg.stops)

\* The type invariant, strengthened to be inductive.
TypeInv ==
    /\ TypeOK
    /\ \A t \in running : HandlerOK(t)
    /\ \A w \in sweeps : w.item \in Holds(w.task.store) \cup {None}

\* A janitor task is pending for the entry, or a sweep is in flight that will
\* find it, or the handler that put it is about to schedule one.
Due(s, k) ==
    \/ \E j \in tasks : j.store = s /\ j.key = k
    \/ \E w \in sweeps : w.task.store = s /\ w.task.key = k
    \/ \E t \in running : t.pc = "schedule" /\ TargetStore(t) = s /\ k \in TargetKeys(t)

\* No entry is forgotten: as long as the process never crashed every stored
\* entry is due for a sweep, although the entry is put and its task scheduled in
\* two steps, and other handlers, sweeps and clearings work on the same keys.
EveryEntryIsDue ==
    crashes = 0 =>
        \A s \in Stores, k \in Keys : store[s][k] # None => Due(s, k)

\* A match is never missed: an outbound and an inbound never wait side by side
\* under one key, whatever the order they came in and whatever was swept,
\* cleared or lost in a crash in between ("it does not assume any ordering").
NoMissedMatch ==
    \A k \in Keys : store["outbound"][k] = None \/ store["inbound"][k] = None

\* A handler that is about to store saw no counterpart, and none came since.
SawNoCounterpart(t) ==
    /\ t.pc \in {"put", "schedule"} /\ t.msg \in Outs =>
          \A k \in KeysAt(t.msg, t.msg.dest) : store["inbound"][k] = None
    /\ t.pc \in {"hopIn", "put"} /\ t.msg \in Ins =>
          \A k \in KeysAt(t.msg, t.msg.chain) : store["outbound"][k] = None

\* NoMissedMatch, strengthened to be inductive (with TypeInv).
MatchInv ==
    /\ \A t, u \in running : t = u
    /\ \A t \in running : SawNoCounterpart(t)
    /\ NoMissedMatch

\* A relay message never waits beside the outbound it belongs to: neither in
\* #outbound at its recipient nor in #hop at the relay chain.
NoMissedRelay ==
    \A k \in Keys :
        LET r == store["relay"][k]
        IN  r # None =>
              \A o \in {store["outbound"][RelayedIdKey(r)],
                        store["hop"][RelayedHopKey(r)]} \ {None} :
                  o.origin # r.origin

\* A hop is recognised as long as what its origin stored by id did not expire: what
\* leaves an intermediate chain is not announced as sent, and what enters it is
\* not kept as if it had arrived (provided the origin is observed first, as the
\* engine assumes).
HopsAreRecognised ==
    \A j \in tasks : j.store = "hop" /\ j.key.ref = j.msg.id =>
        /\ \A o \in Outs :
              o.id # NoId /\ MatchingKey(o.sub, o.origin, o.id) = j.key =>
                  notes[Sent(o)] = 0
        /\ store["inbound"][j.key] = None

\* A handler or a sweep has o in hand: it will store it, report it received or report
\* it timed out.
Holding(t, o) ==
    \/ /\ t.msg = o
       /\ \/ t.pc \in {"getInbound", "claimInbound", "put"}
          \/ t.pc = "schedule" /\ ~LastLeg(t)
    \/ t.pc = "claimOutbound" /\ t.got = o

InHand(o) ==
    \/ \E t \in running : Holding(t, o)
    \/ \E w \in sweeps : w.task.store = "outbound" /\ w.item = o

\* Announced as sent to a subscription that is still there, and neither settled nor
\* waiting to be: nothing will ever be reported of it.
Lost(o) ==
    /\ o.sub \in live /\ notes[Sent(o)] > 0
    /\ notes[Timeout(o)] = 0 /\ \A i \in Ins : notes[Received(o, i)] = 0
    /\ \A k \in Keys : store["outbound"][k] # o
    /\ ~InHand(o)

\* Stored, matched or swept in place of o: another message under one of o's keys.
Displaced(o) ==
    \/ \E t \in running : StoreEntry(t) /\ t.msg # o
    \/ \E t \in running : ClaimOutbound(t) /\ t.got # o
    \/ \E w \in sweeps : SweepDel(w) /\ w.item # o

\* No message is lost in silence: as long as its subscription is there, what was
\* announced as sent stays stored, or in the hands of a handler or a sweep, until it is
\* received or times out - whichever other subscriptions are removed meanwhile, and
\* however handlers, sweeps and clearings interleave.  There are three exceptions.  The
\* process crashes; the subscription removed has an id that, with the separator, begins
\* this one's ("a" and "a:b": entries are cleared by textual prefix, and $SafeId allows
\* the separator); another message of the subscription has the same key, and one of the
\* two is stored over, matched for or swept with the other.
OnlyNeighboursLose ==
    [][\A o \in Outs : Lost(o)' /\ ~Lost(o) =>
          \/ crashes' > crashes
          \/ \E c \in clears : ClearWrite(c) /\ c.sub # o.sub /\ o.sub \in Prefixed[c.sub]
          \/ Displaced(o)]_vars

\* "Event emitted when an XCM is not received within a specified timeframe"
\* (types.ts:452): xcm.timeout follows xcm.received of the same message only when
\* its sweep read the entry before the handler deleted it; neither of the keys an
\* outbound is stored under is left behind to be swept later.
OnlyRacingSweepsContradict ==
    [][\A o \in Outs :
          notes'[Timeout(o)] > notes[Timeout(o)] =>
              \/ \A i \in Ins : notes[Received(o, i)] = 0
              \/ \E w \in sweeps : /\ SweepDel(w) /\ w.item = o
                                   /\ store["outbound"][w.task.key] # o]_vars

ReceivedBy(o) == SumFunction([i \in Ins |-> notes[Received(o, i)]])
ReceivedOf(i) == SumFunction([o \in Outs |-> notes[Received(o, i)]])

\* A delivered observation is matched at most once: no more xcm.received
\* notifications for an outbound than times it was observed leaving, and no
\* more for an inbound than times it was observed arriving.
ReceivedAtMostDelivered ==
    /\ \A o \in Outs : ReceivedBy(o) <= seen[o]
    /\ \A i \in Ins : ReceivedOf(i) <= seen[i]

\* Every message announced as sent is accounted for: an xcm.received or an
\* xcm.timeout of it follows (as long as nobody removes the subscription).
EverySentIsSettled ==
    \A o \in Outs :
        notes[Sent(o)] > 0 ~>
            \/ notes[Timeout(o)] > 0
            \/ \E i \in Ins : notes[Received(o, i)] > 0

=============================================================================
