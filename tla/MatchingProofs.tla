--------------------------- MODULE MatchingProofs ---------------------------
(***************************************************************************)
(* Proofs about Matching, for every set of subscriptions, chains, hashes,  *)
(* ids and observations, every number of deliveries and of crashes.        *)
(***************************************************************************)
EXTENDS Matching, TLAPS, FiniteSetTheorems, WellFoundedInduction

(* Messages and keys *)

\* The three kinds of observation are told apart by their kind field.
LEMMA KindsDiffer ==
    /\ \A m \in Outs : m.kind = "out"
    /\ \A m \in Ins : m.kind = "in"
    /\ \A m \in Relays : m.kind = "relay"
BY MessagesAssumption

\* The fields of an outbound.
LEMMA OutFields ==
    ASSUME NEW o \in Outs
    PROVE  /\ o.sub \in Subs /\ o.origin \in Chains /\ o.dest \in Chains
           /\ o.hash \in Refs /\ o.id \in Refs \cup {NoId}
           /\ o.stops \in Seq(Chains) /\ Len(o.stops) \in Nat \ {0}
           /\ o.stops[Len(o.stops)] = o.dest
BY MessagesAssumption

\* The fields of an inbound.
LEMMA InFields ==
    ASSUME NEW i \in Ins
    PROVE  i.sub \in Subs /\ i.chain \in Chains /\ i.hash \in Refs /\ i.id \in Refs
BY MessagesAssumption

\* The fields of a relay message.
LEMMA RelayFields ==
    ASSUME NEW r \in Relays
    PROVE  /\ r.sub \in Subs /\ r.origin \in Chains /\ r.recipient \in Chains
           /\ r.hash \in Refs /\ r.id \in Refs \cup {NoId}
BY MessagesAssumption

\* A matching key is a key.
LEMMA MatchingKeyType ==
    ASSUME NEW sub \in Subs, NEW chain \in Chains, NEW ref \in Refs
    PROVE  MatchingKey(sub, chain, ref) \in Keys
BY DEF MatchingKey, Keys

(* The database *)

\* What a put writes and what it leaves alone.
LEMMA PutLemma ==
    ASSUME StoreOK, NEW s \in Stores, NEW ks, NEW m \in Holds(s) \cup {None},
           Put(s, ks, m)
    PROVE  /\ StoreOK'
           /\ \A x \in Stores, k \in Keys :
                store'[x][k] = IF x = s /\ k \in ks THEN m ELSE store[x][k]
<1>1. m \in Msgs \cup {None}
  BY DEF Holds, Msgs
<1>2. \A x \in Stores, k \in Keys :
        store'[x][k] = IF x = s /\ k \in ks THEN m ELSE store[x][k]
  BY DEF Put, StoreOK
<1>3. store' \in [Stores -> [Keys -> Msgs \cup {None}]]
  BY <1>1 DEF Put, StoreOK
<1>4. \A x \in Stores, k \in Keys : store'[x][k] \in Holds(x) \cup {None}
  BY <1>2 DEF StoreOK
<1> QED
  BY <1>2, <1>3, <1>4 DEF StoreOK

\* What a deletion removes and what it leaves alone.
LEMMA DelLemma ==
    ASSUME StoreOK, NEW s \in Stores, NEW ks, Del(s, ks)
    PROVE  /\ StoreOK'
           /\ \A x \in Stores, k \in Keys :
                store'[x][k] = IF x = s /\ k \in ks THEN None ELSE store[x][k]
BY PutLemma DEF Del

\* Counting a notification keeps the type of the counters.
LEMMA NotifyLemma ==
    ASSUME notes \in [Note -> Nat], NEW n \in Note, Notify(n)
    PROVE  notes' \in [Note -> Nat]
BY DEF Notify

\* The notifications the handlers and the janitor emit.
LEMMA NoteTypes ==
    ASSUME NEW o \in Outs
    PROVE  /\ Sent(o) \in Note /\ Timeout(o) \in Note
           /\ \A i \in Ins : Received(o, i) \in Note
           /\ \A r \in Relays : Relayed(o, r) \in Note
           /\ \A m \in Outs \cup Ins : Hop(o, m) \in Note
<1>1. Sent(o) \in Note /\ Timeout(o) \in Note
  BY DEF Note
<1>2. ASSUME NEW i \in Ins PROVE Received(o, i) \in Note
  <2>1. Received(o, i) \in {Received(p[1], p[2]) : p \in Outs \X Ins}
    <3> <<o, i>> \in Outs \X Ins
      OBVIOUS
    <3> QED BY DEF Received
  <2> QED BY <2>1 DEF Note
<1>3. ASSUME NEW r \in Relays PROVE Relayed(o, r) \in Note
  <2>1. Relayed(o, r) \in {Relayed(p[1], p[2]) : p \in Outs \X Relays}
    <3> <<o, r>> \in Outs \X Relays
      OBVIOUS
    <3> QED BY DEF Relayed
  <2> QED BY <2>1 DEF Note
<1>4. ASSUME NEW m \in Outs \cup Ins PROVE Hop(o, m) \in Note
  <2>1. Hop(o, m) \in {Hop(p[1], p[2]) : p \in Outs \X (Outs \cup Ins)}
    <3> <<o, m>> \in Outs \X (Outs \cup Ins)
      OBVIOUS
    <3> QED BY DEF Hop
  <2> QED BY <2>1 DEF Note
<1> QED BY <1>1, <1>2, <1>3, <1>4

\* The reference a message is matched by is a hash or an id.
LEMMA RefType ==
    ASSUME NEW m, m.hash \in Refs, m.id \in Refs \cup {NoId}
    PROVE  Ref(m) \in Refs
BY ValuesAssumption DEF Ref

\* The keys a message is stored under are keys.
LEMMA KeysAtType ==
    ASSUME NEW m, m.sub \in Subs, m.hash \in Refs, m.id \in Refs \cup {NoId},
           NEW c \in Chains
    PROVE  KeysAt(m, c) \subseteq Keys
BY MatchingKeyType DEF KeysAt

\* The keys an outbound is looked up and stored by.
LEMMA OutKeys ==
    ASSUME NEW o \in Outs
    PROVE  /\ RelayKey(o) \in Keys
           /\ \A c \in Chains : KeysAt(o, c) \subseteq Keys
           /\ o.id # NoId => HopKey(o, o.origin) \in Keys
<1>1. RelayKey(o) \in Keys
  BY OutFields, RefType, MatchingKeyType DEF RelayKey
<1>2. \A c \in Chains : KeysAt(o, c) \subseteq Keys
  BY OutFields, KeysAtType
<1>3. o.id # NoId => HopKey(o, o.origin) \in Keys
  BY OutFields, MatchingKeyType DEF HopKey
<1> QED BY <1>1, <1>2, <1>3

\* The keys an inbound is looked up and stored by.
LEMMA InKeys ==
    ASSUME NEW i \in Ins
    PROVE  /\ KeysAt(i, i.chain) \subseteq Keys
           /\ HopKey(i, i.chain) \in Keys
BY InFields, KeysAtType, MatchingKeyType DEF HopKey

\* The keys a relay message is looked up and stored by.
LEMMA RelayKeys ==
    ASSUME NEW r \in Relays
    PROVE  /\ RelayKey(r) \in Keys
           /\ RelayedIdKey(r) \in Keys
           /\ RelayedHopKey(r) \in Keys
BY RelayFields, RefType, MatchingKeyType, ValuesAssumption
   DEF RelayKey, RelayedIdKey, RelayedHopKey

(* Handlers *)

\* Moving a handler on to another point.
LEMMA PcUpdate ==
    ASSUME NEW t \in Handler, NEW pc \in Pc, NEW m \in Msgs
    PROVE  /\ [t EXCEPT !.pc = pc] \in Handler
           /\ [t EXCEPT !.pc = pc, !.got = m] \in Handler
           /\ [t EXCEPT !.pc = pc].pc = pc
           /\ [t EXCEPT !.pc = pc].msg = t.msg
           /\ [t EXCEPT !.pc = pc].leg = t.leg
           /\ [t EXCEPT !.pc = pc].got = t.got
           /\ [t EXCEPT !.pc = pc, !.got = m].pc = pc
           /\ [t EXCEPT !.pc = pc, !.got = m].msg = t.msg
           /\ [t EXCEPT !.pc = pc, !.got = m].leg = t.leg
           /\ [t EXCEPT !.pc = pc, !.got = m].got = m
BY DEF Handler

\* Going on with another leg.
LEMMA LegUpdate ==
    ASSUME NEW t \in Handler, NEW n \in Nat
    PROVE  /\ [t EXCEPT !.pc = "put", !.leg = n] \in Handler
           /\ [t EXCEPT !.pc = "put", !.leg = n].pc = "put"
           /\ [t EXCEPT !.pc = "put", !.leg = n].msg = t.msg
           /\ [t EXCEPT !.pc = "put", !.leg = n].leg = n
BY DEF Handler, Pc

\* Going on with the next sublevel of a clearing.
LEMMA ClearUpdate ==
    ASSUME NEW c \in Clear, NEW n \in 1..4
    PROVE  [c EXCEPT !.at = n, !.scanned = FALSE, !.keys = {}] \in Clear
BY DEF Clear

\* Where a handler stores is a sublevel that holds messages of its kind, and
\* what it stores under are keys.
LEMMA TargetLemma ==
    ASSUME NEW t \in Handler, HandlerOK(t)
    PROVE  /\ TargetStore(t) \in Stores
           /\ t.msg \in Holds(TargetStore(t))
           /\ TargetKeys(t) \subseteq Keys
           /\ TargetStore(t) \in {"outbound", "hop"} <=> t.msg \in Outs
<1>1. CASE t.msg \in Outs
  <2>1. t.msg.kind = "out"
    BY <1>1, KindsDiffer
  <2>2. t.msg.stops[t.leg] \in Chains
    BY <1>1, OutFields DEF HandlerOK
  <2>3. TargetKeys(t) \subseteq Keys
    BY <1>1, <2>1, <2>2, OutKeys DEF TargetKeys
  <2>4. TargetStore(t) \in {"outbound", "hop"}
    BY <2>1 DEF TargetStore
  <2> QED BY <1>1, <2>3, <2>4 DEF Stores, Holds
<1>2. CASE t.msg \in Ins
  <2>1. t.msg.kind = "in"
    BY <1>2, KindsDiffer
  <2>2. t.msg \notin Outs
    BY <2>1, KindsDiffer
  <2>3. TargetStore(t) = "inbound"
    BY <2>1 DEF TargetStore
  <2>4. TargetKeys(t) \subseteq Keys
    BY <1>2, <2>1, InKeys DEF TargetKeys
  <2> QED BY <1>2, <2>2, <2>3, <2>4 DEF Stores, Holds
<1>3. CASE t.msg \in Relays
  <2>1. t.msg.kind = "relay"
    BY <1>3, KindsDiffer
  <2>2. t.msg \notin Outs
    BY <2>1, KindsDiffer
  <2>3. TargetStore(t) = "relay"
    BY <2>1 DEF TargetStore
  <2>4. TargetKeys(t) \subseteq Keys
    BY <1>3, <2>1, RelayKeys DEF TargetKeys
  <2> QED BY <1>3, <2>2, <2>3, <2>4 DEF Stores, Holds
<1> QED BY <1>1, <1>2, <1>3 DEF Handler, Msgs
\* A handler that moves on leaves the other handlers alone.
LEMMA BecomeLemma ==
    ASSUME TypeInv, NEW t \in running, NEW u \in Handler, HandlerOK(u), Become(t, u)
    PROVE  running' \subseteq Handler /\ \A x \in running' : HandlerOK(x)
BY DEF TypeInv, TypeOK, Become

\* So does a handler that ends.
LEMMA ReleaseLemma ==
    ASSUME TypeInv, NEW t \in running, Release(t)
    PROVE  running' \subseteq Handler /\ \A x \in running' : HandlerOK(x)
BY DEF TypeInv, TypeOK, Release

\* A step of a handler changes the database, the counters and the handler only.
LEMMA HandlerFrame ==
    ASSUME TypeInv, StoreOK', notes' \in [Note -> Nat], running' \subseteq Handler,
           \A x \in running' : HandlerOK(x), UNCHANGED untouched
    PROVE  TypeInv'
BY DEF TypeInv, TypeOK, untouched

\* The type of what a running handler holds.
LEMMA HandlerTypes ==
    ASSUME TypeInv, NEW t \in running
    PROVE  t \in Handler /\ HandlerOK(t) /\ t.msg \in Msgs /\ t.got \in Msgs
BY DEF TypeInv, TypeOK, Handler

\* The points of a handler that need no counterpart, by the kind of message.
MayGoto(m, pc) ==
    \/ m \in Outs /\ pc \in {"findRelay", "hopOut", "getInbound", "put", "schedule"}
    \/ m \in Ins /\ pc \in {"getOutbound", "hopIn", "put", "schedule"}
    \/ m \in Relays /\ pc \in {"getRelayed", "put", "schedule"}

\* The points that come with a counterpart.
MayGotoWith(m, pc, got) ==
    \/ m \in Outs /\ pc = "claimRelay" /\ got \in Relays
    \/ m \in Outs /\ pc = "claimInbound" /\ got \in Ins
    \/ m \in Ins /\ pc = "claimOutbound" /\ got \in Outs
    \/ m \in Relays /\ pc = "claimRelayed" /\ got \in Outs

\* A handler at a point that suits its message is well formed.
LEMMA HandlerOKLemma ==
    ASSUME NEW u, u.msg \in Outs => u.leg \in 1..Len(u.msg.stops),
           MayGoto(u.msg, u.pc) \/ MayGotoWith(u.msg, u.pc, u.got)
    PROVE  HandlerOK(u)
BY DEF HandlerOK, MayGoto, MayGotoWith

\* Goto keeps the handlers well formed.
LEMMA GotoType ==
    ASSUME TypeInv, NEW t \in running, NEW pc \in Pc, MayGoto(t.msg, pc), Goto(t, pc)
    PROVE  running' \subseteq Handler /\ \A x \in running' : HandlerOK(x)
<1> DEFINE u == [t EXCEPT !.pc = pc]
<1>1. t \in Handler /\ (t.msg \in Outs => t.leg \in 1..Len(t.msg.stops))
  BY HandlerTypes DEF HandlerOK
<1>2. u \in Handler /\ u.pc = pc /\ u.msg = t.msg /\ u.leg = t.leg
  BY <1>1, PcUpdate DEF Handler
<1>3. Become(t, u)
  BY DEF Goto
<1> HIDE DEF u
<1>4. HandlerOK(u)
  BY <1>1, <1>2, HandlerOKLemma
<1> QED BY <1>2, <1>3, <1>4, BecomeLemma

\* So does GotoWith.
LEMMA GotoWithType ==
    ASSUME TypeInv, NEW t \in running, NEW pc \in Pc, NEW m \in Msgs,
           MayGotoWith(t.msg, pc, m), GotoWith(t, pc, m)
    PROVE  running' \subseteq Handler /\ \A x \in running' : HandlerOK(x)
<1> DEFINE u == [t EXCEPT !.pc = pc, !.got = m]
<1>1. t \in Handler /\ (t.msg \in Outs => t.leg \in 1..Len(t.msg.stops))
  BY HandlerTypes DEF HandlerOK
<1>2. u \in Handler /\ u.pc = pc /\ u.msg = t.msg /\ u.leg = t.leg /\ u.got = m
  BY <1>1, PcUpdate DEF Handler
<1>3. Become(t, u)
  BY DEF GotoWith
<1> HIDE DEF u
<1>4. HandlerOK(u)
  BY <1>1, <1>2, HandlerOKLemma
<1> QED BY <1>2, <1>3, <1>4, BecomeLemma

\* A step that reads the database only.
LEMMA ReadFrame ==
    ASSUME TypeInv, UNCHANGED <<untouched, store>>, notes' \in [Note -> Nat],
           running' \subseteq Handler, \A x \in running' : HandlerOK(x)
    PROVE  TypeInv'
BY DEF TypeInv, TypeOK, untouched, StoreOK

\* Type correctness of the outbound handler.
LEMMA OutboundType ==
    ASSUME TypeInv, NEW t \in running,
           \/ FindRelayInbound(t) \/ ClaimRelay(t) \/ MatchHopOut(t)
           \/ AnnounceSent(t) \/ TryMatchOnOutbound(t) \/ ClaimInbound(t)
    PROVE  TypeInv'
<1>t. t \in Handler /\ HandlerOK(t)
  BY HandlerTypes
<1>0. StoreOK /\ notes \in [Note -> Nat] /\ t.msg \in Outs
  BY <1>t DEF TypeInv, TypeOK, HandlerOK, FindRelayInbound, ClaimRelay, MatchHopOut,
         AnnounceSent, TryMatchOnOutbound, ClaimInbound
<1>k. RelayKey(t.msg) \in Keys /\ KeysAt(t.msg, t.msg.dest) \subseteq Keys
  BY <1>0, OutKeys, OutFields
<1>g. \A pc \in {"hopOut", "getInbound", "put"} : pc \in Pc /\ MayGoto(t.msg, pc)
  BY <1>0 DEF Pc, MayGoto
<1>1. CASE FindRelayInbound(t)
  <2> DEFINE r == store["relay"][RelayKey(t.msg)]
  <2>0. UNCHANGED <<untouched, store>> /\ notes' = notes
    BY <1>1 DEF FindRelayInbound
  <2>1. r \in Relays \cup {None}
    BY <1>0, <1>k DEF StoreOK, Stores, Holds
  <2>2. CASE r # None
    <3>1. GotoWith(t, "claimRelay", r)
      BY <1>1, <2>2 DEF FindRelayInbound
    <3>2. r \in Msgs /\ MayGotoWith(t.msg, "claimRelay", r)
      BY <1>0, <2>1, <2>2 DEF Msgs, MayGotoWith
    <3> QED BY <1>0, <2>0, <3>1, <3>2, GotoWithType, ReadFrame DEF Pc
  <2>3. CASE r = None
    <3>1. Goto(t, "hopOut")
      BY <1>1, <2>3 DEF FindRelayInbound
    <3> QED BY <1>0, <1>g, <2>0, <3>1, GotoType, ReadFrame
  <2> QED BY <2>2, <2>3
<1>2. CASE ClaimRelay(t)
  <2>1. t.got \in Relays
    BY <1>t, <1>2 DEF ClaimRelay, HandlerOK
  <2>2. notes' \in [Note -> Nat]
    BY <1>0, <1>2, <2>1, NoteTypes, NotifyLemma DEF ClaimRelay
  <2>3. StoreOK'
    BY <1>0, <1>2, DelLemma DEF ClaimRelay, Stores
  <2>4. Goto(t, "hopOut") /\ UNCHANGED untouched
    BY <1>2 DEF ClaimRelay
  <2> QED BY <1>g, <2>2, <2>3, <2>4, GotoType, HandlerFrame
<1>3. CASE MatchHopOut(t)
  <2> DEFINE o == store["hop"][HopKey(t.msg, t.msg.origin)]
  <2>1. o # None /\ Notify(Hop(o, t.msg)) /\ t.msg.id # NoId
    BY <1>3 DEF MatchHopOut
  <2>2. o \in Outs
    BY <1>0, <2>1, OutKeys DEF StoreOK, Stores, Holds
  <2>3. notes' \in [Note -> Nat]
    BY <1>0, <2>1, <2>2, NoteTypes, NotifyLemma
  <2>4. Release(t) /\ UNCHANGED <<untouched, store>>
    BY <1>3 DEF MatchHopOut
  <2> QED BY <2>3, <2>4, ReleaseLemma, ReadFrame
<1>4. CASE AnnounceSent(t)
  <2>1. notes' \in [Note -> Nat]
    BY <1>0, <1>4, NoteTypes, NotifyLemma DEF AnnounceSent
  <2>2. Goto(t, "getInbound") /\ UNCHANGED <<untouched, store>>
    BY <1>4 DEF AnnounceSent
  <2> QED BY <1>g, <2>1, <2>2, GotoType, ReadFrame
<1>5. CASE TryMatchOnOutbound(t)
  <2>0. UNCHANGED <<untouched, store>> /\ notes' = notes
    BY <1>5 DEF TryMatchOnOutbound
  <2>1. CASE Goto(t, "put")
    BY <1>0, <1>g, <2>0, <2>1, GotoType, ReadFrame
  <2>2. CASE ~Goto(t, "put")
    <3>1. PICK k \in Found("inbound", KeysAt(t.msg, t.msg.dest)) :
            GotoWith(t, "claimInbound", store["inbound"][k])
      BY <1>5, <2>2 DEF TryMatchOnOutbound
    <3> DEFINE i == store["inbound"][k]
    <3>2. i \in Ins /\ i \in Msgs
      BY <1>0, <1>k DEF Found, StoreOK, Stores, Holds, Msgs
    <3>3. MayGotoWith(t.msg, "claimInbound", i)
      BY <1>0, <3>2 DEF MayGotoWith
    <3> QED BY <1>0, <2>0, <3>1, <3>2, <3>3, GotoWithType, ReadFrame DEF Pc
  <2> QED BY <2>1, <2>2
<1>6. CASE ClaimInbound(t)
  <2>1. t.got \in Ins
    BY <1>t, <1>6 DEF ClaimInbound, HandlerOK
  <2>2. notes' \in [Note -> Nat]
    BY <1>0, <1>6, <2>1, NoteTypes, NotifyLemma DEF ClaimInbound
  <2>3. StoreOK'
    BY <1>0, <1>6, DelLemma DEF ClaimInbound, Stores
  <2>4. Release(t) /\ UNCHANGED untouched
    BY <1>6 DEF ClaimInbound
  <2> QED BY <2>2, <2>3, <2>4, ReleaseLemma, HandlerFrame
<1> QED BY <1>1, <1>2, <1>3, <1>4, <1>5, <1>6
\* Type correctness of the inbound handler.
LEMMA InboundType ==
    ASSUME TypeInv, NEW t \in running,
           MatchOutbound(t) \/ ClaimOutbound(t) \/ TryHopMatchOnInbound(t)
    PROVE  TypeInv'
<1>t. t \in Handler /\ HandlerOK(t)
  BY HandlerTypes
<1>0. StoreOK /\ notes \in [Note -> Nat] /\ t.msg \in Ins
  BY <1>t DEF TypeInv, TypeOK, HandlerOK, MatchOutbound, ClaimOutbound,
         TryHopMatchOnInbound
<1>k. KeysAt(t.msg, t.msg.chain) \subseteq Keys /\ HopKey(t.msg, t.msg.chain) \in Keys
  BY <1>0, InKeys
<1>g. \A pc \in {"hopIn", "put"} : pc \in Pc /\ MayGoto(t.msg, pc)
  BY <1>0 DEF Pc, MayGoto
<1>1. CASE MatchOutbound(t)
  <2>0. UNCHANGED <<untouched, store>> /\ notes' = notes
    BY <1>1 DEF MatchOutbound
  <2>1. CASE Goto(t, "hopIn")
    BY <1>0, <1>g, <2>0, <2>1, GotoType, ReadFrame
  <2>2. CASE ~Goto(t, "hopIn")
    <3>1. PICK k \in Found("outbound", KeysAt(t.msg, t.msg.chain)) :
            GotoWith(t, "claimOutbound", store["outbound"][k])
      BY <1>1, <2>2 DEF MatchOutbound
    <3> DEFINE o == store["outbound"][k]
    <3>2. o \in Outs /\ o \in Msgs
      BY <1>0, <1>k DEF Found, StoreOK, Stores, Holds, Msgs
    <3>3. MayGotoWith(t.msg, "claimOutbound", o)
      BY <1>0, <3>2 DEF MayGotoWith
    <3> QED BY <1>0, <2>0, <3>1, <3>2, <3>3, GotoWithType, ReadFrame DEF Pc
  <2> QED BY <2>1, <2>2
<1>2. CASE ClaimOutbound(t)
  <2>1. t.got \in Outs
    BY <1>t, <1>2 DEF ClaimOutbound, HandlerOK
  <2>2. notes' \in [Note -> Nat]
    BY <1>0, <1>2, <2>1, NoteTypes, NotifyLemma DEF ClaimOutbound
  <2>3. StoreOK'
    BY <1>0, <1>2, DelLemma DEF ClaimOutbound, Stores
  <2>4. Release(t) /\ UNCHANGED untouched
    BY <1>2 DEF ClaimOutbound
  <2> QED BY <2>2, <2>3, <2>4, ReleaseLemma, HandlerFrame
<1>3. CASE TryHopMatchOnInbound(t)
  <2> DEFINE o == store["hop"][HopKey(t.msg, t.msg.chain)]
  <2>0. UNCHANGED <<untouched, store>>
    BY <1>3 DEF TryHopMatchOnInbound
  <2>1. CASE o # None
    <3>1. Notify(Hop(o, t.msg)) /\ Release(t)
      BY <1>3, <2>1 DEF TryHopMatchOnInbound
    <3>2. o \in Outs
      BY <1>0, <1>k, <2>1 DEF StoreOK, Stores, Holds
    <3>3. notes' \in [Note -> Nat]
      BY <1>0, <3>1, <3>2, NoteTypes, NotifyLemma
    <3> QED BY <2>0, <3>1, <3>3, ReleaseLemma, ReadFrame
  <2>2. CASE o = None
    <3>1. Goto(t, "put") /\ notes' = notes
      BY <1>3, <2>2 DEF TryHopMatchOnInbound
    <3> QED BY <1>0, <1>g, <2>0, <3>1, GotoType, ReadFrame
  <2> QED BY <2>1, <2>2
<1> QED BY <1>1, <1>2, <1>3

\* Type correctness of the relay handler.
LEMMA RelayType ==
    ASSUME TypeInv, NEW t \in running, MatchRelayed(t) \/ ClaimRelayed(t)
    PROVE  TypeInv'
<1>t. t \in Handler /\ HandlerOK(t)
  BY HandlerTypes
<1>0. StoreOK /\ notes \in [Note -> Nat] /\ t.msg \in Relays
  BY <1>t DEF TypeInv, TypeOK, HandlerOK, MatchRelayed, ClaimRelayed
<1>1. CASE MatchRelayed(t)
  <2> DEFINE found == {store["outbound"][RelayedIdKey(t.msg)],
                       store["hop"][RelayedHopKey(t.msg)]} \ {None}
  <2>0. UNCHANGED <<untouched, store>> /\ notes' = notes
    BY <1>1 DEF MatchRelayed
  <2>1. found \subseteq Outs
    BY <1>0, RelayKeys DEF StoreOK, Stores, Holds
  <2>2. CASE found = {}
    <3>1. Goto(t, "put") /\ MayGoto(t.msg, "put") /\ "put" \in Pc
      BY <1>0, <1>1, <2>2 DEF MatchRelayed, MayGoto, Pc
    <3> QED BY <1>0, <2>0, <3>1, GotoType, ReadFrame
  <2>3. CASE found # {}
    <3>1. PICK o \in found : GotoWith(t, "claimRelayed", o)
      BY <1>1, <2>3 DEF MatchRelayed
    <3>2. o \in Msgs /\ MayGotoWith(t.msg, "claimRelayed", o)
      BY <1>0, <2>1 DEF Msgs, MayGotoWith
    <3> QED BY <1>0, <2>0, <3>1, <3>2, GotoWithType, ReadFrame DEF Pc
  <2> QED BY <2>2, <2>3
<1>2. CASE ClaimRelayed(t)
  <2>1. t.got \in Outs
    BY <1>t, <1>2 DEF ClaimRelayed, HandlerOK
  <2>2. notes' \in [Note -> Nat]
    BY <1>0, <1>2, <2>1, NoteTypes, NotifyLemma DEF ClaimRelayed
  <2>3. StoreOK'
    BY <1>0, <1>2, DelLemma DEF ClaimRelayed, Stores
  <2>4. Release(t) /\ UNCHANGED untouched
    BY <1>2 DEF ClaimRelayed
  <2> QED BY <2>2, <2>3, <2>4, ReleaseLemma, HandlerFrame
<1> QED BY <1>1, <1>2

\* The tasks a handler schedules are tasks.
LEMMA TasksOfType ==
    ASSUME NEW t \in Handler, HandlerOK(t)
    PROVE  TasksOf(t) \subseteq Task
BY TargetLemma DEF TasksOf, Task, Handler

\* Type correctness of storing an entry and of scheduling its sweep.
LEMMA StoringType ==
    ASSUME TypeInv, NEW t \in running, StoreEntry(t) \/ ScheduleSweep(t)
    PROVE  TypeInv'
<1>t. t \in Handler /\ HandlerOK(t)
  BY HandlerTypes
<1>0. StoreOK /\ notes \in [Note -> Nat]
  BY DEF TypeInv, TypeOK
<1>1. CASE StoreEntry(t)
  <2>1. StoreOK'
    BY <1>t, <1>0, <1>1, TargetLemma, PutLemma DEF StoreEntry
  <2>2. "schedule" \in Pc /\ MayGoto(t.msg, "schedule")
    BY <1>t DEF Pc, MayGoto, Handler, Msgs
  <2>3. Goto(t, "schedule") /\ UNCHANGED <<untouched, notes>>
    BY <1>1 DEF StoreEntry
  <2> QED BY <1>0, <2>1, <2>2, <2>3, GotoType, HandlerFrame
<1>2. CASE ScheduleSweep(t)
  <2>1. tasks' \subseteq Task
    BY <1>t, <1>2, TasksOfType DEF ScheduleSweep, TypeInv, TypeOK
  <2>2. running' \subseteq Handler /\ \A x \in running' : HandlerOK(x)
    <3>1. CASE LastLeg(t)
      BY <1>2, <3>1, ReleaseLemma DEF ScheduleSweep
    <3>2. CASE ~LastLeg(t)
      <4> DEFINE u == [t EXCEPT !.pc = "put", !.leg = @ + 1]
      <4>1. t.msg \in Outs /\ t.leg \in 1..Len(t.msg.stops) /\ t.leg # Len(t.msg.stops)
        BY <1>t, <3>2, KindsDiffer DEF LastLeg, Handler, Msgs, HandlerOK
      <4>2. Len(t.msg.stops) \in Nat
        BY <4>1, OutFields
      <4>3. u \in Handler /\ u.pc = "put" /\ u.msg = t.msg /\ u.leg = t.leg + 1
        <5>1. t.leg + 1 \in Nat
          BY <1>t DEF Handler
        <5> QED BY <1>t, <5>1, LegUpdate
      <4>4. Become(t, u)
        BY <1>2, <3>2 DEF ScheduleSweep
      <4> HIDE DEF u
      <4>5. HandlerOK(u)
        BY <4>1, <4>2, <4>3, HandlerOKLemma DEF MayGoto
      <4> QED BY <4>3, <4>4, <4>5, BecomeLemma
    <3> QED BY <3>1, <3>2
  <2> QED BY <1>2, <2>1, <2>2 DEF ScheduleSweep, TypeInv, TypeOK, StoreOK
<1> QED BY <1>1, <1>2

\* Type correctness of the scheduler and the janitor.
LEMMA SweepType ==
    ASSUME TypeInv, RunScheduler \/ RunSweep
    PROVE  TypeInv'
<1>0. StoreOK /\ notes \in [Note -> Nat] /\ sweeps \subseteq Sweep /\ tasks \subseteq Task
  BY DEF TypeInv, TypeOK
<1>1. ASSUME NEW j \in tasks, Dispatch(j) PROVE TypeInv'
  <2>1. sweeps' \subseteq Sweep /\ \A w \in sweeps' : w.item \in Holds(w.task.store) \cup {None}
    BY <1>0, <1>1 DEF Dispatch, TypeInv, Sweep
  <2> QED BY <1>1, <2>1 DEF Dispatch, TypeInv, TypeOK, StoreOK
<1>2. ASSUME NEW w \in sweeps, SweepGet(w) PROVE TypeInv'
  <2> DEFINE m == store[w.task.store][w.task.key]
  <2>1. w \in Sweep /\ w.task.store \in Stores /\ w.task.key \in Keys
    BY <1>0 DEF Sweep, Task
  <2>2. m \in Holds(w.task.store) \cup {None} /\ m \in Msgs \cup {None}
    BY <1>0, <2>1 DEF StoreOK
  <2> HIDE DEF m
  <2>3. [w EXCEPT !.item = m] \in Sweep /\ [w EXCEPT !.item = m].item = m
        /\ [w EXCEPT !.item = m].task = w.task
    BY <2>1, <2>2 DEF Sweep
  <2>4. sweeps' \subseteq sweeps \cup {[w EXCEPT !.item = m]}
    BY <1>2 DEF SweepGet, m
  <2>5. sweeps' \subseteq Sweep /\ \A x \in sweeps' : x.item \in Holds(x.task.store) \cup {None}
    BY <1>0, <2>2, <2>3, <2>4 DEF TypeInv
  <2> QED BY <1>2, <2>5 DEF SweepGet, TypeInv, TypeOK, StoreOK
<1>3. ASSUME NEW w \in sweeps, SweepDel(w) PROVE TypeInv'
  <2>1. w.task.store \in Stores
    BY <1>0 DEF Sweep, Task
  <2>2. StoreOK'
    BY <1>0, <1>3, <2>1, DelLemma DEF SweepDel
  <2>3. notes' \in [Note -> Nat]
    <3>1. CASE w.task.store = "outbound"
      <4>1. w.item \in Outs
        BY <1>3, <3>1 DEF SweepDel, TypeInv, Holds
      <4> QED BY <1>0, <1>3, <3>1, <4>1, NoteTypes, NotifyLemma DEF SweepDel
    <3>2. CASE w.task.store # "outbound"
      BY <1>0, <1>3, <3>2 DEF SweepDel
    <3> QED BY <3>1, <3>2
  <2> QED BY <1>3, <2>2, <2>3 DEF SweepDel, TypeInv, TypeOK
<1> QED BY <1>1, <1>2, <1>3 DEF RunScheduler, RunSweep

\* Type correctness of the clearing of a subscription.
LEMMA ClearType ==
    ASSUME TypeInv, RunClear
    PROVE  TypeInv'
<1>0. StoreOK /\ clears \subseteq Clear
  BY DEF TypeInv, TypeOK
<1>1. ASSUME NEW c \in clears, ClearScan(c) PROVE TypeInv'
  <2>1. c \in Clear
    BY <1>0
  <2> DEFINE ks == Found(ClearOrder[c.at], {k \in Keys : k.sub \in Prefixed[c.sub]})
  <2>2. ks \subseteq Keys
    BY DEF Found
  <2>3. clears' = (clears \ {c}) \cup {[c EXCEPT !.scanned = TRUE, !.keys = ks]}
    BY <1>1 DEF ClearScan
  <2> HIDE DEF ks
  <2>4. clears' \subseteq Clear
    BY <1>0, <2>1, <2>2, <2>3 DEF Clear
  <2> QED BY <1>1, <2>4 DEF ClearScan, TypeInv, TypeOK, StoreOK
<1>2. ASSUME NEW c \in clears, ClearWrite(c) PROVE TypeInv'
  <2>1. c \in Clear /\ c.at \in 1..4
    BY <1>0 DEF Clear
  <2>2. Len(ClearOrder) = 4 /\ ClearOrder[c.at] \in Stores
    BY <2>1 DEF ClearOrder, Stores
  <2>3. StoreOK'
    BY <1>0, <1>2, <2>2, DelLemma DEF ClearWrite
  <2>4. clears' \subseteq Clear
    <3>1. CASE c.at = 4
      BY <1>0, <1>2, <2>2, <3>1 DEF ClearWrite
    <3>2. CASE c.at # 4
      <4>1. [c EXCEPT !.at = @ + 1, !.scanned = FALSE, !.keys = {}] \in Clear
        <5>1. c.at + 1 \in 1..4
          BY <2>1, <3>2
        <5> QED BY <2>1, <5>1, ClearUpdate
      <4> QED BY <1>0, <1>2, <2>2, <3>2, <4>1 DEF ClearWrite
    <3> QED BY <3>1, <3>2
  <2> QED BY <1>2, <2>3, <2>4 DEF ClearWrite, TypeInv, TypeOK
<1> QED BY <1>1, <1>2 DEF RunClear

\* No entry appears or changes; some may go.
Shrinks ==
    \A s \in Stores, k \in Keys : store'[s][k] \in {store[s][k], None}

\* A crash may lose entries whose deletion was under way, and no others appear.
LEMMA CrashShrinks ==
    ASSUME StoreOK, Crash
    PROVE  StoreOK' /\ Shrinks
<1>1. PICK W : store' = [s \in Stores |-> [k \in Keys |->
                   IF <<s, k>> \in W THEN None ELSE store[s][k]]]
  BY DEF Crash
<1>2. \A s \in Stores, k \in Keys :
        store'[s][k] = IF <<s, k>> \in W THEN None ELSE store[s][k]
  BY <1>1
<1>3. store' \in [Stores -> [Keys -> Msgs \cup {None}]]
  BY <1>1 DEF StoreOK
<1> QED BY <1>2, <1>3 DEF StoreOK, Shrinks

\* Type correctness of the environment's steps.
LEMMA EnvironmentType ==
    ASSUME TypeInv,
           \/ \E m \in Msgs : Deliver(m)
           \/ \E s \in Removable : Unsubscribe(s)
           \/ Crash
    PROVE  TypeInv'
<1>1. ASSUME NEW m \in Msgs, Deliver(m) PROVE TypeInv'
  <2> DEFINE u == [pc |-> EntryPoint(m), msg |-> m, nth |-> seen[m] + 1,
                   leg |-> 1, got |-> m]
  <2>1. seen[m] \in 0..MaxDeliver /\ seen[m] < MaxDeliver /\ MaxDeliver \in Nat
    BY <1>1, ValuesAssumption DEF TypeInv, TypeOK, Deliver
  <2>2. seen' \in [Msgs -> 0..MaxDeliver]
    BY <1>1, <2>1 DEF TypeInv, TypeOK, Deliver
  <2>3. EntryPoint(m) \in Pc /\ MayGoto(m, EntryPoint(m))
    BY KindsDiffer DEF EntryPoint, MayGoto, Msgs, Pc
  <2>4. u \in Handler
    BY <2>1, <2>3 DEF Handler
  <2>5. m \in Outs => 1 \in 1..Len(m.stops)
    BY OutFields
  <2>6. HandlerOK(u)
    BY <2>3, <2>5, HandlerOKLemma
  <2>7. running' = running \cup {u}
    BY <1>1 DEF Deliver
  <2> HIDE DEF u
  <2> QED BY <1>1, <2>2, <2>4, <2>6, <2>7 DEF Deliver, TypeInv, TypeOK, StoreOK
<1>2. ASSUME NEW s \in Removable, Unsubscribe(s) PROVE TypeInv'
  <2>1. s \in Subs
    BY ValuesAssumption
  <2>2. [sub |-> s, at |-> 1, scanned |-> FALSE, keys |-> {}] \in Clear
    BY <2>1 DEF Clear
  <2> QED BY <1>2, <2>2 DEF Unsubscribe, TypeInv, TypeOK, StoreOK
<1>3. ASSUME Crash PROVE TypeInv'
  <2>1. crashes' \in 0..MaxCrash
    BY <1>3, ValuesAssumption DEF Crash, TypeInv, TypeOK
  <2>2. live' \subseteq Subs
    BY <1>3 DEF Crash, TypeInv, TypeOK, Clear
  <2>3. StoreOK'
    BY <1>3, CrashShrinks DEF TypeInv, TypeOK
  <2>4. tasks' \subseteq Task
    BY <1>3 DEF Crash, TypeInv, TypeOK, Sweep
  <2> QED BY <1>3, <2>1, <2>2, <2>3, <2>4 DEF Crash, TypeInv, TypeOK
<1> QED BY <1>1, <1>2, <1>3

\* The strengthened type invariant holds initially and is kept by every step.
LEMMA TypeInductive ==
    /\ Init => TypeInv
    /\ TypeInv /\ [Next]_vars => TypeInv'
<1>1. Init => TypeInv
  BY ValuesAssumption DEF Init, TypeInv, TypeOK, StoreOK, Stores
<1>2. ASSUME TypeInv, Next PROVE TypeInv'
  <2>1. ASSUME Handle PROVE TypeInv'
    <3>1. PICK t \in running : HandlerStep(t)
      BY <2>1 DEF Handle
    <3> QED BY <1>2, <3>1, OutboundType, InboundType, RelayType, StoringType
            DEF HandlerStep
  <2> QED BY <1>2, <2>1, SweepType, ClearType, EnvironmentType DEF Next
<1>3. ASSUME TypeInv, UNCHANGED vars PROVE TypeInv'
  BY <1>3 DEF vars, TypeInv, TypeOK, StoreOK
<1> QED BY <1>1, <1>2, <1>3

\* Every variable keeps its type: the sublevels hold the kind of observation
\* they are declared for in the engine's constructor, tasks and sweeps refer to
\* entries that can exist.
THEOREM TypeCorrect == Spec => []TypeOK
<1>1. TypeInv => TypeOK
  BY DEF TypeInv
<1> QED BY <1>1, TypeInductive, PTL DEF Spec
(* What a step does to the entries and to the handlers *)

\* A deletion only shrinks the stores.
LEMMA DelShrinks ==
    ASSUME StoreOK, NEW s \in Stores, NEW ks, Del(s, ks)
    PROVE  Shrinks
BY DelLemma DEF Shrinks

\* Only StoreEntry adds entries.
LEMMA HandlerShrinks ==
    ASSUME TypeInv, NEW t \in running, HandlerStep(t), ~StoreEntry(t)
    PROVE  Shrinks
<1>0. StoreOK
  BY DEF TypeInv, TypeOK
<1>1. CASE store' = store
  BY <1>1 DEF Shrinks
<1>2. CASE ClaimRelay(t)
  BY <1>0, <1>2, DelShrinks DEF ClaimRelay, Stores
<1>3. CASE ClaimInbound(t)
  BY <1>0, <1>3, DelShrinks DEF ClaimInbound, Stores
<1>4. CASE ClaimOutbound(t)
  BY <1>0, <1>4, DelShrinks DEF ClaimOutbound, Stores
<1>5. CASE ClaimRelayed(t)
  BY <1>0, <1>5, DelShrinks DEF ClaimRelayed, Stores
<1> QED
  BY <1>1, <1>2, <1>3, <1>4, <1>5
     DEF HandlerStep, FindRelayInbound, MatchHopOut, AnnounceSent, TryMatchOnOutbound,
         MatchOutbound, TryHopMatchOnInbound, MatchRelayed, ScheduleSweep

\* Neither do the steps outside the handlers.
LEMMA OtherShrinks ==
    ASSUME TypeInv, Next, ~Handle
    PROVE  Shrinks
<1>0. StoreOK /\ sweeps \subseteq Sweep /\ clears \subseteq Clear
  BY DEF TypeInv, TypeOK
<1>1. CASE store' = store
  BY <1>1 DEF Shrinks
<1>2. ASSUME NEW w \in sweeps, SweepDel(w) PROVE Shrinks
  BY <1>0, <1>2, DelShrinks DEF SweepDel, Sweep, Task
<1>3. ASSUME NEW c \in clears, ClearWrite(c) PROVE Shrinks
  <2>1. ClearOrder[c.at] \in Stores
    BY <1>0 DEF Clear, ClearOrder, Stores
  <2> QED BY <1>0, <1>3, <2>1, DelShrinks DEF ClearWrite
<1>4. CASE Crash
  BY <1>0, <1>4, CrashShrinks
<1> QED
  BY <1>1, <1>2, <1>3, <1>4 DEF Next, RunScheduler, RunSweep, RunClear, Deliver,
     Unsubscribe, Dispatch, SweepGet, ClearScan

\* Where a handler goes from where it is.
Moves(t, u) ==
    /\ u.msg = t.msg
    /\ \/ u.pc \notin {"hopIn", "put", "schedule"}
       \/ /\ t.pc = "getInbound" /\ u.pc = "put" /\ t.msg \in Outs
          /\ Found("inbound", KeysAt(t.msg, t.msg.dest)) = {}
       \/ /\ t.pc = "getOutbound" /\ u.pc = "hopIn" /\ t.msg \in Ins
          /\ Found("outbound", KeysAt(t.msg, t.msg.chain)) = {}
       \/ t.pc = "hopIn" /\ u.pc = "put" /\ t.msg \in Ins
       \/ t.pc = "getRelayed" /\ u.pc = "put" /\ t.msg \in Relays
       \/ t.pc = "put" /\ u.pc = "schedule"
       \/ t.pc = "schedule" /\ u.pc = "put" /\ t.msg \in Outs

\* Every handler step ends the handler or moves it on.
LEMMA HandlerMoves ==
    ASSUME TypeInv, NEW t \in running, HandlerStep(t)
    PROVE  Release(t) \/ \E u : Moves(t, u) /\ Become(t, u)
<1>t. t \in Handler /\ HandlerOK(t) /\ t.msg \in Msgs
  BY HandlerTypes
<1>a. \A pc \in Pc : [t EXCEPT !.pc = pc].pc = pc /\ [t EXCEPT !.pc = pc].msg = t.msg
  BY <1>t, PcUpdate DEF Handler
<1>c. ASSUME NEW pc \in Pc, Goto(t, pc), pc \notin {"hopIn", "put", "schedule"}
      PROVE  \E u : Moves(t, u) /\ Become(t, u)
  BY <1>a, <1>c DEF Goto, Moves
<1>d. ASSUME NEW pc \in Pc, NEW m, GotoWith(t, pc, m), pc \notin {"hopIn", "put", "schedule"}
      PROVE  \E u : Moves(t, u) /\ Become(t, u)
  <2> DEFINE u == [t EXCEPT !.pc = pc, !.got = m]
  <2>1. u.pc = pc /\ u.msg = t.msg
    BY <1>t DEF Handler
  <2>2. Become(t, u)
    BY <1>d DEF GotoWith
  <2> HIDE DEF u
  <2> QED BY <1>d, <2>1, <2>2 DEF Moves
<1>1. CASE FindRelayInbound(t) \/ ClaimRelay(t) \/ AnnounceSent(t)
  BY <1>1, <1>c, <1>d DEF FindRelayInbound, ClaimRelay, AnnounceSent, Pc
<1>2. CASE \/ MatchHopOut(t) \/ ClaimInbound(t) \/ ClaimOutbound(t) \/ ClaimRelayed(t)
  BY <1>2 DEF MatchHopOut, ClaimInbound, ClaimOutbound, ClaimRelayed
<1>3. CASE TryMatchOnOutbound(t)
  <2>1. CASE Goto(t, "put") /\ Found("inbound", KeysAt(t.msg, t.msg.dest)) = {}
    BY <1>t, <1>a, <1>3, <2>1 DEF TryMatchOnOutbound, Goto, Moves, Pc, HandlerOK
  <2> QED BY <1>3, <1>d, <2>1 DEF TryMatchOnOutbound, Pc
<1>4. CASE MatchOutbound(t)
  <2>1. CASE Goto(t, "hopIn") /\ Found("outbound", KeysAt(t.msg, t.msg.chain)) = {}
    BY <1>t, <1>a, <1>4, <2>1 DEF MatchOutbound, Goto, Moves, Pc, HandlerOK
  <2> QED BY <1>4, <1>d, <2>1 DEF MatchOutbound, Pc
<1>5. CASE TryHopMatchOnInbound(t)
  BY <1>t, <1>a, <1>5 DEF TryHopMatchOnInbound, Goto, Moves, Pc, HandlerOK
<1>6. CASE MatchRelayed(t)
  <2>1. CASE Goto(t, "put")
    BY <1>t, <1>a, <1>6, <2>1 DEF MatchRelayed, Goto, Moves, Pc, HandlerOK
  <2> QED BY <1>6, <1>d, <2>1 DEF MatchRelayed, Pc
<1>7. CASE StoreEntry(t)
  BY <1>t, <1>a, <1>7 DEF StoreEntry, Goto, Moves, Pc
<1>8. CASE ScheduleSweep(t)
  <2>1. CASE LastLeg(t)
    BY <1>8, <2>1 DEF ScheduleSweep
  <2>2. CASE ~LastLeg(t)
    <3>1. t.msg \in Outs
      BY <1>t, <2>2, KindsDiffer DEF LastLeg, Msgs
    <3> DEFINE u == [t EXCEPT !.pc = "put", !.leg = @ + 1]
    <3>2. u.pc = "put" /\ u.msg = t.msg
      BY <1>t DEF Handler
    <3>3. t.pc = "schedule" /\ Become(t, u)
      BY <1>8, <2>2 DEF ScheduleSweep
    <3> HIDE DEF u
    <3> QED BY <3>1, <3>2, <3>3 DEF Moves
  <2> QED BY <2>1, <2>2
<1> QED BY <1>1, <1>2, <1>3, <1>4, <1>5, <1>6, <1>7, <1>8 DEF HandlerStep
(* No missed match *)

\* What StoreEntry writes: the entry of its target, nothing else.
LEMMA StoreEntryWrites ==
    ASSUME TypeInv, NEW t \in running, StoreEntry(t)
    PROVE  \A s \in Stores, k \in Keys :
             store'[s][k] = IF s = TargetStore(t) /\ k \in TargetKeys(t)
                            THEN t.msg ELSE store[s][k]
<1>1. StoreOK /\ t \in Handler /\ HandlerOK(t)
  BY HandlerTypes DEF TypeInv, TypeOK
<1> QED BY <1>1, TargetLemma, PutLemma DEF StoreEntry

\* The keys an outbound or an inbound is stored under for its match.
LEMMA MatchTarget ==
    ASSUME NEW t \in Handler, HandlerOK(t)
    PROVE  /\ TargetStore(t) = "outbound" =>
                 t.msg \in Outs /\ TargetKeys(t) = KeysAt(t.msg, t.msg.dest)
           /\ TargetStore(t) = "inbound" =>
                 t.msg \in Ins /\ TargetKeys(t) = KeysAt(t.msg, t.msg.chain)
<1>1. CASE t.msg \in Outs
  <2>1. t.msg.kind = "out"
    BY <1>1, KindsDiffer
  <2>2. TargetStore(t) = "outbound" => t.leg = Len(t.msg.stops)
    BY <2>1 DEF TargetStore, LastLeg
  <2>3. TargetStore(t) # "inbound" /\ TargetKeys(t) = KeysAt(t.msg, t.msg.stops[t.leg])
    BY <2>1 DEF TargetStore, TargetKeys
  <2> QED BY <1>1, <2>2, <2>3, OutFields
<1>2. CASE t.msg \in Ins
  BY <1>2, KindsDiffer DEF TargetStore, TargetKeys
<1>3. CASE t.msg \in Relays
  BY <1>3, KindsDiffer DEF TargetStore
<1> QED BY <1>1, <1>2, <1>3 DEF Handler, Msgs

\* What a handler saw missing stays missing while entries only go.
LEMMA SawStable ==
    ASSUME TypeInv, Shrinks, NEW t \in running, SawNoCounterpart(t)
    PROVE  SawNoCounterpart(t)'
<1>1. t \in Handler /\ t.msg \in Msgs
  BY HandlerTypes
<1>2. ASSUME t.msg \in Outs, NEW k \in KeysAt(t.msg, t.msg.dest),
             store["inbound"][k] = None
      PROVE  store'["inbound"][k] = None
  BY <1>2, OutKeys, OutFields DEF Shrinks, Stores
<1>3. ASSUME t.msg \in Ins, NEW k \in KeysAt(t.msg, t.msg.chain),
             store["outbound"][k] = None
      PROVE  store'["outbound"][k] = None
  BY <1>3, InKeys DEF Shrinks, Stores
<1> QED BY <1>2, <1>3 DEF SawNoCounterpart

\* A handler that moves on knows what it needs to, in the state it moved from.
LEMMA SawMoves ==
    ASSUME TypeInv, NEW t \in running, SawNoCounterpart(t), NEW u, Moves(t, u)
    PROVE  SawNoCounterpart(u)
<1>1. t.msg \in Msgs /\ HandlerOK(t)
  BY HandlerTypes
<1>2. CASE t.pc = "getInbound" /\ u.pc = "put"
  BY <1>2, KindsDiffer DEF Moves, SawNoCounterpart, Found
<1>3. CASE t.pc = "getOutbound" /\ u.pc = "hopIn"
  BY <1>3, KindsDiffer DEF Moves, SawNoCounterpart, Found
<1>4. CASE t.pc = "getRelayed" /\ u.pc = "put"
  BY <1>4, KindsDiffer DEF Moves, SawNoCounterpart
<1> QED BY <1>2, <1>3, <1>4, KindsDiffer DEF Moves, SawNoCounterpart

\* The invariant is kept by every step that adds no entry.
LEMMA MatchShrink ==
    ASSUME TypeInv, MatchInv, Shrinks,
           \/ running' \subseteq running
           \/ \E t \in running : \E u : Moves(t, u) /\ Become(t, u)
           \/ running = {} /\ \E m \in Msgs : Deliver(m)
    PROVE  MatchInv'
<1>1. NoMissedMatch'
  BY DEF MatchInv, NoMissedMatch, Shrinks, Stores
<1>2. CASE running' \subseteq running
  BY <1>1, <1>2, SawStable DEF MatchInv
<1>3. CASE \E t \in running : \E u : Moves(t, u) /\ Become(t, u)
  <2>0. PICK t \in running : \E u : Moves(t, u) /\ Become(t, u)
    BY <1>3
  <2>1. PICK u : Moves(t, u) /\ Become(t, u)
    BY <2>0
  <2>2. running' = {u}
    BY <2>1 DEF MatchInv, Become
  <2>3. SawNoCounterpart(u)
    BY <2>1, SawMoves DEF MatchInv
  <2>4. u.msg = t.msg /\ t.msg \in Msgs
    BY <2>1, HandlerTypes DEF Moves
  <2>5. ASSUME u.msg \in Outs, NEW k \in KeysAt(u.msg, u.msg.dest),
               store["inbound"][k] = None
        PROVE  store'["inbound"][k] = None
    BY <2>5, OutKeys, OutFields DEF Shrinks, Stores
  <2>6. ASSUME u.msg \in Ins, NEW k \in KeysAt(u.msg, u.msg.chain),
               store["outbound"][k] = None
        PROVE  store'["outbound"][k] = None
    BY <2>6, InKeys DEF Shrinks, Stores
  <2>7. SawNoCounterpart(u)'
    BY <2>3, <2>5, <2>6 DEF SawNoCounterpart
  <2> QED BY <1>1, <2>2, <2>7 DEF MatchInv
<1>4. CASE running = {} /\ \E m \in Msgs : Deliver(m)
  <2>1. PICK m \in Msgs : Deliver(m)
    BY <1>4
  <2>2. PICK u : running' = {u} /\ u.pc = EntryPoint(m)
    <3> DEFINE v == [pc |-> EntryPoint(m), msg |-> m, nth |-> seen[m] + 1,
                     leg |-> 1, got |-> m]
    <3>1. v.pc = EntryPoint(m)
      OBVIOUS
    <3>2. running' = {v}
      BY <1>4, <2>1 DEF Deliver
    <3> HIDE DEF v
    <3> QED BY <3>1, <3>2
  <2>3. u.pc \notin {"hopIn", "put", "schedule"}
    BY <2>2, KindsDiffer DEF EntryPoint, Msgs
  <2>4. SawNoCounterpart(u)'
    BY <2>3 DEF SawNoCounterpart
  <2> QED BY <1>1, <2>2, <2>4 DEF MatchInv
<1> QED BY <1>2, <1>3, <1>4

\* Storing an entry keeps the invariant: its counterpart was seen missing.
LEMMA MatchStore ==
    ASSUME TypeInv, MatchInv, NEW t \in running, StoreEntry(t)
    PROVE  MatchInv'
<1>1. t \in Handler /\ HandlerOK(t) /\ SawNoCounterpart(t) /\ t.pc = "put"
  BY HandlerTypes DEF MatchInv, StoreEntry
<1>2. NoMissedMatch'
  <2> SUFFICES ASSUME NEW k \in Keys
               PROVE  store'["outbound"][k] = None \/ store'["inbound"][k] = None
    BY DEF NoMissedMatch
  <2>1. CASE TargetStore(t) = "outbound" /\ k \in TargetKeys(t)
    <3>1. store["inbound"][k] = None
      BY <1>1, <2>1, MatchTarget DEF SawNoCounterpart
    <3> QED BY <2>1, <3>1, StoreEntryWrites DEF Stores
  <2>2. CASE TargetStore(t) = "inbound" /\ k \in TargetKeys(t)
    <3>1. store["outbound"][k] = None
      BY <1>1, <2>2, MatchTarget DEF SawNoCounterpart
    <3> QED BY <2>2, <3>1, StoreEntryWrites DEF Stores
  <2>3. CASE ~(TargetStore(t) \in {"outbound", "inbound"} /\ k \in TargetKeys(t))
    BY <2>3, StoreEntryWrites DEF Stores, MatchInv, NoMissedMatch
  <2> QED BY <2>1, <2>2, <2>3
<1> DEFINE u == [t EXCEPT !.pc = "schedule"]
<1>3. u.pc = "schedule" /\ u.msg = t.msg
  BY <1>1 DEF Handler
<1>4. running' = {u}
  BY DEF MatchInv, StoreEntry, Goto, Become
<1> HIDE DEF u
<1>5. SawNoCounterpart(u)'
  <2>1. ASSUME t.msg \in Outs, NEW k \in KeysAt(t.msg, t.msg.dest)
        PROVE  store'["inbound"][k] = None
    <3>1. store["inbound"][k] = None
      BY <1>1, <2>1 DEF SawNoCounterpart
    <3>2. TargetStore(t) # "inbound" /\ k \in Keys
      BY <1>1, <2>1, TargetLemma, OutKeys, OutFields
    <3> QED BY <3>1, <3>2, StoreEntryWrites DEF Stores
  <2> QED BY <1>3, <2>1 DEF SawNoCounterpart
<1> QED BY <1>2, <1>4, <1>5 DEF MatchInv

\* MatchInv is inductive, given the type invariant.
LEMMA MatchInductive ==
    /\ Init => MatchInv
    /\ TypeInv /\ MatchInv /\ [Next]_vars => MatchInv'
<1>1. Init => MatchInv
  BY DEF Init, MatchInv, NoMissedMatch, Stores
<1>2. ASSUME TypeInv, MatchInv, Next PROVE MatchInv'
  <2>1. ASSUME NEW t \in running, HandlerStep(t) PROVE MatchInv'
    <3>1. CASE StoreEntry(t)
      BY <1>2, <3>1, MatchStore
    <3>2. CASE ~StoreEntry(t)
      <4>1. Shrinks
        BY <1>2, <2>1, <3>2, HandlerShrinks
      <4>2. CASE Release(t)
        BY <1>2, <4>1, <4>2, MatchShrink DEF Release
      <4>3. CASE \E u : Moves(t, u) /\ Become(t, u)
        BY <1>2, <4>1, <4>3, MatchShrink
      <4> QED BY <1>2, <2>1, <4>2, <4>3, HandlerMoves
    <3> QED BY <3>1, <3>2
  <2>2. ASSUME ~Handle PROVE MatchInv'
    <3>1. Shrinks
      BY <1>2, <2>2, OtherShrinks
    <3>2. CASE \E m \in Msgs : Deliver(m)
      BY <1>2, <3>1, <3>2, MatchShrink DEF Deliver, MutexFree
    <3>3. CASE ~\E m \in Msgs : Deliver(m)
      <4>1. running' \subseteq running
        BY <1>2, <2>2, <3>3 DEF Next, RunScheduler, RunSweep, RunClear, Unsubscribe,
           Crash, Dispatch, SweepGet, SweepDel, ClearScan, ClearWrite
      <4> QED BY <1>2, <3>1, <4>1, MatchShrink
    <3> QED BY <3>2, <3>3
  <2> QED BY <2>1, <2>2 DEF Handle
<1>3. ASSUME MatchInv, UNCHANGED vars PROVE MatchInv'
  BY <1>3 DEF vars, MatchInv, NoMissedMatch, SawNoCounterpart
<1> QED BY <1>1, <1>2, <1>3

\* The engine never leaves an outbound and an inbound side by side under one
\* key: onOutboundMessage and onInboundMessage look for the counterpart and
\* store under one hold of the mutex, and nothing else stores.
THEOREM MatchNeverMissed == Spec => []NoMissedMatch
<1>1. MatchInv => NoMissedMatch
  BY DEF MatchInv
<1> QED BY <1>1, TypeInductive, MatchInductive, PTL DEF Spec
(* No missed relay *)

\* What the origin and the relay chain say of one message carries one reference:
\* both extractors take the hash and the topic id from the same program.
ReferencesAgree ==
    \A o \in Outs, r \in Relays :
        r.sub = o.sub /\ r.origin = o.origin /\ Ref(r) \in {o.hash, o.id} => Ref(o) = Ref(r)

\* An outbound that is past the relay messages left none behind, and a relay
\* message that is about to be stored saw no outbound.
SawNoRelay(t) ==
    /\ t.pc \in {"hopOut", "getInbound", "claimInbound", "put", "schedule"} /\ t.msg \in Outs =>
          store["relay"][RelayKey(t.msg)] = None
    /\ t.pc = "put" /\ t.msg \in Relays =>
          /\ store["outbound"][RelayedIdKey(t.msg)] = None
          /\ store["hop"][RelayedHopKey(t.msg)] = None

\* Entries are where their messages are looked for.
StoredByRef ==
    \A k \in Keys :
        /\ LET r == store["relay"][k] IN r # None => k = RelayKey(r)
        /\ \A s \in {"outbound", "hop"} :
              LET o == store[s][k] IN o # None => k.sub = o.sub /\ k.ref \in {o.hash, o.id}

\* NoMissedRelay, strengthened to be inductive (with TypeInv and MatchInv).
RelayInv ==
    /\ \A t \in running : SawNoRelay(t)
    /\ StoredByRef
    /\ NoMissedRelay

\* The fields of matching keys.
LEMMA KeyFields ==
    /\ \A m, c : \A k \in KeysAt(m, c) : k.sub = m.sub /\ k.ref \in {m.hash, m.id}
    /\ \A r : RelayedIdKey(r).sub = r.sub /\ RelayedIdKey(r).ref = Ref(r)
    /\ \A r : RelayedHopKey(r).sub = r.sub /\ RelayedHopKey(r).ref = Ref(r)
BY DEF KeysAt, MatchingKey, RelayedIdKey, RelayedHopKey

\* An outbound waits beside a relay message of its origin only if it did not
\* find that one.
LEMMA SameRelayKey ==
    ASSUME ReferencesAgree, NEW o \in Outs, NEW r \in Relays, r.origin = o.origin,
           NEW k, k \in {RelayedIdKey(r), RelayedHopKey(r)},
           k.sub = o.sub, k.ref \in {o.hash, o.id}
    PROVE  RelayKey(o) = RelayKey(r)
<1>1. k.sub = r.sub /\ k.ref = Ref(r)
  BY KeyFields
<1>2. Ref(o) = Ref(r) /\ o.sub = r.sub
  BY <1>1 DEF ReferencesAgree
<1> QED BY <1>2 DEF RelayKey

\* The handler that runs is alone: after its step it is the only one, or gone.
LEMMA GotoAlone ==
    ASSUME TypeInv, MatchInv, NEW t \in running, NEW pc \in Pc
    PROVE  /\ Goto(t, pc) => \A u \in running' : u.pc = pc /\ u.msg = t.msg
           /\ \A m : GotoWith(t, pc, m) => \A u \in running' : u.pc = pc /\ u.msg = t.msg
           /\ Release(t) => running' = {}
<1>1. t \in Handler /\ running = {t}
  BY HandlerTypes DEF MatchInv
<1>2. [t EXCEPT !.pc = pc].pc = pc /\ [t EXCEPT !.pc = pc].msg = t.msg
  BY <1>1 DEF Handler
<1>3. ASSUME NEW m
      PROVE  /\ [t EXCEPT !.pc = pc, !.got = m].pc = pc
             /\ [t EXCEPT !.pc = pc, !.got = m].msg = t.msg
  BY <1>1 DEF Handler
<1> QED BY <1>1, <1>2, <1>3 DEF Goto, GotoWith, Become, Release

\* What the outbound handler knows after its step, unless it stores.
LEMMA SawRelayOutbound ==
    ASSUME TypeInv, MatchInv, NEW t \in running, SawNoRelay(t),
           \/ FindRelayInbound(t) \/ ClaimRelay(t) \/ MatchHopOut(t)
           \/ AnnounceSent(t) \/ TryMatchOnOutbound(t) \/ ClaimInbound(t)
    PROVE  \A u \in running' : SawNoRelay(u)'
<1>0. t.msg \in Outs /\ t.msg \notin Relays /\ StoreOK /\ RelayKey(t.msg) \in Keys
  BY HandlerTypes, KindsDiffer, OutKeys
     DEF HandlerOK, TypeInv, TypeOK, FindRelayInbound, ClaimRelay, MatchHopOut,
         AnnounceSent, TryMatchOnOutbound, ClaimInbound
<1>1. CASE FindRelayInbound(t)
  <2>1. CASE store["relay"][RelayKey(t.msg)] = None
    <3>1. Goto(t, "hopOut") /\ store' = store
      BY <1>1, <2>1 DEF FindRelayInbound
    <3>2. \A u \in running' : u.pc = "hopOut" /\ u.msg = t.msg
      BY <3>1, GotoAlone DEF Pc
    <3> QED BY <2>1, <3>1, <3>2 DEF SawNoRelay
  <2>2. CASE store["relay"][RelayKey(t.msg)] # None
    <3>1. \A u \in running' : u.pc = "claimRelay"
      BY <1>1, <2>2, GotoAlone DEF FindRelayInbound, Pc
    <3> QED BY <3>1 DEF SawNoRelay
  <2> QED BY <2>1, <2>2
<1>2. CASE ClaimRelay(t)
  <2>1. store'["relay"][RelayKey(t.msg)] = None
    BY <1>0, <1>2, DelLemma DEF ClaimRelay, Stores
  <2>2. \A u \in running' : u.pc = "hopOut" /\ u.msg = t.msg
    BY <1>2, GotoAlone DEF ClaimRelay, Pc
  <2> QED BY <2>1, <2>2 DEF SawNoRelay
<1>3. CASE MatchHopOut(t) \/ ClaimInbound(t)
  BY <1>3, GotoAlone DEF MatchHopOut, ClaimInbound, Pc
<1>4. CASE AnnounceSent(t) \/ TryMatchOnOutbound(t)
  <2>1. store' = store /\ store["relay"][RelayKey(t.msg)] = None
    BY <1>0, <1>4 DEF AnnounceSent, TryMatchOnOutbound, SawNoRelay
  <2>2. \A u \in running' : u.msg = t.msg
    BY <1>4, GotoAlone DEF AnnounceSent, TryMatchOnOutbound, Pc
  <2> QED BY <1>0, <2>1, <2>2 DEF SawNoRelay
<1> QED BY <1>1, <1>2, <1>3, <1>4

\* What the inbound and the relay handler know after theirs.
LEMMA SawRelayOthers ==
    ASSUME TypeInv, MatchInv, NEW t \in running, SawNoRelay(t),
           \/ MatchOutbound(t) \/ ClaimOutbound(t) \/ TryHopMatchOnInbound(t)
           \/ MatchRelayed(t) \/ ClaimRelayed(t)
    PROVE  \A u \in running' : SawNoRelay(u)'
<1>1. CASE ClaimOutbound(t) \/ ClaimRelayed(t)
  BY <1>1, GotoAlone DEF ClaimOutbound, ClaimRelayed, Pc
<1>2. CASE MatchOutbound(t) \/ TryHopMatchOnInbound(t)
  <2>1. t.msg \in Ins
    BY <1>2, HandlerTypes DEF HandlerOK, MatchOutbound, TryHopMatchOnInbound
  <2>2. \A u \in running' : u.msg = t.msg
    BY <1>2, GotoAlone DEF MatchOutbound, TryHopMatchOnInbound, Pc
  <2> QED BY <2>1, <2>2, KindsDiffer DEF SawNoRelay
<1>3. CASE MatchRelayed(t)
  <2>1. t.msg \in Relays /\ t.msg \notin Outs /\ store' = store
    BY <1>3, HandlerTypes, KindsDiffer DEF HandlerOK, MatchRelayed
  <2>2. CASE /\ store["outbound"][RelayedIdKey(t.msg)] = None
             /\ store["hop"][RelayedHopKey(t.msg)] = None
    <3>1. \A u \in running' : u.msg = t.msg
      BY <1>3, GotoAlone DEF MatchRelayed, Pc
    <3> QED BY <2>1, <2>2, <3>1 DEF SawNoRelay
  <2>3. CASE ~(/\ store["outbound"][RelayedIdKey(t.msg)] = None
               /\ store["hop"][RelayedHopKey(t.msg)] = None)
    <3>1. \A u \in running' : u.pc = "claimRelayed"
      BY <1>3, <2>3, GotoAlone DEF MatchRelayed, Pc
    <3> QED BY <3>1 DEF SawNoRelay
  <2> QED BY <2>2, <2>3
<1> QED BY <1>1, <1>2, <1>3

\* What a handler knows when it schedules and goes on with its next leg.
LEMMA SawRelaySchedule ==
    ASSUME TypeInv, MatchInv, NEW t \in running, SawNoRelay(t), ScheduleSweep(t)
    PROVE  \A u \in running' : SawNoRelay(u)'
<1>1. t \in Handler /\ running = {t} /\ store' = store /\ t.pc = "schedule"
  BY HandlerTypes DEF MatchInv, ScheduleSweep
<1>2. CASE LastLeg(t)
  BY <1>1, <1>2 DEF ScheduleSweep, Release
<1>3. CASE ~LastLeg(t)
  <2>1. t.msg \in Outs /\ t.msg \notin Relays
    BY <1>1, <1>3, KindsDiffer DEF LastLeg, Handler, Msgs
  <2> DEFINE u == [t EXCEPT !.pc = "put", !.leg = @ + 1]
  <2>2. u.msg = t.msg
    BY <1>1 DEF Handler
  <2>3. running' = {u}
    BY <1>1, <1>3 DEF ScheduleSweep, Become
  <2> HIDE DEF u
  <2> QED BY <1>1, <2>1, <2>2, <2>3 DEF SawNoRelay
<1> QED BY <1>2, <1>3

\* Entries that go take nothing from the invariant.
LEMMA RelayShrink ==
    ASSUME TypeInv, RelayInv, Shrinks
    PROVE  /\ StoredByRef' /\ NoMissedRelay'
           /\ \A t \in running : SawNoRelay(t)'
<1>1. StoredByRef'
  BY DEF RelayInv, StoredByRef, Shrinks, Stores
<1>2. NoMissedRelay'
  <2> SUFFICES ASSUME NEW k \in Keys, NEW r, r = store'["relay"][k], r # None,
                      NEW s \in {"outbound", "hop"},
                      NEW q, q = (IF s = "outbound" THEN RelayedIdKey(r) ELSE RelayedHopKey(r)),
                      store'[s][q] # None
               PROVE  store'[s][q].origin # r.origin
    BY DEF NoMissedRelay
  <2>1. store["relay"][k] = r /\ r \in Relays
    BY DEF Shrinks, Stores, TypeInv, TypeOK, StoreOK, Holds
  <2>2. q \in Keys
    BY <2>1, RelayKeys
  <2>3. store'[s][q] = store[s][q]
    BY <2>2 DEF Shrinks, Stores
  <2> QED BY <2>1, <2>3 DEF RelayInv, NoMissedRelay
<1>3. ASSUME NEW t \in running PROVE SawNoRelay(t)'
  <2>1. t.msg \in Outs => RelayKey(t.msg) \in Keys
    BY OutKeys
  <2>2. t.msg \in Relays => RelayedIdKey(t.msg) \in Keys /\ RelayedHopKey(t.msg) \in Keys
    BY RelayKeys
  <2> QED BY <2>1, <2>2 DEF RelayInv, SawNoRelay, Shrinks, Stores
<1> QED BY <1>1, <1>2, <1>3

\* What a relay message or an outbound is stored under.
LEMMA RelayTarget ==
    ASSUME NEW t \in Handler, HandlerOK(t)
    PROVE  /\ TargetStore(t) = "relay" =>
                 t.msg \in Relays /\ TargetKeys(t) = {RelayKey(t.msg)}
           /\ TargetStore(t) \in {"outbound", "hop"} =>
                 /\ t.msg \in Outs
                 /\ \A k \in TargetKeys(t) : k.sub = t.msg.sub /\ k.ref \in {t.msg.hash, t.msg.id}
<1>1. CASE t.msg \in Outs
  <2>1. t.msg.kind = "out"
    BY <1>1, KindsDiffer
  <2>2. TargetKeys(t) = KeysAt(t.msg, t.msg.stops[t.leg]) /\ TargetStore(t) # "relay"
    BY <2>1 DEF TargetStore, TargetKeys
  <2> QED BY <1>1, <2>2, KeyFields
<1>2. CASE t.msg \in Ins
  BY <1>2, KindsDiffer DEF TargetStore
<1>3. CASE t.msg \in Relays
  BY <1>3, KindsDiffer DEF TargetStore, TargetKeys
<1> QED BY <1>1, <1>2, <1>3 DEF Handler, Msgs

\* Storing keeps the invariant: each of the two handlers looked for what the other
\* stores.
LEMMA RelayStore ==
    ASSUME TypeInv, MatchInv, RelayInv, ReferencesAgree, NEW t \in running, StoreEntry(t)
    PROVE  RelayInv'
<1>1. t \in Handler /\ HandlerOK(t) /\ SawNoRelay(t) /\ t.pc = "put" /\ t.msg \in Msgs
  BY HandlerTypes DEF RelayInv, StoreEntry
<1>2. \A s \in Stores, k \in Keys :
         store'[s][k] = IF s = TargetStore(t) /\ k \in TargetKeys(t) THEN t.msg ELSE store[s][k]
  BY StoreEntryWrites
<1>3. \A k \in Keys : store["relay"][k] \in Relays \cup {None}
  BY DEF TypeInv, TypeOK, StoreOK, Stores, Holds
<1>o. \A s \in {"outbound", "hop"}, k \in Keys : store[s][k] \in Outs \cup {None}
  BY DEF TypeInv, TypeOK, StoreOK, Stores, Holds
<1>4. StoredByRef'
  <2> SUFFICES ASSUME NEW k \in Keys
               PROVE  /\ store'["relay"][k] # None => k = RelayKey(store'["relay"][k])
                      /\ \A s \in {"outbound", "hop"} : store'[s][k] # None =>
                            /\ k.sub = store'[s][k].sub
                            /\ k.ref \in {store'[s][k].hash, store'[s][k].id}
    BY DEF StoredByRef
  <2>1. store'["relay"][k] # None => k = RelayKey(store'["relay"][k])
    BY <1>1, <1>2, RelayTarget DEF RelayInv, StoredByRef, Stores
  <2>2. ASSUME NEW s \in {"outbound", "hop"}, store'[s][k] # None
        PROVE  k.sub = store'[s][k].sub /\ k.ref \in {store'[s][k].hash, store'[s][k].id}
    BY <1>1, <1>2, <2>2, RelayTarget DEF RelayInv, StoredByRef, Stores
  <2> QED BY <2>1, <2>2
<1>5. NoMissedRelay'
  <2> SUFFICES ASSUME NEW k \in Keys, NEW r, r = store'["relay"][k], r # None,
                      NEW s \in {"outbound", "hop"},
                      NEW q, q = (IF s = "outbound" THEN RelayedIdKey(r) ELSE RelayedHopKey(r)),
                      NEW o, o = store'[s][q], o # None
               PROVE  o.origin # r.origin
    BY DEF NoMissedRelay
  <2>1. CASE TargetStore(t) = "relay" /\ k \in TargetKeys(t)
    <3>1. r = t.msg /\ r \in Relays
      BY <1>1, <1>2, <2>1, RelayTarget DEF Stores
    <3>2. q \in Keys
      BY <3>1, RelayKeys
    <3>3. o = store[s][q]
      BY <1>2, <2>1, <3>2 DEF Stores
    <3> QED BY <1>1, <3>1, <3>3 DEF SawNoRelay
  <2>2. CASE ~(TargetStore(t) = "relay" /\ k \in TargetKeys(t))
    <3>1. r = store["relay"][k] /\ r \in Relays
      BY <1>2, <1>3, <2>2 DEF Stores
    <3>2. q \in Keys /\ k = RelayKey(r)
      BY <3>1, RelayKeys DEF RelayInv, StoredByRef
    <3>3. CASE s = TargetStore(t) /\ q \in TargetKeys(t)
      <4>1. o = t.msg /\ o \in Outs /\ q.sub = o.sub /\ q.ref \in {o.hash, o.id}
        BY <1>1, <1>2, <3>2, <3>3, RelayTarget DEF Stores
      <4>2. store["relay"][RelayKey(o)] = None
        BY <1>1, <4>1 DEF SawNoRelay
      <4>3. r.origin = o.origin => RelayKey(o) = RelayKey(r)
        BY <3>1, <4>1, SameRelayKey
      <4> QED BY <3>1, <3>2, <4>2, <4>3
    <3>4. CASE ~(s = TargetStore(t) /\ q \in TargetKeys(t))
      <4>1. o = store[s][q]
        BY <1>2, <3>2, <3>4 DEF Stores
      <4> QED BY <3>1, <4>1 DEF RelayInv, NoMissedRelay
    <3> QED BY <3>3, <3>4
  <2> QED BY <2>1, <2>2
<1>6. ASSUME NEW u \in running' PROVE SawNoRelay(u)'
  <2>1. u.pc = "schedule" /\ u.msg = t.msg
    BY GotoAlone DEF StoreEntry, Pc
  <2>2. ASSUME t.msg \in Outs PROVE store'["relay"][RelayKey(t.msg)] = None
    <3>1. TargetStore(t) # "relay" /\ RelayKey(t.msg) \in Keys
      BY <1>1, <2>2, TargetLemma, OutKeys
    <3> QED BY <1>1, <1>2, <2>2, <3>1 DEF SawNoRelay, Stores
  <2> QED BY <2>1, <2>2 DEF SawNoRelay
<1> QED BY <1>4, <1>5, <1>6 DEF RelayInv

\* RelayInv is inductive, given the other invariants.
LEMMA RelayInductive ==
    ASSUME ReferencesAgree
    PROVE  /\ Init => RelayInv
           /\ TypeInv /\ MatchInv /\ RelayInv /\ [Next]_vars => RelayInv'
<1>1. Init => RelayInv
  BY DEF Init, RelayInv, StoredByRef, NoMissedRelay, Stores
<1>2. ASSUME TypeInv, MatchInv, RelayInv, NEW t \in running, HandlerStep(t)
      PROVE  RelayInv'
  <2>1. CASE StoreEntry(t)
    BY <1>2, <2>1, RelayStore
  <2>2. CASE ~StoreEntry(t)
    <3>1. \A u \in running' : SawNoRelay(u)'
      BY <1>2, <2>2, SawRelayOutbound, SawRelayOthers, SawRelaySchedule
         DEF HandlerStep, RelayInv
    <3> QED BY <1>2, <2>2, <3>1, HandlerShrinks, RelayShrink DEF RelayInv
  <2> QED BY <2>1, <2>2
<1>3. ASSUME TypeInv, RelayInv, Next, ~Handle PROVE RelayInv'
  <2>1. StoredByRef' /\ NoMissedRelay' /\ \A t \in running : SawNoRelay(t)'
    BY <1>3, OtherShrinks, RelayShrink
  <2>2. ASSUME NEW u \in running', u \notin running PROVE SawNoRelay(u)'
    <3>1. PICK m \in Msgs : Deliver(m)
      BY <1>3, <2>2 DEF Next, RunScheduler, RunSweep, RunClear, Unsubscribe,
         Crash, Dispatch, SweepGet, SweepDel, ClearScan, ClearWrite
    <3>2. u.pc = EntryPoint(m)
      BY <2>2, <3>1 DEF Deliver
    <3>3. u.pc \in {"findRelay", "getOutbound", "getRelayed"}
      BY <3>2, KindsDiffer DEF EntryPoint, Msgs
    <3> QED BY <3>3 DEF SawNoRelay
  <2> QED BY <2>1, <2>2 DEF RelayInv
<1>4. ASSUME RelayInv, UNCHANGED vars PROVE RelayInv'
  BY <1>4 DEF vars, RelayInv, StoredByRef, NoMissedRelay, SawNoRelay
<1> QED BY <1>1, <1>2, <1>3, <1>4 DEF Handle

\* When the origin and the relay chain agree on a message's reference, its relay
\* never waits beside it: onRelayedMessage looks where onOutboundMessage stores, in
\* #outbound and in #hop, and the other way round.
THEOREM RelayNeverMissed ==
    ASSUME ReferencesAgree
    PROVE  Spec => []NoMissedRelay
<1>1. RelayInv => NoMissedRelay
  BY DEF RelayInv
<1> QED BY <1>1, TypeInductive, MatchInductive, RelayInductive, PTL DEF Spec
(* Every entry is due *)

\* The invariant with the guard on crashes taken out.
EntriesDue == \A s \in Stores, k \in Keys : store[s][k] # None => Due(s, k)

\* A step that only removes entries keeps the others due if it keeps what they
\* are due by.
LEMMA DueShrink ==
    ASSUME EntriesDue, Shrinks,
           \A s \in Stores, k \in Keys : Due(s, k) /\ store'[s][k] # None => Due(s, k)'
    PROVE  EntriesDue'
BY DEF EntriesDue, Shrinks

\* Storing an entry: its handler is about to schedule it.
LEMMA DueStore ==
    ASSUME TypeInv, EntriesDue, NEW t \in running, StoreEntry(t)
    PROVE  EntriesDue'
<1>1. t \in Handler /\ t.pc = "put"
  BY HandlerTypes DEF StoreEntry
<1> DEFINE u == [t EXCEPT !.pc = "schedule"]
<1>2. u.pc = "schedule" /\ u.msg = t.msg /\ u.leg = t.leg
  BY <1>1 DEF Handler
<1>3. running' = (running \ {t}) \cup {u} /\ tasks' = tasks /\ sweeps' = sweeps
  BY DEF StoreEntry, Goto, Become, untouched
<1> HIDE DEF u
<1>4. TargetStore(u) = TargetStore(t) /\ TargetKeys(u) = TargetKeys(t)
  BY <1>2 DEF TargetStore, TargetKeys, LastLeg
<1> SUFFICES ASSUME NEW s \in Stores, NEW k \in Keys, store'[s][k] # None
             PROVE  Due(s, k)'
  BY DEF EntriesDue
<1>5. CASE s = TargetStore(t) /\ k \in TargetKeys(t)
  BY <1>2, <1>3, <1>4, <1>5 DEF Due
<1>6. CASE ~(s = TargetStore(t) /\ k \in TargetKeys(t))
  <2>1. Due(s, k)
    BY <1>6, StoreEntryWrites DEF EntriesDue
  <2> QED BY <1>1, <1>3, <2>1 DEF Due
<1> QED BY <1>5, <1>6

\* Scheduling: what was due by the handler is due by its tasks.
LEMMA DueSchedule ==
    ASSUME TypeInv, EntriesDue, NEW t \in running, ScheduleSweep(t)
    PROVE  EntriesDue'
<1>1. store' = store /\ tasks' = tasks \cup TasksOf(t) /\ sweeps' = sweeps
      /\ running \ {t} \subseteq running'
  BY DEF ScheduleSweep, Release, Become
<1> SUFFICES ASSUME NEW s \in Stores, NEW k \in Keys, store[s][k] # None
             PROVE  Due(s, k)'
  BY <1>1 DEF EntriesDue
<1>2. Due(s, k)
  BY DEF EntriesDue
<1>3. CASE TargetStore(t) = s /\ k \in TargetKeys(t)
  <2> DEFINE j == [store |-> TargetStore(t), key |-> k, msg |-> t.msg, nth |-> t.nth,
                   leg |-> t.leg]
  <2>1. j \in tasks' /\ j.store = s /\ j.key = k
    BY <1>1, <1>3 DEF TasksOf
  <2> HIDE DEF j
  <2> QED BY <2>1 DEF Due
<1>4. CASE ~(TargetStore(t) = s /\ k \in TargetKeys(t))
  BY <1>1, <1>2, <1>4 DEF Due
<1> QED BY <1>3, <1>4

\* The other steps of a handler do not concern what is due.
LEMMA DueHandler ==
    ASSUME TypeInv, EntriesDue, NEW t \in running, HandlerStep(t)
    PROVE  EntriesDue'
<1>1. CASE StoreEntry(t)
  BY <1>1, DueStore
<1>2. CASE ScheduleSweep(t)
  BY <1>2, DueSchedule
<1>3. CASE ~StoreEntry(t) /\ ~ScheduleSweep(t)
  <2>1. t.pc # "schedule" /\ UNCHANGED untouched
    BY <1>3 DEF HandlerStep, FindRelayInbound, ClaimRelay, MatchHopOut, AnnounceSent,
       TryMatchOnOutbound, ClaimInbound, MatchOutbound, ClaimOutbound,
       TryHopMatchOnInbound, MatchRelayed, ClaimRelayed
  <2>2. running \ {t} \subseteq running'
    BY HandlerMoves DEF Release, Become
  <2>3. \A s \in Stores, k \in Keys : Due(s, k) => Due(s, k)'
    BY <2>1, <2>2 DEF Due, untouched
  <2> QED BY <1>3, <2>3, HandlerShrinks, DueShrink
<1> QED BY <1>1, <1>2, <1>3

\* The scheduler hands a task to a sweep; a sweep ends when its entry is gone.
LEMMA DueSweep ==
    ASSUME TypeInv, EntriesDue, RunScheduler \/ RunSweep
    PROVE  EntriesDue'
<1>0. StoreOK /\ sweeps \subseteq Sweep
  BY DEF TypeInv, TypeOK
<1>1. ASSUME NEW j \in tasks, Dispatch(j) PROVE EntriesDue'
  <2> DEFINE w == [task |-> j, item |-> None]
  <2>1. w \in sweeps' /\ w.task = j
    BY <1>1 DEF Dispatch
  <2> HIDE DEF w
  <2>2. \A s \in Stores, k \in Keys : Due(s, k) => Due(s, k)'
    BY <1>1, <2>1 DEF Dispatch, Due
  <2> QED BY <1>1, <2>2 DEF Dispatch, EntriesDue
<1>2. ASSUME NEW w \in sweeps, SweepGet(w) PROVE EntriesDue'
  <2> DEFINE m == store[w.task.store][w.task.key]
  <2>1. CASE m = None
    <3>1. \A s \in Stores, k \in Keys : Due(s, k) /\ store[s][k] # None => Due(s, k)'
      BY <1>2, <2>1 DEF SweepGet, Due
    <3> QED BY <1>2, <3>1 DEF SweepGet, EntriesDue
  <2>2. CASE m # None
    <3> DEFINE v == [w EXCEPT !.item = m]
    <3>1. v \in sweeps'
      BY <1>2, <2>2 DEF SweepGet
    <3>2. v.task = w.task
      BY <1>0 DEF Sweep
    <3>3. sweeps \ {w} \subseteq sweeps'
      BY <1>2 DEF SweepGet
    <3> HIDE DEF v
    <3>4. \A s \in Stores, k \in Keys : Due(s, k) => Due(s, k)'
      BY <1>2, <3>1, <3>2, <3>3 DEF SweepGet, Due
    <3> QED BY <1>2, <3>4 DEF SweepGet, EntriesDue
  <2> QED BY <2>1, <2>2
<1>3. ASSUME NEW w \in sweeps, SweepDel(w) PROVE EntriesDue'
  <2>1. w.task.store \in Stores
    BY <1>0 DEF Sweep, Task
  <2>2. Del(w.task.store, {w.task.key})
    BY <1>3 DEF SweepDel
  <2>3. Shrinks
    BY <1>0, <2>1, <2>2, DelShrinks
  <2>4. \A s \in Stores, k \in Keys :
          s = w.task.store /\ k = w.task.key => store'[s][k] = None
    BY <1>0, <2>1, <2>2, DelLemma
  <2>5. \A s \in Stores, k \in Keys : Due(s, k) /\ store'[s][k] # None => Due(s, k)'
    BY <1>3, <2>4 DEF SweepDel, Due
  <2> QED BY <2>3, <2>5, DueShrink
<1> QED BY <1>1, <1>2, <1>3 DEF RunScheduler, RunSweep

\* Only a crash counts as one.
LEMMA CrashFrame ==
    ASSUME TypeInv, [Next]_vars
    PROVE  crashes' = crashes \/ crashes' # 0
<1>1. crashes \in Nat
  BY ValuesAssumption DEF TypeInv, TypeOK
<1>2. CASE Crash
  BY <1>1, <1>2 DEF Crash
<1>3. ASSUME NEW t \in running, HandlerStep(t) PROVE crashes' = crashes
  BY <1>3 DEF HandlerStep, FindRelayInbound, ClaimRelay, MatchHopOut, AnnounceSent,
     TryMatchOnOutbound, ClaimInbound, MatchOutbound, ClaimOutbound,
     TryHopMatchOnInbound, MatchRelayed, ClaimRelayed, StoreEntry, ScheduleSweep,
     untouched
<1>4. CASE ~Crash /\ ~Handle
  BY <1>4 DEF Next, vars, RunScheduler, RunSweep, RunClear, Deliver, Unsubscribe,
     Dispatch, SweepGet, SweepDel, ClearScan, ClearWrite
<1> QED BY <1>2, <1>3, <1>4 DEF Handle

\* The steps of the environment and of a clearing add no entry and leave the
\* tasks, the sweeps and the handlers that run as they are.
LEMMA DueOther ==
    ASSUME TypeInv, EntriesDue, Next, ~Handle, ~RunScheduler, ~RunSweep, ~Crash
    PROVE  EntriesDue'
<1>1. Shrinks
  BY OtherShrinks
<1>2. tasks' = tasks /\ sweeps' = sweeps /\ running \subseteq running'
  BY DEF Next, RunClear, Deliver, Unsubscribe, ClearScan, ClearWrite
<1>3. \A s \in Stores, k \in Keys : Due(s, k) => Due(s, k)'
  BY <1>2 DEF Due
<1> QED BY <1>1, <1>3, DueShrink

\* EveryEntryIsDue is inductive, given the type invariant.
LEMMA DueInductive ==
    /\ Init => EveryEntryIsDue
    /\ TypeInv /\ EveryEntryIsDue /\ [Next]_vars => EveryEntryIsDue'
<1>1. Init => EveryEntryIsDue
  BY DEF Init, EveryEntryIsDue
<1>2. ASSUME TypeInv, EveryEntryIsDue, [Next]_vars, crashes' = 0
      PROVE  EntriesDue'
  <2>1. crashes = 0
    BY <1>2, CrashFrame
  <2>2. EntriesDue
    BY <1>2, <2>1 DEF EveryEntryIsDue, EntriesDue
  <2>3. ~Crash
    BY <1>2, <2>1 DEF Crash
  <2>4. CASE Handle
    BY <1>2, <2>2, <2>4, DueHandler DEF Handle
  <2>5. CASE UNCHANGED vars
    <3>1. UNCHANGED <<store, tasks, sweeps, running>>
      BY <2>5 DEF vars
    <3> QED BY <2>2, <3>1 DEF EntriesDue, Due
  <2> QED BY <1>2, <2>2, <2>3, <2>4, <2>5, DueSweep, DueOther
<1>3. EntriesDue' => EveryEntryIsDue'
  BY DEF EntriesDue, EveryEntryIsDue, Due
<1> QED BY <1>1, <1>2, <1>3 DEF EveryEntryIsDue

\* As long as the process never crashed, every stored entry has a pending task,
\* a sweep in flight, or a handler about to schedule its task.
THEOREM EntriesAreDue == Spec => []EveryEntryIsDue
BY TypeInductive, DueInductive, PTL DEF Spec
(* Nothing is lost in silence *)

\* What a clearing scanned are keys of ids with its prefix.
ScannedByPrefix == \A c \in clears : \A k \in c.keys : k.sub \in Prefixed[c.sub]

\* Scans go by prefix, initially and after every step.
LEMMA ScannedInductive ==
    /\ Init => ScannedByPrefix
    /\ TypeInv /\ ScannedByPrefix /\ [Next]_vars => ScannedByPrefix'
<1>1. Init => ScannedByPrefix
  BY DEF Init, ScannedByPrefix
<1>2. ASSUME TypeInv, ScannedByPrefix, NEW c \in clears, ClearScan(c)
      PROVE  ScannedByPrefix'
  <2> DEFINE ks == Found(ClearOrder[c.at], {k \in Keys : k.sub \in Prefixed[c.sub]})
             d == [c EXCEPT !.scanned = TRUE, !.keys = ks]
  <2>1. \A k \in ks : k.sub \in Prefixed[c.sub]
    BY DEF Found
  <2>2. clears' = (clears \ {c}) \cup {d}
    BY <1>2 DEF ClearScan
  <2> HIDE DEF ks
  <2>3. d.sub = c.sub /\ d.keys = ks
    BY <1>2 DEF TypeInv, TypeOK, Clear
  <2> QED BY <1>2, <2>1, <2>2, <2>3 DEF ScannedByPrefix
<1>3. ASSUME TypeInv, ScannedByPrefix, NEW c \in clears, ClearWrite(c)
      PROVE  ScannedByPrefix'
  <2> DEFINE d == [c EXCEPT !.at = @ + 1, !.scanned = FALSE, !.keys = {}]
  <2>1. clears' \subseteq clears \cup {d}
    BY <1>3 DEF ClearWrite
  <2>2. d.keys = {}
    BY <1>3 DEF TypeInv, TypeOK, Clear
  <2> HIDE DEF d
  <2> QED BY <1>3, <2>1, <2>2 DEF ScannedByPrefix
<1>4. ASSUME ScannedByPrefix, NEW s \in Removable, Unsubscribe(s)
      PROVE  ScannedByPrefix'
  BY <1>4 DEF Unsubscribe, ScannedByPrefix
<1>5. ASSUME ScannedByPrefix, [Next]_vars, ~RunClear,
             ~\E s \in Removable : Unsubscribe(s)
      PROVE  ScannedByPrefix'
  <2>1. clears' = clears \/ clears' = {}
    BY <1>5 DEF Next, vars, Handle, RunScheduler, RunSweep, Deliver, Crash, Dispatch,
       SweepGet, SweepDel, HandlerStep, FindRelayInbound, ClaimRelay, MatchHopOut,
       AnnounceSent, TryMatchOnOutbound, ClaimInbound, MatchOutbound, ClaimOutbound,
       TryHopMatchOnInbound, MatchRelayed, ClaimRelayed, StoreEntry, ScheduleSweep,
       untouched
  <2> QED BY <1>5, <2>1 DEF ScannedByPrefix
<1> QED BY <1>1, <1>2, <1>3, <1>4, <1>5 DEF RunClear

\* A removed subscription is not there while its entries are cleared.
ClearsAreRemoved == \A c \in clears : c.sub \notin live

\* What waits to be matched is stored under keys of its own subscription.
StoredUnderOwn ==
    \A k \in Keys : LET o == store["outbound"][k] IN o # None => o.sub = k.sub

\* Only a removal and a crash change which subscriptions there are, and only those and
\* a clearing change the clearings.
LEMMA LiveFrame ==
    ASSUME [Next]_vars, ~Crash
    PROVE  /\ live' \subseteq live
           /\ \/ clears' = clears
              \/ RunClear
              \/ \E s \in Removable : Unsubscribe(s)
BY DEF Next, vars, Handle, RunScheduler, RunSweep, RunClear, Deliver, Unsubscribe,
   Dispatch, SweepGet, SweepDel, ClearScan, ClearWrite, HandlerStep, FindRelayInbound,
   ClaimRelay, MatchHopOut, AnnounceSent, TryMatchOnOutbound, ClaimInbound,
   MatchOutbound, ClaimOutbound, TryHopMatchOnInbound, MatchRelayed, ClaimRelayed,
   StoreEntry, ScheduleSweep, untouched

\* ClearsAreRemoved is inductive.
LEMMA RemovedInductive ==
    /\ Init => ClearsAreRemoved
    /\ TypeInv /\ ClearsAreRemoved /\ [Next]_vars => ClearsAreRemoved'
<1>1. Init => ClearsAreRemoved
  BY DEF Init, ClearsAreRemoved
<1>2. ASSUME TypeInv, ClearsAreRemoved, [Next]_vars PROVE ClearsAreRemoved'
  <2>1. CASE Crash
    BY <2>1 DEF Crash, ClearsAreRemoved
  <2>2. CASE ~Crash /\ clears' = clears
    BY <1>2, <2>2, LiveFrame DEF ClearsAreRemoved
  <2>3. ASSUME NEW s \in Removable, Unsubscribe(s) PROVE ClearsAreRemoved'
    BY <1>2, <2>3 DEF Unsubscribe, ClearsAreRemoved
  <2>4. ASSUME NEW c \in clears, ClearScan(c) \/ ClearWrite(c) PROVE ClearsAreRemoved'
    <3>1. c \in Clear
      BY <1>2 DEF TypeInv, TypeOK
    <3>2. \A d \in clears' : \E e \in clears : d.sub = e.sub
      BY <2>4, <3>1 DEF ClearScan, ClearWrite, Clear
    <3>3. live' = live
      BY <2>4 DEF ClearScan, ClearWrite
    <3> QED BY <1>2, <3>2, <3>3 DEF ClearsAreRemoved
  <2> QED BY <1>2, <2>1, <2>2, <2>3, <2>4, LiveFrame DEF RunClear
<1> QED BY <1>1, <1>2

\* StoredUnderOwn is inductive: only StoreEntry adds entries.
LEMMA OwnInductive ==
    /\ Init => StoredUnderOwn
    /\ TypeInv /\ StoredUnderOwn /\ [Next]_vars => StoredUnderOwn'
<1>1. Init => StoredUnderOwn
  BY DEF Init, StoredUnderOwn, Stores
<1>2. ASSUME TypeInv, StoredUnderOwn, Shrinks PROVE StoredUnderOwn'
  BY <1>2 DEF Shrinks, StoredUnderOwn, Stores
<1>3. ASSUME TypeInv, StoredUnderOwn, NEW t \in running, StoreEntry(t) PROVE StoredUnderOwn'
  <2>1. t \in Handler /\ HandlerOK(t)
    BY <1>3, HandlerTypes
  <2>2. TargetStore(t) = "outbound" => \A k \in TargetKeys(t) : k.sub = t.msg.sub
    BY <2>1, MatchTarget DEF KeysAt, MatchingKey
  <2>3. \A k \in Keys : store'["outbound"][k] =
            IF TargetStore(t) = "outbound" /\ k \in TargetKeys(t) THEN t.msg ELSE store["outbound"][k]
    BY <1>3, StoreEntryWrites DEF Stores
  <2> QED BY <1>3, <2>2, <2>3 DEF StoredUnderOwn
<1>4. ASSUME TypeInv, StoredUnderOwn, [Next]_vars PROVE StoredUnderOwn'
  <2>1. CASE UNCHANGED vars
    BY <1>4, <2>1 DEF vars, StoredUnderOwn
  <2>2. CASE Next /\ ~Handle
    BY <1>2, <1>4, <2>2, OtherShrinks
  <2> QED BY <1>2, <1>3, <1>4, <2>1, <2>2, HandlerShrinks DEF Handle
<1> QED BY <1>1, <1>4

\* A notification adds one to its own count, and to no other.
LEMMA NotifyCounts ==
    ASSUME TypeInv, NEW m \in Note, Notify(m)
    PROVE  /\ notes'[m] > 0
           /\ \A n \in Note : n # m => notes'[n] = notes[n]
           /\ \A n \in Note : notes[n] > 0 => notes'[n] > 0
BY DEF Notify, TypeInv, TypeOK

\* Settled already, still stored, or in hand.
Settled(o) == notes[Timeout(o)] > 0 \/ \E i \in Ins : notes[Received(o, i)] > 0
Waiting(o) == \E k \in Keys : store["outbound"][k] = o
Accounted(o) == Settled(o) \/ Waiting(o) \/ InHand(o)

\* Of what was announced to a subscription that is there, the lost is what is not accounted
\* for.
LEMMA LostOrAccounted ==
    ASSUME TypeInv, NEW o \in Outs
    PROVE  Lost(o) <=> o.sub \in live /\ notes[Sent(o)] > 0 /\ ~Accounted(o)
<1>1. notes[Timeout(o)] \in Nat /\ \A i \in Ins : notes[Received(o, i)] \in Nat
  BY NoteTypes DEF TypeInv, TypeOK
<1> QED BY <1>1 DEF Lost, Accounted, Settled, Waiting

\* What a step notifies, if it does.
Tells ==
    \/ notes' = notes
    \/ \E t \in running : AnnounceSent(t)
    \/ \E n \in Note : n.type # "sent" /\ Notify(n)

\* Only the outbound handler announces.
LEMMA StepNotes ==
    ASSUME TypeInv, Next
    PROVE  Tells
<1>t. /\ \A o, i : Received(o, i).type = "received" /\ Relayed(o, i).type = "relayed"
                   /\ Hop(o, i).type = "hop"
      /\ \A o : Timeout(o).type = "timeout"
  BY DEF Received, Relayed, Hop, Timeout
<1>1. ASSUME NEW t \in running, HandlerStep(t)
      PROVE  Tells
  <2>0. t \in Handler /\ HandlerOK(t) /\ StoreOK
    BY HandlerTypes DEF TypeInv, TypeOK
  <2>1. CASE ClaimRelay(t)
    BY <1>t, <2>0, <2>1, NoteTypes DEF Tells, ClaimRelay, HandlerOK
  <2>2. CASE MatchHopOut(t)
    <3>1. t.msg \in Outs /\ HopKey(t.msg, t.msg.origin) \in Keys
      BY <2>0, <2>2, OutKeys DEF MatchHopOut, HandlerOK
    <3>2. store["hop"][HopKey(t.msg, t.msg.origin)] \in Outs \cup {None}
      BY <2>0, <3>1 DEF StoreOK, Stores, Holds
    <3> QED BY <1>t, <2>2, <3>1, <3>2, NoteTypes DEF Tells, MatchHopOut
  <2>3. CASE AnnounceSent(t)
    BY <2>3 DEF Tells
  <2>4. CASE ClaimInbound(t)
    BY <1>t, <2>0, <2>4, NoteTypes DEF Tells, ClaimInbound, HandlerOK
  <2>5. CASE ClaimOutbound(t)
    BY <1>t, <2>0, <2>5, NoteTypes DEF Tells, ClaimOutbound, HandlerOK
  <2>6. CASE TryHopMatchOnInbound(t)
    <3>1. t.msg \in Ins /\ HopKey(t.msg, t.msg.chain) \in Keys
      BY <2>0, <2>6, InKeys DEF TryHopMatchOnInbound, HandlerOK
    <3>2. store["hop"][HopKey(t.msg, t.msg.chain)] \in Outs \cup {None}
      BY <2>0, <3>1 DEF StoreOK, Stores, Holds
    <3> QED BY <1>t, <2>6, <3>1, <3>2, NoteTypes DEF Tells, TryHopMatchOnInbound
  <2>7. CASE ClaimRelayed(t)
    BY <1>t, <2>0, <2>7, NoteTypes DEF Tells, ClaimRelayed, HandlerOK
  <2> QED BY <1>1, <2>1, <2>2, <2>3, <2>4, <2>5, <2>6, <2>7 DEF Tells, HandlerStep,
          FindRelayInbound, TryMatchOnOutbound, MatchOutbound, MatchRelayed, StoreEntry,
          ScheduleSweep
<1>2. ASSUME NEW w \in sweeps, SweepDel(w)
      PROVE  Tells
  <2>1. w.task.store = "outbound" => w.item \in Outs
    BY <1>2 DEF SweepDel, TypeInv, Holds
  <2> QED BY <1>t, <1>2, <2>1, NoteTypes DEF Tells, SweepDel
<1> QED BY <1>1, <1>2 DEF Tells, Next, Handle, RunScheduler, RunSweep, RunClear, Deliver,
        Unsubscribe, Dispatch, SweepGet, ClearScan, ClearWrite, Crash

\* What is settled stays so, whatever is notified.
LEMMA SettledStays ==
    ASSUME TypeInv, Next, NEW o \in Outs, Settled(o)
    PROVE  Settled(o)'
<1>1. CASE notes' = notes
  BY <1>1 DEF Settled
<1>2. ASSUME NEW n \in Note, Notify(n) PROVE Settled(o)'
  BY <1>2, NoteTypes, NotifyCounts DEF Settled
<1>3. ASSUME NEW t \in running, AnnounceSent(t) PROVE Settled(o)'
  <2>1. Sent(t.msg) \in Note
    BY <1>3, HandlerTypes, NoteTypes DEF AnnounceSent, HandlerOK
  <2> QED BY <1>2, <1>3, <2>1 DEF AnnounceSent
<1> QED BY <1>1, <1>2, <1>3, StepNotes DEF Tells

\* The exceptions of OnlyNeighboursLose other than a crash.
Excused(o) ==
    \/ \E c \in clears : ClearWrite(c) /\ c.sub # o.sub /\ o.sub \in Prefixed[c.sub]
    \/ Displaced(o)

\* Outside the handlers, only a sweep or a clearing takes an entry: a sweep reports the one
\* it read, and a clearing is of another subscription as long as this one is there.
LEMMA KeptOutside ==
    ASSUME TypeInv, ScannedByPrefix, ClearsAreRemoved, StoredUnderOwn, Next, ~Handle, ~Crash,
           NEW o \in Outs, o.sub \in live, Waiting(o) \/ InHand(o)
    PROVE  Settled(o)' \/ Waiting(o)' \/ InHand(o)' \/ Excused(o)
<1>0. StoreOK /\ sweeps \subseteq Sweep /\ clears \subseteq Clear
  BY DEF TypeInv, TypeOK
<1>1. ASSUME NEW w \in sweeps, SweepDel(w), w.item = o, w.task.store = "outbound"
      PROVE  Settled(o)'
  BY <1>1, NoteTypes, NotifyCounts DEF SweepDel, Settled
<1>2. ASSUME NEW k \in Keys, store["outbound"][k] = o, store'["outbound"][k] # o
      PROVE  Settled(o)' \/ Excused(o)
  <2>1. ASSUME NEW w \in sweeps, SweepDel(w) PROVE Settled(o)' \/ Excused(o)
    <3>1. w.task.store \in Stores
      BY <1>0 DEF Sweep, Task
    <3>2. w.task.store = "outbound"
      BY <1>0, <1>2, <2>1, <3>1, DelLemma DEF SweepDel, Stores
    <3>3. CASE w.item = o
      BY <1>1, <2>1, <3>2, <3>3
    <3>4. CASE w.item # o
      BY <2>1, <3>4 DEF Excused, Displaced
    <3> QED BY <3>3, <3>4
  <2>2. ASSUME NEW c \in clears, ClearWrite(c) PROVE Excused(o)
    <3>1. ClearOrder[c.at] \in Stores
      BY <1>0 DEF Clear, ClearOrder, Stores
    <3>2. k \in c.keys
      BY <1>0, <1>2, <2>2, <3>1, DelLemma DEF ClearWrite, Stores
    <3>3. k.sub = o.sub /\ k.sub \in Prefixed[c.sub]
      BY <1>2, <3>2, ValuesAssumption DEF StoredUnderOwn, ScannedByPrefix, Msgs
    <3> QED BY <2>2, <3>3 DEF ClearsAreRemoved, Excused
  <2> QED BY <1>2, <2>1, <2>2 DEF Next, RunScheduler, RunSweep, RunClear, Deliver,
          Unsubscribe, Dispatch, SweepGet, ClearScan
<1>3. ASSUME NEW t \in running, Holding(t, o) PROVE InHand(o)'
  <2>1. running \subseteq running'
    BY DEF Next, RunScheduler, RunSweep, RunClear, Deliver, Unsubscribe, Dispatch,
       SweepGet, SweepDel, ClearScan, ClearWrite
  <2> QED BY <1>3, <2>1 DEF InHand, Holding, LastLeg
<1>4. ASSUME NEW w \in sweeps, w.task.store = "outbound", w.item = o
      PROVE  Settled(o)' \/ InHand(o)'
  <2>1. o # None
    BY ValuesAssumption DEF Msgs
  <2>2. SweepDel(w) \/ w \in sweeps'
    BY <1>4, <2>1 DEF Next, RunScheduler, RunSweep, RunClear, Deliver, Unsubscribe,
       Dispatch, SweepGet, SweepDel, ClearScan, ClearWrite
  <2> QED BY <1>1, <1>4, <2>2 DEF InHand
<1> QED BY <1>2, <1>3, <1>4 DEF Waiting, InHand

\* A handler moves on with what it holds until it is stored or received.
LEMMA KeptByHolder ==
    ASSUME TypeInv, NEW t \in running, HandlerStep(t), NEW o \in Outs, Holding(t, o)
    PROVE  Settled(o)' \/ Waiting(o)' \/ InHand(o)'
<1>0. t \in Handler /\ HandlerOK(t) /\ StoreOK
  BY HandlerTypes DEF TypeInv, TypeOK
<1>a. ASSUME NEW pc \in {"put", "schedule", "claimInbound"}, NEW u, Become(t, u),
             u.msg = o, u.pc = pc, pc = "schedule" => ~LastLeg(u)
      PROVE  InHand(o)'
  BY <1>a DEF Become, InHand, Holding, LastLeg
<1>1. CASE TryMatchOnOutbound(t)
  <2>1. t.msg = o
    BY <1>1 DEF TryMatchOnOutbound, Holding
  <2>2. CASE Goto(t, "put")
    <3>1. [t EXCEPT !.pc = "put"].pc = "put" /\ [t EXCEPT !.pc = "put"].msg = o
      BY <1>0, <2>1 DEF Handler
    <3> QED BY <1>a, <2>2, <3>1 DEF Goto
  <2>3. ASSUME NEW m, GotoWith(t, "claimInbound", m) PROVE InHand(o)'
    <3>1. /\ [t EXCEPT !.pc = "claimInbound", !.got = m].pc = "claimInbound"
          /\ [t EXCEPT !.pc = "claimInbound", !.got = m].msg = o
      BY <1>0, <2>1 DEF Handler
    <3> QED BY <1>a, <2>3, <3>1 DEF GotoWith
  <2> QED BY <1>1, <2>2, <2>3 DEF TryMatchOnOutbound
<1>2. CASE ClaimInbound(t)
  BY <1>0, <1>2, NoteTypes, NotifyCounts DEF ClaimInbound, HandlerOK, Settled, Holding
<1>3. CASE ClaimOutbound(t)
  BY <1>0, <1>3, NoteTypes, NotifyCounts DEF ClaimOutbound, HandlerOK, Settled, Holding
<1>4. CASE StoreEntry(t)
  <2>1. t.msg = o /\ o.kind = "out"
    BY <1>4, KindsDiffer DEF StoreEntry, Holding
  <2>2. CASE LastLeg(t)
    <3>1. TargetStore(t) = "outbound" /\ TargetKeys(t) = KeysAt(o, o.stops[t.leg])
      BY <2>1, <2>2 DEF TargetStore, TargetKeys
    <3>2. MatchingKey(o.sub, o.stops[t.leg], o.hash) \in TargetKeys(t)
      BY <3>1, OutFields, ValuesAssumption DEF KeysAt
    <3>3. TargetKeys(t) \subseteq Keys
      BY <1>0, TargetLemma
    <3> QED BY <1>4, <2>1, <3>1, <3>2, <3>3, StoreEntryWrites DEF Waiting, Stores
  <2>3. CASE ~LastLeg(t)
    <3> DEFINE u == [t EXCEPT !.pc = "schedule"]
    <3>0. u.pc = "schedule" /\ u.msg = t.msg /\ u.leg = t.leg
      BY <1>0 DEF Handler
    <3>1. u.msg = o /\ ~LastLeg(u)
      BY <2>1, <2>3, <3>0 DEF LastLeg
    <3>2. Become(t, u)
      BY <1>4 DEF StoreEntry, Goto
    <3> HIDE DEF u
    <3> QED BY <1>a, <3>0, <3>1, <3>2
  <2> QED BY <2>2, <2>3
<1>5. CASE ScheduleSweep(t)
  <2>1. t.msg = o /\ ~LastLeg(t)
    BY <1>5 DEF ScheduleSweep, Holding
  <2> DEFINE u == [t EXCEPT !.pc = "put", !.leg = @ + 1]
  <2>2. u.pc = "put" /\ u.msg = o
    BY <1>0, <2>1 DEF Handler
  <2>3. Become(t, u)
    BY <1>5, <2>1 DEF ScheduleSweep
  <2> HIDE DEF u
  <2> QED BY <1>a, <2>2, <2>3
<1>6. t.pc \in {"getInbound", "claimInbound", "put", "schedule", "claimOutbound"}
  BY DEF Holding
<1> QED BY <1>1, <1>2, <1>3, <1>4, <1>5, <1>6 DEF HandlerStep, FindRelayInbound,
        ClaimRelay, MatchHopOut, AnnounceSent, MatchOutbound, TryHopMatchOnInbound,
        MatchRelayed, ClaimRelayed

\* A handler takes the entry of another message than the one it stores or matched only in
\* the ways named, and leaves what others hold.
LEMMA KeptByHandler ==
    ASSUME TypeInv, NEW t \in running, HandlerStep(t), NEW o \in Outs, Waiting(o) \/ InHand(o)
    PROVE  Settled(o)' \/ Waiting(o)' \/ InHand(o)' \/ Excused(o)
<1>0. t \in Handler /\ HandlerOK(t) /\ StoreOK
  BY HandlerTypes DEF TypeInv, TypeOK
<1>1. ASSUME NEW k \in Keys, store["outbound"][k] = o, store'["outbound"][k] # o
      PROVE  Settled(o)' \/ Excused(o)
  <2>1. CASE StoreEntry(t)
    <3>1. t.msg # o
      BY <1>1, <2>1, StoreEntryWrites DEF Stores
    <3> QED BY <2>1, <3>1 DEF Excused, Displaced
  <2>2. CASE ClaimOutbound(t)
    <3>1. CASE t.got = o
      BY <1>0, <2>2, <3>1, NoteTypes, NotifyCounts DEF ClaimOutbound, HandlerOK, Settled
    <3>2. CASE t.got # o
      BY <2>2, <3>2 DEF Excused, Displaced
    <3> QED BY <3>1, <3>2
  <2>3. CASE ClaimRelay(t) \/ ClaimInbound(t) \/ ClaimRelayed(t)
    BY <1>0, <1>1, <2>3, DelLemma DEF ClaimRelay, ClaimInbound, ClaimRelayed, Stores
  <2> QED BY <1>1, <2>1, <2>2, <2>3 DEF HandlerStep, FindRelayInbound, MatchHopOut,
          AnnounceSent, TryMatchOnOutbound, MatchOutbound, TryHopMatchOnInbound,
          MatchRelayed, ScheduleSweep
<1>2. ASSUME NEW u \in running, Holding(u, o), u # t PROVE InHand(o)'
  <2>1. u \in running'
    BY <1>2, HandlerMoves DEF Become, Release
  <2> QED BY <1>2, <2>1 DEF InHand, Holding, LastLeg
<1>3. ASSUME NEW w \in sweeps, w.task.store = "outbound", w.item = o PROVE InHand(o)'
  <2>1. sweeps' = sweeps
    BY DEF HandlerStep, FindRelayInbound, ClaimRelay, MatchHopOut, AnnounceSent,
       TryMatchOnOutbound, ClaimInbound, MatchOutbound, ClaimOutbound,
       TryHopMatchOnInbound, MatchRelayed, ClaimRelayed, StoreEntry, ScheduleSweep,
       untouched
  <2> QED BY <1>3, <2>1 DEF InHand
<1> QED BY <1>1, <1>2, <1>3, KeptByHolder DEF Waiting, InHand

\* What is announced is in the hands of the handler that announces it.
LEMMA AnnouncedInHand ==
    ASSUME TypeInv, Next, ~Crash, NEW o \in Outs, notes[Sent(o)] = 0, notes'[Sent(o)] > 0
    PROVE  InHand(o)'
<1>1. ASSUME NEW n \in Note, n.type # "sent", Notify(n) PROVE FALSE
  <2>1. Sent(o).type = "sent"
    BY DEF Sent
  <2> QED BY <1>1, <2>1, NoteTypes, NotifyCounts
<1>2. PICK t \in running : AnnounceSent(t)
  BY <1>1, StepNotes DEF Tells
<1>3. t \in Handler /\ t.msg \in Outs
  BY <1>2, HandlerTypes DEF AnnounceSent, HandlerOK
<1>4. t.msg = o
  <2>1. Sent(t.msg) = Sent(o)
    BY <1>2, <1>3, NoteTypes, NotifyCounts DEF AnnounceSent
  <2> QED BY <2>1 DEF Sent
<1> DEFINE u == [t EXCEPT !.pc = "getInbound"]
<1>5. u.msg = o /\ u.pc = "getInbound"
  BY <1>3, <1>4 DEF Handler
<1>6. u \in running'
  BY <1>2 DEF AnnounceSent, Goto, Become
<1> HIDE DEF u
<1> QED BY <1>5, <1>6 DEF InHand, Holding

\* As long as the process does not crash, a message announced to a subscription that is
\* there stays stored or in hand until it is received or times out, whatever the
\* interleaving; only the removal of a subscription whose id is the beginning of its own,
\* and another message under one of its keys, take it away.
THEOREM NeighboursLose == Spec => OnlyNeighboursLose
<1> DEFINE Loses(o) ==
      Lost(o)' /\ ~Lost(o) =>
          \/ crashes' > crashes
          \/ \E c \in clears : ClearWrite(c) /\ c.sub # o.sub /\ o.sub \in Prefixed[c.sub]
          \/ Displaced(o)
<1> DEFINE Inv == TypeInv /\ ScannedByPrefix /\ ClearsAreRemoved /\ StoredUnderOwn
<1>1. ASSUME Inv, [Next]_vars, NEW o \in Outs PROVE [Loses(o)]_vars
  <2> SUFFICES ASSUME Next, Lost(o)', ~Lost(o), ~Excused(o), ~(crashes' > crashes)
               PROVE  FALSE
    BY <1>1 DEF Excused
  <2>1. TypeInv'
    BY <1>1, TypeInductive
  <2>2. ~Crash
    BY <1>1, ValuesAssumption DEF Crash, TypeInv, TypeOK
  <2>3. o.sub \in live' /\ notes'[Sent(o)] > 0 /\ ~Accounted(o)'
    <3>1. notes'[Timeout(o)] \in Nat /\ \A i \in Ins : notes'[Received(o, i)] \in Nat
      BY <2>1, NoteTypes DEF TypeInv, TypeOK
    <3> QED BY <3>1 DEF Lost, Accounted, Settled, Waiting
  <2>4. o.sub \in live
    BY <2>2, <2>3, LiveFrame
  <2>5. notes[Sent(o)] > 0
    BY <1>1, <2>2, <2>3, NoteTypes, AnnouncedInHand DEF Accounted, TypeInv, TypeOK
  <2>6. Accounted(o)
    BY <1>1, <2>4, <2>5, LostOrAccounted
  <2>7. Settled(o) => Settled(o)'
    BY <1>1, SettledStays
  <2>8. Waiting(o) \/ InHand(o) => Accounted(o)'
    BY <1>1, <2>2, <2>4, KeptOutside, KeptByHandler DEF Accounted, Handle
  <2> QED BY <2>3, <2>6, <2>7, <2>8 DEF Accounted
<1>2. Inv /\ [Next]_vars => [\A o \in Outs : Loses(o)]_vars
  BY <1>1
<1> QED BY <1>2, TypeInductive, ScannedInductive, RemovedInductive, OwnInductive, PTL
        DEF Spec, OnlyNeighboursLose
(* Hops *)

\* The legs of a journey that end at a hop, for those with a topic id; the key of that id.
HopLegs(o) == IF o.id = NoId THEN {} ELSE 1..(Len(o.stops) - 1)
IdKey(o, l) == MatchingKey(o.sub, o.stops[l], o.id)

\* What has the id of a journey at one of its hops is observed after its origin, and is of
\* this journey: an inbound there has the id as its id, not as its hash only, and no
\* outbound stops there for another journey of that id, or for another leg.
JourneysApart ==
    \A o \in Outs : \A l \in HopLegs(o) :
        /\ \A m \in Outs : m.id # NoId /\ HopKey(m, m.origin) = IdKey(o, l) => <<o, m>> \in Before
        /\ \A i \in Ins : IdKey(o, l) \in KeysAt(i, i.chain) =>
              HopKey(i, i.chain) = IdKey(o, l) /\ <<o, i>> \in Before
        /\ \A p \in Outs : \A n \in 1..(Len(p.stops) - 1) :
              IdKey(o, l) \in KeysAt(p, p.stops[n]) => p = o /\ n = l

\* The task of a hop, and that of a hop by its id.
OfLeg(j) ==
    /\ j.msg \in Outs /\ j.leg \in 1..(Len(j.msg.stops) - 1) /\ j.nth = 1
    /\ j.key \in KeysAt(j.msg, j.msg.stops[j.leg])
OfId(j) == j.store = "hop" /\ j.key.ref = j.msg.id

\* A task of a hop is of a leg its handler is past.
LegIsPast(j) ==
    j.store = "hop" =>
        /\ OfLeg(j) /\ seen[j.msg] > 0
        /\ \A t \in running : t.msg = j.msg => j.leg < t.leg

\* Until the task of a hop is dispatched its entry is there, what would match it is neither
\* announced nor stored, and no inbound is about to be.
Guarded(j) ==
    /\ store["hop"][j.key] # None
    /\ \A w \in sweeps : w.task # j
    /\ \A o \in Outs : o.id # NoId /\ HopKey(o, o.origin) = j.key => notes[Sent(o)] = 0
    /\ store["inbound"][j.key] = None
    /\ \A t \in running : t.pc = "put" /\ t.msg \in Ins => j.key \notin KeysAt(t.msg, t.msg.chain)

\* What a handler may not have been overtaken by is still to come; the entry it is about to
\* schedule is there.
IsFirst(t) ==
    /\ seen[t.msg] > 0 /\ t.nth = 1
    /\ \A m \in Msgs : <<t.msg, m>> \in Before => seen[m] = 0
    /\ t.pc = "schedule" /\ TargetStore(t) = "hop" =>
          \A k \in TargetKeys(t) : k.ref = t.msg.id => store["hop"][k] # None

\* What was announced or stored was seen, after what comes before it.
WasSeen ==
    /\ \A p \in Before : seen[p[2]] > 0 => seen[p[1]] > 0
    /\ \A o \in Outs : notes[Sent(o)] > 0 => seen[o] > 0
    /\ \A k \in Keys : LET i == store["inbound"][k]
                       IN  i # None => seen[i] > 0 /\ k \in KeysAt(i, i.chain)

\* HopsAreRecognised, strengthened to be inductive (with TypeInv and MatchInv).
HopInv ==
    /\ clears = {}
    /\ WasSeen
    /\ \A t \in running : IsFirst(t)
    /\ \A j \in tasks : LegIsPast(j) /\ (OfId(j) => Guarded(j))
    /\ \A w \in sweeps : LegIsPast(w.task)

\* What is known of a hop by its id.
LEMMA IdOfLeg ==
    ASSUME JourneysApart, NEW j, OfLeg(j), j.key.ref = j.msg.id
    PROVE  /\ \A m \in Outs : m.id # NoId /\ HopKey(m, m.origin) = j.key => <<j.msg, m>> \in Before
           /\ \A i \in Ins : j.key \in KeysAt(i, i.chain) =>
                 HopKey(i, i.chain) = j.key /\ <<j.msg, i>> \in Before
           /\ \A p \in Outs : \A n \in 1..(Len(p.stops) - 1) :
                 j.key \in KeysAt(p, p.stops[n]) => p = j.msg /\ n = j.leg
<1>1. PICK r \in {j.msg.hash, j.msg.id} \ {NoId} :
         j.key = MatchingKey(j.msg.sub, j.msg.stops[j.leg], r)
  BY DEF OfLeg, KeysAt
<1>2. r = j.msg.id
  BY <1>1 DEF MatchingKey
<1>3. j.msg \in Outs /\ j.leg \in HopLegs(j.msg) /\ j.key = IdKey(j.msg, j.leg)
  BY <1>1, <1>2 DEF OfLeg, HopLegs, IdKey
<1> QED BY <1>3 DEF JourneysApart

\* A hop by its id has one task.
LEMMA OneTask ==
    ASSUME JourneysApart, NEW j, OfLeg(j), j.key.ref = j.msg.id, NEW i, OfLeg(i), i.key = j.key
    PROVE  i.msg = j.msg /\ i.leg = j.leg /\ i.nth = j.nth
<1>1. i.msg \in Outs /\ i.leg \in 1..(Len(i.msg.stops) - 1) /\ j.key \in KeysAt(i.msg, i.msg.stops[i.leg])
  BY DEF OfLeg
<1> QED BY <1>1, IdOfLeg DEF OfLeg

LEMMA SameTask ==
    ASSUME NEW i \in Task, NEW j \in Task, i.store = j.store, i.key = j.key, i.msg = j.msg,
           i.nth = j.nth, i.leg = j.leg
    PROVE  i = j
BY DEF Task

\* The handler that runs, after a step that takes it to another point, or ends it.
LEMMA GotoKeeps ==
    ASSUME TypeInv, MatchInv, NEW t \in running, NEW pc
    PROVE  LET Kept == \A u \in running' : /\ u.pc = pc /\ u.msg = t.msg
                                           /\ u.leg = t.leg /\ u.nth = t.nth
           IN  /\ Goto(t, pc) => Kept
               /\ \A m : GotoWith(t, pc, m) => Kept
               /\ Release(t) => Kept /\ running' = {}
<1>1. t \in Handler /\ running = {t}
  BY HandlerTypes DEF MatchInv
<1>2. ASSUME NEW u, u = [t EXCEPT !.pc = pc]
      PROVE  u.pc = pc /\ u.msg = t.msg /\ u.leg = t.leg /\ u.nth = t.nth
  BY <1>1, <1>2 DEF Handler
<1>3. ASSUME NEW m, NEW u, u = [t EXCEPT !.pc = pc, !.got = m]
      PROVE  u.pc = pc /\ u.msg = t.msg /\ u.leg = t.leg /\ u.nth = t.nth
  BY <1>1, <1>3 DEF Handler
<1> QED BY <1>1, <1>2, <1>3 DEF Goto, GotoWith, Become, Release

\* Only an announcement counts as one.
LEMMA OtherNotes ==
    ASSUME TypeInv, NEW n, n.type # "sent", Notify(n)
    PROVE  \A o \in Outs : notes'[Sent(o)] = notes[Sent(o)]
<1>1. \A o \in Outs : Sent(o) \in Note /\ Sent(o) # n
  <2>1. \A o : Sent(o).type = "sent"
    BY DEF Sent
  <2> QED BY <2>1, NoteTypes
<1> QED BY <1>1 DEF Notify, TypeInv, TypeOK

\* The parts of HopInv that the handlers and the sweeps may disturb.
EntriesStay ==
    /\ \A k \in Keys : store'["inbound"][k] = None \/ store'["inbound"][k] = store["inbound"][k]
    /\ \A k \in Keys : store["hop"][k] # None => store'["hop"][k] # None

\* The handler that runs goes on, and neither stores nor schedules.
LEMMA HandlerGoes ==
    ASSUME TypeInv, MatchInv, HopInv, NEW t \in running, UNCHANGED untouched, EntriesStay,
           \A o \in Outs : notes'[Sent(o)] = notes[Sent(o)] \/
               (o = t.msg /\ \A j \in tasks : OfId(j) => ~(o.id # NoId /\ HopKey(o, o.origin) = j.key)),
           NEW pc, pc # "schedule",
           \A u \in running' : u.pc = pc /\ u.msg = t.msg /\ u.leg = t.leg /\ u.nth = t.nth,
           pc = "put" /\ t.msg \in Ins =>
               \A j \in tasks : OfId(j) => j.key \notin KeysAt(t.msg, t.msg.chain)
    PROVE  HopInv'
<1>0. IsFirst(t) /\ WasSeen /\ StoreOK /\ tasks \subseteq Task
  BY DEF HopInv, TypeInv, TypeOK
<1>1. UNCHANGED <<seen, clears, tasks, sweeps>>
  BY DEF untouched
<1>2. \A u \in running' : IsFirst(u)'
  BY <1>0, <1>1 DEF IsFirst
<1>3. \A j : LegIsPast(j) => LegIsPast(j)'
  BY <1>1 DEF LegIsPast, OfLeg
<1>4. WasSeen'
  <2>1. \A o \in Outs : notes'[Sent(o)] > 0 => seen'[o] > 0
    BY <1>0, <1>1 DEF WasSeen, IsFirst
  <2>2. \A k \in Keys : store'["inbound"][k] # None =>
           /\ seen'[store'["inbound"][k]] > 0
           /\ k \in KeysAt(store'["inbound"][k], store'["inbound"][k].chain)
    BY <1>0, <1>1 DEF WasSeen, EntriesStay
  <2> QED BY <1>0, <1>1, <2>1, <2>2 DEF WasSeen
<1>5. ASSUME NEW j \in tasks, OfId(j), Guarded(j)
      PROVE  Guarded(j)'
  <2>1. j.key \in Keys
    BY <1>0 DEF Task
  <2>2. store'["hop"][j.key] # None /\ store'["inbound"][j.key] = None
    BY <1>5, <2>1 DEF Guarded, EntriesStay
  <2>3. \A o \in Outs : o.id # NoId /\ HopKey(o, o.origin) = j.key => notes'[Sent(o)] = 0
    BY <1>5 DEF Guarded
  <2>4. \A u \in running' : u.pc = "put" /\ u.msg \in Ins => j.key \notin KeysAt(u.msg, u.msg.chain)
    BY <1>5
  <2> QED BY <1>1, <1>5, <2>2, <2>3, <2>4 DEF Guarded
<1> QED BY <1>1, <1>2, <1>3, <1>4, <1>5 DEF HopInv, OfId

\* A step that deletes elsewhere than in hops takes nothing from them.
LEMMA DelElsewhere ==
    ASSUME StoreOK, NEW s \in Stores, s # "hop", NEW ks, Del(s, ks)
    PROVE  EntriesStay
BY DelLemma DEF EntriesStay, Stores

LEMMA HopOutbound ==
    ASSUME TypeInv, MatchInv, HopInv, NEW t \in running,
           \/ FindRelayInbound(t) \/ ClaimRelay(t) \/ MatchHopOut(t)
           \/ AnnounceSent(t) \/ TryMatchOnOutbound(t) \/ ClaimInbound(t)
    PROVE  HopInv'
<1>0. t.msg \in Outs /\ t.msg \notin Ins /\ StoreOK
  BY HandlerTypes, KindsDiffer
     DEF HandlerOK, TypeInv, TypeOK, FindRelayInbound, ClaimRelay, MatchHopOut,
         AnnounceSent, TryMatchOnOutbound, ClaimInbound
<1>s. store' = store => EntriesStay
  BY DEF EntriesStay
<1>1. CASE FindRelayInbound(t)
  <2>1. UNCHANGED <<untouched, store, notes>>
    BY <1>1 DEF FindRelayInbound
  <2>2. PICK pc \in {"claimRelay", "hopOut"} :
          \A u \in running' : u.pc = pc /\ u.msg = t.msg /\ u.leg = t.leg /\ u.nth = t.nth
    BY <1>1, GotoKeeps DEF FindRelayInbound
  <2> QED BY <1>0, <1>s, <2>1, <2>2, HandlerGoes
<1>2. CASE ClaimRelay(t)
  <2>1. UNCHANGED untouched /\ \A o \in Outs : notes'[Sent(o)] = notes[Sent(o)]
    BY <1>2, OtherNotes DEF ClaimRelay, Relayed
  <2>2. EntriesStay
    BY <1>0, <1>2, DelElsewhere DEF ClaimRelay, Stores
  <2>3. \A u \in running' : u.pc = "hopOut" /\ u.msg = t.msg /\ u.leg = t.leg /\ u.nth = t.nth
    BY <1>2, GotoKeeps DEF ClaimRelay
  <2> QED BY <1>0, <2>1, <2>2, <2>3, HandlerGoes
<1>3. CASE MatchHopOut(t)
  <2>1. UNCHANGED <<untouched, store>> /\ \A o \in Outs : notes'[Sent(o)] = notes[Sent(o)]
    BY <1>3, OtherNotes DEF MatchHopOut, Hop
  <2>2. running' = {}
    BY <1>3, GotoKeeps DEF MatchHopOut
  <2> QED BY <1>0, <1>s, <2>1, <2>2, HandlerGoes
<1>4. CASE AnnounceSent(t)
  <2>1. UNCHANGED <<untouched, store>>
    BY <1>4 DEF AnnounceSent
  <2>2. \A j \in tasks : OfId(j) => ~(t.msg.id # NoId /\ HopKey(t.msg, t.msg.origin) = j.key)
    BY <1>4 DEF AnnounceSent, HopInv, Guarded
  <2>3. \A u \in running' : u.pc = "getInbound" /\ u.msg = t.msg /\ u.leg = t.leg /\ u.nth = t.nth
    BY <1>4, GotoKeeps DEF AnnounceSent
  <2>4. \A o \in Outs : notes'[Sent(o)] = notes[Sent(o)] \/ o = t.msg
    <3>1. \A o \in Outs : Sent(o).out = o /\ Sent(o) \in Note
      BY NoteTypes DEF Sent
    <3> QED BY <1>0, <1>4, <3>1 DEF AnnounceSent, Notify, TypeInv, TypeOK
  <2> QED BY <1>0, <1>s, <2>1, <2>2, <2>3, <2>4, HandlerGoes
<1>5. CASE TryMatchOnOutbound(t)
  <2>1. UNCHANGED <<untouched, store, notes>>
    BY <1>5 DEF TryMatchOnOutbound
  <2>2. PICK pc \in {"claimInbound", "put"} :
          \A u \in running' : u.pc = pc /\ u.msg = t.msg /\ u.leg = t.leg /\ u.nth = t.nth
    BY <1>5, GotoKeeps DEF TryMatchOnOutbound
  <2> QED BY <1>0, <1>s, <2>1, <2>2, HandlerGoes
<1>6. CASE ClaimInbound(t)
  <2>1. UNCHANGED untouched /\ \A o \in Outs : notes'[Sent(o)] = notes[Sent(o)]
    BY <1>6, OtherNotes DEF ClaimInbound, Received
  <2>2. EntriesStay
    BY <1>0, <1>6, DelElsewhere DEF ClaimInbound, Stores
  <2>3. running' = {}
    BY <1>6, GotoKeeps DEF ClaimInbound
  <2> QED BY <1>0, <2>1, <2>2, <2>3, HandlerGoes
<1> QED BY <1>1, <1>2, <1>3, <1>4, <1>5, <1>6

LEMMA HopOthers ==
    ASSUME TypeInv, MatchInv, HopInv, JourneysApart, NEW t \in running,
           \/ MatchOutbound(t) \/ ClaimOutbound(t) \/ TryHopMatchOnInbound(t)
           \/ MatchRelayed(t) \/ ClaimRelayed(t)
    PROVE  HopInv'
<1>0. t.msg \notin Outs /\ StoreOK
  BY HandlerTypes, KindsDiffer
     DEF HandlerOK, TypeInv, TypeOK, MatchOutbound, ClaimOutbound, TryHopMatchOnInbound,
         MatchRelayed, ClaimRelayed
<1>s. store' = store => EntriesStay
  BY DEF EntriesStay
<1>1. CASE MatchOutbound(t)
  <2>1. UNCHANGED <<untouched, store, notes>>
    BY <1>1 DEF MatchOutbound
  <2>2. PICK pc \in {"claimOutbound", "hopIn"} :
          \A u \in running' : u.pc = pc /\ u.msg = t.msg /\ u.leg = t.leg /\ u.nth = t.nth
    BY <1>1, GotoKeeps DEF MatchOutbound
  <2> QED BY <1>s, <2>1, <2>2, HandlerGoes
<1>2. CASE ClaimOutbound(t)
  <2>1. UNCHANGED untouched /\ \A o \in Outs : notes'[Sent(o)] = notes[Sent(o)]
    BY <1>2, OtherNotes DEF ClaimOutbound, Received
  <2>2. EntriesStay
    BY <1>0, <1>2, DelElsewhere DEF ClaimOutbound, Stores
  <2>3. running' = {}
    BY <1>2, GotoKeeps DEF ClaimOutbound
  <2> QED BY <2>1, <2>2, <2>3, HandlerGoes
<1>3. CASE TryHopMatchOnInbound(t)
  <2>1. UNCHANGED <<untouched, store>>
    BY <1>3 DEF TryHopMatchOnInbound
  <2>2. CASE store["hop"][HopKey(t.msg, t.msg.chain)] # None
    <3>1. \A o \in Outs : notes'[Sent(o)] = notes[Sent(o)]
      BY <1>3, <2>2, OtherNotes DEF TryHopMatchOnInbound, Hop
    <3>2. running' = {}
      BY <1>3, <2>2, GotoKeeps DEF TryHopMatchOnInbound
    <3> QED BY <1>s, <2>1, <3>1, <3>2, HandlerGoes
  <2>3. CASE store["hop"][HopKey(t.msg, t.msg.chain)] = None
    <3>1. UNCHANGED notes
      BY <1>3, <2>3 DEF TryHopMatchOnInbound
    <3>2. \A u \in running' : u.pc = "put" /\ u.msg = t.msg /\ u.leg = t.leg /\ u.nth = t.nth
      BY <1>3, <2>3, GotoKeeps DEF TryHopMatchOnInbound
    <3>3. t.msg \in Ins
      BY <1>3, HandlerTypes DEF TryHopMatchOnInbound, HandlerOK
    <3>4. ASSUME NEW j \in tasks, OfId(j)
          PROVE  j.key \notin KeysAt(t.msg, t.msg.chain)
      <4>1. store["hop"][j.key] # None /\ OfLeg(j) /\ j.key.ref = j.msg.id
        BY <3>4 DEF HopInv, Guarded, LegIsPast, OfId
      <4> QED BY <2>3, <3>3, <4>1, IdOfLeg
    <3> QED BY <1>s, <2>1, <3>1, <3>2, <3>4, HandlerGoes
  <2> QED BY <2>2, <2>3
<1>4. CASE MatchRelayed(t)
  <2>1. UNCHANGED <<untouched, store, notes>> /\ t.msg \notin Ins
    BY <1>4, HandlerTypes, KindsDiffer DEF MatchRelayed, HandlerOK
  <2>2. PICK pc \in {"claimRelayed", "put"} :
          \A u \in running' : u.pc = pc /\ u.msg = t.msg /\ u.leg = t.leg /\ u.nth = t.nth
    BY <1>4, GotoKeeps DEF MatchRelayed
  <2> QED BY <1>s, <2>1, <2>2, HandlerGoes
<1>5. CASE ClaimRelayed(t)
  <2>1. UNCHANGED untouched /\ \A o \in Outs : notes'[Sent(o)] = notes[Sent(o)]
    BY <1>5, OtherNotes DEF ClaimRelayed, Relayed
  <2>2. EntriesStay
    BY <1>0, <1>5, DelElsewhere DEF ClaimRelayed, Stores
  <2>3. running' = {}
    BY <1>5, GotoKeeps DEF ClaimRelayed
  <2> QED BY <2>1, <2>2, <2>3, HandlerGoes
<1> QED BY <1>1, <1>2, <1>3, <1>4, <1>5

\* An entry is stored: an inbound elsewhere than where a hop is awaited.
LEMMA HopStore ==
    ASSUME TypeInv, MatchInv, HopInv, NEW t \in running, StoreEntry(t)
    PROVE  HopInv'
<1>1. /\ t \in Handler /\ HandlerOK(t) /\ t.pc = "put" /\ IsFirst(t) /\ WasSeen
      /\ UNCHANGED <<untouched, notes>> /\ tasks \subseteq Task
  BY HandlerTypes DEF StoreEntry, HopInv, TypeInv, TypeOK
<1>2. \A s \in Stores, k \in Keys :
         store'[s][k] = IF s = TargetStore(t) /\ k \in TargetKeys(t) THEN t.msg ELSE store[s][k]
  BY StoreEntryWrites
<1>3. /\ UNCHANGED <<seen, clears, tasks, sweeps, notes>>
      /\ t.msg # None /\ t.msg \in Msgs
  BY <1>1, HandlerTypes, ValuesAssumption DEF untouched
<1>4. \A u \in running' : u.pc = "schedule" /\ u.msg = t.msg /\ u.leg = t.leg /\ u.nth = t.nth
  BY GotoKeeps DEF StoreEntry
<1>5. ASSUME NEW u \in running'
      PROVE  IsFirst(u)'
  <2>1. TargetStore(u) = TargetStore(t) /\ TargetKeys(u) = TargetKeys(t) /\ TargetKeys(t) \subseteq Keys
    BY <1>1, <1>4, <1>5, TargetLemma DEF TargetStore, TargetKeys, LastLeg
  <2>2. TargetStore(t) = "hop" => \A k \in TargetKeys(t) : store'["hop"][k] # None
    BY <1>2, <1>3, <2>1 DEF Stores
  <2> QED BY <1>1, <1>3, <1>4, <1>5, <2>1, <2>2 DEF IsFirst
<1>6. WasSeen'
  <2>1. ASSUME NEW k \in Keys, store'["inbound"][k] # None
        PROVE  /\ seen[store'["inbound"][k]] > 0
               /\ k \in KeysAt(store'["inbound"][k], store'["inbound"][k].chain)
    <3>1. CASE TargetStore(t) = "inbound" /\ k \in TargetKeys(t)
      <4>1. store'["inbound"][k] = t.msg
        BY <1>2, <3>1 DEF Stores
      <4> QED BY <1>1, <3>1, <4>1, MatchTarget DEF IsFirst
    <3>2. CASE ~(TargetStore(t) = "inbound" /\ k \in TargetKeys(t))
      BY <1>1, <1>2, <2>1, <3>2 DEF Stores, WasSeen
    <3> QED BY <3>1, <3>2
  <2> QED BY <1>1, <1>3, <2>1 DEF WasSeen
<1>7. ASSUME NEW j \in tasks, OfId(j), Guarded(j)
      PROVE  Guarded(j)'
  <2>1. j.key \in Keys
    BY <1>1 DEF Task
  <2>2. store'["hop"][j.key] # None
    BY <1>2, <1>3, <1>7, <2>1 DEF Guarded, Stores
  <2>3. store'["inbound"][j.key] = None
    <3>1. TargetStore(t) = "inbound" => j.key \notin TargetKeys(t)
      BY <1>1, <1>7, MatchTarget DEF Guarded
    <3> QED BY <1>2, <1>7, <2>1, <3>1 DEF Guarded, Stores
  <2> QED BY <1>3, <1>4, <1>7, <2>2, <2>3 DEF Guarded
<1>8. \A j : LegIsPast(j) => LegIsPast(j)'
  BY <1>3, <1>4 DEF LegIsPast, OfLeg
<1> QED BY <1>3, <1>5, <1>6, <1>7, <1>8 DEF HopInv, OfId

\* The task of a hop is scheduled: of an entry that is there, before anything that would
\* match it was seen.
LEMMA HopTasks ==
    ASSUME TypeInv, HopInv, JourneysApart, NEW t \in running, t.pc = "schedule",
           NEW j \in TasksOf(t), j.store = "hop"
    PROVE  /\ OfLeg(j) /\ seen[j.msg] > 0 /\ j.msg = t.msg /\ j.leg = t.leg
           /\ OfId(j) => /\ store["hop"][j.key] # None /\ store["inbound"][j.key] = None
                         /\ \A w \in sweeps : w.task # j
                         /\ \A o \in Outs : o.id # NoId /\ HopKey(o, o.origin) = j.key =>
                               notes[Sent(o)] = 0
<1>0. /\ t \in Handler /\ HandlerOK(t) /\ IsFirst(t) /\ WasSeen /\ seen \in [Msgs -> Nat]
      /\ notes \in [Note -> Nat] /\ StoreOK
  BY HandlerTypes, ValuesAssumption DEF HopInv, TypeInv, TypeOK
<1>1. PICK k \in TargetKeys(t) :
         j = [store |-> TargetStore(t), key |-> k, msg |-> t.msg, nth |-> t.nth, leg |-> t.leg]
  BY DEF TasksOf
<1>2. /\ TargetStore(t) = "hop" /\ j.key \in TargetKeys(t) /\ j.msg = t.msg /\ j.nth = 1
      /\ j.leg = t.leg
  BY <1>0, <1>1 DEF IsFirst
<1>3. t.msg \in Outs /\ t.msg.kind = "out" /\ j.key \in Keys
  BY <1>0, <1>2, TargetLemma, KindsDiffer
<1>4. TargetKeys(t) = KeysAt(t.msg, t.msg.stops[t.leg]) /\ t.leg # Len(t.msg.stops)
  BY <1>2, <1>3 DEF TargetKeys, TargetStore, LastLeg
<1>5. t.leg \in 1..(Len(t.msg.stops) - 1)
  BY <1>0, <1>3, <1>4, OutFields DEF HandlerOK
<1>6. OfLeg(j) /\ seen[j.msg] > 0
  BY <1>0, <1>2, <1>3, <1>4, <1>5 DEF OfLeg, IsFirst
<1>7. ASSUME OfId(j)
      PROVE  /\ store["hop"][j.key] # None /\ store["inbound"][j.key] = None
             /\ \A w \in sweeps : w.task # j
             /\ \A o \in Outs : o.id # NoId /\ HopKey(o, o.origin) = j.key => notes[Sent(o)] = 0
  <2>1. store["hop"][j.key] # None
    BY <1>0, <1>2, <1>7 DEF IsFirst, OfId
  <2>2. /\ \A o \in Outs : o.id # NoId /\ HopKey(o, o.origin) = j.key => seen[o] = 0
        /\ \A i \in Ins : j.key \in KeysAt(i, i.chain) => seen[i] = 0
    BY <1>0, <1>2, <1>6, <1>7, IdOfLeg DEF OfId, IsFirst, Msgs
  <2>3. \A o \in Outs : o.id # NoId /\ HopKey(o, o.origin) = j.key => notes[Sent(o)] = 0
    BY <1>0, <2>2, NoteTypes DEF WasSeen
  <2>4. store["inbound"][j.key] = None
    BY <1>0, <1>3, <2>2 DEF WasSeen, StoreOK, Holds, Stores
  <2>5. ASSUME NEW w \in sweeps, w.task = j
        PROVE  FALSE
    <3>1. LegIsPast(j)
      BY <2>5 DEF HopInv
    <3> QED BY <1>2, <1>5, <3>1 DEF LegIsPast
  <2> QED BY <2>1, <2>3, <2>4, <2>5
<1> QED BY <1>2, <1>6, <1>7

LEMMA HopSchedule ==
    ASSUME TypeInv, MatchInv, HopInv, JourneysApart, NEW t \in running, ScheduleSweep(t)
    PROVE  HopInv'
<1>1. /\ t \in Handler /\ t.pc = "schedule" /\ IsFirst(t) /\ WasSeen /\ running = {t}
      /\ UNCHANGED <<store, sweeps, seen, notes, clears>> /\ tasks' = tasks \cup TasksOf(t)
  BY HandlerTypes DEF ScheduleSweep, HopInv, MatchInv
<1>2. \A u \in running' : u.pc = "put" /\ u.msg = t.msg /\ u.leg = t.leg + 1 /\ u.nth = t.nth
                          /\ t.msg \in Outs /\ t.msg \notin Ins
  <2>1. CASE LastLeg(t)
    BY <1>1, <2>1 DEF ScheduleSweep, Release
  <2>2. CASE ~LastLeg(t)
    <3>1. t.msg \in Outs /\ t.msg \notin Ins
      BY <1>1, <2>2, KindsDiffer DEF LastLeg, Handler, Msgs
    <3> DEFINE u == [t EXCEPT !.pc = "put", !.leg = @ + 1]
    <3>2. u.pc = "put" /\ u.msg = t.msg /\ u.leg = t.leg + 1 /\ u.nth = t.nth
      BY <1>1 DEF Handler
    <3>3. running' = {u}
      BY <1>1, <2>2 DEF ScheduleSweep, Become
    <3> HIDE DEF u
    <3> QED BY <3>1, <3>2, <3>3
  <2> QED BY <2>1, <2>2
<1>3. t.leg \in Nat
  BY <1>1 DEF Handler
<1>4. \A u \in running' : IsFirst(u)'
  BY <1>1, <1>2 DEF IsFirst
<1>5. ASSUME NEW j, LegIsPast(j)
      PROVE  LegIsPast(j)'
  <2>1. j.store = "hop" => OfLeg(j)' /\ seen'[j.msg] > 0 /\ j.leg \in Nat
    BY <1>1, <1>5 DEF LegIsPast, OfLeg
  <2>2. ASSUME NEW u \in running', u.msg = j.msg, j.store = "hop"
        PROVE  j.leg < u.leg
    <3>1. j.leg < t.leg
      BY <1>1, <1>2, <1>5, <2>2 DEF LegIsPast
    <3> QED BY <1>2, <1>3, <2>1, <2>2, <3>1
  <2> QED BY <2>1, <2>2 DEF LegIsPast
<1>6. ASSUME NEW j \in TasksOf(t)
      PROVE  LegIsPast(j)' /\ (OfId(j) => Guarded(j)')
  <2>1. j.store = "hop" => OfLeg(j) /\ seen[j.msg] > 0 /\ j.msg = t.msg /\ j.leg = t.leg
    BY <1>1, <1>6, HopTasks
  <2>2. LegIsPast(j)'
    BY <1>1, <1>2, <1>3, <2>1 DEF LegIsPast, OfLeg
  <2>3. OfId(j) => /\ store["hop"][j.key] # None /\ store["inbound"][j.key] = None
                   /\ \A w \in sweeps : w.task # j
                   /\ \A o \in Outs : o.id # NoId /\ HopKey(o, o.origin) = j.key =>
                         notes[Sent(o)] = 0
    BY <1>1, <1>6, HopTasks DEF OfId
  <2>4. OfId(j) => Guarded(j)'
    BY <1>1, <1>2, <2>3 DEF Guarded
  <2> QED BY <2>2, <2>4
<1>7. \A j \in tasks : OfId(j) => Guarded(j)'
  BY <1>1, <1>2 DEF HopInv, Guarded
<1>8. WasSeen' /\ clears' = {}
  BY <1>1 DEF HopInv, WasSeen
<1> QED BY <1>1, <1>4, <1>5, <1>6, <1>7, <1>8 DEF HopInv, OfId

LEMMA HopDeliver ==
    ASSUME TypeInv, HopInv, MaxDeliver = 1, NEW m \in Msgs, Deliver(m)
    PROVE  HopInv'
<1>1. /\ running = {} /\ WasSeen /\ seen \in [Msgs -> Nat] /\ seen[m] = 0
      /\ \A p \in Before : p[2] = m => seen[p[1]] > 0
      /\ UNCHANGED <<store, tasks, sweeps, notes, clears>>
      /\ seen' = [seen EXCEPT ![m] = @ + 1]
  <2>1. seen \in [Msgs -> Nat] /\ seen[m] \in Nat
    BY ValuesAssumption DEF TypeInv, TypeOK
  <2> QED BY <2>1 DEF Deliver, MutexFree, HopInv
<1>2. \A n \in Msgs : seen'[n] = (IF n = m THEN 1 ELSE seen[n])
  BY <1>1
<1>3. \A p \in Before : p = <<p[1], p[2]>> /\ p[1] \in Msgs /\ p[2] \in Msgs
  BY ValuesAssumption
<1>4. PICK u : running' = {u} /\ u.pc = EntryPoint(m) /\ u.msg = m /\ u.nth = 1
  <2> DEFINE v == [pc |-> EntryPoint(m), msg |-> m, nth |-> seen[m] + 1, leg |-> 1, got |-> m]
  <2>1. v.pc = EntryPoint(m) /\ v.msg = m /\ v.nth = 1
    BY <1>1
  <2>2. running' = {v}
    BY <1>1 DEF Deliver
  <2> HIDE DEF v
  <2> QED BY <2>1, <2>2
<1>5. u.pc \notin {"put", "schedule"}
  BY <1>4, KindsDiffer DEF EntryPoint, Msgs
<1>6. IsFirst(u)'
  <2>1. ASSUME NEW n \in Msgs, <<m, n>> \in Before
        PROVE  seen'[n] = 0
    <3>1. n # m
      BY <1>1, <2>1
    <3>2. ~(seen[n] > 0)
      BY <1>1, <2>1 DEF WasSeen
    <3> QED BY <1>1, <1>2, <3>1, <3>2
  <2> QED BY <1>2, <1>4, <1>5, <2>1 DEF IsFirst
<1>7. WasSeen'
  <2>1. \A p \in Before : seen'[p[2]] > 0 => seen'[p[1]] > 0
    BY <1>1, <1>2, <1>3 DEF WasSeen
  <2>2. \A o \in Outs : notes[Sent(o)] > 0 => seen'[o] > 0
    BY <1>1, <1>2 DEF WasSeen, Msgs
  <2>3. \A k \in Keys : store["inbound"][k] # None => store["inbound"][k] \in Msgs
    BY DEF TypeInv, TypeOK, StoreOK, Stores
  <2> QED BY <1>1, <1>2, <2>1, <2>2, <2>3 DEF WasSeen
<1>8. ASSUME NEW j, LegIsPast(j)
      PROVE  LegIsPast(j)'
  <2>1. j.store = "hop" => OfLeg(j) /\ j.msg \in Msgs /\ j.msg # m
    BY <1>1, <1>8 DEF LegIsPast, OfLeg, Msgs
  <2> QED BY <1>2, <1>4, <1>8, <2>1 DEF LegIsPast, OfLeg
<1>9. \A j : Guarded(j) => Guarded(j)'
  BY <1>1, <1>4, <1>5 DEF Guarded
<1> QED BY <1>1, <1>4, <1>6, <1>7, <1>8, <1>9 DEF HopInv, OfId

\* The sweeps go on, with the tasks they have.
LEMMA HopSweepsGo ==
    ASSUME HopInv, UNCHANGED <<running, seen, clears>>, Shrinks, tasks' \subseteq tasks,
           tasks \subseteq Task,
           \A o \in Outs : notes'[Sent(o)] = notes[Sent(o)],
           \A w \in sweeps' : w.task \in tasks \ tasks' \/ \E x \in sweeps : w.task = x.task,
           \A t \in running : t.pc = "schedule" /\ TargetStore(t) = "hop" =>
               \A k \in TargetKeys(t) : k.ref = t.msg.id => store'["hop"][k] # None,
           \A j \in tasks' : OfId(j) => store'["hop"][j.key] # None
    PROVE  HopInv'
<1>1. \A t \in running' : IsFirst(t)'
  <2> SUFFICES ASSUME NEW t \in running PROVE IsFirst(t)'
    OBVIOUS
  <2>1. IsFirst(t)
    BY DEF HopInv
  <2>2. TargetStore(t)' = TargetStore(t) /\ TargetKeys(t)' = TargetKeys(t)
    BY DEF TargetStore, TargetKeys, LastLeg
  <2> QED BY <2>1, <2>2 DEF IsFirst
<1>2. WasSeen'
  <2>1. \A k \in Keys : store'["inbound"][k] # None =>
           /\ seen'[store'["inbound"][k]] > 0
           /\ k \in KeysAt(store'["inbound"][k], store'["inbound"][k].chain)
    BY DEF HopInv, WasSeen, Shrinks, Stores
  <2> QED BY <2>1 DEF HopInv, WasSeen
<1>3. \A j : LegIsPast(j) => LegIsPast(j)'
  BY DEF LegIsPast, OfLeg
<1>4. ASSUME NEW j \in tasks', OfId(j)
      PROVE  Guarded(j)'
  <2>1. Guarded(j) /\ j.key \in Keys
    BY <1>4 DEF HopInv, Task
  <2>2. \A w \in sweeps' : w.task # j
    BY <1>4, <2>1 DEF Guarded
  <2>3. store'["hop"][j.key] # None /\ store'["inbound"][j.key] = None
    BY <1>4, <2>1 DEF Guarded, Shrinks, Stores
  <2> QED BY <2>1, <2>2, <2>3 DEF Guarded
<1>5. \A w \in sweeps' : LegIsPast(w.task)
  BY DEF HopInv
<1> QED BY <1>1, <1>2, <1>3, <1>4, <1>5 DEF HopInv, OfId

LEMMA HopSweeps ==
    ASSUME TypeInv, HopInv, JourneysApart, RunScheduler \/ RunSweep
    PROVE  HopInv'
<1>0. StoreOK /\ tasks \subseteq Task /\ sweeps \subseteq Sweep
  BY DEF TypeInv, TypeOK
<1>1. ASSUME NEW t \in running, t.pc = "schedule", TargetStore(t) = "hop",
             NEW k \in TargetKeys(t), k.ref = t.msg.id
      PROVE  store["hop"][k] # None
  BY <1>1 DEF HopInv, IsFirst
<1>2. ASSUME NEW j \in tasks, OfId(j)
      PROVE  store["hop"][j.key] # None
  BY <1>2 DEF HopInv, Guarded
<1>3. ASSUME NEW j \in tasks, Dispatch(j)
      PROVE  HopInv'
  <2> DEFINE w == [task |-> j, item |-> None]
  <2>1. w.task = j /\ sweeps' = sweeps \cup {w}
    BY <1>3 DEF Dispatch
  <2> HIDE DEF w
  <2>2. /\ UNCHANGED <<store, running, seen, notes, clears>> /\ tasks' = tasks \ {j} /\ Shrinks
        /\ \A v \in sweeps' : v.task \in tasks \ tasks' \/ \E x \in sweeps : v.task = x.task
    BY <1>3, <2>1 DEF Dispatch, Shrinks
  <2> QED BY <1>0, <1>1, <1>2, <2>2, HopSweepsGo
<1>4. ASSUME NEW w \in sweeps, SweepGet(w)
      PROVE  HopInv'
  <2> DEFINE v == [w EXCEPT !.item = store[w.task.store][w.task.key]]
  <2>1. v.task = w.task /\ sweeps' \subseteq sweeps \cup {v}
    BY <1>0, <1>4 DEF SweepGet, Sweep
  <2> HIDE DEF v
  <2>2. /\ UNCHANGED <<store, running, seen, notes, clears, tasks>> /\ Shrinks
        /\ \A x \in sweeps' : \E y \in sweeps : x.task = y.task
    BY <1>4, <2>1 DEF SweepGet, Shrinks
  <2> QED BY <1>0, <1>1, <1>2, <2>2, HopSweepsGo
<1>5. ASSUME NEW w \in sweeps, SweepDel(w)
      PROVE  HopInv'
  <2>1. /\ UNCHANGED <<running, seen, clears, tasks>> /\ sweeps' \subseteq sweeps
        /\ w.task \in Task /\ w.task.store \in Stores /\ LegIsPast(w.task)
        /\ Del(w.task.store, {w.task.key})
    BY <1>0, <1>5 DEF SweepDel, Sweep, Task, HopInv
  <2>2. \A o \in Outs : notes'[Sent(o)] = notes[Sent(o)]
    BY <1>5, OtherNotes DEF SweepDel, Timeout
  <2>3. /\ Shrinks
        /\ \A k \in Keys : store["hop"][k] # None =>
              store'["hop"][k] # None \/ (w.task.store = "hop" /\ k = w.task.key)
    BY <1>0, <2>1, DelLemma, DelShrinks DEF Stores
  <2>4. ASSUME NEW j \in Task, OfLeg(j), OfId(j), w.task.store = "hop", w.task.key = j.key
        PROVE  w.task = j
    BY <2>1, <2>4, OneTask, SameTask DEF LegIsPast, OfId
  <2>5. ASSUME NEW j \in tasks, OfId(j)
        PROVE  store'["hop"][j.key] # None
    <3>1. j \in Task /\ OfLeg(j) /\ w.task # j /\ j.key \in Keys
      BY <1>0, <2>5 DEF HopInv, Guarded, LegIsPast, OfId, Task
    <3> QED BY <1>2, <2>3, <2>4, <2>5, <3>1
  <2>6. ASSUME NEW t \in running, t.pc = "schedule", TargetStore(t) = "hop",
               NEW k \in TargetKeys(t), k.ref = t.msg.id
        PROVE  store'["hop"][k] # None
    <3>1. PICK j \in TasksOf(t) : j.store = "hop" /\ j.key = k /\ j.msg = t.msg
      <4> DEFINE x == [store |-> TargetStore(t), key |-> k, msg |-> t.msg, nth |-> t.nth,
                       leg |-> t.leg]
      <4>1. x \in TasksOf(t)
        BY <2>6 DEF TasksOf
      <4>2. x.store = "hop" /\ x.key = k /\ x.msg = t.msg
        BY <2>6
      <4> QED BY <4>1, <4>2
    <3>2. OfId(j) /\ j \in Task /\ j.key \in Keys
      BY <2>6, <3>1, TasksOfType, HandlerTypes DEF OfId, Task
    <3>3. OfLeg(j) /\ w.task # j
      BY <2>6, <3>1, <3>2, HopTasks
    <3> QED BY <1>1, <2>3, <2>4, <2>6, <3>1, <3>2, <3>3
  <2> QED BY <1>0, <2>1, <2>2, <2>3, <2>5, <2>6, HopSweepsGo
<1> QED BY <1>3, <1>4, <1>5 DEF RunScheduler, RunSweep

\* HopInv is inductive, given the other invariants, where every observation is made once,
\* nothing is removed and the process does not crash.
LEMMA HopInductive ==
    ASSUME JourneysApart, MaxDeliver = 1, Removable = {}, MaxCrash = 0
    PROVE  /\ Init => HopInv
           /\ TypeInv /\ MatchInv /\ HopInv /\ [Next]_vars => HopInv'
<1>1. Init => HopInv
  <2> SUFFICES ASSUME Init PROVE HopInv
    OBVIOUS
  <2>1. WasSeen
    <3>1. \A o \in Outs : notes[Sent(o)] = 0
      BY NoteTypes DEF Init
    <3>2. \A p \in Before : p[2] \in Msgs
      BY ValuesAssumption
    <3> QED BY <3>1, <3>2 DEF Init, WasSeen, Stores
  <2> QED BY <2>1 DEF Init, HopInv
<1>2. ASSUME TypeInv, MatchInv, HopInv, Next
      PROVE  HopInv'
  <2>1. ~Crash /\ ~RunClear /\ ~\E s \in Removable : Unsubscribe(s)
    BY <1>2 DEF Crash, RunClear, HopInv, TypeInv, TypeOK
  <2>2. ASSUME NEW t \in running, HandlerStep(t)
        PROVE  HopInv'
    BY <1>2, <2>2, HopOutbound, HopOthers, HopStore, HopSchedule DEF HandlerStep
  <2> QED BY <1>2, <2>1, <2>2, HopDeliver, HopSweeps DEF Next, Handle
<1>3. ASSUME HopInv, UNCHANGED vars
      PROVE  HopInv'
  <2>1. UNCHANGED <<store, tasks, sweeps, running, seen, notes, clears>>
    BY <1>3 DEF vars
  <2>2. \A t : IsFirst(t) => IsFirst(t)'
    BY <2>1 DEF IsFirst, TargetStore, TargetKeys, LastLeg
  <2>3. \A j : LegIsPast(j) => LegIsPast(j)'
    BY <2>1 DEF LegIsPast, OfLeg
  <2>4. \A j : Guarded(j) => Guarded(j)'
    BY <2>1 DEF Guarded
  <2>5. WasSeen'
    BY <1>3, <2>1 DEF HopInv, WasSeen
  <2> QED BY <1>3, <2>1, <2>2, <2>3, <2>4, <2>5 DEF HopInv, OfId
<1> QED BY <1>1, <1>2, <1>3

\* Where journeys are told apart by their topic ids and the origin is observed first, what
\* passes an intermediate chain is a hop until its origin expires: it is neither announced
\* as sent nor kept as arrived, whatever other handlers and sweeps do (HopsAreRecognised;
\* matching.ts:94-160, :249-330).
THEOREM HopsRecognised ==
    ASSUME JourneysApart, MaxDeliver = 1, Removable = {}, MaxCrash = 0
    PROVE  Spec => []HopsAreRecognised
<1>1. HopInv => HopsAreRecognised
  <2> SUFFICES ASSUME HopInv, NEW j \in tasks, OfId(j)
               PROVE  /\ \A o \in Outs : o.id # NoId /\ HopKey(o, o.origin) = j.key =>
                            notes[Sent(o)] = 0
                      /\ store["inbound"][j.key] = None
    BY DEF HopsAreRecognised, OfId, HopKey
  <2> QED BY DEF HopInv, Guarded
<1> QED BY <1>1, TypeInductive, MatchInductive, HopInductive, PTL DEF Spec

(* No timeout of what was received *)

\* An outbound and an inbound that share a reference share the topic id, where both have one.
IdsAgree ==
    \A o \in Outs, i \in Ins :
        KeysAt(o, o.dest) \cap KeysAt(i, i.chain) # {} => i.hash = i.id \/ o.id \in {i.id, NoId}

WasReceived(o) == \E i \in Ins : notes[Received(o, i)] > 0

IsStored(o) == \E k \in Keys : store["outbound"][k] = o

\* A handler that has not come to storing its message has not stored it; one that claims
\* an outbound claims all of its entries.
ClaimsAll(t) ==
    /\ seen[t.msg] > 0
    /\ t.pc \in {"findRelay", "claimRelay", "hopOut", "getInbound", "claimInbound"} => ~IsStored(t.msg)
    /\ t.pc = "claimOutbound" =>
          seen[t.got] > 0 /\ KeysAt(t.got, t.got.dest) \subseteq ClaimedKeys(t.msg, t.got)

\* What was received is not stored, and no longer on its way to be.
SettledInv ==
    /\ \A o \in Outs : WasReceived(o) => /\ seen[o] > 0 /\ ~IsStored(o)
                                         /\ \A t \in running : t.msg # o
    /\ \A k \in Keys : LET o == store["outbound"][k]
                       IN  o # None => seen[o] > 0 /\ k \in KeysAt(o, o.dest)
    /\ \A t \in running : ClaimsAll(t)

\* A notification leaves the counts of other kinds alone.
LEMMA OtherTypes ==
    ASSUME TypeInv, NEW n, Notify(n)
    PROVE  \A m \in Note : m.type # n.type => notes'[m] = notes[m]
BY DEF Notify, TypeInv, TypeOK

ReceivedStays == \A o \in Outs, i \in Ins : notes'[Received(o, i)] = notes[Received(o, i)]

LEMMA OtherReceived ==
    ASSUME TypeInv, NEW n, Notify(n), n.type # "received"
    PROVE  ReceivedStays
<1>1. \A o \in Outs, i \in Ins : Received(o, i) \in Note /\ Received(o, i).type = "received"
  BY NoteTypes DEF Received
<1> QED BY <1>1, OtherTypes DEF ReceivedStays

LEMMA ReceivedByOne ==
    ASSUME TypeInv, NEW o \in Outs, NEW i \in Ins, Notify(Received(o, i))
    PROVE  \A p \in Outs : WasReceived(p)' => WasReceived(p) \/ p = o
<1>1. \A p \in Outs, q \in Ins : Received(p, q) \in Note /\ Received(p, q).out = p
  BY NoteTypes DEF Received
<1>2. \A p \in Outs, q \in Ins : p # o => notes'[Received(p, q)] = notes[Received(p, q)]
  BY <1>1 DEF Notify, TypeInv, TypeOK
<1> QED BY <1>2 DEF WasReceived

\* Entries only go.
LEMMA StoredShrinks ==
    ASSUME Shrinks
    PROVE  /\ \A m \in Msgs : IsStored(m)' => IsStored(m)
           /\ \A k \in Keys : store'["outbound"][k] # None =>
                 store'["outbound"][k] = store["outbound"][k]
BY ValuesAssumption DEF Shrinks, IsStored, Stores

LEMMA SettledFrame ==
    ASSUME TypeInv, SettledInv, Shrinks, UNCHANGED seen, ReceivedStays,
           \A u \in running' : ClaimsAll(u)' /\ \E t \in running : u.msg = t.msg
    PROVE  SettledInv'
<1>1. ASSUME NEW o \in Outs, WasReceived(o)'
      PROVE  seen'[o] > 0 /\ ~IsStored(o)' /\ \A u \in running' : u.msg # o
  <2>1. WasReceived(o) /\ o \in Msgs
    BY <1>1 DEF WasReceived, ReceivedStays, Msgs
  <2> QED BY <2>1, StoredShrinks DEF SettledInv
<1>2. \A k \in Keys : store'["outbound"][k] # None =>
         /\ seen'[store'["outbound"][k]] > 0
         /\ k \in KeysAt(store'["outbound"][k], store'["outbound"][k].dest)
  BY StoredShrinks DEF SettledInv
<1> QED BY <1>1, <1>2 DEF SettledInv

Early == {"findRelay", "claimRelay", "hopOut", "getInbound", "claimInbound"}

\* The handler that runs goes on to a point pc, and does not claim an outbound there.
LEMMA SettledGoes ==
    ASSUME TypeInv, SettledInv, Shrinks, UNCHANGED seen, ReceivedStays, NEW t \in running,
           NEW pc, pc # "claimOutbound", pc \in Early => t.pc \in Early,
           \A u \in running' : u.pc = pc /\ u.msg = t.msg
    PROVE  SettledInv'
<1>1. t.msg \in Msgs /\ ClaimsAll(t)
  BY HandlerTypes DEF SettledInv
<1>2. \A u \in running' : ClaimsAll(u)'
  BY <1>1, StoredShrinks DEF ClaimsAll, Early
<1> QED BY <1>2, SettledFrame

\* An inbound that matched an outbound claims both of its entries.
LEMMA ClaimsBoth ==
    ASSUME IdsAgree, NEW o \in Outs, NEW i \in Ins,
           NEW k, k \in KeysAt(o, o.dest), k \in KeysAt(i, i.chain)
    PROVE  KeysAt(o, o.dest) \subseteq ClaimedKeys(i, o)
<1>1. PICK r \in {o.hash, o.id} \ {NoId} : k = MatchingKey(o.sub, o.dest, r)
  BY DEF KeysAt
<1>2. PICK q \in {i.hash, i.id} \ {NoId} : k = MatchingKey(i.sub, i.chain, q)
  BY DEF KeysAt
<1>3. o.sub = i.sub /\ o.dest = i.chain /\ r = q
  BY <1>1, <1>2 DEF MatchingKey
<1>4. i.hash = i.id \/ o.id \in {i.id, NoId}
  BY DEF IdsAgree
<1>5. CASE i.hash = i.id /\ o.id = NoId
  BY <1>1, <1>2, <1>3, <1>5 DEF ClaimedKeys, KeysAt
<1>6. CASE i.hash = i.id /\ o.id # NoId
  BY <1>3, <1>6 DEF ClaimedKeys, KeysAt
<1>7. CASE i.hash # i.id
  BY <1>3, <1>4, <1>7 DEF ClaimedKeys, KeysAt
<1> QED BY <1>5, <1>6, <1>7

LEMMA SettledMatch ==
    ASSUME TypeInv, MatchInv, SettledInv, IdsAgree, NEW t \in running, MatchOutbound(t)
    PROVE  SettledInv'
<1>1. /\ t \in Handler /\ t.msg \in Ins /\ running = {t} /\ StoreOK
      /\ UNCHANGED <<store, notes, seen>>
  BY HandlerTypes DEF MatchOutbound, untouched, HandlerOK, MatchInv, TypeInv, TypeOK
<1>2. Shrinks /\ ReceivedStays
  BY <1>1 DEF Shrinks, ReceivedStays
<1>3. CASE Goto(t, "hopIn")
  <2>1. \A u \in running' : u.pc = "hopIn" /\ u.msg = t.msg
    BY <1>3, GotoKeeps
  <2> QED BY <1>1, <1>2, <2>1, SettledGoes DEF Early
<1>4. ASSUME NEW k \in Found("outbound", KeysAt(t.msg, t.msg.chain)),
             GotoWith(t, "claimOutbound", store["outbound"][k])
      PROVE  SettledInv'
  <2>0. PICK o, u : /\ o = store["outbound"][k]
                    /\ u = [t EXCEPT !.pc = "claimOutbound", !.got = o]
    OBVIOUS
  <2>1. k \in Keys /\ k \in KeysAt(t.msg, t.msg.chain) /\ o # None
    BY <1>1, <2>0, InKeys DEF Found
  <2>2. o \in Outs /\ seen[o] > 0 /\ k \in KeysAt(o, o.dest)
    BY <1>1, <2>0, <2>1 DEF StoreOK, Stores, Holds, SettledInv
  <2>3. running' = {u}
    BY <1>1, <1>4, <2>0 DEF GotoWith, Become
  <2>4. u.pc = "claimOutbound" /\ u.msg = t.msg /\ u.got = o
    BY <1>1, <2>0 DEF Handler
  <2>5. KeysAt(o, o.dest) \subseteq ClaimedKeys(t.msg, o)
    BY <1>1, <2>1, <2>2, ClaimsBoth
  <2>6. seen[t.msg] > 0
    BY DEF SettledInv, ClaimsAll
  <2>7. ClaimsAll(u)'
    BY <1>1, <2>2, <2>4, <2>5, <2>6 DEF ClaimsAll
  <2> QED BY <1>1, <1>2, <2>3, <2>4, <2>7, SettledFrame
<1> QED BY <1>3, <1>4 DEF MatchOutbound

\* A match is reported, of an outbound that is not stored any more.
LEMMA SettledReceived ==
    ASSUME TypeInv, SettledInv, Shrinks, UNCHANGED seen, NEW o \in Outs, NEW i \in Ins,
           Notify(Received(o, i)), seen[o] > 0, ~IsStored(o)', running' = {}
    PROVE  SettledInv'
<1>1. \A p \in Outs : WasReceived(p)' => seen'[p] > 0 /\ ~IsStored(p)'
  <2>1. \A p \in Outs : p \in Msgs
    BY DEF Msgs
  <2> QED BY <2>1, ReceivedByOne, StoredShrinks DEF SettledInv
<1>2. \A k \in Keys : store'["outbound"][k] # None =>
         /\ seen'[store'["outbound"][k]] > 0
         /\ k \in KeysAt(store'["outbound"][k], store'["outbound"][k].dest)
  BY StoredShrinks DEF SettledInv
<1> QED BY <1>1, <1>2 DEF SettledInv

LEMMA SettledClaims ==
    ASSUME TypeInv, MatchInv, SettledInv, NEW t \in running, ClaimInbound(t) \/ ClaimOutbound(t)
    PROVE  SettledInv'
<1>0. t.msg \in Msgs /\ HandlerOK(t) /\ ClaimsAll(t) /\ StoreOK
  BY HandlerTypes DEF SettledInv, TypeInv, TypeOK
<1>1. running' = {} /\ UNCHANGED seen /\ Shrinks
  <2>1. running' = {} /\ UNCHANGED seen
    BY GotoKeeps DEF ClaimInbound, ClaimOutbound, untouched
  <2>2. Shrinks
    BY <1>0, DelShrinks DEF ClaimInbound, ClaimOutbound, Stores
  <2> QED BY <2>1, <2>2
<1>2. CASE ClaimInbound(t)
  <2>1. t.msg \in Outs /\ t.got \in Ins /\ Notify(Received(t.msg, t.got))
    BY <1>0, <1>2 DEF ClaimInbound, HandlerOK
  <2>2. seen[t.msg] > 0 /\ ~IsStored(t.msg)'
    BY <1>0, <1>1, <1>2, StoredShrinks DEF ClaimInbound, ClaimsAll
  <2> QED BY <1>1, <2>1, <2>2, SettledReceived
<1>3. CASE ClaimOutbound(t)
  <2>1. /\ t.got \in Outs /\ t.msg \in Ins /\ Notify(Received(t.got, t.msg))
        /\ Del("outbound", ClaimedKeys(t.msg, t.got))
        /\ seen[t.got] > 0 /\ KeysAt(t.got, t.got.dest) \subseteq ClaimedKeys(t.msg, t.got)
    BY <1>0, <1>3 DEF ClaimOutbound, HandlerOK, ClaimsAll
  <2>2. ASSUME NEW k \in Keys, store'["outbound"][k] = t.got
        PROVE  FALSE
    <3>1. t.got # None
      BY <2>1, ValuesAssumption DEF Msgs
    <3>2. store["outbound"][k] = t.got
      BY <1>1, <2>2, <3>1, StoredShrinks
    <3>3. k \in ClaimedKeys(t.msg, t.got)
      BY <2>1, <3>1, <3>2 DEF SettledInv
    <3>4. store'["outbound"][k] = None
      BY <1>0, <2>1, <3>3, DelLemma DEF Stores
    <3> QED BY <2>2, <3>1, <3>4
  <2>3. ~IsStored(t.got)'
    BY <2>2 DEF IsStored
  <2> QED BY <1>1, <2>1, <2>3, SettledReceived
<1> QED BY <1>2, <1>3

LEMMA SettledStore ==
    ASSUME TypeInv, MatchInv, SettledInv, NEW t \in running, StoreEntry(t)
    PROVE  SettledInv'
<1>1. /\ t \in Handler /\ HandlerOK(t) /\ t.pc = "put" /\ ClaimsAll(t) /\ t.msg \in Msgs
      /\ UNCHANGED <<seen, notes>>
  BY HandlerTypes DEF StoreEntry, SettledInv, untouched
<1>2. \A k \in Keys :
         store'["outbound"][k] = IF TargetStore(t) = "outbound" /\ k \in TargetKeys(t)
                                 THEN t.msg ELSE store["outbound"][k]
  BY StoreEntryWrites DEF Stores
<1>3. \A u \in running' : u.pc = "schedule" /\ u.msg = t.msg
  BY GotoKeeps DEF StoreEntry
<1>4. \A u \in running' : ClaimsAll(u)'
  BY <1>1, <1>3 DEF ClaimsAll
<1>5. ASSUME NEW o \in Outs, WasReceived(o)'
      PROVE  seen'[o] > 0 /\ ~IsStored(o)' /\ \A u \in running' : u.msg # o
  <2>1. seen[o] > 0 /\ ~IsStored(o) /\ t.msg # o
    BY <1>1, <1>5 DEF WasReceived, SettledInv
  <2>2. ~IsStored(o)'
    BY <1>2, <2>1 DEF IsStored
  <2> QED BY <1>1, <1>3, <2>1, <2>2
<1>6. ASSUME NEW k \in Keys, store'["outbound"][k] # None
      PROVE  /\ seen'[store'["outbound"][k]] > 0
             /\ k \in KeysAt(store'["outbound"][k], store'["outbound"][k].dest)
  <2>1. CASE TargetStore(t) = "outbound" /\ k \in TargetKeys(t)
    <3>1. store'["outbound"][k] = t.msg /\ k \in KeysAt(t.msg, t.msg.dest)
      BY <1>1, <1>2, <2>1, MatchTarget
    <3> QED BY <1>1, <3>1 DEF ClaimsAll
  <2>2. CASE ~(TargetStore(t) = "outbound" /\ k \in TargetKeys(t))
    BY <1>1, <1>2, <1>6, <2>2 DEF SettledInv
  <2> QED BY <2>1, <2>2
<1> QED BY <1>4, <1>5, <1>6 DEF SettledInv

LEMMA SettledSteps ==
    ASSUME TypeInv, MatchInv, SettledInv, NEW t \in running,
           \/ FindRelayInbound(t) \/ ClaimRelay(t) \/ MatchHopOut(t) \/ AnnounceSent(t)
           \/ TryMatchOnOutbound(t) \/ TryHopMatchOnInbound(t)
           \/ MatchRelayed(t) \/ ClaimRelayed(t) \/ ScheduleSweep(t)
    PROVE  SettledInv'
<1>1. UNCHANGED seen /\ Shrinks
  <2>1. ~StoreEntry(t) /\ HandlerStep(t) /\ UNCHANGED seen
    BY DEF HandlerStep, untouched, FindRelayInbound, ClaimRelay, MatchHopOut, AnnounceSent,
       TryMatchOnOutbound, TryHopMatchOnInbound, MatchRelayed, ClaimRelayed, ScheduleSweep,
       StoreEntry
  <2> QED BY <2>1, HandlerShrinks
<1>2. ReceivedStays
  <2>1. notes' = notes => ReceivedStays
    BY DEF ReceivedStays
  <2> QED BY <2>1, OtherReceived
          DEF FindRelayInbound, ClaimRelay, MatchHopOut, AnnounceSent, TryMatchOnOutbound,
              TryHopMatchOnInbound, MatchRelayed, ClaimRelayed, ScheduleSweep,
              Relayed, Hop, Sent
<1>3. CASE FindRelayInbound(t)
  <2>1. PICK pc \in {"claimRelay", "hopOut"} : \A u \in running' : u.pc = pc /\ u.msg = t.msg
    BY <1>3, GotoKeeps DEF FindRelayInbound
  <2> QED BY <1>1, <1>2, <1>3, <2>1, SettledGoes DEF Early, FindRelayInbound
<1>4. CASE ClaimRelay(t)
  <2>1. \A u \in running' : u.pc = "hopOut" /\ u.msg = t.msg
    BY <1>4, GotoKeeps DEF ClaimRelay
  <2> QED BY <1>1, <1>2, <1>4, <2>1, SettledGoes DEF Early, ClaimRelay
<1>5. CASE AnnounceSent(t)
  <2>1. \A u \in running' : u.pc = "getInbound" /\ u.msg = t.msg
    BY <1>5, GotoKeeps DEF AnnounceSent
  <2> QED BY <1>1, <1>2, <1>5, <2>1, SettledGoes DEF Early, AnnounceSent
<1>6. CASE TryMatchOnOutbound(t)
  <2>1. PICK pc \in {"claimInbound", "put"} : \A u \in running' : u.pc = pc /\ u.msg = t.msg
    BY <1>6, GotoKeeps DEF TryMatchOnOutbound
  <2> QED BY <1>1, <1>2, <1>6, <2>1, SettledGoes DEF Early, TryMatchOnOutbound
<1>7. CASE MatchHopOut(t) \/ ClaimRelayed(t)
  <2>1. running' = {}
    BY <1>7, GotoKeeps DEF MatchHopOut, ClaimRelayed
  <2> QED BY <1>1, <1>2, <2>1, SettledFrame
<1>8. CASE TryHopMatchOnInbound(t)
  <2>1. \A u \in running' : u.pc = "put" /\ u.msg = t.msg
    BY <1>8, GotoKeeps DEF TryHopMatchOnInbound
  <2> QED BY <1>1, <1>2, <2>1, SettledGoes DEF Early
<1>9. CASE MatchRelayed(t)
  <2>1. PICK pc \in {"claimRelayed", "put"} : \A u \in running' : u.pc = pc /\ u.msg = t.msg
    BY <1>9, GotoKeeps DEF MatchRelayed
  <2> QED BY <1>1, <1>2, <2>1, SettledGoes DEF Early
<1>10. CASE ScheduleSweep(t)
  <2> DEFINE u == [t EXCEPT !.pc = "put", !.leg = @ + 1]
  <2>1. u.pc = "put" /\ u.msg = t.msg
    BY HandlerTypes DEF Handler
  <2>2. running' \subseteq {u}
    BY <1>10 DEF MatchInv, ScheduleSweep, Release, Become
  <2> HIDE DEF u
  <2> QED BY <1>1, <1>2, <2>1, <2>2, SettledGoes DEF Early
<1> QED BY <1>3, <1>4, <1>5, <1>6, <1>7, <1>8, <1>9, <1>10

LEMMA SettledDeliver ==
    ASSUME TypeInv, SettledInv, MaxDeliver = 1, NEW m \in Msgs, Deliver(m)
    PROVE  SettledInv'
<1>1. /\ running = {} /\ seen \in [Msgs -> Nat] /\ seen[m] = 0
      /\ UNCHANGED <<store, notes>> /\ seen' = [seen EXCEPT ![m] = @ + 1]
  <2>1. seen \in [Msgs -> Nat] /\ seen[m] \in Nat
    BY ValuesAssumption DEF TypeInv, TypeOK
  <2> QED BY <2>1 DEF Deliver, MutexFree
<1>2. \A n \in Msgs : seen'[n] = (IF n = m THEN 1 ELSE seen[n])
  BY <1>1
<1>3. PICK u : running' = {u} /\ u.pc = EntryPoint(m) /\ u.msg = m
  <2> DEFINE v == [pc |-> EntryPoint(m), msg |-> m, nth |-> seen[m] + 1, leg |-> 1, got |-> m]
  <2>1. v.pc = EntryPoint(m) /\ v.msg = m
    OBVIOUS
  <2>2. running' = {v}
    BY <1>1 DEF Deliver
  <2> HIDE DEF v
  <2> QED BY <2>1, <2>2
<1>4. u.pc # "claimOutbound"
  BY <1>3, KindsDiffer DEF EntryPoint, Msgs
<1>5. ~IsStored(m)
  <2>1. m # None
    BY ValuesAssumption
  <2> QED BY <1>1, <2>1 DEF IsStored, SettledInv
<1>6. ClaimsAll(u)'
  BY <1>1, <1>2, <1>3, <1>4, <1>5 DEF ClaimsAll, IsStored
<1>7. \A o \in Outs : WasReceived(o)' => seen'[o] > 0 /\ ~IsStored(o)' /\ u.msg # o
  BY <1>1, <1>2, <1>3 DEF SettledInv, WasReceived, IsStored, Msgs
<1>8. \A k \in Keys : store["outbound"][k] # None => store["outbound"][k] \in Msgs
  BY DEF TypeInv, TypeOK, StoreOK, Stores
<1> QED BY <1>1, <1>2, <1>3, <1>6, <1>7, <1>8 DEF SettledInv

LEMMA SettledOther ==
    ASSUME TypeInv, SettledInv, Next, ~Handle, ~\E m \in Msgs : Deliver(m)
    PROVE  SettledInv'
<1>1. running' \subseteq running /\ UNCHANGED seen
  BY DEF Next, RunScheduler, RunSweep, RunClear, Unsubscribe, Crash, Dispatch, SweepGet,
     SweepDel, ClearScan, ClearWrite
<1>2. Shrinks
  BY OtherShrinks
<1>3. ReceivedStays
  <2>1. notes' = notes => ReceivedStays
    BY DEF ReceivedStays
  <2>2. ASSUME NEW w \in sweeps, SweepDel(w) PROVE ReceivedStays
    BY <2>1, <2>2, OtherReceived DEF SweepDel, Timeout
  <2> QED BY <2>1, <2>2 DEF Next, RunScheduler, RunSweep, RunClear, Unsubscribe, Crash,
          Dispatch, SweepGet, ClearScan, ClearWrite
<1>4. \A u \in running' : ClaimsAll(u)'
  <2>1. \A u \in running : u.msg \in Msgs
    BY HandlerTypes
  <2> QED BY <1>1, <1>2, <2>1, StoredShrinks DEF SettledInv, ClaimsAll
<1> QED BY <1>1, <1>2, <1>3, <1>4, SettledFrame

\* SettledInv is inductive, given the other invariants, where every observation is made once.
LEMMA SettledInductive ==
    ASSUME IdsAgree, MaxDeliver = 1
    PROVE  /\ Init => SettledInv
           /\ TypeInv /\ MatchInv /\ SettledInv /\ [Next]_vars => SettledInv'
<1>1. Init => SettledInv
  <2> SUFFICES ASSUME Init PROVE SettledInv
    OBVIOUS
  <2>1. \A o \in Outs : ~WasReceived(o)
    BY NoteTypes DEF Init, WasReceived
  <2> QED BY <2>1 DEF Init, SettledInv, Stores
<1>2. ASSUME TypeInv, MatchInv, SettledInv, NEW t \in running, HandlerStep(t)
      PROVE  SettledInv'
  BY <1>2, SettledSteps, SettledMatch, SettledClaims, SettledStore DEF HandlerStep
<1>3. ASSUME SettledInv, UNCHANGED vars
      PROVE  SettledInv'
  <2>1. UNCHANGED <<store, running, seen, notes>>
    BY <1>3 DEF vars
  <2>2. \A t : ClaimsAll(t) => ClaimsAll(t)'
    BY <2>1 DEF ClaimsAll, IsStored
  <2> QED BY <1>3, <2>1, <2>2 DEF SettledInv, WasReceived, IsStored
<1> QED BY <1>1, <1>2, <1>3, SettledDeliver, SettledOther DEF Handle

\* Where an outbound and its inbound agree on the topic id and are observed once, no entry
\* of a received message is left to expire: xcm.timeout follows xcm.received only when its
\* sweep read the entry before the match deleted it (OnlyRacingSweepsContradict;
\* matching.ts:160-250, :547-572).
THEOREM RacingSweepsContradict ==
    ASSUME IdsAgree, MaxDeliver = 1
    PROVE  Spec => OnlyRacingSweepsContradict
<1> DEFINE Racing ==
        \A o \in Outs :
            notes'[Timeout(o)] > notes[Timeout(o)] =>
                \/ \A i \in Ins : notes[Received(o, i)] = 0
                \/ \E w \in sweeps : /\ SweepDel(w) /\ w.item = o
                                     /\ store["outbound"][w.task.key] # o
<1>1. ASSUME TypeInv, SettledInv, Next
      PROVE  Racing
  <2> SUFFICES ASSUME NEW o \in Outs, notes'[Timeout(o)] > notes[Timeout(o)], WasReceived(o)
               PROVE  \E w \in sweeps : /\ SweepDel(w) /\ w.item = o
                                        /\ store["outbound"][w.task.key] # o
    <3>1. \A o \in Outs, i \in Ins : notes[Received(o, i)] \in Nat
      BY <1>1, NoteTypes DEF TypeInv, TypeOK
    <3> QED BY <3>1 DEF WasReceived
  <2>1. \A p \in Outs : /\ Timeout(p) \in Note /\ Timeout(p).type = "timeout" /\ Timeout(p).out = p
                        /\ notes[Timeout(p)] \in Nat
    BY <1>1, NoteTypes DEF Timeout, TypeInv, TypeOK
  <2>2. notes' # notes
    BY <2>1
  <2>3. ASSUME NEW n, Notify(n), n.type # "timeout"
        PROVE  FALSE
    <3>1. notes'[Timeout(o)] = notes[Timeout(o)]
      BY <1>1, <2>1, <2>3, OtherTypes
    <3> QED BY <2>1, <3>1
  <2>4. ~Handle
    BY <2>2, <2>3 DEF Handle, HandlerStep, FindRelayInbound, ClaimRelay, MatchHopOut,
       AnnounceSent, TryMatchOnOutbound, ClaimInbound, MatchOutbound, ClaimOutbound,
       TryHopMatchOnInbound, MatchRelayed, ClaimRelayed, StoreEntry, ScheduleSweep,
       Relayed, Hop, Sent, Received
  <2>5. PICK w \in sweeps : SweepDel(w)
    BY <1>1, <2>2, <2>4 DEF Next, RunScheduler, RunSweep, RunClear, Deliver, Unsubscribe,
       Crash, Dispatch, SweepGet, ClearScan, ClearWrite
  <2>6. w.task.store = "outbound" /\ Notify(Timeout(w.item)) /\ w.item \in Outs /\ w.task.key \in Keys
    BY <1>1, <2>2, <2>5 DEF SweepDel, TypeInv, TypeOK, Sweep, Task, Holds
  <2>7. w.item = o
    BY <1>1, <2>1, <2>6 DEF Notify, TypeInv, TypeOK
  <2>8. store["outbound"][w.task.key] # o
    BY <1>1, <2>6 DEF SettledInv, IsStored
  <2> QED BY <2>5, <2>7, <2>8
<1>2. TypeInv /\ SettledInv /\ [Next]_vars => [Racing]_vars
  BY <1>1
<1>3. Spec => [][Racing]_vars
  <2> HIDE DEF Racing
  <2> QED BY <1>2, TypeInductive, MatchInductive, SettledInductive, PTL DEF Spec
<1>4. [][Racing]_vars => OnlyRacingSweepsContradict
  BY PTL DEF OnlyRacingSweepsContradict
<1> QED BY <1>3, <1>4

(* Sums *)

\* A set of naturals has a least element.
LEMMA Least ==
    ASSUME NEW I \in SUBSET Nat, I # {}
    PROVE  \E i \in I : \A k \in I : i <= k
<1>1. PICK x \in I : \A y \in I : ~(<<y, x>> \in OpToRel(<, Nat))
  BY NatLessThanWellFounded, WFMin, ZenonT(60)
<1>2. \A y \in I : x <= y
  <2> SUFFICES ASSUME NEW y \in I PROVE ~(y < x)
    OBVIOUS
  <2>1. y < x => <<y, x>> \in OpToRel(<, Nat)
    BY DEF OpToRel
  <2> QED BY <1>1, <2>1
<1> QED BY <1>2

\* The element a sum begins with.
First(s) == CHOOSE x \in s : TRUE

\* g is the sum of f over each of the sets in D.
Sums(f, D, g) ==
    \A s \in D : g[s] = IF s = {} THEN 0 ELSE f[First(s)] + g[s \ {First(s)}]

\* The subsets of S with at most n elements.
UpTo(S, n) == {s \in SUBSET S : Cardinality(s) <= n}

\* A subset without its first element is smaller.
LEMMA Smaller ==
    ASSUME NEW S, IsFiniteSet(S), NEW s \in SUBSET S, s # {}
    PROVE  /\ First(s) \in s /\ s \ {First(s)} \in SUBSET S
           /\ Cardinality(s) \in Nat /\ Cardinality(s \ {First(s)}) \in Nat
           /\ Cardinality(s \ {First(s)}) = Cardinality(s) - 1
<1>1. IsFiniteSet(s)
  BY FS_Subset
<1>2. First(s) \in s
  BY DEF First
<1>3. IsFiniteSet(s \ {First(s)}) /\ Cardinality(s \ {First(s)}) = Cardinality(s) - 1
  BY <1>1, <1>2, FS_RemoveElement
<1> QED BY <1>1, <1>2, <1>3, FS_CardinalityType

\* There are sums of what adds up naturals.
LEMMA SumsUpTo ==
    ASSUME NEW S, IsFiniteSet(S), NEW f \in [S -> Nat], NEW n \in Nat
    PROVE  \E g \in [UpTo(S, n) -> Nat] : Sums(f, UpTo(S, n), g)
<1> DEFINE Lacking == {k \in Nat : ~\E g \in [UpTo(S, k) -> Nat] : Sums(f, UpTo(S, k), g)}
<1> SUFFICES ASSUME Lacking # {} PROVE FALSE
  OBVIOUS
<1>1. PICK k \in Lacking : \A j \in Lacking : k <= j
  BY Least
<1>2. \A s \in SUBSET S : Cardinality(s) \in Nat /\ (Cardinality(s) = 0 <=> s = {})
  BY FS_Subset, FS_CardinalityType, FS_EmptySet
<1>3. CASE k = 0
  <2> DEFINE g == [s \in UpTo(S, 0) |-> 0]
  <2>1. \A s \in UpTo(S, 0) : s = {}
    BY <1>2 DEF UpTo
  <2>2. g \in [UpTo(S, 0) -> Nat] /\ Sums(f, UpTo(S, 0), g)
    BY <2>1 DEF Sums
  <2> QED BY <1>1, <1>3, <2>2
<1>4. CASE k # 0
  <2>1. k - 1 \in Nat /\ k - 1 \notin Lacking
    BY <1>1, <1>4
  <2>2. PICK h \in [UpTo(S, k - 1) -> Nat] : Sums(f, UpTo(S, k - 1), h)
    BY <2>1
  <2> DEFINE g == [s \in UpTo(S, k) |->
                     IF s = {} THEN 0 ELSE f[First(s)] + h[s \ {First(s)}]]
  <2>3. \A s \in UpTo(S, k) : s # {} =>
            First(s) \in S /\ s \ {First(s)} \in UpTo(S, k - 1) /\ s \ {First(s)} \in UpTo(S, k)
    BY <1>2, <2>1, Smaller DEF UpTo
  <2>4. g \in [UpTo(S, k) -> Nat]
    <3> SUFFICES ASSUME NEW s \in UpTo(S, k), s # {}
                 PROVE  f[First(s)] + h[s \ {First(s)}] \in Nat
      OBVIOUS
    <3>1. f[First(s)] \in Nat /\ h[s \ {First(s)}] \in Nat
      BY <2>3
    <3> QED BY <3>1
  <2>5. \A s \in UpTo(S, k - 1) : s \in UpTo(S, k)
    BY <1>2, <2>1 DEF UpTo
  <2>6. \A s \in UpTo(S, k - 1) : g[s] = h[s]
    BY <2>2, <2>5 DEF Sums
  <2>7. Sums(f, UpTo(S, k), g)
    BY <2>3, <2>6 DEF Sums
  <2> QED BY <1>1, <2>4, <2>7
<1> QED BY <1>3, <1>4

\* What adds up naturals over a finite set is a sum.
LEMMA SumFunctionDef ==
    ASSUME NEW S, IsFiniteSet(S), NEW f \in [S -> Nat]
    PROVE  \E g \in [SUBSET S -> Nat] : Sums(f, SUBSET S, g) /\ SumFunction(f) = g[S]
<1> DEFINE IsSum(g) == g = [s \in SUBSET S |->
               IF s = {} THEN 0 ELSE LET x == CHOOSE x \in s : TRUE IN f[x] + g[s \ {x}]]
<1>1. SumFunction(f) = (CHOOSE g : IsSum(g))[S]
  BY DEF SumFunction, SumFunctionOnSet, FoldFunctionOnSet, MapThenFoldSet
<1>2. Cardinality(S) \in Nat
  BY FS_CardinalityType
<1>3. UpTo(S, Cardinality(S)) = SUBSET S
  BY FS_Subset DEF UpTo
<1>4. PICK h \in [SUBSET S -> Nat] : Sums(f, SUBSET S, h)
  <2> DEFINE n == Cardinality(S)
  <2> HIDE DEF n
  <2>1. \E g \in [UpTo(S, n) -> Nat] : Sums(f, UpTo(S, n), g)
    BY <1>2, SumsUpTo DEF n
  <2> QED BY <1>3, <2>1 DEF n
<1>5. IsSum(h)
  BY <1>4 DEF Sums, First
<1>6. IsSum(CHOOSE g : IsSum(g))
  <2> HIDE DEF IsSum
  <2> QED BY <1>5
<1>7. PICK g : IsSum(g) /\ SumFunction(f) = g[S]
  BY <1>1, <1>6
<1>8. Sums(f, SUBSET S, g)
  BY <1>7 DEF Sums, First
<1>9. \A s \in SUBSET S : g[s] = h[s]
  <2> SUFFICES ASSUME NEW r \in SUBSET S, g[r] # h[r]
               PROVE  FALSE
    OBVIOUS
  <2> DEFINE Sizes == {n \in Nat : \E s \in SUBSET S : g[s] # h[s] /\ Cardinality(s) = n}
  <2>1. \A s \in SUBSET S : Cardinality(s) \in Nat
    BY FS_Subset, FS_CardinalityType
  <2>2. PICK n \in Sizes : \A k \in Sizes : n <= k
    BY <2>1, Least
  <2>3. PICK s \in SUBSET S : g[s] # h[s] /\ Cardinality(s) = n
    BY <2>2
  <2>4. s # {}
    BY <1>4, <1>8, <2>3 DEF Sums
  <2>5. g[s \ {First(s)}] = h[s \ {First(s)}]
    BY <2>2, <2>3, <2>4, Smaller
  <2> QED BY <1>4, <1>8, <2>3, <2>4, <2>5 DEF Sums
<1>10. g = h
  <2>1. g = [s \in SUBSET S |-> g[s]]
    BY <1>7
  <2> QED BY <1>9, <2>1
<1> QED BY <1>4, <1>7, <1>8, <1>10

LEMMA SumFunctionType ==
    ASSUME NEW S, IsFiniteSet(S), NEW f \in [S -> Nat]
    PROVE  SumFunction(f) \in Nat
<1>1. PICK g \in [SUBSET S -> Nat] : SumFunction(f) = g[S]
  BY SumFunctionDef
<1> QED BY <1>1

\* e adds one to f at i.
Bumps(e, f, S, i) == \A x \in S : e[x] = IF x = i THEN f[x] + 1 ELSE f[x]

\* The sums over the subsets, of functions that differ by one at i.
LEMMA SumsBump ==
    ASSUME NEW S, IsFiniteSet(S), NEW f \in [S -> Nat], NEW e \in [S -> Nat], NEW i \in S,
           Bumps(e, f, S, i),
           NEW g \in [SUBSET S -> Nat], Sums(f, SUBSET S, g),
           NEW h \in [SUBSET S -> Nat], Sums(e, SUBSET S, h)
    PROVE  h[S] = g[S] + 1
<1> DEFINE Right(s) == h[s] = IF i \in s THEN g[s] + 1 ELSE g[s]
           Sizes == {n \in Nat : \E s \in SUBSET S : ~Right(s) /\ Cardinality(s) = n}
<1> SUFFICES ASSUME ~Right(S)
             PROVE  FALSE
  OBVIOUS
<1>1. \A s \in SUBSET S : Cardinality(s) \in Nat
  BY FS_Subset, FS_CardinalityType
<1>2. Sizes \in SUBSET Nat /\ Cardinality(S) \in Sizes
  BY <1>1
<1>3. PICK n \in Sizes : \A k \in Sizes : n <= k
  <2> HIDE DEF Sizes
  <2> QED BY <1>2, Least
<1>4. PICK s \in SUBSET S : ~Right(s) /\ Cardinality(s) = n
  BY <1>3
<1>5. s # {}
  BY <1>4 DEF Sums
<1> DEFINE x == First(s)
           t == s \ {x}
<1>6. x \in s /\ t \in SUBSET S /\ Cardinality(t) \in Nat /\ Cardinality(t) < n
  BY <1>4, <1>5, Smaller
<1>7. Right(t)
  BY <1>3, <1>6
<1>8. g[s] = f[x] + g[t] /\ h[s] = e[x] + h[t]
  BY <1>5 DEF Sums
<1>9. f[x] \in Nat /\ e[x] = (IF x = i THEN f[x] + 1 ELSE f[x]) /\ g[t] \in Nat /\ h[t] \in Nat
  BY <1>6 DEF Bumps
<1>10. i \in s <=> x = i \/ i \in t
  BY <1>6
<1>11. x = i => i \notin t
  OBVIOUS
<1>12. Right(s)
  <2> HIDE DEF x, t
  <2> QED BY <1>7, <1>8, <1>9, <1>10, <1>11
<1> QED BY <1>4, <1>12

LEMMA SumFunctionBump ==
    ASSUME NEW S, IsFiniteSet(S), NEW f \in [S -> Nat], NEW e \in [S -> Nat], NEW i \in S,
           Bumps(e, f, S, i)
    PROVE  SumFunction(e) = SumFunction(f) + 1
<1>1. PICK g \in [SUBSET S -> Nat] : Sums(f, SUBSET S, g) /\ SumFunction(f) = g[S]
  BY SumFunctionDef
<1>2. PICK h \in [SUBSET S -> Nat] : Sums(e, SUBSET S, h) /\ SumFunction(e) = h[S]
  BY SumFunctionDef
<1>3. h[S] = g[S] + 1
  BY <1>1, <1>2, SumsBump
<1> QED BY <1>1, <1>2, <1>3

\* Nothing adds up to nothing.
LEMMA SumFunctionZero ==
    ASSUME NEW S, IsFiniteSet(S)
    PROVE  SumFunction([i \in S |-> 0]) = 0
<1> DEFINE f == [i \in S |-> 0]
<1>1. f \in [S -> Nat]
  OBVIOUS
<1>2. PICK g \in [SUBSET S -> Nat] : Sums(f, SUBSET S, g) /\ SumFunction(f) = g[S]
  <2> HIDE DEF f
  <2> QED BY <1>1, SumFunctionDef
<1>3. \A s \in SUBSET S : Cardinality(s) \in Nat
  BY FS_Subset, FS_CardinalityType
<1> DEFINE Sizes == {n \in Nat : \E s \in SUBSET S : g[s] # 0 /\ Cardinality(s) = n}
<1>4. ASSUME g[S] # 0 PROVE FALSE
  <2>1. Sizes \in SUBSET Nat /\ Cardinality(S) \in Sizes
    BY <1>3, <1>4
  <2>2. PICK n \in Sizes : \A k \in Sizes : n <= k
    <3> HIDE DEF Sizes
    <3> QED BY <2>1, Least
  <2>3. PICK s \in SUBSET S : g[s] # 0 /\ Cardinality(s) = n
    BY <2>2
  <2>4. s # {}
    BY <1>2, <2>3 DEF Sums
  <2>5. g[s \ {First(s)}] = 0 /\ First(s) \in S
    BY <2>2, <2>3, <2>4, Smaller
  <2>6. g[s] = f[First(s)] + g[s \ {First(s)}]
    BY <1>2, <2>4 DEF Sums
  <2> QED BY <2>3, <2>5, <2>6
<1> QED BY <1>2, <1>4

(* No observation is matched more often than it was made *)

\* What is stored at the end of a leg, and under which keys.
Ends == Outs \cup Ins
Opposite(m, n) == (m \in Outs /\ n \in Ins) \/ (m \in Ins /\ n \in Outs)
Side(m) == IF m \in Outs THEN "outbound" ELSE "inbound"
AtEnd(m) == KeysAt(m, IF m \in Outs THEN m.dest ELSE m.chain)

\* The keys of m that are deleted when n matches it.
Deleted(m, n) == IF m \in Outs THEN ClaimedKeys(n, m) ELSE AtEnd(n)

\* A match of m leaves nothing of it that another match could find.
NothingLeft(m) ==
    \A n, p \in Ends :
        Opposite(m, n) /\ Opposite(m, p) /\ AtEnd(m) \cap AtEnd(n) # {} =>
            AtEnd(m) \cap AtEnd(p) \subseteq Deleted(m, n)

\* How often m was reported received.
Times(m) == IF m \in Outs THEN ReceivedBy(m) ELSE ReceivedOf(m)

\* The ways in which m may come to be reported received once more: it waits under a key
\* that is looked for, is claimed, is being stored (all of these once together), or its
\* handler is looking for a match.
Waits(m) == \E k \in Keys : /\ store[Side(m)][k] = m
                            /\ \E p \in Ends : Opposite(m, p) /\ k \in AtEnd(p)
Claims(t) == t.pc \in {"claimInbound", "claimOutbound"}
Storing(t) == t.pc \in {"put", "schedule"}
Held(m) == \/ Waits(m)
           \/ \E t \in running : (Claims(t) /\ t.got = m) \/ (Storing(t) /\ t.msg = m)
Searches(m) == \E t \in running : ~Storing(t) /\ t.msg = m

One(b) == IF b THEN 1 ELSE 0
Chances(m) == One(Held(m)) + One(Searches(m))

\* Entries are under the keys of what they hold.
KeptAtEnds ==
    \A s \in {"outbound", "inbound"}, k \in Keys :
        store[s][k] # None => k \in AtEnd(store[s][k])

SharesKey(t) == Claims(t) => AtEnd(t.msg) \cap AtEnd(t.got) # {}

\* ReceivedAtMostDelivered, strengthened to be inductive (with TypeInv and MatchInv).
CountInv ==
    /\ \A m \in Ends : NothingLeft(m) => Times(m) + Chances(m) <= seen[m]
    /\ KeptAtEnds
    /\ \A t \in running : SharesKey(t)

\* How often, in this state and in the next.
LEMMA TimesTypes ==
    ASSUME TypeInv, IsFiniteSet(Outs), IsFiniteSet(Ins)
    PROVE  \A m \in Ends : Times(m) \in Nat
<1>1. \A o \in Outs, i \in Ins : notes[Received(o, i)] \in Nat
  BY NoteTypes DEF TypeInv, TypeOK
<1>2. \A o \in Outs : ReceivedBy(o) \in Nat
  <2> SUFFICES ASSUME NEW o \in Outs PROVE ReceivedBy(o) \in Nat
    OBVIOUS
  <2>1. [i \in Ins |-> notes[Received(o, i)]] \in [Ins -> Nat]
    BY <1>1
  <2> QED BY <2>1, SumFunctionType DEF ReceivedBy
<1>3. \A i \in Ins : ReceivedOf(i) \in Nat
  <2> SUFFICES ASSUME NEW i \in Ins PROVE ReceivedOf(i) \in Nat
    OBVIOUS
  <2>1. [o \in Outs |-> notes[Received(o, i)]] \in [Outs -> Nat]
    BY <1>1
  <2> QED BY <2>1, SumFunctionType DEF ReceivedOf
<1> QED BY <1>2, <1>3 DEF Times, Ends

LEMMA TimesStay ==
    ASSUME ReceivedStays
    PROVE  \A m \in Ends : Times(m)' = Times(m)
<1>1. \A o \in Outs : ReceivedBy(o)' = ReceivedBy(o)
  <2> SUFFICES ASSUME NEW o \in Outs PROVE ReceivedBy(o)' = ReceivedBy(o)
    OBVIOUS
  <2>1. [i \in Ins |-> notes'[Received(o, i)]] = [i \in Ins |-> notes[Received(o, i)]]
    BY DEF ReceivedStays
  <2> QED BY <2>1 DEF ReceivedBy
<1>2. \A i \in Ins : ReceivedOf(i)' = ReceivedOf(i)
  <2> SUFFICES ASSUME NEW i \in Ins PROVE ReceivedOf(i)' = ReceivedOf(i)
    OBVIOUS
  <2>1. [o \in Outs |-> notes'[Received(o, i)]] = [o \in Outs |-> notes[Received(o, i)]]
    BY DEF ReceivedStays
  <2> QED BY <2>1 DEF ReceivedOf
<1> QED BY <1>1, <1>2 DEF Times, Ends

\* A match counts for its outbound and its inbound, and for no other.
LEMMA TimesBump ==
    ASSUME TypeInv, IsFiniteSet(Outs), IsFiniteSet(Ins), NEW o \in Outs, NEW i \in Ins,
           Notify(Received(o, i))
    PROVE  \A m \in Ends : Times(m)' = IF m \in {o, i} THEN Times(m) + 1 ELSE Times(m)
<1>1. \A p \in Outs, q \in Ins : /\ notes[Received(p, q)] \in Nat /\ Received(p, q) \in Note
                                 /\ Received(p, q).out = p /\ Received(p, q).by = q
  BY NoteTypes DEF TypeInv, TypeOK, Received
<1>2. \A p \in Outs, q \in Ins :
         notes'[Received(p, q)] = IF p = o /\ q = i THEN notes[Received(p, q)] + 1
                                  ELSE notes[Received(p, q)]
  <2> SUFFICES ASSUME NEW p \in Outs, NEW q \in Ins
               PROVE  notes'[Received(p, q)] = IF p = o /\ q = i THEN notes[Received(p, q)] + 1
                                               ELSE notes[Received(p, q)]
    OBVIOUS
  <2>1. Received(p, q) = Received(o, i) => p = o /\ q = i
    BY <1>1
  <2> QED BY <1>1, <2>1 DEF Notify, TypeInv, TypeOK
<1>3. \A p \in Outs : ReceivedBy(p)' = IF p = o THEN ReceivedBy(p) + 1 ELSE ReceivedBy(p)
  <2> SUFFICES ASSUME NEW p \in Outs
               PROVE  ReceivedBy(p)' = IF p = o THEN ReceivedBy(p) + 1 ELSE ReceivedBy(p)
    OBVIOUS
  <2> DEFINE f == [q \in Ins |-> notes[Received(p, q)]]
             e == [q \in Ins |-> notes'[Received(p, q)]]
  <2>1. f \in [Ins -> Nat] /\ e \in [Ins -> Nat]
    BY <1>1, <1>2
  <2>2. p = o => Bumps(e, f, Ins, i)
    BY <1>2 DEF Bumps
  <2>3. p # o => e = f
    BY <1>2
  <2>4. ReceivedBy(p) = SumFunction(f) /\ ReceivedBy(p)' = SumFunction(e)
    BY DEF ReceivedBy
  <2> HIDE DEF e, f
  <2> QED BY <2>1, <2>2, <2>3, <2>4, SumFunctionBump
<1>4. \A q \in Ins : ReceivedOf(q)' = IF q = i THEN ReceivedOf(q) + 1 ELSE ReceivedOf(q)
  <2> SUFFICES ASSUME NEW q \in Ins
               PROVE  ReceivedOf(q)' = IF q = i THEN ReceivedOf(q) + 1 ELSE ReceivedOf(q)
    OBVIOUS
  <2> DEFINE f == [p \in Outs |-> notes[Received(p, q)]]
             e == [p \in Outs |-> notes'[Received(p, q)]]
  <2>1. f \in [Outs -> Nat] /\ e \in [Outs -> Nat]
    BY <1>1, <1>2
  <2>2. q = i => Bumps(e, f, Outs, o)
    BY <1>2 DEF Bumps
  <2>3. q # i => e = f
    BY <1>2
  <2>4. ReceivedOf(q) = SumFunction(f) /\ ReceivedOf(q)' = SumFunction(e)
    BY DEF ReceivedOf
  <2> HIDE DEF e, f
  <2> QED BY <2>1, <2>2, <2>3, <2>4, SumFunctionBump
<1>5. \A m \in Ins : m \notin Outs
  BY KindsDiffer
<1> QED BY <1>3, <1>4, <1>5 DEF Times, Ends

LEMMA EndsAreMsgs ==
    /\ \A m \in Ends : m \in Msgs /\ m # None /\ Side(m) \in {"outbound", "inbound"}
    /\ \A m, n : Opposite(m, n) => m \in Ends /\ n \in Ends /\ Opposite(n, m)
    /\ \A m \in Ins : m \notin Outs
BY KindsDiffer, ValuesAssumption DEF Ends, Msgs, Side, Opposite

LEMMA OneLess ==
    /\ \A b \in BOOLEAN : One(b) \in {0, 1}
    /\ \A b, c \in BOOLEAN : (b => c) => One(b) <= One(c)
BY DEF One

\* No observation has more chances than before.
LEMMA CountFrame ==
    ASSUME TypeInv, CountInv, IsFiniteSet(Outs), IsFiniteSet(Ins), UNCHANGED seen, ReceivedStays,
           \A m \in Ends : Chances(m)' <= Chances(m),
           KeptAtEnds', \A u \in running' : SharesKey(u)
    PROVE  CountInv'
<1>1. \A m \in Ends : Times(m) \in Nat /\ Times(m)' = Times(m) /\ seen[m] \in Nat
  BY TimesTypes, TimesStay, EndsAreMsgs, ValuesAssumption DEF TypeInv, TypeOK
<1>2. \A m \in Ends : Chances(m) \in 0..2 /\ Chances(m)' \in 0..2
  BY DEF Chances, One
<1>3. \A m \in Ends : NothingLeft(m) => (Times(m) + Chances(m) <= seen[m])'
  BY <1>1, <1>2 DEF CountInv
<1>4. \A u \in running' : SharesKey(u)'
  BY DEF SharesKey, Claims
<1> QED BY <1>3, <1>4 DEF CountInv, NothingLeft

LEMMA WaitsShrinks ==
    ASSUME Shrinks
    PROVE  /\ \A m \in Ends : Waits(m)' => Waits(m)
           /\ KeptAtEnds => KeptAtEnds'
<1>1. \A s \in {"outbound", "inbound"}, k \in Keys :
         store'[s][k] # None => store'[s][k] = store[s][k]
  BY DEF Shrinks, Stores
<1> QED BY <1>1, EndsAreMsgs DEF Waits, KeptAtEnds

\* Entries and handlers only go.
LEMMA CountGone ==
    ASSUME TypeInv, CountInv, IsFiniteSet(Outs), IsFiniteSet(Ins), UNCHANGED seen, ReceivedStays,
           Shrinks, running' \subseteq running
    PROVE  CountInv'
<1>1. \A m \in Ends : (Held(m)' => Held(m)) /\ (Searches(m)' => Searches(m))
  BY WaitsShrinks DEF Held, Searches, Claims, Storing
<1>2. \A m \in Ends : Chances(m)' <= Chances(m)
  BY <1>1 DEF Chances, One
<1>3. KeptAtEnds' /\ \A u \in running' : SharesKey(u)
  BY WaitsShrinks DEF CountInv
<1> QED BY <1>2, <1>3, CountFrame

\* The handler that runs goes on to a point pc where nothing is claimed.
LEMMA CountGoes ==
    ASSUME TypeInv, CountInv, IsFiniteSet(Outs), IsFiniteSet(Ins), UNCHANGED seen, ReceivedStays,
           Shrinks, NEW t \in running, NEW pc, pc \notin {"claimInbound", "claimOutbound"},
           Storing(t) => pc \in {"put", "schedule"},
           \A u \in running' : u.pc = pc /\ u.msg = t.msg
    PROVE  CountInv'
<1>1. ASSUME NEW m \in Ends, m # t.msg
      PROVE  Chances(m)' <= Chances(m)
  <2>1. (Held(m)' => Held(m)) /\ ~Searches(m)'
    BY <1>1, WaitsShrinks DEF Held, Searches, Claims, Storing
  <2> QED BY <2>1 DEF Chances, One
<1>2. ASSUME NEW m \in Ends, m = t.msg
      PROVE  Chances(m)' <= Chances(m)
  <2>1. CASE Storing(t)
    <3>1. Held(m) /\ ~Searches(m)'
      BY <1>2, <2>1 DEF Held, Searches, Storing
    <3> QED BY <3>1 DEF Chances, One
  <2>2. CASE ~Storing(t) /\ pc \in {"put", "schedule"}
    <3>1. Searches(m) /\ ~Searches(m)'
      BY <1>2, <2>2 DEF Searches, Storing
    <3> QED BY <3>1 DEF Chances, One
  <2>3. CASE ~Storing(t) /\ pc \notin {"put", "schedule"}
    <3>1. Searches(m) /\ (Held(m)' => Held(m))
      BY <1>2, <2>3, WaitsShrinks DEF Held, Searches, Claims, Storing
    <3> QED BY <3>1 DEF Chances, One
  <2> QED BY <2>1, <2>2, <2>3
<1>3. KeptAtEnds' /\ \A u \in running' : SharesKey(u)
  BY WaitsShrinks DEF CountInv, SharesKey, Claims
<1> QED BY <1>1, <1>2, <1>3, CountFrame

\* The handler that runs goes on to claim what it found: that waited.
LEMMA CountFound ==
    ASSUME TypeInv, CountInv, IsFiniteSet(Outs), IsFiniteSet(Ins), UNCHANGED <<store, seen, notes>>,
           NEW t \in running, ~Storing(t), ~Claims(t), NEW u, running' = {u}, Claims(u),
           u.msg = t.msg, Opposite(u.got, u.msg), NEW k \in Keys, k \in AtEnd(t.msg),
           store[Side(u.got)][k] = u.got
    PROVE  CountInv'
<1>1. ReceivedStays /\ Shrinks
  BY DEF ReceivedStays, Shrinks
<1>2. u.got \in Ends /\ t.msg \in Ends /\ u.got # None /\ Side(u.got) \in {"outbound", "inbound"}
  BY EndsAreMsgs
<1>3. Waits(u.got)
  BY <1>2 DEF Waits
<1>4. \A m \in Ends : (Held(m)' => Held(m)) /\ (Searches(m)' => Searches(m))
  <2>1. \A m \in Ends : Waits(m)' => Waits(m)
    BY <1>1, WaitsShrinks
  <2>2. ~Storing(u)
    BY DEF Storing, Claims
  <2> QED BY <1>3, <2>1, <2>2 DEF Held, Searches, Claims, Storing
<1>5. \A m \in Ends : Chances(m)' <= Chances(m)
  BY <1>4 DEF Chances, One
<1>6. k \in AtEnd(u.got)
  BY <1>2 DEF CountInv, KeptAtEnds
<1>7. KeptAtEnds' /\ \A v \in running' : SharesKey(v)
  BY <1>1, <1>6, WaitsShrinks DEF CountInv, SharesKey
<1> QED BY <1>1, <1>5, <1>7, CountFrame

\* What is claimed does not wait after it.
LEMMA ClaimedGoes ==
    ASSUME TypeInv, CountInv, Shrinks, NEW t \in running, Claims(t), Opposite(t.got, t.msg),
           NothingLeft(t.got),
           \A k \in Keys : k \in Deleted(t.got, t.msg) => store'[Side(t.got)][k] = None
    PROVE  ~Waits(t.got)'
<1> SUFFICES ASSUME NEW k \in Keys, store'[Side(t.got)][k] = t.got,
                    NEW p \in Ends, Opposite(t.got, p), k \in AtEnd(p)
             PROVE  FALSE
  BY DEF Waits
<1>1. t.got \in Ends /\ t.msg \in Ends /\ t.got # None /\ Side(t.got) \in {"outbound", "inbound"}
  BY EndsAreMsgs
<1>2. store[Side(t.got)][k] = t.got
  BY <1>1 DEF Shrinks, Stores
<1>3. k \in AtEnd(t.got)
  BY <1>1, <1>2 DEF CountInv, KeptAtEnds
<1>4. AtEnd(t.got) \cap AtEnd(t.msg) # {}
  BY DEF CountInv, SharesKey
<1>5. k \in Deleted(t.got, t.msg)
  BY <1>1, <1>3, <1>4 DEF NothingLeft
<1> QED BY <1>1, <1>5

\* A match is reported.
LEMMA CountReceived ==
    ASSUME TypeInv, CountInv, IsFiniteSet(Outs), IsFiniteSet(Ins), UNCHANGED seen, Shrinks,
           NEW t \in running, Claims(t), running' = {}, NEW o \in Outs, NEW i \in Ins,
           Notify(Received(o, i)), (t.msg = o /\ t.got = i) \/ (t.msg = i /\ t.got = o),
           \A k \in Keys : k \in Deleted(t.got, t.msg) => store'[Side(t.got)][k] = None
    PROVE  CountInv'
<1>1. \A m \in Ends : Times(m) \in Nat /\ seen[m] \in Nat
  BY TimesTypes, EndsAreMsgs, ValuesAssumption DEF TypeInv, TypeOK
<1>2. \A m \in Ends : Times(m)' = IF m \in {o, i} THEN Times(m) + 1 ELSE Times(m)
  BY TimesBump
<1>3. \A m \in Ends : ~Searches(m)' /\ (Held(m)' <=> Waits(m)') /\ (Held(m)' => Held(m))
  BY WaitsShrinks DEF Held, Searches
<1>4. Opposite(t.got, t.msg) /\ o \in Ends /\ i \in Ends /\ ~Storing(t)
  BY DEF Opposite, Ends, Storing, Claims
<1>5. Searches(t.msg) /\ Held(t.got)
  BY <1>4 DEF Searches, Held
<1>6. NothingLeft(t.got) => ~Held(t.got)'
  BY <1>3, <1>4, ClaimedGoes
<1>7. ASSUME NEW m \in Ends, NothingLeft(m)
      PROVE  Times(m)' + Chances(m)' <= Times(m) + Chances(m)
  <2>1. CASE m = t.msg
    BY <1>1, <1>2, <1>3, <1>5, <2>1 DEF Chances, One
  <2>2. CASE m = t.got
    <3>1. Held(m) /\ ~Held(m)' /\ ~Searches(m)'
      BY <1>3, <1>5, <1>6, <1>7, <2>2
    <3> QED BY <1>1, <1>2, <3>1 DEF Chances, One
  <2>3. CASE m \notin {t.msg, t.got}
    <3>1. Times(m)' = Times(m)
      BY <1>2, <2>3
    <3> QED BY <1>1, <1>3, <3>1 DEF Chances, One
  <2> QED BY <2>1, <2>2, <2>3
<1>8. \A m \in Ends : Times(m)' \in Nat /\ Chances(m) \in 0..2 /\ Chances(m)' \in 0..2
  BY <1>1, <1>2 DEF Chances, One
<1>9. \A m \in Ends : NothingLeft(m) => (Times(m) + Chances(m) <= seen[m])'
  BY <1>1, <1>7, <1>8 DEF CountInv
<1> QED BY <1>9, WaitsShrinks DEF CountInv, NothingLeft

LEMMA CountMatch ==
    ASSUME TypeInv, MatchInv, CountInv, IsFiniteSet(Outs), IsFiniteSet(Ins), NEW t \in running,
           TryMatchOnOutbound(t) \/ MatchOutbound(t)
    PROVE  CountInv'
<1>1. /\ t \in Handler /\ HandlerOK(t) /\ running = {t} /\ StoreOK
      /\ UNCHANGED <<store, notes, seen>>
  BY HandlerTypes DEF TryMatchOnOutbound, MatchOutbound, untouched, MatchInv, TypeInv, TypeOK
<1>2. Shrinks /\ ReceivedStays
  BY <1>1 DEF Shrinks, ReceivedStays
<1>3. ASSUME NEW pc \in {"put", "hopIn"}, Goto(t, pc), ~Storing(t)
      PROVE  CountInv'
  <2>1. \A u \in running' : u.pc = pc /\ u.msg = t.msg
    BY <1>3, GotoKeeps
  <2> QED BY <1>1, <1>2, <1>3, <2>1, CountGoes
<1>4. ASSUME NEW pc \in {"claimInbound", "claimOutbound"}, ~Storing(t), ~Claims(t),
             NEW k \in Keys, k \in AtEnd(t.msg), NEW n, GotoWith(t, pc, n),
             Opposite(n, t.msg), store[Side(n)][k] = n
      PROVE  CountInv'
  <2>1. PICK u : u = [t EXCEPT !.pc = pc, !.got = n]
    OBVIOUS
  <2>2. running' = {u}
    BY <1>1, <1>4, <2>1 DEF GotoWith, Become
  <2>3. u.pc = pc /\ u.msg = t.msg /\ u.got = n
    BY <1>1, <2>1 DEF Handler
  <2>4. Claims(u)
    BY <2>3 DEF Claims
  <2> QED BY <1>1, <1>4, <2>2, <2>3, <2>4, CountFound
<1>5. CASE TryMatchOnOutbound(t)
  <2>1. t.pc = "getInbound" /\ t.msg \in Outs /\ ~Storing(t) /\ ~Claims(t)
    BY <1>1, <1>5 DEF TryMatchOnOutbound, HandlerOK, Storing, Claims
  <2>2. ASSUME NEW k \in Found("inbound", KeysAt(t.msg, t.msg.dest)),
               GotoWith(t, "claimInbound", store["inbound"][k])
        PROVE  CountInv'
    <3>1. k \in Keys /\ k \in AtEnd(t.msg) /\ store["inbound"][k] # None
      <4>1. k \in KeysAt(t.msg, t.msg.dest) /\ store["inbound"][k] # None
        BY DEF Found
      <4>2. AtEnd(t.msg) = KeysAt(t.msg, t.msg.dest)
        BY <2>1 DEF AtEnd
      <4> QED BY <2>1, <4>1, <4>2, OutKeys, OutFields
    <3>2. store["inbound"][k] \in Ins
      BY <1>1, <3>1 DEF StoreOK, Stores, Holds
    <3>3. Opposite(store["inbound"][k], t.msg) /\ Side(store["inbound"][k]) = "inbound"
      BY <2>1, <3>2, EndsAreMsgs DEF Opposite, Side
    <3> QED BY <1>4, <2>1, <2>2, <3>1, <3>3
  <2> QED BY <1>3, <1>5, <2>1, <2>2 DEF TryMatchOnOutbound
<1>6. CASE MatchOutbound(t)
  <2>1. t.pc = "getOutbound" /\ t.msg \in Ins /\ ~Storing(t) /\ ~Claims(t)
    BY <1>1, <1>6 DEF MatchOutbound, HandlerOK, Storing, Claims
  <2>2. ASSUME NEW k \in Found("outbound", KeysAt(t.msg, t.msg.chain)),
               GotoWith(t, "claimOutbound", store["outbound"][k])
        PROVE  CountInv'
    <3>1. k \in Keys /\ k \in AtEnd(t.msg) /\ store["outbound"][k] # None
      BY <2>1, InKeys, EndsAreMsgs DEF Found, AtEnd
    <3>2. store["outbound"][k] \in Outs
      BY <1>1, <3>1 DEF StoreOK, Stores, Holds
    <3>3. Opposite(store["outbound"][k], t.msg) /\ Side(store["outbound"][k]) = "outbound"
      BY <2>1, <3>2 DEF Opposite, Side
    <3> QED BY <1>4, <2>1, <2>2, <3>1, <3>3
  <2> QED BY <1>3, <1>6, <2>1, <2>2 DEF MatchOutbound
<1> QED BY <1>5, <1>6

LEMMA CountClaims ==
    ASSUME TypeInv, MatchInv, CountInv, IsFiniteSet(Outs), IsFiniteSet(Ins), NEW t \in running,
           ClaimInbound(t) \/ ClaimOutbound(t)
    PROVE  CountInv'
<1>0. HandlerOK(t) /\ StoreOK
  BY HandlerTypes DEF TypeInv, TypeOK
<1>1. running' = {} /\ UNCHANGED seen /\ Shrinks /\ Claims(t)
  <2>1. running' = {} /\ UNCHANGED seen /\ Claims(t)
    BY GotoKeeps DEF ClaimInbound, ClaimOutbound, untouched, Claims
  <2>2. Shrinks
    BY <1>0, DelShrinks DEF ClaimInbound, ClaimOutbound, Stores
  <2> QED BY <2>1, <2>2
<1>2. CASE ClaimInbound(t)
  <2>1. /\ t.msg \in Outs /\ t.got \in Ins /\ Notify(Received(t.msg, t.got))
        /\ Del("inbound", KeysAt(t.msg, t.msg.dest))
    BY <1>0, <1>2 DEF ClaimInbound, HandlerOK
  <2>2. Deleted(t.got, t.msg) = KeysAt(t.msg, t.msg.dest) /\ Side(t.got) = "inbound"
    BY <2>1, EndsAreMsgs DEF Deleted, AtEnd, Side
  <2>3. \A k \in Keys : k \in Deleted(t.got, t.msg) => store'[Side(t.got)][k] = None
    BY <1>0, <2>1, <2>2, DelLemma DEF Stores
  <2> QED BY <1>1, <2>1, <2>3, CountReceived
<1>3. CASE ClaimOutbound(t)
  <2>1. /\ t.got \in Outs /\ t.msg \in Ins /\ Notify(Received(t.got, t.msg))
        /\ Del("outbound", ClaimedKeys(t.msg, t.got))
    BY <1>0, <1>3 DEF ClaimOutbound, HandlerOK
  <2>2. Deleted(t.got, t.msg) = ClaimedKeys(t.msg, t.got) /\ Side(t.got) = "outbound"
    BY <2>1 DEF Deleted, Side
  <2>3. \A k \in Keys : k \in Deleted(t.got, t.msg) => store'[Side(t.got)][k] = None
    BY <1>0, <2>1, <2>2, DelLemma DEF Stores
  <2> QED BY <1>1, <2>1, <2>3, CountReceived
<1> QED BY <1>2, <1>3

LEMMA CountStore ==
    ASSUME TypeInv, MatchInv, CountInv, IsFiniteSet(Outs), IsFiniteSet(Ins), NEW t \in running,
           StoreEntry(t)
    PROVE  CountInv'
<1>1. /\ t \in Handler /\ HandlerOK(t) /\ t.pc = "put" /\ t.msg \in Msgs /\ running = {t}
      /\ UNCHANGED <<seen, notes>>
  BY HandlerTypes DEF StoreEntry, MatchInv, untouched
<1>2. \A s \in {"outbound", "inbound"}, k \in Keys :
         store'[s][k] = IF TargetStore(t) = s /\ k \in TargetKeys(t)
                        THEN t.msg ELSE store[s][k]
  BY StoreEntryWrites DEF Stores
<1>3. \A u \in running' : u.pc = "schedule" /\ u.msg = t.msg
  BY GotoKeeps DEF StoreEntry
<1>4. ASSUME NEW m \in Ends, m # t.msg
      PROVE  Chances(m)' <= Chances(m)
  <2>1. Waits(m)' => Waits(m)
    BY <1>2, <1>4, EndsAreMsgs DEF Waits
  <2>2. (Held(m)' => Held(m)) /\ ~Searches(m)'
    BY <1>3, <1>4, <2>1 DEF Held, Searches, Claims, Storing
  <2> QED BY <2>2 DEF Chances, One
<1>5. ASSUME t.msg \in Ends
      PROVE  Chances(t.msg)' <= Chances(t.msg)
  <2>1. Held(t.msg) /\ ~Searches(t.msg)'
    BY <1>1, <1>3 DEF Held, Searches, Storing
  <2> QED BY <2>1 DEF Chances, One
<1>6. ASSUME NEW s \in {"outbound", "inbound"}, NEW k \in Keys, store'[s][k] # None
      PROVE  k \in AtEnd(store'[s][k])
  <2>1. CASE TargetStore(t) = s /\ k \in TargetKeys(t)
    <3>1. store'[s][k] = t.msg
      BY <1>2, <2>1
    <3>2. k \in AtEnd(t.msg)
      BY <1>1, <2>1, MatchTarget, EndsAreMsgs DEF AtEnd
    <3> QED BY <3>1, <3>2
  <2>2. CASE ~(TargetStore(t) = s /\ k \in TargetKeys(t))
    BY <1>2, <1>6, <2>2 DEF CountInv, KeptAtEnds
  <2> QED BY <2>1, <2>2
<1>7. ReceivedStays /\ \A u \in running' : SharesKey(u)
  BY <1>1, <1>3 DEF ReceivedStays, SharesKey, Claims
<1>8. KeptAtEnds'
  BY <1>6 DEF KeptAtEnds
<1> QED BY <1>1, <1>4, <1>5, <1>7, <1>8, CountFrame

LEMMA CountSteps ==
    ASSUME TypeInv, MatchInv, CountInv, IsFiniteSet(Outs), IsFiniteSet(Ins), NEW t \in running,
           \/ FindRelayInbound(t) \/ ClaimRelay(t) \/ MatchHopOut(t) \/ AnnounceSent(t)
           \/ TryHopMatchOnInbound(t) \/ MatchRelayed(t) \/ ClaimRelayed(t) \/ ScheduleSweep(t)
    PROVE  CountInv'
<1>1. UNCHANGED seen /\ Shrinks
  <2>1. ~StoreEntry(t) /\ HandlerStep(t) /\ UNCHANGED seen
    BY DEF HandlerStep, untouched, FindRelayInbound, ClaimRelay, MatchHopOut, AnnounceSent,
       TryHopMatchOnInbound, MatchRelayed, ClaimRelayed, ScheduleSweep, StoreEntry
  <2> QED BY <2>1, HandlerShrinks
<1>2. ReceivedStays
  <2>1. notes' = notes => ReceivedStays
    BY DEF ReceivedStays
  <2> QED BY <2>1, OtherReceived
          DEF FindRelayInbound, ClaimRelay, MatchHopOut, AnnounceSent,
              TryHopMatchOnInbound, MatchRelayed, ClaimRelayed, ScheduleSweep,
              Relayed, Hop, Sent
<1>3. CASE FindRelayInbound(t)
  <2>1. PICK pc \in {"claimRelay", "hopOut"} : \A u \in running' : u.pc = pc /\ u.msg = t.msg
    BY <1>3, GotoKeeps DEF FindRelayInbound
  <2> QED BY <1>1, <1>2, <1>3, <2>1, CountGoes DEF Storing, FindRelayInbound
<1>4. CASE ClaimRelay(t)
  <2>1. \A u \in running' : u.pc = "hopOut" /\ u.msg = t.msg
    BY <1>4, GotoKeeps DEF ClaimRelay
  <2> QED BY <1>1, <1>2, <1>4, <2>1, CountGoes DEF Storing, ClaimRelay
<1>5. CASE AnnounceSent(t)
  <2>1. \A u \in running' : u.pc = "getInbound" /\ u.msg = t.msg
    BY <1>5, GotoKeeps DEF AnnounceSent
  <2> QED BY <1>1, <1>2, <1>5, <2>1, CountGoes DEF Storing, AnnounceSent
<1>6. CASE MatchHopOut(t) \/ ClaimRelayed(t)
  <2>1. running' = {}
    BY <1>6, GotoKeeps DEF MatchHopOut, ClaimRelayed
  <2> QED BY <1>1, <1>2, <2>1, CountGone
<1>7. CASE TryHopMatchOnInbound(t)
  <2>1. \A u \in running' : u.pc = "put" /\ u.msg = t.msg
    BY <1>7, GotoKeeps DEF TryHopMatchOnInbound
  <2> QED BY <1>1, <1>2, <2>1, CountGoes
<1>8. CASE MatchRelayed(t)
  <2>1. PICK pc \in {"claimRelayed", "put"} : \A u \in running' : u.pc = pc /\ u.msg = t.msg
    BY <1>8, GotoKeeps DEF MatchRelayed
  <2> QED BY <1>1, <1>2, <1>8, <2>1, CountGoes DEF Storing, MatchRelayed
<1>9. CASE ScheduleSweep(t)
  <2> DEFINE u == [t EXCEPT !.pc = "put", !.leg = @ + 1]
  <2>1. u.pc = "put" /\ u.msg = t.msg
    BY HandlerTypes DEF Handler
  <2>2. running' \subseteq {u}
    BY <1>9 DEF MatchInv, ScheduleSweep, Release, Become
  <2> HIDE DEF u
  <2> QED BY <1>1, <1>2, <2>1, <2>2, CountGoes
<1> QED BY <1>3, <1>4, <1>5, <1>6, <1>7, <1>8, <1>9

LEMMA CountDeliver ==
    ASSUME TypeInv, CountInv, IsFiniteSet(Outs), IsFiniteSet(Ins), NEW m \in Msgs, Deliver(m)
    PROVE  CountInv'
<1>1. /\ running = {} /\ seen \in [Msgs -> Nat] /\ UNCHANGED <<store, notes>>
      /\ seen' = [seen EXCEPT ![m] = @ + 1]
  <2>1. seen \in [Msgs -> Nat]
    BY ValuesAssumption DEF TypeInv, TypeOK
  <2> QED BY <2>1 DEF Deliver, MutexFree
<1>2. \A n \in Msgs : seen[n] \in Nat /\ seen'[n] = (IF n = m THEN seen[n] + 1 ELSE seen[n])
  BY <1>1
<1>3. PICK u : running' = {u} /\ u.pc = EntryPoint(m) /\ u.msg = m
  <2> DEFINE v == [pc |-> EntryPoint(m), msg |-> m, nth |-> seen[m] + 1, leg |-> 1, got |-> m]
  <2>1. v.pc = EntryPoint(m) /\ v.msg = m
    OBVIOUS
  <2>2. running' = {v}
    BY <1>1 DEF Deliver
  <2> HIDE DEF v
  <2> QED BY <2>1, <2>2
<1>4. ~Claims(u) /\ ~Storing(u)
  BY <1>3, KindsDiffer DEF EntryPoint, Msgs, Claims, Storing
<1>5. \A n \in Ends : /\ Held(n)' <=> Held(n)
                      /\ ~Searches(n) /\ (Searches(n)' <=> n = m)
  BY <1>1, <1>3, <1>4 DEF Held, Waits, Searches, Claims, Storing
<1>6. \A n \in Ends : Times(n) \in Nat /\ Times(n)' = Times(n) /\ n \in Msgs
  <2>1. ReceivedStays
    BY <1>1 DEF ReceivedStays
  <2> QED BY <2>1, TimesTypes, TimesStay, EndsAreMsgs
<1>7. ASSUME NEW n \in Ends, NothingLeft(n)
      PROVE  (Times(n) + Chances(n) <= seen[n])'
  <2>1. Times(n) + Chances(n) <= seen[n]
    BY <1>7 DEF CountInv
  <2>2. Chances(n) = One(Held(n)) /\ Chances(n)' = One(Held(n)) + IF n = m THEN 1 ELSE 0
    BY <1>5 DEF Chances, One
  <2>3. One(Held(n)) \in {0, 1}
    BY DEF One
  <2> QED BY <1>2, <1>6, <2>1, <2>2, <2>3
<1>8. KeptAtEnds' /\ \A v \in running' : SharesKey(v)'
  BY <1>1, <1>3, <1>4 DEF CountInv, KeptAtEnds, SharesKey, Claims
<1> QED BY <1>7, <1>8 DEF CountInv, NothingLeft

LEMMA CountOther ==
    ASSUME TypeInv, CountInv, IsFiniteSet(Outs), IsFiniteSet(Ins), Next, ~Handle,
           ~\E m \in Msgs : Deliver(m)
    PROVE  CountInv'
<1>1. running' \subseteq running /\ UNCHANGED seen
  BY DEF Next, RunScheduler, RunSweep, RunClear, Unsubscribe, Crash, Dispatch, SweepGet,
     SweepDel, ClearScan, ClearWrite
<1>2. Shrinks
  BY OtherShrinks
<1>3. ReceivedStays
  <2>1. notes' = notes => ReceivedStays
    BY DEF ReceivedStays
  <2>2. ASSUME NEW w \in sweeps, SweepDel(w) PROVE ReceivedStays
    BY <2>1, <2>2, OtherReceived DEF SweepDel, Timeout
  <2> QED BY <2>1, <2>2 DEF Next, RunScheduler, RunSweep, RunClear, Unsubscribe, Crash,
          Dispatch, SweepGet, ClearScan, ClearWrite
<1> QED BY <1>1, <1>2, <1>3, CountGone

\* CountInv is inductive, given the other invariants.
LEMMA CountInductive ==
    ASSUME IsFiniteSet(Outs), IsFiniteSet(Ins)
    PROVE  /\ Init => CountInv
           /\ TypeInv /\ MatchInv /\ CountInv /\ [Next]_vars => CountInv'
<1>1. Init => CountInv
  <2> SUFFICES ASSUME Init PROVE CountInv
    OBVIOUS
  <2>1. \A o \in Outs, i \in Ins : notes[Received(o, i)] = 0
    BY NoteTypes DEF Init
  <2>2. \A o \in Outs : ReceivedBy(o) = 0
    <3> SUFFICES ASSUME NEW o \in Outs PROVE ReceivedBy(o) = 0
      OBVIOUS
    <3>1. [i \in Ins |-> notes[Received(o, i)]] = [i \in Ins |-> 0]
      BY <2>1
    <3> QED BY <3>1, SumFunctionZero DEF ReceivedBy
  <2>3. \A i \in Ins : ReceivedOf(i) = 0
    <3> SUFFICES ASSUME NEW i \in Ins PROVE ReceivedOf(i) = 0
      OBVIOUS
    <3>1. [o \in Outs |-> notes[Received(o, i)]] = [o \in Outs |-> 0]
      BY <2>1
    <3> QED BY <3>1, SumFunctionZero DEF ReceivedOf
  <2>4. \A m \in Ends : Times(m) = 0 /\ seen[m] = 0 /\ m # None
    BY <2>2, <2>3, EndsAreMsgs DEF Times, Ends, Init
  <2>5. \A m \in Ends : ~Held(m) /\ ~Searches(m)
    BY <2>4, EndsAreMsgs DEF Held, Searches, Waits, Init, Stores
  <2> QED BY <2>4, <2>5 DEF CountInv, Chances, One, KeptAtEnds, Init, Stores
<1>2. ASSUME TypeInv, MatchInv, CountInv, NEW t \in running, HandlerStep(t)
      PROVE  CountInv'
  BY <1>2, CountMatch, CountClaims, CountStore, CountSteps DEF HandlerStep
<1>3. ASSUME TypeInv, CountInv, UNCHANGED vars
      PROVE  CountInv'
  <2>1. Shrinks /\ ReceivedStays /\ UNCHANGED <<running, seen>>
    BY <1>3 DEF vars, Shrinks, ReceivedStays
  <2> QED BY <1>3, <2>1, CountGone
<1> QED BY <1>1, <1>2, <1>3, CountDeliver, CountOther DEF Handle

\* Whatever is delivered again, swept, cleared or lost in a crash, each observation that
\* leaves nothing behind when it is matched (NothingLeft) is reported received no more
\* often than it was made (ReceivedAtMostDelivered; matching.ts:120-340).
THEOREM MatchedAtMostDelivered ==
    ASSUME IsFiniteSet(Outs), IsFiniteSet(Ins), \A m \in Outs \cup Ins : NothingLeft(m)
    PROVE  Spec => []ReceivedAtMostDelivered
<1>1. TypeInv /\ CountInv => ReceivedAtMostDelivered
  <2> SUFFICES ASSUME TypeInv, CountInv PROVE ReceivedAtMostDelivered
    OBVIOUS
  <2>1. \A m \in Ends : /\ Times(m) \in Nat /\ seen[m] \in Nat /\ Chances(m) \in Nat
                        /\ Times(m) + Chances(m) <= seen[m]
    <3>1. \A m \in Ends : Times(m) \in Nat /\ seen[m] \in Nat
      BY TimesTypes, EndsAreMsgs, ValuesAssumption DEF TypeInv, TypeOK
    <3>2. \A m \in Ends : Chances(m) \in Nat
      BY DEF Chances, One
    <3> QED BY <3>1, <3>2 DEF CountInv, Ends
  <2>2. \A m \in Ends : Times(m) <= seen[m]
    BY <2>1
  <2> QED BY <2>2, EndsAreMsgs DEF Times, Ends, ReceivedAtMostDelivered
<1> QED BY <1>1, TypeInductive, MatchInductive, CountInductive, PTL DEF Spec

\* For outbounds it is enough that an inbound that shares a reference with one shares its
\* topic id (IdsAgree): the two keys an inbound deletes are then those of the outbound, also
\* where the hash changed at a hop (matching.ts:160-250).
THEOREM OutboundsMatchOnce ==
    ASSUME IsFiniteSet(Outs), IsFiniteSet(Ins), IdsAgree
    PROVE  Spec => [](\A o \in Outs : ReceivedBy(o) <= seen[o])
<1>1. ASSUME NEW o \in Outs PROVE NothingLeft(o)
  <2> SUFFICES ASSUME NEW i \in Ins, AtEnd(o) \cap AtEnd(i) # {}
               PROVE  AtEnd(o) \subseteq ClaimedKeys(i, o)
    BY EndsAreMsgs DEF NothingLeft, Opposite, Deleted
  <2>1. AtEnd(o) = KeysAt(o, o.dest) /\ AtEnd(i) = KeysAt(i, i.chain)
    BY EndsAreMsgs DEF AtEnd
  <2> QED BY <2>1, ClaimsBoth
<1>2. TypeInv /\ CountInv => \A o \in Outs : ReceivedBy(o) <= seen[o]
  <2> SUFFICES ASSUME TypeInv, CountInv, NEW o \in Outs PROVE ReceivedBy(o) <= seen[o]
    OBVIOUS
  <2>1. o \in Ends /\ Times(o) = ReceivedBy(o)
    BY DEF Ends, Times
  <2>2. Times(o) \in Nat /\ seen[o] \in Nat /\ Chances(o) \in Nat
    BY <2>1, TimesTypes, EndsAreMsgs, ValuesAssumption DEF TypeInv, TypeOK, Chances, One
  <2>3. Times(o) + Chances(o) <= seen[o]
    BY <1>1, <2>1 DEF CountInv
  <2> QED BY <2>1, <2>2, <2>3
<1> QED BY <1>2, TypeInductive, MatchInductive, CountInductive, PTL DEF Spec
====
