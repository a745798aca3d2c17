------------------------- MODULE SwitchboardProofs -------------------------
(***************************************************************************)
(* Proofs about Switchboard, for every set of ids, chains, descriptors and  *)
(* batches, any number of requests at a time, of failing streams and of     *)
(* crashes.                                                                *)
(***************************************************************************)
EXTENDS Switchboard, FiniteSetTheorems, SequenceTheorems, WellFoundedInduction, TLAPS

(* The store *)

LEMMA Positions ==
    /\ DOMAIN ChainOrder = 1..Len(ChainOrder) /\ Len(ChainOrder) \in Nat
    /\ \A n \in DOMAIN ChainOrder : ChainOrder[n] \in Chains
BY SwitchboardAssumption DEF Chains

\* A set of positions has a first one.
LEMMA FirstPosition ==
    ASSUME NEW I \in SUBSET Nat, I # {}
    PROVE  \E x \in I : \A y \in I : x <= y
<1>1. PICK x \in I : \A y \in I : ~(<<y, x>> \in OpToRel(<, Nat))
  BY NatLessThanWellFounded, WFMin, ZenonT(60)
<1>2. \A y \in I : x <= y
  <2> SUFFICES ASSUME NEW y \in I PROVE ~(y < x)
    OBVIOUS
  <2>1. y < x => <<y, x>> \in OpToRel(<, Nat)
    BY DEF OpToRel
  <2> QED BY <1>1, <2>1
<1> QED BY <1>2

\* The choice of the first one.
LEMMA ChosenPosition ==
    ASSUME NEW I \in SUBSET Nat, I # {}
    PROVE  (CHOOSE n \in I : \A m \in I : n <= m) \in I
<1> DEFINE Least(n) == n \in I /\ \A m \in I : n <= m
<1>1. \E n : Least(n)
  BY FirstPosition
<1>2. Least(CHOOSE n : Least(n))
  BY <1>1
<1> QED BY <1>2

\* The family an id is found in has it.
LEMMA FamilyLemma ==
    ASSUME NEW id \in Ids, Exists(id)
    PROVE  /\ FamilyOf(id) \in Chains /\ db[id][FamilyOf(id)] # None
           /\ \E n \in Families(id) : FamilyOf(id) = ChainOrder[n]
<1>1. Families(id) \in SUBSET Nat /\ Families(id) # {}
  BY Positions DEF Families, Exists
<1>2. PICK n \in Families(id) : FamilyOf(id) = ChainOrder[n]
  <2>1. (CHOOSE n \in Families(id) : \A m \in Families(id) : n <= m) \in Families(id)
    BY <1>1, ChosenPosition
  <2> QED BY <2>1 DEF FamilyOf
<1> QED BY <1>2, Positions DEF Families

\* The descriptor an id is stored with.
Stored(id) == IF Exists(id) THEN db[id][FamilyOf(id)] ELSE None

\* An id that is stored for one origin at most is found there.
LEMMA OneFamily ==
    ASSUME NEW id \in Ids, NEW chain \in Chains, ~StoredElsewhere(id, chain)
    PROVE  Stored(id) = db[id][chain]
<1>1. CASE Exists(id)
  <2>1. FamilyOf(id) = chain
    BY <1>1, FamilyLemma DEF StoredElsewhere
  <2> QED BY <1>1, <2>1 DEF Stored
<1>2. CASE ~Exists(id)
  <2>1. PICK n \in DOMAIN ChainOrder : ChainOrder[n] = chain
    BY DEF Chains
  <2>2. db[id][chain] = None
    BY <1>2, <2>1 DEF Exists, Families
  <2> QED BY <1>2, <2>2 DEF Stored
<1> QED BY <1>1, <1>2
----------------------------------------------------------------------------
(* Descriptors and handlers *)

LEMMA DescLemma ==
    ASSUME NEW d \in Descs
    PROVE  /\ d.origin \in Chains /\ d.dests \subseteq Chains /\ d.relayed \in BOOLEAN
           /\ d.senders \in {e.senders : e \in Descs} /\ d.dests \in {e.dests : e \in Descs}
           /\ d # None
BY SwitchboardAssumption

LEMMA MonitoredType ==
    ASSUME subs \in [Ids -> Handler \cup {None}], NEW id \in Ids, NEW d \in Descs
    PROVE  Monitored(id, d) \in Handler /\ Monitored(id, d) # None
<1>1. subs[id] # None => subs[id].dests \subseteq Chains
  BY DEF Handler
<1>2. Monitored(id, d) \in Handler
  BY <1>1, DescLemma DEF Monitored, Handler, Pipes
<1> QED BY <1>2, NoneIsNoHandler

\* The relay stream and its criterion stay, or the criterion is that of the descriptor.
RelayKept(g, h) ==
    \/ g.relay = h.relay /\ g.relayMessage = h.relayMessage
    \/ Follows(g, "relay")

LEMMA UpdatedType ==
    ASSUME NEW h \in Handler, NEW d \in Descs, NEW ops
    PROVE  /\ Updated(h, d, ops) \in Handler /\ Updated(h, d, ops) # None
           /\ Updated(h, d, ops).desc = d
           /\ Updated(h, d, ops).senders = IF "senders" \in ops THEN d.senders ELSE h.senders
           /\ Updated(h, d, ops).message = IF "destinations" \in ops THEN d.dests ELSE h.message
           /\ RelayKept(Updated(h, d, ops), h)
<1> DEFINE h1 == [h EXCEPT !.desc = d]
           h2 == IF "senders" \in ops THEN UpdateSenders(h1, d) ELSE h1
           h3 == IF "destinations" \in ops THEN UpdateDestinations(h2, d) ELSE h2
           h4 == IF "events" \in ops THEN UpdateEvents(h3, d) ELSE h3
<1>1. /\ h1 \in Handler /\ h1.desc = d /\ h1.senders = h.senders /\ h1.message = h.message
      /\ h1.relay = h.relay /\ h1.relayMessage = h.relayMessage
  BY DEF Handler
<1>2. /\ h2 \in Handler /\ h2.desc = d /\ h2.message = h.message
      /\ h2.relay = h.relay /\ h2.relayMessage = h.relayMessage
      /\ h2.senders = IF "senders" \in ops THEN d.senders ELSE h.senders
  <2> HIDE DEF h1
  <2> QED BY <1>1, DescLemma DEF Handler, UpdateSenders
<1>3. /\ h3 \in Handler /\ h3.desc = d /\ h3.senders = h2.senders
      /\ h3.relay = h.relay /\ h3.relayMessage = h.relayMessage
      /\ h3.message = IF "destinations" \in ops THEN d.dests ELSE h.message
  <2> HIDE DEF h2
  <2> QED BY <1>2, DescLemma DEF Handler, UpdateDestinations
<1>4. /\ h4 \in Handler /\ h4.desc = d /\ h4.senders = h3.senders /\ h4.message = h3.message
      /\ RelayKept(h4, h)
  <2> HIDE DEF h3
  <2>1. d.dests \subseteq Chains
    BY DescLemma
  <2>2. CASE "events" \notin ops \/ UpdateEvents(h3, d) = h3
    BY <1>3, <2>2 DEF RelayKept
  <2>3. CASE /\ "events" \in ops
             /\ UpdateEvents(h3, d) = [h3 EXCEPT !.relay = "none", !.relayMessage = {}]
    BY <1>3, <2>3 DEF Handler, RelayKept, Follows
  <2>4. CASE /\ "events" \in ops
             /\ UpdateEvents(h3, d) = [h3 EXCEPT !.relay = "live", !.relayMessage = d.dests]
    BY <1>3, <2>1, <2>4 DEF Handler, RelayKept, Follows
  <2> QED BY <2>2, <2>3, <2>4 DEF UpdateEvents
<1>5. Updated(h, d, ops) = h4
  BY DEF Updated
<1> HIDE DEF h1, h2, h3, h4
<1> QED BY <1>2, <1>3, <1>4, <1>5, NoneIsNoHandler

LEMMA StreamsType ==
    ASSUME subs \in [Ids -> Handler \cup {None}], NEW id \in Ids
    PROVE  StreamsOf(id) \subseteq Stream
<1>1. subs[id] # None => subs[id].chain \in Chains /\ subs[id].dests \subseteq Chains
  BY DEF Handler
<1> QED BY <1>1 DEF StreamsOf, Stream
----------------------------------------------------------------------------
(* Requests *)

Handlers == [Ids -> Handler \cup {None}]

\* What Subscribe and Unsubscribe come to, from the handlers h: the request of c is
\* over, goes on with another subscription, or clears one whose handler is gone.
Moves(c, h) ==
    \/ reqs' = [reqs EXCEPT ![c] = Idle] /\ subs' = h
    \/ \E r \in Request : r.at = "exists" /\ reqs' = [reqs EXCEPT ![c] = r] /\ subs' = h
    \/ \E r \in Request :
           /\ r.at = "clear" /\ r.id \in Ids /\ h[r.id] # None
           /\ reqs' = [reqs EXCEPT ![c] = r]
           /\ subs' = [h EXCEPT ![r.id] = None]

\* What any request comes to, from the handlers h: it goes on without taking a handler
\* away, or clears one.
Goes(c, h) ==
    \/ \E r \in Request : r.at # "clear" /\ reqs' = [reqs EXCEPT ![c] = r] /\ subs' = h
    \/ \E r \in Request :
           /\ r.at = "clear" /\ r.id \in Ids /\ h[r.id] # None
           /\ reqs' = [reqs EXCEPT ![c] = r]
           /\ subs' = [h EXCEPT ![r.id] = None]

LEMMA MovesGoes ==
    ASSUME NEW c \in Clients, NEW h, Moves(c, h)
    PROVE  Goes(c, h)
<1>1. Idle \in Request /\ Idle.at # "clear"
  BY DEF Request, Idle
<1> QED BY <1>1, ZenonT(30) DEF Moves, Goes

LEMMA UnsubscribeMoves ==
    ASSUME NEW c \in Clients, NEW ids \in Seq(Ids), NEW h \in Handlers, Unsubscribe(c, ids, h)
    PROVE  Moves(c, h)
<1> DEFINE known == {n \in DOMAIN ids : h[ids[n]] # None}
<1>1. CASE Reply(c, Idle) /\ subs' = h
  BY <1>1 DEF Reply, Moves
<1>2. CASE \E n \in known :
              /\ subs' = [h EXCEPT ![ids[n]] = None]
              /\ Reply(c, [at |-> "clear", id |-> ids[n], undo |-> SubSeq(ids, n + 1, Len(ids))])
  <2>1. PICK n \in known :
              /\ subs' = [h EXCEPT ![ids[n]] = None]
              /\ Reply(c, [at |-> "clear", id |-> ids[n], undo |-> SubSeq(ids, n + 1, Len(ids))])
    BY <1>2
  <2>2. n \in 1..Len(ids) /\ ids[n] \in Ids /\ h[ids[n]] # None /\ Len(ids) \in Nat
    BY <2>1
  <2>3. SubSeq(ids, n + 1, Len(ids)) \in Seq(Ids)
    <3>1. \A i \in (n + 1)..Len(ids) : ids[i] \in Ids
      BY <2>2
    <3> QED BY <2>2, <3>1, SubSeqProperties
  <2> DEFINE r == [at |-> "clear", id |-> ids[n], undo |-> SubSeq(ids, n + 1, Len(ids))]
  <2>4. r \in Request /\ r.at = "clear" /\ r.id = ids[n]
    BY <2>2, <2>3 DEF Request
  <2>5. reqs' = [reqs EXCEPT ![c] = r] /\ subs' = [h EXCEPT ![r.id] = None]
    BY <2>1, <2>4 DEF Reply
  <2> HIDE DEF r
  <2> QED BY <2>2, <2>4, <2>5 DEF Moves
<1> QED BY <1>1, <1>2 DEF Unsubscribe

LEMMA FirstAndRest ==
    ASSUME NEW T, NEW s \in Seq(T), s # <<>>
    PROVE  s[1] \in T /\ Tail(s) \in Seq(T)
OBVIOUS

LEMMA SubscribeMoves ==
    ASSUME NEW c \in Clients, NEW todo \in Seq([id : Ids, desc : Descs]), NEW undo \in Seq(Ids),
           NEW h \in Handlers, NEW count, Subscribe(c, todo, undo, h, count)
    PROVE  Moves(c, h)
<1>1. CASE Reply(c, Idle) /\ subs' = h
  BY <1>1 DEF Reply, Moves
<1>2. CASE Unsubscribe(c, undo, h)
  BY <1>2, UnsubscribeMoves
<1>3. CASE /\ todo # <<>> /\ subs' = h
           /\ Reply(c, [at |-> "exists", id |-> todo[1].id, desc |-> todo[1].desc,
                        todo |-> Tail(todo), undo |-> undo])
  <2> DEFINE r == [at |-> "exists", id |-> todo[1].id, desc |-> todo[1].desc,
                   todo |-> Tail(todo), undo |-> undo]
  <2>1. todo[1] \in [id : Ids, desc : Descs] /\ Tail(todo) \in Seq([id : Ids, desc : Descs])
    BY <1>3, FirstAndRest
  <2>2. r \in Request /\ r.at = "exists"
    BY <2>1 DEF Request
  <2>3. reqs' = [reqs EXCEPT ![c] = r]
    BY <1>3 DEF Reply
  <2> HIDE DEF r
  <2> QED BY <1>3, <2>2, <2>3 DEF Moves
<1> QED BY <1>1, <1>2, <1>3 DEF Subscribe

LEMMA MovesType ==
    ASSUME NEW c \in Clients, NEW h \in Handlers, reqs \in [Clients -> Request], Moves(c, h)
    PROVE  subs' \in Handlers /\ reqs' \in [Clients -> Request]
<1>1. Idle \in Request
  BY DEF Request
<1> QED BY <1>1 DEF Moves, Handlers

\* What a request holds, by where it is.
LEMMA RequestLemma ==
    ASSUME reqs \in [Clients -> Request], NEW c \in Clients
    PROVE  /\ reqs[c] = Idle \/ reqs[c].at \in {"exists", "put", "get", "save", "clear", "find", "remove"}
           /\ reqs[c].at # "idle" => reqs[c].id \in Ids
           /\ reqs[c].at \in {"exists", "put"} =>
                 /\ reqs[c] \in [at : {"exists", "put"}, id : Ids, desc : Descs,
                                  todo : Seq([id : Ids, desc : Descs]), undo : Seq(Ids)]
                 /\ reqs[c].desc \in Descs /\ reqs[c].undo \in Seq(Ids)
                 /\ reqs[c].todo \in Seq([id : Ids, desc : Descs])
           /\ reqs[c].at = "save" => reqs[c].desc \in Descs /\ reqs[c].base \in Descs
           /\ reqs[c].at \in {"clear", "find"} =>
                 reqs[c] \in [at : {"clear", "find"}, id : Ids, undo : Seq(Ids)]
           /\ reqs[c].at \in {"clear", "find", "remove"} => reqs[c].undo \in Seq(Ids)
           /\ reqs[c].at = "remove" => reqs[c].chain \in Chains
<1>1. /\ reqs[c] \in Request /\ Idle.at = "idle"
      /\ reqs[c] = Idle => reqs[c].at = "idle"
  BY DEF Idle
<1>2. \/ reqs[c] = Idle
      \/ reqs[c] \in [at : {"exists", "put"}, id : Ids, desc : Descs,
                      todo : Seq([id : Ids, desc : Descs]), undo : Seq(Ids)]
      \/ reqs[c] \in [at : {"get"}, id : Ids]
      \/ reqs[c] \in [at : {"save"}, id : Ids, desc : Descs, ops : PatchOps, base : Descs]
      \/ reqs[c] \in [at : {"clear", "find"}, id : Ids, undo : Seq(Ids)]
      \/ reqs[c] \in [at : {"remove"}, id : Ids, chain : Chains, undo : Seq(Ids)]
  BY <1>1 DEF Request
<1> HIDE DEF Request, Idle
<1> QED BY <1>1, <1>2
----------------------------------------------------------------------------
(* Counts *)

Held(h) == {id \in Ids : h[id] # None}
Clearing(q) == {c \in Clients : q[c].at = "clear"}

LEMMA CountsLemma ==
    ASSUME NEW h, NEW q
    PROVE  /\ IsFiniteSet(Held(h)) /\ Cardinality(Held(h)) \in Nat
           /\ IsFiniteSet(Clearing(q)) /\ Cardinality(Clearing(q)) \in Nat
<1>1. IsFiniteSet(Ids) /\ IsFiniteSet(Clients)
  BY SwitchboardAssumption
<1>2. Held(h) \subseteq Ids /\ Clearing(q) \subseteq Clients
  BY DEF Held, Clearing
<1>3. IsFiniteSet(Held(h)) /\ IsFiniteSet(Clearing(q))
  BY <1>1, <1>2, FS_Subset
<1> QED BY <1>3, FS_CardinalityType

\* A handler is forgotten.
LEMMA HeldForgets ==
    ASSUME NEW h \in Handlers, NEW id \in Ids, h[id] # None
    PROVE  Cardinality(Held([h EXCEPT ![id] = None])) = Cardinality(Held(h)) - 1
<1>1. Held([h EXCEPT ![id] = None]) = Held(h) \ {id} /\ id \in Held(h)
  BY DEF Held, Handlers
<1> QED BY <1>1, CountsLemma, FS_RemoveElement

\* A handler is set.
LEMMA HeldSets ==
    ASSUME NEW h \in Handlers, NEW id \in Ids, NEW v, v # None
    PROVE  /\ h[id] = None => Cardinality(Held([h EXCEPT ![id] = v])) = Cardinality(Held(h)) + 1
           /\ h[id] # None => Cardinality(Held([h EXCEPT ![id] = v])) = Cardinality(Held(h))
<1>1. Held([h EXCEPT ![id] = v]) = Held(h) \cup {id} /\ (id \in Held(h) <=> h[id] # None)
  BY DEF Held, Handlers
<1>2. CASE h[id] = None
  BY <1>1, <1>2, CountsLemma, FS_AddElement
<1>3. CASE h[id] # None
  <2>1. Held(h) \cup {id} = Held(h)
    BY <1>1, <1>3
  <2> QED BY <1>1, <1>3, <2>1
<1> QED BY <1>2, <1>3

\* A request goes on: it comes to a clearing, leaves one, or neither.
LEMMA ClearingMoves ==
    ASSUME reqs \in [Clients -> Request], NEW c \in Clients, NEW r
    PROVE  LET q == [reqs EXCEPT ![c] = r]
           IN  /\ r.at = "clear" /\ reqs[c].at # "clear" =>
                     Cardinality(Clearing(q)) = Cardinality(Clearing(reqs)) + 1
               /\ r.at # "clear" /\ reqs[c].at = "clear" =>
                     Cardinality(Clearing(q)) = Cardinality(Clearing(reqs)) - 1
               /\ r.at # "clear" /\ reqs[c].at # "clear" =>
                     Cardinality(Clearing(q)) = Cardinality(Clearing(reqs))
<1> DEFINE q == [reqs EXCEPT ![c] = r]
<1>1. CASE r.at = "clear" /\ reqs[c].at # "clear"
  <2>1. Clearing(q) = Clearing(reqs) \cup {c} /\ c \notin Clearing(reqs)
    BY <1>1 DEF Clearing
  <2> QED BY <1>1, <2>1, CountsLemma, FS_AddElement
<1>2. CASE r.at # "clear" /\ reqs[c].at = "clear"
  <2>1. Clearing(q) = Clearing(reqs) \ {c} /\ c \in Clearing(reqs)
    BY <1>2 DEF Clearing
  <2> QED BY <1>2, <2>1, CountsLemma, FS_RemoveElement
<1>3. CASE r.at # "clear" /\ reqs[c].at # "clear"
  <2>1. Clearing(q) = Clearing(reqs)
    BY <1>3 DEF Clearing
  <2> QED BY <1>3, <2>1
<1> QED BY <1>1, <1>2, <1>3

\* What a request keeps that does not come from a clearing.
LEMMA GoesCount ==
    ASSUME reqs \in [Clients -> Request], NEW c \in Clients, NEW h \in Handlers, Goes(c, h),
           reqs[c].at # "clear"
    PROVE  Cardinality(Held(subs')) + Cardinality(Clearing(reqs'))
               = Cardinality(Held(h)) + Cardinality(Clearing(reqs))
<1>1. CASE \E r \in Request : r.at # "clear" /\ reqs' = [reqs EXCEPT ![c] = r] /\ subs' = h
  BY <1>1, ClearingMoves
<1>2. CASE \E r \in Request :
              /\ r.at = "clear" /\ r.id \in Ids /\ h[r.id] # None
              /\ reqs' = [reqs EXCEPT ![c] = r]
              /\ subs' = [h EXCEPT ![r.id] = None]
  <2>1. PICK r \in Request :
              /\ r.at = "clear" /\ r.id \in Ids /\ h[r.id] # None
              /\ reqs' = [reqs EXCEPT ![c] = r]
              /\ subs' = [h EXCEPT ![r.id] = None]
    BY <1>2
  <2>2. Cardinality(Clearing(reqs')) = Cardinality(Clearing(reqs)) + 1
    BY <2>1, ClearingMoves
  <2>3. Cardinality(Held(subs')) = Cardinality(Held(h)) - 1
    BY <2>1, HeldForgets
  <2>4. Cardinality(Held(h)) \in Nat /\ Cardinality(Clearing(reqs)) \in Nat
    BY CountsLemma
  <2> QED BY <2>2, <2>3, <2>4
<1> QED BY <1>1, <1>2 DEF Goes
----------------------------------------------------------------------------
(* The inductive invariant *)

\* The count is not below what it counts: two racing insertions only raise it.
CountFits == persistent >= Cardinality(Held(subs)) + Cardinality(Clearing(reqs))

\* A patch about to be saved changes the fields it has operations on.
PatchFits ==
    \A c \in Clients :
        reqs[c].at = "save" => reqs[c].desc \in Patched(reqs[c].base, reqs[c].ops)

\* While subscriptions are loaded nothing is served, and the handlers are those of
\* the ids stored for the chains loaded so far.
BootFits ==
    ~Ready =>
        /\ \A c \in Clients : reqs[c] = Idle
        /\ \A id \in Ids :
              IF subs[id] = None
              THEN \A n \in DOMAIN ChainOrder : n < boot => db[id][ChainOrder[n]] = None
              ELSE \E n \in DOMAIN ChainOrder :
                        n < boot /\ db[id][ChainOrder[n]] = subs[id].desc

SwitchInv == TypeOK /\ CountFits /\ PatchFits /\ BootFits

LEMMA TypeLemma ==
    ASSUME TypeOK
    PROVE  /\ subs \in Handlers /\ reqs \in [Clients -> Request]
           /\ persistent \in Nat /\ persistent \in Int
           /\ db \in [Ids -> [Chains -> Descs \cup {None}]]
BY DEF TypeOK, Handlers

LEMMA TypeLemmaNext == TypeOK' => subs' \in Handlers
BY DEF TypeOK, Handlers

LEMMA EmptyCounts ==
    ASSUME NEW h, NEW q, \A id \in Ids : h[id] = None, \A c \in Clients : q[c] = Idle
    PROVE  Cardinality(Held(h)) = 0 /\ Cardinality(Clearing(q)) = 0
<1>1. Held(h) = {} /\ Clearing(q) = {}
  BY DEF Held, Clearing, Idle
<1> QED BY <1>1, FS_EmptySet

LEMMA SwitchInit == Init => SwitchInv
<1> SUFFICES ASSUME Init PROVE SwitchInv
  OBVIOUS
<1>1. Idle \in Request /\ Idle.at = "idle"
  BY DEF Request, Idle
<1>2. TypeOK
  BY <1>1, Positions, SwitchboardAssumption DEF Init, TypeOK
<1>3. CountFits
  BY EmptyCounts DEF Init, CountFits
<1>4. PatchFits
  BY <1>1 DEF Init, PatchFits
<1>5. BootFits
  BY Positions DEF Init, BootFits
<1> QED BY <1>2, <1>3, <1>4, <1>5 DEF SwitchInv

\* Requests are served when everything is loaded.
LEMMA ServedWhenReady ==
    ASSUME SwitchInv, NEW c \in Clients, reqs[c].at # "idle" PROVE Ready
BY DEF SwitchInv, BootFits, Idle

LEMMA BootsNoMore == ASSUME Ready, UNCHANGED boot PROVE BootFits'
BY DEF Ready, BootFits

\* What moving a request keeps, when its own handler is put before.
LEMMA MovesKeep ==
    ASSUME SwitchInv, NEW c \in Clients, NEW h \in Handlers, Moves(c, h),
           reqs[c].at # "clear", Ready, UNCHANGED boot,
           persistent' \in Nat,
           persistent' >= Cardinality(Held(h)) + Cardinality(Clearing(reqs)),
           db' \in [Ids -> [Chains -> Descs \cup {None}]], orphans' \subseteq Stream,
           UNCHANGED <<timers, errors, crashes>>
    PROVE  SwitchInv'
<1>1. subs' \in Handlers /\ reqs' \in [Clients -> Request]
  BY MovesType, TypeLemma DEF SwitchInv
<1>2. TypeOK'
  BY <1>1 DEF SwitchInv, TypeOK, Handlers
<1>3. CountFits'
  <2>1. Cardinality(Held(subs')) + Cardinality(Clearing(reqs'))
            = Cardinality(Held(h)) + Cardinality(Clearing(reqs))
    BY MovesGoes, GoesCount, TypeLemma DEF SwitchInv
  <2> QED BY <2>1 DEF CountFits
<1>4. PatchFits'
  <2>1. \E r : reqs' = [reqs EXCEPT ![c] = r] /\ r.at \in {"idle", "exists", "clear"}
    <3>1. Idle.at = "idle"
      BY DEF Idle
    <3> QED BY <3>1, ZenonT(30) DEF Moves
  <2> QED BY <2>1, TypeLemma DEF SwitchInv, PatchFits
<1> QED BY <1>2, <1>3, <1>4, BootsNoMore DEF SwitchInv

\* Requests that only move.
LEMMA MovesOnly ==
    ASSUME SwitchInv, NEW c \in Clients, Moves(c, subs), reqs[c].at # "clear", Ready,
           UNCHANGED <<persistent, boot, orphans, timers, errors, crashes>>,
           db' \in [Ids -> [Chains -> Descs \cup {None}]]
    PROVE  SwitchInv' /\ Goes(c, subs)
<1>1. orphans' \subseteq Stream
  BY DEF SwitchInv, TypeOK
<1> QED BY <1>1, MovesKeep, MovesGoes, TypeLemma DEF SwitchInv, CountFits

\* A request that goes on by itself, without a handler being gone.
LEMMA Replies ==
    ASSUME SwitchInv, NEW c \in Clients, NEW r \in Request, Reply(c, r),
           reqs[c].at # "clear", r.at # "clear",
           r.at = "save" => r.desc \in Patched(r.base, r.ops),
           Ready, UNCHANGED <<persistent, boot, orphans, timers, errors, crashes>>,
           subs' \in Handlers, Held(subs') = Held(subs),
           db' \in [Ids -> [Chains -> Descs \cup {None}]]
    PROVE  SwitchInv' /\ Goes(c, subs')
<1>1. reqs' = [reqs EXCEPT ![c] = r] /\ reqs' \in [Clients -> Request]
  BY TypeLemma DEF SwitchInv, Reply
<1>2. TypeOK'
  BY <1>1 DEF SwitchInv, TypeOK, Handlers
<1>3. CountFits'
  <2>1. Cardinality(Clearing(reqs')) = Cardinality(Clearing(reqs))
    BY <1>1, ClearingMoves, TypeLemma DEF SwitchInv
  <2> QED BY <2>1 DEF SwitchInv, CountFits
<1>4. PatchFits'
  BY <1>1, TypeLemma DEF SwitchInv, PatchFits, Patched
<1>5. Goes(c, subs')
  BY <1>1 DEF Goes
<1> QED BY <1>2, <1>3, <1>4, <1>5, BootsNoMore DEF SwitchInv
----------------------------------------------------------------------------
(* Steps of requests *)

\* What is written is a descriptor or nothing.
LEMMA WrittenType ==
    ASSUME TypeOK, NEW id \in Ids, NEW chain \in Chains, NEW d \in Descs \cup {None}
    PROVE  Written(id, chain, d) \in [Ids -> [Chains -> Descs \cup {None}]]
BY DEF TypeOK, Written

LEMMA PostStep ==
    ASSUME SwitchInv, NEW c \in Clients, NEW batch \in Batches, Post(c, batch)
    PROVE  SwitchInv' /\ Goes(c, subs)
<1>1. /\ Ready /\ reqs[c] = Idle /\ Subscribe(c, batch, <<>>, subs, persistent)
      /\ UNCHANGED <<db, persistent, timers, orphans, boot, errors, crashes>>
  BY DEF Post, bounds
<1>2. batch \in Seq([id : Ids, desc : Descs]) /\ <<>> \in Seq(Ids)
  <2>1. Batches \subseteq Seq([id : Ids, desc : Descs])
    BY SwitchboardAssumption
  <2>2. <<>> \in Seq(Ids)
    OBVIOUS
  <2> QED BY <2>1, <2>2, Zenon
<1>3. Moves(c, subs)
  BY <1>1, <1>2, SubscribeMoves, TypeLemma DEF SwitchInv
<1>4. reqs[c].at # "clear"
  BY <1>1 DEF Idle
<1> QED BY <1>1, <1>3, <1>4, MovesOnly, TypeLemma DEF SwitchInv

LEMMA CheckExistsStep ==
    ASSUME SwitchInv, NEW c \in Clients, CheckExists(c)
    PROVE  SwitchInv' /\ Goes(c, subs)
<1>1. /\ reqs[c].at = "exists"
      /\ IF Exists(reqs[c].id) THEN Unsubscribe(c, reqs[c].undo, subs)
         ELSE Reply(c, [reqs[c] EXCEPT !.at = "put"]) /\ UNCHANGED subs
      /\ UNCHANGED <<db, persistent, timers, orphans, boot, errors, crashes>>
  BY DEF CheckExists, bounds
<1>2. /\ Ready /\ reqs[c].undo \in Seq(Ids) /\ TypeOK
      /\ reqs[c] \in [at : {"exists", "put"}, id : Ids, desc : Descs,
                      todo : Seq([id : Ids, desc : Descs]), undo : Seq(Ids)]
  BY <1>1, ServedWhenReady, RequestLemma, TypeLemma DEF SwitchInv
<1>3. CASE Exists(reqs[c].id)
  <2>1. Moves(c, subs)
    BY <1>1, <1>2, <1>3, UnsubscribeMoves, TypeLemma
  <2> QED BY <1>1, <1>2, <2>1, MovesOnly, TypeLemma
<1>4. CASE ~Exists(reqs[c].id)
  <2> DEFINE r == [reqs[c] EXCEPT !.at = "put"]
  <2>1. r \in Request /\ r.at = "put"
    BY <1>2 DEF Request
  <2>2. Reply(c, r) /\ UNCHANGED subs
    BY <1>1, <1>4
  <2> HIDE DEF r
  <2> QED BY <1>1, <1>2, <2>1, <2>2, Replies, TypeLemma
<1> QED BY <1>3, <1>4

\* The handlers after an insertion that is monitored, and how many they are.
LEMMA InsertedHandlers ==
    ASSUME TypeOK, NEW id \in Ids, NEW d \in Descs
    PROVE  LET h == [subs EXCEPT ![id] = Monitored(id, d)]
           IN  /\ h \in Handlers
               /\ Cardinality(Held(h)) <= Cardinality(Held(subs)) + 1
               /\ subs[id] = None => Cardinality(Held(h)) = Cardinality(Held(subs)) + 1
<1> DEFINE v == Monitored(id, d)
<1>1. v \in Handler /\ v # None /\ subs \in Handlers
  BY MonitoredType, TypeLemma DEF Handlers
<1>2. Cardinality(Held(subs)) \in Nat
  BY CountsLemma
<1> HIDE DEF v
<1>3. [subs EXCEPT ![id] = v] \in Handlers
  BY <1>1 DEF Handlers
<1>4. /\ Cardinality(Held([subs EXCEPT ![id] = v])) <= Cardinality(Held(subs)) + 1
      /\ subs[id] = None => Cardinality(Held([subs EXCEPT ![id] = v])) = Cardinality(Held(subs)) + 1
  <2>1. CASE subs[id] = None
    <3>1. Cardinality(Held([subs EXCEPT ![id] = v])) = Cardinality(Held(subs)) + 1
      BY <1>1, <2>1, HeldSets
    <3> QED BY <1>2, <3>1
  <2>2. CASE subs[id] # None
    <3>1. Cardinality(Held([subs EXCEPT ![id] = v])) = Cardinality(Held(subs))
      BY <1>1, <2>2, HeldSets
    <3> QED BY <1>2, <2>2, <3>1
  <2> QED BY <2>1, <2>2
<1> QED BY <1>3, <1>4 DEF v

LEMMA InsertStep ==
    ASSUME SwitchInv, NEW c \in Clients, Insert(c)
    PROVE  SwitchInv'
<1> DEFINE id == reqs[c].id
           d == reqs[c].desc
           h == [subs EXCEPT ![id] = Monitored(id, d)]
<1>1. /\ reqs[c].at = "put" /\ db' = Written(id, d.origin, d)
      /\ IF Duplicated(id, d.origin)
         THEN Unsubscribe(c, reqs[c].undo, subs) /\ UNCHANGED <<persistent, orphans>>
         ELSE /\ persistent' = persistent + 1
              /\ orphans' = orphans \cup StreamsOf(id)
              /\ Subscribe(c, reqs[c].todo, Append(reqs[c].undo, id), h, persistent + 1)
      /\ UNCHANGED <<timers, boot, errors, crashes>>
  BY DEF Insert, bounds
<1>2. /\ Ready /\ TypeOK /\ id \in Ids /\ d \in Descs /\ reqs[c].undo \in Seq(Ids)
      /\ reqs[c].todo \in Seq([id : Ids, desc : Descs])
  BY <1>1, ServedWhenReady, RequestLemma, TypeLemma DEF SwitchInv
<1>3. db' \in [Ids -> [Chains -> Descs \cup {None}]]
  BY <1>1, <1>2, WrittenType, DescLemma
<1>4. CASE Duplicated(id, d.origin)
  <2>1. Moves(c, subs)
    BY <1>1, <1>2, <1>4, UnsubscribeMoves, TypeLemma
  <2> QED BY <1>1, <1>2, <1>3, <1>4, <2>1, MovesOnly
<1>5. CASE ~Duplicated(id, d.origin)
  <2>1. h \in Handlers /\ Cardinality(Held(h)) <= Cardinality(Held(subs)) + 1
    BY <1>2, InsertedHandlers
  <2>2. Append(reqs[c].undo, id) \in Seq(Ids)
    BY <1>2
  <2>3. Moves(c, h)
    <3> HIDE DEF h
    <3> QED BY <1>1, <1>2, <1>5, <2>1, <2>2, SubscribeMoves
  <2>4. persistent' \in Nat /\ persistent' >= Cardinality(Held(h)) + Cardinality(Clearing(reqs))
    <3>1. /\ Cardinality(Held(h)) \in Nat /\ Cardinality(Held(subs)) \in Nat
          /\ Cardinality(Clearing(reqs)) \in Nat
      BY CountsLemma
    <3> HIDE DEF h
    <3> QED BY <1>1, <1>2, <1>5, <2>1, <3>1, TypeLemma DEF SwitchInv, CountFits
  <2>5. orphans' \subseteq Stream
    BY <1>1, <1>2, <1>5, StreamsType, TypeLemma DEF TypeOK
  <2> HIDE DEF h
  <2> QED BY <1>1, <1>2, <1>3, <2>1, <2>3, <2>4, <2>5, MovesKeep
<1> QED BY <1>4, <1>5

LEMMA DeleteStep ==
    ASSUME SwitchInv, NEW c \in Clients, NEW id \in Ids, Delete(c, id)
    PROVE  SwitchInv' /\ Goes(c, subs)
<1>1. /\ Ready /\ reqs[c] = Idle /\ Unsubscribe(c, <<id>>, subs)
      /\ UNCHANGED <<db, persistent, timers, orphans, boot, errors, crashes>>
  BY DEF Delete, bounds
<1>2. Moves(c, subs)
  <2>1. <<id>> \in Seq(Ids)
    OBVIOUS
  <2> QED BY <1>1, <2>1, UnsubscribeMoves, TypeLemma DEF SwitchInv
<1>3. reqs[c].at # "clear"
  BY <1>1 DEF Idle
<1> QED BY <1>1, <1>2, <1>3, MovesOnly, TypeLemma DEF SwitchInv

LEMMA ClearedStep ==
    ASSUME SwitchInv, NEW c \in Clients, Cleared(c)
    PROVE  SwitchInv' /\ Goes(c, subs)
<1> DEFINE r == [reqs[c] EXCEPT !.at = "find"]
<1>1. /\ reqs[c].at = "clear" /\ persistent' = persistent - 1 /\ reqs' = [reqs EXCEPT ![c] = r]
      /\ UNCHANGED <<db, subs, timers, orphans, boot, errors, crashes>>
  BY DEF Cleared, Reply, bounds
<1>2. /\ Ready /\ TypeOK
      /\ reqs[c] \in [at : {"clear", "find"}, id : Ids, undo : Seq(Ids)]
  BY <1>1, ServedWhenReady, RequestLemma, TypeLemma DEF SwitchInv
<1>3. r \in Request /\ r.at = "find"
  BY <1>2 DEF Request
<1> HIDE DEF r
<1>4. reqs' \in [Clients -> Request]
  BY <1>1, <1>2, <1>3, TypeLemma
<1>5. /\ Cardinality(Clearing(reqs')) = Cardinality(Clearing(reqs)) - 1
      /\ Cardinality(Clearing(reqs)) \in Nat /\ Cardinality(Held(subs)) \in Nat
      /\ Cardinality(Clearing(reqs')) \in Nat
  BY <1>1, <1>2, <1>3, ClearingMoves, CountsLemma, TypeLemma
<1>6. persistent' \in Nat /\ CountFits'
  BY <1>1, <1>2, <1>5, TypeLemma DEF SwitchInv, CountFits
<1>7. TypeOK'
  BY <1>1, <1>2, <1>4, <1>6 DEF TypeOK
<1>8. PatchFits'
  BY <1>1, <1>2, <1>3, TypeLemma DEF SwitchInv, PatchFits
<1>9. Goes(c, subs)
  BY <1>1, <1>3 DEF Goes
<1> QED BY <1>1, <1>2, <1>6, <1>7, <1>8, <1>9, BootsNoMore DEF SwitchInv

LEMMA FindToRemoveStep ==
    ASSUME SwitchInv, NEW c \in Clients, FindToRemove(c)
    PROVE  SwitchInv' /\ Goes(c, subs)
<1> DEFINE id == reqs[c].id
           r == [at |-> "remove", id |-> id, chain |-> FamilyOf(id), undo |-> reqs[c].undo]
<1>1. /\ reqs[c].at = "find"
      /\ IF Exists(id) THEN Reply(c, r) /\ UNCHANGED subs
         ELSE Unsubscribe(c, reqs[c].undo, subs)
      /\ UNCHANGED <<db, persistent, timers, orphans, boot, errors, crashes>>
  BY DEF FindToRemove, bounds
<1>2. Ready /\ TypeOK /\ id \in Ids /\ reqs[c].undo \in Seq(Ids)
  BY <1>1, ServedWhenReady, RequestLemma, TypeLemma DEF SwitchInv
<1>3. CASE Exists(id)
  <2>1. r \in Request /\ r.at = "remove"
    BY <1>2, <1>3, FamilyLemma DEF Request
  <2> HIDE DEF r
  <2> QED BY <1>1, <1>2, <1>3, <2>1, Replies, TypeLemma
<1>4. CASE ~Exists(id)
  <2>1. Moves(c, subs)
    BY <1>1, <1>2, <1>4, UnsubscribeMoves, TypeLemma
  <2> QED BY <1>1, <1>2, <2>1, MovesOnly, TypeLemma
<1> QED BY <1>3, <1>4

LEMMA RemoveStep ==
    ASSUME SwitchInv, NEW c \in Clients, Remove(c)
    PROVE  SwitchInv' /\ Goes(c, subs)
<1>1. /\ reqs[c].at = "remove" /\ db' = Written(reqs[c].id, reqs[c].chain, None)
      /\ Unsubscribe(c, reqs[c].undo, subs)
      /\ UNCHANGED <<persistent, timers, orphans, boot, errors, crashes>>
  BY DEF Remove, bounds
<1>2. /\ Ready /\ TypeOK /\ reqs[c].id \in Ids /\ reqs[c].chain \in Chains
      /\ reqs[c].undo \in Seq(Ids)
  BY <1>1, ServedWhenReady, RequestLemma, TypeLemma DEF SwitchInv
<1>3. Moves(c, subs)
  BY <1>1, <1>2, UnsubscribeMoves, TypeLemma
<1>4. db' \in [Ids -> [Chains -> Descs \cup {None}]]
  BY <1>1, <1>2, WrittenType
<1> QED BY <1>1, <1>2, <1>3, <1>4, MovesOnly

LEMMA PatchStep ==
    ASSUME SwitchInv, NEW c \in Clients, NEW id \in Ids, Patch(c, id)
    PROVE  SwitchInv' /\ Goes(c, subs)
<1> DEFINE r == [at |-> "get", id |-> id]
<1>1. /\ Ready /\ reqs[c] = Idle /\ Reply(c, r)
      /\ UNCHANGED <<db, subs, persistent, timers, orphans, boot, errors, crashes>>
  BY DEF Patch, bounds
<1>2. r \in Request /\ r.at = "get"
  BY DEF Request
<1>3. reqs[c].at # "clear"
  BY <1>1 DEF Idle
<1> HIDE DEF r
<1> QED BY <1>1, <1>2, <1>3, Replies, TypeLemma DEF SwitchInv

LEMMA GetToPatchStep ==
    ASSUME SwitchInv, NEW c \in Clients, NEW ops \in PatchOps, GetToPatch(c, ops)
    PROVE  SwitchInv' /\ Goes(c, subs)
<1> DEFINE id == reqs[c].id
           d == db[id][FamilyOf(id)]
<1>1. /\ reqs[c].at = "get"
      /\ \/ Reply(c, Idle)
         \/ /\ Exists(id)
            /\ \E e \in Patched(d, ops) :
                   Reply(c, [at |-> "save", id |-> id, desc |-> e, ops |-> ops, base |-> d])
      /\ UNCHANGED <<db, subs, persistent, timers, orphans, boot, errors, crashes>>
  BY DEF GetToPatch, bounds
<1>2. Ready /\ TypeOK /\ id \in Ids
  BY <1>1, ServedWhenReady, RequestLemma, TypeLemma DEF SwitchInv
<1>3. CASE Reply(c, Idle)
  <2>1. Idle \in Request /\ Idle.at = "idle"
    BY DEF Request, Idle
  <2> QED BY <1>1, <1>2, <1>3, <2>1, Replies, TypeLemma
<1>4. CASE Exists(id) /\ \E e \in Patched(d, ops) :
              Reply(c, [at |-> "save", id |-> id, desc |-> e, ops |-> ops, base |-> d])
  <2>1. PICK e \in Patched(d, ops) :
              Reply(c, [at |-> "save", id |-> id, desc |-> e, ops |-> ops, base |-> d])
    BY <1>4
  <2>2. d \in Descs
    BY <1>2, <1>4, FamilyLemma, TypeLemma
  <2>3. e \in Descs
    BY DEF Patched
  <2> HIDE DEF d
  <2> DEFINE r == [at |-> "save", id |-> id, desc |-> e, ops |-> ops, base |-> d]
  <2>4. r \in Request /\ r.at = "save" /\ r.desc \in Patched(r.base, r.ops)
    BY <1>2, <2>2, <2>3 DEF Request
  <2>5. Reply(c, r)
    BY <2>1
  <2> HIDE DEF r
  <2> QED BY <1>1, <1>2, <2>4, <2>5, Replies, TypeLemma
<1> QED BY <1>1, <1>3, <1>4

LEMMA SaveStep ==
    ASSUME SwitchInv, NEW c \in Clients, Save(c)
    PROVE  SwitchInv' /\ Goes(c, subs')
<1> DEFINE id == reqs[c].id
           d == reqs[c].desc
           v == IF subs[id] = None THEN None ELSE Updated(subs[id], d, reqs[c].ops)
<1>1. /\ reqs[c].at = "save" /\ db' = Written(id, d.origin, d)
      /\ subs' = [subs EXCEPT ![id] = v]
      /\ Reply(c, Idle)
      /\ UNCHANGED <<persistent, timers, orphans, boot, errors, crashes>>
  BY TypeLemma DEF Save, bounds, SwitchInv, Handlers
<1>2. Ready /\ TypeOK /\ id \in Ids /\ d \in Descs
  BY <1>1, ServedWhenReady, RequestLemma, TypeLemma DEF SwitchInv
<1>3. v \in Handler \cup {None} /\ (v = None <=> subs[id] = None)
  BY <1>2, UpdatedType, TypeLemma DEF Handlers
<1>4. db' \in [Ids -> [Chains -> Descs \cup {None}]]
  BY <1>1, <1>2, WrittenType, DescLemma
<1> HIDE DEF v
<1>5. subs' \in Handlers /\ Held(subs') = Held(subs)
  BY <1>1, <1>2, <1>3, TypeLemma DEF Handlers, Held
<1>6. Idle \in Request /\ Idle.at = "idle"
  BY DEF Request, Idle
<1> QED BY <1>1, <1>2, <1>4, <1>5, <1>6, Replies
----------------------------------------------------------------------------
(* Steps of streams *)

HasCriteria(g, h) == g.senders = h.senders /\ g.message = h.message

\* A stream fails or is listened to again: handlers neither come nor go, nor change
\* their descriptors, and their criteria with the retry of an origin only.
StreamStep ==
    /\ UNCHANGED <<db, persistent, reqs, boot, crashes>>
    /\ subs' \in Handlers
    /\ \A id \in Ids : /\ subs'[id] = None <=> subs[id] = None
                       /\ subs[id] # None => subs'[id].desc = subs[id].desc
                       /\ subs[id] # None => RelayKept(subs'[id], subs[id])
                       /\ subs[id] # None => HasCriteria(subs'[id], subs[id])
                             \/ \E t \in timers : /\ t.id = id /\ RetryOrigin(t)
                                                  /\ subs'[id].senders = t.desc.senders
                                                  /\ subs'[id].message = t.desc.dests

LEMMA StreamKeeps ==
    ASSUME SwitchInv, StreamStep, timers' \subseteq Timer, orphans' \subseteq Stream,
           errors' \in 0..MaxErrors
    PROVE  SwitchInv'
<1>1. TypeOK'
  BY DEF StreamStep, SwitchInv, TypeOK, Handlers
<1>2. Held(subs') = Held(subs)
  BY DEF StreamStep, Held
<1>3. CountFits'
  BY <1>2 DEF StreamStep, SwitchInv, CountFits
<1>4. PatchFits'
  BY DEF StreamStep, SwitchInv, PatchFits, Patched
<1>5. BootFits'
  <2>1. Ready' <=> Ready
    BY DEF StreamStep, Ready
  <2> QED BY <2>1 DEF StreamStep, SwitchInv, BootFits
<1> QED BY <1>1, <1>3, <1>4, <1>5 DEF SwitchInv

\* One handler changes: its streams, or the criteria with them.
LEMMA HandlerChanges ==
    ASSUME SwitchInv, NEW id \in Ids, subs[id] # None, NEW h \in Handler,
           h.desc = subs[id].desc, RelayKept(h, subs[id]), subs' = [subs EXCEPT ![id] = h],
           \/ HasCriteria(h, subs[id])
           \/ \E t \in timers : /\ t.id = id /\ RetryOrigin(t)
                               /\ h.senders = t.desc.senders /\ h.message = t.desc.dests,
           UNCHANGED <<db, persistent, reqs, boot, crashes>>
    PROVE  StreamStep
<1>1. h # None /\ subs \in Handlers
  BY NoneIsNoHandler, TypeLemma DEF SwitchInv
<1>2. subs' \in Handlers
  BY <1>1 DEF Handlers
<1>3. ASSUME NEW i \in Ids
      PROVE  /\ subs'[i] = None <=> subs[i] = None
             /\ subs[i] # None => subs'[i].desc = subs[i].desc
             /\ subs[i] # None => RelayKept(subs'[i], subs[i])
             /\ subs[i] # None => HasCriteria(subs'[i], subs[i])
                   \/ \E t \in timers : /\ t.id = i /\ RetryOrigin(t)
                                        /\ subs'[i].senders = t.desc.senders
                                        /\ subs'[i].message = t.desc.dests
  <2>1. CASE i = id
    <3>1. subs'[i] = h
      BY <1>1, <2>1 DEF Handlers
    <3> QED BY <1>1, <2>1, <3>1
  <2>2. CASE i # id
    <3>1. subs'[i] = subs[i]
      BY <1>1, <2>2 DEF Handlers
    <3> QED BY <2>2, <3>1 DEF HasCriteria, RelayKept
  <2> QED BY <2>1, <2>2
<1> QED BY <1>2, <1>3 DEF StreamStep

LEMMA RetryType ==
    ASSUME SwitchInv, NEW s \in Stream, errors < MaxErrors, subs[s.id] # None
    PROVE  Retry(s, subs[s.id].desc) \in Timer
<1>1. s.id \in Ids /\ s.chain \in Chains /\ s.kind \in {"origin", "dest", "relay"}
  BY DEF Stream
<1>2. subs[s.id].desc \in Descs
  BY <1>1, TypeLemma DEF SwitchInv, Handlers, Handler
<1>3. errors \in 0..MaxErrors
  BY DEF SwitchInv, TypeOK
<1> QED BY <1>1, <1>2, <1>3 DEF Retry, Timer

LEMMA FailBound ==
    ASSUME SwitchInv, Fail
    PROVE  errors' \in 0..MaxErrors /\ errors < MaxErrors
BY SwitchboardAssumption DEF SwitchInv, TypeOK, Fail

LEMMA LetGoStep ==
    ASSUME SwitchInv, Fail, NEW s \in Stream, subs[s.id] # None, LetGo(s),
           UNCHANGED <<db, persistent, reqs, boot, crashes>>
    PROVE  StreamStep /\ timers' \subseteq Timer
<1> DEFINE h == IF s.kind = "origin" THEN [subs[s.id] EXCEPT !.origin = {}]
                ELSE [subs[s.id] EXCEPT !.dests = @ \ {s.chain}]
<1>1. s.id \in Ids /\ subs \in Handlers
  BY TypeLemma DEF SwitchInv, Stream
<1>2. subs[s.id] \in Handler
  BY <1>1 DEF Handlers
<1>3. /\ h \in Handler /\ h.desc = subs[s.id].desc /\ HasCriteria(h, subs[s.id])
      /\ RelayKept(h, subs[s.id])
  BY <1>2 DEF Handler, Pipes, HasCriteria, RelayKept
<1>4. subs' = [subs EXCEPT ![s.id] = h]
  <2>1. subs' = [subs EXCEPT ![s.id] = WithoutStream(subs[s.id], s)]
    BY <1>1 DEF LetGo, Handlers
  <2>2. WithoutStream(subs[s.id], s) = h
    BY DEF WithoutStream
  <2> HIDE DEF h
  <2> QED BY <2>1, <2>2
<1>5. timers' = timers \cup {Retry(s, subs[s.id].desc)}
  BY DEF LetGo
<1> HIDE DEF h
<1>6. StreamStep
  BY <1>1, <1>3, <1>4, HandlerChanges
<1> QED BY <1>5, <1>6, RetryType, FailBound DEF SwitchInv, TypeOK

LEMMA OriginFailsStep ==
    ASSUME SwitchInv, NEW id \in Ids, NEW failing, OriginFails(id, failing)
    PROVE  StreamStep /\ SwitchInv'
<1> DEFINE s == [kind |-> "origin", id |-> id, chain |-> subs[id].chain]
<1>1. /\ Fail /\ subs[id] # None /\ LetGo(s)
      /\ orphans' = orphans \cup (IF subs[id].origin = failing THEN {} ELSE {s})
      /\ UNCHANGED <<db, persistent, reqs, boot, crashes>>
  BY DEF OriginFails
<1>2. subs[id].chain \in Chains
  BY <1>1, TypeLemma DEF SwitchInv, Handlers, Handler
<1>3. s \in Stream /\ s.id = id
  BY <1>2 DEF Stream
<1> HIDE DEF s
<1>4. StreamStep /\ timers' \subseteq Timer
  BY <1>1, <1>3, LetGoStep
<1>5. orphans' \subseteq Stream
  BY <1>1, <1>3 DEF SwitchInv, TypeOK
<1> QED BY <1>1, <1>4, <1>5, StreamKeeps, FailBound

LEMMA DestFailsStep ==
    ASSUME SwitchInv, NEW id \in Ids, NEW chain \in Chains, DestFails(id, chain)
    PROVE  StreamStep /\ SwitchInv'
<1> DEFINE s == [kind |-> "dest", id |-> id, chain |-> chain]
<1>1. /\ Fail /\ subs[id] # None /\ LetGo(s)
      /\ UNCHANGED <<db, persistent, reqs, orphans, boot, crashes>>
  BY DEF DestFails
<1>2. s \in Stream /\ s.id = id
  BY DEF Stream
<1> HIDE DEF s
<1>3. StreamStep /\ timers' \subseteq Timer
  BY <1>1, <1>2, LetGoStep
<1>4. orphans' \subseteq Stream
  BY <1>1 DEF SwitchInv, TypeOK
<1> QED BY <1>1, <1>3, <1>4, StreamKeeps, FailBound

LEMMA RelayFailsStep ==
    ASSUME SwitchInv, NEW id \in Ids, RelayFails(id)
    PROVE  StreamStep /\ SwitchInv'
<1> DEFINE s == [kind |-> "relay", id |-> id, chain |-> subs[id].chain]
           h == [subs[id] EXCEPT !.relay = "dead", !.relayMessage = {}]
<1>1. /\ Fail /\ subs[id] # None /\ subs' = [subs EXCEPT ![id] = h]
      /\ timers' = timers \cup {Retry(s, subs[id].desc)}
      /\ UNCHANGED <<db, persistent, reqs, orphans, boot, crashes>>
  BY TypeLemma DEF RelayFails, SwitchInv, Handlers
<1>2. subs[id] \in Handler
  BY <1>1, TypeLemma DEF SwitchInv, Handlers
<1>3. /\ s \in Stream /\ s.id = id /\ h \in Handler /\ h.desc = subs[id].desc
      /\ HasCriteria(h, subs[id]) /\ RelayKept(h, subs[id])
  BY <1>2 DEF Stream, Handler, HasCriteria, RelayKept, Follows
<1> HIDE DEF s, h
<1>4. StreamStep
  BY <1>1, <1>3, HandlerChanges
<1>5. timers' \subseteq Timer /\ orphans' \subseteq Stream
  BY <1>1, <1>3, RetryType, FailBound DEF SwitchInv, TypeOK
<1> QED BY <1>1, <1>4, <1>5, StreamKeeps, FailBound

LEMMA HeldStream ==
    ASSUME NEW s, s \in StreamsOf(s.id) PROVE subs[s.id] # None
BY DEF StreamsOf

LEMMA NothingChanges ==
    ASSUME SwitchInv, UNCHANGED <<db, subs, persistent, reqs, boot, crashes>>
    PROVE  StreamStep
BY TypeLemma DEF StreamStep, SwitchInv, HasCriteria, RelayKept

LEMMA OrphanFailsStep ==
    ASSUME SwitchInv, NEW s \in orphans, OrphanFails(s)
    PROVE  StreamStep /\ SwitchInv' /\ orphans' \subseteq orphans
<1>1. /\ Fail /\ s \in Stream
      /\ UNCHANGED <<db, persistent, reqs, boot, crashes>>
  BY DEF OrphanFails, SwitchInv, TypeOK
<1>2. CASE s.kind # "relay" /\ s \in StreamsOf(s.id)
  <2>1. LetGo(s) /\ UNCHANGED orphans /\ subs[s.id] # None
    BY <1>2, HeldStream DEF OrphanFails
  <2>2. StreamStep /\ timers' \subseteq Timer
    BY <1>1, <2>1, LetGoStep
  <2>3. orphans' \subseteq Stream
    BY <2>1 DEF SwitchInv, TypeOK
  <2> QED BY <1>1, <2>1, <2>2, <2>3, StreamKeeps, FailBound
<1>3. CASE ~(s.kind # "relay" /\ s \in StreamsOf(s.id))
  <2>1. /\ orphans' \subseteq orphans
        /\ timers' = IF s.kind = "relay" /\ subs[s.id] # None
                     THEN timers \cup {Retry(s, subs[s.id].desc)} ELSE timers
        /\ UNCHANGED subs
    BY <1>3 DEF OrphanFails
  <2>2. StreamStep
    BY <1>1, <2>1, NothingChanges
  <2>3. timers' \subseteq Timer
    BY <1>1, <2>1, RetryType, FailBound DEF SwitchInv, TypeOK
  <2>4. orphans' \subseteq Stream
    BY <2>1 DEF SwitchInv, TypeOK
  <2> QED BY <1>1, <2>1, <2>2, <2>3, <2>4, StreamKeeps, FailBound
<1> QED BY <1>2, <1>3
----------------------------------------------------------------------------
(* Retries *)

LEMMA TimerLemma ==
    ASSUME SwitchInv, NEW t \in timers
    PROVE  /\ t.id \in Ids /\ t.desc \in Descs /\ t.kind \in {"origin", "dest", "relay"}
           /\ timers \ {t} \subseteq Timer /\ errors \in 0..MaxErrors
           /\ StreamsOf(t.id) \subseteq Stream
<1>1. t \in Timer /\ timers \subseteq Timer /\ errors \in 0..MaxErrors
  BY DEF SwitchInv, TypeOK
<1>2. t.id \in Ids /\ t.desc \in Descs /\ t.kind \in {"origin", "dest", "relay"}
  BY <1>1 DEF Timer
<1> QED BY <1>1, <1>2, StreamsType, TypeLemma DEF SwitchInv, Handlers

LEMMA RetryOriginStep ==
    ASSUME SwitchInv, NEW t \in timers, RetryOrigin(t)
    PROVE  StreamStep /\ SwitchInv'
<1> DEFINE h == [subs[t.id] EXCEPT !.chain = t.desc.origin, !.origin = Pipes,
                                   !.senders = t.desc.senders, !.message = t.desc.dests]
<1>1. /\ timers' = timers \ {t}
      /\ subs' = [subs EXCEPT ![t.id] = IF subs[t.id] = None THEN None ELSE h]
      /\ orphans' = orphans \cup {s \in StreamsOf(t.id) : s.kind = "origin"}
      /\ UNCHANGED <<db, persistent, reqs, boot, errors, crashes>>
  BY TimerLemma, TypeLemma DEF RetryOrigin, bounds, SwitchInv, Handlers
<1>2. t.id \in Ids /\ t.desc \in Descs /\ timers' \subseteq Timer /\ errors' \in 0..MaxErrors
  BY <1>1, TimerLemma
<1>3. orphans' \subseteq Stream
  BY <1>1, TimerLemma DEF SwitchInv, TypeOK
<1>4. StreamStep
  <2>1. CASE subs[t.id] = None
    <3>1. subs' = subs
      BY <1>1, <1>2, <2>1, TypeLemma DEF SwitchInv, Handlers
    <3> QED BY <1>1, <3>1, NothingChanges
  <2>2. CASE subs[t.id] # None
    <3>1. subs[t.id] \in Handler
      BY <1>2, <2>2, TypeLemma DEF SwitchInv, Handlers
    <3>2. /\ h \in Handler /\ h.desc = subs[t.id].desc
          /\ h.senders = t.desc.senders /\ h.message = t.desc.dests
          /\ RelayKept(h, subs[t.id])
      BY <1>2, <3>1, DescLemma DEF Handler, RelayKept
    <3>3. subs' = [subs EXCEPT ![t.id] = h]
      BY <1>1, <2>2
    <3> HIDE DEF h
    <3> QED BY <1>1, <1>2, <2>2, <3>2, <3>3, HandlerChanges
  <2> QED BY <2>1, <2>2
<1> QED BY <1>2, <1>3, <1>4, StreamKeeps

LEMMA RetryDestStep ==
    ASSUME SwitchInv, NEW t \in timers, RetryDest(t)
    PROVE  StreamStep /\ SwitchInv'
<1> DEFINE h == [subs[t.id] EXCEPT !.dests = subs[t.id].desc.dests]
<1>1. /\ subs[t.id] # None
      /\ timers' = timers \ {t}
      /\ subs' = [subs EXCEPT ![t.id] = h]
      /\ UNCHANGED <<db, persistent, reqs, orphans, boot, errors, crashes>>
  BY TimerLemma, TypeLemma DEF RetryDest, Throws, bounds, SwitchInv, Handlers
<1>2. t.id \in Ids /\ timers' \subseteq Timer /\ errors' \in 0..MaxErrors /\ orphans' \subseteq Stream
  BY <1>1, TimerLemma DEF SwitchInv, TypeOK
<1>3. subs[t.id] \in Handler
  BY <1>1, <1>2, TypeLemma DEF SwitchInv, Handlers
<1>4. /\ h \in Handler /\ h.desc = subs[t.id].desc /\ HasCriteria(h, subs[t.id])
      /\ RelayKept(h, subs[t.id])
  <2>1. subs[t.id].desc.dests \subseteq Chains
    BY <1>3, DescLemma DEF Handler
  <2> QED BY <1>3, <2>1 DEF Handler, HasCriteria, RelayKept
<1> HIDE DEF h
<1>5. StreamStep
  BY <1>1, <1>2, <1>4, HandlerChanges
<1> QED BY <1>2, <1>5, StreamKeeps

LEMMA RetryRelayStep ==
    ASSUME SwitchInv, NEW t \in timers, RetryRelay(t)
    PROVE  StreamStep /\ SwitchInv'
<1> DEFINE h == [subs[t.id] EXCEPT !.relay = "live", !.relayMessage = subs[t.id].desc.dests]
<1>1. /\ subs[t.id] # None
      /\ timers' = timers \ {t}
      /\ subs' = [subs EXCEPT ![t.id] = h]
      /\ orphans' = orphans \cup {s \in StreamsOf(t.id) : s.kind = "relay"}
      /\ UNCHANGED <<db, persistent, reqs, boot, errors, crashes>>
  BY TimerLemma, TypeLemma DEF RetryRelay, Throws, bounds, SwitchInv, Handlers
<1>2. t.id \in Ids /\ timers' \subseteq Timer /\ errors' \in 0..MaxErrors /\ orphans' \subseteq Stream
  BY <1>1, TimerLemma DEF SwitchInv, TypeOK
<1>3. subs[t.id] \in Handler
  BY <1>1, <1>2, TypeLemma DEF SwitchInv, Handlers
<1>4. /\ h \in Handler /\ h.desc = subs[t.id].desc /\ HasCriteria(h, subs[t.id])
      /\ RelayKept(h, subs[t.id])
  <2>1. subs[t.id].desc.dests \subseteq Chains
    BY <1>3, DescLemma DEF Handler
  <2> QED BY <1>3, <2>1 DEF Handler, HasCriteria, RelayKept, Follows
<1> HIDE DEF h
<1>5. StreamStep
  BY <1>1, <1>2, <1>4, HandlerChanges
<1> QED BY <1>2, <1>5, StreamKeeps
----------------------------------------------------------------------------
(* Restarts *)

LEMMA WritingLemma ==
    ASSUME TypeOK, NEW c \in Clients, Writing(c)
    PROVE  WrittenBy(c).desc \in Descs \cup {None}
BY RequestLemma, TypeLemma DEF Writing, WrittenBy

LEMMA RestartStep ==
    ASSUME SwitchInv, Restart, errors' \in 0..MaxErrors, crashes' \in 0..MaxCrash
    PROVE  SwitchInv'
<1>1. PICK done \in SUBSET {WrittenBy(c) : c \in {c \in Clients : Writing(c)}} :
          db' = [id \in Ids |-> [chain \in Chains |->
                       IF \E w \in done : w.id = id /\ w.chain = chain
                       THEN (CHOOSE w \in done : w.id = id /\ w.chain = chain).desc
                       ELSE db[id][chain]]]
  BY DEF Restart
<1>2. /\ subs' = [id \in Ids |-> None] /\ persistent' = 0
      /\ reqs' = [c \in Clients |-> Idle] /\ timers' = {} /\ orphans' = {} /\ boot' = 1
  BY DEF Restart
<1>3. db' \in [Ids -> [Chains -> Descs \cup {None}]]
  <2>1. \A w \in done : w.desc \in Descs \cup {None}
    BY WritingLemma DEF SwitchInv
  <2>2. ASSUME NEW id \in Ids, NEW chain \in Chains
        PROVE  (IF \E w \in done : w.id = id /\ w.chain = chain
                THEN (CHOOSE w \in done : w.id = id /\ w.chain = chain).desc
                ELSE db[id][chain]) \in Descs \cup {None}
    <3>1. CASE \E w \in done : w.id = id /\ w.chain = chain
      <4>1. (CHOOSE w \in done : w.id = id /\ w.chain = chain) \in done
        BY <3>1
      <4> QED BY <2>1, <3>1, <4>1
    <3>2. CASE ~\E w \in done : w.id = id /\ w.chain = chain
      BY <3>2, TypeLemma DEF SwitchInv
    <3> QED BY <3>1, <3>2
  <2> QED BY <1>1, <2>2
<1>4. Idle \in Request /\ Idle.at = "idle"
  BY DEF Request, Idle
<1>5. TypeOK'
  BY <1>2, <1>3, <1>4, Positions DEF TypeOK
<1>6. CountFits'
  <2>1. Cardinality(Held(subs')) = 0 /\ Cardinality(Clearing(reqs')) = 0
    BY <1>2, EmptyCounts
  <2> QED BY <1>2, <2>1 DEF CountFits
<1>7. PatchFits'
  BY <1>2, <1>4 DEF PatchFits
<1>8. BootFits'
  BY <1>2, Positions DEF BootFits
<1> QED BY <1>5, <1>6, <1>7, <1>8 DEF SwitchInv

\* The ids whose subscriptions are loaded next.
Loaded == {id \in Ids : db[id][ChainOrder[boot]] # None}

LEMMA BootLemma ==
    ASSUME SwitchInv, Boot
    PROVE  /\ ~Ready /\ boot \in DOMAIN ChainOrder /\ ChainOrder[boot] \in Chains /\ boot' = boot + 1
           /\ \A id \in Loaded : /\ subs'[id] # None /\ subs'[id] \in Handler
                                /\ subs'[id].desc = db[id][ChainOrder[boot]]
                                /\ subs'[id].senders = subs'[id].desc.senders
                                /\ subs'[id].message = subs'[id].desc.dests
                                /\ Follows(subs'[id], "relay")
           /\ \A id \in Ids \ Loaded : subs'[id] = subs[id]
           /\ subs' \in Handlers
           /\ Held(subs') = Held(subs) \cup Loaded
           /\ IsFiniteSet(Loaded)
           /\ persistent' = persistent + Cardinality(Loaded)
           /\ orphans' = orphans \cup UNION {StreamsOf(id) : id \in Loaded}
           /\ UNCHANGED <<db, reqs, timers, errors, crashes>>
<1>1. /\ ~Ready /\ boot' = boot + 1
      /\ subs' = [id \in Ids |-> IF id \in Loaded THEN Monitored(id, db[id][ChainOrder[boot]])
                                 ELSE subs[id]]
      /\ persistent' = persistent + Cardinality(Loaded)
      /\ orphans' = orphans \cup UNION {StreamsOf(id) : id \in Loaded}
      /\ UNCHANGED <<db, reqs, timers, errors, crashes>>
  BY DEF Boot, Loaded, bounds
<1>2. boot \in DOMAIN ChainOrder /\ ChainOrder[boot] \in Chains
  BY <1>1, Positions DEF SwitchInv, TypeOK, Ready
<1>3. ASSUME NEW id \in Loaded
      PROVE  LET d == db[id][ChainOrder[boot]]
             IN  /\ id \in Ids /\ Monitored(id, d) \in Handler /\ Monitored(id, d) # None
                 /\ Monitored(id, d).desc = d
                 /\ Monitored(id, d).senders = d.senders /\ Monitored(id, d).message = d.dests
                 /\ Follows(Monitored(id, d), "relay")
  <2>1. id \in Ids /\ db[id][ChainOrder[boot]] \in Descs
    BY <1>2, TypeLemma DEF Loaded, SwitchInv
  <2>2. Monitored(id, db[id][ChainOrder[boot]]) \in Handler /\ Monitored(id, db[id][ChainOrder[boot]]) # None
    BY <2>1, MonitoredType, TypeLemma DEF SwitchInv, Handlers
  <2>3. Follows(Monitored(id, db[id][ChainOrder[boot]]), "relay")
    BY DEF Monitored, Follows
  <2> QED BY <2>1, <2>2, <2>3 DEF Monitored
<1>4. \A id \in Loaded : /\ subs'[id] # None /\ subs'[id] \in Handler
                         /\ subs'[id].desc = db[id][ChainOrder[boot]]
                         /\ subs'[id].senders = subs'[id].desc.senders
                         /\ subs'[id].message = subs'[id].desc.dests
                         /\ Follows(subs'[id], "relay")
  BY <1>1, <1>3
<1>5. \A id \in Ids \ Loaded : subs'[id] = subs[id]
  BY <1>1
<1>6. subs' \in Handlers
  BY <1>1, <1>3, TypeLemma DEF SwitchInv, Handlers
<1>7. Held(subs') = Held(subs) \cup Loaded
  BY <1>4, <1>5 DEF Held, Loaded
<1>8. IsFiniteSet(Loaded)
  <2>1. IsFiniteSet(Ids) /\ Loaded \in SUBSET Ids
    BY SwitchboardAssumption DEF Loaded
  <2> QED BY <2>1, FS_Subset
<1> QED BY <1>1, <1>2, <1>4, <1>5, <1>6, <1>7, <1>8

LEMMA BootStep ==
    ASSUME SwitchInv, Boot
    PROVE  SwitchInv'
<1>1. Cardinality(Loaded) \in Nat /\ Cardinality(Held(subs)) \in Nat
  BY BootLemma, CountsLemma, FS_CardinalityType
<1>2. Cardinality(Held(subs')) <= Cardinality(Held(subs)) + Cardinality(Loaded)
  <2>1. IsFiniteSet(Held(subs)) /\ IsFiniteSet(Held(subs) \cap Loaded)
    <3>1. IsFiniteSet(Held(subs)) /\ Held(subs) \cap Loaded \in SUBSET Held(subs)
      BY CountsLemma
    <3> QED BY <3>1, FS_Subset
  <2>2. Cardinality(Held(subs) \cap Loaded) \in Nat
    BY <2>1, FS_CardinalityType
  <2>3. Cardinality(Held(subs'))
            = Cardinality(Held(subs)) + Cardinality(Loaded) - Cardinality(Held(subs) \cap Loaded)
    BY <2>1, BootLemma, FS_Union
  <2> QED BY <1>1, <2>2, <2>3
<1>3. CountFits'
  <2>1. Cardinality(Held(subs')) \in Nat /\ Cardinality(Clearing(reqs)) \in Nat
    BY CountsLemma
  <2>2. persistent' = persistent + Cardinality(Loaded) /\ reqs' = reqs
    BY BootLemma
  <2>3. persistent \in Int
    BY TypeLemma DEF SwitchInv
  <2> QED BY <1>1, <1>2, <2>1, <2>2, <2>3 DEF SwitchInv, CountFits
<1>4. persistent' \in Nat
  BY <1>1, BootLemma, TypeLemma DEF SwitchInv
<1>5. orphans' \subseteq Stream
  <2>1. \A id \in Loaded : StreamsOf(id) \subseteq Stream
    BY StreamsType, TypeLemma DEF Loaded, SwitchInv, Handlers
  <2> QED BY <2>1, BootLemma DEF SwitchInv, TypeOK
<1>6. boot' \in 1..Len(ChainOrder) + 1
  BY BootLemma, Positions
<1>7. TypeOK'
  BY <1>4, <1>5, <1>6, BootLemma DEF SwitchInv, TypeOK, Handlers
<1>8. PatchFits'
  BY BootLemma DEF SwitchInv, PatchFits, Patched
<1>9. BootFits'
  <2>1. \A c \in Clients : reqs'[c] = Idle
    BY BootLemma DEF SwitchInv, BootFits
  <2>2. ASSUME NEW id \in Ids
        PROVE  IF subs'[id] = None
               THEN \A n \in DOMAIN ChainOrder : n < boot' => db'[id][ChainOrder[n]] = None
               ELSE \E n \in DOMAIN ChainOrder :
                         n < boot' /\ db'[id][ChainOrder[n]] = subs'[id].desc
    <3>1. /\ boot' = boot + 1 /\ boot \in Nat /\ db' = db /\ boot \in DOMAIN ChainOrder
          /\ DOMAIN ChainOrder = 1..Len(ChainOrder) /\ Len(ChainOrder) \in Nat
      BY BootLemma, Positions
    <3>2. CASE id \in Loaded
      BY <3>1, <3>2, BootLemma
    <3>3. CASE id \notin Loaded
      <4>1. subs'[id] = subs[id] /\ db[id][ChainOrder[boot]] = None /\ ~Ready
        BY <3>3, BootLemma DEF Loaded
      <4>2. \A n \in DOMAIN ChainOrder : n < boot' <=> n < boot \/ n = boot
        BY <3>1
      <4> QED BY <3>1, <4>1, <4>2 DEF SwitchInv, BootFits
    <3> QED BY <3>2, <3>3
  <2> QED BY <2>1, <2>2 DEF BootFits
<1> QED BY <1>3, <1>7, <1>8, <1>9 DEF SwitchInv
----------------------------------------------------------------------------
(* Type correctness *)

LEMMA AskStep ==
    ASSUME SwitchInv, NEW c \in Clients, Ask(c)
    PROVE  SwitchInv'
BY PostStep, DeleteStep, PatchStep DEF Ask

LEMMA ServeStep ==
    ASSUME SwitchInv, NEW c \in Clients, Serve(c)
    PROVE  SwitchInv'
BY CheckExistsStep, InsertStep, ClearedStep, FindToRemoveStep, RemoveStep, GetToPatchStep, SaveStep
   DEF Serve

LEMMA StreamFailsStep ==
    ASSUME SwitchInv, NEW id \in Ids, StreamFails(id)
    PROVE  StreamStep /\ SwitchInv'
BY OriginFailsStep, DestFailsStep, RelayFailsStep DEF StreamFails

LEMMA TimersStep ==
    ASSUME SwitchInv, RunTimers
    PROVE  SwitchInv'
<1>1. PICK t \in timers : RetryOrigin(t) \/ RetryDest(t) \/ RetryRelay(t) \/ RetryThrows(t)
  BY DEF RunTimers
<1>2. CASE RetryThrows(t)
  <2>1. Restart /\ errors' \in 0..MaxErrors /\ crashes' \in 0..MaxCrash
    BY <1>2 DEF RetryThrows, bounds, SwitchInv, TypeOK
  <2> QED BY <2>1, RestartStep
<1> QED BY <1>1, <1>2, RetryOriginStep, RetryDestStep, RetryRelayStep

LEMMA CrashStep ==
    ASSUME SwitchInv, Crash
    PROVE  SwitchInv'
<1>1. Restart /\ errors' \in 0..MaxErrors /\ crashes' \in 0..MaxCrash
  BY SwitchboardAssumption DEF Crash, SwitchInv, TypeOK
<1> QED BY <1>1, RestartStep

LEMMA SwitchInductive == SwitchInv /\ [Next]_vars => SwitchInv'
<1> SUFFICES ASSUME SwitchInv, [Next]_vars PROVE SwitchInv'
  OBVIOUS
<1>1. CASE UNCHANGED vars
  BY <1>1 DEF vars, memory, bounds, SwitchInv, TypeOK, CountFits, PatchFits, BootFits, Ready,
     Held, Clearing, Patched
<1>2. CASE Next
  BY <1>2, AskStep, ServeStep, StreamFailsStep, OrphanFailsStep, TimersStep, BootStep, CrashStep
     DEF Next
<1> QED BY <1>1, <1>2

\* The descriptors, handlers, requests, timers and streams are of their types, and
\* the count of subscriptions is never negative (TypeOK; switchboard.ts:191-197).
THEOREM TypeCorrect == Spec => []TypeOK
<1>1. SwitchInv => TypeOK
  BY DEF SwitchInv
<1> QED BY <1>1, SwitchInit, SwitchInductive, PTL DEF Spec
----------------------------------------------------------------------------
(* The count *)

MiscountsBy == StatsAgree => StatsAgree' \/ MonitorsAgain \/ \E c \in Clients : InsertRaces(c)

LEMMA StatsLemma ==
    StatsAgree <=> persistent = Cardinality(Held(subs)) + Cardinality(Clearing(reqs))
BY DEF StatsAgree, Held, Clearing

LEMMA StatsLemmaNext ==
    StatsAgree' <=> persistent' = Cardinality(Held(subs')) + Cardinality(Clearing(reqs'))
BY DEF StatsAgree, Held, Clearing

\* Nothing is inserted, and no clearing is over.
LEMMA GoesAgree ==
    ASSUME SwitchInv, NEW c \in Clients, Goes(c, subs), reqs[c].at # "clear",
           UNCHANGED persistent
    PROVE  StatsAgree => StatsAgree'
<1>1. Cardinality(Held(subs')) + Cardinality(Clearing(reqs'))
          = Cardinality(Held(subs)) + Cardinality(Clearing(reqs))
  BY GoesCount, TypeLemma DEF SwitchInv
<1> QED BY <1>1, StatsLemma, StatsLemmaNext

LEMMA AskCounts ==
    ASSUME SwitchInv, NEW c \in Clients, Ask(c)
    PROVE  MiscountsBy
<1>1. reqs[c] = Idle /\ persistent' = persistent
  BY DEF Ask, Post, Delete, Patch
<1>2. reqs[c].at # "clear"
  BY <1>1 DEF Idle
<1>3. Goes(c, subs)
  BY PostStep, DeleteStep, PatchStep DEF Ask
<1> QED BY <1>1, <1>2, <1>3, GoesAgree DEF MiscountsBy

LEMMA InsertCounts ==
    ASSUME SwitchInv, NEW c \in Clients, Insert(c), ~InsertRaces(c)
    PROVE  StatsAgree => StatsAgree'
<1> DEFINE id == reqs[c].id
           d == reqs[c].desc
           h == [subs EXCEPT ![id] = Monitored(id, d)]
<1>1. reqs[c].at = "put" /\ ~Exists(id) /\ subs[id] = None
  BY DEF Insert, InsertRaces
<1>2. /\ TypeOK /\ id \in Ids /\ d \in Descs /\ reqs[c].undo \in Seq(Ids)
      /\ reqs[c].todo \in Seq([id : Ids, desc : Descs])
  BY <1>1, RequestLemma, TypeLemma DEF SwitchInv
<1>3. /\ persistent' = persistent + 1
      /\ Subscribe(c, reqs[c].todo, Append(reqs[c].undo, id), h, persistent + 1)
  BY <1>1 DEF Insert, Duplicated
<1>4. h \in Handlers /\ Cardinality(Held(h)) = Cardinality(Held(subs)) + 1
  BY <1>1, <1>2, InsertedHandlers
<1>5. Append(reqs[c].undo, id) \in Seq(Ids)
  BY <1>2
<1> HIDE DEF h
<1>6. Goes(c, h)
  BY <1>2, <1>3, <1>4, <1>5, SubscribeMoves, MovesGoes
<1>7. Cardinality(Held(subs')) + Cardinality(Clearing(reqs'))
          = Cardinality(Held(h)) + Cardinality(Clearing(reqs))
  BY <1>1, <1>2, <1>4, <1>6, GoesCount, TypeLemma
<1>8. Cardinality(Held(subs)) \in Nat /\ Cardinality(Clearing(reqs)) \in Nat
  BY CountsLemma
<1> QED BY <1>3, <1>4, <1>7, <1>8, StatsLemma, StatsLemmaNext

LEMMA ClearedCounts ==
    ASSUME SwitchInv, NEW c \in Clients, Cleared(c)
    PROVE  StatsAgree => StatsAgree'
<1> DEFINE r == [reqs[c] EXCEPT !.at = "find"]
<1>1. /\ reqs[c].at = "clear" /\ persistent' = persistent - 1 /\ reqs' = [reqs EXCEPT ![c] = r]
      /\ UNCHANGED subs
  BY DEF Cleared, Reply
<1>2. reqs[c] \in [at : {"clear", "find"}, id : Ids, undo : Seq(Ids)]
  BY <1>1, RequestLemma, TypeLemma DEF SwitchInv
<1>3. r.at # "clear"
  BY <1>2
<1> HIDE DEF r
<1>4. Cardinality(Clearing(reqs')) = Cardinality(Clearing(reqs)) - 1
  BY <1>1, <1>3, ClearingMoves, TypeLemma DEF SwitchInv
<1>5. /\ Cardinality(Held(subs)) \in Nat /\ Cardinality(Clearing(reqs)) \in Nat
      /\ Cardinality(Held(subs')) = Cardinality(Held(subs))
  BY <1>1, CountsLemma
<1> QED BY <1>1, <1>4, <1>5, StatsLemma, StatsLemmaNext

LEMMA SaveCounts ==
    ASSUME SwitchInv, NEW c \in Clients, Save(c)
    PROVE  StatsAgree => StatsAgree'
<1>1. /\ reqs[c].at = "save" /\ reqs' = [reqs EXCEPT ![c] = Idle] /\ UNCHANGED persistent
      /\ subs' = [subs EXCEPT ![reqs[c].id] =
                      IF @ = None THEN None ELSE Updated(@, reqs[c].desc, reqs[c].ops)]
  BY DEF Save, Reply
<1>2. reqs[c].id \in Ids /\ reqs[c].desc \in Descs /\ subs \in Handlers
  BY <1>1, RequestLemma, TypeLemma DEF SwitchInv
<1>3. Held(subs') = Held(subs)
  <2>1. \A i \in Ids : subs'[i] = None <=> subs[i] = None
    BY <1>1, <1>2, UpdatedType DEF Handlers
  <2> QED BY <2>1 DEF Held
<1>4. Cardinality(Clearing(reqs')) = Cardinality(Clearing(reqs))
  <2>1. Idle.at # "clear"
    BY DEF Idle
  <2> QED BY <1>1, <2>1, ClearingMoves, TypeLemma DEF SwitchInv
<1> QED BY <1>1, <1>3, <1>4, StatsLemma, StatsLemmaNext

LEMMA ServeCounts ==
    ASSUME SwitchInv, NEW c \in Clients, Serve(c)
    PROVE  MiscountsBy
<1>1. CASE CheckExists(c) \/ FindToRemove(c) \/ Remove(c) \/ \E ops \in PatchOps : GetToPatch(c, ops)
  <2>1. reqs[c].at # "clear" /\ UNCHANGED persistent
    BY <1>1 DEF CheckExists, FindToRemove, Remove, GetToPatch
  <2>2. Goes(c, subs)
    BY <1>1, CheckExistsStep, FindToRemoveStep, RemoveStep, GetToPatchStep
  <2> QED BY <2>1, <2>2, GoesAgree DEF MiscountsBy
<1> QED BY <1>1, InsertCounts, ClearedCounts, SaveCounts DEF Serve, MiscountsBy

\* Streams, restarts, and the load of the subscriptions.
LEMMA StreamCounts ==
    ASSUME StreamStep
    PROVE  StatsAgree => StatsAgree'
<1>1. Held(subs') = Held(subs)
  BY DEF StreamStep, Held
<1> QED BY <1>1, StatsLemma, StatsLemmaNext DEF StreamStep

LEMMA RestartCounts ==
    ASSUME Restart
    PROVE  StatsAgree'
<1>1. /\ subs' = [id \in Ids |-> None] /\ persistent' = 0 /\ reqs' = [c \in Clients |-> Idle]
  BY DEF Restart
<1>2. Cardinality(Held(subs')) = 0 /\ Cardinality(Clearing(reqs')) = 0
  BY <1>1, EmptyCounts
<1> QED BY <1>1, <1>2, StatsLemmaNext

LEMMA BootCounts ==
    ASSUME SwitchInv, Boot
    PROVE  MiscountsBy
<1> SUFFICES ASSUME StatsAgree, ~MonitorsAgain PROVE StatsAgree'
  BY DEF MiscountsBy
<1>1. Held(subs) \cap Loaded = {}
  BY DEF MonitorsAgain, Held, Loaded
<1>2. Cardinality(Held(subs) \cap Loaded) = 0
  BY <1>1, FS_EmptySet
<1>3. /\ Cardinality(Held(subs) \cup Loaded)
             = Cardinality(Held(subs)) + Cardinality(Loaded) - Cardinality(Held(subs) \cap Loaded)
      /\ Cardinality(Held(subs)) \in Nat /\ Cardinality(Loaded) \in Nat
      /\ Cardinality(Clearing(reqs)) \in Nat
  BY BootLemma, CountsLemma, FS_Union, FS_CardinalityType
<1>4. /\ Held(subs') = Held(subs) \cup Loaded /\ reqs' = reqs
      /\ persistent' = persistent + Cardinality(Loaded)
  BY BootLemma
<1> QED BY <1>2, <1>3, <1>4, StatsLemma, StatsLemmaNext

\* What a retry does.
LEMMA TimersLemma ==
    ASSUME SwitchInv, RunTimers
    PROVE  Restart \/ StreamStep
BY RetryOriginStep, RetryDestStep, RetryRelayStep DEF RunTimers, RetryThrows

LEMMA StepsMiscount ==
    ASSUME SwitchInv, [Next]_vars
    PROVE  MiscountsBy
<1>1. CASE UNCHANGED vars
  <2>1. UNCHANGED <<subs, reqs, persistent>>
    BY <1>1 DEF vars, memory
  <2> QED BY <2>1, StatsLemma, StatsLemmaNext DEF MiscountsBy
<1>2. CASE \E c \in Clients : Ask(c) \/ Serve(c)
  BY <1>2, AskCounts, ServeCounts
<1>3. CASE (\E id \in Ids : StreamFails(id)) \/ (\E s \in orphans : OrphanFails(s)) \/ RunTimers \/ Crash
  <2>1. StreamStep \/ Restart
    BY <1>3, StreamFailsStep, OrphanFailsStep, TimersLemma DEF Crash
  <2> QED BY <2>1, StreamCounts, RestartCounts DEF MiscountsBy
<1> QED BY <1>1, <1>2, <1>3, BootCounts DEF Next

\* The count of persistent subscriptions goes wrong by racing insertions of one id
\* only, and by loading what they have stored for two origins (OnlyRacesMiscount;
\* switchboard.ts:130-138, 191-197, 681-697).
THEOREM RacesMiscount == Spec => OnlyRacesMiscount
<1>1. SwitchInv /\ [Next]_vars => [MiscountsBy]_vars
  BY StepsMiscount
<1>2. [][MiscountsBy]_vars => OnlyRacesMiscount
  BY PTL DEF OnlyRacesMiscount, MiscountsBy
<1> QED BY <1>1, <1>2, SwitchInit, SwitchInductive, PTL DEF Spec
----------------------------------------------------------------------------
(* The criteria *)

\* The criteria of id that fall behind in a step do so in the ways named.
Justified(id, criterion) ==
    /\ subs[id] # None
    /\ IF criterion = "relay" THEN DestinationsChange(id) ELSE StaleWrite(id)

MisleadsBy ==
    \A id \in Ids : \A criterion \in Criteria :
        subs'[id] # None /\ ~Follows(subs'[id], criterion) =>
            \/ subs[id] # None /\ ~Follows(subs[id], criterion)
            \/ Justified(id, criterion)

\* The criteria of a handler are those of its descriptor.
Told(h) == \A criterion \in Criteria : Follows(h, criterion)

LEMMA MisledLemma ==
    ASSUME \A id \in Ids : subs'[id] = subs[id] \/ subs'[id] = None \/ Told(subs'[id])
    PROVE  MisleadsBy
BY DEF MisleadsBy, Told

\* A request puts at most one handler that is not misled.
LEMMA GoesTold ==
    ASSUME NEW c \in Clients, subs \in Handlers, NEW h \in Handlers, Goes(c, h),
           \A id \in Ids : h[id] = subs[id] \/ Told(h[id])
    PROVE  MisleadsBy
<1>1. \A id \in Ids : subs'[id] = h[id] \/ subs'[id] = None
  BY DEF Goes, Handlers
<1> QED BY <1>1, MisledLemma

LEMMA InsertTold ==
    ASSUME SwitchInv, NEW c \in Clients, Insert(c)
    PROVE  MisleadsBy
<1> DEFINE id == reqs[c].id
           d == reqs[c].desc
           h == [subs EXCEPT ![id] = Monitored(id, d)]
<1>1. /\ TypeOK /\ id \in Ids /\ d \in Descs /\ reqs[c].undo \in Seq(Ids) /\ subs \in Handlers
      /\ reqs[c].todo \in Seq([id : Ids, desc : Descs])
  BY RequestLemma, TypeLemma DEF SwitchInv, Insert
<1>2. CASE Duplicated(id, d.origin)
  <2>1. Unsubscribe(c, reqs[c].undo, subs)
    BY <1>2 DEF Insert
  <2>2. Goes(c, subs)
    BY <1>1, <2>1, UnsubscribeMoves, MovesGoes
  <2> QED BY <1>1, <2>2, GoesTold
<1>3. CASE ~Duplicated(id, d.origin)
  <2>1. Subscribe(c, reqs[c].todo, Append(reqs[c].undo, id), h, persistent + 1)
    BY <1>3 DEF Insert
  <2>2. h \in Handlers
    BY <1>1, InsertedHandlers
  <2>3. Append(reqs[c].undo, id) \in Seq(Ids)
    BY <1>1
  <2>4. Told(Monitored(id, d))
    BY DEF Monitored, Told, Follows, Criteria
  <2>5. \A i \in Ids : h[i] = subs[i] \/ Told(h[i])
    BY <1>1, <2>4 DEF Handlers
  <2> HIDE DEF h
  <2>6. Goes(c, h)
    BY <1>1, <2>1, <2>2, <2>3, SubscribeMoves, MovesGoes
  <2> QED BY <1>1, <2>2, <2>5, <2>6, GoesTold
<1> QED BY <1>2, <1>3

LEMMA SaveTold ==
    ASSUME SwitchInv, NEW c \in Clients, Save(c)
    PROVE  MisleadsBy
<1> DEFINE id == reqs[c].id
           d == reqs[c].desc
<1>1. /\ reqs[c].at = "save"
      /\ subs' = [subs EXCEPT ![id] = IF @ = None THEN None ELSE Updated(@, d, reqs[c].ops)]
  BY DEF Save
<1>2. id \in Ids /\ d \in Descs /\ subs \in Handlers
  BY <1>1, RequestLemma, TypeLemma DEF SwitchInv
<1>3. ASSUME NEW i \in Ids, NEW criterion \in Criteria,
             subs'[i] # None, ~Follows(subs'[i], criterion)
      PROVE  \/ subs[i] # None /\ ~Follows(subs[i], criterion)
             \/ Justified(i, criterion)
  <2>1. CASE i # id
    BY <1>1, <1>2, <1>3, <2>1 DEF Handlers
  <2>2. CASE i = id
    <3> DEFINE u == Updated(subs[id], d, reqs[c].ops)
    <3>1. subs[id] # None /\ subs'[id] = u /\ subs[id] \in Handler
      BY <1>1, <1>2, <1>3, <2>2 DEF Handlers
    <3>2. /\ u.desc = d
          /\ u.senders = IF "senders" \in reqs[c].ops THEN d.senders ELSE subs[id].senders
          /\ u.message = IF "destinations" \in reqs[c].ops THEN d.dests ELSE subs[id].message
          /\ RelayKept(u, subs[id])
      BY <1>2, <3>1, UpdatedType
    <3> HIDE DEF u
    <3>3. CASE criterion = "relay"
      <4>1. u.relay = subs[id].relay /\ u.relayMessage = subs[id].relayMessage
        BY <1>3, <2>2, <3>1, <3>2, <3>3 DEF RelayKept
      <4>2. u.relay = "live" /\ u.relayMessage # d.dests
        BY <1>3, <2>2, <3>1, <3>2, <3>3 DEF Follows
      <4>3. CASE d.dests = subs[id].desc.dests
        BY <2>2, <3>1, <3>3, <4>1, <4>2, <4>3 DEF Follows
      <4>4. CASE d.dests # subs[id].desc.dests
        BY <1>1, <2>2, <3>1, <3>3, <4>4 DEF Justified, DestinationsChange
      <4> QED BY <4>3, <4>4
    <3>4. CASE criterion # "relay" /\ reqs[c].base # subs[id].desc
      BY <1>1, <2>2, <3>1, <3>4 DEF Justified, StaleWrite
    <3>5. CASE criterion # "relay" /\ reqs[c].base = subs[id].desc
      <4>1. /\ "senders" \notin reqs[c].ops => d.senders = subs[id].desc.senders
            /\ "destinations" \notin reqs[c].ops => d.dests = subs[id].desc.dests
        BY <1>1, <3>5 DEF SwitchInv, PatchFits, Patched
      <4> QED BY <1>3, <2>2, <3>1, <3>2, <3>5, <4>1 DEF Follows
    <3> QED BY <3>3, <3>4, <3>5
  <2> QED BY <2>1, <2>2
<1> QED BY <1>3 DEF MisleadsBy

LEMMA StreamTold ==
    ASSUME SwitchInv, StreamStep
    PROVE  MisleadsBy
<1>1. ASSUME NEW i \in Ids, NEW criterion \in Criteria,
             subs'[i] # None, ~Follows(subs'[i], criterion)
      PROVE  \/ subs[i] # None /\ ~Follows(subs[i], criterion)
             \/ Justified(i, criterion)
  <2>1. /\ subs[i] # None /\ subs'[i].desc = subs[i].desc
        /\ RelayKept(subs'[i], subs[i])
    BY <1>1 DEF StreamStep
  <2>2. CASE criterion = "relay"
    BY <1>1, <2>1, <2>2 DEF RelayKept, Follows
  <2>3. CASE criterion # "relay" /\ HasCriteria(subs'[i], subs[i])
    BY <1>1, <2>1, <2>3 DEF Follows, HasCriteria
  <2>4. ASSUME criterion # "relay", NEW t \in timers, t.id = i, RetryOrigin(t),
               subs'[i].senders = t.desc.senders, subs'[i].message = t.desc.dests
        PROVE  Justified(i, criterion)
    <3>1. t.desc # subs[i].desc
      BY <1>1, <2>1, <2>4 DEF Follows
    <3> QED BY <2>1, <2>4, <3>1 DEF Justified, StaleWrite
  <2> QED BY <1>1, <2>1, <2>2, <2>3, <2>4 DEF StreamStep
<1> QED BY <1>1 DEF MisleadsBy

LEMMA RequestsTold ==
    ASSUME SwitchInv, NEW c \in Clients, Ask(c) \/ Serve(c)
    PROVE  MisleadsBy
<1>1. ASSUME Goes(c, subs) PROVE MisleadsBy
  BY <1>1, GoesTold, TypeLemma DEF SwitchInv
<1>2. CASE Ask(c)
  BY <1>1, <1>2, PostStep, DeleteStep, PatchStep DEF Ask
<1>3. CASE Serve(c)
  <2>1. CASE Insert(c) \/ Save(c)
    BY <2>1, InsertTold, SaveTold
  <2>2. CASE \/ CheckExists(c) \/ Cleared(c) \/ FindToRemove(c) \/ Remove(c)
             \/ \E ops \in PatchOps : GetToPatch(c, ops)
    BY <1>1, <2>2, CheckExistsStep, ClearedStep, FindToRemoveStep, RemoveStep, GetToPatchStep
  <2> QED BY <1>3, <2>1, <2>2 DEF Serve
<1> QED BY <1>2, <1>3

LEMMA StepsMislead ==
    ASSUME SwitchInv, [Next]_vars
    PROVE  MisleadsBy
<1>1. CASE UNCHANGED vars
  <2>1. UNCHANGED subs
    BY <1>1 DEF vars, memory
  <2> QED BY <2>1, MisledLemma
<1>2. CASE \E c \in Clients : Ask(c) \/ Serve(c)
  BY <1>2, RequestsTold
<1>3. CASE (\E id \in Ids : StreamFails(id)) \/ (\E s \in orphans : OrphanFails(s)) \/ RunTimers \/ Crash
  <2>1. StreamStep \/ Restart
    BY <1>3, StreamFailsStep, OrphanFailsStep, TimersLemma DEF Crash
  <2>2. Restart => MisleadsBy
    <3>1. Restart => \A i \in Ids : subs'[i] = None
      BY DEF Restart
    <3> QED BY <3>1, MisledLemma
  <2> QED BY <2>1, <2>2, StreamTold
<1>4. CASE Boot
  <2>1. \A id \in Loaded : Told(subs'[id])
    BY <1>4, BootLemma DEF Told, Follows, Criteria
  <2>2. \A id \in Ids \ Loaded : subs'[id] = subs[id]
    BY <1>4, BootLemma
  <2> QED BY <2>1, <2>2, MisledLemma
<1> QED BY <1>1, <1>2, <1>3, <1>4 DEF Next

\* The criteria of the origin's streams fall behind their descriptor only by a stale
\* write, and that of the relay stream only when a patch changes the destinations while
\* the stream is there (OnlyStaleWritesMislead; switchboard.ts:264-290, 504-512, 615,
\* routes.ts:140-163).
THEOREM StaleWritesMislead == Spec => OnlyStaleWritesMislead
<1> DEFINE Body ==
      \A id \in Ids : \A criterion \in Criteria :
          Misled(id, criterion)' /\ ~Misled(id, criterion) =>
              /\ subs[id] # None
              /\ IF criterion = "relay" THEN DestinationsChange(id) ELSE StaleWrite(id)
<1>1. SwitchInv /\ [Next]_vars => [Body]_vars
  BY StepsMislead DEF MisleadsBy, Justified, Misled, Follows
<1> QED BY <1>1, SwitchInit, SwitchInductive, PTL DEF Spec, OnlyStaleWritesMislead
----------------------------------------------------------------------------
(* Streams left behind *)

LeavesBy ==
    \/ orphans' \subseteq orphans
    \/ \E id \in Ids : \E failing \in SUBSET Pipes :
           subs[id] # None /\ failing # subs[id].origin /\ OriginFails(id, failing)
    \/ \E t \in timers : subs[t.id] # None
           /\ \/ subs[t.id].relay = "live" /\ RetryRelay(t)
              \/ /\ subs[t.id].origin # {} /\ subs[t.id].chain # t.desc.origin
                 /\ RetryOrigin(t)
    \/ MonitorsAgain
    \/ \E c \in Clients : InsertRaces(c)

LEMMA NoStreams ==
    ASSUME NEW id, subs[id] = None PROVE StreamsOf(id) = {}
BY DEF StreamsOf

LEMMA RequestsLeave ==
    ASSUME NEW c \in Clients, Ask(c) \/ Serve(c)
    PROVE  LeavesBy
<1>1. CASE Insert(c)
  <2>1. CASE Duplicated(reqs[c].id, reqs[c].desc.origin)
    BY <1>1, <2>1 DEF Insert, LeavesBy
  <2>2. CASE ~Duplicated(reqs[c].id, reqs[c].desc.origin)
    <3>1. orphans' = orphans \cup StreamsOf(reqs[c].id)
      BY <1>1, <2>2 DEF Insert
    <3>2. reqs[c].at = "put"
      BY <1>1 DEF Insert
    <3>3. CASE subs[reqs[c].id] = None
      BY <3>1, <3>3, NoStreams DEF LeavesBy
    <3>4. CASE subs[reqs[c].id] # None
      BY <1>1, <3>2, <3>4 DEF InsertRaces, LeavesBy
    <3> QED BY <3>3, <3>4
  <2> QED BY <2>1, <2>2
<1>2. CASE ~Insert(c)
  <2>1. orphans' = orphans
    BY <1>2 DEF Ask, Serve, Post, Delete, Patch, CheckExists, Cleared, FindToRemove, Remove,
       GetToPatch, Save
  <2> QED BY <2>1 DEF LeavesBy
<1> QED BY <1>1, <1>2

LEMMA FailuresLeave ==
    ASSUME NEW id \in Ids, StreamFails(id)
    PROVE  LeavesBy
<1>1. ASSUME NEW failing \in SUBSET Pipes, OriginFails(id, failing)
      PROVE  LeavesBy
  <2>1. CASE subs[id].origin = failing
    BY <1>1, <2>1 DEF OriginFails, LeavesBy
  <2>2. CASE subs[id].origin # failing
    <3>1. subs[id] # None
      BY <1>1 DEF OriginFails
    <3> QED BY <1>1, <2>2, <3>1 DEF LeavesBy
  <2> QED BY <2>1, <2>2
<1>2. ASSUME NEW chain \in Chains, DestFails(id, chain)
      PROVE  LeavesBy
  BY <1>2 DEF DestFails, LeavesBy
<1>3. CASE RelayFails(id)
  BY <1>3 DEF RelayFails, LeavesBy
<1> QED BY <1>1, <1>2, <1>3 DEF StreamFails

\* A retry finds nothing to leave behind, or one of the two streams it may.
LEMMA RetryOriginLeaves ==
    ASSUME NEW t \in timers, RetryOrigin(t)
    PROVE  LeavesBy
<1>1. /\ t.kind = "origin" /\ ~Duplicated(t.id, t.desc.origin)
      /\ orphans' = orphans \cup {s \in StreamsOf(t.id) : s.kind = "origin"}
  BY DEF RetryOrigin, Throws
<1>2. CASE subs[t.id] = None
  BY <1>1, <1>2, NoStreams DEF LeavesBy
<1>3. CASE subs[t.id] # None /\ subs[t.id].origin = {}
  <2>1. {s \in StreamsOf(t.id) : s.kind = "origin"} = {}
    BY <1>3 DEF StreamsOf
  <2> QED BY <1>1, <2>1 DEF LeavesBy
<1>4. CASE subs[t.id] # None /\ subs[t.id].origin # {}
  <2>1. subs[t.id].chain # t.desc.origin
    BY <1>1, <1>4 DEF Duplicated
  <2> QED BY <1>4, <2>1 DEF LeavesBy
<1> QED BY <1>2, <1>3, <1>4

LEMMA RetryRelayLeaves ==
    ASSUME NEW t \in timers, RetryRelay(t)
    PROVE  LeavesBy
<1>1. /\ subs[t.id] # None
      /\ orphans' = orphans \cup {s \in StreamsOf(t.id) : s.kind = "relay"}
  BY DEF RetryRelay, Throws
<1>2. CASE subs[t.id].relay = "live"
  BY <1>1, <1>2 DEF LeavesBy
<1>3. CASE subs[t.id].relay # "live"
  <2>1. {s \in StreamsOf(t.id) : s.kind = "relay"} = {}
    BY <1>1, <1>3 DEF StreamsOf
  <2> QED BY <1>1, <2>1 DEF LeavesBy
<1> QED BY <1>2, <1>3

LEMMA BootLeaves ==
    ASSUME SwitchInv, Boot
    PROVE  LeavesBy
<1> SUFFICES ASSUME ~MonitorsAgain PROVE orphans' \subseteq orphans
  BY DEF LeavesBy
<1>1. \A id \in Loaded : subs[id] = None
  BY DEF MonitorsAgain, Loaded
<1>2. \A id \in Loaded : StreamsOf(id) = {}
  BY <1>1, NoStreams
<1> QED BY <1>2, BootLemma

LEMMA StepsLeave ==
    ASSUME SwitchInv, [Next]_vars
    PROVE  LeavesBy
<1>1. CASE UNCHANGED vars
  BY <1>1 DEF vars, memory, LeavesBy
<1>2. CASE \E c \in Clients : Ask(c) \/ Serve(c)
  BY <1>2, RequestsLeave
<1>3. CASE \E id \in Ids : StreamFails(id)
  BY <1>3, FailuresLeave
<1>4. CASE \E s \in orphans : OrphanFails(s)
  BY <1>4, OrphanFailsStep DEF LeavesBy
<1>5. Restart => LeavesBy
  BY DEF Restart, LeavesBy
<1>6. CASE RunTimers
  <2>1. ASSUME NEW t \in timers, RetryDest(t) PROVE LeavesBy
    BY <2>1 DEF RetryDest, LeavesBy
  <2> QED BY <1>5, <1>6, <2>1, RetryOriginLeaves, RetryRelayLeaves DEF RunTimers, RetryThrows
<1>7. CASE Crash
  BY <1>5, <1>7 DEF Crash
<1> QED BY <1>1, <1>2, <1>3, <1>4, <1>6, <1>7, BootLeaves DEF Next

\* No step but those named leaves a stream behind (OnlyRetriesLeaveStreams;
\* switchboard.ts:396-426, 504-512, 620-641).
THEOREM RetriesLeaveStreams == Spec => OnlyRetriesLeaveStreams
<1>1. SwitchInv /\ [Next]_vars => [LeavesBy]_vars
  BY StepsLeave
<1>2. [][LeavesBy]_vars => OnlyRetriesLeaveStreams
  BY PTL DEF OnlyRetriesLeaveStreams, LeavesBy
<1> QED BY <1>1, <1>2, SwitchInit, SwitchInductive, PTL DEF Spec
----------------------------------------------------------------------------
(* Memory and database *)

DescOf(h) == IF h = None THEN None ELSE h.desc

\* A removal of id is under way.
Removes(r, id) == r.at \in {"clear", "find", "remove"} /\ r.id = id

Agrees(id) == (\E c \in Clients : Removes(reqs[c], id)) \/ DescOf(subs[id]) = Stored(id)

LEMMA DivergedLemma == Diverged = IF ~Ready THEN {} ELSE {id \in Ids : ~Agrees(id)}
BY DEF Diverged, Agrees, Removes, DescOf, Stored

LEMMA DivergedLemmaNext == Diverged' = IF ~Ready' THEN {} ELSE {id \in Ids : ~Agrees(id)'}
BY DEF Diverged, Agrees, Removes, DescOf, Stored

\* What is not written is stored as it was.
LEMMA StoredKept ==
    ASSUME NEW id \in Ids, db'[id] = db[id]
    PROVE  Stored(id)' = Stored(id)
<1>1. Families(id)' = Families(id)
  BY DEF Families
<1>2. Exists(id)' <=> Exists(id)
  BY <1>1 DEF Exists
<1>3. FamilyOf(id)' = FamilyOf(id)
  BY <1>1 DEF FamilyOf
<1> QED BY <1>2, <1>3 DEF Stored

\* OneFamily after a step.
LEMMA OneFamilyNext ==
    ASSUME NEW id \in Ids, NEW chain \in Chains, ~StoredElsewhere(id, chain)'
    PROVE  Stored(id)' = db'[id][chain]
<1> DEFINE F == {n \in DOMAIN ChainOrder : db'[id][ChainOrder[n]] # None}
           first == CHOOSE n \in F : \A m \in F : n <= m
<1>1. /\ Families(id)' = F /\ (Exists(id)' <=> F # {})
      /\ FamilyOf(id)' = ChainOrder[first]
  BY DEF Families, Exists, FamilyOf
<1>2. F \in SUBSET Nat
  BY Positions
<1>3. \A n \in F : ChainOrder[n] = chain
  BY <1>1 DEF StoredElsewhere
<1>4. CASE F # {}
  <2>1. first \in F
    BY <1>2, <1>4, ChosenPosition
  <2> QED BY <1>1, <1>3, <1>4, <2>1 DEF Stored
<1>5. CASE F = {}
  <2>1. PICK n \in DOMAIN ChainOrder : ChainOrder[n] = chain
    BY DEF Chains
  <2>2. db'[id][chain] = None
    BY <1>5, <2>1
  <2> QED BY <1>1, <1>5, <2>2 DEF Stored
<1> QED BY <1>4, <1>5

\* What is written is what is stored, where nothing is stored for another origin.
LEMMA WrittenStored ==
    ASSUME TypeOK, NEW id \in Ids, NEW chain \in Chains, NEW v,
           db' = Written(id, chain, v), ~StoredElsewhere(id, chain)
    PROVE  /\ Stored(id)' = v
           /\ \A i \in Ids \ {id} : Stored(i)' = Stored(i)
<1>1. /\ db'[id][chain] = v
      /\ \A other \in Chains \ {chain} : db'[id][other] = db[id][other]
      /\ \A i \in Ids \ {id} : db'[i] = db[i]
  BY TypeLemma DEF Written
<1>2. ~StoredElsewhere(id, chain)'
  BY <1>1, Positions DEF StoredElsewhere, Families
<1>3. Stored(id)' = v
  BY <1>1, <1>2, OneFamilyNext
<1> QED BY <1>1, <1>3, StoredKept

LEMMA NothingStored ==
    ASSUME NEW id \in Ids, ~Exists(id) PROVE Stored(id) = None
BY DEF Stored

\* A request goes on from the handlers h: every id is as it was, or h has what is
\* stored now, or it is being removed.
LEMMA GoesAgreeing ==
    ASSUME SwitchInv, NEW c \in Clients, NEW h \in Handlers, Goes(c, h), Ready, UNCHANGED boot,
           \A id \in Ids :
              \/ h[id] = subs[id] /\ Stored(id)' = Stored(id) /\ ~Removes(reqs[c], id)
              \/ DescOf(h[id]) = Stored(id)'
              \/ Removes(reqs'[c], id)
    PROVE  Diverged' \subseteq Diverged
<1>1. reqs \in [Clients -> Request]
  BY TypeLemma DEF SwitchInv
<1>2. ASSUME NEW id \in Ids, ~Agrees(id)'
      PROVE  ~Agrees(id)
  <2>1. /\ \A d \in Clients : ~Removes(reqs'[d], id)
        /\ DescOf(subs'[id]) # Stored(id)'
    BY <1>2 DEF Agrees, DescOf
  <2>2. subs'[id] = h[id]
    <3>1. CASE \E r \in Request : r.at # "clear" /\ reqs' = [reqs EXCEPT ![c] = r] /\ subs' = h
      BY <3>1
    <3>2. CASE \E r \in Request :
                  /\ r.at = "clear" /\ r.id \in Ids /\ h[r.id] # None
                  /\ reqs' = [reqs EXCEPT ![c] = r]
                  /\ subs' = [h EXCEPT ![r.id] = None]
      <4>1. PICK r \in Request :
                  /\ r.at = "clear" /\ r.id \in Ids /\ h[r.id] # None
                  /\ reqs' = [reqs EXCEPT ![c] = r]
                  /\ subs' = [h EXCEPT ![r.id] = None]
        BY <3>2
      <4>2. reqs'[c] = r
        BY <1>1, <4>1
      <4>3. r.id # id
        BY <2>1, <4>1, <4>2 DEF Removes
      <4> QED BY <4>1, <4>3 DEF Handlers
    <3> QED BY <3>1, <3>2 DEF Goes
  <2>3. h[id] = subs[id] /\ Stored(id)' = Stored(id) /\ ~Removes(reqs[c], id)
    BY <2>1, <2>2
  <2>4. \A d \in Clients \ {c} : reqs'[d] = reqs[d]
    BY <1>1 DEF Goes
  <2> QED BY <2>1, <2>2, <2>3, <2>4 DEF Agrees
<1>3. Ready' <=> Ready
  BY DEF Ready
<1> QED BY <1>2, <1>3, DivergedLemma, DivergedLemmaNext

\* Requests that write nothing and remove nothing.
LEMMA ReadsAgree ==
    ASSUME SwitchInv, NEW c \in Clients,
           \/ Ask(c) \/ CheckExists(c) \/ \E ops \in PatchOps : GetToPatch(c, ops)
    PROVE  Diverged' \subseteq Diverged
<1>1. Goes(c, subs)
  BY PostStep, DeleteStep, PatchStep, CheckExistsStep, GetToPatchStep DEF Ask
<1>2. reqs[c] = Idle \/ reqs[c].at \in {"exists", "get"}
  BY DEF Ask, Post, Delete, Patch, CheckExists, GetToPatch
<1>3. UNCHANGED <<db, boot>>
  BY DEF Ask, Post, Delete, Patch, CheckExists, GetToPatch
<1>4. Ready
  BY <1>2, ServedWhenReady DEF Ask, Post, Delete, Patch, CheckExists, GetToPatch
<1>5. \A id \in Ids : ~Removes(reqs[c], id)
  BY <1>2 DEF Removes, Idle
<1>6. \A id \in Ids : Stored(id)' = Stored(id)
  BY <1>3, StoredKept
<1> QED BY <1>1, <1>3, <1>4, <1>5, <1>6, GoesAgreeing, TypeLemma DEF SwitchInv

LEMMA InsertAgrees ==
    ASSUME SwitchInv, NEW c \in Clients, Insert(c), ~InsertRaces(c)
    PROVE  Diverged' \subseteq Diverged
<1> SUFFICES ASSUME NEW id, id = reqs[c].id, NEW d, d = reqs[c].desc
             PROVE  Diverged' \subseteq Diverged
  OBVIOUS
<1> DEFINE h == [subs EXCEPT ![id] = Monitored(id, d)]
<1>1. /\ reqs[c].at = "put" /\ ~Exists(id) /\ subs[id] = None
      /\ db' = Written(id, d.origin, d) /\ UNCHANGED boot
  BY DEF Insert, InsertRaces
<1>2. /\ Ready /\ TypeOK /\ id \in Ids /\ d \in Descs /\ reqs[c].undo \in Seq(Ids)
      /\ reqs[c].todo \in Seq([id : Ids, desc : Descs]) /\ subs \in Handlers
  BY <1>1, ServedWhenReady, RequestLemma, TypeLemma DEF SwitchInv
<1>3. Subscribe(c, reqs[c].todo, Append(reqs[c].undo, id), h, persistent + 1)
  BY <1>1 DEF Insert, Duplicated
<1>4. h \in Handlers /\ Append(reqs[c].undo, id) \in Seq(Ids)
  BY <1>2, InsertedHandlers
<1>5. DescOf(h[id]) = d /\ \A i \in Ids \ {id} : h[i] = subs[i]
  <2>1. Monitored(id, d) # None /\ Monitored(id, d).desc = d
    BY <1>2, MonitoredType DEF Handlers, Monitored
  <2> QED BY <1>2, <2>1 DEF DescOf, Handlers
<1>6. Stored(id)' = d /\ \A i \in Ids \ {id} : Stored(i)' = Stored(i)
  <2>1. ~StoredElsewhere(id, d.origin)
    BY <1>1 DEF StoredElsewhere, Exists
  <2> QED BY <1>1, <1>2, <2>1, DescLemma, WrittenStored
<1>7. \A i \in Ids : ~Removes(reqs[c], i)
  BY <1>1 DEF Removes
<1> HIDE DEF h
<1>8. Goes(c, h)
  BY <1>2, <1>3, <1>4, SubscribeMoves, MovesGoes
<1>9. \A i \in Ids : \/ h[i] = subs[i] /\ Stored(i)' = Stored(i) /\ ~Removes(reqs[c], i)
                     \/ DescOf(h[i]) = Stored(i)'
  BY <1>5, <1>6, <1>7
<1> QED BY <1>1, <1>2, <1>4, <1>8, <1>9, GoesAgreeing

LEMMA ClearedAgrees ==
    ASSUME SwitchInv, NEW c \in Clients, Cleared(c)
    PROVE  Diverged' \subseteq Diverged
<1>1. /\ reqs[c].at = "clear" /\ reqs' = [reqs EXCEPT ![c] = [reqs[c] EXCEPT !.at = "find"]]
      /\ UNCHANGED <<db, boot>>
  BY DEF Cleared, Reply
<1>2. /\ Ready /\ reqs \in [Clients -> Request]
      /\ reqs[c] \in [at : {"clear", "find"}, id : Ids, undo : Seq(Ids)]
  BY <1>1, ServedWhenReady, RequestLemma, TypeLemma DEF SwitchInv
<1>3. reqs'[c].at = "find" /\ reqs'[c].id = reqs[c].id
  BY <1>1, <1>2
<1>4. \A i \in Ids : Removes(reqs'[c], i) \/ ~Removes(reqs[c], i)
  BY <1>3 DEF Removes
<1>5. \A i \in Ids : Stored(i)' = Stored(i)
  BY <1>1, StoredKept
<1>6. Goes(c, subs)
  BY ClearedStep
<1> QED BY <1>1, <1>2, <1>4, <1>5, <1>6, GoesAgreeing, TypeLemma DEF SwitchInv

LEMMA FindToRemoveAgrees ==
    ASSUME SwitchInv, NEW c \in Clients, FindToRemove(c), subs[reqs[c].id] = None
    PROVE  Diverged' \subseteq Diverged
<1> SUFFICES ASSUME NEW id, id = reqs[c].id
             PROVE  Diverged' \subseteq Diverged
  OBVIOUS
<1>1. reqs[c].at = "find" /\ UNCHANGED <<db, boot>>
  BY DEF FindToRemove
<1>2. Ready /\ id \in Ids /\ reqs \in [Clients -> Request]
  BY <1>1, ServedWhenReady, RequestLemma, TypeLemma DEF SwitchInv
<1>3. \A i \in Ids : Stored(i)' = Stored(i)
  BY <1>1, StoredKept
<1>4. Removes(reqs'[c], id) \/ DescOf(subs[id]) = Stored(id)'
  <2>1. CASE Exists(id)
    <3>1. reqs'[c] = [at |-> "remove", id |-> id, chain |-> FamilyOf(id), undo |-> reqs[c].undo]
      BY <1>2, <2>1 DEF FindToRemove, Reply
    <3> QED BY <3>1 DEF Removes
  <2>2. CASE ~Exists(id)
    BY <1>2, <1>3, <2>2, NothingStored DEF DescOf
  <2> QED BY <2>1, <2>2
<1>5. \A i \in Ids \ {id} : ~Removes(reqs[c], i)
  BY DEF Removes
<1>6. Goes(c, subs)
  BY FindToRemoveStep
<1> QED BY <1>1, <1>2, <1>3, <1>4, <1>5, <1>6, GoesAgreeing, TypeLemma DEF SwitchInv

LEMMA RemoveAgrees ==
    ASSUME SwitchInv, NEW c \in Clients, Remove(c), subs[reqs[c].id] = None,
           ~StoredElsewhere(reqs[c].id, reqs[c].chain)
    PROVE  Diverged' \subseteq Diverged
<1> SUFFICES ASSUME NEW id, id = reqs[c].id, NEW chain, chain = reqs[c].chain
             PROVE  Diverged' \subseteq Diverged
  OBVIOUS
<1>1. reqs[c].at = "remove" /\ db' = Written(id, chain, None) /\ UNCHANGED boot
  BY DEF Remove
<1>2. Ready /\ TypeOK /\ id \in Ids /\ chain \in Chains
  BY <1>1, ServedWhenReady, RequestLemma, TypeLemma DEF SwitchInv
<1>3. Stored(id)' = None /\ \A i \in Ids \ {id} : Stored(i)' = Stored(i)
  BY <1>1, <1>2, WrittenStored
<1>4. DescOf(subs[id]) = None
  BY DEF DescOf
<1>5. \A i \in Ids \ {id} : ~Removes(reqs[c], i)
  BY DEF Removes
<1>6. Goes(c, subs)
  BY RemoveStep
<1> QED BY <1>1, <1>2, <1>3, <1>4, <1>5, <1>6, GoesAgreeing, TypeLemma

LEMMA SaveAgrees ==
    ASSUME SwitchInv, NEW c \in Clients, Save(c), subs[reqs[c].id] # None,
           ~StoredElsewhere(reqs[c].id, reqs[c].desc.origin)
    PROVE  Diverged' \subseteq Diverged
<1> SUFFICES ASSUME NEW id, id = reqs[c].id, NEW d, d = reqs[c].desc
             PROVE  Diverged' \subseteq Diverged
  OBVIOUS
<1>1. /\ reqs[c].at = "save" /\ db' = Written(id, d.origin, d) /\ UNCHANGED boot
      /\ subs' = [subs EXCEPT ![id] = IF @ = None THEN None ELSE Updated(@, d, reqs[c].ops)]
  BY DEF Save
<1>2. Ready /\ TypeOK /\ id \in Ids /\ d \in Descs /\ subs \in Handlers
  BY <1>1, ServedWhenReady, RequestLemma, TypeLemma DEF SwitchInv
<1>3. Stored(id)' = d /\ \A i \in Ids \ {id} : Stored(i)' = Stored(i)
  BY <1>1, <1>2, DescLemma, WrittenStored
<1>4. DescOf(subs'[id]) = d /\ \A i \in Ids \ {id} : subs'[i] = subs[i]
  <2>1. Updated(subs[id], d, reqs[c].ops) # None /\ Updated(subs[id], d, reqs[c].ops).desc = d
    BY <1>2, UpdatedType DEF Handlers
  <2>2. subs'[id] = Updated(subs[id], d, reqs[c].ops) /\ \A i \in Ids \ {id} : subs'[i] = subs[i]
    BY <1>1, <1>2 DEF Handlers
  <2> QED BY <2>1, <2>2 DEF DescOf
<1>5. \A i \in Ids : ~Removes(reqs[c], i)
  BY <1>1 DEF Removes
<1>6. Goes(c, subs') /\ subs' \in Handlers
  BY SaveStep, TypeLemmaNext DEF SwitchInv
<1>7. \A i \in Ids : \/ subs'[i] = subs[i] /\ Stored(i)' = Stored(i) /\ ~Removes(reqs[c], i)
                     \/ DescOf(subs'[i]) = Stored(i)'
  BY <1>3, <1>4, <1>5
<1> QED BY <1>1, <1>2, <1>6, <1>7, GoesAgreeing

LEMMA StreamAgrees ==
    ASSUME StreamStep
    PROVE  Diverged' \subseteq Diverged
<1>1. UNCHANGED <<db, reqs, boot>>
  BY DEF StreamStep
<1>2. \A i \in Ids : Stored(i)' = Stored(i)
  BY <1>1, StoredKept
<1>3. \A i \in Ids : DescOf(subs'[i]) = DescOf(subs[i])
  BY DEF StreamStep, DescOf
<1>4. \A i \in Ids : Agrees(i)' <=> Agrees(i)
  BY <1>1, <1>2, <1>3 DEF Agrees, DescOf
<1>5. Ready' <=> Ready
  BY <1>1 DEF Ready
<1> QED BY <1>4, <1>5, DivergedLemma, DivergedLemmaNext

LEMMA RestartAgrees ==
    ASSUME Restart
    PROVE  Diverged' \subseteq Diverged
<1>1. boot' = 1 /\ \A i \in Ids : subs'[i] = None
  BY DEF Restart
<1>2. CASE ~Ready'
  BY <1>2, DivergedLemmaNext
<1>3. CASE Ready'
  <2>1. DOMAIN ChainOrder = {}
    BY <1>1, <1>3, Positions DEF Ready
  <2>2. \A i \in Ids : Stored(i)' = None
    BY <2>1 DEF Stored, Exists, Families
  <2>3. \A i \in Ids : Agrees(i)'
    BY <1>1, <2>2 DEF Agrees, DescOf
  <2> QED BY <2>3, DivergedLemmaNext
<1> QED BY <1>2, <1>3

\* An id stored for one origin is found there.
LEMMA OnlyFamily ==
    ASSUME NEW id \in Ids, NEW n \in Families(id), ~(Cardinality(Families(id)) > 1)
    PROVE  Stored(id) = db[id][ChainOrder[n]] /\ \A m \in Families(id) : m = n
<1>1. IsFiniteSet(Families(id))
  <2>1. IsFiniteSet(1..Len(ChainOrder)) /\ Families(id) \in SUBSET (1..Len(ChainOrder))
    BY Positions, FS_Interval DEF Families
  <2> QED BY <2>1, FS_Subset
<1>2. ASSUME NEW m \in Families(id), m # n PROVE FALSE
  <2>1. {m, n} \in SUBSET Families(id) /\ Cardinality({m, n}) = 2
    <3>1. Cardinality({n}) = 1 /\ IsFiniteSet({n})
      BY FS_Singleton
    <3>2. m \notin {n} /\ {n} \cup {m} = {m, n}
      BY <1>2
    <3>3. Cardinality({n} \cup {m}) = Cardinality({n}) + 1
      BY <3>1, <3>2, FS_AddElement
    <3> QED BY <3>1, <3>2, <3>3
  <2>2. Cardinality({m, n}) <= Cardinality(Families(id)) /\ Cardinality(Families(id)) \in Nat
    BY <1>1, <2>1, FS_Subset, FS_CardinalityType
  <2> QED BY <2>1, <2>2
<1>3. Exists(id)
  BY DEF Exists
<1>4. FamilyOf(id) = ChainOrder[n]
  BY <1>2, <1>3, FamilyLemma
<1> QED BY <1>2, <1>3, <1>4 DEF Stored

\* What is loaded last is what is stored, where it is stored for one origin.
LEMMA BootAgrees ==
    ASSUME SwitchInv, Boot
    PROVE  \A id \in Diverged' : Cardinality(Families(id)) > 1
<1> SUFFICES ASSUME NEW id \in Ids, Ready', ~Agrees(id)', ~(Cardinality(Families(id)) > 1)
             PROVE  FALSE
  BY DivergedLemmaNext
<1>1. /\ ~Ready /\ boot \in DOMAIN ChainOrder /\ boot' = boot + 1 /\ db' = db
      /\ id \in Loaded => subs'[id] # None /\ subs'[id].desc = db[id][ChainOrder[boot]]
      /\ id \notin Loaded => subs'[id] = subs[id]
  BY BootLemma
<1>2. \A n \in DOMAIN ChainOrder : n < boot \/ n = boot
  BY <1>1, Positions DEF Ready
<1>3. DescOf(subs'[id]) # Stored(id)
  BY <1>1, StoredKept DEF Agrees, DescOf
<1>4. CASE id \in Loaded
  <2>1. boot \in Families(id)
    BY <1>1, <1>4 DEF Families, Loaded
  <2> QED BY <1>1, <1>3, <1>4, <2>1, OnlyFamily DEF DescOf
<1>5. CASE id \notin Loaded
  <2>1. db[id][ChainOrder[boot]] = None /\ subs'[id] = subs[id]
    BY <1>1, <1>5 DEF Loaded
  <2>2. CASE subs[id] = None
    <3>1. \A n \in DOMAIN ChainOrder : db[id][ChainOrder[n]] = None
      BY <1>1, <1>2, <2>1, <2>2 DEF SwitchInv, BootFits
    <3>2. Stored(id) = None
      BY <3>1 DEF Stored, Exists, Families
    <3> QED BY <1>3, <2>1, <2>2, <3>2 DEF DescOf
  <2>3. CASE subs[id] # None
    <3>1. PICK n \in DOMAIN ChainOrder : db[id][ChainOrder[n]] = subs[id].desc
      BY <1>1, <2>3 DEF SwitchInv, BootFits
    <3>2. subs[id].desc # None
      BY <2>3, DescLemma, TypeLemma DEF SwitchInv, Handlers, Handler
    <3>3. n \in Families(id)
      BY <3>1, <3>2 DEF Families
    <3> QED BY <1>3, <2>1, <2>3, <3>1, <3>3, OnlyFamily DEF DescOf
  <2> QED BY <2>2, <2>3
<1> QED BY <1>4, <1>5

DivergesBy ==
    \/ Diverged' \subseteq Diverged
    \/ \E c \in Clients :
           LET r == reqs[c]
           IN  \/ InsertRaces(c)
               \/ Save(c) /\ (subs[r.id] = None \/ StoredElsewhere(r.id, r.desc.origin))
               \/ FindToRemove(c) /\ subs[r.id] # None
               \/ Remove(c) /\ (subs[r.id] # None \/ StoredElsewhere(r.id, r.chain))
    \/ Boot /\ \A id \in Diverged' : Cardinality(Families(id)) > 1

LEMMA StepsDiverge ==
    ASSUME SwitchInv, [Next]_vars
    PROVE  DivergesBy
<1>1. CASE UNCHANGED vars
  <2>1. UNCHANGED <<db, subs, reqs, boot>>
    BY <1>1 DEF vars, memory
  <2>2. Diverged' = Diverged
    BY <2>1 DEF Diverged, Ready, Exists, Families, FamilyOf
  <2> QED BY <2>2 DEF DivergesBy
<1>2. ASSUME NEW c \in Clients, Ask(c) \/ Serve(c)
      PROVE  DivergesBy
  <2>1. CASE Ask(c) \/ CheckExists(c) \/ \E ops \in PatchOps : GetToPatch(c, ops)
    BY <2>1, ReadsAgree DEF DivergesBy
  <2>2. CASE Insert(c)
    BY <2>2, InsertAgrees DEF DivergesBy
  <2>3. CASE Cleared(c)
    BY <2>3, ClearedAgrees DEF DivergesBy
  <2>4. CASE FindToRemove(c)
    BY <2>4, FindToRemoveAgrees DEF DivergesBy
  <2>5. CASE Remove(c)
    BY <2>5, RemoveAgrees DEF DivergesBy
  <2>6. CASE Save(c)
    BY <2>6, SaveAgrees DEF DivergesBy
  <2> QED BY <1>2, <2>1, <2>2, <2>3, <2>4, <2>5, <2>6 DEF Serve
<1>3. CASE (\E id \in Ids : StreamFails(id)) \/ (\E s \in orphans : OrphanFails(s)) \/ RunTimers \/ Crash
  <2>1. StreamStep \/ Restart
    BY <1>3, StreamFailsStep, OrphanFailsStep, TimersLemma DEF Crash
  <2> QED BY <2>1, StreamAgrees, RestartAgrees DEF DivergesBy
<1>4. CASE Boot
  BY <1>4, BootAgrees DEF DivergesBy
<1> QED BY <1>1, <1>2, <1>3, <1>4 DEF Next

\* Memory and database come to disagree in the named races only, and in their
\* aftermath (OnlyRacesDiverge; switchboard.ts:130-197, persistence/subs.ts:60-127,
\* routes.ts:113-163).
THEOREM RacesDiverge == Spec => OnlyRacesDiverge
<1>1. SwitchInv /\ [Next]_vars => [DivergesBy]_vars
  BY StepsDiverge
<1>2. [][DivergesBy]_vars => OnlyRacesDiverge
  BY PTL DEF OnlyRacesDiverge, DivergesBy
<1> QED BY <1>1, <1>2, SwitchInit, SwitchInductive, PTL DEF Spec
=============================================================================
