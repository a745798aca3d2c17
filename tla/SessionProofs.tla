--------------------------- MODULE SessionProofs ---------------------------
(***************************************************************************)
(* Proofs about Session, for every set of clients and of subscriptions,    *)
(* whatever the clients ask for and whatever the limits are.               *)
(***************************************************************************)
EXTENDS Session, FiniteSetTheorems, SequenceTheorems, SequencesExt,
        WellFoundedInduction, TLAPS

Ids == Persistent \cup Clients
Asked == {"token", "request", "more"}
Written == {"subscription", "invalid", "id", "xcm"}

(* Operators *)

\* The server's module reaches the library's operators through its instance.
LEMMA Library ==
    /\ S!Ids = Ids /\ S!Enabled = "websocket" /\ S!Disabled = "other"
    /\ S!Reply = {"subscription", "invalid", "id"}
    /\ S!Targets = {OnDemand} \cup Ids
    /\ \A x : S!IsEphemeral(x) <=> x \in Clients
    /\ \A s : S!ToSet(s) = ToSet(s)
    /\ \A s : S!Cardinality(s) = Cardinality(s)
<1>1. \A s : S!ToSet(s) = ToSet(s)
  BY DEF S!ToSet, ToSet
<1>2. \A s : S!Cardinality(s) = Cardinality(s)
  BY DEF S!Cardinality, Cardinality
<1> QED
  BY <1>1, <1>2 DEF S!Ids, Ids, S!Enabled, S!Disabled, S!Reply, S!Targets, S!IsEphemeral

\* What an appended sequence holds.
LEMMA AppendToSet ==
    ASSUME NEW T, NEW s \in Seq(T), NEW e \in T
    PROVE  Append(s, e) \in Seq(T) /\ ToSet(Append(s, e)) = ToSet(s) \cup {e}
<1> DEFINE a == Append(s, e)
<1>1. /\ a \in Seq(T) /\ Len(a) = Len(s) + 1 /\ Len(s) \in Nat
      /\ \A i \in 1..Len(s) : a[i] = s[i]
      /\ a[Len(s) + 1] = e
  BY AppendProperties
<1>2. DOMAIN a = 1..(Len(s) + 1) /\ DOMAIN s = 1..Len(s)
  BY <1>1
<1> HIDE DEF a
<1>3. ToSet(a) = ToSet(s) \cup {e}
  BY <1>1, <1>2 DEF ToSet
<1> QED BY <1>1, <1>3 DEF a

\* A set of positions has a first one.
LEMMA FirstPosition ==
    ASSUME NEW I \in SUBSET Nat, I # {}
    PROVE  S!Min(I) \in I
<1>1. PICK x \in I : \A y \in I : ~(<<y, x>> \in OpToRel(<, Nat))
  BY NatLessThanWellFounded, WFMin
<1>2. \A y \in I : x <= y
  <2> SUFFICES ASSUME NEW y \in I PROVE ~(y < x)
    OBVIOUS
  <2>1. y < x => <<y, x>> \in OpToRel(<, Nat)
    BY DEF OpToRel
  <2> QED BY <1>1, <2>1
<1> QED BY <1>2 DEF S!Min

\* Removing an element leaves a sequence of some of the others.
LEMMA RemoveFirstToSet ==
    ASSUME NEW T, NEW s \in Seq(T), NEW e
    PROVE  S!RemoveFirst(s, e) \in Seq(T) /\ ToSet(S!RemoveFirst(s, e)) \subseteq ToSet(s)
<1>1. CASE \E i \in 1..Len(s) : s[i] = e
  <2> DEFINE I == {i \in 1..Len(s) : s[i] = e}
             n == S!Min(I)
             b == SubSeq(s, 1, n - 1)
             d == SubSeq(s, n + 1, Len(s))
  <2>1. S!SelectInSeq(s, LAMBDA v : v = e) = n
    BY <1>1 DEF S!SelectInSeq
  <2>2. S!RemoveFirst(s, e) = b \o d
    BY <1>1, <2>1 DEF S!RemoveFirst, S!RemoveAt
  <2>3. n \in 1..Len(s) /\ Len(s) \in Nat
    <3>1. I \in SUBSET Nat /\ I # {} /\ I \subseteq 1..Len(s)
      BY <1>1
    <3> HIDE DEF I
    <3>2. n \in I
      BY <3>1, FirstPosition
    <3> HIDE DEF n
    <3> QED BY <3>1, <3>2, LenProperties
  <2> HIDE DEF n
  <2>4. \A i \in 1..Len(s) : s[i] \in T /\ s[i] \in ToSet(s)
    BY DEF ToSet
  <2>5. b \in Seq(ToSet(s)) /\ d \in Seq(ToSet(s)) /\ b \in Seq(T) /\ d \in Seq(T)
    BY <2>3, <2>4, SubSeqProperties
  <2> HIDE DEF b, d
  <2>6. b \o d \in Seq(ToSet(s)) /\ b \o d \in Seq(T)
    BY <2>5, ConcatProperties
  <2>7. \A q \in Seq(ToSet(s)) : ToSet(q) \subseteq ToSet(s)
    BY DEF ToSet
  <2> QED BY <2>2, <2>6, <2>7
<1>2. CASE ~\E i \in 1..Len(s) : s[i] = e
  BY <1>2 DEF S!RemoveFirst
<1> QED BY <1>1, <1>2
----------------------------------------------------------------------------
(* The server *)

ServerTypes ==
    /\ sock \in [Clients -> {"unused", "open", "closing", "closed"}]
    /\ target \in [Clients -> {OnDemand} \cup Ids]
    /\ up \in [Clients -> Seq(Asked)] /\ down \in [Clients -> Seq(Written)]
    /\ deferred \in [Clients -> Seq(Asked)]
    /\ stage \in [Clients -> {"none", "accepted", "data", "served", "refused"}]
    /\ resolved \in [Clients -> Clients \cup {None}]
    /\ listening \in [Clients -> Ids \cup {None}]
    /\ subs \in [Ids -> {None, "websocket", "other"}]
    /\ conns \in [Ids -> Seq(Clients)]
    /\ clearing \subseteq [id : Ids, by : Clients \cup {Http}]

\* How far a socket is: messages are put off, and a subscription of its own is
\* resolved, for on-demand sockets that were not refused; it listens for its close
\* once it is served or has asked; what it subscribed it resolved before.
StageFits(c) ==
    /\ deferred[c] # <<>> \/ resolved[c] # None => stage[c] = "data"
    /\ stage[c] = "data" => target[c] = OnDemand
    /\ listening[c] # None => stage[c] = "served" \/ resolved[c] # None
    /\ subs[c] # None => resolved[c] # None

\* An ephemeral subscription that is being cleared has no handler, and its owner
\* does not subscribe again.
ClearsFit ==
    \A u \in clearing : u.id \in Clients => subs[u.id] = None /\ resolved[u.id] # None

\* A socket that did not close is registered where it listens for its close, and
\* nowhere else.
Registered ==
    \A id \in Ids : \A c \in ToSet(conns[id]) : sock[c] # "closed" => listening[c] = id

ServerInv ==
    /\ ServerTypes
    /\ \A c \in Clients : StageFits(c)
    /\ ClearsFit
    /\ Registered

LEMMA ServerInit == Init => ServerInv
<1> SUFFICES ASSUME Init PROVE ServerInv
  OBVIOUS
<1>1. /\ sock = [c \in Clients |-> "unused"] /\ target = [c \in Clients |-> OnDemand]
      /\ up = [c \in Clients |-> <<>>] /\ down = up /\ deferred = up
      /\ stage = [c \in Clients |-> "none"]
      /\ resolved = [c \in Clients |-> None] /\ listening = resolved
      /\ subs = [id \in Ids |-> IF id \in Persistent THEN "websocket" ELSE None]
      /\ conns = [id \in Ids |-> <<>>] /\ clearing = {}
  BY Library DEF Init, S!Init
<1>2. ServerTypes
  BY <1>1 DEF ServerTypes
<1>3. \A c \in Clients : StageFits(c)
  BY <1>1, SessionAssumption DEF StageFits, Ids
<1>4. Registered
  BY <1>1 DEF Registered, ToSet
<1> QED BY <1>1, <1>2, <1>3, <1>4 DEF ServerInv, ClearsFit

\* What the library sends and takes.
LEMMA MessageTypes ==
    ASSUME ServerTypes, NEW c \in Clients
    PROVE  /\ \A m \in Asked : C!Sent(c, m) => up' \in [Clients -> Seq(Asked)]
           /\ C!Arrived(c) => down' \in [Clients -> Seq(Written)]
<1>1. ASSUME NEW m \in Asked, C!Sent(c, m) PROVE up' \in [Clients -> Seq(Asked)]
  <2>1. Append(up[c], m) \in Seq(Asked)
    BY AppendProperties DEF ServerTypes
  <2> QED BY <1>1, <2>1 DEF C!Sent, ServerTypes
<1>2. ASSUME C!Arrived(c) PROVE down' \in [Clients -> Seq(Written)]
  <2>1. Tail(down[c]) \in Seq(Written)
    BY <1>2, HeadTailProperties DEF C!Arrived, ServerTypes
  <2> QED BY <1>2, <2>1 DEF C!Arrived, ServerTypes
<1> QED BY <1>1, <1>2

\* The library's steps leave sockets and subscriptions alone.
LEMMA LibraryStep ==
    ASSUME ServerInv, NEW c \in Clients, C!Receives(c) \/ C!SendMore(c), UNCHANGED server
    PROVE  ServerInv' /\ UNCHANGED <<sock, target>>
<1>1. UNCHANGED <<sock, target, server>>
  BY DEF C!Receives, C!HandleText, C!HandleBlob, C!TextReady, C!SendMore
<1>2. up' \in [Clients -> Seq(Asked)]
  BY MessageTypes
     DEF C!Receives, C!HandleText, C!HandleBlob, C!TextReady, C!SendMore, C!Runs,
         ServerInv, ServerTypes, Asked
<1>3. down' \in [Clients -> Seq(Written)]
  BY MessageTypes
     DEF C!Receives, C!HandleText, C!HandleBlob, C!TextReady, C!SendMore, ServerInv, ServerTypes
<1>4. UNCHANGED <<deferred, stage, resolved, listening, subs, conns, clearing>>
  BY <1>1 DEF server
<1> QED
  BY <1>1, <1>2, <1>3, <1>4 DEF ServerInv, ServerTypes, StageFits, ClearsFit, Registered

\* A client connects.
LEMMA ConnectStep ==
    ASSUME ServerInv, NEW c \in Clients, NEW t \in Goals[c], Connect(c, t)
    PROVE  ServerInv'
<1>1. /\ sock[c] = "unused" /\ sock' = [sock EXCEPT ![c] = "open"]
      /\ target' = [target EXCEPT ![c] = t] /\ t \in {OnDemand} \cup Ids
      /\ stage[c] = "none" /\ stage' = [stage EXCEPT ![c] = "accepted"]
      /\ UNCHANGED <<down, deferred, resolved, listening, conns, subs, clearing>>
  BY SessionAssumption DEF Connect, C!Open, S!Accept, S!board, Ids
<1>2. up' \in [Clients -> Seq(Asked)]
  BY MessageTypes DEF Connect, C!Open, ServerInv, ServerTypes, Asked
<1>3. ServerTypes'
  BY <1>1, <1>2 DEF ServerInv, ServerTypes
<1>4. \A d \in Clients : StageFits(d)'
  BY <1>1 DEF ServerInv, ServerTypes, StageFits
<1>5. Registered'
  <2>1. \A id \in Ids : ToSet(conns[id]) \subseteq Clients
    BY DEF ServerInv, ServerTypes, ToSet
  <2> QED BY <1>1, <2>1 DEF ServerInv, ServerTypes, Registered
<1> QED BY <1>1, <1>3, <1>4, <1>5 DEF ServerInv, ClearsFit

\* What the server writes and closes.
LEMMA WriteTypes ==
    ASSUME ServerTypes
    PROVE  /\ \A cs, m : m \in Written /\ S!Write(cs, m) => down' \in [Clients -> Seq(Written)]
           /\ \A c \in Clients : S!ServerCloses(c) =>
                 /\ sock' \in [Clients -> {"unused", "open", "closing", "closed"}]
                 /\ \A d \in Clients : /\ sock'[d] = "closed" <=> sock[d] = "closed"
                                       /\ sock'[d] = "open" => sock[d] = "open" /\ d # c
<1>1. ASSUME NEW cs, NEW m \in Written, S!Write(cs, m)
      PROVE  down' \in [Clients -> Seq(Written)]
  <2>1. \A d \in Clients : Append(down[d], m) \in Seq(Written) /\ down[d] \in Seq(Written)
    BY AppendProperties DEF ServerTypes
  <2> QED BY <1>1, <2>1 DEF S!Write
<1>2. ASSUME NEW c \in Clients, S!ServerCloses(c)
      PROVE  /\ sock' \in [Clients -> {"unused", "open", "closing", "closed"}]
             /\ \A d \in Clients : /\ sock'[d] = "closed" <=> sock[d] = "closed"
                                   /\ sock'[d] = "open" => sock[d] = "open" /\ d # c
  BY <1>2 DEF S!ServerCloses, ServerTypes
<1> QED BY <1>1, <1>2

\* Registering a socket that listens for nothing yet.
LEMMA AddSubscriberLemma ==
    ASSUME ServerInv, NEW c \in Clients, NEW id \in Ids, S!AddSubscriber(c, id),
           listening[c] = None,
           \A d \in Clients : sock'[d] = "closed" <=> sock[d] = "closed"
    PROVE  /\ conns' \in [Ids -> Seq(Clients)]
           /\ listening' \in [Clients -> Ids \cup {None}]
           /\ listening'[c] = id /\ \A d \in Clients \ {c} : listening'[d] = listening[d]
           /\ \A x \in Ids : ToSet(conns'[x]) = ToSet(conns[x]) \cup IF x = id THEN {c} ELSE {}
           /\ Registered'
<1>1. /\ listening' = [listening EXCEPT ![c] = id]
      /\ conns' = [conns EXCEPT ![id] = Append(conns[id], c)]
  BY DEF S!AddSubscriber
<1>2. /\ Append(conns[id], c) \in Seq(Clients)
      /\ ToSet(Append(conns[id], c)) = ToSet(conns[id]) \cup {c}
  BY AppendToSet DEF ServerInv, ServerTypes
<1>3. conns' \in [Ids -> Seq(Clients)]
  BY <1>1, <1>2 DEF ServerInv, ServerTypes
<1>4. /\ listening' \in [Clients -> Ids \cup {None}]
      /\ listening'[c] = id /\ \A d \in Clients \ {c} : listening'[d] = listening[d]
  BY <1>1 DEF ServerInv, ServerTypes
<1>5. ASSUME NEW x \in Ids
      PROVE  ToSet(conns'[x]) = ToSet(conns[x]) \cup IF x = id THEN {c} ELSE {}
  <2>1. conns'[x] = IF x = id THEN Append(conns[id], c) ELSE conns[x]
    BY <1>1 DEF ServerInv, ServerTypes
  <2> QED BY <1>2, <2>1
<1>6. Registered'
  <2> SUFFICES ASSUME NEW x \in Ids, NEW d \in ToSet(conns'[x]), sock'[d] # "closed"
               PROVE  listening'[d] = x
    BY DEF Registered
  <2>1. \A y \in Ids : ToSet(conns[y]) \subseteq Clients
    BY DEF ServerInv, ServerTypes, ToSet
  <2>2. d \in Clients
    BY <1>5, <2>1
  <2>3. CASE d \in ToSet(conns[x])
    <3>1. listening[d] = x
      BY <2>2, <2>3 DEF ServerInv, Registered
    <3>2. d # c
      BY <3>1, SessionAssumption DEF Ids
    <3> QED BY <1>4, <2>2, <3>1, <3>2
  <2>4. CASE d \notin ToSet(conns[x])
    BY <1>4, <1>5, <2>4
  <2> QED BY <2>3, <2>4
<1> QED BY <1>3, <1>4, <1>5, <1>6

\* The callbacks that serve a socket.
LEMMA ServeStep ==
    ASSUME ServerInv, NEW c \in Clients, S!Refuse(c) \/ S!Listen(c) \/ S!Attach(c)
    PROVE  ServerInv'
<1>0. /\ stage[c] = "accepted" /\ resolved[c] = None /\ listening[c] = None
      /\ UNCHANGED <<target, up, down, deferred, resolved, subs, clearing>>
  BY DEF ServerInv, ServerTypes, StageFits, S!Refuse, S!Listen, S!Attach, S!board, S!net
<1>1. CASE S!Refuse(c)
  <2>1. /\ stage' = [stage EXCEPT ![c] = "refused"] /\ S!ServerCloses(c)
        /\ UNCHANGED <<listening, conns>>
    BY <1>1 DEF S!Refuse, S!Served
  <2>2. ServerTypes'
    BY <1>0, <2>1, WriteTypes DEF ServerInv, ServerTypes
  <2>3. \A d \in Clients : StageFits(d)'
    BY <1>0, <2>1 DEF ServerInv, ServerTypes, StageFits
  <2>4. Registered'
    <3>1. \A id \in Ids : ToSet(conns[id]) \subseteq Clients
      BY DEF ServerInv, ServerTypes, ToSet
    <3> QED BY <2>1, <3>1, WriteTypes DEF ServerInv, Registered
  <2> QED BY <1>0, <2>2, <2>3, <2>4 DEF ServerInv, ClearsFit
<1>2. CASE S!Listen(c)
  <2>1. /\ stage' = [stage EXCEPT ![c] = "data"] /\ target[c] = OnDemand
        /\ UNCHANGED <<sock, listening, conns>>
    BY <1>2 DEF S!Listen, S!Served, S!net
  <2>2. ServerTypes'
    BY <1>0, <2>1 DEF ServerInv, ServerTypes
  <2>3. \A d \in Clients : StageFits(d)'
    BY <1>0, <2>1 DEF ServerInv, ServerTypes, StageFits
  <2> QED BY <1>0, <2>1, <2>2, <2>3 DEF ServerInv, ClearsFit, Registered
<1>3. CASE S!Attach(c)
  <2>1. /\ stage' = [stage EXCEPT ![c] = "served"] /\ target[c] \in Ids
        /\ S!AddSubscriber(c, target[c]) /\ sock' = sock
    BY <1>3, Library DEF S!Attach, S!Served, S!net
  <2>2. /\ conns' \in [Ids -> Seq(Clients)] /\ listening' \in [Clients -> Ids \cup {None}]
        /\ \A d \in Clients \ {c} : listening'[d] = listening[d]
        /\ Registered'
    BY <1>0, <2>1, AddSubscriberLemma
  <2>3. ServerTypes'
    BY <1>0, <2>1, <2>2 DEF ServerInv, ServerTypes
  <2>4. \A d \in Clients : StageFits(d)'
    BY <1>0, <2>1, <2>2 DEF ServerInv, ServerTypes, StageFits
  <2> QED BY <1>0, <2>2, <2>3, <2>4 DEF ServerInv, ClearsFit
<1> QED BY <1>1, <1>2, <1>3

\* A message of an on-demand socket is put off.
LEMMA DataStep ==
    ASSUME ServerInv, NEW c \in Clients, S!Data(c)
    PROVE  ServerInv'
<1>1. /\ stage[c] = "data" /\ up[c] # <<>>
      /\ deferred' = [deferred EXCEPT ![c] = Append(deferred[c], Head(up[c]))]
      /\ up' = [up EXCEPT ![c] = Tail(up[c])]
      /\ UNCHANGED <<sock, target, down, stage, resolved, listening, conns, subs, clearing>>
  BY DEF S!Data, S!board
<1>2. Head(up[c]) \in Asked /\ Tail(up[c]) \in Seq(Asked)
  BY <1>1, HeadTailProperties DEF ServerInv, ServerTypes
<1>3. Append(deferred[c], Head(up[c])) \in Seq(Asked)
  BY <1>2, AppendProperties DEF ServerInv, ServerTypes
<1>4. ServerTypes'
  BY <1>1, <1>2, <1>3 DEF ServerInv, ServerTypes
<1>5. \A d \in Clients : StageFits(d)'
  BY <1>1 DEF ServerInv, ServerTypes, StageFits
<1> QED BY <1>1, <1>4, <1>5 DEF ServerInv, ClearsFit, Registered

\* A callback takes the oldest message put off.
LEMMA CallbackLemma ==
    ASSUME ServerInv, NEW c \in Clients, S!Callback(c)
    PROVE  /\ deferred' \in [Clients -> Seq(Asked)]
           /\ stage[c] = "data" /\ target[c] = OnDemand
           /\ \A d \in Clients \ {c} : deferred'[d] = deferred[d]
<1>1. deferred[c] # <<>> /\ deferred' = [deferred EXCEPT ![c] = Tail(deferred[c])]
  BY DEF S!Callback
<1>2. Tail(deferred[c]) \in Seq(Asked)
  BY <1>1, HeadTailProperties DEF ServerInv, ServerTypes
<1> QED BY <1>1, <1>2 DEF ServerInv, ServerTypes, StageFits

\* The callbacks of messages that do not subscribe.
LEMMA AnswerStep ==
    ASSUME ServerInv, NEW c \in Clients, S!AnswerId(c) \/ S!AnswerInvalid(c)
    PROVE  ServerInv'
<1>1. /\ S!Callback(c) /\ down' \in [Clients -> Seq(Written)]
      /\ UNCHANGED <<sock, target, up, stage, resolved, listening, conns, subs, clearing>>
  BY WriteTypes DEF S!AnswerId, S!AnswerInvalid, S!board, ServerInv, Written
<1>2. ServerTypes'
  BY <1>1, CallbackLemma DEF ServerInv, ServerTypes
<1>3. \A d \in Clients : StageFits(d)'
  BY <1>1, CallbackLemma DEF ServerInv, StageFits
<1> QED BY <1>1, <1>2, <1>3 DEF ServerInv, ClearsFit, Registered

\* A request is resolved once: its socket listened for nothing before.
LEMMA RequestedLemma ==
    ASSUME ServerInv, NEW c \in Clients, S!Requested(c),
           \A d \in Clients : sock'[d] = "closed" <=> sock[d] = "closed"
    PROVE  /\ S!Callback(c) /\ resolved[c] = None /\ listening[c] = None /\ subs[c] = None
           /\ resolved' \in [Clients -> Clients \cup {None}] /\ resolved'[c] = c
           /\ \A d \in Clients \ {c} : resolved'[d] = resolved[d]
           /\ conns' \in [Ids -> Seq(Clients)]
           /\ listening' \in [Clients -> Ids \cup {None}]
           /\ listening'[c] = c /\ \A d \in Clients \ {c} : listening'[d] = listening[d]
           /\ \A x \in Ids : ToSet(conns'[x]) = ToSet(conns[x]) \cup IF x = c THEN {c} ELSE {}
           /\ Registered'
<1>1. /\ S!Callback(c) /\ resolved[c] = None /\ S!AddSubscriber(c, c)
      /\ resolved' = [resolved EXCEPT ![c] = c]
  BY DEF S!Requested
<1>2. stage[c] = "data"
  BY <1>1, CallbackLemma
<1>3. listening[c] = None /\ subs[c] = None /\ c \in Ids
  BY <1>1, <1>2 DEF ServerInv, ServerTypes, StageFits, Ids
<1>4. /\ resolved' \in [Clients -> Clients \cup {None}] /\ resolved'[c] = c
      /\ \A d \in Clients \ {c} : resolved'[d] = resolved[d]
  BY <1>1 DEF ServerInv, ServerTypes
<1> QED BY <1>1, <1>3, <1>4, AddSubscriberLemma

\* The callback of a request, whether it is subscribed or fails.
LEMMA SubscribeStep ==
    ASSUME ServerInv, NEW c \in Clients, S!Subscribe(c) \/ S!SubscribeFails(c)
    PROVE  ServerInv'
<1>1. CASE S!Subscribe(c)
  <2>1. /\ S!Requested(c) /\ subs' = [subs EXCEPT ![c] = "websocket"]
        /\ UNCHANGED <<sock, target, up, stage, clearing>>
    BY <1>1, Library DEF S!Subscribe
  <2>2. down' \in [Clients -> Seq(Written)]
    BY <1>1, WriteTypes DEF S!Subscribe, ServerInv, Written
  <2>3. S!Callback(c) /\ c \in Ids /\ None # c
    BY <2>1, SessionAssumption DEF S!Requested, Ids
  <2>4. ServerTypes'
    BY <2>1, <2>2, <2>3, RequestedLemma, CallbackLemma DEF ServerInv, ServerTypes
  <2>5. \A d \in Clients : StageFits(d)'
    BY <2>1, <2>3, RequestedLemma, CallbackLemma DEF ServerInv, ServerTypes, StageFits
  <2>6. ClearsFit'
    BY <2>1, RequestedLemma, SessionAssumption DEF ServerInv, ServerTypes, ClearsFit, Ids
  <2> QED BY <2>1, <2>4, <2>5, <2>6, RequestedLemma DEF ServerInv
<1>2. CASE S!SubscribeFails(c)
  <2>1. /\ S!Requested(c) /\ S!ServerCloses(c)
        /\ UNCHANGED <<target, up, down, stage, subs, clearing>>
    BY <1>2 DEF S!SubscribeFails, S!board
  <2>2. S!Callback(c) /\ c \in Ids /\ None # c
    BY <2>1, SessionAssumption DEF S!Requested, Ids
  <2>3. /\ sock' \in [Clients -> {"unused", "open", "closing", "closed"}]
        /\ \A d \in Clients : sock'[d] = "closed" <=> sock[d] = "closed"
    BY <2>1, WriteTypes DEF ServerInv
  <2>4. ServerTypes'
    BY <2>1, <2>2, <2>3, RequestedLemma, CallbackLemma DEF ServerInv, ServerTypes
  <2>5. \A d \in Clients : StageFits(d)'
    <3>1. stage[c] = "data" /\ target[c] = OnDemand /\ resolved'[c] # None /\ subs[c] = None
      BY <2>1, <2>2, <2>3, RequestedLemma, CallbackLemma
    <3>2. ASSUME NEW d \in Clients \ {c}
          PROVE  /\ deferred'[d] = deferred[d] /\ resolved'[d] = resolved[d]
                 /\ listening'[d] = listening[d]
      BY <2>1, <2>2, <2>3, RequestedLemma, CallbackLemma
    <3> QED BY <2>1, <3>1, <3>2 DEF ServerInv, StageFits
  <2>6. ClearsFit'
    BY <2>1, <2>3, RequestedLemma, SessionAssumption DEF ServerInv, ServerTypes, ClearsFit
  <2> QED BY <2>1, <2>3, <2>4, <2>5, <2>6, RequestedLemma DEF ServerInv
<1> QED BY <1>1, <1>2

\* A subscription that ends is cleared once.
LEMMA UnsubscribeLemma ==
    ASSUME ServerInv, NEW id \in Ids, NEW by \in Clients \cup {Http}, S!Unsubscribe(id, by)
    PROVE  /\ subs' \in [Ids -> {None, "websocket", "other"}]
           /\ clearing' \subseteq [id : Ids, by : Clients \cup {Http}]
           /\ \A x \in Ids : subs'[x] = IF x = id THEN None ELSE subs[x]
           /\ UNCHANGED resolved => ClearsFit'
<1>1. /\ subs' = [subs EXCEPT ![id] = None]
      /\ clearing' \subseteq clearing \cup {[id |-> id, by |-> by]}
      /\ subs[id] = None => clearing' = clearing
  BY DEF S!Unsubscribe
<1>2. \A x \in Ids : subs'[x] = IF x = id THEN None ELSE subs[x]
  BY <1>1 DEF ServerInv, ServerTypes
<1>3. /\ subs' \in [Ids -> {None, "websocket", "other"}]
      /\ clearing' \subseteq [id : Ids, by : Clients \cup {Http}]
  BY <1>1 DEF ServerInv, ServerTypes
<1>4. ASSUME UNCHANGED resolved PROVE ClearsFit'
  <2> SUFFICES ASSUME NEW u \in clearing', u.id \in Clients
               PROVE  subs'[u.id] = None /\ resolved[u.id] # None
    BY <1>4 DEF ClearsFit
  <2>1. CASE u \in clearing
    BY <1>2, <2>1 DEF ServerInv, ClearsFit, Ids
  <2>2. CASE u \notin clearing
    <3>1. u.id = id /\ subs[id] # None
      BY <1>1, <2>2
    <3> QED BY <1>2, <3>1 DEF ServerInv, StageFits
  <2> QED BY <2>1, <2>2
<1> QED BY <1>2, <1>3, <1>4

\* Removing a socket from those of a subscription.
LEMMA DetachedLemma ==
    ASSUME ServerTypes, NEW id \in Ids, NEW c
    PROVE  /\ S!Detached(id, c) \in [Ids -> Seq(Clients)]
           /\ \A x \in Ids : ToSet(S!Detached(id, c)[x]) \subseteq ToSet(conns[x])
           /\ \A x \in Ids \ {id} : S!Detached(id, c)[x] = conns[x]
<1>1. /\ S!RemoveFirst(conns[id], c) \in Seq(Clients)
      /\ ToSet(S!RemoveFirst(conns[id], c)) \subseteq ToSet(conns[id])
  BY RemoveFirstToSet DEF ServerTypes
<1> QED BY <1>1 DEF S!Detached, ServerTypes

\* The close event, of a socket that listens for it.
LEMMA CloseStep ==
    ASSUME ServerInv, NEW c \in Clients, S!Close(c)
    PROVE  ServerInv'
<1>1. /\ sock' = [sock EXCEPT ![c] = "closed"]
      /\ UNCHANGED <<target, up, down, stage, deferred, resolved>>
  BY DEF S!Close
<1>2. \A id \in Ids : ToSet(conns[id]) \subseteq Clients
  BY DEF ServerInv, ServerTypes, ToSet
<1>3. CASE listening[c] = None
  <2>1. UNCHANGED <<subs, clearing, conns, listening>>
    BY <1>3 DEF S!Close, S!board
  <2>2. ServerTypes'
    BY <1>1, <2>1 DEF ServerInv, ServerTypes
  <2>3. Registered'
    BY <1>1, <1>2, <2>1 DEF ServerInv, ServerTypes, Registered
  <2> QED BY <1>1, <2>1, <2>2, <2>3 DEF ServerInv, ClearsFit, StageFits
<1>4. CASE listening[c] # None
  <2> DEFINE id == listening[c]
  <2>1. id \in Ids
    BY <1>4 DEF ServerInv, ServerTypes
  <2>2. /\ listening' = [listening EXCEPT ![c] = None]
        /\ S!EndWith(c, id)
    BY <1>4 DEF S!Close
  <2> HIDE DEF id
  <2>3. /\ subs' \in [Ids -> {None, "websocket", "other"}]
        /\ clearing' \subseteq [id : Ids, by : Clients \cup {Http}]
        /\ \A x \in Ids : subs'[x] \in {subs[x], None}
        /\ ClearsFit'
    <3>1. CASE S!Unsubscribe(id, c)
      BY <1>1, <2>1, <3>1, UnsubscribeLemma
    <3>2. CASE UNCHANGED <<subs, clearing>>
      BY <1>1, <3>2 DEF ServerInv, ServerTypes, ClearsFit
    <3> QED BY <2>2, <3>1, <3>2 DEF S!EndWith, S!board
  <2>4. conns' \in [Ids -> Seq(Clients)] /\ \A x \in Ids : ToSet(conns'[x]) \subseteq ToSet(conns[x])
    <3>1. CASE conns' = S!Detached(id, c)
      BY <2>1, <3>1, DetachedLemma DEF ServerInv
    <3>2. CASE conns' = conns
      BY <3>2 DEF ServerInv, ServerTypes
    <3> QED BY <2>2, <3>1, <3>2 DEF S!EndWith
  <2>5. ServerTypes'
    BY <1>1, <2>2, <2>3, <2>4 DEF ServerInv, ServerTypes
  <2>6. \A d \in Clients : StageFits(d)'
    BY <1>1, <2>2, <2>3 DEF ServerInv, ServerTypes, StageFits, Ids
  <2>7. Registered'
    BY <1>1, <1>2, <2>2, <2>4 DEF ServerInv, ServerTypes, Registered
  <2> QED BY <2>3, <2>5, <2>6, <2>7 DEF ServerInv
<1> QED BY <1>3, <1>4

\* Clearing is done.
LEMMA ClearedStep ==
    ASSUME ServerInv, NEW u \in clearing, S!Cleared(u)
    PROVE  ServerInv'
<1>1. /\ clearing' = clearing \ {u} /\ u.id \in Ids
      /\ conns' \in {conns, S!Detached(u.id, u.by)}
      /\ UNCHANGED <<sock, target, up, down, stage, deferred, resolved, listening, subs>>
  BY DEF S!Cleared, S!net, ServerInv, ServerTypes
<1>2. conns' \in [Ids -> Seq(Clients)] /\ \A x \in Ids : ToSet(conns'[x]) \subseteq ToSet(conns[x])
  BY <1>1, DetachedLemma DEF ServerInv, ServerTypes
<1>3. ServerTypes'
  BY <1>1, <1>2 DEF ServerInv, ServerTypes
<1>4. Registered'
  BY <1>1, <1>2 DEF ServerInv, Registered
<1> QED BY <1>1, <1>3, <1>4 DEF ServerInv, StageFits, ClearsFit

\* Requests of the HTTP API, and notifications.
LEMMA ApiStep ==
    ASSUME ServerInv, NEW id \in Ids,
           S!Delete(id) \/ S!Notify(id) \/ \E ch \in {"websocket", "other"} : S!Post(id, ch)
    PROVE  ServerInv'
<1>1. UNCHANGED <<sock, target, up, stage, deferred, resolved, listening, conns>>
  BY DEF S!Delete, S!Notify, S!Post, S!net, S!server
<1>2. CASE S!Delete(id)
  <2>1. S!Unsubscribe(id, Http) /\ down' = down
    BY <1>2 DEF S!Delete, S!net
  <2>2. /\ subs' \in [Ids -> {None, "websocket", "other"}]
        /\ clearing' \subseteq [id : Ids, by : Clients \cup {Http}]
        /\ \A x \in Ids : subs'[x] = IF x = id THEN None ELSE subs[x]
        /\ ClearsFit'
    BY <1>1, <2>1, UnsubscribeLemma
  <2>3. ServerTypes'
    BY <1>1, <2>1, <2>2 DEF ServerInv, ServerTypes
  <2>4. \A d \in Clients : StageFits(d)'
    BY <1>1, <2>2 DEF ServerInv, StageFits, Ids
  <2> QED BY <1>1, <2>2, <2>3, <2>4 DEF ServerInv, Registered
<1>3. CASE S!Notify(id)
  <2>1. down' \in [Clients -> Seq(Written)] /\ UNCHANGED <<subs, clearing>>
    BY <1>3, WriteTypes DEF S!Notify, S!board, ServerInv, Written
  <2> QED BY <1>1, <2>1 DEF ServerInv, ServerTypes, StageFits, ClearsFit, Registered
<1>4. ASSUME NEW ch \in {"websocket", "other"}, S!Post(id, ch) PROVE ServerInv'
  <2>1. /\ subs' = [subs EXCEPT ![id] = ch] /\ id \notin Clients
        /\ UNCHANGED <<down, clearing>>
    BY <1>4, SessionAssumption DEF S!Post, S!net
  <2>2. ServerTypes'
    BY <1>1, <2>1 DEF ServerInv, ServerTypes
  <2>3. \A d \in Clients : subs'[d] = subs[d]
    BY <2>1 DEF ServerInv, ServerTypes, Ids
  <2> QED BY <1>1, <2>1, <2>2, <2>3 DEF ServerInv, StageFits, ClearsFit, Registered
<1> QED BY <1>2, <1>3, <1>4

\* What the server keeps of its sockets fits together at all times.
LEMMA ServerInductive ==
    /\ Init => ServerInv
    /\ ServerInv /\ [Next]_vars => ServerInv'
<1>1. ASSUME ServerInv, Next PROVE ServerInv'
  <2>1. ASSUME S!Step PROVE ServerInv'
    <3>1. ASSUME NEW c \in Clients, S!Callbacks(c) \/ S!Close(c) PROVE ServerInv'
      BY <1>1, <3>1, ServeStep, DataStep, AnswerStep, SubscribeStep, CloseStep DEF S!Callbacks
    <3> QED BY <1>1, <2>1, <3>1, ClearedStep, ApiStep, Library DEF S!Step
  <2> QED BY <1>1, <2>1, ConnectStep, LibraryStep DEF Next
<1>2. ASSUME ServerInv, UNCHANGED vars PROVE ServerInv'
  <2>1. UNCHANGED <<sock, target, up, down, deferred, stage, resolved, listening, subs, conns, clearing>>
    BY <1>2 DEF vars, net, server
  <2> QED BY <1>2, <2>1 DEF ServerInv, ServerTypes, StageFits, ClearsFit, Registered
<1> QED BY <1>1, <1>2, ServerInit
----------------------------------------------------------------------------
(* The counts *)

Listeners == {c \in Clients : listening[c] # None}
Held == {id \in Clients : subs[id] # None}
Clearings == {u \in clearing : u.id \in Clients}

\* The counts of Session, over sets that are finite.
ClientsCounted == IsFiniteSet(Listeners) /\ clientsNum = Cardinality(Listeners)
EphemeralsCounted ==
    /\ IsFiniteSet(Held) /\ IsFiniteSet(Clearings)
    /\ ephemeral = Cardinality(Held) + Cardinality(Clearings)
    /\ ephemeral <= MaxEphemeral

LEMMA CountsEnough ==
    ClientsCounted /\ EphemeralsCounted => CountsAreRight
BY Library DEF ClientsCounted, EphemeralsCounted, CountsAreRight, S!ClientsAreCounted,
   S!EphemeralsAreCounted, Listeners, Held, Clearings

LEMMA CountsInit == Init => ClientsCounted /\ EphemeralsCounted
<1> SUFFICES ASSUME Init PROVE ClientsCounted /\ EphemeralsCounted
  OBVIOUS
<1>1. /\ listening = [c \in Clients |-> None] /\ clientsNum = 0 /\ ephemeral = 0
      /\ subs = [id \in Ids |-> IF id \in Persistent THEN "websocket" ELSE None]
      /\ clearing = {}
  BY Library DEF Init, S!Init
<1>2. Listeners = {} /\ Held = {} /\ Clearings = {}
  BY <1>1, SessionAssumption DEF Listeners, Held, Clearings, Ids
<1> QED BY <1>1, <1>2, FS_EmptySet, SessionAssumption DEF ClientsCounted, EphemeralsCounted

\* A socket that listens for its close is counted, once.
LEMMA ListenersGrow ==
    ASSUME ServerInv, ClientsCounted, NEW c \in Clients, NEW id \in Ids,
           S!AddSubscriber(c, id), listening[c] = None
    PROVE  ClientsCounted'
<1>1. /\ listening' = [listening EXCEPT ![c] = id] /\ clientsNum' = clientsNum + 1
      /\ id # None
  BY SessionAssumption DEF S!AddSubscriber, Ids
<1>2. Listeners' = Listeners \cup {c} /\ c \notin Listeners
  BY <1>1 DEF ServerInv, ServerTypes, Listeners
<1>3. IsFiniteSet(Listeners') /\ Cardinality(Listeners') = Cardinality(Listeners) + 1
  BY <1>2, FS_AddElement DEF ClientsCounted
<1> QED BY <1>1, <1>3 DEF ClientsCounted

\* A socket that closes is no longer counted, if it was.
LEMMA ListenersShrink ==
    ASSUME ServerInv, ClientsCounted, NEW c \in Clients, S!Close(c)
    PROVE  ClientsCounted'
<1>1. CASE listening[c] = None
  BY <1>1 DEF S!Close, ClientsCounted, Listeners
<1>2. CASE listening[c] # None
  <2>1. listening' = [listening EXCEPT ![c] = None] /\ clientsNum' = clientsNum - 1
    BY <1>2 DEF S!Close
  <2>2. Listeners' = Listeners \ {c} /\ c \in Listeners
    BY <1>2, <2>1 DEF ServerInv, ServerTypes, Listeners
  <2>3. IsFiniteSet(Listeners') /\ Cardinality(Listeners') = Cardinality(Listeners) - 1
    BY <2>2, FS_RemoveElement DEF ClientsCounted
  <2> QED BY <2>1, <2>3 DEF ClientsCounted
<1> QED BY <1>1, <1>2

LEMMA ClientsCountedStep ==
    ASSUME ServerInv, ClientsCounted, [Next]_vars
    PROVE  ClientsCounted'
<1>1. ASSUME UNCHANGED <<listening, clientsNum>> PROVE ClientsCounted'
  BY <1>1 DEF ClientsCounted, Listeners
<1>2. ASSUME NEW c \in Clients, S!Callbacks(c) PROVE ClientsCounted'
  <2>1. CASE S!Attach(c)
    <3>1. target[c] \in Ids /\ S!AddSubscriber(c, target[c]) /\ listening[c] = None
      BY <2>1, Library DEF S!Attach, ServerInv, ServerTypes, StageFits
    <3> QED BY <3>1, ListenersGrow
  <2>2. CASE S!Subscribe(c) \/ S!SubscribeFails(c)
    <3>1. S!Callback(c) /\ resolved[c] = None /\ S!AddSubscriber(c, c)
      BY <2>2 DEF S!Subscribe, S!SubscribeFails, S!Requested
    <3>2. listening[c] = None /\ c \in Ids
      BY <3>1, CallbackLemma DEF ServerInv, ServerTypes, StageFits, Ids
    <3> QED BY <3>1, <3>2, ListenersGrow
  <2>3. CASE S!Refuse(c) \/ S!Listen(c) \/ S!Data(c) \/ S!AnswerId(c) \/ S!AnswerInvalid(c)
    BY <1>1, <2>3 DEF S!Refuse, S!Listen, S!Data, S!AnswerId, S!AnswerInvalid
  <2> QED BY <1>2, <2>1, <2>2, <2>3 DEF S!Callbacks
<1>3. ASSUME S!Step PROVE ClientsCounted'
  <2>1. ASSUME NEW c \in Clients, S!Close(c) PROVE ClientsCounted'
    BY <2>1, ListenersShrink
  <2> QED BY <1>1, <1>2, <1>3, <2>1
          DEF S!Step, S!Cleared, S!Delete, S!Notify, S!Post, S!server
<1> QED BY <1>1, <1>3 DEF Next, vars, server, Connect, S!Accept

\* An unsubscription moves a subscription from those held to those being cleared.
LEMMA UnsubscribeCounts ==
    ASSUME ServerInv, EphemeralsCounted, NEW id \in Ids, NEW by \in Clients \cup {Http},
           S!Unsubscribe(id, by), UNCHANGED ephemeral
    PROVE  EphemeralsCounted'
<1> DEFINE r == [id |-> id, by |-> by]
<1>1. /\ \A x \in Ids : subs'[x] = IF x = id THEN None ELSE subs[x]
      /\ clearing' = IF subs[id] = None THEN clearing ELSE clearing \cup {r}
  BY UnsubscribeLemma DEF S!Unsubscribe
<1>2. CASE id \in Clients /\ subs[id] # None
  <2>1. Held' = Held \ {id} /\ id \in Held
    BY <1>1, <1>2 DEF Held, Ids
  <2>2. Clearings' = Clearings \cup {r} /\ r \notin Clearings
    BY <1>1, <1>2 DEF Clearings, ServerInv, ClearsFit
  <2>3. IsFiniteSet(Held') /\ Cardinality(Held') = Cardinality(Held) - 1
    BY <2>1, FS_RemoveElement DEF EphemeralsCounted
  <2>4. IsFiniteSet(Clearings') /\ Cardinality(Clearings') = Cardinality(Clearings) + 1
    BY <2>2, FS_AddElement DEF EphemeralsCounted
  <2>5. Cardinality(Held) \in Nat /\ Cardinality(Clearings) \in Nat
    BY FS_CardinalityType DEF EphemeralsCounted
  <2> QED BY <2>3, <2>4, <2>5 DEF EphemeralsCounted
<1>3. CASE id \notin Clients \/ subs[id] = None
  <2>1. Held' = Held /\ Clearings' = Clearings
    BY <1>1, <1>3 DEF Held, Clearings, Ids
  <2> QED BY <2>1 DEF EphemeralsCounted
<1> QED BY <1>2, <1>3

\* A subscription that is made was not held before, and there is room for it.
LEMMA SubscribeCounts ==
    ASSUME ServerInv, EphemeralsCounted, NEW c \in Clients, S!Subscribe(c)
    PROVE  EphemeralsCounted'
<1>1. /\ subs' = [subs EXCEPT ![c] = "websocket"] /\ ephemeral' = ephemeral + 1
      /\ clearing' = clearing /\ ~(ephemeral >= MaxEphemeral)
      /\ resolved[c] = None
  BY Library DEF S!Subscribe, S!TooMany, S!Requested
<1>2. Held' = Held \cup {c} /\ c \notin Held /\ Clearings' = Clearings
  BY <1>1, SessionAssumption DEF Held, Clearings, ServerInv, ServerTypes, StageFits, Ids
<1>3. IsFiniteSet(Held') /\ Cardinality(Held') = Cardinality(Held) + 1
  BY <1>2, FS_AddElement DEF EphemeralsCounted
<1>4. Cardinality(Held) \in Nat /\ Cardinality(Clearings) \in Nat
  BY FS_CardinalityType DEF EphemeralsCounted
<1> QED BY <1>1, <1>2, <1>3, <1>4, SessionAssumption DEF EphemeralsCounted

\* The count is lowered when the clearing of an ephemeral subscription is done.
LEMMA ClearedCounts ==
    ASSUME ServerInv, EphemeralsCounted, NEW u \in clearing, S!Cleared(u)
    PROVE  EphemeralsCounted'
<1>1. /\ clearing' = clearing \ {u} /\ subs' = subs
      /\ ephemeral' = IF u.id \in Clients THEN ephemeral - 1 ELSE ephemeral
  BY Library DEF S!Cleared
<1>2. Cardinality(Held) \in Nat /\ Cardinality(Clearings) \in Nat
  BY FS_CardinalityType DEF EphemeralsCounted
<1>3. Held' = Held
  BY <1>1 DEF Held
<1>4. CASE u.id \in Clients
  <2>1. Clearings' = Clearings \ {u} /\ u \in Clearings
    BY <1>1, <1>4 DEF Clearings
  <2>2. IsFiniteSet(Clearings') /\ Cardinality(Clearings') = Cardinality(Clearings) - 1
    BY <2>1, FS_RemoveElement DEF EphemeralsCounted
  <2> QED BY <1>1, <1>2, <1>3, <1>4, <2>2, SessionAssumption DEF EphemeralsCounted
<1>5. CASE u.id \notin Clients
  <2>1. Clearings' = Clearings
    BY <1>1, <1>5 DEF Clearings
  <2> QED BY <1>1, <1>3, <1>5, <2>1 DEF EphemeralsCounted
<1> QED BY <1>4, <1>5

LEMMA EphemeralsCountedStep ==
    ASSUME ServerInv, EphemeralsCounted, [Next]_vars
    PROVE  EphemeralsCounted'
<1>1. ASSUME UNCHANGED <<subs, ephemeral, clearing>> PROVE EphemeralsCounted'
  BY <1>1 DEF EphemeralsCounted, Held, Clearings
<1>2. ASSUME NEW c \in Clients, S!Close(c) PROVE EphemeralsCounted'
  <2>1. CASE UNCHANGED <<subs, ephemeral, clearing>>
    BY <1>1, <2>1
  <2>2. CASE S!Unsubscribe(listening[c], c) /\ UNCHANGED ephemeral /\ listening[c] # None
    BY <2>2, UnsubscribeCounts DEF ServerInv, ServerTypes
  <2> QED BY <1>2, <2>1, <2>2 DEF S!Close, S!EndWith, S!board
<1>3. ASSUME NEW c \in Clients, S!Callbacks(c) PROVE EphemeralsCounted'
  BY <1>1, <1>3, SubscribeCounts
     DEF S!Callbacks, S!Refuse, S!Listen, S!Attach, S!Data, S!AnswerId, S!AnswerInvalid,
         S!SubscribeFails, S!board
<1>4. ASSUME NEW id \in Ids, S!Delete(id) \/ S!Notify(id) PROVE EphemeralsCounted'
  BY <1>1, <1>4, UnsubscribeCounts DEF S!Delete, S!Notify, S!board
<1>5. ASSUME NEW id \in Ids, NEW ch \in {"websocket", "other"}, S!Post(id, ch)
      PROVE  EphemeralsCounted'
  <2>1. /\ subs' = [subs EXCEPT ![id] = ch] /\ id \notin Clients
        /\ UNCHANGED <<ephemeral, clearing>>
    BY <1>5, SessionAssumption DEF S!Post
  <2>2. Held' = Held /\ Clearings' = Clearings
    BY <2>1 DEF Held, Clearings, ServerInv, ServerTypes, Ids
  <2> QED BY <2>1, <2>2 DEF EphemeralsCounted
<1>6. ASSUME S!Step PROVE EphemeralsCounted'
  BY <1>2, <1>3, <1>4, <1>5, <1>6, ClearedCounts, Library DEF S!Step
<1> QED BY <1>1, <1>6 DEF Next, vars, server, Connect, S!Accept, S!board

\* The server's count of clients is that of the sockets it will still hear close,
\* and the switchboard's count of ephemeral subscriptions that of the handlers and
\* of the clearings under way, never more than its limit.
THEOREM CountsHold == Spec => []CountsAreRight
BY ServerInductive, CountsInit, ClientsCountedStep, EphemeralsCountedStep, CountsEnough, PTL
   DEF Spec
----------------------------------------------------------------------------
(* Steps that lose a subscription *)

\* An ephemeral subscription whose sockets have all closed.
AbandonedAt(id) == subs[id] # None /\ \A c \in ToSet(conns[id]) : sock[c] = "closed"

\* A step that makes no subscription, closes no socket and takes none from the
\* subscription abandons nothing.
LEMMA NothingAbandoned ==
    ASSUME ServerInv, NEW id \in Ids, AbandonedAt(id)',
           subs'[id] # None => subs[id] # None,
           ToSet(conns[id]) \subseteq ToSet(conns'[id]),
           \A c \in Clients : sock'[c] = "closed" => sock[c] = "closed"
    PROVE  AbandonedAt(id)
<1>1. ToSet(conns[id]) \subseteq Clients
  BY DEF ServerInv, ServerTypes, ToSet
<1> QED BY <1>1 DEF AbandonedAt

\* A socket that closes is registered with its own subscription only, and ends it.
LEMMA CloseAbandons ==
    ASSUME ServerInv, NEW c \in Clients, S!Close(c), NEW id \in Clients, AbandonedAt(id)'
    PROVE  AbandonedAt(id)
<1>0. id \in Ids /\ id # None
  BY SessionAssumption DEF Ids
<1>1. sock' = [sock EXCEPT ![c] = "closed"] /\ sock[c] # "closed"
  BY DEF S!Close
<1>2. CASE listening[c] = id
  <2>1. S!EndWith(c, id)
    BY <1>0, <1>2 DEF S!Close
  <2>2. subs'[id] = None
    BY <1>0, <2>1, Library DEF S!EndWith, S!Unsubscribe, ServerInv, ServerTypes
  <2> QED BY <2>2 DEF AbandonedAt
<1>3. CASE listening[c] # id
  <2>1. c \notin ToSet(conns[id])
    BY <1>0, <1>1, <1>3 DEF ServerInv, Registered
  <2>2. subs'[id] = subs[id] /\ conns'[id] = conns[id]
    <3>1. CASE listening[c] = None
      BY <3>1 DEF S!Close, S!board
    <3>2. CASE listening[c] # None
      <4>1. listening[c] \in Ids /\ S!EndWith(c, listening[c])
        BY <3>2 DEF S!Close, ServerInv, ServerTypes
      <4>2. conns' \in {conns, S!Detached(listening[c], c)}
        BY <4>1 DEF S!EndWith
      <4>3. subs' \in {subs, [subs EXCEPT ![listening[c]] = None]}
        BY <4>1 DEF S!EndWith, S!Unsubscribe, S!board
      <4> QED BY <1>0, <1>3, <4>1, <4>2, <4>3, DetachedLemma DEF ServerInv, ServerTypes
    <3> QED BY <3>1, <3>2
  <2>3. \A d \in ToSet(conns[id]) : sock'[d] = sock[d]
    BY <1>1, <2>1 DEF ServerInv, ServerTypes, ToSet
  <2> QED BY <2>2, <2>3 DEF AbandonedAt
<1> QED BY <1>2, <1>3

\* The other steps.
LEMMA CallbacksAbandon ==
    ASSUME ServerInv, NEW c \in Clients, S!Callbacks(c), NEW id \in Clients, AbandonedAt(id)'
    PROVE  AbandonedAt(id) \/ (S!Subscribe(id) /\ sock[id] = "closed")
<1>0. id \in Ids /\ c \in Ids
  BY DEF Ids
<1>1. CASE S!Refuse(c) \/ S!Listen(c) \/ S!Data(c) \/ S!AnswerId(c) \/ S!AnswerInvalid(c)
  <2>1. UNCHANGED <<subs, conns>>
    BY <1>1 DEF S!Refuse, S!Listen, S!Data, S!AnswerId, S!AnswerInvalid, S!board
  <2>2. sock' = sock \/ S!ServerCloses(c)
    BY <1>1 DEF S!Refuse, S!Listen, S!Data, S!AnswerId, S!AnswerInvalid, S!net
  <2>3. \A d \in Clients : sock'[d] = "closed" => sock[d] = "closed"
    BY <2>2, WriteTypes DEF ServerInv
  <2>4. AbandonedAt(id)
    BY <1>0, <2>1, <2>3, NothingAbandoned
  <2> QED BY <2>4
<1>2. CASE S!Attach(c)
  <2>1. /\ target[c] \in Ids /\ S!AddSubscriber(c, target[c])
        /\ UNCHANGED <<sock, subs>> /\ listening[c] = None
    BY <1>2, Library DEF S!Attach, S!net, S!board, ServerInv, ServerTypes, StageFits
  <2>2. ToSet(conns[id]) \subseteq ToSet(conns'[id])
    BY <1>0, <2>1, AddSubscriberLemma
  <2>3. AbandonedAt(id)
    BY <1>0, <2>1, <2>2, NothingAbandoned
  <2> QED BY <2>3
<1>3. CASE S!Subscribe(c)
  <2>1. /\ S!Requested(c) /\ sock' = sock /\ subs' = [subs EXCEPT ![c] = "websocket"]
    BY <1>3, Library DEF S!Subscribe
  <2>2. ToSet(conns'[id]) = ToSet(conns[id]) \cup IF id = c THEN {c} ELSE {}
    BY <1>0, <2>1, RequestedLemma
  <2>3. CASE id = c
    BY <1>3, <2>1, <2>2, <2>3 DEF AbandonedAt
  <2>4. CASE id # c
    <3>1. subs'[id] = subs[id] /\ ToSet(conns[id]) \subseteq ToSet(conns'[id])
      BY <1>0, <2>1, <2>2, <2>4 DEF ServerInv, ServerTypes
    <3>2. AbandonedAt(id)
      BY <1>0, <2>1, <3>1, NothingAbandoned
    <3> QED BY <3>2
  <2> QED BY <2>3, <2>4
<1>4. CASE S!SubscribeFails(c)
  <2>1. S!Requested(c) /\ S!ServerCloses(c) /\ subs' = subs
    BY <1>4 DEF S!SubscribeFails, S!board
  <2>2. \A d \in Clients : sock'[d] = "closed" <=> sock[d] = "closed"
    BY <2>1, WriteTypes DEF ServerInv
  <2>3. ToSet(conns[id]) \subseteq ToSet(conns'[id])
    BY <1>0, <2>1, <2>2, RequestedLemma
  <2>4. AbandonedAt(id)
    BY <1>0, <2>1, <2>2, <2>3, NothingAbandoned
  <2> QED BY <2>4
<1> QED BY <1>1, <1>2, <1>3, <1>4 DEF S!Callbacks

LEMMA OthersAbandonNothing ==
    ASSUME ServerInv, NEW id \in Clients, AbandonedAt(id)',
           \/ UNCHANGED vars
           \/ \E c \in Clients : \E t \in Goals[c] : Connect(c, t)
           \/ \E c \in Clients : (C!Receives(c) \/ C!SendMore(c)) /\ UNCHANGED server
           \/ \E u \in clearing : S!Cleared(u)
           \/ \E x \in Ids : \/ S!Delete(x) \/ S!Notify(x)
                             \/ \E ch \in {"websocket", "other"} : S!Post(x, ch)
    PROVE  AbandonedAt(id)
<1>0. id \in Ids
  BY DEF Ids
<1>1. CASE UNCHANGED vars
  BY <1>1 DEF vars, net, server, AbandonedAt
<1>2. ASSUME NEW c \in Clients, NEW t \in Goals[c], Connect(c, t) PROVE AbandonedAt(id)
  <2>1. UNCHANGED <<subs, conns>> /\ sock' = [sock EXCEPT ![c] = "open"]
    BY <1>2 DEF Connect, S!Accept, S!board, C!Open
  <2> QED BY <1>0, <2>1, NothingAbandoned DEF ServerInv, ServerTypes
<1>3. ASSUME NEW c \in Clients, C!Receives(c) \/ C!SendMore(c), UNCHANGED server
      PROVE  AbandonedAt(id)
  BY <1>3, LibraryStep DEF server, AbandonedAt
<1>4. ASSUME NEW u \in clearing, S!Cleared(u) PROVE AbandonedAt(id)
  <2>1. /\ u.id \in Ids /\ conns' \in {conns, S!Detached(u.id, u.by)}
        /\ UNCHANGED <<sock, subs>>
    BY <1>4 DEF S!Cleared, S!net, ServerInv, ServerTypes
  <2>2. subs[id] # None /\ id # u.id
    BY <2>1 DEF AbandonedAt, ServerInv, ClearsFit
  <2>3. conns'[id] = conns[id]
    BY <1>0, <2>1, <2>2, DetachedLemma DEF ServerInv
  <2> QED BY <2>1, <2>3 DEF AbandonedAt
<1>5. ASSUME NEW x \in Ids,
             S!Delete(x) \/ S!Notify(x) \/ \E ch \in {"websocket", "other"} : S!Post(x, ch)
      PROVE  AbandonedAt(id)
  <2>1. UNCHANGED <<sock, conns>>
    BY <1>5 DEF S!Delete, S!Notify, S!Post, S!net, S!server
  <2>2. CASE S!Delete(x)
    <3>1. subs' = [subs EXCEPT ![x] = None]
      BY <2>2 DEF S!Delete, S!Unsubscribe
    <3> QED BY <1>0, <2>1, <3>1, NothingAbandoned DEF ServerInv, ServerTypes
  <2>3. CASE S!Notify(x)
    BY <2>1, <2>3 DEF S!Notify, S!board, AbandonedAt
  <2>4. ASSUME NEW ch, S!Post(x, ch) PROVE AbandonedAt(id)
    <3>1. subs' = [subs EXCEPT ![x] = ch] /\ x # id
      BY <2>4, SessionAssumption DEF S!Post
    <3> QED BY <1>0, <2>1, <3>1 DEF AbandonedAt, ServerInv, ServerTypes
  <2> QED BY <1>5, <2>2, <2>3, <2>4
<1> QED BY <1>1, <1>2, <1>3, <1>4, <1>5

\* An ephemeral subscription outlives its sockets only through a callback that ran
\* after the close event: sockets that close end theirs.
THEOREM LateCallbacksAbandon == Spec => OnlyLateCallbacksAbandon
<1> DEFINE A == \A c \in S!Abandoned' \ S!Abandoned : S!Subscribe(c) /\ sock[c] = "closed"
<1>0. /\ S!Abandoned = {id \in Clients : AbandonedAt(id)}
      /\ S!Abandoned' = {id \in Clients : AbandonedAt(id)'}
  BY Library DEF S!Abandoned, AbandonedAt
<1>1. ASSUME ServerInv, [Next]_vars PROVE A
  <2> SUFFICES ASSUME NEW id \in Clients, AbandonedAt(id)', ~AbandonedAt(id)
               PROVE  S!Subscribe(id) /\ sock[id] = "closed"
    BY <1>0
  <2>1. CASE S!Step
    BY <1>1, <2>1, Library, CloseAbandons, CallbacksAbandon, OthersAbandonNothing DEF S!Step
  <2> QED BY <1>1, <2>1, OthersAbandonNothing DEF Next
<1>2. ServerInv /\ [Next]_vars => [A]_S!vars
  BY <1>1
<1> QED
  BY <1>2, ServerInductive, PTL DEF Spec, OnlyLateCallbacksAbandon, S!OnlyLateCallbacksAbandon

\* An open socket whose subscription is gone.
DeafAt(c) == sock[c] = "open" /\ listening[c] # None /\ subs[listening[c]] = None

\* What deafens a socket.
DeafenedBy(c) ==
    \/ S!Delete(listening[c])
    \/ \E o \in Clients \ {c} :
          /\ sock'[o] = "closed" /\ sock[o] # "closed"
          /\ listening[o] = listening[c] /\ S!IsEphemeral(listening[c])

LEMMA CallbacksDeafen ==
    ASSUME ServerInv, NEW d \in Clients, S!Callbacks(d), NEW c \in Clients, DeafAt(c)'
    PROVE  DeafAt(c)
<1>1. CASE S!Refuse(d) \/ S!Listen(d) \/ S!Data(d) \/ S!AnswerId(d) \/ S!AnswerInvalid(d)
  <2>1. UNCHANGED <<subs, listening>>
    BY <1>1 DEF S!Refuse, S!Listen, S!Data, S!AnswerId, S!AnswerInvalid, S!board
  <2>2. sock' = sock \/ S!ServerCloses(d)
    BY <1>1 DEF S!Refuse, S!Listen, S!Data, S!AnswerId, S!AnswerInvalid, S!net
  <2> QED BY <2>1, <2>2, WriteTypes DEF ServerInv, DeafAt
<1>2. CASE S!Attach(d)
  <2>1. /\ subs[target[d]] = "websocket" /\ listening' = [listening EXCEPT ![d] = target[d]]
        /\ UNCHANGED <<sock, subs>>
    BY <1>2, Library DEF S!Attach, S!net, S!board, S!AddSubscriber
  <2> QED BY <2>1, SessionAssumption DEF DeafAt, ServerInv, ServerTypes
<1>3. CASE S!Subscribe(d)
  <2>1. /\ listening' = [listening EXCEPT ![d] = d] /\ subs' = [subs EXCEPT ![d] = "websocket"]
        /\ sock' = sock
    BY <1>3, Library DEF S!Subscribe, S!Requested, S!AddSubscriber
  <2> QED BY <2>1, SessionAssumption DEF DeafAt, ServerInv, ServerTypes, Ids
<1>4. CASE S!SubscribeFails(d)
  <2>1. /\ listening' = [listening EXCEPT ![d] = d] /\ S!ServerCloses(d) /\ subs' = subs
    BY <1>4 DEF S!SubscribeFails, S!Requested, S!AddSubscriber, S!board
  <2> QED BY <2>1, WriteTypes DEF DeafAt, ServerInv, ServerTypes
<1> QED BY <1>1, <1>2, <1>3, <1>4 DEF S!Callbacks

LEMMA CloseDeafens ==
    ASSUME ServerInv, NEW d \in Clients, S!Close(d), NEW c \in Clients, DeafAt(c)', ~DeafAt(c)
    PROVE  DeafenedBy(c)
<1>1. sock' = [sock EXCEPT ![d] = "closed"] /\ sock[d] # "closed"
  BY DEF S!Close
<1>2. c # d /\ sock[c] = "open" /\ sock'[d] = "closed"
  BY <1>1 DEF DeafAt, ServerInv, ServerTypes
<1>3. listening[d] # None
  BY <1>2 DEF S!Close, S!board, DeafAt
<1>4. listening' = [listening EXCEPT ![d] = None] /\ S!EndWith(d, listening[d])
  BY <1>3 DEF S!Close
<1>5. listening'[c] = listening[c]
  BY <1>2, <1>4 DEF ServerInv, ServerTypes
<1>6. listening[c] \in Ids /\ subs[listening[c]] # None /\ subs'[listening[c]] = None
  BY <1>2, <1>5 DEF DeafAt, ServerInv, ServerTypes
<1>7. S!IsEphemeral(listening[d]) /\ subs' = [subs EXCEPT ![listening[d]] = None]
  BY <1>4, <1>6 DEF S!EndWith, S!Unsubscribe, S!board
<1>8. listening[c] = listening[d]
  BY <1>6, <1>7 DEF ServerInv, ServerTypes
<1> QED BY <1>1, <1>2, <1>7, <1>8 DEF DeafenedBy

LEMMA OthersDeafen ==
    ASSUME ServerInv, NEW c \in Clients, DeafAt(c)', ~DeafAt(c),
           \/ UNCHANGED vars
           \/ \E d \in Clients : \E t \in Goals[d] : Connect(d, t)
           \/ \E d \in Clients : (C!Receives(d) \/ C!SendMore(d)) /\ UNCHANGED server
           \/ \E u \in clearing : S!Cleared(u)
           \/ \E x \in Ids : \/ S!Delete(x) \/ S!Notify(x)
                             \/ \E ch \in {"websocket", "other"} : S!Post(x, ch)
    PROVE  DeafenedBy(c)
<1>1. ASSUME UNCHANGED <<sock, listening, subs>> PROVE FALSE
  BY <1>1 DEF DeafAt
<1>2. ASSUME NEW d \in Clients, NEW t \in Goals[d], Connect(d, t) PROVE FALSE
  <2>1. /\ UNCHANGED <<subs, listening>> /\ sock' = [sock EXCEPT ![d] = "open"]
        /\ stage[d] = "none"
    BY <1>2 DEF Connect, S!Accept, S!board, C!Open
  <2>2. listening[d] = None
    BY <2>1 DEF ServerInv, ServerTypes, StageFits
  <2> QED BY <2>1, <2>2 DEF DeafAt, ServerInv, ServerTypes
<1>3. ASSUME NEW d \in Clients, C!Receives(d) \/ C!SendMore(d), UNCHANGED server PROVE FALSE
  BY <1>1, <1>3, LibraryStep DEF server
<1>4. ASSUME NEW x \in Ids, S!Delete(x) PROVE DeafenedBy(c)
  <2>1. UNCHANGED <<sock, listening>> /\ subs' = [subs EXCEPT ![x] = None]
    BY <1>4 DEF S!Delete, S!net, S!server, S!Unsubscribe
  <2>2. listening[c] = x
    BY <2>1 DEF DeafAt, ServerInv, ServerTypes
  <2> QED BY <1>4, <2>2 DEF DeafenedBy
<1>5. ASSUME NEW x \in Ids, NEW ch \in {"websocket", "other"}, S!Post(x, ch) PROVE FALSE
  <2>1. UNCHANGED <<sock, listening>> /\ subs' = [subs EXCEPT ![x] = ch]
    BY <1>5 DEF S!Post, S!net, S!server
  <2> QED BY <2>1, SessionAssumption DEF DeafAt, ServerInv, ServerTypes
<1>6. ASSUME (\E u \in clearing : S!Cleared(u)) \/ \E x \in Ids : S!Notify(x) PROVE FALSE
  BY <1>1, <1>6 DEF S!Cleared, S!Notify, S!net, S!server, S!board
<1>7. ASSUME UNCHANGED vars PROVE FALSE
  BY <1>1, <1>7 DEF vars, net, server
<1> QED BY <1>2, <1>3, <1>4, <1>5, <1>6, <1>7

\* An open socket loses its subscription only to a DELETE of it, or to another
\* socket of the same ephemeral subscription that closes.
THEOREM OthersDeafenOnly == Spec => OnlyOthersDeafen
<1> DEFINE A == \A c \in S!Deaf' \ S!Deaf : DeafenedBy(c)
<1>0. /\ S!Deaf = {c \in Clients : DeafAt(c)}
      /\ S!Deaf' = {c \in Clients : DeafAt(c)'}
  BY DEF S!Deaf, DeafAt
<1>1. ASSUME ServerInv, [Next]_vars PROVE A
  <2> SUFFICES ASSUME NEW c \in Clients, DeafAt(c)', ~DeafAt(c)
               PROVE  DeafenedBy(c)
    BY <1>0
  <2>1. CASE S!Step
    BY <1>1, <2>1, Library, CloseDeafens, CallbacksDeafen, OthersDeafen DEF S!Step
  <2> QED BY <1>1, <2>1, OthersDeafen DEF Next
<1>2. ServerInv /\ [Next]_vars => [A]_S!vars
  BY <1>1
<1>3. [][A]_S!vars => OnlyOthersDeafen
  BY PTL DEF OnlyOthersDeafen, S!OnlyOthersDeafen, DeafenedBy
<1> QED BY <1>2, <1>3, ServerInductive, PTL DEF Spec
----------------------------------------------------------------------------
(* Messages and handlers *)

\* What is on its way to the server: nothing, or one message m, put off or not.
Silent(c) == up[c] = <<>> /\ deferred[c] = <<>>
InFlight(c, m) ==
    \/ up[c] = <<m>> /\ deferred[c] = <<>>
    \/ up[c] = <<>> /\ deferred[c] = <<m>>

NoTexts(c) == DOMAIN texts[c] = {}
GotSubscription(c) == <<"created", "subscription">> \in calls[c]

\* Before an on-demand client has its subscription.
Early(c) ==
    /\ target[c] = OnDemand /\ resolved[c] = None
    /\ ~streaming[c] /\ ~GotSubscription(c)

Fresh(c) ==
    /\ Early(c) /\ sock[c] = "unused" /\ Silent(c)
    /\ down[c] = <<>> /\ queue[c] = <<>> /\ NoTexts(c) /\ calls[c] = {}

\* With a token: it is asked for, answered, and its text awaited (Blobs).
TokenAsked(c) ==
    /\ Early(c) /\ sock[c] # "unused" /\ InFlight(c, "token")
    /\ down[c] = <<>> /\ queue[c] = <<"auth">> /\ NoTexts(c)

TokenAnswered(c) ==
    /\ Early(c) /\ sock[c] # "unused" /\ Silent(c)
    /\ down[c] = <<"invalid">> /\ queue[c] = <<"auth">> /\ NoTexts(c)

TokenText(c) ==
    /\ Early(c) /\ sock[c] # "unused" /\ Silent(c)
    /\ down[c] = <<>> /\ queue[c] = <<>>
    /\ DOMAIN texts[c] = {<<"auth", "invalid">>} /\ texts[c][<<"auth", "invalid">>] = 1

\* The subscription is asked for and answered.
SubAsked(c) ==
    /\ Early(c) /\ sock[c] # "unused" /\ InFlight(c, "request")
    /\ down[c] = <<>> /\ queue[c] = <<"created">> /\ NoTexts(c)

SubAnswered(c) ==
    /\ target[c] = OnDemand /\ resolved[c] # None /\ ~streaming[c] /\ ~GotSubscription(c)
    /\ sock[c] # "unused" /\ Silent(c)
    /\ down[c] # <<>> /\ Head(down[c]) = "subscription" /\ Tail(down[c]) \in Seq({"xcm", "id"})
    /\ queue[c] = <<"created">> /\ NoTexts(c)

\* From then on everything is for the caller.
Subscribed(c) ==
    /\ target[c] = OnDemand /\ resolved[c] # None /\ sock[c] # "unused"
    /\ up[c] \in Seq({"more"}) /\ deferred[c] \in Seq({"more"})
    /\ down[c] \in Seq({"xcm", "id"}) /\ queue[c] = <<>>
    /\ DOMAIN texts[c] \subseteq {<<"created", "subscription">>, <<"stream", "xcm">>, <<"stream", "id">>}

\* An answer was not written, because the socket was closing.
Lost(c) ==
    /\ target[c] = OnDemand /\ sock[c] \in {"closing", "closed"}
    /\ Silent(c) /\ down[c] = <<>> /\ NoTexts(c)

\* A client of an existing subscription is sent notifications only.
Guest(c) ==
    /\ target[c] \in Ids /\ sock[c] # "unused" /\ deferred[c] = <<>>
    /\ down[c] \in Seq({"xcm"})
    /\ queue[c] = <<>> \/ (queue[c] = <<"auth">> /\ c \in Tokens)
    /\ DOMAIN texts[c] \subseteq {<<"stream", "xcm">>} \cup
                                 (IF c \in Tokens THEN {<<"auth", "xcm">>} ELSE {})

Phase(c) ==
    \/ Fresh(c) \/ TokenAsked(c) \/ TokenAnswered(c) \/ TokenText(c)
    \/ SubAsked(c) \/ SubAnswered(c) \/ Subscribed(c) \/ Lost(c) \/ Guest(c)

LibraryTypes ==
    /\ queue \in [Clients -> Seq({"auth", "created"})]
    /\ streaming \in [Clients -> BOOLEAN]
    /\ DOMAIN texts = Clients /\ DOMAIN calls = Clients

\* Only who attached to a subscription, or resolved one, is registered.
Members ==
    \A id \in Ids : \A c \in ToSet(conns[id]) : target[c] # OnDemand \/ resolved[c] # None

JourneyInv ==
    /\ LibraryTypes
    /\ \A c \in Clients : Phase(c)
    /\ HandlersGetTheirs
    /\ Members

\* The library's bags: which texts are awaited.
LEMMA TextBags ==
    /\ \A B, x : /\ DOMAIN C!BagAdd(B, x) = DOMAIN B \cup {x}
                 /\ x \notin DOMAIN B => C!BagAdd(B, x)[x] = 1
    /\ \A B, x : /\ DOMAIN C!BagRemove(B, x) \subseteq DOMAIN B
                 /\ x \in DOMAIN B /\ B[x] = 1 => DOMAIN C!BagRemove(B, x) = DOMAIN B \ {x}
BY DEF C!BagAdd, C!BagRemove

\* Which handler is taken.
LEMMA TakenLemma ==
    ASSUME NEW c \in Clients
    PROVE  /\ \A h : queue[c] = <<h>> /\ ~streaming[c] =>
                 C!Waits(c) /\ C!Taken(c) = h /\ C!Popped(c) = <<>>
           /\ queue[c] = <<>> \/ streaming[c] =>
                 ~C!Waits(c) /\ C!Taken(c) = "stream" /\ C!Popped(c) = queue[c]
<1>1. ASSUME NEW h PROVE C!Last(<<h>>) = h /\ C!Front(<<h>>) = <<>> /\ <<h>> # <<>>
  <2>1. Len(<<h>>) = 1 /\ <<h>>[1] = h
    OBVIOUS
  <2> QED BY <2>1, SubSeqEmpty DEF C!Last, C!Front
<1> QED BY <1>1 DEF C!Waits, C!Taken, C!Popped

\* A client about which nothing changes, except that its socket may close.
LEMMA PhaseFrame ==
    ASSUME NEW c \in Clients, Phase(c),
           UNCHANGED <<target[c], up[c], down[c], deferred[c], resolved[c], queue[c],
                       streaming[c], texts[c], calls[c]>>,
           \/ sock'[c] = sock[c]
           \/ sock[c] # "unused" /\ sock'[c] \in {"closing", "closed"}
    PROVE  Phase(c)'
BY DEF Phase, Fresh, TokenAsked, TokenAnswered, TokenText, SubAsked, SubAnswered, Subscribed,
       Lost, Guest, Early, Silent, InFlight, NoTexts, GotSubscription

\* A client about which nothing changes, except that its socket may close, keeps
\* to its phase and its handlers.
LEMMA OthersFrame ==
    ASSUME JourneyInv, NEW d \in Clients,
           UNCHANGED <<target[d], up[d], down[d], deferred[d], resolved[d], queue[d],
                       streaming[d], texts[d], calls[d]>>,
           \/ sock'[d] = sock[d]
           \/ sock[d] # "unused" /\ sock'[d] \in {"closing", "closed"}
    PROVE  Phase(d)' /\ calls'[d] \subseteq C!Fitting(d)'
<1>1. Phase(d)'
  BY PhaseFrame DEF JourneyInv
<1>2. calls[d] \subseteq C!Fitting(d)
  BY DEF JourneyInv, HandlersGetTheirs, C!HandlersGetTheirs
<1> QED BY <1>1, <1>2 DEF C!Fitting

\* A client connects and sends its first message.
LEMMA ConnectPhase ==
    ASSUME ServerTypes, LibraryTypes, NEW c \in Clients, Phase(c), NEW t \in Goals[c], Connect(c, t)
    PROVE  Phase(c)' /\ calls'[c] = {}
<1>1. /\ sock[c] = "unused" /\ sock' = [sock EXCEPT ![c] = "open"]
      /\ target' = [target EXCEPT ![c] = t] /\ t \in {OnDemand} \cup Ids
      /\ UNCHANGED <<down, deferred, resolved, streaming, texts, calls>>
  BY SessionAssumption DEF Connect, C!Open, S!Accept, Ids
<1>2. Fresh(c)
  BY <1>1 DEF Phase, TokenAsked, TokenAnswered, TokenText, SubAsked, SubAnswered, Subscribed,
     Lost, Guest
<1>3. /\ sock'[c] = "open" /\ target'[c] = t /\ deferred'[c] = <<>> /\ down'[c] = <<>>
      /\ resolved'[c] = None /\ ~streaming'[c] /\ DOMAIN texts'[c] = {} /\ calls'[c] = {}
      /\ up[c] = <<>> /\ queue[c] = <<>>
  BY <1>1, <1>2 DEF Fresh, Early, Silent, NoTexts, ServerTypes
<1>4. \A m : Append(<<>>, m) = <<m>>
  OBVIOUS
<1>5. CASE c \in Tokens
  <2>1. up'[c] = <<"token">> /\ queue'[c] = <<"auth">>
    BY <1>3, <1>4, <1>5 DEF Connect, C!Open, C!Sent, ServerTypes, LibraryTypes
  <2>2. CASE t = OnDemand
    BY <1>3, <2>1, <2>2 DEF Phase, TokenAsked, Early, InFlight, NoTexts, GotSubscription
  <2>3. CASE t \in Ids
    BY <1>3, <1>5, <2>1, <2>3 DEF Phase, Guest
  <2> QED BY <1>1, <1>3, <2>2, <2>3
<1>6. CASE c \notin Tokens /\ t = OnDemand
  <2>1. up'[c] = <<"request">> /\ queue'[c] = <<"created">>
    BY <1>3, <1>4, <1>6 DEF Connect, C!Open, C!Sent, ServerTypes, LibraryTypes
  <2> QED BY <1>3, <1>6, <2>1 DEF Phase, SubAsked, Early, InFlight, NoTexts, GotSubscription
<1>7. CASE c \notin Tokens /\ t \in Ids
  <2>1. queue'[c] = <<>>
    BY <1>3, <1>7, SessionAssumption DEF Connect, C!Open, Ids
  <2> QED BY <1>3, <1>7, <2>1 DEF Phase, Guest
<1> QED BY <1>1, <1>5, <1>6, <1>7

\* The server puts off what a client sent.
LEMMA DataPhase ==
    ASSUME ServerInv, LibraryTypes, NEW c \in Clients, Phase(c), S!Data(c), UNCHANGED library
    PROVE  Phase(c)'
<1>1. /\ up[c] # <<>> /\ stage[c] = "data"
      /\ deferred' = [deferred EXCEPT ![c] = Append(deferred[c], Head(up[c]))]
      /\ up' = [up EXCEPT ![c] = Tail(up[c])]
      /\ UNCHANGED <<sock, target, down, resolved, queue, streaming, texts, calls>>
  BY DEF S!Data, library
<1>2. /\ deferred'[c] = Append(deferred[c], Head(up[c])) /\ up'[c] = Tail(up[c])
  BY <1>1 DEF ServerInv, ServerTypes
<1>3. target[c] \notin Ids
  BY <1>1, SessionAssumption DEF ServerInv, StageFits, Ids
<1>4. \A m : Append(<<>>, m) = <<m>> /\ Head(<<m>>) = m /\ Tail(<<m>>) = <<>>
  OBVIOUS
<1>5. ASSUME NEW m, InFlight(c, m) PROVE InFlight(c, m)'
  <2>1. up[c] = <<m>> /\ deferred[c] = <<>>
    BY <1>1, <1>5 DEF InFlight
  <2>2. up'[c] = <<>> /\ deferred'[c] = <<m>>
    BY <1>2, <1>4, <2>1
  <2> QED BY <2>2 DEF InFlight
<1>6. CASE TokenAsked(c) \/ SubAsked(c)
  BY <1>1, <1>5, <1>6 DEF Phase, TokenAsked, SubAsked, Early, NoTexts, GotSubscription
<1>7. CASE Subscribed(c)
  <2>1. Head(up[c]) = "more" /\ Tail(up[c]) \in Seq({"more"})
    BY <1>1, <1>7, HeadTailProperties DEF Subscribed
  <2>2. up'[c] \in Seq({"more"}) /\ deferred'[c] \in Seq({"more"})
    BY <1>2, <1>7, <2>1, AppendProperties DEF Subscribed
  <2> QED BY <1>1, <1>7, <2>2 DEF Phase, Subscribed
<1> QED
  BY <1>1, <1>3, <1>6, <1>7 DEF Phase, Fresh, TokenAnswered, TokenText, SubAnswered, Lost,
     Guest, Silent

\* A callback answers with the id: to whom has its subscription, and asked again.
LEMMA AnswerIdPhase ==
    ASSUME ServerInv, LibraryTypes, NEW c \in Clients, Phase(c), S!AnswerId(c), UNCHANGED library
    PROVE  Phase(c)'
<1>1. /\ deferred[c] # <<>> /\ deferred' = [deferred EXCEPT ![c] = Tail(deferred[c])]
      /\ resolved[c] # None
      /\ UNCHANGED <<sock, target, up, resolved, queue, streaming, texts, calls>>
  BY DEF S!AnswerId, S!Callback, library
<1>2. Subscribed(c)
  BY <1>1 DEF Phase, Fresh, TokenAsked, TokenAnswered, TokenText, SubAsked, SubAnswered, Lost,
     Guest, Silent, Early
<1>3. deferred'[c] \in Seq({"more"})
  BY <1>1, <1>2, HeadTailProperties DEF ServerInv, ServerTypes, Subscribed
<1>4. down'[c] = IF sock[c] = "open" THEN Append(down[c], "id") ELSE down[c]
  BY DEF S!AnswerId, S!Write
<1>5. down'[c] \in Seq({"xcm", "id"})
  BY <1>2, <1>4, AppendProperties DEF Subscribed
<1> QED BY <1>1, <1>2, <1>3, <1>5 DEF Phase, Subscribed

\* What a callback takes from one message in flight: nothing else is left.
LEMMA CallbackTakes ==
    ASSUME ServerInv, NEW c \in Clients, S!Callback(c), NEW m, InFlight(c, m), UNCHANGED up
    PROVE  Head(deferred[c]) = m /\ Silent(c)'
<1>1. deferred[c] # <<>> /\ deferred' = [deferred EXCEPT ![c] = Tail(deferred[c])]
  BY DEF S!Callback
<1>2. up[c] = <<>> /\ deferred[c] = <<m>>
  BY <1>1 DEF InFlight
<1>3. Head(<<m>>) = m /\ Tail(<<m>>) = <<>>
  OBVIOUS
<1> QED BY <1>1, <1>2, <1>3 DEF ServerInv, ServerTypes, Silent

\* A token is answered as what does not parse.
LEMMA AnswerInvalidPhase ==
    ASSUME ServerInv, LibraryTypes, NEW c \in Clients, Phase(c), S!AnswerInvalid(c), UNCHANGED library
    PROVE  Phase(c)'
<1>1. /\ S!Callback(c) /\ deferred[c] # <<>> /\ Head(deferred[c]) = "token" /\ resolved[c] = None
      /\ UNCHANGED <<sock, target, up, resolved, queue, streaming, texts, calls>>
  BY DEF S!AnswerInvalid, S!Callback, library
<1>2. ~SubAsked(c)
  BY <1>1, CallbackTakes DEF SubAsked
<1>3. TokenAsked(c)
  BY <1>1, <1>2 DEF Phase, Fresh, TokenAnswered, TokenText, SubAnswered, Subscribed, Lost,
     Guest, Silent
<1>4. Silent(c)'
  BY <1>1, <1>3, CallbackTakes DEF TokenAsked
<1>5. down'[c] = IF sock[c] = "open" THEN Append(down[c], "invalid") ELSE down[c]
  BY DEF S!AnswerInvalid, S!Write
<1>6. CASE sock[c] = "open"
  <2>1. down'[c] = <<"invalid">>
    BY <1>3, <1>5, <1>6 DEF TokenAsked
  <2> QED BY <1>1, <1>3, <1>4, <2>1 DEF Phase, TokenAsked, TokenAnswered, Early, NoTexts,
             GotSubscription
<1>7. CASE sock[c] # "open"
  <2>1. sock[c] \in {"closing", "closed"} /\ down'[c] = <<>>
    BY <1>3, <1>5, <1>7 DEF TokenAsked, ServerInv, ServerTypes
  <2> QED BY <1>1, <1>3, <1>4, <2>1 DEF Phase, TokenAsked, Lost, Early, NoTexts
<1> QED BY <1>6, <1>7

\* A request is subscribed, or fails.
LEMMA RequestPhase ==
    ASSUME ServerInv, LibraryTypes, NEW c \in Clients, Phase(c),
           S!Subscribe(c) \/ S!SubscribeFails(c), UNCHANGED library
    PROVE  Phase(c)'
<1>1. /\ S!Requested(c) /\ S!Callback(c) /\ deferred[c] # <<>> /\ resolved[c] = None
      /\ Head(deferred[c]) \in {"request", "more"}
      /\ UNCHANGED <<target, up, queue, streaming, texts, calls>>
  BY DEF S!Subscribe, S!SubscribeFails, S!Requested, S!Callback, library
<1>2. ~TokenAsked(c)
  BY <1>1, CallbackTakes DEF TokenAsked
<1>3. SubAsked(c)
  BY <1>1, <1>2 DEF Phase, Fresh, TokenAnswered, TokenText, SubAnswered, Subscribed, Lost,
     Guest, Silent
<1>4. Silent(c)'
  BY <1>1, <1>3, CallbackTakes DEF SubAsked
<1>5. resolved'[c] = c /\ c # None
  BY <1>1, SessionAssumption DEF S!Requested, ServerInv, ServerTypes
<1>6. CASE S!Subscribe(c) /\ sock[c] = "open"
  <2>1. down'[c] = Append(down[c], "subscription") /\ sock' = sock
    BY <1>6 DEF S!Subscribe, S!Write
  <2>2. down'[c] = <<"subscription">>
    BY <1>3, <2>1 DEF SubAsked
  <2>3. down'[c] # <<>> /\ Head(down'[c]) = "subscription" /\ Tail(down'[c]) = <<>>
    BY <2>2
  <2>4. Tail(down'[c]) \in Seq({"xcm", "id"})
    <3>1. <<>> \in Seq({"xcm", "id"})
      OBVIOUS
    <3> QED BY <2>3, <3>1
  <2> QED BY <1>1, <1>3, <1>4, <1>5, <2>1, <2>3, <2>4
          DEF Phase, SubAsked, SubAnswered, Early, NoTexts, GotSubscription
<1>7. CASE S!SubscribeFails(c) \/ (S!Subscribe(c) /\ sock[c] # "open")
  <2>1. sock'[c] \in {"closing", "closed"}
    BY <1>3, <1>7 DEF S!SubscribeFails, S!Subscribe, S!ServerCloses, SubAsked, ServerInv, ServerTypes
  <2>2. down'[c] = <<>>
    BY <1>3, <1>7 DEF S!SubscribeFails, S!Subscribe, S!Write, SubAsked
  <2> QED BY <1>1, <1>3, <1>4, <2>1, <2>2 DEF Phase, SubAsked, Lost, Early, NoTexts
<1> QED BY <1>6, <1>7

\* A notification is written to who has the subscription.
LEMMA NotifyPhase ==
    ASSUME ServerInv, LibraryTypes, Members, NEW id \in Ids, S!Notify(id), UNCHANGED library,
           NEW c \in Clients, Phase(c)
    PROVE  Phase(c)'
<1>1. /\ UNCHANGED <<sock, target, up, deferred, resolved, queue, streaming, texts, calls>>
      /\ down'[c] = IF c \in ToSet(conns[id]) /\ sock[c] = "open"
                    THEN Append(down[c], "xcm") ELSE down[c]
  BY Library DEF S!Notify, S!Write, S!server, library
<1>2. CASE c \in ToSet(conns[id]) /\ sock[c] = "open"
  <2>1. down'[c] = Append(down[c], "xcm") /\ (target[c] # OnDemand \/ resolved[c] # None)
    BY <1>1, <1>2 DEF Members
  <2>2. CASE SubAnswered(c)
    <3> DEFINE s == down[c]
    <3>1. s \in Seq(Written) /\ s # <<>> /\ Head(s) = "subscription" /\ Tail(s) \in Seq({"xcm", "id"})
      BY <2>2 DEF SubAnswered, ServerInv, ServerTypes
    <3>2. Append(Tail(s), "xcm") \in Seq({"xcm", "id"})
      BY <3>1, AppendProperties
    <3>3. /\ Append(s, "xcm") # <<>>
          /\ Head(Append(s, "xcm")) = "subscription" /\ Tail(Append(s, "xcm")) = Append(Tail(s), "xcm")
      BY <3>1, HeadTailAppend, AppendProperties DEF Written
    <3> QED BY <1>1, <2>1, <2>2, <3>2, <3>3 DEF Phase, SubAnswered, Silent, NoTexts, GotSubscription
  <2>3. CASE Subscribed(c)
    <3>1. down'[c] \in Seq({"xcm", "id"})
      BY <2>1, <2>3, AppendProperties DEF Subscribed
    <3> QED BY <1>1, <2>3, <3>1 DEF Phase, Subscribed
  <2>4. CASE Guest(c)
    <3>1. down'[c] \in Seq({"xcm"})
      BY <2>1, <2>4, AppendProperties DEF Guest
    <3> QED BY <1>1, <2>4, <3>1 DEF Phase, Guest
  <2> QED BY <1>2, <2>1, <2>2, <2>3, <2>4 DEF Phase, Fresh, TokenAsked, TokenAnswered, TokenText,
             SubAsked, Lost, Early
<1>3. CASE ~(c \in ToSet(conns[id]) /\ sock[c] = "open")
  BY <1>1, <1>3, PhaseFrame
<1> QED BY <1>2, <1>3

\* What a handler that runs does: that of the token asks for the subscription.
LEMMA RunsLemma ==
    ASSUME ServerTypes, LibraryTypes, NEW c \in Clients, NEW h, NEW m, NEW q, C!Runs(c, h, m, q)
    PROVE  /\ calls'[c] = calls[c] \cup {<<h, m>>}
           /\ h = "auth" /\ target[c] = OnDemand =>
                 up'[c] = Append(up[c], "request") /\ queue'[c] = Append(q, "created")
           /\ ~(h = "auth" /\ target[c] = OnDemand) => up'[c] = up[c] /\ queue'[c] = q
<1>1. calls'[c] = calls[c] \cup {<<h, m>>}
  BY DEF C!Runs, LibraryTypes
<1>2. ASSUME h = "auth" /\ target[c] = OnDemand
      PROVE  up'[c] = Append(up[c], "request") /\ queue'[c] = Append(q, "created")
  BY <1>2 DEF C!Runs, C!Sent, ServerTypes, LibraryTypes
<1>3. ASSUME ~(h = "auth" /\ target[c] = OnDemand) PROVE up'[c] = up[c] /\ queue'[c] = q
  BY <1>3 DEF C!Runs, LibraryTypes
<1> QED BY <1>1, <1>2, <1>3

\* What arrives, in which phase, and the handler it is given to.
LEMMA ArrivedLemma ==
    ASSUME ServerTypes, LibraryTypes, NEW c \in Clients, Phase(c), C!Arrived(c)
    PROVE  \/ /\ TokenAnswered(c) /\ C!Waits(c)
              /\ C!Taken(c) = "auth" /\ Head(down[c]) = "invalid"
              /\ C!Popped(c) = <<>> /\ down'[c] = <<>>
           \/ /\ SubAnswered(c) /\ C!Waits(c)
              /\ C!Taken(c) = "created" /\ Head(down[c]) = "subscription"
              /\ C!Popped(c) = <<>> /\ down'[c] \in Seq({"xcm", "id"})
           \/ /\ Subscribed(c)
              /\ C!Taken(c) = "stream" /\ Head(down[c]) \in {"xcm", "id"}
              /\ C!Popped(c) = <<>> /\ down'[c] \in Seq({"xcm", "id"})
           \/ /\ Guest(c) /\ Head(down[c]) = "xcm" /\ down'[c] \in Seq({"xcm"})
              /\ C!Taken(c) = "stream" \/ (C!Taken(c) = "auth" /\ c \in Tokens)
              /\ C!Popped(c) = <<>> \/ (C!Popped(c) = <<"auth">> /\ c \in Tokens)
<1>1. /\ sock[c] \in {"open", "closing"} /\ down[c] # <<>>
      /\ down'[c] = Tail(down[c])
  BY DEF C!Arrived, ServerTypes
<1>2. CASE TokenAnswered(c)
  <2>1. down[c] = <<"invalid">> /\ queue[c] = <<"auth">> /\ ~streaming[c]
    BY <1>2 DEF TokenAnswered, Early
  <2>2. Head(<<"invalid">>) = "invalid" /\ Tail(<<"invalid">>) = <<>>
    OBVIOUS
  <2> QED BY <1>1, <1>2, <2>1, <2>2, TakenLemma
<1>3. CASE SubAnswered(c)
  BY <1>1, <1>3, TakenLemma DEF SubAnswered
<1>4. CASE Subscribed(c)
  <2>1. Head(down[c]) \in {"xcm", "id"} /\ Tail(down[c]) \in Seq({"xcm", "id"})
    BY <1>1, <1>4, HeadTailProperties DEF Subscribed
  <2>2. queue[c] = <<>>
    BY <1>4 DEF Subscribed
  <2> QED BY <1>1, <1>4, <2>1, <2>2, TakenLemma
<1>5. CASE Guest(c)
  <2>1. Head(down[c]) \in {"xcm"} /\ Tail(down[c]) \in Seq({"xcm"})
    BY <1>1, <1>5, HeadTailProperties DEF Guest
  <2>2. queue[c] = <<>> \/ (queue[c] = <<"auth">> /\ c \in Tokens)
    BY <1>5 DEF Guest
  <2> QED BY <1>1, <1>5, <2>1, <2>2, TakenLemma
<1> QED BY <1>1, <1>2, <1>3, <1>4, <1>5
        DEF Phase, Fresh, TokenAsked, TokenText, SubAsked, Lost

\* A text arrives and its handler runs.
LEMMA HandleTextPhase ==
    ASSUME ServerTypes, JourneyInv, NEW c \in Clients, C!HandleText(c), UNCHANGED server
    PROVE  Phase(c)' /\ calls'[c] \subseteq C!Fitting(c)'
<1> DEFINE h == C!Taken(c)
           m == Head(down[c])
           q == C!Popped(c)
<1>1. /\ C!Arrived(c) /\ C!Runs(c, h, m, q) /\ C!Streams(c)
      /\ UNCHANGED <<sock, target, texts, deferred, resolved>>
      /\ LibraryTypes /\ Phase(c)
  BY DEF C!HandleText, JourneyInv, server
<1>2. /\ calls'[c] = calls[c] \cup {<<h, m>>}
      /\ h = "auth" /\ target[c] = OnDemand =>
            up'[c] = Append(up[c], "request") /\ queue'[c] = Append(q, "created")
      /\ ~(h = "auth" /\ target[c] = OnDemand) => up'[c] = up[c] /\ queue'[c] = q
  BY <1>1, RunsLemma
<1>3. streaming'[c] = ~C!Waits(c)
  BY <1>1 DEF C!Streams, LibraryTypes
<1>4. calls[c] \subseteq C!Fitting(c) /\ C!Fitting(c)' = C!Fitting(c)
  BY <1>1 DEF JourneyInv, HandlersGetTheirs, C!HandlersGetTheirs, C!Fitting
<1>5. CASE TokenAnswered(c) /\ C!Waits(c) /\ h = "auth" /\ m = "invalid" /\ q = <<>> /\ down'[c] = <<>>
  <2>1. \A x : Append(<<>>, x) = <<x>>
    OBVIOUS
  <2>2. up'[c] = <<"request">> /\ queue'[c] = <<"created">>
    BY <1>2, <1>5, <2>1 DEF TokenAnswered, Early, Silent
  <2>3. SubAsked(c)'
    BY <1>1, <1>2, <1>3, <1>5, <2>2
       DEF TokenAnswered, SubAsked, Early, Silent, InFlight, NoTexts, GotSubscription
  <2>4. <<h, m>> \in C!Fitting(c)
    BY <1>5 DEF C!Fitting
  <2> QED BY <1>2, <1>4, <2>3, <2>4 DEF Phase
<1>6. CASE /\ SubAnswered(c) /\ C!Waits(c) /\ h = "created" /\ m = "subscription"
           /\ q = <<>> /\ down'[c] \in Seq({"xcm", "id"})
  <2>1. up'[c] = <<>> /\ queue'[c] = <<>> /\ deferred'[c] = <<>> /\ <<>> \in Seq({"more"})
    BY <1>1, <1>2, <1>6 DEF SubAnswered, Silent
  <2>2. Subscribed(c)'
    BY <1>1, <1>6, <2>1 DEF SubAnswered, Subscribed, NoTexts
  <2>3. <<h, m>> \in C!Fitting(c)
    BY <1>6 DEF C!Fitting
  <2> QED BY <1>2, <1>4, <2>2, <2>3 DEF Phase
<1>7. CASE /\ Subscribed(c) /\ h = "stream" /\ m \in {"xcm", "id"}
           /\ q = <<>> /\ down'[c] \in Seq({"xcm", "id"})
  <2>1. Subscribed(c)'
    BY <1>1, <1>2, <1>7 DEF Subscribed
  <2>2. <<h, m>> \in C!Fitting(c)
    BY <1>7 DEF C!Fitting
  <2> QED BY <1>2, <1>4, <2>1, <2>2 DEF Phase
<1>8. CASE /\ Guest(c) /\ m = "xcm" /\ down'[c] \in Seq({"xcm"})
           /\ h = "stream" \/ (h = "auth" /\ c \in Tokens)
           /\ q = <<>> \/ (q = <<"auth">> /\ c \in Tokens)
  <2>1. target[c] # OnDemand
    BY <1>8, SessionAssumption DEF Guest, Ids
  <2>2. Guest(c)'
    BY <1>1, <1>2, <1>8, <2>1 DEF Guest
  <2>3. <<h, m>> \in C!Fitting(c)
    BY <1>8, <2>1 DEF C!Fitting
  <2> QED BY <1>2, <1>4, <2>2, <2>3 DEF Phase
<1>9. \/ TokenAnswered(c) /\ C!Waits(c) /\ h = "auth" /\ m = "invalid" /\ q = <<>> /\ down'[c] = <<>>
      \/ /\ SubAnswered(c) /\ C!Waits(c) /\ h = "created" /\ m = "subscription"
         /\ q = <<>> /\ down'[c] \in Seq({"xcm", "id"})
      \/ /\ Subscribed(c) /\ h = "stream" /\ m \in {"xcm", "id"}
         /\ q = <<>> /\ down'[c] \in Seq({"xcm", "id"})
      \/ /\ Guest(c) /\ m = "xcm" /\ down'[c] \in Seq({"xcm"})
         /\ h = "stream" \/ (h = "auth" /\ c \in Tokens)
         /\ q = <<>> \/ (q = <<"auth">> /\ c \in Tokens)
  BY <1>1, ArrivedLemma
<1> HIDE DEF h, m, q
<1> QED BY <1>5, <1>6, <1>7, <1>8, <1>9

\* A Blob arrives: its handler is taken, and waits for its text.
LEMMA HandleBlobPhase ==
    ASSUME ServerTypes, JourneyInv, NEW c \in Clients, C!HandleBlob(c), UNCHANGED server
    PROVE  Phase(c)' /\ calls'[c] \subseteq C!Fitting(c)'
<1> DEFINE h == C!Taken(c)
           m == Head(down[c])
           q == C!Popped(c)
<1>1. /\ C!Arrived(c) /\ C!Streams(c) /\ queue' = [queue EXCEPT ![c] = q]
      /\ texts' = [texts EXCEPT ![c] = C!BagAdd(texts[c], <<h, m>>)]
      /\ UNCHANGED <<sock, target, up, calls, deferred, resolved>>
      /\ LibraryTypes /\ Phase(c)
  BY DEF C!HandleBlob, JourneyInv, server
<1>2. /\ queue'[c] = q /\ DOMAIN texts'[c] = DOMAIN texts[c] \cup {<<h, m>>}
      /\ <<h, m>> \notin DOMAIN texts[c] => texts'[c][<<h, m>>] = 1
  <2> DEFINE t == <<h, m>>
  <2>1. /\ DOMAIN C!BagAdd(texts[c], t) = DOMAIN texts[c] \cup {t}
        /\ t \notin DOMAIN texts[c] => C!BagAdd(texts[c], t)[t] = 1
    <3> HIDE DEF t
    <3> QED BY TextBags
  <2>2. texts'[c] = C!BagAdd(texts[c], t) /\ queue'[c] = q
    BY <1>1 DEF LibraryTypes
  <2> HIDE DEF t
  <2>3. /\ queue'[c] = q /\ DOMAIN texts'[c] = DOMAIN texts[c] \cup {t}
        /\ t \notin DOMAIN texts[c] => texts'[c][t] = 1
    BY <2>1, <2>2
  <2> QED BY <2>3 DEF t
<1>3. streaming'[c] = ~C!Waits(c)
  BY <1>1 DEF C!Streams, LibraryTypes
<1>4. calls'[c] \subseteq C!Fitting(c)'
  BY <1>1 DEF JourneyInv, HandlersGetTheirs, C!HandlersGetTheirs, C!Fitting
<1>5. CASE TokenAnswered(c) /\ C!Waits(c) /\ h = "auth" /\ m = "invalid" /\ q = <<>> /\ down'[c] = <<>>
  <2>1. TokenText(c)'
    BY <1>1, <1>2, <1>3, <1>5 DEF TokenAnswered, TokenText, Early, Silent, NoTexts, GotSubscription
  <2> QED BY <1>4, <2>1 DEF Phase
<1>6. CASE /\ SubAnswered(c) /\ C!Waits(c) /\ h = "created" /\ m = "subscription"
           /\ q = <<>> /\ down'[c] \in Seq({"xcm", "id"})
  <2>1. up'[c] = <<>> /\ deferred'[c] = <<>> /\ <<>> \in Seq({"more"})
    BY <1>1, <1>6 DEF SubAnswered, Silent
  <2>2. Subscribed(c)'
    BY <1>1, <1>2, <1>6, <2>1 DEF SubAnswered, Subscribed, NoTexts
  <2> QED BY <1>4, <2>2 DEF Phase
<1>7. CASE /\ Subscribed(c) /\ h = "stream" /\ m \in {"xcm", "id"}
           /\ q = <<>> /\ down'[c] \in Seq({"xcm", "id"})
  <2>1. Subscribed(c)'
    BY <1>1, <1>2, <1>7 DEF Subscribed
  <2> QED BY <1>4, <2>1 DEF Phase
<1>8. CASE /\ Guest(c) /\ m = "xcm" /\ down'[c] \in Seq({"xcm"})
           /\ h = "stream" \/ (h = "auth" /\ c \in Tokens)
           /\ q = <<>> \/ (q = <<"auth">> /\ c \in Tokens)
  <2>1. Guest(c)'
    BY <1>1, <1>2, <1>8 DEF Guest
  <2> QED BY <1>4, <2>1 DEF Phase
<1>9. \/ TokenAnswered(c) /\ C!Waits(c) /\ h = "auth" /\ m = "invalid" /\ q = <<>> /\ down'[c] = <<>>
      \/ /\ SubAnswered(c) /\ C!Waits(c) /\ h = "created" /\ m = "subscription"
         /\ q = <<>> /\ down'[c] \in Seq({"xcm", "id"})
      \/ /\ Subscribed(c) /\ h = "stream" /\ m \in {"xcm", "id"}
         /\ q = <<>> /\ down'[c] \in Seq({"xcm", "id"})
      \/ /\ Guest(c) /\ m = "xcm" /\ down'[c] \in Seq({"xcm"})
         /\ h = "stream" \/ (h = "auth" /\ c \in Tokens)
         /\ q = <<>> \/ (q = <<"auth">> /\ c \in Tokens)
  BY <1>1, ArrivedLemma
<1> HIDE DEF h, m, q
<1> QED BY <1>4, <1>5, <1>6, <1>7, <1>8, <1>9

\* The text of a Blob is there and its handler runs.
LEMMA TextReadyPhase ==
    ASSUME ServerTypes, JourneyInv, NEW c \in Clients, C!TextReady(c), UNCHANGED server
    PROVE  Phase(c)' /\ calls'[c] \subseteq C!Fitting(c)'
<1>1. PICK t \in DOMAIN texts[c] :
        /\ C!Runs(c, t[1], t[2], queue[c])
        /\ texts' = [texts EXCEPT ![c] = C!BagRemove(texts[c], t)]
  BY DEF C!TextReady
<1>2. /\ UNCHANGED <<sock, target, down, streaming, deferred, resolved>>
      /\ LibraryTypes /\ Phase(c)
  BY DEF C!TextReady, JourneyInv, server
<1>3. /\ calls'[c] = calls[c] \cup {<<t[1], t[2]>>}
      /\ t[1] = "auth" /\ target[c] = OnDemand =>
            up'[c] = Append(up[c], "request") /\ queue'[c] = Append(queue[c], "created")
      /\ ~(t[1] = "auth" /\ target[c] = OnDemand) => up'[c] = up[c] /\ queue'[c] = queue[c]
  BY <1>1, <1>2, RunsLemma
<1>4. /\ DOMAIN texts'[c] \subseteq DOMAIN texts[c]
      /\ texts[c][t] = 1 => DOMAIN texts'[c] = DOMAIN texts[c] \ {t}
  BY <1>1, <1>2, TextBags DEF LibraryTypes
<1>5. calls[c] \subseteq C!Fitting(c) /\ C!Fitting(c)' = C!Fitting(c)
  BY <1>2 DEF JourneyInv, HandlersGetTheirs, C!HandlersGetTheirs, C!Fitting
<1>6. CASE TokenText(c)
  <2>1. t = <<"auth", "invalid">> /\ texts[c][t] = 1 /\ DOMAIN texts[c] = {t}
    BY <1>1, <1>6 DEF TokenText
  <2>2. t[1] = "auth" /\ t[2] = "invalid" /\ DOMAIN texts'[c] = {}
    BY <1>4, <2>1
  <2>3. \A x : Append(<<>>, x) = <<x>>
    OBVIOUS
  <2>4. up'[c] = <<"request">> /\ queue'[c] = <<"created">>
    BY <1>3, <1>6, <2>2, <2>3 DEF TokenText, Early, Silent
  <2>5. SubAsked(c)'
    BY <1>2, <1>3, <1>6, <2>2, <2>4
       DEF TokenText, SubAsked, Early, Silent, InFlight, NoTexts, GotSubscription
  <2>6. <<t[1], t[2]>> \in C!Fitting(c)
    BY <2>2 DEF C!Fitting
  <2> QED BY <1>3, <1>5, <2>5, <2>6 DEF Phase
<1>7. CASE Subscribed(c)
  <2>1. t \in {<<"created", "subscription">>, <<"stream", "xcm">>, <<"stream", "id">>}
    BY <1>1, <1>7 DEF Subscribed
  <2>2. t[1] # "auth" /\ <<t[1], t[2]>> = t
    BY <2>1
  <2>3. Subscribed(c)'
    BY <1>2, <1>3, <1>4, <1>7, <2>2 DEF Subscribed
  <2>4. t \in C!Fitting(c)
    BY <2>1 DEF C!Fitting
  <2> QED BY <1>3, <1>5, <2>2, <2>3, <2>4 DEF Phase
<1>8. CASE Guest(c)
  <2>1. target[c] # OnDemand
    BY <1>8, SessionAssumption DEF Guest, Ids
  <2>2. t = <<"stream", "xcm">> \/ (t = <<"auth", "xcm">> /\ c \in Tokens)
    BY <1>1, <1>8 DEF Guest
  <2>3. <<t[1], t[2]>> = t
    BY <2>2
  <2>4. Guest(c)'
    BY <1>2, <1>3, <1>4, <1>8, <2>1 DEF Guest
  <2>5. t \in C!Fitting(c)
    BY <2>1, <2>2 DEF C!Fitting
  <2> QED BY <1>3, <1>5, <2>3, <2>4, <2>5 DEF Phase
<1> QED BY <1>1, <1>2, <1>6, <1>7, <1>8
        DEF Phase, Fresh, TokenAsked, TokenAnswered, SubAsked, SubAnswered, Lost, NoTexts

\* The caller asks again: only who has its subscription does.
LEMMA SendMorePhase ==
    ASSUME ServerTypes, JourneyInv, NEW c \in Clients, C!SendMore(c), UNCHANGED server
    PROVE  Phase(c)' /\ calls'[c] \subseteq C!Fitting(c)'
<1>1. /\ sock[c] = "open" /\ target[c] = OnDemand /\ GotSubscription(c)
      /\ up'[c] = Append(up[c], "more")
      /\ UNCHANGED <<sock, target, down, queue, streaming, texts, calls, deferred, resolved>>
  BY DEF C!SendMore, C!Sent, GotSubscription, server, ServerTypes
<1>2. Subscribed(c)
  BY <1>1, SessionAssumption DEF JourneyInv, Phase, Fresh, TokenAsked, TokenAnswered, TokenText,
     SubAsked, SubAnswered, Lost, Guest, Early, Ids
<1>3. up'[c] \in Seq({"more"})
  BY <1>1, <1>2, AppendProperties DEF Subscribed
<1>4. Subscribed(c)'
  BY <1>1, <1>2, <1>3 DEF Subscribed
<1>5. calls'[c] \subseteq C!Fitting(c)'
  BY <1>1 DEF JourneyInv, HandlersGetTheirs, C!HandlersGetTheirs, C!Fitting
<1> QED BY <1>4, <1>5 DEF Phase

\* The library keeps its types.
LEMMA LibraryTyped ==
    ASSUME ServerTypes, LibraryTypes, NEW c \in Clients,
           C!Receives(c) \/ C!SendMore(c)
    PROVE  /\ LibraryTypes'
           /\ \A d \in Clients \ {c} :
                 UNCHANGED <<up[d], down[d], queue[d], streaming[d], texts[d], calls[d]>>
           /\ UNCHANGED <<sock, target>>
<1>1. C!Popped(c) \in Seq({"auth", "created"})
  <2>1. queue[c] \in Seq({"auth", "created"})
    BY DEF LibraryTypes
  <2>2. queue[c] # <<>> => C!Front(queue[c]) \in Seq({"auth", "created"})
    <3>1. SUFFICES ASSUME queue[c] # <<>> PROVE C!Front(queue[c]) \in Seq({"auth", "created"})
      OBVIOUS
    <3> DEFINE s == queue[c]
    <3>2. Len(s) \in Nat /\ \A i \in 1..Len(s) : s[i] \in {"auth", "created"}
      BY <2>1, LenProperties, ElementOfSeq
    <3>3. SubSeq(s, 1, Len(s) - 1) \in Seq({"auth", "created"})
      <4> HIDE DEF s
      <4>1. \A i \in 1..(Len(s) - 1) : s[i] \in {"auth", "created"}
        BY <3>2
      <4> QED BY <3>2, <4>1, SubSeqProperties
    <3> QED BY <3>3 DEF C!Front
  <2> QED BY <2>1, <2>2 DEF C!Popped, C!Waits
<1>2. ASSUME NEW h, NEW m, NEW q \in Seq({"auth", "created"}), C!Runs(c, h, m, q)
      PROVE  /\ queue' \in [Clients -> Seq({"auth", "created"})] /\ DOMAIN calls' = Clients
             /\ \A d \in Clients \ {c} : UNCHANGED <<up[d], queue[d], calls[d]>>
  <2>1. Append(q, "created") \in Seq({"auth", "created"})
    BY <1>2, AppendProperties
  <2>2. queue' = [queue EXCEPT ![c] = q] \/ queue' = [queue EXCEPT ![c] = Append(q, "created")]
    BY <1>2 DEF C!Runs
  <2>3. /\ up' = up \/ up' = [up EXCEPT ![c] = Append(up[c], "request")]
        /\ calls' = [calls EXCEPT ![c] = calls[c] \cup {<<h, m>>}]
    BY <1>2 DEF C!Runs, C!Sent
  <2>4. queue' \in [Clients -> Seq({"auth", "created"})]
    BY <1>2, <2>1, <2>2 DEF LibraryTypes
  <2> QED BY <2>2, <2>3, <2>4 DEF LibraryTypes, ServerTypes
<1>3. CASE C!HandleText(c)
  <2>1. /\ C!Runs(c, C!Taken(c), Head(down[c]), C!Popped(c))
        /\ streaming' = [streaming EXCEPT ![c] = ~C!Waits(c)]
        /\ down' = [down EXCEPT ![c] = Tail(down[c])]
        /\ UNCHANGED <<sock, target, texts>>
    BY <1>3 DEF C!HandleText, C!Streams, C!Arrived
  <2>2. /\ queue' \in [Clients -> Seq({"auth", "created"})] /\ DOMAIN calls' = Clients
        /\ \A d \in Clients \ {c} : UNCHANGED <<up[d], queue[d], calls[d]>>
    BY <1>1, <1>2, <2>1
  <2>3. (~C!Waits(c)) \in BOOLEAN
    BY DEF C!Waits
  <2>4. streaming' \in [Clients -> BOOLEAN]
    BY <2>1, <2>3 DEF LibraryTypes
  <2> QED BY <2>1, <2>2, <2>4 DEF LibraryTypes, ServerTypes
<1>4. CASE C!HandleBlob(c)
  <2>1. /\ queue' = [queue EXCEPT ![c] = C!Popped(c)]
        /\ streaming' = [streaming EXCEPT ![c] = ~C!Waits(c)]
        /\ down' = [down EXCEPT ![c] = Tail(down[c])]
        /\ texts' = [texts EXCEPT ![c] = C!BagAdd(texts[c], <<C!Taken(c), Head(down[c])>>)]
        /\ UNCHANGED <<sock, target, up, calls>>
    BY <1>4 DEF C!HandleBlob, C!Streams, C!Arrived
  <2>2. (~C!Waits(c)) \in BOOLEAN
    BY DEF C!Waits
  <2>3. streaming' \in [Clients -> BOOLEAN] /\ queue' \in [Clients -> Seq({"auth", "created"})]
    BY <1>1, <2>1, <2>2 DEF LibraryTypes
  <2> QED BY <2>1, <2>3 DEF LibraryTypes, ServerTypes
<1>5. CASE C!TextReady(c)
  <2>1. PICK t \in DOMAIN texts[c] :
          /\ C!Runs(c, t[1], t[2], queue[c])
          /\ texts' = [texts EXCEPT ![c] = C!BagRemove(texts[c], t)]
    BY <1>5 DEF C!TextReady
  <2>2. UNCHANGED <<sock, target, down, streaming>>
    BY <1>5 DEF C!TextReady
  <2>3. queue[c] \in Seq({"auth", "created"})
    BY DEF LibraryTypes
  <2>4. /\ queue' \in [Clients -> Seq({"auth", "created"})] /\ DOMAIN calls' = Clients
        /\ \A d \in Clients \ {c} : UNCHANGED <<up[d], queue[d], calls[d]>>
    BY <1>2, <2>1, <2>3
  <2> QED BY <2>1, <2>2, <2>4 DEF LibraryTypes
<1>6. CASE C!SendMore(c)
  BY <1>6 DEF C!SendMore, C!Sent, LibraryTypes, ServerTypes
<1> QED BY <1>3, <1>4, <1>5, <1>6 DEF C!Receives

\* A socket is registered only after it attached, or resolved its subscription.
LEMMA MembersKept ==
    ASSUME ServerInv, Members, target' = target,
           \A d \in Clients : resolved[d] # None => resolved'[d] # None,
           \A x \in Ids : \A d \in ToSet(conns'[x]) :
              \/ d \in ToSet(conns[x])
              \/ target[d] # OnDemand \/ resolved'[d] # None
    PROVE  Members'
<1>1. \A x \in Ids : ToSet(conns[x]) \subseteq Clients
  BY DEF ServerInv, ServerTypes, ToSet
<1> SUFFICES ASSUME NEW x \in Ids, NEW d \in ToSet(conns'[x])
             PROVE  target'[d] # OnDemand \/ resolved'[d] # None
  BY DEF Members
<1>2. d \in ToSet(conns[x]) => d \in Clients /\ (target[d] # OnDemand \/ resolved[d] # None)
  BY <1>1 DEF Members
<1> QED BY <1>2

LEMMA MembersStep ==
    ASSUME ServerInv, Members, S!Step
    PROVE  Members'
<1>1. ASSUME UNCHANGED <<target, resolved>>,
             \A x \in Ids : ToSet(conns'[x]) \subseteq ToSet(conns[x])
      PROVE  Members'
  BY <1>1, MembersKept
<1>2. ASSUME NEW c \in Clients, S!Attach(c) PROVE Members'
  <2>1. /\ target[c] \in Ids /\ S!AddSubscriber(c, target[c]) /\ listening[c] = None
        /\ UNCHANGED <<sock, target, resolved>>
    BY <1>2, Library DEF S!Attach, S!net, ServerInv, ServerTypes, StageFits
  <2>2. \A x \in Ids : ToSet(conns'[x]) = ToSet(conns[x]) \cup IF x = target[c] THEN {c} ELSE {}
    BY <2>1, AddSubscriberLemma
  <2>3. target[c] # OnDemand
    BY <2>1, SessionAssumption DEF Ids
  <2> QED BY <2>1, <2>2, <2>3, MembersKept
<1>3. ASSUME NEW c \in Clients, S!Subscribe(c) \/ S!SubscribeFails(c) PROVE Members'
  <2>1. /\ S!Requested(c) /\ S!AddSubscriber(c, c) /\ c \in Ids /\ target' = target
    BY <1>3 DEF S!Subscribe, S!SubscribeFails, S!Requested, Ids
  <2>2. resolved' = [resolved EXCEPT ![c] = c] /\ c # None
    BY <2>1, SessionAssumption DEF S!Requested
  <2>3. \A x \in Ids : ToSet(conns'[x]) = ToSet(conns[x]) \cup IF x = c THEN {c} ELSE {}
    <3>1. conns' = [conns EXCEPT ![c] = Append(conns[c], c)]
      BY <2>1 DEF S!AddSubscriber
    <3>2. ToSet(Append(conns[c], c)) = ToSet(conns[c]) \cup {c}
      BY <2>1, AppendToSet DEF ServerInv, ServerTypes
    <3>3. \A x \in Ids : conns'[x] = IF x = c THEN Append(conns[c], c) ELSE conns[x]
      BY <3>1 DEF ServerInv, ServerTypes
    <3> QED BY <3>2, <3>3
  <2>4. \A d \in Clients : resolved'[d] = IF d = c THEN c ELSE resolved[d]
    BY <2>2 DEF ServerInv, ServerTypes
  <2> QED BY <2>1, <2>2, <2>3, <2>4, MembersKept
<1>4. ASSUME NEW c \in Clients, S!Close(c) PROVE Members'
  <2>1. UNCHANGED <<target, resolved>>
    BY <1>4 DEF S!Close
  <2>2. CASE listening[c] = None
    BY <1>1, <1>4, <2>1, <2>2 DEF S!Close
  <2>3. CASE listening[c] # None
    <3>1. listening[c] \in Ids /\ conns' \in {conns, S!Detached(listening[c], c)}
      BY <1>4, <2>3 DEF S!Close, S!EndWith, ServerInv, ServerTypes
    <3>2. \A x \in Ids : ToSet(conns'[x]) \subseteq ToSet(conns[x])
      BY <3>1, DetachedLemma DEF ServerInv
    <3> QED BY <1>1, <2>1, <3>2
  <2> QED BY <2>2, <2>3
<1>5. ASSUME NEW u \in clearing, S!Cleared(u) PROVE Members'
  <2>1. u.id \in Ids /\ conns' \in {conns, S!Detached(u.id, u.by)} /\ UNCHANGED <<target, resolved>>
    BY <1>5 DEF S!Cleared, S!net, ServerInv, ServerTypes
  <2>2. \A x \in Ids : ToSet(conns'[x]) \subseteq ToSet(conns[x])
    BY <2>1, DetachedLemma DEF ServerInv
  <2> QED BY <1>1, <2>1, <2>2
<1>6. ASSUME NEW c \in Clients,
             S!Refuse(c) \/ S!Listen(c) \/ S!Data(c) \/ S!AnswerId(c) \/ S!AnswerInvalid(c)
      PROVE  Members'
  <2>1. UNCHANGED <<target, resolved, conns>>
    BY <1>6 DEF S!Refuse, S!Listen, S!Data, S!AnswerId, S!AnswerInvalid, S!net
  <2> QED BY <1>1, <2>1
<1>7. ASSUME NEW id \in Ids, NEW ch,
             S!Delete(id) \/ S!Notify(id) \/ S!Post(id, ch)
      PROVE  Members'
  <2>1. UNCHANGED <<target, resolved, conns>>
    BY <1>7 DEF S!Delete, S!Notify, S!Post, S!net, S!server
  <2> QED BY <1>1, <2>1
<1>8. ASSUME NEW c \in Clients, S!Callbacks(c) \/ S!Close(c) PROVE Members'
  BY <1>2, <1>3, <1>4, <1>6, <1>8 DEF S!Callbacks
<1> QED BY <1>5, <1>7, <1>8, Library DEF S!Step

\* A step of the server for one socket changes nothing about the others.
LEMMA OthersServed ==
    ASSUME ServerInv, NEW c \in Clients, S!Callbacks(c) \/ S!Close(c), NEW d \in Clients \ {c}
    PROVE  UNCHANGED <<sock[d], target[d], up[d], down[d], deferred[d], resolved[d]>>
<1>1. ASSUME NEW m, S!Write({c}, m) PROVE down'[d] = down[d]
  BY <1>1 DEF S!Write
<1>2. ASSUME S!ServerCloses(c) PROVE sock'[d] = sock[d]
  BY <1>2 DEF S!ServerCloses, ServerInv, ServerTypes
<1>3. CASE S!Refuse(c) \/ S!Listen(c) \/ S!Attach(c)
  BY <1>2, <1>3 DEF S!Refuse, S!Listen, S!Attach, S!net
<1>4. CASE S!Data(c)
  BY <1>4 DEF S!Data, ServerInv, ServerTypes
<1>5. ASSUME S!Callback(c) PROVE deferred'[d] = deferred[d]
  BY <1>5 DEF S!Callback, ServerInv, ServerTypes
<1>6. CASE S!AnswerId(c) \/ S!AnswerInvalid(c)
  BY <1>1, <1>5, <1>6 DEF S!AnswerId, S!AnswerInvalid
<1>7. CASE S!Subscribe(c) \/ S!SubscribeFails(c)
  <2>1. deferred'[d] = deferred[d] /\ resolved'[d] = resolved[d]
    BY <1>5, <1>7 DEF S!Subscribe, S!SubscribeFails, S!Requested, ServerInv, ServerTypes
  <2> QED BY <1>1, <1>2, <1>7, <2>1 DEF S!Subscribe, S!SubscribeFails
<1>8. CASE S!Close(c)
  BY <1>8 DEF S!Close, ServerInv, ServerTypes
<1> QED BY <1>3, <1>4, <1>6, <1>7, <1>8 DEF S!Callbacks

\* A step of the server for one socket takes its client to a phase.
LEMMA ServedPhase ==
    ASSUME ServerInv, LibraryTypes, NEW c \in Clients, Phase(c),
           S!Callbacks(c) \/ S!Close(c), UNCHANGED library
    PROVE  Phase(c)' /\ target' = target
<1>1. CASE S!Refuse(c)
  <2>1. /\ UNCHANGED <<target, up, down, deferred, resolved, queue, streaming, texts, calls>>
        /\ sock'[c] = IF sock[c] = "open" THEN "closing" ELSE sock[c]
    BY <1>1 DEF S!Refuse, S!ServerCloses, ServerInv, ServerTypes, library
  <2> QED BY <2>1, PhaseFrame
<1>2. CASE S!Listen(c) \/ S!Attach(c)
  <2>1. UNCHANGED <<sock, target, up, down, deferred, resolved, queue, streaming, texts, calls>>
    BY <1>2 DEF S!Listen, S!Attach, S!net, library
  <2> QED BY <2>1, PhaseFrame
<1>3. CASE S!Close(c)
  <2>1. /\ UNCHANGED <<target, up, down, deferred, resolved, queue, streaming, texts, calls>>
        /\ sock[c] # "unused" /\ sock'[c] = "closed"
    BY <1>3 DEF S!Close, ServerInv, ServerTypes, library
  <2> QED BY <2>1, PhaseFrame
<1>4. CASE S!Data(c)
  BY <1>4, DataPhase DEF S!Data
<1>5. CASE S!AnswerId(c)
  BY <1>5, AnswerIdPhase DEF S!AnswerId
<1>6. CASE S!AnswerInvalid(c)
  BY <1>6, AnswerInvalidPhase DEF S!AnswerInvalid
<1>7. CASE S!Subscribe(c) \/ S!SubscribeFails(c)
  BY <1>7, RequestPhase DEF S!Subscribe, S!SubscribeFails
<1> QED BY <1>1, <1>2, <1>3, <1>4, <1>5, <1>6, <1>7 DEF S!Callbacks

LEMMA ServerJourney ==
    ASSUME ServerInv, JourneyInv, S!Step, UNCHANGED library
    PROVE  JourneyInv'
<1>1. LibraryTypes' /\ Members'
  BY MembersStep DEF JourneyInv, LibraryTypes, library
<1>2. ASSUME \A d \in Clients : Phase(d)', target' = target PROVE JourneyInv'
  <2>1. \A d \in Clients : calls'[d] \subseteq C!Fitting(d)'
    BY <1>2 DEF JourneyInv, HandlersGetTheirs, C!HandlersGetTheirs, C!Fitting, library
  <2> QED BY <1>1, <1>2, <2>1 DEF JourneyInv, HandlersGetTheirs, C!HandlersGetTheirs
<1>3. ASSUME NEW c \in Clients, S!Callbacks(c) \/ S!Close(c) PROVE JourneyInv'
  <2>1. Phase(c)' /\ target' = target
    BY <1>3, ServedPhase DEF JourneyInv
  <2>2. ASSUME NEW d \in Clients \ {c} PROVE Phase(d)'
    BY <1>3, <2>2, OthersServed, PhaseFrame DEF JourneyInv, library
  <2> QED BY <1>2, <2>1, <2>2
<1>4. ASSUME NEW id \in Ids, S!Notify(id) PROVE JourneyInv'
  BY <1>2, <1>4, NotifyPhase DEF JourneyInv, S!Notify
<1>5. ASSUME UNCHANGED <<sock, target, up, down, deferred, resolved>> PROVE JourneyInv'
  BY <1>2, <1>5, PhaseFrame DEF JourneyInv, library
<1>6. ASSUME NEW u \in clearing, S!Cleared(u) PROVE JourneyInv'
  BY <1>5, <1>6 DEF S!Cleared, S!net
<1>7. ASSUME NEW id \in Ids, NEW ch, S!Delete(id) \/ S!Post(id, ch) PROVE JourneyInv'
  BY <1>5, <1>7 DEF S!Delete, S!Post, S!net, S!server
<1> QED BY <1>3, <1>4, <1>6, <1>7, Library DEF S!Step

LEMMA ClientJourney ==
    ASSUME ServerInv, JourneyInv, NEW c \in Clients, C!Receives(c) \/ C!SendMore(c),
           UNCHANGED server
    PROVE  JourneyInv'
<1>1. Phase(c)' /\ calls'[c] \subseteq C!Fitting(c)'
  BY HandleTextPhase, HandleBlobPhase, TextReadyPhase, SendMorePhase DEF C!Receives, ServerInv
<1>2. /\ LibraryTypes' /\ UNCHANGED <<sock, target>>
      /\ \A d \in Clients \ {c} :
            UNCHANGED <<up[d], down[d], queue[d], streaming[d], texts[d], calls[d]>>
  BY LibraryTyped DEF ServerInv, JourneyInv
<1>3. UNCHANGED <<deferred, resolved, conns>>
  BY DEF server
<1>4. ASSUME NEW d \in Clients \ {c} PROVE Phase(d)' /\ calls'[d] \subseteq C!Fitting(d)'
  BY <1>2, <1>3, OthersFrame
<1>5. Members'
  BY <1>2, <1>3 DEF JourneyInv, Members
<1> QED BY <1>1, <1>2, <1>4, <1>5 DEF JourneyInv, HandlersGetTheirs, C!HandlersGetTheirs

LEMMA ConnectJourney ==
    ASSUME ServerInv, JourneyInv, NEW c \in Clients, NEW t \in Goals[c], Connect(c, t)
    PROVE  JourneyInv'
<1>1. /\ sock[c] = "unused" /\ sock' = [sock EXCEPT ![c] = "open"]
      /\ target' = [target EXCEPT ![c] = t]
      /\ UNCHANGED <<down, deferred, resolved, conns, streaming, texts, calls>>
  BY DEF Connect, C!Open, S!Accept
<1>2. Phase(c)' /\ calls'[c] = {}
  BY ConnectPhase DEF ServerInv, JourneyInv
<1>3. /\ up' = up \/ \E m : up' = [up EXCEPT ![c] = m]
      /\ queue' = queue \/ queue' = [queue EXCEPT ![c] = <<"auth">>]
                        \/ queue' = [queue EXCEPT ![c] = <<"created">>]
  BY DEF Connect, C!Open, C!Sent
<1>4. LibraryTypes'
  <2>1. <<"auth">> \in Seq({"auth", "created"}) /\ <<"created">> \in Seq({"auth", "created"})
    OBVIOUS
  <2>2. queue' \in [Clients -> Seq({"auth", "created"})]
    BY <1>3, <2>1 DEF JourneyInv, LibraryTypes
  <2> QED BY <1>1, <2>2 DEF JourneyInv, LibraryTypes
<1>5. ASSUME NEW d \in Clients \ {c}
      PROVE  UNCHANGED <<sock[d], target[d], up[d], queue[d]>>
  BY <1>1, <1>3 DEF ServerInv, ServerTypes, JourneyInv, LibraryTypes
<1>6. ASSUME NEW d \in Clients \ {c} PROVE Phase(d)' /\ calls'[d] \subseteq C!Fitting(d)'
  BY <1>1, <1>5, OthersFrame
<1>7. Members'
  <2>1. Fresh(c)
    BY <1>1 DEF JourneyInv, Phase, TokenAsked, TokenAnswered, TokenText, SubAsked, SubAnswered,
       Subscribed, Lost, Guest
  <2>2. \A id \in Ids : c \notin ToSet(conns[id]) /\ ToSet(conns[id]) \subseteq Clients
    BY <2>1 DEF JourneyInv, Members, Fresh, Early, ServerInv, ServerTypes, ToSet
  <2> QED BY <1>1, <1>5, <2>2 DEF JourneyInv, Members
<1> QED BY <1>2, <1>4, <1>6, <1>7 DEF JourneyInv, HandlersGetTheirs, C!HandlersGetTheirs

LEMMA JourneyInit == Init => JourneyInv
<1> SUFFICES ASSUME Init PROVE JourneyInv
  OBVIOUS
<1>1. /\ sock = [c \in Clients |-> "unused"] /\ target = [c \in Clients |-> OnDemand]
      /\ up = [c \in Clients |-> <<>>] /\ down = up /\ deferred = up
      /\ resolved = [c \in Clients |-> None] /\ conns = [id \in Ids |-> <<>>]
      /\ queue = [c \in Clients |-> <<>>] /\ streaming = [c \in Clients |-> FALSE]
      /\ texts = [c \in Clients |-> C!EmptyBag] /\ calls = [c \in Clients |-> {}]
  BY Library DEF Init, S!Init, C!Init
<1>2. DOMAIN C!EmptyBag = {}
  BY DEF C!EmptyBag, C!SetToBag
<1>3. LibraryTypes
  <2>1. <<>> \in Seq({"auth", "created"})
    OBVIOUS
  <2>2. queue \in [Clients -> Seq({"auth", "created"})]
    BY <1>1, <2>1
  <2> QED BY <1>1, <2>2 DEF LibraryTypes
<1>4. ASSUME NEW c \in Clients PROVE Fresh(c)
  BY <1>1, <1>2 DEF Fresh, Early, Silent, NoTexts, GotSubscription
<1>5. Members
  <2>1. ToSet(<<>>) = {}
    BY DEF ToSet
  <2> QED BY <1>1, <2>1 DEF Members
<1>6. HandlersGetTheirs
  BY <1>1 DEF HandlersGetTheirs, C!HandlersGetTheirs
<1> QED BY <1>3, <1>4, <1>5, <1>6 DEF JourneyInv, Phase

\* The library gives each message to the handler it is for: the answer to the
\* token, the subscription and what follows each to its own, whatever order texts
\* of Blobs come in (HandlersGetTheirs; client.ts, class Protocol).
THEOREM HandlersAreRight == Spec => []HandlersGetTheirs
<1>1. ServerInv /\ JourneyInv /\ [Next]_vars => JourneyInv'
  <2>1. ASSUME ServerInv, JourneyInv, Next PROVE JourneyInv'
    BY <2>1, ConnectJourney, ClientJourney, ServerJourney DEF Next
  <2>2. ASSUME ServerInv, JourneyInv, UNCHANGED vars PROVE JourneyInv'
    <3>1. UNCHANGED <<sock, target, up, down, deferred, resolved, conns, queue, streaming, texts, calls>>
      BY <2>2 DEF vars, net, server, library
    <3>2. \A d \in Clients : Phase(d)' /\ calls'[d] \subseteq C!Fitting(d)'
      BY <2>2, <3>1, OthersFrame
    <3>3. LibraryTypes' /\ Members'
      BY <2>2, <3>1 DEF JourneyInv, LibraryTypes, Members
    <3> QED BY <3>2, <3>3 DEF JourneyInv, HandlersGetTheirs, C!HandlersGetTheirs
  <2> QED BY <2>1, <2>2
<1>2. JourneyInv => HandlersGetTheirs
  BY DEF JourneyInv
<1> QED BY <1>1, <1>2, JourneyInit, ServerInductive, PTL DEF Spec
=============================================================================
