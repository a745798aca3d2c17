------------------------------ MODULE Extract ------------------------------
(***************************************************************************)
(* The extraction of XCM observations from the blocks of the chains, for   *)
(* one subscription (services/monitoring/ops, wired by the switchboard).   *)
(*                                                                         *)
(* The messages an origin sends are told by its events and calls, which do *)
(* not carry them: each extractor asks the storage of the block for the    *)
(* queue the message was put in, and looks for the message there when the  *)
(* answer comes.  Answers come in any order.  On the relay chain the pages *)
(* of a backed candidate are read, on a destination the events that report *)
(* an outcome, each together with the event before it.  A value that       *)
(* cannot be read ends the stream that reads it; the switchboard subscribes*)
(* it again later.                                                         *)
(*                                                                         *)
(* A chain is <<consensus, chain id>>.  What the chains do (which events   *)
(* and storage a message leaves, how a location is written) is external.   *)
(***************************************************************************)
EXTENDS Naturals, SequencesExt, FiniteSetsExt

CONSTANTS
    Routes,    \* [origin, destinations, at, msgs, most]: subscriptions, the
               \* destination looked at (or None), what the chains may send, and
               \* the bound: how much of it the origin sends
    NoId,      \* a hash, a topic or an id that is absent
    None,      \* not resolved, not found, no event yet
    Unread,    \* the outcome of reading what cannot be read
    MaxBatch,  \* bound: messages of one block
    MaxFaults  \* bound: streams that fail for want of an answer, odd pages

Chains == STRING \X STRING

ASSUME ValuesAssumption ==
    /\ None \notin STRING \cup Chains
    /\ Unread \notin {None} \cup STRING \cup Chains \cup Seq(Chains)
    /\ \A r \in Routes :
           r.origin \in Chains /\ IsFiniteSet(r.msgs) /\ Unread \notin r.msgs \cup Seq(r.msgs)

\* An Ethereum is written with its chain id, any other network by its name.
InEthereum(network) == network[1] = "ethereum"

\* A message: [from, path, sender, hash, topic, ver, shape, via].  It is handed to
\* another chain of its consensus, path[1], whose program may send on to several
\* chains, and theirs to others: path[i] is sent to by path[sender[i]], in the order in
\* which the nested programs are read.  An Ethereum sends nothing on, and version 2 has
\* no other consensus.
ASSUME MessagesAssumption ==
    \A r \in Routes : \A m \in r.msgs :
        /\ m.from \in Chains /\ m.path \in Seq(Chains) /\ m.path # <<>>
        /\ m.path[1][1] = m.from[1] /\ m.path[1] # m.from /\ ~InEthereum(m.from)
        /\ m.sender \in [DOMAIN m.path -> Nat]
        /\ \A i \in 2 .. Len(m.path) :
               /\ m.sender[i] \in 1 .. i - 1
               /\ \A j \in 2 .. i - 1 : m.sender[i] \notin m.sender[j] + 1 .. j - 1
               /\ m.path[i] # m.path[m.sender[i]] /\ ~InEthereum(m.path[m.sender[i]])
               /\ m.ver = "V2" => m.path[i][1] = m.from[1]
        /\ m.hash # NoId
        /\ m.ver \in {"V2", "V3", "V4", "V5"}
        /\ m.ver = "V2" => m.topic = NoId
        /\ m.via \in {"transfer", "send"}

VARIABLES
    sub,         \* the subscription
    up,          \* the streams that are subscribed
    sent,        \* the messages of the origin's blocks so far
    queue,       \* the downward messages no parachain took yet
    pending,     \* the storage queries under way
    reports,     \* outbound observations handed to the engine
    candidates,  \* the pages of blocks of the origin not yet on the relay chain
    relayed,     \* relayed observations handed to the engine
    prev,        \* the event the inbound extractor holds
    inbound,     \* inbound observations handed to the engine
    faults,
    heard,       \* history: messages of blocks that streams now up have all seen
    hidden,      \* history: messages after an unreadable one of their page
    included,    \* history: candidates the relay stream saw
    shown        \* history: outcomes the inbound stream saw

vars == <<sub, up, sent, queue, pending, reports, candidates, relayed, prev,
          inbound, faults, heard, hidden, included, shown>>
histories == <<heard, hidden, included, shown>>
----------------------------------------------------------------------------
(* Networks and locations *)

createNetworkId(network, chainId) == <<network[1], chainId>>
getRelayId(network) == createNetworkId(network, "0")
isRelay(network) == network[2] = "0"

\* How a chain writes where another one is.  A location has a number of parents and,
\* inside them, a consensus (of an Ethereum with its chain id) and a parachain.
Location(ver, from, to) ==
    LET down == IF isRelay(from) THEN 0 ELSE 1
        para == IF isRelay(to) \/ InEthereum(to) THEN None ELSE to[2]
    IN  IF from[1] = to[1]
        THEN [ver |-> ver, parents |-> down, global |-> None, chainId |-> None, para |-> para]
        ELSE [ver |-> ver, parents |-> down + 1, global |-> to[1],
              chainId |-> IF InEthereum(to) THEN to[2] ELSE None, para |-> para]

isHere(loc) == loc.global = None /\ loc.para = None
isX1(loc) == (loc.global = None) # (loc.para = None)

\* Junctions are asked for asX1 to tell their version, which throws if they are not X1.
getParaIdFromMultiLocation(loc) ==
    IF isHere(loc) THEN IF loc.parents = 1 THEN "0" ELSE None
    ELSE IF ~isX1(loc) THEN Unread
    ELSE loc.para

AlwaysHere(loc, network) ==
    LET id == getParaIdFromMultiLocation(loc)
    IN  IF id \in {None, Unread} THEN id ELSE createNetworkId(network, id)

\* Up to one parent the location is taken to be in the consensus of the network.  Above,
\* X1 of version 4 passes for version 2 and is not named, and X1 of version 3 is named
\* if it has a chain id.
networkIdFromMultiLocation(loc, network) ==
    IF loc.parents <= 1
    THEN LET id == getParaIdFromMultiLocation(loc)
         IN  IF id \in {None, Unread} THEN id ELSE createNetworkId(network, id)
    ELSE IF ~isX1(loc) THEN Unread
    ELSE IF loc.ver = "V3" /\ loc.chainId # None THEN <<loc.global, loc.chainId>>
    ELSE None

\* The places of seq in S.
Kept(seq, S) == FlattenSeq([i \in DOMAIN seq |-> IF i \in S THEN <<seq[i]>> ELSE <<>>])

\* An instruction that sends on what it carries has a destination and a program: what is
\* kept are the destinations, each with the one whose program it is in, or 0.
Program(m) ==
    [i \in 1 .. Len(m.path) - 1 |->
        [dest |-> Location(m.ver, m.path[m.sender[i + 1]], m.path[i + 1]),
         in |-> m.sender[i + 1] - 1]]

\* Each nested program is read if the stop it is for could be named, and as that chain
\* would read it.
recursiveExtractStops(network, program) ==
    LET stop[i \in 0 .. Len(program)] ==
            IF i = 0 THEN network
            ELSE IF stop[program[i].in] \in {None, Unread} THEN None
            ELSE networkIdFromMultiLocation(program[i].dest, stop[program[i].in])
    IN  IF \E i \in DOMAIN program : stop[i] = Unread THEN Unread
        ELSE Kept([i \in DOMAIN program |-> stop[i]], {i \in DOMAIN program : stop[i] # None})

mapXcmSent(recipient, m) ==
    LET stops == recursiveExtractStops(sub.origin, Program(m))
    IN  IF stops = Unread THEN Unread ELSE <<recipient>> \o stops

messageCriteria(network) == network \in sub.destinations
matchMessage(stops) == messageCriteria(Last(stops))
----------------------------------------------------------------------------
(* Programs *)

Decodes(m) == m.ver # "V5"

NoTopic(m) == NoId

\* The topic an XCM of version 3 or later sets, if any.
getMessageId(m) == IF m.ver = "V2" THEN NoId ELSE m.topic

\* The id the sending chain gives a message in its Sent event.
IdOf(m) == IF m.topic = NoId THEN m.hash ELSE m.topic

Unreadable(messages) == {m \in ToSet(messages) : ~Decodes(m)}

\* The first of the messages that is in good, unless one before it is in bad.
Search(messages, bad, good) ==
    LET hits == {i \in DOMAIN messages : messages[i] \in bad \cup good}
    IN  IF hits = {} THEN None
        ELSE IF messages[Min(hits)] \in bad THEN Unread
        ELSE messages[Min(hits)]

\* The XCM fragments of a page up to the first that does not decode.
asXcmpVersionedXcms(programs) ==
    LET bad == {i \in DOMAIN programs : ~Decodes(programs[i])}
    IN  IF bad = {} THEN programs ELSE SubSeq(programs, 1, Min(bad) - 1)

SignalsThrow(page) ==
    IF page.format = "fragments" THEN asXcmpVersionedXcms(page.data) ELSE Unread

fromXcmpFormat(page) ==
    CASE page.format = "fragments" -> asXcmpVersionedXcms(page.data)
      [] page.format = "signals" -> <<>>
      [] OTHER -> Unread
----------------------------------------------------------------------------
(* Outbound extractors.  A query holds the call or event that caused it, with  *)
(* what it tells of the message, and the storage of its block.                 *)

monitorOrigins(s) == IF isRelay(s.origin) THEN {"dmp", "dmpEvent"} ELSE {"xcmp", "ump"}

shouldMonitorRelay(s) == ~isRelay(s.origin) /\ \E d \in s.destinations : ~isRelay(d)

Streams(s) ==
    monitorOrigins(s) \cup (IF s.at = None THEN {} ELSE {"in"}) \cup (IF shouldMonitorRelay(s) THEN {"relay"} ELSE {})

SentOnly == [dmp |-> {"call"}, dmpEvent |-> {"Sent"}, xcmp |-> {"Sent"}, ump |-> {"Sent"}]

Methods == [dmp |-> {"call"},
            dmpEvent |-> {"Sent"},
            xcmp |-> {"XcmpMessageSent", "Sent"},
            ump |-> {"UpwardMessageSent", "Sent"}]

findDmpMessagesFromTx(q) ==
    Search(q.storage, Unreadable(q.storage),
           {m \in ToSet(q.storage) : Len(q.storage) = 1 \/ m.shape = q.msg.shape})

matchProgramByTopic(m, id) == getMessageId(m) # NoId /\ getMessageId(m) = id

findDmpMessagesFromEvent(q) ==
    IF Len(q.storage) = 1
    THEN Search(q.storage, Unreadable(q.storage), ToSet(q.storage))
    ELSE Search(q.storage, {m \in ToSet(q.storage) : m.ver \in {"V2", "V5"}},
                {m \in ToSet(q.storage) : matchProgramByTopic(m, q.id)})

FoundBy(q, m) == IF q.id # NoId THEN getMessageId(m) = q.id ELSE m.hash = q.hash

findOutboundHrmpMessage(q) ==
    IF \E i \in DOMAIN q.storage : fromXcmpFormat(q.storage[i]) = Unread THEN Unread
    ELSE LET messages == FlattenSeq([i \in DOMAIN q.storage |-> fromXcmpFormat(q.storage[i])])
         IN  Search(messages, {}, {m \in ToSet(messages) : FoundBy(q, m)})

findOutboundUmpMessage(q) ==
    IF Unreadable(q.storage) # {} THEN Unread
    ELSE Search(q.storage, {}, {m \in ToSet(q.storage) : FoundBy(q, m)})

Found(q) ==
    CASE q.by = "dmp" -> findDmpMessagesFromTx(q)
      [] q.by = "dmpEvent" -> findDmpMessagesFromEvent(q)
      [] q.by = "xcmp" -> findOutboundHrmpMessage(q)
      [] q.by = "ump" -> findOutboundUmpMessage(q)

\* Downward, the recipient is read from the call or event; else from where the
\* message was found.
Recipient(q, m) ==
    CASE q.by \in {"dmp", "dmpEvent"} ->
             networkIdFromMultiLocation(Location(q.msg.ver, sub.origin, q.msg.path[1]), sub.origin)
      [] q.by = "xcmp" -> createNetworkId(sub.origin, m.path[1][2])
      [] q.by = "ump" -> getRelayId(sub.origin)

\* The observation, and the message whose call or event led to it.
GenericXcmSent(q, m) ==
    [by |-> q.by, cause |-> q.msg, msg |-> m, hash |-> m.hash, id |-> getMessageId(m),
     stops |-> mapXcmSent(Recipient(q, m), m)]

emitOutbound(r) == reports' = IF matchMessage(r.stops) THEN reports \cup {r} ELSE reports
----------------------------------------------------------------------------
(* The origin chain *)

Hop(m) == m.path[1]

\* The messages of a queue that go to one of the chains, in their order.
MsgsTo(messages, chains) ==
    Kept(messages, {i \in DOMAIN messages : Hop(messages[i]) \in chains})

Page(to, format, data) == [to |-> to, format |-> format, data |-> data]

Tell(method, m, hash, id, ok) ==
    [method |-> method, msg |-> m, hash |-> hash, id |-> id, ok |-> ok]

Call(m, ok) == Tell("call", m, NoId, NoId, ok)

\* The calls and events of message m.
Told(m) ==
    LET sends == {Tell("Sent", m, NoId, IdOf(m), TRUE)}
    IN  CASE isRelay(m.from) ->
                 sends \cup (IF m.via = "transfer" THEN {Call(m, TRUE)} ELSE {})
          [] isRelay(Hop(m)) ->
                 {Tell("UpwardMessageSent", m, m.hash, NoId, TRUE)}
                     \cup (IF m.via = "send" THEN sends ELSE {})
          [] OTHER ->
                 {Tell("XcmpMessageSent", m, m.hash, NoId, TRUE)}
                     \cup (IF m.via = "send" THEN sends ELSE {})

TakesAll(x, t) == t.method \in Methods[x]

\* The filters of the extractors.  A call counts if it was dispatched without error.
Takes(x, t) == t.method \in Methods[x] /\ t.ok

Query(x, t, storage) ==
    [by |-> x, method |-> t.method, msg |-> t.msg, hash |-> t.hash, id |-> t.id,
     storage |-> storage]

\* The messages of a page that come after one that cannot be read.
Behind(data) ==
    {data[k] : k \in {i \in DOMAIN data : \E j \in 1 .. i - 1 : ~Decodes(data[j])}}

\* A block with the messages of batch; the calls of failed sent nothing.  pages is
\* what it leaves for the other parachains.
Block(batch, failed, pages) ==
    LET after == IF isRelay(sub.origin) THEN queue \o batch ELSE queue
        told == (UNION {Told(batch[i]) : i \in DOMAIN batch})
                    \cup {Call(m, FALSE) : m \in failed}
        storage(x, t) ==
            CASE x \in {"dmp", "dmpEvent"} -> MsgsTo(after, {Hop(t.msg)})
              [] x = "xcmp" -> pages
              [] x = "ump" -> MsgsTo(batch, {getRelayId(sub.origin)})
    IN  /\ sent' = sent \cup ToSet(batch) \cup failed
        /\ queue' = after
        /\ pending' = pending \cup
               {Query(p[1], p[2], storage(p[1], p[2])) :
                    p \in {c \in (up \cap monitorOrigins(sub)) \X told : Takes(c[1], c[2])}}
        /\ heard' = IF monitorOrigins(sub) \subseteq up THEN heard \cup ToSet(batch) ELSE heard
        /\ hidden' = hidden \cup UNION {Behind(pages[i].data) : i \in DOMAIN pages}
        /\ candidates' = IF "relay" \in Streams(sub) /\ pages # <<>>
                         THEN Append(candidates, pages) ELSE candidates
        /\ UNCHANGED <<sub, up, reports, relayed, prev, inbound, included, shown>>

Unsent == {m \in sub.msgs \ sent : m.from = sub.origin}

OriginBlock ==
    \E S \in SUBSET Unsent, failed \in SUBSET {m \in Unsent : m.via = "transfer"} :
        /\ S # {} /\ S \cap failed = {}
        /\ failed # {} => isRelay(sub.origin)
        /\ Cardinality(S \cup failed) <= MaxBatch
        /\ Cardinality(S \cup failed \cup sent) <= sub.most
        /\ \E batch \in SetToSeqs(S),
              tos \in SetToSeqs({Hop(m) : m \in S} \ {getRelayId(sub.origin)}) :
               Block(batch, failed,
                     IF isRelay(sub.origin) THEN <<>>
                     ELSE [i \in DOMAIN tos |->
                              Page(tos[i], "fragments", MsgsTo(batch, {tos[i]}))])
        /\ UNCHANGED faults

\* A block whose first page is no XCM: a signal, or a format nobody knows.
OddBlock ==
    \E m \in Unsent, to \in {Hop(n) : n \in sub.msgs}, format \in {"signals", "unknown"} :
        /\ {to, Hop(m)} \cap {sub.origin, getRelayId(sub.origin)} = {} /\ to # Hop(m)
        /\ ~isRelay(sub.origin)
        /\ faults < MaxFaults /\ faults' = faults + 1
        /\ Cardinality(sent) < sub.most
        /\ Block(<<m>>, {}, <<Page(to, format, <<>>), Page(Hop(m), "fragments", <<m>>)>>)

\* A parachain takes the downward messages it was sent.
Drain ==
    \E m \in ToSet(queue) :
        /\ queue' = MsgsTo(queue, {Hop(n) : n \in ToSet(queue)} \ {Hop(m)})
        /\ UNCHANGED <<sub, up, sent, pending, reports, candidates, relayed, prev,
                       inbound, faults, histories>>
----------------------------------------------------------------------------
(* Answers and failures *)

Fall(x) ==
    /\ up' = up \ {x}
    /\ pending' = {q \in pending : q.by # x}
    /\ heard' = IF x \in monitorOrigins(sub) THEN {} ELSE heard

Answer(q) ==
    /\ IF \/ Found(q) = Unread
          \/ Found(q) # None /\ GenericXcmSent(q, Found(q)).stops = Unread
       THEN Fall(q.by) /\ UNCHANGED reports
       ELSE /\ pending' = pending \ {q}
            /\ IF Found(q) = None THEN UNCHANGED reports
               ELSE emitOutbound(GenericXcmSent(q, Found(q)))
            /\ UNCHANGED <<up, heard>>
    /\ UNCHANGED <<sub, sent, queue, candidates, relayed, prev, inbound, faults,
                   hidden, included, shown>>

\* A query is refused, or the blocks of the chain are.
StreamFails ==
    \E x \in up :
        /\ faults < MaxFaults /\ faults' = faults + 1
        /\ Fall(x)
        /\ UNCHANGED <<sub, sent, queue, reports, candidates, relayed, prev, inbound,
                       hidden, included, shown>>

\* The switchboard subscribes a stream that failed.
Resubscribe ==
    /\ \E x \in Streams(sub) \ up :
           /\ up' = up \cup {x}
           /\ prev' = IF x = "in" THEN None ELSE prev
    /\ UNCHANGED <<sub, sent, queue, pending, reports, candidates, relayed, inbound,
                   faults, histories>>
----------------------------------------------------------------------------
(* The relay chain *)

FirstPage(pages) == IF pages = <<>> THEN {} ELSE {1}

WantedPages(pages) == {i \in DOMAIN pages : messageCriteria(pages[i].to)}

\* The first page for a wanted recipient, if any.
FirstWantedPage(pages) ==
    IF WantedPages(pages) = {} THEN {} ELSE {Min(WantedPages(pages))}

\* messageId ?? messageHash, and the message.
GenericXcmRelayed(m, to) ==
    [msg |-> m, recipient |-> to, hash |-> m.hash,
     id |-> IF getMessageId(m) = NoId THEN m.hash ELSE getMessageId(m)]

extractRelayReceive(pages) ==
    LET pick == FirstWantedPage(pages)
        programs(i) == fromXcmpFormat(pages[i])
    IN  IF \E i \in pick : programs(i) = Unread
        THEN up' = up \ {"relay"} /\ UNCHANGED relayed
        ELSE /\ relayed' = relayed \cup
                    UNION {{GenericXcmRelayed(m, pages[i].to) : m \in ToSet(programs(i))}
                               : i \in pick}
             /\ UNCHANGED up

RelayBlock ==
    /\ candidates # <<>>
    /\ candidates' = Tail(candidates)
    /\ IF "relay" \in up
       THEN /\ extractRelayReceive(Head(candidates))
            /\ included' = included \cup {Head(candidates)}
       ELSE UNCHANGED <<up, relayed, included>>
    /\ UNCHANGED <<sub, sent, queue, pending, reports, prev, inbound, faults, heard, hidden,
                   shown>>
----------------------------------------------------------------------------
(* The destination chain *)

\* An event: its method, the message it is about, and the hash, id and origin it
\* names.
Event(method, m, hash, id, origin) ==
    [method |-> method, msg |-> m, hash |-> hash, id |-> id, origin |-> origin]

\* The ways a chain tells that it executed m.
Outcomes(m) ==
    CASE isRelay(m.from) ->
             {Event("ExecutedDownward", m, NoId, m.hash, None),
              Event("ExecutedDownward", m, m.hash, IdOf(m), None)}
             \cup {Event(e, m, NoId, IdOf(m), None) : e \in {"Processed", "ProcessingFailed"}}
      [] isRelay(Hop(m)) ->
             {Event(e, m, NoId, IdOf(m), o) : e \in {"Processed", "ProcessingFailed"},
                                              o \in {m.from, None}}
      [] OTHER ->
             {Event(e, m, m.hash, NoId, None) : e \in {"Success", "Fail"}}

InMethods(s) ==
    IF isRelay(s.at) THEN {"Processed", "ProcessingFailed"}
    ELSE IF isRelay(s.origin) THEN {"ExecutedDownward", "Processed"}
    ELSE {"Success", "Fail"}

KnownOrigin(e) == isRelay(sub.at) => e.origin = sub.origin

\* Of upward messages, those of another origin are left out if the origin is known.
FromOrigin(e) == isRelay(sub.at) => e.origin \in {sub.origin, None}

\* messageHash ?? messageId, messageId ?? messageHash, and the trap just before.
XcmInbound(e, before) ==
    [msg |-> e.msg,
     hash |-> IF e.hash = NoId THEN e.id ELSE e.hash,
     id |-> IF e.id = NoId THEN e.hash ELSE e.id,
     trap |-> IF before # None /\ before.method = "AssetsTrapped"
              THEN before.msg ELSE None]

\* What is reported of event e after the event before.
extractReceive(e, before) ==
    IF before # None /\ e.method \in InMethods(sub) /\ FromOrigin(e)
    THEN {XcmInbound(e, before)} ELSE {}

\* What bufferCount(2, 1) holds after event e: pairs overlap.
bufferCount(e) == e

\* Horizontal messages the relay chain did not see yet.
Underway ==
    UNION {UNION {ToSet(candidates[i][j].data) : j \in DOMAIN candidates[i]}
               : i \in DOMAIN candidates}

\* The chain executes m: the outcome comes right after the trap, if any.  What
\* happens while the stream is down is seen by nobody.
Arrive(m, e, trapped) ==
    LET trap == Event("AssetsTrapped", m, NoId, NoId, None)
        before == IF trapped THEN trap ELSE prev
    IN  /\ Hop(m) = sub.at
        /\ m.from = sub.origin => m \in sent \ UNION {ToSet(queue), Underway}
        /\ m \notin {s.msg : s \in shown}
        /\ "in" \in up
        /\ inbound' = inbound \cup extractReceive(e, before)
        /\ prev' = bufferCount(e)
        /\ shown' = shown \cup {[msg |-> m, event |-> e, trapped |-> trapped,
                                 first |-> before = None]}
        /\ UNCHANGED <<sub, up, sent, queue, pending, reports, candidates, relayed, faults,
                       heard, hidden, included>>

Other == [method |-> "Other"]

\* Any other event of the chain.
OtherEvent ==
    /\ "in" \in up
    /\ prev' = bufferCount(Other)
    /\ UNCHANGED <<sub, up, sent, queue, pending, reports, candidates, relayed, inbound,
                   faults, histories>>
----------------------------------------------------------------------------
Init ==
    /\ sub \in Routes
    /\ up = Streams(sub)
    /\ sent = {} /\ queue = <<>> /\ pending = {} /\ reports = {}
    /\ candidates = <<>> /\ relayed = {}
    /\ prev = None /\ inbound = {}
    /\ faults = 0
    /\ heard = {} /\ hidden = {} /\ included = {} /\ shown = {}

Next ==
    \/ OriginBlock \/ OddBlock \/ Drain
    \/ \E q \in pending : Answer(q)
    \/ StreamFails \/ Resubscribe
    \/ RelayBlock
    \/ \E m \in sub.msgs, trapped \in BOOLEAN : \E e \in Outcomes(m) : Arrive(m, e, trapped)
    \/ OtherEvent

Spec == Init /\ [][Next]_vars

\* Every query is answered, or its stream fails.
Settle == \E q \in pending : pending' \in SUBSET (pending \ {q})

FairSpec == Spec /\ WF_pending(Settle)
----------------------------------------------------------------------------
(* Properties *)

\* An outbound report is about the message of the call or event that led to it,
\* unless it told the message by no more than another one has too: its hash, or,
\* for a call, its assets and beneficiary.
OnlyLookalikesMislead ==
    \A r \in reports :
        \/ r.msg = r.cause
        \/ r.by = "dmp" /\ r.cause.via = "transfer" /\ r.msg.shape = r.cause.shape
        \/ r.by \in {"xcmp", "ump"} /\ r.msg.hash = r.cause.hash

\* The i-th stop of m is named if what sends to it is: a chain of the same consensus, and
\* an Ethereum a parachain writes in version 3.
Nameable(m, i) ==
    LET from == m.path[m.sender[i]]
    IN  \/ m.path[i][1] = from[1]
        \/ InEthereum(m.path[i]) /\ m.ver = "V3" /\ ~isRelay(from)

\* The i-th stop of m is a parachain of another consensus than what sends to it.
Bridged(m, i) ==
    /\ m.path[i][1] # m.path[m.sender[i]][1]
    /\ ~isRelay(m.path[i]) /\ ~InEthereum(m.path[i])

\* The stops of a report (recursiveExtractStops) are those the message makes, in their
\* order, without the ones that cannot be named and all that comes of those.  Of a
\* message that goes on to a parachain of another consensus there is no report.
StopsFollowPath ==
    \A r \in reports :
        \E S \in SUBSET DOMAIN r.msg.path :
            /\ r.stops = <<Hop(r.msg)>> \o Kept(Tail(r.msg.path), {i - 1 : i \in S \ {1}})
            /\ 1 \in S
            /\ \A i \in 2 .. Len(r.msg.path) :
                   i \in S <=> r.msg.sender[i] \in S /\ Nameable(r.msg, i)
            /\ \A i \in 2 .. Len(r.msg.path) : r.msg.sender[i] \in S => ~Bridged(r.msg, i)

\* What is reported of one message on two chains meets in the matching engine: an
\* inbound shares its hash or id with the outbound, a relayed its id.
ReportsMeet ==
    \A r \in reports :
        /\ \A i \in inbound :
               i.msg = r.msg => {i.hash, i.id} \cap ({r.hash, r.id} \ {NoId}) # {}
        /\ \A l \in relayed :
               l.msg = r.msg => l.id = IF r.id = NoId THEN r.hash ELSE r.id

\* Every outcome the inbound stream saw is reported, with the trap of that message
\* and of no other, but for the first event after a subscription, a downward
\* message whose processing failed, and what comes from elsewhere.
OnlyFirstOutcomesAreMissed ==
    \A s \in shown :
        \/ \E i \in inbound : /\ i.msg = s.msg
                              /\ i.trap = IF s.trapped THEN s.msg ELSE None
        \/ s.first
        \/ isRelay(s.msg.from) /\ s.event.method = "ProcessingFailed"
        \/ s.msg.from # sub.origin

\* What the relay stream saw of the origin for a wanted recipient is reported, but
\* for what comes after another wanted recipient in the same candidate, or after
\* what could not be read.
OnlyFirstRecipientsAreRelayed ==
    \A pages \in included : \A i \in DOMAIN pages : \A j \in DOMAIN pages[i].data :
        LET m == pages[i].data[j]
        IN  \/ [msg |-> m, recipient |-> pages[i].to] \in
                   {[msg |-> l.msg, recipient |-> l.recipient] : l \in relayed}
            \/ pages[i].to \notin sub.destinations
            \/ \E k \in 1 .. i - 1 : pages[k].to \in sub.destinations
            \/ \E k \in 1 .. j : ~Decodes(pages[i].data[k])

\* What a stream cannot read in the answer to q: a page of an unknown format, a message
\* that does not decode or, where topics are looked for, an old one; and a message found
\* that goes on to a parachain of another consensus.
Breaks(q) ==
    \/ q.by = "xcmp" /\ \E page \in ToSet(q.storage) : page.format = "unknown"
    \/ q.by # "xcmp" /\ \E m \in ToSet(q.storage) : ~Decodes(m)
    \/ q.by = "dmpEvent" /\ Len(q.storage) > 1 /\ \E m \in ToSet(q.storage) : m.ver = "V2"
    \/ /\ Found(q) \notin {None, Unread}
       /\ \E i \in 2 .. Len(Found(q).path) : Bridged(Found(q), i)

\* A stream ends for want of an answer or for what it cannot read there, and the relay
\* stream for a page of an unknown format.  Signals, unreadable fragments of a page and
\* other stops that have no name end none.
OnlyUnreadablesEndStreams ==
    [][\A x \in up \ up' :
          \/ StreamFails
          \/ \E q \in pending : q.by = x /\ Answer(q) /\ Breaks(q)
          \/ /\ x = "relay"
             /\ \E page \in ToSet(Head(candidates)) :
                    page.format = "unknown" /\ messageCriteria(page.to)]_vars

\* A message with a topic, for a destination of the subscription, whose block all
\* outbound streams saw is reported, as long as none of them falls, but for two cases.
\* What comes after an unreadable fragment of its page is dropped in silence
\* (xcm-format.ts:59-63), and a stop that cannot be named may leave the last one out.
Owed ==
    {m \in heard \ hidden : /\ Decodes(m) /\ m.topic # NoId
                            /\ \A i \in 2 .. Len(m.path) : Nameable(m, i)
                            /\ Last(m.path) \in sub.destinations
                            /\ m \notin {r.msg : r \in reports}}

TaggedAreReported == Owed # {} ~> Owed = {}
=============================================================================
