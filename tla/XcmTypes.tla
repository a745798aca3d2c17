------------------------------ MODULE XcmTypes ------------------------------
(***************************************************************************)
(* The observations the matching engine is given, as their constructors    *)
(* build them (services/monitoring/types.ts).  Only what matching reads is  *)
(* kept: the subscription, the chains, the hash, the id and the stops.      *)
(***************************************************************************)
EXTENDS Naturals, SequencesExt

CONSTANTS NoId,  \* a message without topic id
          Relay  \* the relay chain of the consensus

\* Two parachains reach one another through their relay chain.
LegStops(from, to) ==
    IF from # Relay /\ to # Relay THEN <<Relay, to>> ELSE <<to>>

\* legs.map(l => l.to) of a message sent from origin along path.
constructLegs(origin, path) ==
    LET nodes == <<origin>> \o path
    IN  FlattenSeq([i \in DOMAIN path |-> LegStops(nodes[i], nodes[i + 1])])

GenericXcmSent(sub, origin, hash, id, path) ==
    [kind |-> "out", sub |-> sub, origin |-> origin, dest |-> Last(path),
     hash |-> hash, id |-> id, stops |-> constructLegs(origin, path)]

XcmInbound(sub, chain, hash, id) ==
    [kind |-> "in", sub |-> sub, chain |-> chain, hash |-> hash,
     id |-> IF id = NoId THEN hash ELSE id]

GenericXcmRelayedWithContext(sub, origin, recipient, hash, id) ==
    [kind |-> "relay", sub |-> sub, origin |-> origin, recipient |-> recipient,
     hash |-> hash, id |-> IF id = NoId THEN hash ELSE id]
=============================================================================
