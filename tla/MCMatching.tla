----------------------------- MODULE MCMatching -----------------------------
(***************************************************************************)
(* Instances of Matching for TLC.                                          *)
(***************************************************************************)
EXTENDS Matching, TLC

Types == INSTANCE XcmTypes

OneSub == {"a"}
AlonePrefix == [s \in OneSub |-> {s}]
NoOrder == {}

\* One leg between two parachains, with a topic id.
Out(s) == Types!GenericXcmSent(s, "1000", "cafe", "topic", <<"2000">>)
In(s) == Types!XcmInbound(s, "2000", "cafe", "topic")
Rel(s) == Types!GenericXcmRelayedWithContext(s, "1000", "2000", "cafe", "topic")

SingleOuts == {Out("a")}
SingleIns == {In("a")}
SingleRelays == {Rel("a")}

\* Up to the relay chain: one stop, nothing for the relay to relay.
Up(id) == Types!GenericXcmSent("a", "1000", "cafe", id, <<"0">>)
UpIn(id) == Types!XcmInbound("a", "0", "cafe", id)
UpOuts == {Up("topic")}
UpIns == {UpIn("topic")}

\* A journey that stops over at the relay chain: what leaves there has another
\* hash, and the same topic.
HopOrigin == Types!GenericXcmSent("a", "1000", "cafe", "topic", <<"0", "2000">>)
HopOut == Types!GenericXcmSent("a", "0", "dead", "topic", <<"2000">>)
HopIn == Types!XcmInbound("a", "0", "cafe", "topic")
HopEnd == Types!XcmInbound("a", "2000", "dead", "topic")
HopOuts == {HopOrigin, HopOut}
HopIns == {HopIn, HopEnd}
OriginFirst == {<<HopOrigin, m>> : m \in {HopOut, HopIn, HopEnd}}

\* Two subscriptions; with the separator, the id of the first begins that of the second.
NestedSubs == {"a", "a:b"}
NestedPrefix == ("a" :> NestedSubs) @@ ("a:b" :> {"a:b"})

\* One program, without topic, sent to the relay chain by two parachains, and one arrival:
\* the first subscription sees both messages under one key, the second one of them.
Peer(s, origin) == Types!GenericXcmSent(s, origin, "cafe", NoId, <<"0">>)
PeerOuts == {Peer("a", "1000"), Peer("a", "2000"), Peer("a:b", "1000")}
PeerIns == {UpIn(NoId)}

NoRelays == {}
NoSubs == {}
=============================================================================
