----------------------------- MODULE MCExtract -----------------------------
(* An instance of Extract: a relay chain, its parachains and a foreign one. *)
EXTENDS Extract

Rel == <<"dot", "0">>
A == <<"dot", "1000">>
B == <<"dot", "2000">>
C == <<"dot", "3000">>
D == <<"dot", "4000">>
K == <<"ksm", "2000">>
KRel == <<"ksm", "0">>
E == <<"ethereum", "1">>

\* Each stop sends to the next one.
Msg(from, path, hash, topic, ver, shape, via) ==
    [from |-> from, path |-> path, sender |-> [i \in DOMAIN path |-> i - 1],
     hash |-> hash, topic |-> topic, ver |-> ver, shape |-> shape, via |-> via]

\* Downward: two alike but for their topics, an old one, one to an Ethereum that is not
\* named, one unreadable.
Downward ==
    {Msg(Rel, <<A>>, "h1", "t1", "V3", "s1", "transfer"),
     Msg(Rel, <<A>>, "h2", "t2", "V3", "s1", "transfer"),
     Msg(Rel, <<A>>, "h3", NoId, "V2", "s2", "transfer"),
     Msg(Rel, <<A, E>>, "h4", "t4", "V4", "s3", "send"),
     Msg(Rel, <<A>>, "h5", NoId, "V5", "s3", "send")}

\* Horizontal: twins without a topic, one that goes on to a parachain of another
\* consensus, one to an Ethereum, one that forks, one unreadable.
Horizontal ==
    {Msg(A, <<B>>, "h1", "t1", "V3", "s1", "send"),
     Msg(A, <<B>>, "h2", NoId, "V2", "s1", "transfer"),
     Msg(A, <<C>>, "h2", NoId, "V2", "s1", "transfer"),
     Msg(A, <<B, K>>, "h3", "t3", "V3", "s2", "transfer"),
     [Msg(A, <<D, Rel, B, C>>, "h4", "t4", "V3", "s2", "send")
          EXCEPT !.sender = <<0, 1, 2, 1>>],
     Msg(A, <<B>>, "h5", NoId, "V5", "s1", "transfer"),
     Msg(A, <<B, E>>, "h6", "t6", "V3", "s2", "transfer")}

\* Upward: with a topic, an old one, one whose second stop is not named, one unreadable.
Upward ==
    {Msg(A, <<Rel>>, "u1", "v1", "V3", "s1", "send"),
     Msg(A, <<Rel, B>>, "u2", NoId, "V2", "s1", "transfer"),
     Msg(A, <<Rel, KRel, B>>, "u3", "v3", "V3", "s1", "send"),
     Msg(A, <<Rel>>, "u4", NoId, "V5", "s1", "transfer")}

\* What the inbound streams are shown: of the origin, tagged and not, and of others.
Tagged(S) == {m \in S : m.via = "send" /\ m.topic # NoId /\ Len(m.path) = 1}
Untagged(S) == {m \in S : m.ver = "V2" /\ m.path \in {<<A>>, <<B>>, <<Rel, B>>}}

Foreign ==
    {Msg(B, <<Rel>>, "f1", "g1", "V3", "s1", "send"),
     Msg(C, <<B>>, "f2", NoId, "V2", "s1", "transfer")}

Route(origin, destinations, at, msgs, most) ==
    [origin |-> origin, destinations |-> destinations, at |-> at, msgs |-> msgs,
     most |-> most]

\* Each protocol, seen from the origin and seen from the destination.
AllRoutes ==
    {Route(Rel, {A, B}, None, Downward, 3),
     Route(A, {B, C, E}, None, Horizontal, 2),
     Route(A, {Rel, B}, None, Upward, 3),
     Route(Rel, {A}, A, {m \in Downward : m.hash \in {"h1", "h3"}}, 1),
     Route(A, {B}, B, Tagged(Horizontal) \cup Untagged(Horizontal) \cup Foreign, 1),
     Route(A, {Rel, B}, Rel, Tagged(Upward) \cup Untagged(Upward) \cup Foreign, 1)}
=============================================================================
