--------------------------- MODULE MCSwitchboard ---------------------------
(***************************************************************************)
(* Instances of Switchboard for TLC.                                       *)
(***************************************************************************)
EXTENDS Switchboard

ThreeChains == <<"0", "1000", "2000">>

Desc(dests, senders, relayed) ==
    [origin |-> "1000", dests |-> dests, senders |-> senders, relayed |-> relayed]

Plain == Desc({"2000"}, "all", TRUE)
Back == [origin |-> "2000", dests |-> {"1000"}, senders |-> "all", relayed |-> FALSE]
SomeDescs == {Plain, Desc({"0", "2000"}, "alice", TRUE),
              Desc({"2000"}, "all", FALSE), Back}

One(id, d) == [id |-> id, desc |-> d]
SomeBatches == {<<One("a", Plain)>>, <<One("a", Back), One("a", Plain)>>}
=============================================================================
