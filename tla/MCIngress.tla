----------------------------- MODULE MCIngress -----------------------------
(***************************************************************************)
(* Instances of Ingress for TLC.                                           *)
(***************************************************************************)
EXTENDS Ingress, TLC

\* Two requests of one storage key and block, and one of another block.
ChainOf == [r \in Requests |-> "a"]
KeyOf == [r \in Requests |-> "hrmp"]
AtOf == ("r1" :> "h1") @@ ("r2" :> "h1") @@ ("r3" :> "h2")

\* Blocks of one chain, storage requests, or networks that come later, each
\* with what can go wrong.
Only(c) == {{c}}
BlockLoad ==
    [configs |-> Only("a"), blocks |-> MaxBlocks, requests |-> {}, restarts |-> 2,
     errors |-> 1, upgrades |-> 1, trims |-> 1]
RequestLoad ==
    [configs |-> Only("a"), blocks |-> 0, requests |-> Requests, restarts |-> 2,
     errors |-> 1, upgrades |-> 0, trims |-> 0]
NetworkLoad ==
    [configs |-> {{"a"}, {"a", "b"}}, blocks |-> 1, requests |-> {}, restarts |-> 2,
     errors |-> 0, upgrades |-> 0, trims |-> 0]
SomeLoads == {BlockLoad, RequestLoad, NetworkLoad}
=============================================================================
