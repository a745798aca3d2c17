----------------------------- MODULE MCSession -----------------------------
(***************************************************************************)
(* Instances of Session for TLC.                                           *)
(***************************************************************************)
EXTENDS Session, TLC

\* An owner, a client that attaches (to the owner's subscription or to the
\* persistent one), and one that is another owner or attaches.
OwnersAndGuest ==
    ("c1" :> {OnDemand}) @@ ("c2" :> {"c1", "p"}) @@ ("c3" :> {OnDemand, "p"})
=============================================================================
