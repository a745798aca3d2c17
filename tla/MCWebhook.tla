----------------------------- MODULE MCWebhook -----------------------------
(***************************************************************************)
(* Instances of Webhook for TLC.                                           *)
(***************************************************************************)
EXTENDS Webhook

BothAccept == [m \in Messages |-> Webhooks]

SomeChannels == {<<"w1">>, <<"log", "w1", "w2">>}
=============================================================================
