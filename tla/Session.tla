------------------------------- MODULE Session -------------------------------
(***************************************************************************)
(* Clients of the library (Client) and the websocket protocol of the server *)
(* (Websocket), joined by their sockets: what one sends the other receives, *)
(* in order, until the socket closes.                                      *)
(***************************************************************************)
EXTENDS Integers

CONSTANTS
    Clients, Persistent, OnDemand, None, Http, MaxClients, MaxEphemeral,
    MaxNotify, MaxHttp, Tokens, Blobs,
    Goals   \* bound: what each client may ask for

VARIABLES
    sock, target, up, down,
    stage, deferred, resolved, listening, subs, conns, clientsNum, ephemeral,
    clearing, notified, requests,
    queue, streaming, texts, calls, extra

ASSUME SessionAssumption ==
    /\ Goals \in [Clients -> SUBSET ({OnDemand} \cup Persistent \cup Clients)]
    /\ \A c \in Clients : c \notin Goals[c]
    /\ Tokens \subseteq Clients /\ Blobs \subseteq Clients
    /\ OnDemand \notin Persistent \cup Clients
    /\ Persistent \cap Clients = {}
    /\ None \notin Persistent \cup Clients \cup {"websocket", "other"}
    /\ Http \notin Clients
    /\ MaxClients \in Nat /\ MaxEphemeral \in Nat /\ MaxNotify \in Nat /\ MaxHttp \in Nat

S == INSTANCE Websocket
C == INSTANCE Client

net == <<sock, target, up, down>>
server == <<stage, deferred, resolved, listening, subs, conns, clientsNum,
            ephemeral, clearing, notified, requests>>
library == <<queue, streaming, texts, calls, extra>>
vars == <<net, server, library>>

Init == S!Init /\ C!Init

\* A client opens a socket and the server accepts it.
Connect(c, t) ==
    /\ C!Open(c, t) /\ S!Accept(c, t)

Next ==
    \/ \E c \in Clients : \E t \in Goals[c] : Connect(c, t)
    \/ \E c \in Clients : (C!Receives(c) \/ C!SendMore(c)) /\ UNCHANGED server
    \/ S!Step /\ UNCHANGED library

Spec == Init /\ [][Next]_vars

\* Callbacks run, texts are read and writes end; clients need not close.
FairSpec ==
    /\ Spec
    /\ \A c \in Clients : /\ WF_vars(C!Receives(c) /\ UNCHANGED server)
                          /\ WF_vars(S!Callbacks(c) /\ UNCHANGED library)
    /\ WF_vars(S!Progress /\ UNCHANGED library)
----------------------------------------------------------------------------
(* Properties *)

TypeOK == S!TypeOK /\ C!TypeOK

\* The server's count of clients is that of the sockets it will still hear close,
\* and the switchboard's count of ephemeral subscriptions that of their handlers.
CountsAreRight == S!ClientsAreCounted /\ S!EphemeralsAreCounted

\* An ephemeral subscription outlives its sockets only through a callback that
\* runs after the close.
OnlyLateCallbacksAbandon == S!OnlyLateCallbacksAbandon

\* An open socket loses its subscription only to a DELETE, or to another socket of
\* the same ephemeral subscription that closes.
OnlyOthersDeafen == S!OnlyOthersDeafen

\* The library gives each message to the handler it is for, texts of Blobs that
\* come out of order included.
HandlersGetTheirs == C!HandlersGetTheirs

\* Every client that asks for a subscription of its own is given it, or its
\* socket closes: with a token too, though the server does not answer tokens.
RequestsAreAnswered ==
    \A c \in Clients :
        (sock[c] = "open" /\ target[c] = OnDemand)
            ~> (<<"created", "subscription">> \in calls[c] \/ sock[c] = "closed")
=============================================================================
