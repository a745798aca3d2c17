----------------------------- MODULE Websocket -----------------------------
(***************************************************************************)
(* The websocket protocol of the server                                    *)
(* (services/monitoring/api/ws/protocol.ts and plugin.ts) over the part of  *)
(* the switchboard that keeps handlers of ephemeral subscriptions.          *)
(*                                                                         *)
(* A socket asks for an existing subscription by its path, or makes an      *)
(* ephemeral one with its first message.  Both are served by callbacks put  *)
(* off with setImmediate: the socket may close between the event and the    *)
(* callback.  The id made for a socket is the socket itself.                *)
(***************************************************************************)
EXTENDS Integers, Sequences, SequencesExt, FiniteSets, FiniteSetsExt

CONSTANTS
    Clients,       \* the sockets
    Persistent,    \* ids of persistent subscriptions
    OnDemand,      \* the target of a socket that names no subscription
    None,
    Http,          \* who unsubscribes, when it is not a socket that closes
    MaxClients,    \* wsMaxClients
    MaxEphemeral,  \* subscriptionMaxEphemeral
    MaxNotify,     \* bound: notifications
    MaxHttp        \* bound: requests of the HTTP API

Ids == Persistent \cup Clients
Targets == {OnDemand} \cup Ids

VARIABLES
    sock,       \* the sockets: unused, open, closing (by the server), closed
    target,     \* what each socket asked for
    up, down,   \* the messages on their way to the server and to the client
    stage,      \* how far the server is with a socket
    deferred,   \* data handed to callbacks that have not run
    resolved,   \* resolvedId of an on-demand socket
    listening,  \* the sockets with a close listener: the subscription it is for
    subs,       \* the handlers: None, or whether the websocket channel is on
    conns,      \* #connections
    clientsNum, \* #clientsNum
    ephemeral,  \* the switchboard's count of ephemeral subscriptions
    clearing,   \* unsubscriptions that wait for clearPendingStates
    notified, requests

server == <<stage, deferred, resolved, listening, conns, clientsNum>>
board == <<subs, ephemeral, clearing>>
net == <<sock, target, up, down>>
bounds == <<notified, requests>>
vars == <<net, server, board, bounds>>

IsEphemeral(id) == id \in Clients
Enabled == "websocket"
Disabled == "other"

Reply == {"subscription", "invalid", "id"}

TypeOK ==
    /\ sock \in [Clients -> {"unused", "open", "closing", "closed"}]
    /\ target \in [Clients -> Targets]
    /\ \A c \in Clients : /\ up[c] \in Seq({"token", "request", "more"})
                          /\ down[c] \in Seq(Reply \cup {"xcm"})
                          /\ deferred[c] \in Seq({"token", "request", "more"})
    /\ stage \in [Clients -> {"none", "accepted", "data", "served", "refused"}]
    /\ resolved \in [Clients -> Clients \cup {None}]
    /\ listening \in [Clients -> Ids \cup {None}]
    /\ subs \in [Ids -> {None, Enabled, Disabled}]
    /\ \A id \in Ids : conns[id] \in Seq(Clients)
    /\ clientsNum \in 0..Cardinality(Clients)
    /\ ephemeral \in 0..MaxEphemeral
    /\ clearing \subseteq [id : Ids, by : Clients \cup {Http}]

Init ==
    /\ sock = [c \in Clients |-> "unused"] /\ target = [c \in Clients |-> OnDemand]
    /\ up = [c \in Clients |-> <<>>] /\ down = up /\ deferred = up
    /\ stage = [c \in Clients |-> "none"]
    /\ resolved = [c \in Clients |-> None] /\ listening = resolved
    /\ subs = [id \in Ids |-> IF id \in Persistent THEN Enabled ELSE None]
    /\ conns = [id \in Ids |-> <<>>]
    /\ clientsNum = 0 /\ ephemeral = 0 /\ clearing = {}
    /\ notified = 0 /\ requests = 0
----------------------------------------------------------------------------
(* Writing and closing *)

\* safeWrite: nothing is written to a socket that is closing or closed.
Write(cs, m) ==
    down' = [c \in Clients |->
                IF c \in cs /\ sock[c] = "open" THEN Append(down[c], m) ELSE down[c]]

\* stream.socket.close(code): the close event comes later.
ServerCloses(c) ==
    sock' = [sock EXCEPT ![c] = IF @ = "open" THEN "closing" ELSE @]

\* #addSubscriber.  The close listener is installed now, even when the close
\* event has already been emitted and will not come again.
AddSubscriber(c, id) ==
    /\ clientsNum' = clientsNum + 1
    /\ conns' = [conns EXCEPT ![id] = Append(@, c)]
    /\ listening' = [listening EXCEPT ![c] = id]
----------------------------------------------------------------------------
(* Serving a socket *)

\* The route handler: handle is put off.
Accept(c, t) ==
    /\ stage[c] = "none"
    /\ stage' = [stage EXCEPT ![c] = "accepted"]
    /\ UNCHANGED <<deferred, resolved, listening, conns, clientsNum, board, bounds>>

TooBusy(c) == clientsNum >= MaxClients

Served(c, s) == stage' = [stage EXCEPT ![c] = s]

Refuse(c) ==
    /\ stage[c] = "accepted"
    /\ \/ TooBusy(c)
       \/ target[c] \in Ids /\ subs[target[c]] # Enabled
    /\ Served(c, "refused") /\ ServerCloses(c)
    /\ UNCHANGED <<target, up, down, deferred, resolved, listening, conns, clientsNum, board, bounds>>

Listen(c) ==
    /\ stage[c] = "accepted" /\ ~TooBusy(c)
    /\ target[c] = OnDemand
    /\ Served(c, "data")
    /\ UNCHANGED <<net, deferred, resolved, listening, conns, clientsNum, board, bounds>>

Attach(c) ==
    /\ stage[c] = "accepted" /\ ~TooBusy(c)
    /\ target[c] \in Ids /\ subs[target[c]] = Enabled
    /\ Served(c, "served")
    /\ AddSubscriber(c, target[c])
    /\ UNCHANGED <<net, deferred, resolved, board, bounds>>

\* A data event: its callback is put off.
Data(c) ==
    /\ stage[c] = "data" /\ up[c] # <<>> /\ sock[c] \in {"open", "closing"}
    /\ deferred' = [deferred EXCEPT ![c] = Append(@, Head(up[c]))]
    /\ up' = [up EXCEPT ![c] = Tail(@)]
    /\ UNCHANGED <<sock, target, down, stage, resolved, listening, conns, clientsNum, board, bounds>>

Callback(c) ==
    /\ deferred[c] # <<>>
    /\ deferred' = [deferred EXCEPT ![c] = Tail(@)]

\* The socket has its subscription: its id is written.
AnswerId(c) ==
    /\ Callback(c) /\ resolved[c] # None
    /\ Write({c}, "id")
    /\ UNCHANGED <<sock, target, up, stage, resolved, listening, conns, clientsNum, board, bounds>>

\* What does not parse is answered with the error.
AnswerInvalid(c) ==
    /\ Callback(c) /\ resolved[c] = None /\ Head(deferred[c]) = "token"
    /\ Write({c}, "invalid")
    /\ UNCHANGED <<sock, target, up, stage, resolved, listening, conns, clientsNum, board, bounds>>

Requested(c) ==
    /\ Callback(c) /\ resolved[c] = None /\ Head(deferred[c]) \in {"request", "more"}
    /\ AddSubscriber(c, c)
    /\ resolved' = [resolved EXCEPT ![c] = c]

TooMany == ephemeral >= MaxEphemeral

\* switchboard.subscribe of an ephemeral subscription has no await before its
\* monitors are set up: the callback is one step.
Subscribe(c) ==
    /\ Requested(c) /\ ~TooMany
    /\ subs' = [subs EXCEPT ![c] = Enabled]
    /\ ephemeral' = ephemeral + 1
    /\ Write({c}, "subscription")
    /\ UNCHANGED <<sock, target, up, stage, clearing, bounds>>

\* There are too many subscriptions, or a monitor throws.
SubscribeFails(c) ==
    /\ Requested(c)
    /\ ServerCloses(c)
    /\ UNCHANGED <<target, up, down, stage, board, bounds>>
----------------------------------------------------------------------------
(* Unsubscribing *)

\* Variant: the count is lowered whoever unsubscribes, handler or not.
UnsubscribeTwice(id, by) ==
    /\ subs' = [subs EXCEPT ![id] = None]
    /\ clearing' = clearing \cup {[id |-> id, by |-> by]}

\* unsubscribe: nothing without a handler; the handler goes at once, and the
\* pending states are cleared.
Unsubscribe(id, by) ==
    /\ subs' = [subs EXCEPT ![id] = None]
    /\ clearing' = IF subs[id] = None THEN clearing
                   ELSE clearing \cup {[id |-> id, by |-> by]}

Detached(id, c) == [conns EXCEPT ![id] = RemoveFirst(@, c)]

\* Variant: a subscription ends with any of its sockets, persistent or not.
EndAny(c, id) ==
    /\ Unsubscribe(id, c) /\ UNCHANGED ephemeral
    /\ conns' = IF subs[id] = None THEN Detached(id, c) ELSE conns

\* Variant: a socket that closes leaves its ephemeral subscription.
ForgetEphemeral(c, id) ==
    /\ UNCHANGED board
    /\ conns' = Detached(id, c)

\* The close listener: an ephemeral subscription ends with any of its sockets.
EndWith(c, id) ==
    IF IsEphemeral(id)
    THEN /\ Unsubscribe(id, c) /\ UNCHANGED ephemeral
         /\ conns' = IF subs[id] = None THEN Detached(id, c) ELSE conns
    ELSE UNCHANGED board /\ conns' = Detached(id, c)

\* The close event.
Close(c) ==
    /\ sock[c] \in {"open", "closing"}
    /\ sock' = [sock EXCEPT ![c] = "closed"]
    /\ IF listening[c] = None THEN UNCHANGED <<board, conns, clientsNum, listening>>
       ELSE /\ clientsNum' = clientsNum - 1
            /\ listening' = [listening EXCEPT ![c] = None]
            /\ EndWith(c, listening[c])
    /\ UNCHANGED <<target, up, down, stage, deferred, resolved, bounds>>

\* clearPendingStates is done: the count, then the listener's own socket.
Cleared(u) ==
    /\ u \in clearing
    /\ clearing' = clearing \ {u}
    /\ ephemeral' = IF IsEphemeral(u.id) THEN ephemeral - 1 ELSE ephemeral
    /\ conns' = IF u.by = Http THEN conns ELSE Detached(u.id, u.by)
    /\ UNCHANGED <<net, stage, deferred, resolved, listening, clientsNum, subs, bounds>>

\* DELETE: of any subscription that has a handler.
Delete(id) ==
    /\ requests < MaxHttp /\ requests' = requests + 1
    /\ subs[id] # None
    /\ Unsubscribe(id, Http)
    /\ UNCHANGED <<net, server, ephemeral, notified>>

\* POST of a persistent subscription, with or without the websocket channel.
Post(id, chan) ==
    /\ requests < MaxHttp /\ requests' = requests + 1
    /\ id \in Persistent /\ subs[id] = None /\ ~TooMany
    /\ subs' = [subs EXCEPT ![id] = chan]
    /\ UNCHANGED <<net, server, ephemeral, clearing, notified>>

\* The broadcaster: a notification goes to every socket of the subscription.
Notify(id) ==
    /\ notified < MaxNotify /\ notified' = notified + 1
    /\ subs[id] = Enabled
    /\ Write(ToSet(conns[id]), "xcm")
    /\ UNCHANGED <<sock, target, up, server, board, requests>>

Callbacks(c) ==
    \/ Refuse(c) \/ Listen(c) \/ Attach(c) \/ Data(c)
    \/ AnswerId(c) \/ AnswerInvalid(c) \/ Subscribe(c) \/ SubscribeFails(c)

Step ==
    \/ \E c \in Clients : Callbacks(c) \/ Close(c)
    \/ \E u \in clearing : Cleared(u)
    \/ \E id \in Ids : Delete(id) \/ Notify(id) \/ \E ch \in {Enabled, Disabled} : Post(id, ch)

Progress ==
    \/ \E c \in Clients : Callbacks(c) \/ (sock[c] = "closing" /\ Close(c))
    \/ \E u \in clearing : Cleared(u)
----------------------------------------------------------------------------
(* Properties *)

\* The count of clients is that of the sockets whose close is still to be
\* handled, whatever order sockets open, subscribe, fail and close in.
ClientsAreCounted ==
    clientsNum = Cardinality({c \in Clients : listening[c] # None})

\* The switchboard's count of ephemeral subscriptions is that of the handlers
\* and of those being cleared, also when a DELETE and the close of the socket
\* come together; and the limit holds at all times.
EphemeralsAreCounted ==
    /\ ephemeral = Cardinality({id \in Clients : subs[id] # None})
                     + Cardinality({u \in clearing : IsEphemeral(u.id)})
    /\ ephemeral <= MaxEphemeral

\* Ephemeral subscriptions that no event will end.
Abandoned ==
    {id \in Clients : subs[id] # None /\ \A c \in ToSet(conns[id]) : sock[c] = "closed"}

\* An ephemeral subscription outlives its sockets only when the callback that
\* made it ran after the close event (protocol.ts:109, plugin.ts:40-44).
OnlyLateCallbacksAbandon ==
    [][\A c \in Abandoned' \ Abandoned : Subscribe(c) /\ sock[c] = "closed"]_vars

\* Sockets that are open and registered for a subscription that is gone.
Deaf ==
    {c \in Clients : /\ sock[c] = "open" /\ listening[c] # None
                     /\ subs[listening[c]] = None}

\* A socket keeps its subscription until that is deleted, or until another
\* socket of the same ephemeral subscription closes (protocol.ts:172-180).
OnlyOthersDeafen ==
    [][\A c \in Deaf' \ Deaf :
          \/ Delete(listening[c])
          \/ \E o \in Clients \ {c} :
                /\ sock'[o] = "closed" /\ sock[o] # "closed"
                /\ listening[o] = listening[c] /\ IsEphemeral(listening[c])]_vars
=============================================================================
