------------------------------- MODULE Client -------------------------------
(***************************************************************************)
(* The client library's websocket side (packages/client/src/client.ts): the *)
(* Protocol class, which gives each message to a handler, and               *)
(* #openWebSocket, which queues the handlers of the replies it waits for.   *)
(* It shares the sockets and the messages with the server.                  *)
(***************************************************************************)
EXTENDS Integers, Sequences, FiniteSets, BagsExt, SequencesExt

CONSTANTS
    Clients,
    OnDemand,  \* the target of a client that makes its own subscription
    Tokens,    \* the clients configured with wsAuthToken
    Blobs      \* the clients whose platform gives messages as Blobs (browsers)

VARIABLES
    sock, target, up, down,
    queue,      \* #queue: the handlers of the replies waited for
    streaming,  \* #isStreaming
    texts,      \* a bag per client: calls that wait for the text of a Blob
    calls,      \* per client: which handler was given which kind of message
    extra       \* bound: the clients that sent a second request

library == <<queue, streaming, texts, calls, extra>>
vars == <<sock, target, up, down, library>>

Handler == {"auth", "created", "stream"}

TypeOK ==
    /\ \A c \in Clients : /\ queue[c] \in Seq(Handler \ {"stream"})
                          /\ \A t \in DOMAIN texts[c] : t[1] \in Handler
    /\ streaming \in [Clients -> BOOLEAN]

Init ==
    /\ queue = [c \in Clients |-> <<>>]
    /\ streaming = [c \in Clients |-> FALSE]
    /\ texts = [c \in Clients |-> EmptyBag]
    /\ calls = [c \in Clients |-> {}] /\ extra = {}

Sent(c, m) == up' = [up EXCEPT ![c] = Append(@, m)]

\* onopen: the token first when there is one, else the request.
Open(c, t) ==
    /\ sock[c] = "unused"
    /\ sock' = [sock EXCEPT ![c] = "open"]
    /\ target' = [target EXCEPT ![c] = t]
    /\ IF c \in Tokens
       THEN Sent(c, "token") /\ queue' = [queue EXCEPT ![c] = <<"auth">>]
       ELSE IF t = OnDemand
       THEN Sent(c, "request") /\ queue' = [queue EXCEPT ![c] = <<"created">>]
       ELSE UNCHANGED <<up, queue>>
    /\ UNCHANGED <<down, streaming, texts, calls, extra>>

Waits(c) == ~streaming[c] /\ queue[c] # <<>>

\* The handler of a message: the last one queued.  A message that no handler
\* waits for is taken for a notification, and so are all that follow.
Taken(c) == IF Waits(c) THEN Last(queue[c]) ELSE "stream"
Popped(c) == IF Waits(c) THEN Front(queue[c]) ELSE queue[c]

\* Variant: the connection streams once the last handler queued is taken.
StreamsEarly(c) == streaming' = [streaming EXCEPT ![c] = Len(queue[c]) < 2]

Streams(c) == streaming' = [streaming EXCEPT ![c] = ~Waits(c)]

\* Variant: the answer to the token asks for nothing.
RunsAlone(c, h, m, q) ==
    /\ calls' = [calls EXCEPT ![c] = @ \cup {<<h, m>>}]
    /\ queue' = [queue EXCEPT ![c] = q]
    /\ UNCHANGED up

\* A handler runs, with q queued: that of the token asks for the subscription,
\* if there is one to ask for, whatever the reply is (no reply of the server
\* has the field error).
Runs(c, h, m, q) ==
    /\ calls' = [calls EXCEPT ![c] = @ \cup {<<h, m>>}]
    /\ IF h = "auth" /\ target[c] = OnDemand
       THEN Sent(c, "request") /\ queue' = [queue EXCEPT ![c] = Append(q, "created")]
       ELSE UNCHANGED up /\ queue' = [queue EXCEPT ![c] = q]

Arrived(c) ==
    /\ sock[c] \in {"open", "closing"} /\ down[c] # <<>>
    /\ down' = [down EXCEPT ![c] = Tail(@)]

\* handle, of a text: its handler runs at once.
HandleText(c) ==
    /\ c \notin Blobs /\ Arrived(c)
    /\ Streams(c)
    /\ Runs(c, Taken(c), Head(down[c]), Popped(c))
    /\ UNCHANGED <<sock, target, texts, extra>>

\* handle, of a Blob: the handler is taken now and runs when the text is there.
HandleBlob(c) ==
    /\ c \in Blobs /\ Arrived(c)
    /\ Streams(c)
    /\ queue' = [queue EXCEPT ![c] = Popped(c)]
    /\ texts' = [texts EXCEPT ![c] = BagAdd(@, <<Taken(c), Head(down[c])>>)]
    /\ UNCHANGED <<sock, target, up, calls, extra>>

TextReady(c) ==
    /\ \E t \in DOMAIN texts[c] :
          /\ Runs(c, t[1], t[2], queue[c])
          /\ texts' = [texts EXCEPT ![c] = BagRemove(@, t)]
    /\ UNCHANGED <<sock, target, down, streaming, extra>>

\* The socket is the caller's too: a second request.
SendMore(c) ==
    /\ sock[c] = "open" /\ target[c] = OnDemand
    /\ <<"created", "subscription">> \in calls[c]
    /\ c \notin extra /\ extra' = extra \cup {c}
    /\ Sent(c, "more")
    /\ UNCHANGED <<sock, target, down, queue, streaming, texts, calls>>

Receives(c) == HandleText(c) \/ HandleBlob(c) \/ TextReady(c)
----------------------------------------------------------------------------
(* Properties *)

\* The token's handler gets the answer to the token, the handler of the request
\* the subscription, and the caller's onMessage what follows, whether texts come
\* in order or not.  The one exception: a client with a token that attaches to
\* an existing subscription is never answered, and the first notification goes
\* to the handler of the token (client.ts:347-359).
Fitting(c) ==
    {<<"auth", "invalid">>, <<"created", "subscription">>, <<"stream", "xcm">>, <<"stream", "id">>}
    \cup IF c \in Tokens /\ target[c] # OnDemand THEN {<<"auth", "xcm">>} ELSE {}

HandlersGetTheirs == \A c \in Clients : calls[c] \subseteq Fitting(c)
=============================================================================
