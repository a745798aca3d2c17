------------------------------ MODULE Webhook ------------------------------
(***************************************************************************)
(* The webhook notifier (services/notification/webhook.ts), called by the   *)
(* hub (services/notification/hub.ts), and the persistent scheduler         *)
(* (services/persistence/scheduler.ts) that repeats what failed.            *)
(*                                                                         *)
(* A message makes one dispatch for each webhook channel, one after the     *)
(* other, and each dispatch posts to every webhook channel there is then in *)
(* the database.  A post that fails stores a task, which makes a dispatch   *)
(* of its own when it is due.  Dispatches are memory, tasks are stored.     *)
(* Time is abstract: a task waits, then is due.                             *)
(***************************************************************************)
EXTENDS Integers, Sequences, FiniteSets, Bags, SequencesExt

CONSTANTS
    Messages,
    Webhooks,     \* channels of type webhook
    OtherChannels,\* channels of the other types (log)
    Accepted,     \* per message, the webhooks whose events accept its type
    Channels,     \* the lists of channels a subscription may have
    None,         \* no subscription; no task being emitted
    MaxHooks,     \* bound: webhook channels of a subscription
    MaxFailures,  \* bound: posts that fail
    MaxFaults     \* bound: crashes, patches, removals and failing writes

\* How many webhook channels there are in a list.
Hooks(chans) == Cardinality({i \in DOMAIN chans : chans[i] \in Webhooks})

\* The ulid of a dispatch: one for each webhook channel of the notified descriptor.
Id == Messages \X (1..MaxHooks)
MessageOf(id) == id[1]

ASSUME WebhookAssumption ==
    /\ Accepted \in [Messages -> SUBSET Webhooks]
    /\ Channels \subseteq Seq(Webhooks \cup OtherChannels)
    /\ \A cs \in Channels : \A i, k \in DOMAIN cs :
           cs[i] = cs[k] /\ cs[i] \in Webhooks => i = k
    /\ Webhooks \cap OtherChannels = {}
    /\ None \notin Channels \cup Id
    /\ MaxHooks \in Nat /\ \A cs \in Channels : Hooks(cs) <= MaxHooks
    /\ MaxFailures \in Nat /\ MaxFaults \in Nat

VARIABLES
    stored,    \* the channels of the subscription in the database
    sub,       \* the channels of the descriptor the switchboard holds
    notified,  \* the messages the hub was given
    jobs,      \* a bag: the dispatches under way
    waiting, due,  \* the tasks stored for each id: not yet due, and due
    emitted,   \* the id of the task emitted and about to be deleted
    sent,      \* per id and channel: the posts answered with success
    failures,  \* per id: the posts that failed
    crashes, faults

tasks == <<waiting, due>>
subscription == <<stored, sub>>
bounds == <<crashes, faults>>
vars == <<subscription, notified, jobs, tasks, emitted, sent, failures, bounds>>

\* failed (a history variable): a post of this dispatch failed.
Job == [id : Id, at : {"load", "post", "schedule"}, left : Seq(Webhooks \cup OtherChannels),
        more : 0..MaxHooks, failed : BOOLEAN]

TypeOK ==
    /\ stored \in Channels \cup {None} /\ sub \in Channels \cup {None}
    /\ notified \subseteq Messages
    /\ BagToSet(jobs) \subseteq Job
    /\ waiting \in [Id -> Nat] /\ due \in [Id -> Nat]
    /\ emitted \in Id \cup {None}
    /\ sent \in [Id \X Webhooks -> Nat] /\ failures \in [Id -> Nat]
    /\ crashes \in 0..MaxFaults /\ faults \in 0..MaxFaults

Init ==
    /\ stored \in Channels /\ sub = stored
    /\ notified = {} /\ jobs = EmptyBag
    /\ waiting = [id \in Id |-> 0] /\ due = [id \in Id |-> 0]
    /\ emitted = None
    /\ sent = [p \in Id \X Webhooks |-> 0]
    /\ failures = [id \in Id |-> 0]
    /\ crashes = 0 /\ faults = 0
----------------------------------------------------------------------------
(* Dispatches *)

Load(id, more) ==
    [at |-> "load", id |-> id, left |-> <<>>, more |-> more, failed |-> FALSE]

\* Variant: the notifier is called once for each webhook channel.
EachChannelStarts(m, chans) ==
    LET n == Hooks(chans)
    IN  [j \in {Load(<<m, 1>>, n - 1)} |-> n]

\* One call of the notifier however many webhook channels there are; its loop
\* begins with the first of them.
Starts(m, chans) ==
    LET n == Hooks(chans)
    IN  IF n = 0 THEN EmptyBag ELSE SetToBag({Load(<<m, 1>>, n - 1)})

Notify(m) ==
    /\ m \notin notified /\ sub # None
    /\ notified' = notified \cup {m}
    /\ jobs' = jobs (+) Starts(m, sub)
    /\ UNCHANGED <<subscription, tasks, emitted, sent, failures, bounds>>

\* The channels from the first one on that the message m is posted to.
From(m, chans) ==
    LET Accepts(c) == c \in Accepted[m]
        i == SelectInSeq(chans, Accepts)
    IN  IF i = 0 THEN <<>> ELSE SubSeq(chans, i, Len(chans))

\* What a dispatch becomes: it goes on with the channels left; when there are
\* none, the loop of notify makes the next dispatch, if it has one to make.
GoesOn(j) ==
    LET left == From(MessageOf(j.id), j.left)
    IN  IF left # <<>> THEN {[j EXCEPT !.at = "post", !.left = left]}
        ELSE IF j.more > 0 THEN {Load(<<j.id[1], j.id[2] + 1>>, j.more - 1)}
        ELSE {}

Becomes(j, next) == jobs' = (jobs (-) SetToBag({j})) (+) SetToBag(next)

\* getById: the channels posted to are those of the database at this time.
\* An unknown subscription ends the dispatch; nothing is scheduled.
GetChannels(j) ==
    /\ j.at = "load"
    /\ Becomes(j, GoesOn([j EXCEPT !.left = IF stored = None THEN <<>> ELSE stored]))
    /\ UNCHANGED <<subscription, notified, tasks, emitted, sent, failures, bounds>>

\* got.post resolves.
Posted(j) ==
    /\ j.at = "post"
    /\ sent' = [sent EXCEPT ![<<j.id, Head(j.left)>>] = @ + 1]
    /\ Becomes(j, GoesOn([j EXCEPT !.left = Tail(@)]))
    /\ UNCHANGED <<subscription, notified, tasks, emitted, failures, bounds>>

Failed == FoldFunction(LAMBDA n, total : n + total, 0, failures)

\* got.post rejects, its own retries included.
PostFails(j) ==
    /\ j.at = "post" /\ Failed < MaxFailures
    /\ failures' = [failures EXCEPT ![j.id] = @ + 1]
    /\ Becomes(j, {[j EXCEPT !.at = "schedule", !.left = Tail(@)]})
    /\ UNCHANGED <<subscription, notified, tasks, emitted, sent, bounds>>

\* Variant: every channel that is left is taken to have failed too.
ScheduleEach(j) == waiting' = [waiting EXCEPT ![j.id] = @ + 1 + Len(j.left)]

\* The key is the time, in milliseconds, and the id: two posts of one id that
\* fail at the same time share a task.
PutTask(j) ==
    \/ waiting' = [waiting EXCEPT ![j.id] = @ + 1]
    \/ waiting[j.id] > 0 /\ UNCHANGED waiting

Schedule(j) ==
    /\ j.at = "schedule"
    /\ PutTask(j)
    /\ Becomes(j, GoesOn([j EXCEPT !.failed = TRUE]))
    /\ UNCHANGED <<subscription, notified, due, emitted, sent, failures, bounds>>

\* The write of the task fails: the error ends the dispatch, with the channels
\* that were left, and notify goes on.
ScheduleFails(j) ==
    /\ j.at = "schedule" /\ faults < MaxFaults
    /\ faults' = faults + 1
    /\ Becomes(j, GoesOn([j EXCEPT !.left = <<>>]))
    /\ UNCHANGED <<subscription, notified, tasks, emitted, sent, failures, crashes>>
----------------------------------------------------------------------------
(* The scheduler *)

\* Variant: an id that failed twice is not tried again.
TickOnce(id) ==
    /\ waiting[id] > 0 /\ failures[id] < 2
    /\ waiting' = [waiting EXCEPT ![id] = @ - 1]
    /\ due' = [due EXCEPT ![id] = @ + 1]
    /\ UNCHANGED <<subscription, notified, jobs, emitted, sent, failures, bounds>>

\* Five minutes pass.
Tick(id) ==
    /\ waiting[id] > 0
    /\ waiting' = [waiting EXCEPT ![id] = @ - 1]
    /\ due' = [due EXCEPT ![id] = @ + 1]
    /\ UNCHANGED <<subscription, notified, jobs, emitted, sent, failures, bounds>>

\* Variant: tasks are deleted whether or not anything listens.
EmitUnheard(id) ==
    /\ emitted = None /\ due[id] > 0
    /\ emitted' = id
    /\ UNCHANGED <<subscription, notified, jobs, tasks, sent, failures, bounds>>

\* The sweep emits a task; its listener, the dispatch, is not awaited.
Emit(id) ==
    /\ emitted = None /\ due[id] > 0
    /\ emitted' = id
    /\ jobs' = jobs (+) SetToBag({Load(id, 0)})
    /\ UNCHANGED <<subscription, notified, tasks, sent, failures, bounds>>

DeleteTask ==
    /\ emitted # None
    /\ due' = [due EXCEPT ![emitted] = @ - 1]
    /\ emitted' = None
    /\ UNCHANGED <<subscription, notified, jobs, waiting, sent, failures, bounds>>
----------------------------------------------------------------------------
(* The subscription, and crashes *)

\* PATCH of the channels, or removal: the database first, the descriptor after.
Change(cs) ==
    /\ faults < MaxFaults /\ faults' = faults + 1
    /\ stored # None /\ stored = sub /\ cs # stored
    /\ stored' = cs
    /\ UNCHANGED <<sub, notified, jobs, tasks, emitted, sent, failures, crashes>>

Refresh ==
    /\ sub # stored
    /\ sub' = stored
    /\ UNCHANGED <<stored, notified, jobs, tasks, emitted, sent, failures, bounds>>

Crash ==
    /\ faults < MaxFaults /\ faults' = faults + 1
    /\ crashes' = crashes + 1
    /\ sub' = stored /\ jobs' = EmptyBag /\ emitted' = None
    /\ UNCHANGED <<stored, notified, tasks, sent, failures>>

Dispatch(j) == GetChannels(j) \/ Posted(j) \/ PostFails(j) \/ Schedule(j) \/ ScheduleFails(j)

\* Steps of the notifier and of the scheduler that come by themselves.
Progress ==
    \/ \E j \in BagToSet(jobs) : GetChannels(j) \/ Posted(j) \/ Schedule(j)
    \/ \E id \in Id : Tick(id) \/ Emit(id)
    \/ DeleteTask \/ Refresh

Next ==
    \/ \E m \in Messages : Notify(m)
    \/ \E j \in BagToSet(jobs) : Dispatch(j)
    \/ \E id \in Id : Tick(id) \/ Emit(id)
    \/ DeleteTask \/ Refresh \/ Crash
    \/ \E cs \in Channels \cup {None} : Change(cs)

Spec == Init /\ [][Next]_vars

\* Requests, writes and timers end, and the scheduler runs.
FairSpec == Spec /\ WF_vars(Progress)
----------------------------------------------------------------------------
(* Properties *)

Deliveries == Messages \X Webhooks

Wanted(m) == IF stored = None THEN {} ELSE ToSet(stored) \cap Accepted[m]

Done == {d \in Deliveries : \E id \in Id : MessageOf(id) = d[1] /\ sent[<<id, d[2]>>] > 0}

\* What a dispatch will still post, and what it will once it has read the channels.
Posting(j) == {MessageOf(j.id)} \X (ToSet(j.left) \cap Accepted[MessageOf(j.id)])
WantedBy(id) == {MessageOf(id)} \X Wanted(MessageOf(id))
Carries(j) ==
    IF j.at \in {"load", "schedule"} \/ j.more > 0 THEN WantedBy(j.id)
    ELSE Posting(j) \cap WantedBy(j.id)

\* The tasks of an id whose dispatch is still to come.
Ahead(id) == waiting[id] + due[id] - (IF emitted = id THEN 1 ELSE 0)

Due ==
    ((UNION {Carries(j) : j \in BagToSet(jobs)})
     \cup (UNION {WantedBy(id) : id \in {i \in Id : Ahead(i) > 0}})) \ Done

Withdrawn == (UNION {Posting(j) \ WantedBy(j.id) : j \in BagToSet(jobs)}) \ Done

Promise == INSTANCE Delivery WITH due <- Due, withdrawn <- Withdrawn, done <- Done

\* A delivery that is due stays due until an endpoint has accepted it, whatever
\* posts fail: only a crash, a change of the channels or a failing write loses
\* one.  The dispatch of webhook.ts:76-160 and the sweep of scheduler.ts:104-119
\* implement the abstract delivery.
ReliableDelivery == Promise!Safety

\* Every delivery that is due is made in the end (or a fault takes it away):
\* posts fail a bounded number of times here, and there is no other limit to
\* the tasks a message may make.
EventuallyDelivered == Promise!Liveness

\* An endpoint that accepted a message is posted it again, under the same id,
\* only because some post of that id failed or a crash hid that its task had
\* been emitted: each dispatch but the first has such a reason.
RepeatsHaveAReason ==
    \A id \in Id, c \in Webhooks : sent[<<id, c>>] <= 1 + failures[id] + crashes

\* The dispatches of an id that are to come, or under way with no failure yet.
Copies(id) ==
    Ahead(id) + Cardinality(UNION {{j} \X (1..jobs[j]) :
                    j \in {k \in BagToSet(jobs) : k.id = id /\ ~k.failed}})

\* A message is dispatched over and over, but as one line of dispatches for
\* each id: the lines multiply only where two posts of one dispatch fail, each
\* storing a task that posts to every channel again (webhook.ts:141-153), or
\* where a crash brings an emitted task back.
OnlySecondFailuresMultiply ==
    [][\A id \in Id :
          Copies(id)' > Copies(id) =>
              \/ Copies(id) = 0 /\ failures[id] = 0
              \/ crashes' # crashes
              \/ \E j \in BagToSet(jobs) : j.id = id /\ j.at = "schedule" /\ j.failed]_vars
=============================================================================
