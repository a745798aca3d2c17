---------------------------- MODULE WebhookRepeats ----------------------------
(***************************************************************************)
(* Why the webhook notifier of Webhook posts a message again, and how many  *)
(* lines of dispatches a message has, counted for any number of webhooks,   *)
(* failing posts and faults.  A count is of copies in the bag jobs, so each *)
(* step of a dispatch takes one away and puts back at most one.             *)
(***************************************************************************)
EXTENDS WebhookProofs

(* Counting dispatches *)

\* The dispatches that may post to the webhook c, those about to store a task, and
\* those whose notify still has to make the dispatch id.
Will(id, c) == {j \in Job : j.id = id /\ (j.at = "load" \/ c \in HooksOf(j, j.left))}
Scheds(id) == {j \in Job : j.id = id /\ j.at = "schedule"}
Coming(id) ==
    {j \in Job : j.id[1] = id[1] /\ j.id[2] < id[2] /\ id[2] <= j.id[2] + j.more}

\* What a step of a dispatch does to a count.
LEMMA Replaced ==
    ASSUME WebhookInv, NEW j \in DOMAIN jobs, NEW K, K = {} \/ \E k : K = {k},
           Becomes(j, K), NEW S
    PROVE  /\ CountIn(jobs, S) \in Nat /\ CountIn(jobs', S) \in Nat
           /\ j \in S /\ K \cap S # {} => CountIn(jobs', S) = CountIn(jobs, S)
           /\ j \in S /\ K \cap S = {} => CountIn(jobs', S) = CountIn(jobs, S) - 1
           /\ j \notin S /\ K \cap S # {} => CountIn(jobs', S) = CountIn(jobs, S) + 1
           /\ j \notin S /\ K \cap S = {} => CountIn(jobs', S) = CountIn(jobs, S)
<1>1. FiniteBag(jobs) /\ FiniteBag(jobs')
  BY ReplaceFinite DEF WebhookInv, Becomes
<1>2. CountIn(jobs, S) \in Nat /\ CountIn(jobs', S) \in Nat
  BY <1>1, CountsAreFinite
<1>3. CountIn(jobs', S) = CountIn(jobs, S) - (IF j \in S THEN 1 ELSE 0)
                                          + (IF K \cap S # {} THEN 1 ELSE 0)
  BY <1>1, BagReplace DEF Becomes
<1> QED BY <1>2, <1>3

\* A dispatch goes on as itself, as the next one, or not at all.
LEMMA GoesWhere ==
    ASSUME WebhookInv, NEW j \in DOMAIN jobs, NEW hooks, NEW b, NEW K, Goes(j, hooks, b, K),
           NEW k \in K
    PROVE  /\ k \in Job /\ k.at # "schedule"
           /\ \/ /\ k.id = j.id /\ k.more = j.more /\ k.failed = b /\ k.at = "post"
                 /\ HooksOf(k, k.left) = hooks
              \/ /\ j.more > 0 /\ k.id = <<j.id[1], j.id[2] + 1>> /\ k.more = j.more - 1
                 /\ k.at = "load" /\ k.failed = FALSE
<1>1. k \in Job
  BY DEF Goes, JobFits
<1>2. CASE NextLoad(j, k)
  BY <1>1, <1>2 DEF NextLoad, Load
<1>3. CASE ~NextLoad(j, k)
  BY <1>1, <1>3 DEF Goes, HooksOf
<1> QED BY <1>2, <1>3

\* The dispatches to come and those that may post are no more than before; a post
\* that is made is one fewer.
LEMMA GoesCounts ==
    ASSUME WebhookInv, NEW j \in DOMAIN jobs, NEW hooks, NEW b, NEW K,
           Goes(j, hooks, b, K), Becomes(j, K),
           j.at = "load" \/ hooks \subseteq HooksOf(j, j.left),
           NEW id \in Id, NEW c \in Webhooks,
           NEW w, w = CountIn(jobs, Will(id, c)), NEW ww, ww = CountIn(jobs', Will(id, c)),
           NEW f, f = CountIn(jobs, Coming(id)), NEW ff, ff = CountIn(jobs', Coming(id)),
           NEW n, n = CountIn(jobs, Scheds(id)), NEW nn, nn = CountIn(jobs', Scheds(id))
    PROVE  /\ {w, ww, f, ff, n, nn} \subseteq Nat
           /\ ww + ff <= w + f /\ nn <= n
           /\ j.at = "post" /\ j.id = id /\ c \in HooksOf(j, j.left) \ hooks => ww + ff <= w + f - 1
           /\ j.at = "schedule" /\ j.id = id => nn = n - 1
<1>1. /\ j \in Job /\ j.id \in Id /\ j.id[1] \in Messages /\ j.id[2] \in Nat
      /\ j.id = <<j.id[1], j.id[2]>> /\ j.more \in Nat
  BY JobParts DEF WebhookInv, JobFits
<1>2. id = <<id[1], id[2]>> /\ id[2] \in Nat
  BY WebhookAssumption DEF Id
<1>3. K = {} \/ \E k : K = {k}
  BY DEF Goes
<1>4. \A k \in K :
         /\ k \in Job /\ k.at # "schedule"
         /\ \/ /\ k.id = j.id /\ k.more = j.more /\ k.failed = b /\ k.at = "post"
               /\ HooksOf(k, k.left) = hooks
            \/ /\ j.more > 0 /\ k.id = <<j.id[1], j.id[2] + 1>> /\ k.more = j.more - 1
               /\ k.at = "load" /\ k.failed = FALSE
  BY GoesWhere
<1>5. /\ n \in Nat /\ nn \in Nat /\ nn <= n
      /\ j.at = "schedule" /\ j.id = id => nn = n - 1
  <2>1. K \cap Scheds(id) = {}
    BY <1>4 DEF Scheds
  <2>2. j.at = "schedule" /\ j.id = id => j \in Scheds(id)
    BY <1>1 DEF Scheds
  <2>3. /\ n \in Nat /\ nn \in Nat
        /\ j \in Scheds(id) => nn = n - 1
        /\ j \notin Scheds(id) => nn = n
    BY <1>3, <2>1, Replaced
  <2> QED BY <2>2, <2>3
<1>6. /\ w \in Nat /\ ww \in Nat
      /\ j \in Will(id, c) /\ K \cap Will(id, c) # {} => ww = w
      /\ j \in Will(id, c) /\ K \cap Will(id, c) = {} => ww = w - 1
      /\ j \notin Will(id, c) /\ K \cap Will(id, c) # {} => ww = w + 1
      /\ j \notin Will(id, c) /\ K \cap Will(id, c) = {} => ww = w
  BY <1>3, Replaced
<1>7. /\ f \in Nat /\ ff \in Nat
      /\ j \in Coming(id) /\ K \cap Coming(id) # {} => ff = f
      /\ j \in Coming(id) /\ K \cap Coming(id) = {} => ff = f - 1
      /\ j \notin Coming(id) /\ K \cap Coming(id) # {} => ff = f + 1
      /\ j \notin Coming(id) /\ K \cap Coming(id) = {} => ff = f
  BY <1>3, Replaced
<1>8. ASSUME NEW k \in K, k.id = j.id, k.more = j.more, k.at = "post",
             HooksOf(k, k.left) = hooks
      PROVE  /\ k \in Coming(id) <=> j \in Coming(id)
             /\ k \in Will(id, c) => j \in Will(id, c) /\ c \in hooks
  BY <1>1, <1>4, <1>8 DEF Coming, Will
<1>9. ASSUME NEW k \in K, j.more > 0, k.id = <<j.id[1], j.id[2] + 1>>, k.more = j.more - 1,
             k.at = "load"
      PROVE  /\ id = k.id => /\ j \in Coming(id) /\ k \notin Coming(id) /\ k \in Will(id, c)
                             /\ j \notin Will(id, c)
             /\ id # k.id => /\ k \notin Will(id, c)
                             /\ k \in Coming(id) => j \in Coming(id)
             /\ id = j.id => k.id # id /\ j \notin Coming(id) /\ k \notin Coming(id)
  <2>1. k \in Job /\ k.id[1] = j.id[1] /\ k.id[2] = j.id[2] + 1
    BY <1>4, <1>9
  <2>2. j \in Coming(id) <=> j.id[1] = id[1] /\ j.id[2] < id[2] /\ id[2] <= j.id[2] + j.more
    BY <1>1 DEF Coming
  <2>3. k \in Coming(id) <=> j.id[1] = id[1] /\ j.id[2] + 1 < id[2] /\ id[2] <= j.id[2] + j.more
    <3>1. k \in Coming(id) <=> /\ k.id[1] = id[1] /\ k.id[2] < id[2]
                               /\ id[2] <= k.id[2] + k.more
      BY <2>1 DEF Coming
    <3>2. k.id[2] + k.more = j.id[2] + j.more
      BY <1>1, <1>9, <2>1
    <3> QED BY <2>1, <3>1, <3>2
  <2>4. k \in Will(id, c) <=> id = k.id
    BY <1>9, <2>1 DEF Will
  <2>5. id = k.id => j.id # id
    BY <1>1, <1>2, <2>1
  <2>6. j \in Will(id, c) => j.id = id
    BY DEF Will
  <2>7. id = k.id => id[1] = j.id[1] /\ id[2] = j.id[2] + 1
    BY <2>1
  <2>8. id = j.id => id[2] = j.id[2]
    OBVIOUS
  <2> QED BY <1>1, <1>2, <1>9, <2>2, <2>3, <2>4, <2>5, <2>6, <2>7, <2>8
<1> HIDE DEF Will, Coming, Scheds
<1>10. CASE K = {}
  <2>1. j.id = id /\ c \in HooksOf(j, j.left) => j \in Will(id, c)
    BY <1>1 DEF Will
  <2> QED BY <1>5, <1>6, <1>7, <1>10, <2>1
<1>11. ASSUME NEW k, K = {k}
       PROVE  /\ ww + ff <= w + f
              /\ j.at = "post" /\ j.id = id /\ c \in HooksOf(j, j.left) \ hooks
                    => ww + ff <= w + f - 1
  <2>1. /\ K \cap Will(id, c) # {} <=> k \in Will(id, c)
        /\ K \cap Coming(id) # {} <=> k \in Coming(id)
    BY <1>11
  <2>2. j.id = id /\ c \in HooksOf(j, j.left) => j \in Will(id, c)
    BY <1>1 DEF Will
  <2>3. CASE k.id = j.id /\ k.more = j.more /\ k.at = "post" /\ HooksOf(k, k.left) = hooks
    <3>1. /\ k \in Coming(id) <=> j \in Coming(id)
          /\ k \in Will(id, c) => j \in Will(id, c) /\ c \in hooks
      BY <1>8, <1>11, <2>3
    <3> QED BY <1>6, <1>7, <2>1, <2>2, <3>1
  <2>4. CASE /\ j.more > 0 /\ k.id = <<j.id[1], j.id[2] + 1>> /\ k.more = j.more - 1
             /\ k.at = "load"
    <3>1. /\ id = k.id => /\ j \in Coming(id) /\ k \notin Coming(id) /\ k \in Will(id, c)
                          /\ j \notin Will(id, c)
          /\ id # k.id => /\ k \notin Will(id, c)
                          /\ k \in Coming(id) => j \in Coming(id)
          /\ id = j.id => k.id # id /\ j \notin Coming(id) /\ k \notin Coming(id)
      BY <1>9, <1>11, <2>4
    <3> QED BY <1>6, <1>7, <2>1, <2>2, <3>1
  <2> QED BY <1>4, <1>11, <2>3, <2>4
<1> QED BY <1>3, <1>5, <1>6, <1>7, <1>10, <1>11
----------------------------------------------------------------------------
(* What is not notified is untouched *)

Known ==
    /\ \A j \in DOMAIN jobs : j.id[1] \in notified
    /\ \A id \in Id : id[1] \notin notified =>
          /\ waiting[id] = 0 /\ due[id] = 0 /\ failures[id] = 0
          /\ \A c \in Webhooks : sent[<<id, c>>] = 0

LEMMA KnownStep ==
    ASSUME WebhookInv, Known, [Next]_vars
    PROVE  Known'
<1> DEFINE Zero(id) == /\ waiting[id] = 0 /\ due[id] = 0 /\ failures[id] = 0
                       /\ \A c \in Webhooks : sent[<<id, c>>] = 0
<1>1. /\ waiting \in [Id -> Nat] /\ due \in [Id -> Nat] /\ failures \in [Id -> Nat]
      /\ sent \in [Id \X Webhooks -> Nat] /\ emitted \in Id \cup {None} /\ FiniteBag(jobs)
      /\ sub \in Channels \cup {None}
  BY DEF WebhookInv, TypeOK
<1>2. ASSUME UNCHANGED <<notified, waiting, due, failures, sent>>, DOMAIN jobs' \subseteq DOMAIN jobs
      PROVE  Known'
  BY <1>2 DEF Known
<1>3. ASSUME NEW j \in DOMAIN jobs, Dispatch(j) PROVE Known'
  <2>1. /\ j \in Job /\ j.id \in Id /\ j.id[1] \in notified /\ JobFits(j)
    BY JobParts DEF WebhookInv, JobFits, Known
  <2>2. UNCHANGED notified
    BY <1>3 DEF Dispatch, GetChannels, Posted, PostFails, Schedule, ScheduleFails
  <2>3. \E K : Becomes(j, K) /\ \A k \in K : k.id[1] = j.id[1]
    <3>1. CASE PostFails(j)
      <4>1. PICK k : Becomes(j, {k}) /\ k.id = j.id
        BY <3>1, PostFailsGoes
      <4> QED BY <4>1
    <3>2. CASE ~PostFails(j)
      <4>1. PICK hooks, b, K : Goes(j, hooks, b, K) /\ Becomes(j, K)
        BY <1>3, <3>2, GetChannelsGoes, PostedGoes, ScheduleGoes, ScheduleFailsGoes DEF Dispatch
      <4>2. \A k \in K : k.id = j.id \/ k.id = <<j.id[1], j.id[2] + 1>>
        BY <4>1, GoesWhere
      <4> QED BY <4>1, <4>2
    <3> QED BY <3>1, <3>2
  <2>4. \A k \in DOMAIN jobs' : k.id[1] \in notified'
    <3>1. PICK K : Becomes(j, K) /\ \A k \in K : k.id[1] = j.id[1]
      BY <2>3
    <3>2. DOMAIN jobs' \subseteq DOMAIN jobs \cup K
      BY <1>1, <3>1, ReplaceDomain DEF Becomes
    <3> QED BY <2>1, <2>2, <3>1, <3>2 DEF Known
  <2>5. ASSUME NEW id \in Id, id[1] \notin notified' PROVE Zero(id)'
    <3>1. id # j.id /\ Zero(id)
      BY <2>1, <2>2, <2>5 DEF Known
    <3>2. waiting'[id] = waiting[id] /\ due'[id] = due[id] /\ failures'[id] = failures[id]
      BY <1>1, <1>3, <3>1
      DEF Dispatch, GetChannels, Posted, PostFails, Schedule, PutTask, ScheduleFails, tasks
    <3>3. \A c \in Webhooks : sent'[<<id, c>>] = sent[<<id, c>>]
      <4>1. CASE Posted(j)
        BY <1>1, <3>1, <4>1 DEF Posted
      <4>2. CASE ~Posted(j)
        BY <1>3, <4>2 DEF Dispatch, GetChannels, PostFails, Schedule, ScheduleFails
      <4> QED BY <4>1, <4>2
    <3> QED BY <3>1, <3>2, <3>3
  <2> QED BY <2>4, <2>5 DEF Known
<1>4. ASSUME NEW m \in Messages, Notify(m) PROVE Known'
  <2>1. /\ notified' = notified \cup {m} /\ UNCHANGED <<waiting, due, failures, sent>>
        /\ sub \in Channels /\ jobs' = jobs (+) Starts(m, sub)
    BY <1>1, <1>4 DEF Notify, tasks
  <2>2. \A j \in DOMAIN jobs' : j \in DOMAIN jobs \/ j.id[1] = m
    <3>1. CASE Starts(m, sub) = SetToBag({})
      BY <1>1, <2>1, <3>1, BagPlusNone
    <3>2. CASE \E n \in 1..MaxHooks : Starts(m, sub) = SetToBag({Load(<<m, 1>>, n - 1)})
      <4>1. PICK n \in 1..MaxHooks : Starts(m, sub) = SetToBag({Load(<<m, 1>>, n - 1)})
        BY <3>2
      <4>2. DOMAIN jobs' = DOMAIN jobs \cup {Load(<<m, 1>>, n - 1)}
        BY <2>1, <4>1, PlusDomain
      <4> QED BY <4>2 DEF Load
    <3> QED BY <2>1, <3>1, <3>2, StartsLemma
  <2> QED BY <2>1, <2>2 DEF Known
<1>5. ASSUME NEW id \in Id, Tick(id) \/ Emit(id) PROVE Known'
  <2>1. id[1] \in notified /\ UNCHANGED <<notified, failures, sent>>
    BY <1>1, <1>5 DEF Tick, Emit, Known
  <2>2. \A i \in Id : i # id => waiting'[i] = waiting[i] /\ due'[i] = due[i]
    BY <1>1, <1>5 DEF Tick, Emit, tasks
  <2>3. \A j \in DOMAIN jobs' : j \in DOMAIN jobs \/ j.id = id
    <3>1. CASE Tick(id)
      BY <3>1 DEF Tick
    <3>2. CASE Emit(id)
      <4>1. DOMAIN jobs' = DOMAIN jobs \cup {Load(id, 0)}
        BY <3>2, PlusDomain DEF Emit
      <4> QED BY <4>1 DEF Load
    <3> QED BY <1>5, <3>1, <3>2
  <2> QED BY <2>1, <2>2, <2>3 DEF Known
<1>6. ASSUME DeleteTask PROVE Known'
  <2>1. /\ emitted \in Id /\ due[emitted] > 0 /\ UNCHANGED <<notified, jobs, waiting, failures, sent>>
        /\ due' = [due EXCEPT ![emitted] = @ - 1]
    BY <1>1, <1>6 DEF DeleteTask, WebhookInv
  <2>2. emitted[1] \in notified
    BY <1>1, <2>1 DEF Known
  <2> QED BY <1>1, <2>1, <2>2 DEF Known
<1>7. ASSUME Crash PROVE Known'
  <2>1. DOMAIN jobs' = {}
    BY <1>7, NoJobs DEF Crash
  <2> QED BY <1>2, <1>7, <2>1 DEF Crash, tasks
<1>8. ASSUME Refresh \/ (\E cs \in Channels \cup {None} : Change(cs)) \/ UNCHANGED vars
      PROVE  Known'
  BY <1>2, <1>8 DEF Refresh, Change, vars, tasks
<1> QED BY <1>3, <1>4, <1>5, <1>6, <1>7, <1>8 DEF Next, BagToSet

LEMMA KnownInit == Init => Known
<1> SUFFICES ASSUME Init PROVE Known
  OBVIOUS
<1>1. DOMAIN jobs = {}
  BY NoJobs DEF Init
<1> QED BY <1>1 DEF Init, Known
----------------------------------------------------------------------------
(* The posts of an id that are made or may be made *)

\* Each post made, and whatever may still make one, has its reason.
Budget ==
    \A id \in Id, c \in Webhooks :
        sent[<<id, c>>] + CountIn(jobs, Will(id, c)) + CountIn(jobs, Coming(id))
            + CountIn(jobs, Scheds(id)) + Ahead(id)
          <= 1 + failures[id] + crashes

LEMMA CountsAreNat ==
    ASSUME JobsInv, NEW S
    PROVE  CountIn(jobs, S) \in Nat
BY CountsAreFinite DEF JobsInv

LEMMA GoesKeepsBudget ==
    ASSUME WebhookInv, Budget, NEW j \in DOMAIN jobs, Dispatch(j), ~PostFails(j)
    PROVE  Budget'
<1>1. /\ JobFits(j) /\ j \in Job /\ j.id \in Id
  BY JobParts DEF WebhookInv, JobFits
<1>2. /\ waiting \in [Id -> Nat] /\ sent \in [Id \X Webhooks -> Nat]
      /\ failures \in [Id -> Nat] /\ crashes \in Nat /\ due \in [Id -> Nat]
  BY WebhookAssumption DEF WebhookInv, TypeOK
<1>3. UNCHANGED <<due, emitted, failures, crashes>>
  BY DEF Dispatch, GetChannels, Posted, Schedule, ScheduleFails, tasks, bounds
<1>4. PICK hooks, b, K :
         /\ Goes(j, hooks, b, K) /\ Becomes(j, K)
         /\ j.at = "load" \/ hooks \subseteq HooksOf(j, j.left)
         /\ Posted(j) => j.at = "post" /\ hooks = HooksOf(j, j.left) \ {Head(j.left)}
                         /\ Head(j.left) \in HooksOf(j, j.left) /\ Head(j.left) \in Webhooks
  <2>1. CASE GetChannels(j)
    <3>1. j.at = "load"
      BY <2>1 DEF GetChannels
    <3> QED BY <2>1, <3>1, GetChannelsGoes DEF Posted
  <2>2. CASE Posted(j)
    <3>1. j.at = "post"
      BY <2>2 DEF Posted
    <3>2. /\ Head(j.left) \in Webhooks
          /\ HooksOf(j, j.left) = {Head(j.left)} \cup HooksOf(j, Tail(j.left))
          /\ Head(j.left) \notin HooksOf(j, Tail(j.left))
      BY <1>1, <3>1, PostLeft
    <3>3. HooksOf(j, Tail(j.left)) = HooksOf(j, j.left) \ {Head(j.left)}
      BY <3>2
    <3> QED BY <2>2, <3>1, <3>2, <3>3, PostedGoes
  <2>3. CASE Schedule(j)
    <3>1. j.at # "post"
      BY <2>3 DEF Schedule
    <3> QED BY <2>3, <3>1, ScheduleGoes DEF Posted
  <2>4. CASE ScheduleFails(j)
    <3>1. j.at # "post"
      BY <2>4 DEF ScheduleFails
    <3> QED BY <2>4, <3>1, ScheduleFailsGoes DEF Posted
  <2> QED BY <2>1, <2>2, <2>3, <2>4 DEF Dispatch
<1> SUFFICES ASSUME NEW id \in Id, NEW c \in Webhooks
    PROVE  (sent[<<id, c>>] + CountIn(jobs, Will(id, c)) + CountIn(jobs, Coming(id))
              + CountIn(jobs, Scheds(id)) + Ahead(id) <= 1 + failures[id] + crashes)'
  BY DEF Budget
<1> DEFINE w == CountIn(jobs, Will(id, c))
           ww == CountIn(jobs', Will(id, c))
           f == CountIn(jobs, Coming(id))
           ff == CountIn(jobs', Coming(id))
           n == CountIn(jobs, Scheds(id))
           nn == CountIn(jobs', Scheds(id))
           a == Ahead(id)
           s == sent[<<id, c>>]
           ss == sent'[<<id, c>>]
<1>5. s + w + f + n + a <= 1 + failures[id] + crashes
  BY DEF Budget
<1>6. /\ w \in Nat /\ ww \in Nat /\ f \in Nat /\ ff \in Nat /\ n \in Nat /\ nn \in Nat
      /\ ww + ff <= w + f /\ nn <= n
      /\ j.at = "post" /\ j.id = id /\ c \in HooksOf(j, j.left) \ hooks => ww + ff <= w + f - 1
      /\ j.at = "schedule" /\ j.id = id => nn = n - 1
  <2> HIDE DEF w, ww, f, ff, n, nn
  <2>1. {w, ww, f, ff, n, nn} \subseteq Nat /\ ww + ff <= w + f /\ nn <= n
        /\ (j.at = "post" /\ j.id = id /\ c \in HooksOf(j, j.left) \ hooks => ww + ff <= w + f - 1)
        /\ (j.at = "schedule" /\ j.id = id => nn = n - 1)
    BY <1>4, GoesCounts DEF w, ww, f, ff, n, nn
  <2> QED BY <2>1
<1>7. a \in Nat /\ s \in Nat
  BY <1>2, AheadLemma
<1>8. /\ ss \in Nat
      /\ Posted(j) /\ j.id = id /\ c = Head(j.left) => ss = s + 1
      /\ ~(Posted(j) /\ j.id = id /\ c = Head(j.left)) => ss = s
  <2>1. CASE Posted(j)
    <3>1. sent' = [sent EXCEPT ![<<j.id, Head(j.left)>>] = @ + 1]
      BY <2>1 DEF Posted
    <3>2. <<j.id, Head(j.left)>> \in Id \X Webhooks
      BY <1>1, <1>4, <2>1
    <3>3. <<id, c>> = <<j.id, Head(j.left)>> <=> j.id = id /\ c = Head(j.left)
      OBVIOUS
    <3> QED BY <1>2, <2>1, <3>1, <3>2, <3>3
  <2>2. CASE ~Posted(j)
    <3>1. sent' = sent
      BY <2>2 DEF Dispatch, GetChannels, Schedule, ScheduleFails
    <3> QED BY <1>7, <2>2, <3>1
  <2> QED BY <2>1, <2>2
<1>9. /\ Ahead(id)' \in Int
      /\ Ahead(id)' <= a + 1
      /\ ~(j.at = "schedule" /\ j.id = id) => Ahead(id)' = a
  <2>1. /\ waiting'[id] = waiting[id] \/ waiting'[id] = waiting[id] + 1
        /\ ~(j.at = "schedule" /\ j.id = id) => waiting'[id] = waiting[id]
    BY <1>1, <1>2 DEF Dispatch, GetChannels, Posted, Schedule, PutTask, ScheduleFails, tasks
  <2> QED BY <1>2, <1>3, <2>1 DEF Ahead
<1>10. Posted(j) /\ j.id = id /\ c = Head(j.left)
         => j.at = "post" /\ c \in HooksOf(j, j.left) \ hooks
  BY <1>4
<1>11. failures[id] \in Nat /\ crashes \in Nat /\ failures'[id] = failures[id] /\ crashes' = crashes
  BY <1>2, <1>3
<1> HIDE DEF w, ww, f, ff, n, nn, a, s, ss
<1>12. ss + ww + ff + nn + Ahead(id)' <= 1 + failures'[id] + crashes'
  <2>1. CASE j.at = "schedule" /\ j.id = id
    <3>1. nn = n - 1 /\ ss = s
      BY <1>6, <1>8, <1>10, <2>1
    <3> QED BY <1>5, <1>6, <1>7, <1>8, <1>9, <1>11, <3>1
  <2>2. CASE ~(j.at = "schedule" /\ j.id = id)
    <3>1. Ahead(id)' = a
      BY <1>9, <2>2
    <3>2. ss + ww + ff <= s + w + f
      BY <1>6, <1>7, <1>8, <1>10
    <3> QED BY <1>5, <1>6, <1>7, <1>8, <1>11, <3>1, <3>2
  <2> QED BY <2>1, <2>2
<1> QED BY <1>12 DEF ss, ww, ff, nn, Will, Coming, Scheds, HooksOf, CountIn, CopySet, Job, Id

\* What counts for one id and one webhook.
Spent(id, c) ==
    sent[<<id, c>>] + CountIn(jobs, Will(id, c)) + CountIn(jobs, Coming(id))
      + CountIn(jobs, Scheds(id)) + Ahead(id)
Fits(id, c) == Spent(id, c) <= 1 + failures[id] + crashes

LEMMA BudgetParts == Budget <=> \A id \in Id, c \in Webhooks : Fits(id, c)
BY DEF Budget, Fits, Spent

\* The sets that are counted are the same in every state.
LEMMA SpentNext ==
    ASSUME NEW id \in Id, NEW c \in Webhooks
    PROVE  Spent(id, c)' = sent'[<<id, c>>] + CountIn(jobs', Will(id, c))
              + CountIn(jobs', Coming(id)) + CountIn(jobs', Scheds(id)) + Ahead(id)'
BY DEF Spent, Will, Coming, Scheds, HooksOf, CountIn, CopySet, Job, Id

LEMMA ReplacedByOne ==
    ASSUME WebhookInv, NEW j \in DOMAIN jobs, NEW k, Becomes(j, {k}), NEW S
    PROVE  /\ CountIn(jobs, S) \in Nat /\ CountIn(jobs', S) \in Nat
           /\ k \in S => CountIn(jobs', S) <= CountIn(jobs, S) + 1
           /\ j \in S /\ k \in S => CountIn(jobs', S) = CountIn(jobs, S)
           /\ k \notin S => CountIn(jobs', S) <= CountIn(jobs, S)
           /\ k \notin S /\ j \notin S => CountIn(jobs', S) = CountIn(jobs, S)
<1>1. ASSUME NEW K, K = {k}
      PROVE  /\ CountIn(jobs, S) \in Nat /\ CountIn(jobs', S) \in Nat
             /\ j \in S /\ k \in S => CountIn(jobs', S) = CountIn(jobs, S)
             /\ j \in S /\ k \notin S => CountIn(jobs', S) = CountIn(jobs, S) - 1
             /\ j \notin S /\ k \in S => CountIn(jobs', S) = CountIn(jobs, S) + 1
             /\ j \notin S /\ k \notin S => CountIn(jobs', S) = CountIn(jobs, S)
  <2>1. K = {} \/ \E x : K = {x}
    BY <1>1
  <2>2. Becomes(j, K)
    BY <1>1
  <2>3. /\ CountIn(jobs, S) \in Nat /\ CountIn(jobs', S) \in Nat
        /\ j \in S /\ K \cap S # {} => CountIn(jobs', S) = CountIn(jobs, S)
        /\ j \in S /\ K \cap S = {} => CountIn(jobs', S) = CountIn(jobs, S) - 1
        /\ j \notin S /\ K \cap S # {} => CountIn(jobs', S) = CountIn(jobs, S) + 1
        /\ j \notin S /\ K \cap S = {} => CountIn(jobs', S) = CountIn(jobs, S)
    BY <2>1, <2>2, Replaced, Z3
  <2>4. K \cap S # {} <=> k \in S
    BY <1>1
  <2> QED BY <2>3, <2>4
<1> QED BY <1>1

LEMMA PostFailsKeepsBudget ==
    ASSUME WebhookInv, Budget, NEW j \in DOMAIN jobs, PostFails(j),
           NEW id \in Id, NEW c \in Webhooks
    PROVE  Fits(id, c)'
<1>1. PICK k : /\ Becomes(j, {k}) /\ JobFits(k)
               /\ k.id = j.id /\ k.more = j.more /\ k.failed = j.failed
               /\ k.at = "schedule" /\ k.left = Tail(j.left)
  BY PostFailsGoes
<1>2. /\ JobFits(j) /\ j \in Job /\ j.id \in Id /\ j.at = "post" /\ k \in Job
  BY <1>1, JobParts DEF WebhookInv, JobFits, PostFails
<1>3. /\ sent \in [Id \X Webhooks -> Nat] /\ failures \in [Id -> Nat] /\ crashes \in Nat
  BY WebhookAssumption DEF WebhookInv, TypeOK
<1>4. /\ UNCHANGED <<sent, crashes>> /\ failures' = [failures EXCEPT ![j.id] = @ + 1]
      /\ Ahead(id)' = Ahead(id)
  BY DEF PostFails, tasks, bounds, Ahead
<1>5. HooksOf(k, k.left) \subseteq HooksOf(j, j.left)
  <2>1. HooksOf(j, Tail(j.left)) \subseteq HooksOf(j, j.left)
    BY <1>2, PostLeft
  <2> QED BY <1>1, <2>1 DEF HooksOf
<1>6. k \in Will(id, c) => j \in Will(id, c)
  BY <1>1, <1>2, <1>5 DEF Will
<1>7. k \in Coming(id) <=> j \in Coming(id)
  BY <1>1, <1>2 DEF Coming
<1>8. j \notin Scheds(id) /\ (k \in Scheds(id) <=> j.id = id)
  BY <1>1, <1>2 DEF Scheds
<1>9. ASSUME NEW S
      PROVE  /\ CountIn(jobs, S) \in Nat /\ CountIn(jobs', S) \in Nat
             /\ k \in S => CountIn(jobs', S) <= CountIn(jobs, S) + 1
             /\ j \in S /\ k \in S => CountIn(jobs', S) = CountIn(jobs, S)
             /\ k \notin S => CountIn(jobs', S) <= CountIn(jobs, S)
             /\ k \notin S /\ j \notin S => CountIn(jobs', S) = CountIn(jobs, S)
  BY <1>1, ReplacedByOne
<1> DEFINE w == CountIn(jobs, Will(id, c))
           ww == CountIn(jobs', Will(id, c))
           f == CountIn(jobs, Coming(id))
           ff == CountIn(jobs', Coming(id))
           n == CountIn(jobs, Scheds(id))
           nn == CountIn(jobs', Scheds(id))
           a == Ahead(id)
           s == sent[<<id, c>>]
<1>10. w \in Nat /\ ww \in Nat /\ ww <= w
  <2>1. CASE k \in Will(id, c)
    BY <1>6, <1>9, <2>1
  <2>2. CASE k \notin Will(id, c)
    BY <1>9, <2>2
  <2> QED BY <2>1, <2>2
<1>11. f \in Nat /\ ff \in Nat /\ ff <= f
  BY <1>7, <1>9
<1>12. n \in Nat /\ nn \in Nat /\ (j.id = id => nn <= n + 1) /\ (j.id # id => nn <= n)
  BY <1>8, <1>9
<1>13. /\ failures[id] \in Nat /\ failures'[id] \in Nat
       /\ j.id = id => failures'[id] = failures[id] + 1
       /\ j.id # id => failures'[id] = failures[id]
  BY <1>2, <1>3, <1>4
<1>14. a \in Nat /\ s \in Nat /\ s + w + f + n + a <= 1 + failures[id] + crashes
  BY <1>3, AheadLemma, BudgetParts DEF Fits, Spent
<1>15. Spent(id, c)' = s + ww + ff + nn + a
  BY <1>4, SpentNext
<1> HIDE DEF w, ww, f, ff, n, nn, a, s
<1>16. s + ww + ff + nn + a <= 1 + failures'[id] + crashes
  BY <1>3, <1>10, <1>11, <1>12, <1>13, <1>14
<1> QED BY <1>4, <1>15, <1>16 DEF Fits

\* Dispatches that are added, to those there are.
LEMMA AddedCounts ==
    ASSUME WebhookInv, NEW k, jobs' = jobs (+) SetToBag({k}), NEW S
    PROVE  /\ CountIn(jobs, S) \in Nat /\ CountIn(jobs', S) \in Nat
           /\ k \in S => CountIn(jobs', S) = CountIn(jobs, S) + 1
           /\ k \notin S => CountIn(jobs', S) = CountIn(jobs, S)
<1>1. FiniteBag(jobs) /\ FiniteBag(jobs')
  BY PlusFinite DEF WebhookInv
<1>2. CountIn(jobs, S) \in Nat /\ CountIn(jobs', S) \in Nat
  BY <1>1, CountsAreFinite
<1> QED BY <1>1, <1>2, BagPlus

\* A message that was not notified has spent nothing.
LEMMA NothingSpent ==
    ASSUME WebhookInv, Known, NEW id \in Id, id[1] \notin notified, NEW c \in Webhooks
    PROVE  /\ sent[<<id, c>>] = 0 /\ Ahead(id) = 0 /\ failures[id] = 0
           /\ CountIn(jobs, Will(id, c)) = 0 /\ CountIn(jobs, Coming(id)) = 0
           /\ CountIn(jobs, Scheds(id)) = 0
<1>1. /\ sent[<<id, c>>] = 0 /\ waiting[id] = 0 /\ due[id] = 0 /\ failures[id] = 0
  BY DEF Known
<1>2. emitted # id
  BY <1>1, WebhookAssumption DEF WebhookInv
<1>3. Ahead(id) = 0
  <2>1. Ahead(id) = 0 + 0 - 0
    BY <1>1, <1>2 DEF Ahead
  <2> QED BY <2>1
<1>4. /\ Will(id, c) \cap DOMAIN jobs = {} /\ Coming(id) \cap DOMAIN jobs = {}
      /\ Scheds(id) \cap DOMAIN jobs = {}
  BY DEF Known, Will, Coming, Scheds
<1>5. FiniteBag(jobs)
  BY DEF WebhookInv
<1> QED BY <1>1, <1>3, <1>4, <1>5, NoCopies

LEMMA NotifyKeepsBudget ==
    ASSUME WebhookInv, Known, Budget, NEW m \in Messages, Notify(m),
           NEW id \in Id, NEW c \in Webhooks
    PROVE  Fits(id, c)'
<1>1. /\ sub \in Channels /\ jobs' = jobs (+) Starts(m, sub) /\ m \notin notified
      /\ UNCHANGED <<sent, failures, crashes>> /\ Ahead(id)' = Ahead(id)
  BY DEF Notify, WebhookInv, TypeOK, tasks, bounds, Ahead
<1>2. /\ sent \in [Id \X Webhooks -> Nat] /\ failures \in [Id -> Nat] /\ crashes \in Nat
  BY WebhookAssumption DEF WebhookInv, TypeOK
<1>3. Fits(id, c)
  BY BudgetParts
<1>4. CASE Starts(m, sub) = SetToBag({})
  <2>1. jobs' = jobs
    BY <1>1, <1>4, BagPlusNone DEF WebhookInv
  <2>2. Spent(id, c)' = Spent(id, c)
    BY <1>1, <2>1, SpentNext DEF Spent
  <2> QED BY <1>1, <1>3, <2>2 DEF Fits
<1>5. CASE \E n \in 1..MaxHooks : Starts(m, sub) = SetToBag({Load(<<m, 1>>, n - 1)})
  <2>1. PICK n \in 1..MaxHooks : Starts(m, sub) = SetToBag({Load(<<m, 1>>, n - 1)})
    BY <1>5
  <2> DEFINE k == Load(<<m, 1>>, n - 1)
  <2>2. /\ k \in Job /\ k.id = <<m, 1>> /\ k.id[1] = m /\ k.id[2] = 1 /\ k.more = n - 1
        /\ k.at = "load" /\ jobs' = jobs (+) SetToBag({k})
    BY <1>1, <2>1, FirstLoadFits DEF JobFits, Load
  <2> HIDE DEF k
  <2>3. ASSUME NEW S
        PROVE  /\ CountIn(jobs, S) \in Nat /\ CountIn(jobs', S) \in Nat
               /\ k \in S => CountIn(jobs', S) = CountIn(jobs, S) + 1
               /\ k \notin S => CountIn(jobs', S) = CountIn(jobs, S)
    BY <2>2, AddedCounts
  <2>4. k \notin Scheds(id) /\ (k \in Will(id, c) => id = k.id)
        /\ (k \in Coming(id) => id[1] = m /\ id # k.id)
    BY <2>2, WebhookAssumption DEF Scheds, Will, Coming, Id
  <2>5. CASE id[1] = m
    <3>1. /\ sent[<<id, c>>] = 0 /\ Ahead(id) = 0 /\ failures[id] = 0
          /\ CountIn(jobs, Will(id, c)) = 0 /\ CountIn(jobs, Coming(id)) = 0
          /\ CountIn(jobs, Scheds(id)) = 0
      BY <1>1, <2>5, NothingSpent
    <3>2. CountIn(jobs', Scheds(id)) = 0
      BY <2>3, <2>4, <3>1
    <3>3. CountIn(jobs', Will(id, c)) + CountIn(jobs', Coming(id)) <= 1
      <4>1. CASE k \in Will(id, c)
        <5>1. k \notin Coming(id)
          BY <2>4, <4>1
        <5>2. CountIn(jobs', Will(id, c)) = 1 /\ CountIn(jobs', Coming(id)) = 0
          BY <2>3, <3>1, <4>1, <5>1
        <5> QED BY <5>2
      <4>2. CASE k \notin Will(id, c)
        <5>1. CountIn(jobs', Will(id, c)) = 0
          BY <2>3, <3>1, <4>2
        <5>2. CountIn(jobs', Coming(id)) = 0 \/ CountIn(jobs', Coming(id)) = 1
          BY <2>3, <3>1
        <5> QED BY <5>1, <5>2
      <4> QED BY <4>1, <4>2
    <3>4. CountIn(jobs', Will(id, c)) \in Nat /\ CountIn(jobs', Coming(id)) \in Nat
      BY <2>3
    <3>5. Spent(id, c)' \in Nat /\ Spent(id, c)' <= 1
      BY <1>1, <3>1, <3>2, <3>3, <3>4, SpentNext
    <3>6. failures'[id] = 0 /\ crashes' \in Nat
      BY <1>1, <1>2, <3>1
    <3> QED BY <3>5, <3>6 DEF Fits
  <2>6. CASE id[1] # m
    <3>1. k \notin Will(id, c) /\ k \notin Coming(id)
      BY <2>2, <2>4, <2>6
    <3>2. Spent(id, c)' = Spent(id, c)
      BY <1>1, <2>3, <2>4, <3>1, SpentNext DEF Spent
    <3> QED BY <1>1, <1>3, <3>2 DEF Fits
  <2> QED BY <2>5, <2>6
<1> QED BY <1>1, <1>4, <1>5, StartsLemma

LEMMA EmitKeepsBudget ==
    ASSUME WebhookInv, Budget, NEW i \in Id, Emit(i), NEW id \in Id, NEW c \in Webhooks
    PROVE  Fits(id, c)'
<1> DEFINE k == Load(i, 0)
<1>1. /\ UNCHANGED <<waiting, due, sent, failures, crashes>> /\ emitted = None /\ emitted' = i
      /\ jobs' = jobs (+) SetToBag({k})
  BY DEF Emit, tasks, bounds
<1>2. /\ sent \in [Id \X Webhooks -> Nat] /\ failures \in [Id -> Nat] /\ crashes \in Nat
      /\ waiting \in [Id -> Nat] /\ due \in [Id -> Nat] /\ None \notin Id
  BY WebhookAssumption DEF WebhookInv, TypeOK
<1>3. k.id = i /\ k.more = 0 /\ k.at = "load"
  BY DEF Load
<1> HIDE DEF k
<1>4. ASSUME NEW S
      PROVE  /\ CountIn(jobs, S) \in Nat /\ CountIn(jobs', S) \in Nat
             /\ k \in S => CountIn(jobs', S) = CountIn(jobs, S) + 1
             /\ k \notin S => CountIn(jobs', S) = CountIn(jobs, S)
  BY <1>1, AddedCounts
<1>5. k \notin Scheds(id) /\ k \notin Coming(id) /\ (k \in Will(id, c) => id = i)
  <2>1. id[2] \in Nat /\ i[2] \in Nat
    BY WebhookAssumption DEF Id
  <2>2. ~(i[2] < id[2] /\ id[2] <= i[2] + 0)
    BY <2>1
  <2> QED BY <1>3, <2>2 DEF Scheds, Coming, Will
<1>6. /\ Ahead(id) \in Nat /\ Ahead(id)' \in Int
      /\ id = i => Ahead(id)' = Ahead(id) - 1
      /\ id # i => Ahead(id)' = Ahead(id)
  <2>1. Ahead(id) \in Nat
    BY AheadLemma
  <2>2. /\ id = i => Ahead(id)' = Ahead(id) - 1
        /\ id # i => Ahead(id)' = Ahead(id)
    BY <1>1, <1>2 DEF Ahead
  <2> QED BY <2>1, <2>2
<1> DEFINE w == CountIn(jobs, Will(id, c))
           ww == CountIn(jobs', Will(id, c))
           f == CountIn(jobs, Coming(id))
           n == CountIn(jobs, Scheds(id))
           a == Ahead(id)
           s == sent[<<id, c>>]
<1>7. /\ w \in Nat /\ ww \in Nat /\ f \in Nat /\ n \in Nat
      /\ id = i => ww <= w + 1
      /\ id # i => ww = w
  BY <1>4, <1>5
<1>8. Spent(id, c)' = s + ww + f + n + Ahead(id)'
  <2>1. CountIn(jobs', Coming(id)) = f /\ CountIn(jobs', Scheds(id)) = n
    BY <1>4, <1>5
  <2> QED BY <1>1, <2>1, SpentNext
<1>9. s \in Nat /\ s + w + f + n + a <= 1 + failures[id] + crashes
  BY <1>2, BudgetParts DEF Fits, Spent
<1> HIDE DEF w, ww, f, n, s
<1>10. s + ww + f + n + Ahead(id)' <= 1 + failures[id] + crashes
  <2>1. failures[id] \in Nat
    BY <1>2
  <2> QED BY <1>2, <1>6, <1>7, <1>9, <2>1
<1> QED BY <1>1, <1>8, <1>10 DEF Fits

LEMMA OthersKeepBudget ==
    ASSUME WebhookInv, Budget,
           \/ \E i \in Id : Tick(i)
           \/ DeleteTask \/ Refresh \/ (\E cs \in Channels \cup {None} : Change(cs))
           \/ UNCHANGED vars,
           NEW id \in Id, NEW c \in Webhooks
    PROVE  Fits(id, c)'
<1>1. UNCHANGED <<jobs, sent, failures, crashes>>
  BY DEF Tick, DeleteTask, Refresh, Change, vars, bounds
<1>2. /\ waiting \in [Id -> Nat] /\ due \in [Id -> Nat] /\ emitted \in Id \cup {None}
      /\ None \notin Id
  BY WebhookAssumption DEF WebhookInv, TypeOK
<1>3. Ahead(id)' = Ahead(id)
  <2>1. CASE \E i \in Id : Tick(i)
    BY <1>2, <2>1 DEF Tick, Ahead
  <2>2. CASE DeleteTask
    BY <1>2, <2>2 DEF DeleteTask, Ahead
  <2>3. CASE Refresh \/ (\E cs \in Channels \cup {None} : Change(cs)) \/ UNCHANGED vars
    BY <2>3 DEF Refresh, Change, vars, tasks, Ahead
  <2> QED BY <2>1, <2>2, <2>3
<1>4. Spent(id, c)' = Spent(id, c)
  BY <1>1, <1>3, SpentNext DEF Spent
<1> QED BY <1>1, <1>4, BudgetParts DEF Fits

LEMMA CrashKeepsBudget ==
    ASSUME WebhookInv, Budget, Crash, NEW id \in Id, NEW c \in Webhooks
    PROVE  Fits(id, c)'
<1>1. /\ UNCHANGED <<waiting, due, sent, failures>> /\ emitted' = None
      /\ jobs' = EmptyBag /\ crashes' = crashes + 1
  BY DEF Crash, tasks
<1>2. /\ sent \in [Id \X Webhooks -> Nat] /\ failures \in [Id -> Nat] /\ crashes \in Nat
      /\ waiting \in [Id -> Nat] /\ due \in [Id -> Nat] /\ None \notin Id
  BY WebhookAssumption DEF WebhookInv, TypeOK
<1>3. /\ CountIn(jobs', Will(id, c)) = 0 /\ CountIn(jobs', Coming(id)) = 0
      /\ CountIn(jobs', Scheds(id)) = 0
  BY <1>1, NoJobs, NoCopies
<1>4. /\ CountIn(jobs, Will(id, c)) \in Nat /\ CountIn(jobs, Coming(id)) \in Nat
      /\ CountIn(jobs, Scheds(id)) \in Nat
  BY CountsAreFinite DEF WebhookInv
<1>5. /\ Ahead(id) \in Nat /\ Ahead(id)' \in Int /\ Ahead(id)' <= Ahead(id) + 1
  <2>1. Ahead(id) \in Nat
    BY AheadLemma
  <2>2. Ahead(id)' = waiting[id] + due[id]
    BY <1>1, <1>2 DEF Ahead
  <2>3. Ahead(id) = waiting[id] + due[id] \/ Ahead(id) = waiting[id] + due[id] - 1
    BY <1>2 DEF Ahead
  <2> QED BY <1>2, <2>1, <2>2, <2>3
<1>6. sent[<<id, c>>] \in Nat /\ failures[id] \in Nat
  BY <1>2
<1>7. Spent(id, c) <= 1 + failures[id] + crashes
  BY BudgetParts DEF Fits
<1>8. sent[<<id, c>>] + Ahead(id) <= 1 + failures[id] + crashes
  BY <1>2, <1>4, <1>5, <1>6, <1>7 DEF Spent
<1>9. Spent(id, c)' = sent[<<id, c>>] + Ahead(id)'
  BY <1>1, <1>3, <1>5, <1>6, SpentNext
<1>10. sent[<<id, c>>] + Ahead(id)' <= 1 + failures[id] + (crashes + 1)
  BY <1>2, <1>5, <1>6, <1>8
<1> QED BY <1>1, <1>9, <1>10 DEF Fits

LEMMA BudgetStep ==
    ASSUME WebhookInv, Known, Budget, [Next]_vars
    PROVE  Budget'
<1>1. ASSUME NEW j \in DOMAIN jobs, Dispatch(j), ~PostFails(j) PROVE Budget'
  BY <1>1, GoesKeepsBudget
<1>2. ASSUME \/ \E j \in DOMAIN jobs : PostFails(j)
             \/ \E m \in Messages : Notify(m)
             \/ \E i \in Id : Tick(i) \/ Emit(i)
             \/ DeleteTask \/ Refresh \/ Crash
             \/ \E cs \in Channels \cup {None} : Change(cs)
             \/ UNCHANGED vars,
             NEW id \in Id, NEW c \in Webhooks
      PROVE  Fits(id, c)'
  BY <1>2, PostFailsKeepsBudget, NotifyKeepsBudget, EmitKeepsBudget, OthersKeepBudget,
     CrashKeepsBudget
<1>3. (\A id \in Id, c \in Webhooks : Fits(id, c)') => Budget'
  BY DEF Budget, Fits, Spent, Id
<1> QED BY <1>1, <1>2, <1>3 DEF Next, BagToSet

LEMMA BudgetInit == Init => Budget
<1> SUFFICES ASSUME Init, NEW id \in Id, NEW c \in Webhooks
             PROVE  Fits(id, c)
  BY BudgetParts
<1>1. WebhookInv /\ Known /\ notified = {}
  BY WebhookInit, KnownInit DEF Init
<1>2. /\ sent[<<id, c>>] = 0 /\ Ahead(id) = 0 /\ failures[id] = 0
      /\ CountIn(jobs, Will(id, c)) = 0 /\ CountIn(jobs, Coming(id)) = 0
      /\ CountIn(jobs, Scheds(id)) = 0
  BY <1>1, NothingSpent
<1>3. Spent(id, c) = 0 /\ crashes = 0
  BY <1>2 DEF Spent, Init
<1> QED BY <1>2, <1>3 DEF Fits

\* An endpoint is posted a message again, under the same id, at most once for each
\* post of that id that failed and for each crash: whatever tasks share a key,
\* whatever the channels become (webhook.ts:76-160, scheduler.ts:104-119).
THEOREM Repeats == Spec => []RepeatsHaveAReason
<1>1. WebhookInv /\ Budget => RepeatsHaveAReason
  <2> SUFFICES ASSUME WebhookInv, Budget, NEW id \in Id, NEW c \in Webhooks
               PROVE  sent[<<id, c>>] <= 1 + failures[id] + crashes
    BY DEF RepeatsHaveAReason
  <2>1. /\ sent[<<id, c>>] \in Nat /\ failures[id] \in Nat /\ crashes \in Nat
        /\ Ahead(id) \in Nat
    BY AheadLemma, WebhookAssumption DEF WebhookInv, TypeOK
  <2>2. /\ CountIn(jobs, Will(id, c)) \in Nat /\ CountIn(jobs, Coming(id)) \in Nat
        /\ CountIn(jobs, Scheds(id)) \in Nat
    BY CountsAreFinite DEF WebhookInv
  <2> QED BY <2>1, <2>2 DEF Budget
<1> QED BY <1>1, WebhookInit, WebhookStep, KnownInit, KnownStep, BudgetInit, BudgetStep, PTL
        DEF Spec
----------------------------------------------------------------------------
(* Lines of dispatches *)

\* Nothing happened to an id.
Untouched(id) ==
    /\ \A j \in DOMAIN jobs : j.id # id
    /\ waiting[id] = 0 /\ due[id] = 0 /\ failures[id] = 0

\* A dispatch that is still to be made is made once, as the first of its id.
Future ==
    \A id \in Id : \/ CountIn(jobs, Coming(id)) = 0
                   \/ CountIn(jobs, Coming(id)) = 1 /\ Untouched(id)

\* The next dispatch was coming; no other is any more.
LEMMA GoesComing ==
    ASSUME WebhookInv, NEW j \in DOMAIN jobs, NEW hooks, NEW b, NEW K,
           Goes(j, hooks, b, K), Becomes(j, K), NEW id \in Id,
           NEW f, f = CountIn(jobs, Coming(id)), NEW ff, ff = CountIn(jobs', Coming(id))
    PROVE  /\ f \in Nat /\ ff \in Nat /\ ff <= f
           /\ \A k \in K : k.id = id /\ id # j.id => ff = f - 1
<1>1. /\ j \in Job /\ j.id \in Id /\ j.id[1] \in Messages /\ j.id[2] \in Nat
      /\ j.id = <<j.id[1], j.id[2]>> /\ j.more \in Nat
  BY JobParts DEF WebhookInv, JobFits
<1>2. id = <<id[1], id[2]>> /\ id[2] \in Nat
  BY WebhookAssumption DEF Id
<1>3. K = {} \/ \E k : K = {k}
  BY DEF Goes
<1>4. /\ f \in Nat /\ ff \in Nat
      /\ j \in Coming(id) /\ K \cap Coming(id) # {} => ff = f
      /\ j \in Coming(id) /\ K \cap Coming(id) = {} => ff = f - 1
      /\ j \notin Coming(id) /\ K \cap Coming(id) # {} => ff = f + 1
      /\ j \notin Coming(id) /\ K \cap Coming(id) = {} => ff = f
  BY <1>3, Replaced
<1>5. ASSUME NEW k \in K
      PROVE  /\ k \in Coming(id) => j \in Coming(id)
             /\ k.id = id /\ id # j.id => j \in Coming(id) /\ k \notin Coming(id)
  <2>1. /\ k \in Job
        /\ \/ k.id = j.id /\ k.more = j.more
           \/ j.more > 0 /\ k.id = <<j.id[1], j.id[2] + 1>> /\ k.more = j.more - 1
    <3>1. /\ k \in Job /\ k.at # "schedule"
          /\ \/ /\ k.id = j.id /\ k.more = j.more /\ k.failed = b /\ k.at = "post"
                /\ HooksOf(k, k.left) = hooks
             \/ /\ j.more > 0 /\ k.id = <<j.id[1], j.id[2] + 1>> /\ k.more = j.more - 1
                /\ k.at = "load" /\ k.failed = FALSE
      BY GoesWhere
    <3> QED BY <3>1
  <2>2. j \in Coming(id) <=> j.id[1] = id[1] /\ j.id[2] < id[2] /\ id[2] <= j.id[2] + j.more
    BY <1>1 DEF Coming
  <2>3. k \in Coming(id) <=> k.id[1] = id[1] /\ k.id[2] < id[2] /\ id[2] <= k.id[2] + k.more
    BY <2>1 DEF Coming
  <2>4. CASE k.id = j.id /\ k.more = j.more
    BY <2>2, <2>3, <2>4
  <2>5. CASE j.more > 0 /\ k.id = <<j.id[1], j.id[2] + 1>> /\ k.more = j.more - 1
    <3>1. k.id[1] = j.id[1] /\ k.id[2] = j.id[2] + 1 /\ k.id[2] + k.more = j.id[2] + j.more
      BY <1>1, <2>5
    <3>2. k \in Coming(id) => j \in Coming(id)
      BY <1>1, <1>2, <2>2, <2>3, <3>1
    <3>3. k.id = id => j \in Coming(id) /\ k \notin Coming(id)
      BY <1>1, <1>2, <2>2, <2>3, <2>5, <3>1
    <3> QED BY <3>2, <3>3
  <2> QED BY <2>1, <2>4, <2>5
<1> HIDE DEF Coming
<1>6. CASE K = {}
  BY <1>4, <1>6
<1>7. ASSUME NEW k, K = {k}
      PROVE  ff <= f /\ (k.id = id /\ id # j.id => ff = f - 1)
  <2>1. K \cap Coming(id) # {} <=> k \in Coming(id)
    BY <1>7
  <2>2. /\ k \in Coming(id) => j \in Coming(id)
        /\ k.id = id /\ id # j.id => j \in Coming(id) /\ k \notin Coming(id)
    BY <1>5, <1>7
  <2> QED BY <1>4, <2>1, <2>2
<1> QED BY <1>3, <1>4, <1>6, <1>7

\* The sets that are counted are the same in every state.
FutureAt(id) == \/ CountIn(jobs, Coming(id)) = 0
                \/ CountIn(jobs, Coming(id)) = 1 /\ Untouched(id)
LEMMA FutureNext ==
    ASSUME NEW id \in Id
    PROVE  FutureAt(id)' <=> \/ CountIn(jobs', Coming(id)) = 0
                             \/ CountIn(jobs', Coming(id)) = 1 /\ Untouched(id)'
BY DEF FutureAt, Coming, CountIn, CopySet, Job, Id

\* An id that a dispatch or a task has is not coming.
LEMMA TouchedLemma ==
    ASSUME WebhookInv, Future, NEW id \in Id
    PROVE  /\ FutureAt(id)
           /\ ~Untouched(id) => CountIn(jobs, Coming(id)) = 0
BY DEF Future, FutureAt

LEMMA DispatchKeepsFuture ==
    ASSUME WebhookInv, Future, NEW j \in DOMAIN jobs, Dispatch(j), NEW id \in Id
    PROVE  FutureAt(id)'
<1>1. /\ j \in Job /\ j.id \in Id /\ JobFits(j)
  BY JobParts DEF WebhookInv, JobFits
<1>2. /\ waiting \in [Id -> Nat] /\ due \in [Id -> Nat] /\ failures \in [Id -> Nat]
      /\ FiniteBag(jobs)
  BY DEF WebhookInv, TypeOK
<1>3. id # j.id => /\ waiting'[id] = waiting[id] /\ due'[id] = due[id]
                   /\ failures'[id] = failures[id]
  BY <1>1, <1>2
  DEF Dispatch, GetChannels, Posted, PostFails, Schedule, PutTask, ScheduleFails, tasks
<1>4. \E K : /\ Becomes(j, K)
             /\ CountIn(jobs, Coming(id)) \in Nat /\ CountIn(jobs', Coming(id)) \in Nat
             /\ CountIn(jobs', Coming(id)) <= CountIn(jobs, Coming(id))
             /\ \A k \in K : k.id = id /\ id # j.id
                   => CountIn(jobs', Coming(id)) = CountIn(jobs, Coming(id)) - 1
  <2>1. CASE PostFails(j)
    <3>1. PICK k : Becomes(j, {k}) /\ JobFits(k) /\ k.id = j.id /\ k.more = j.more
      BY <2>1, PostFailsGoes
    <3>2. k \in Coming(id) <=> j \in Coming(id)
      BY <1>1, <3>1 DEF Coming, JobFits
    <3>3. /\ CountIn(jobs, Coming(id)) \in Nat /\ CountIn(jobs', Coming(id)) \in Nat
          /\ k \in Coming(id) => CountIn(jobs', Coming(id)) <= CountIn(jobs, Coming(id)) + 1
          /\ j \in Coming(id) /\ k \in Coming(id)
               => CountIn(jobs', Coming(id)) = CountIn(jobs, Coming(id))
          /\ k \notin Coming(id) => CountIn(jobs', Coming(id)) <= CountIn(jobs, Coming(id))
          /\ k \notin Coming(id) /\ j \notin Coming(id)
               => CountIn(jobs', Coming(id)) = CountIn(jobs, Coming(id))
      BY <3>1, ReplacedByOne
    <3> HIDE DEF Coming
    <3>4. CountIn(jobs', Coming(id)) <= CountIn(jobs, Coming(id))
      BY <3>2, <3>3
    <3> QED BY <3>1, <3>3, <3>4
  <2>2. CASE ~PostFails(j)
    <3>1. PICK hooks, b, K : Goes(j, hooks, b, K) /\ Becomes(j, K)
      BY <2>2, GetChannelsGoes, PostedGoes, ScheduleGoes, ScheduleFailsGoes DEF Dispatch
    <3> DEFINE f == CountIn(jobs, Coming(id))
               ff == CountIn(jobs', Coming(id))
    <3> HIDE DEF f, ff
    <3>2. /\ f \in Nat /\ ff \in Nat /\ ff <= f
          /\ \A k \in K : k.id = id /\ id # j.id => ff = f - 1
      BY <3>1, GoesComing DEF f, ff
    <3> QED BY <3>1, <3>2 DEF f, ff
  <2> QED BY <2>1, <2>2
<1>5. PICK K : /\ Becomes(j, K)
               /\ CountIn(jobs, Coming(id)) \in Nat /\ CountIn(jobs', Coming(id)) \in Nat
               /\ CountIn(jobs', Coming(id)) <= CountIn(jobs, Coming(id))
               /\ \A k \in K : k.id = id /\ id # j.id
                     => CountIn(jobs', Coming(id)) = CountIn(jobs, Coming(id)) - 1
  BY <1>4
<1>6. DOMAIN jobs' \subseteq DOMAIN jobs \cup K
  BY <1>2, <1>5, ReplaceDomain DEF Becomes
<1> DEFINE f == CountIn(jobs, Coming(id))
           ff == CountIn(jobs', Coming(id))
<1>7. /\ f \in Nat /\ ff \in Nat /\ ff <= f
      /\ \A k \in K : k.id = id /\ id # j.id => ff = f - 1
      /\ f = 0 \/ (f = 1 /\ Untouched(id))
  BY <1>5 DEF Future
<1> HIDE DEF f, ff
<1>8. ff = 0 \/ (ff = 1 /\ Untouched(id)')
  <2>1. CASE f = 0
    BY <1>7, <2>1
  <2>2. CASE f = 1 /\ Untouched(id) /\ \E k \in K : k.id = id
    <3>1. id # j.id
      BY <2>2 DEF Untouched
    <3> QED BY <1>7, <2>2, <3>1
  <2>3. CASE f = 1 /\ Untouched(id) /\ \A k \in K : k.id # id
    <3>1. id # j.id
      BY <2>3 DEF Untouched
    <3>2. Untouched(id)'
      BY <1>3, <1>6, <2>3, <3>1 DEF Untouched
    <3> QED BY <1>7, <2>3, <3>2
  <2> QED BY <1>7, <2>1, <2>2, <2>3
<1> QED BY <1>8, FutureNext DEF f, ff

LEMMA NotifyKeepsFuture ==
    ASSUME WebhookInv, Known, Future, NEW m \in Messages, Notify(m), NEW id \in Id
    PROVE  FutureAt(id)'
<1>1. /\ sub \in Channels /\ jobs' = jobs (+) Starts(m, sub) /\ m \notin notified
      /\ UNCHANGED <<waiting, due, failures>>
  BY DEF Notify, WebhookInv, TypeOK, tasks
<1>2. FutureAt(id)
  BY TouchedLemma
<1>3. CASE Starts(m, sub) = SetToBag({})
  <2>1. jobs' = jobs
    BY <1>1, <1>3, BagPlusNone DEF WebhookInv
  <2>2. Untouched(id)' <=> Untouched(id)
    BY <1>1, <2>1 DEF Untouched
  <2> QED BY <1>2, <2>1, <2>2, FutureNext DEF FutureAt
<1>4. CASE \E n \in 1..MaxHooks : Starts(m, sub) = SetToBag({Load(<<m, 1>>, n - 1)})
  <2>1. PICK n \in 1..MaxHooks : Starts(m, sub) = SetToBag({Load(<<m, 1>>, n - 1)})
    BY <1>4
  <2> DEFINE k == Load(<<m, 1>>, n - 1)
  <2>2. /\ k.id = <<m, 1>> /\ jobs' = jobs (+) SetToBag({k})
    BY <1>1, <2>1 DEF Load
  <2> HIDE DEF k
  <2>3. DOMAIN jobs' = DOMAIN jobs \cup {k}
    BY <2>2, PlusDomain
  <2> DEFINE f == CountIn(jobs, Coming(id))
             ff == CountIn(jobs', Coming(id))
  <2>4. /\ f \in Nat /\ ff \in Nat
        /\ k \in Coming(id) => ff = f + 1
        /\ k \notin Coming(id) => ff = f
    BY <2>2, AddedCounts
  <2>5. k \in Coming(id) => id[1] = m /\ id # k.id
    BY <2>2, WebhookAssumption DEF Coming, Id
  <2>6. id # k.id /\ Untouched(id) => Untouched(id)'
    BY <1>1, <2>3 DEF Untouched
  <2>7. id = k.id => f = 0
    <3>1. CASE id[1] \notin notified
      <4>1. Coming(id) \cap DOMAIN jobs = {}
        BY <3>1 DEF Known, Coming
      <4> QED BY <4>1, NoCopies DEF WebhookInv
    <3>2. CASE id # k.id
      BY <3>2
    <3> QED BY <1>1, <2>2, <3>1, <3>2
  <2>8. id[1] = m => f = 0 /\ Untouched(id)
    <3> SUFFICES ASSUME id[1] = m PROVE f = 0 /\ Untouched(id)
      OBVIOUS
    <3>1. Coming(id) \cap DOMAIN jobs = {}
      BY <1>1 DEF Known, Coming
    <3>2. f = 0
      BY <3>1, NoCopies DEF WebhookInv
    <3>3. Untouched(id)
      BY <1>1 DEF Known, Untouched
    <3> QED BY <3>2, <3>3
  <2>9. f = 0 \/ (f = 1 /\ Untouched(id))
    BY <1>2 DEF FutureAt
  <2> HIDE DEF f, ff
  <2>10. ff = 0 \/ (ff = 1 /\ Untouched(id)')
    BY <2>4, <2>5, <2>6, <2>7, <2>8, <2>9
  <2> QED BY <2>10, FutureNext DEF ff
<1> QED BY <1>1, <1>3, <1>4, StartsLemma

LEMMA OthersKeepFuture ==
    ASSUME WebhookInv, Future, NEW id \in Id,
           \/ \E i \in Id : Tick(i) \/ Emit(i)
           \/ DeleteTask \/ Refresh \/ Crash \/ (\E cs \in Channels \cup {None} : Change(cs))
           \/ UNCHANGED vars
    PROVE  FutureAt(id)'
<1>1. /\ waiting \in [Id -> Nat] /\ due \in [Id -> Nat] /\ emitted \in Id \cup {None}
      /\ FutureAt(id) /\ FiniteBag(jobs)
      /\ ~Untouched(id) => CountIn(jobs, Coming(id)) = 0
  BY TouchedLemma DEF WebhookInv, TypeOK
<1>2. CASE \E i \in Id : Emit(i)
  <2>1. PICK i \in Id : Emit(i)
    BY <1>2
  <2> DEFINE k == Load(i, 0)
  <2>2. /\ due[i] > 0 /\ UNCHANGED <<waiting, due, failures>> /\ jobs' = jobs (+) SetToBag({k})
        /\ k.id = i /\ k.more = 0
    BY <2>1 DEF Emit, tasks, Load
  <2> HIDE DEF k
  <2>3. k \notin Coming(id)
    <3>1. id[2] \in Nat /\ i[2] \in Nat
      BY WebhookAssumption DEF Id
    <3>2. ~(i[2] < id[2] /\ id[2] <= i[2] + 0)
      BY <3>1
    <3> QED BY <2>2, <3>2 DEF Coming
  <2>4. CountIn(jobs', Coming(id)) = CountIn(jobs, Coming(id))
    BY <2>2, <2>3, AddedCounts
  <2>5. Untouched(id) => Untouched(id)'
    <3>1. Untouched(id) => id # i
      BY <2>2 DEF Untouched
    <3>2. DOMAIN jobs' = DOMAIN jobs \cup {k}
      BY <2>2, PlusDomain
    <3> QED BY <2>2, <3>1, <3>2 DEF Untouched
  <2> QED BY <1>1, <2>4, <2>5, FutureNext DEF FutureAt
<1>3. CASE (\E i \in Id : Tick(i)) \/ DeleteTask
  <2>1. UNCHANGED <<jobs, failures>>
    BY <1>3 DEF Tick, DeleteTask
  <2>2. Untouched(id) => Untouched(id)'
    <3>1. ASSUME Untouched(id) PROVE waiting'[id] = waiting[id] /\ due'[id] = due[id]
      <4>1. waiting[id] = 0 /\ due[id] = 0
        BY <3>1 DEF Untouched
      <4>2. CASE \E i \in Id : Tick(i)
        BY <1>1, <4>1, <4>2 DEF Tick
      <4>3. CASE DeleteTask
        <5>1. due[emitted] > 0 /\ emitted \in Id
          BY <1>1, <4>3 DEF DeleteTask, WebhookInv
        <5>2. emitted # id
          BY <4>1, <5>1
        <5> QED BY <1>1, <4>3, <5>2 DEF DeleteTask
      <4> QED BY <1>3, <4>2, <4>3
    <3> QED BY <2>1, <3>1 DEF Untouched
  <2> QED BY <1>1, <2>1, <2>2, FutureNext DEF FutureAt
<1>4. CASE Crash
  <2>1. CountIn(jobs', Coming(id)) = 0
    BY <1>4, NoJobs, NoCopies DEF Crash
  <2> QED BY <2>1, FutureNext
<1>5. CASE Refresh \/ (\E cs \in Channels \cup {None} : Change(cs)) \/ UNCHANGED vars
  <2>1. UNCHANGED <<jobs, waiting, due, failures>>
    BY <1>5 DEF Refresh, Change, vars, tasks
  <2>2. Untouched(id)' <=> Untouched(id)
    BY <2>1 DEF Untouched
  <2> QED BY <1>1, <2>1, <2>2, FutureNext DEF FutureAt
<1> QED BY <1>2, <1>3, <1>4, <1>5

LEMMA FutureStep ==
    ASSUME WebhookInv, Known, Future, [Next]_vars
    PROVE  Future'
<1>1. ASSUME NEW id \in Id PROVE FutureAt(id)'
  <2>1. CASE \E j \in DOMAIN jobs : Dispatch(j)
    BY <2>1, DispatchKeepsFuture
  <2>2. CASE \E m \in Messages : Notify(m)
    BY <2>2, NotifyKeepsFuture
  <2>3. CASE \/ \E i \in Id : Tick(i) \/ Emit(i)
             \/ DeleteTask \/ Refresh \/ Crash
             \/ \E cs \in Channels \cup {None} : Change(cs)
             \/ UNCHANGED vars
    BY <2>3, OthersKeepFuture
  <2> QED BY <2>1, <2>2, <2>3 DEF Next, BagToSet
<1>2. (\A id \in Id : FutureAt(id)') => Future'
  BY DEF Future, FutureAt, Id
<1> QED BY <1>1, <1>2

LEMMA FutureInit == Init => Future
<1> SUFFICES ASSUME Init, NEW id \in Id PROVE CountIn(jobs, Coming(id)) = 0
  BY DEF Future
<1> QED BY NoJobs, NoCopies DEF Init
----------------------------------------------------------------------------
(* Copies *)

\* The dispatches of an id that have not failed.
Fine(id) == {j \in Job : j.id = id /\ ~j.failed}

LEMMA CopiesAre ==
    ASSUME TypeOK, NEW id
    PROVE  Copies(id) = Ahead(id) + CountIn(jobs, Fine(id))
<1>1. {k \in BagToSet(jobs) : k.id = id /\ ~k.failed} = Fine(id) \cap DOMAIN jobs
  BY DEF TypeOK, BagToSet, Fine
<1>2. CopySet(jobs, Fine(id)) = UNION {{j} \X (1..jobs[j]) :
                                    j \in {k \in BagToSet(jobs) : k.id = id /\ ~k.failed}}
  BY <1>1 DEF CopySet
<1> QED BY <1>2 DEF Copies, CountIn

LEMMA CopiesNext ==
    ASSUME WebhookInv', NEW id \in Id
    PROVE  Copies(id)' = Ahead(id)' + CountIn(jobs', Fine(id))
<1>1. BagToSet(jobs') \subseteq Job
  BY DEF WebhookInv, TypeOK, Job, Id
<1>2. {k \in BagToSet(jobs') : k.id = id /\ ~k.failed} = Fine(id) \cap DOMAIN jobs'
  BY <1>1 DEF BagToSet, Fine
<1>3. CopySet(jobs', Fine(id)) = UNION {{j} \X (1..jobs'[j]) :
                                    j \in {k \in BagToSet(jobs') : k.id = id /\ ~k.failed}}
  BY <1>2 DEF CopySet
<1> QED BY <1>3 DEF Copies, CountIn

LEMMA UntouchedCopies ==
    ASSUME WebhookInv, NEW id \in Id, Untouched(id)
    PROVE  Copies(id) = 0 /\ failures[id] = 0
<1>1. waiting[id] = 0 /\ due[id] = 0 /\ failures[id] = 0
  BY DEF Untouched
<1>2. emitted # id
  BY <1>1, WebhookAssumption DEF WebhookInv
<1>3. Ahead(id) = 0
  <2>1. Ahead(id) = 0 + 0 - 0
    BY <1>1, <1>2 DEF Ahead
  <2> QED BY <2>1
<1>4. Fine(id) \cap DOMAIN jobs = {}
  BY DEF Untouched, Fine
<1>5. CountIn(jobs, Fine(id)) = 0
  BY <1>4, NoCopies DEF WebhookInv
<1> QED BY <1>1, <1>3, <1>5, CopiesAre DEF WebhookInv

\* The property, for one id.
Multiplies(id) ==
    Copies(id)' > Copies(id) =>
       \/ Copies(id) = 0 /\ failures[id] = 0
       \/ crashes' # crashes
       \/ \E j \in BagToSet(jobs) : j.id = id /\ j.at = "schedule" /\ j.failed

\* It holds when the dispatches and the tasks to come are together no more.
LEMMA NoMore ==
    ASSUME WebhookInv, WebhookInv', NEW id \in Id,
           NEW n \in Nat, n = CountIn(jobs, Fine(id)), NEW nn \in Nat, nn = CountIn(jobs', Fine(id)),
           Ahead(id)' + nn <= Ahead(id) + n
    PROVE  Multiplies(id)
<1>1. Copies(id) = Ahead(id) + n /\ Copies(id)' = Ahead(id)' + nn
  BY CopiesAre, CopiesNext DEF WebhookInv
<1>2. Ahead(id) \in Nat /\ Ahead(id)' \in Int
  <2>1. Ahead(id) \in Nat
    BY AheadLemma
  <2>2. Ahead(id)' \in Int
    <3>1. waiting' \in [Id -> Nat] /\ due' \in [Id -> Nat]
      BY DEF WebhookInv, TypeOK, Id
    <3> QED BY <3>1 DEF Ahead
  <2> QED BY <2>1, <2>2
<1>3. ~(Copies(id)' > Copies(id))
  BY <1>1, <1>2
<1> QED BY <1>3 DEF Multiplies

LEMMA DispatchMultiplies ==
    ASSUME WebhookInv, WebhookInv', Future, NEW j \in DOMAIN jobs, Dispatch(j), NEW id \in Id
    PROVE  Multiplies(id)
<1>1. /\ j \in Job /\ j.id \in Id /\ JobFits(j) /\ j.failed \in BOOLEAN
      /\ j.id[1] \in Messages /\ j.id[2] \in Nat /\ j.id = <<j.id[1], j.id[2]>> /\ j.more \in Nat
  BY JobParts DEF WebhookInv, JobFits
<1>2. /\ waiting \in [Id -> Nat] /\ due \in [Id -> Nat] /\ UNCHANGED <<due, emitted>>
  BY DEF WebhookInv, TypeOK, Dispatch, GetChannels, Posted, PostFails, Schedule, ScheduleFails,
         tasks
<1>3. /\ Ahead(id) \in Nat /\ Ahead(id)' \in Int /\ Ahead(id)' <= Ahead(id) + 1
      /\ ~(Schedule(j) /\ j.id = id) => Ahead(id)' = Ahead(id)
  <2>1. Ahead(id) \in Nat
    BY AheadLemma
  <2>2. /\ waiting'[id] = waiting[id] \/ waiting'[id] = waiting[id] + 1
        /\ ~(Schedule(j) /\ j.id = id) => waiting'[id] = waiting[id]
    BY <1>1, <1>2 DEF Dispatch, GetChannels, Posted, PostFails, Schedule, PutTask, ScheduleFails, tasks
  <2> QED BY <1>2, <2>1, <2>2 DEF Ahead
<1>4. CASE PostFails(j)
  <2>1. PICK k : Becomes(j, {k}) /\ JobFits(k) /\ k.id = j.id /\ k.failed = j.failed
    BY <1>4, PostFailsGoes
  <2>2. k \in Fine(id) <=> j \in Fine(id)
    BY <1>1, <2>1 DEF Fine, JobFits
  <2>3. ASSUME NEW S
        PROVE  /\ CountIn(jobs, S) \in Nat /\ CountIn(jobs', S) \in Nat
               /\ j \in S /\ k \in S => CountIn(jobs', S) = CountIn(jobs, S)
               /\ k \notin S /\ j \notin S => CountIn(jobs', S) = CountIn(jobs, S)
    <3>1. /\ CountIn(jobs, S) \in Nat /\ CountIn(jobs', S) \in Nat
          /\ k \in S => CountIn(jobs', S) <= CountIn(jobs, S) + 1
          /\ j \in S /\ k \in S => CountIn(jobs', S) = CountIn(jobs, S)
          /\ k \notin S => CountIn(jobs', S) <= CountIn(jobs, S)
          /\ k \notin S /\ j \notin S => CountIn(jobs', S) = CountIn(jobs, S)
      BY <2>1, ReplacedByOne, Z3
    <3> QED BY <3>1
  <2>4. CountIn(jobs', Fine(id)) = CountIn(jobs, Fine(id)) /\ CountIn(jobs, Fine(id)) \in Nat
    BY <2>2, <2>3
  <2>5. ~Schedule(j)
    BY <1>4 DEF PostFails, Schedule
  <2> QED BY <1>3, <2>4, <2>5, NoMore
<1>5. CASE ~PostFails(j)
  <2>1. PICK hooks, b, K :
           /\ Goes(j, hooks, b, K) /\ Becomes(j, K)
           /\ Schedule(j) => b = TRUE
           /\ ~Schedule(j) => b = j.failed
    <3>1. CASE Schedule(j)
      BY <3>1, ScheduleGoes
    <3>2. CASE ~Schedule(j)
      BY <1>5, <3>2, GetChannelsGoes, PostedGoes, ScheduleFailsGoes DEF Dispatch
    <3> QED BY <3>1, <3>2
  <2>2. K = {} \/ \E k : K = {k}
    BY <2>1 DEF Goes
  <2>3. \A k \in K :
           /\ k \in Job /\ k.at # "schedule"
           /\ \/ /\ k.id = j.id /\ k.more = j.more /\ k.failed = b /\ k.at = "post"
                 /\ HooksOf(k, k.left) = hooks
              \/ /\ j.more > 0 /\ k.id = <<j.id[1], j.id[2] + 1>> /\ k.more = j.more - 1
                 /\ k.at = "load" /\ k.failed = FALSE
    BY <2>1, GoesWhere
  <2> DEFINE n == CountIn(jobs, Fine(id))
             nn == CountIn(jobs', Fine(id))
  <2>4. /\ n \in Nat /\ nn \in Nat
        /\ j \in Fine(id) /\ K \cap Fine(id) # {} => nn = n
        /\ j \in Fine(id) /\ K \cap Fine(id) = {} => nn = n - 1
        /\ j \notin Fine(id) /\ K \cap Fine(id) # {} => nn = n + 1
        /\ j \notin Fine(id) /\ K \cap Fine(id) = {} => nn = n
    BY <2>1, <2>2, Replaced
  <2>5. <<j.id[1], j.id[2] + 1>> # j.id
    BY <1>1
  <2>6. CASE \E k \in K : k.id = id /\ id # j.id
    <3>1. id = <<j.id[1], j.id[2] + 1>> /\ j.more > 0
      BY <2>3, <2>6
    <3>2. j \in Coming(id)
      <4>1. id[1] = j.id[1] /\ id[2] = j.id[2] + 1
        BY <3>1
      <4> QED BY <1>1, <3>1, <4>1 DEF Coming
    <3>3. CountIn(jobs, Coming(id)) # 0
      BY <3>2, NoCopies DEF WebhookInv
    <3>4. Untouched(id)
      BY <3>3 DEF Future
    <3> QED BY <3>4, UntouchedCopies DEF Multiplies
  <2>7. CASE id # j.id /\ \A k \in K : k.id # id
    <3>1. K \cap Fine(id) = {} /\ j \notin Fine(id)
      BY <2>7 DEF Fine
    <3>2. nn = n
      BY <2>4, <3>1
    <3> QED BY <1>3, <2>4, <2>7, <3>2, NoMore
  <2>8. CASE id = j.id /\ j.failed
    <3>1. CASE Schedule(j)
      <4>1. j.at = "schedule" /\ j \in BagToSet(jobs)
        BY <3>1 DEF Schedule, BagToSet
      <4> QED BY <2>8, <4>1 DEF Multiplies
    <3>2. CASE ~Schedule(j)
      <4>1. \A k \in K : k \notin Fine(id)
        BY <2>1, <2>3, <2>8, <2>5, <3>2 DEF Fine
      <4>2. j \notin Fine(id) /\ K \cap Fine(id) = {}
        BY <2>8, <4>1 DEF Fine
      <4>3. nn = n
        BY <2>4, <4>2
      <4> QED BY <1>3, <2>4, <3>2, <4>3, NoMore
    <3> QED BY <3>1, <3>2
  <2>9. CASE id = j.id /\ ~j.failed
    <3>1. j \in Fine(id)
      BY <1>1, <2>9 DEF Fine
    <3>2. CASE Schedule(j)
      <4>1. K \cap Fine(id) = {}
        BY <2>1, <2>3, <2>9, <2>5, <3>2 DEF Fine
      <4>2. nn = n - 1
        BY <2>4, <3>1, <4>1
      <4> HIDE DEF n, nn
      <4>3. Ahead(id)' + nn <= Ahead(id) + n
        BY <1>3, <2>4, <4>2
      <4> QED BY <2>4, <4>3, NoMore DEF n, nn
    <3>3. CASE ~Schedule(j)
      <4>1. nn <= n
        BY <2>4, <3>1
      <4> HIDE DEF n, nn
      <4>2. Ahead(id)' + nn <= Ahead(id) + n
        BY <1>3, <2>4, <3>3, <4>1
      <4> QED BY <2>4, <4>2, NoMore DEF n, nn
    <3> QED BY <3>2, <3>3
  <2> QED BY <1>1, <2>6, <2>7, <2>8, <2>9
<1> QED BY <1>4, <1>5

LEMMA AddedMultiplies ==
    ASSUME WebhookInv, WebhookInv', Known, NEW id \in Id,
           (\E m \in Messages : Notify(m)) \/ \E i \in Id : Emit(i)
    PROVE  Multiplies(id)
<1>1. /\ waiting \in [Id -> Nat] /\ due \in [Id -> Nat] /\ None \notin Id
      /\ Ahead(id) \in Nat /\ CountIn(jobs, Fine(id)) \in Nat
  BY AheadLemma, CountsAreFinite, WebhookAssumption DEF WebhookInv, TypeOK
<1>2. CASE \E i \in Id : Emit(i)
  <2>1. PICK i \in Id : Emit(i)
    BY <1>2
  <2> DEFINE k == Load(i, 0)
             n == CountIn(jobs, Fine(id))
             nn == CountIn(jobs', Fine(id))
  <2>2. /\ UNCHANGED <<waiting, due>> /\ emitted = None /\ emitted' = i
        /\ jobs' = jobs (+) SetToBag({k}) /\ k.id = i
    BY <2>1 DEF Emit, tasks, Load
  <2> HIDE DEF k
  <2>3. k \in Fine(id) => id = i
    BY <2>2 DEF Fine
  <2>4. /\ n \in Nat /\ nn \in Nat
        /\ k \in Fine(id) => nn = n + 1
        /\ k \notin Fine(id) => nn = n
    BY <2>2, AddedCounts
  <2>5. /\ id = i => Ahead(id)' = Ahead(id) - 1
        /\ id # i => Ahead(id)' = Ahead(id)
    BY <1>1, <2>2 DEF Ahead
  <2> HIDE DEF n, nn
  <2>6. Ahead(id)' + nn <= Ahead(id) + n
    BY <1>1, <2>3, <2>4, <2>5
  <2> QED BY <2>4, <2>6, NoMore DEF n, nn
<1>3. CASE \E m \in Messages : Notify(m)
  <2>1. PICK m \in Messages : Notify(m)
    BY <1>3
  <2>2. /\ sub \in Channels /\ jobs' = jobs (+) Starts(m, sub) /\ m \notin notified
        /\ Ahead(id)' = Ahead(id)
    BY <2>1 DEF Notify, WebhookInv, TypeOK, tasks, Ahead
  <2>3. CASE id[1] = m
    <3>1. Untouched(id)
      BY <2>2, <2>3 DEF Known, Untouched
    <3> QED BY <3>1, UntouchedCopies DEF Multiplies
  <2>4. CASE id[1] # m
    <3>1. CountIn(jobs', Fine(id)) = CountIn(jobs, Fine(id))
      <4>1. CASE Starts(m, sub) = SetToBag({})
        <5>1. jobs' = jobs
          BY <2>2, <4>1, BagPlusNone DEF WebhookInv
        <5> QED BY <5>1
      <4>2. CASE \E n \in 1..MaxHooks : Starts(m, sub) = SetToBag({Load(<<m, 1>>, n - 1)})
        <5>1. PICK n \in 1..MaxHooks : Starts(m, sub) = SetToBag({Load(<<m, 1>>, n - 1)})
          BY <4>2
        <5> DEFINE k == Load(<<m, 1>>, n - 1)
        <5>2. jobs' = jobs (+) SetToBag({k}) /\ k.id[1] = m
          BY <2>2, <5>1 DEF Load
        <5> HIDE DEF k
        <5>3. k \notin Fine(id)
          BY <2>4, <5>2 DEF Fine
        <5> QED BY <5>2, <5>3, AddedCounts
      <4> QED BY <2>2, <4>1, <4>2, StartsLemma
    <3> QED BY <1>1, <2>2, <3>1, NoMore
  <2> QED BY <2>3, <2>4
<1> QED BY <1>2, <1>3

LEMMA OthersMultiply ==
    ASSUME WebhookInv, WebhookInv', NEW id \in Id,
           \/ \E i \in Id : Tick(i)
           \/ DeleteTask \/ Refresh \/ (\E cs \in Channels \cup {None} : Change(cs))
    PROVE  Multiplies(id)
<1>1. /\ waiting \in [Id -> Nat] /\ due \in [Id -> Nat] /\ emitted \in Id \cup {None}
      /\ None \notin Id /\ Ahead(id) \in Nat /\ CountIn(jobs, Fine(id)) \in Nat
  BY AheadLemma, CountsAreFinite, WebhookAssumption DEF WebhookInv, TypeOK
<1>2. jobs' = jobs
  BY DEF Tick, DeleteTask, Refresh, Change
<1>3. Ahead(id)' = Ahead(id)
  <2>1. CASE \E i \in Id : Tick(i)
    BY <1>1, <2>1 DEF Tick, Ahead
  <2>2. CASE DeleteTask
    BY <1>1, <2>2 DEF DeleteTask, Ahead
  <2>3. CASE Refresh \/ \E cs \in Channels \cup {None} : Change(cs)
    BY <2>3 DEF Refresh, Change, tasks, Ahead
  <2> QED BY <2>1, <2>2, <2>3
<1>4. CountIn(jobs', Fine(id)) = CountIn(jobs, Fine(id))
  BY <1>2
<1> QED BY <1>1, <1>3, <1>4, NoMore

\* The lines of dispatches of an id multiply only where a second post of one
\* dispatch fails, or where a crash brings an emitted task back
\* (webhook.ts:141-153, scheduler.ts:104-119).
THEOREM Lines == Spec => OnlySecondFailuresMultiply
<1> DEFINE Multiply == \A id \in Id : Multiplies(id)
<1>1. ASSUME WebhookInv, WebhookInv', Known, Future, Next PROVE Multiply
  <2>1. CASE \E j \in DOMAIN jobs : Dispatch(j)
    BY <1>1, <2>1, DispatchMultiplies
  <2>2. CASE (\E m \in Messages : Notify(m)) \/ \E i \in Id : Emit(i)
    BY <1>1, <2>2, AddedMultiplies
  <2>3. CASE \/ \E i \in Id : Tick(i)
             \/ DeleteTask \/ Refresh \/ \E cs \in Channels \cup {None} : Change(cs)
    BY <1>1, <2>3, OthersMultiply
  <2>4. CASE Crash
    <3>1. crashes' # crashes
      BY <1>1, <2>4, WebhookAssumption DEF Crash, WebhookInv, TypeOK
    <3> QED BY <3>1 DEF Multiplies
  <2> QED BY <1>1, <2>1, <2>2, <2>3, <2>4 DEF Next, BagToSet
<1>2. WebhookInv /\ WebhookInv' /\ Known /\ Future /\ [Next]_vars => [Multiply]_vars
  BY <1>1
<1>3. Spec => [][Multiply]_vars
  <2> HIDE DEF Multiply
  <2> QED BY <1>2, WebhookInit, WebhookStep, KnownInit, KnownStep, FutureInit, FutureStep, PTL
          DEF Spec
<1>4. Multiply =>
        \A id \in Id :
          Copies(id)' > Copies(id) =>
              \/ Copies(id) = 0 /\ failures[id] = 0
              \/ crashes' # crashes
              \/ \E j \in BagToSet(jobs) : j.id = id /\ j.at = "schedule" /\ j.failed
  BY DEF Multiplies
<1> QED BY <1>3, <1>4, PTL DEF OnlySecondFailuresMultiply, Multiply
=============================================================================
