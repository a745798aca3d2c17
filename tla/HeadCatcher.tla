---------------------------- MODULE HeadCatcher ----------------------------
(***************************************************************************)
(* The head catcher of one chain (services/ingress/watcher/head-catcher.ts) *)
(* and the pipe of observables it builds.                                  *)
(*                                                                         *)
(* Finalized heads come from the chain with gaps.  For each of them         *)
(* #targetHeights reads the stored tip, under a mutex, and when heights are *)
(* missing in between records their range as pending and moves the tip.     *)
(* #catchUpToHeight then walks the parent headers of the range, batch after *)
(* batch, hands them over for the download of their blocks, and clears the  *)
(* pending range when it completes.  The tip and the pending ranges persist *)
(* and, when recovery is enabled, the pending ranges are caught up again    *)
(* when the pipe is built.                                                 *)
(***************************************************************************)
EXTENDS Integers, Sequences

CONSTANTS
    MaxHeight,      \* bound: the last finalized height
    MaxBlockDist,   \* MAX_BLOCK_DIST: how far a catch-up goes back
    BatchSize,      \* headers per batch
    Recovery,       \* the recovery of interrupted catch-ups is enabled
    Light,          \* a light client with a local block cache: no recovery
    None,           \* no tip stored
    Failing,        \* the requests that may fail: of a header, a range, a block
    MaxErrors,      \* bound: failed requests
    MaxInterrupts,  \* bound: subscriptions to the pipe, or to its source, lost
    MaxCrash        \* bound: crashes of the process

ASSUME HeadCatcherAssumption ==
    /\ MaxHeight \in Nat /\ MaxBlockDist \in Nat \ {0} /\ BatchSize \in Nat \ {0}
    /\ Recovery \in BOOLEAN /\ Light \in BOOLEAN
    /\ None \notin Int
    /\ Failing \subseteq {"header", "range", "block"}
    /\ MaxErrors \in Nat /\ MaxInterrupts \in Nat /\ MaxCrash \in Nat

VARIABLES
    tip,         \* stored: the chain tip
    pending,     \* stored: the pending ranges
    calls,       \* the calls of #targetHeights, in the order they ask for the mutex
    catchups,    \* the catch-ups of the subscribed pipe
    resolved,    \* the ranges #recoverRanges found when the pipe was subscribed
    recovering,  \* those of them whose head is still to be requested
    fetching,    \* headers handed over for download, by height
    blocks,      \* blocks delivered, by height
    fresh,       \* the source was just subscribed: it repeats its latest head
    arrived,     \* history: the heads the source delivered
    handed,      \* history: the heights handed over so far
    skipped,     \* history: the heights left out by MaxBlockDist
    since,       \* history: the first tip that was stored
    errors, interrupts, crashes

stored == <<tip, pending>>
history == <<arrived, handed, skipped, since>>
bounds == <<errors, interrupts, crashes>>
vars == <<stored, calls, catchups, resolved, recovering, fetching, blocks, fresh,
          history, bounds>>

Heights == 0..MaxHeight
BlockNumberRange == [from : Heights, to : Heights]
----------------------------------------------------------------------------
(* Target heights *)

Higher(a, b) == IF a > b THEN a ELSE b

\* The heights the batches of a catch-up go down to, one after the other: BatchSize
\* below the one before, the last one the target itself.
arrayOfTargetHeights(newHeight, targetHeight) ==
    LET batches == (newHeight - targetHeight + BatchSize - 1) \div BatchSize
    IN  [i \in 1..batches |-> Higher(newHeight - i * BatchSize, targetHeight)]
----------------------------------------------------------------------------
(* Calls of #targetHeights *)

Call == [head : Heights, up : BOOLEAN, at : {"get", "tip", "range", "rangeTip"},
         to : Heights]

\* A call whose result the pipe waits for (up) and that waits for the mutex.
NewCall(h) == [head |-> h, up |-> TRUE, at |-> "get", to |-> h]

Without(i) == SubSeq(calls, 1, i - 1) \o SubSeq(calls, i + 1, Len(calls))

Step(i, at, to) == calls' = [calls EXCEPT ![i].at = at, ![i].to = to]

Count(f, hs) == [h \in Heights |-> IF h \in hs THEN f[h] + 1 ELSE f[h]]

\* Variant: calls do not exclude one another.
AnyCall(i) == TRUE

HasMutex(i) == i = 1

GetTip(i) ==
    /\ HasMutex(i)
    /\ calls[i].at = "get"
    /\ LET head == calls[i].head
           currentHeight == IF tip = None THEN head ELSE tip
       IN  IF head - currentHeight < 2
           THEN Step(i, "tip", head)
           ELSE Step(i, "range", Higher(head - MaxBlockDist, currentHeight))
    /\ UNCHANGED <<stored, catchups, resolved, recovering, fetching, blocks, fresh,
                   history, bounds>>

FirstTip == since' = IF since = None THEN tip' ELSE since

\* Nothing to catch: the head becomes the tip, whether it is above it or not.
PutTip(i) ==
    /\ HasMutex(i)
    /\ calls[i].at = "tip"
    /\ tip' = calls[i].head
    /\ calls' = Without(i)
    /\ LET hs == IF calls[i].up THEN {calls[i].head} ELSE {}
       IN  fetching' = Count(fetching, hs) /\ handed' = handed \cup hs
    /\ FirstTip
    /\ UNCHANGED <<pending, catchups, resolved, recovering, blocks, fresh, arrived,
                   skipped, bounds>>

\* The range is signalled as pending before the tip moves.
PutRange(i) ==
    /\ HasMutex(i)
    /\ calls[i].at = "range"
    /\ pending' = pending \cup {[from |-> calls[i].head, to |-> calls[i].to]}
    /\ Step(i, "rangeTip", calls[i].to)
    /\ skipped' = skipped \cup (tip + 1)..calls[i].to
    /\ UNCHANGED <<tip, catchups, resolved, recovering, fetching, blocks, fresh,
                   arrived, handed, since, bounds>>

CatchUp == [src : {"live", "recover"}, head : Heights, targets : Seq(Heights),
            index : Nat \ {0}, base : Heights, at : Heights]

NewCatchUp(src, head, to) ==
    [src |-> src, head |-> head, targets |-> arrayOfTargetHeights(head, to),
     index |-> 1, base |-> head, at |-> head]

Target(c) == c.targets[c.index]
LastTarget(c) == c.targets[Len(c.targets)]
InLastBatch(c) == c.index = Len(c.targets)

FullRange(c) == [from |-> c.head, to |-> LastTarget(c)]
CurrentRange(c) == [from |-> c.base, to |-> Target(c)]

\* A first batch of one header is the new head alone, which is there: it is handed over
\* without a request, and the catch-up is in its second batch, or complete.
IsOneHeader(c) == c.base - 1 = Target(c)

HandedAtOnce(c) == IF IsOneHeader(c) THEN {c.head} ELSE {}

Begun(c) ==
    IF ~IsOneHeader(c) THEN {c}
    ELSE IF InLastBatch(c) THEN {} ELSE {[c EXCEPT !.index = 2]}

CompleteAtOnce(c) == IF Begun(c) = {} THEN {FullRange(c)} ELSE {}

PutRangeTip(i) ==
    /\ HasMutex(i)
    /\ calls[i].at = "rangeTip"
    /\ tip' = calls[i].head
    /\ calls' = Without(i)
    /\ LET c == NewCatchUp("live", calls[i].head, calls[i].to)
       IN  IF calls[i].up
           THEN /\ catchups' = catchups \cup Begun(c)
                /\ pending' = pending \ CompleteAtOnce(c)
                /\ fetching' = Count(fetching, HandedAtOnce(c))
                /\ handed' = handed \cup HandedAtOnce(c)
           ELSE UNCHANGED <<catchups, pending, fetching, handed>>
    /\ UNCHANGED <<resolved, recovering, blocks, fresh, arrived, skipped, since, bounds>>
----------------------------------------------------------------------------
(* Catch-ups *)

\* Variant: every batch collects the head it starts from again.
BaseCollected(c) == c.base

\* The first batch collects the new head too.
HighestCollected(c) == IF c.index = 1 THEN c.base ELSE c.base - 1

\* Headers handed over by a live catch-up are downloaded; those of a recovered
\* range come in as heads of their own.
HandOver(c, low) ==
    LET high == HighestCollected(c)
    IN  /\ handed' = handed \cup low..high
        /\ IF c.src = "live"
           THEN fetching' = Count(fetching, low..high) /\ UNCHANGED calls
           ELSE /\ calls' = calls \o [i \in 1..(high - low + 1) |-> NewCall(low + i - 1)]
                /\ UNCHANGED fetching

EndBatch(c, low) ==
    /\ HandOver(c, low)
    /\ IF InLastBatch(c)
       THEN /\ catchups' = catchups \ {c}
            /\ pending' = pending \ {FullRange(c)}
       ELSE /\ catchups' = (catchups \ {c}) \cup
                   {[c EXCEPT !.index = @ + 1, !.base = low, !.at = low]}
            /\ UNCHANGED pending

\* Variant: the walk stops one header above the target.
StopEarly(c) == c.at - 3 <= Target(c)

ReachesTarget(c) == c.at - 2 <= Target(c)

\* The parent of the last header of the batch is answered.
FetchParent(c) ==
    /\ IF ReachesTarget(c) THEN EndBatch(c, c.at - 1)
       ELSE /\ catchups' = (catchups \ {c}) \cup {[c EXCEPT !.at = @ - 1]}
            /\ UNCHANGED <<pending, calls, fetching, handed>>
    /\ UNCHANGED <<tip, resolved, recovering, blocks, fresh, arrived, skipped,
                   since, bounds>>

\* Variant: the range of an interrupted catch-up is dropped.
DropRanges(cs, ranges) == ranges \ {FullRange(c) : c \in cs}

\* What finalize leaves of the pending ranges of the catch-ups cs.
Finalized(cs, ranges) ==
    LET stale == {c \in cs : ~InLastBatch(c)}
    IN  (ranges \ {FullRange(c) : c \in stale}) \cup {CurrentRange(c) : c \in stale}

\* A header request fails: the catch-up ends as if it were complete.
HeaderError(c) ==
    /\ "header" \in Failing
    /\ errors < MaxErrors
    /\ errors' = errors + 1
    /\ catchups' = catchups \ {c}
    /\ pending' = Finalized({c}, pending \ {[from |-> c.head, to |-> Target(c)]})
    /\ UNCHANGED <<tip, calls, resolved, recovering, fetching, blocks, fresh, history,
                   interrupts, crashes>>

\* The head of a range to recover is answered, or its request fails.
RecoverRange(r) ==
    /\ recovering' = recovering \ {r}
    /\ LET c == NewCatchUp("recover", r.from, r.to)
       IN  /\ catchups' = catchups \cup Begun(c)
           /\ pending' = pending \ CompleteAtOnce(c)
           /\ handed' = handed \cup HandedAtOnce(c)
           /\ calls' = IF IsOneHeader(c) THEN Append(calls, NewCall(r.from)) ELSE calls
    /\ UNCHANGED <<tip, resolved, fetching, blocks, fresh, arrived, skipped, since, bounds>>

RecoverError(r) ==
    /\ "range" \in Failing
    /\ errors < MaxErrors
    /\ errors' = errors + 1
    /\ recovering' = recovering \ {r}
    /\ UNCHANGED <<stored, calls, catchups, resolved, fetching, blocks, fresh, history,
                   interrupts, crashes>>
----------------------------------------------------------------------------
(* The source of heads and the download of blocks *)

Arrive(h) ==
    /\ \A a \in arrived : h > a \/ (fresh /\ h = a)
    /\ arrived' = arrived \cup {h}
    /\ fresh' = FALSE
    /\ calls' = Append(calls, NewCall(h))
    /\ UNCHANGED <<stored, catchups, resolved, recovering, fetching, blocks, handed,
                   skipped, since, bounds>>

FetchBlock(h) ==
    /\ fetching[h] > 0
    /\ fetching' = [fetching EXCEPT ![h] = @ - 1]
    /\ blocks' = [blocks EXCEPT ![h] = @ + 1]
    /\ UNCHANGED <<stored, calls, catchups, resolved, recovering, fresh, history, bounds>>

\* A light client gives up on a block after some attempts.
GiveUpBlock(h) ==
    /\ Light /\ "block" \in Failing
    /\ errors < MaxErrors
    /\ errors' = errors + 1
    /\ fetching[h] > 0
    /\ fetching' = [fetching EXCEPT ![h] = @ - 1]
    /\ UNCHANGED <<stored, calls, catchups, resolved, recovering, blocks, fresh, history,
                   interrupts, crashes>>

\* The pipe is subscribed again.  What it had under way is gone, but the calls of
\* #targetHeights go on, and nobody waits for them.
Resubscribe(found) ==
    /\ interrupts < MaxInterrupts
    /\ interrupts' = interrupts + 1
    /\ pending' = Finalized(catchups, pending)
    /\ catchups' = {}
    /\ calls' = [i \in DOMAIN calls |-> [calls[i] EXCEPT !.up = FALSE]]
    /\ fetching' = [h \in Heights |-> 0]
    /\ fresh' = TRUE
    /\ resolved' = found
    /\ recovering' = found
    /\ UNCHANGED <<tip, blocks, history, errors, crashes>>

\* Variant: the ranges a process left pending are not looked for.
NotRecoverable(ranges) == {}

Recoverable(ranges) == IF Recovery /\ ~Light THEN ranges ELSE {}

\* The retry of a failed download replays the ranges found the first time.
BlockError(h) ==
    /\ ~Light /\ "block" \in Failing
    /\ fetching[h] > 0
    /\ Resubscribe(resolved)

\* The last subscriber leaves, and another one comes.
Interrupt == Resubscribe(Recoverable(Finalized(catchups, pending)))

\* The retry of the source of heads replays them too, and lets go of the
\* catch-ups of recovered ranges.
SourceError ==
    /\ interrupts < MaxInterrupts
    /\ interrupts' = interrupts + 1
    /\ LET dropped == {c \in catchups : c.src = "recover"}
       IN  /\ pending' = Finalized(dropped, pending)
           /\ catchups' = catchups \ dropped
    /\ fresh' = TRUE
    /\ recovering' = resolved
    /\ UNCHANGED <<tip, calls, resolved, fetching, blocks, history, errors, crashes>>

\* The process dies and starts again, with the tip and the ranges it had stored
\* (the tip that is being put may be among them, with nothing done about it).
Crash ==
    /\ crashes < MaxCrash
    /\ crashes' = crashes + 1
    /\ tip' \in {tip} \cup {calls[i].head : i \in {j \in DOMAIN calls :
                                HasMutex(j) /\ calls[j].at = "tip"}}
    /\ FirstTip
    /\ calls' = <<>>
    /\ catchups' = {}
    /\ fetching' = [h \in Heights |-> 0]
    /\ fresh' = TRUE
    /\ resolved' = Recoverable(pending)
    /\ recovering' = Recoverable(pending)
    /\ UNCHANGED <<pending, blocks, arrived, handed, skipped, errors, interrupts>>
----------------------------------------------------------------------------
\* The first start, or a start with the tip of an earlier one.
Init ==
    /\ tip \in {None, 0}
    /\ since = tip
    /\ arrived = {tip} \ {None}
    /\ pending = {}
    /\ calls = <<>>
    /\ catchups = {}
    /\ resolved = {}
    /\ recovering = {}
    /\ fetching = [h \in Heights |-> 0]
    /\ blocks = [h \in Heights |-> 0]
    /\ fresh = TRUE
    /\ handed = {}
    /\ skipped = {}
    /\ errors = 0 /\ interrupts = 0 /\ crashes = 0

RunCalls == \E i \in DOMAIN calls : GetTip(i) \/ PutTip(i) \/ PutRange(i) \/ PutRangeTip(i)
RunCatchUps == \E c \in catchups : FetchParent(c)
RunRecovery == \E r \in recovering : RecoverRange(r)
RunFetch == \E h \in Heights : FetchBlock(h)

Fail ==
    \/ \E c \in catchups : HeaderError(c)
    \/ \E r \in recovering : RecoverError(r)
    \/ \E h \in Heights : GiveUpBlock(h) \/ BlockError(h)
    \/ Interrupt \/ SourceError \/ Crash

Next ==
    \/ \E h \in Heights : Arrive(h)
    \/ RunCalls \/ RunCatchUps \/ RunRecovery \/ RunFetch
    \/ Fail

Spec == Init /\ [][Next]_vars

\* Database operations and requests to the node are answered in the end; heads
\* and failures come as they like.
FairSpec ==
    /\ Spec
    /\ WF_vars(RunCalls) /\ WF_vars(RunCatchUps) /\ WF_vars(RunRecovery) /\ WF_vars(RunFetch)
----------------------------------------------------------------------------
(* Properties *)

TypeOK ==
    /\ tip \in Heights \cup {None}
    /\ pending \subseteq BlockNumberRange
    /\ calls \in Seq(Call)
    /\ catchups \subseteq CatchUp
    /\ resolved \subseteq BlockNumberRange
    /\ recovering \subseteq resolved
    /\ fetching \in [Heights -> Nat]
    /\ blocks \in [Heights -> Nat]
    /\ fresh \in BOOLEAN
    /\ arrived \subseteq Heights /\ handed \subseteq Heights /\ skipped \subseteq Heights
    /\ since \in Heights \cup {None}
    /\ errors \in 0..MaxErrors /\ interrupts \in 0..MaxInterrupts /\ crashes \in 0..MaxCrash

\* The tip, or the one that will be put for a range already recorded.
NextTip ==
    IF calls # <<>> /\ calls[1].at = "rangeTip" THEN calls[1].head ELSE tip

\* The heights below it that no head was delivered for.
Gaps == IF tip = None THEN {} ELSE (since..NextTip) \ (arrived \cup skipped)

\* The gaps that neither were handed over nor are covered by a stored range.
Forgotten ==
    {h \in Gaps \ handed : \A r \in pending : h <= r.to \/ h > r.from}

\* No gap is forgotten: a height below the tip that was not delivered as a
\* head was handed over, or a stored range covers it, so that a restart recovers
\* it ("the recovery of interrupted catch-ups").
GapsAreKept == Forgotten = {}

\* Under every failure at once, gaps are forgotten by two kinds of steps only: a
\* failing header request, and an interruption of the pipe before the last batch
\* of a catch-up.  No crash, recovery, replay or further head adds to them.
OnlyInterruptionsForget ==
    [][\/ Forgotten' \subseteq Forgotten
       \/ \E c \in catchups : HeaderError(c)
       \/ interrupts' > interrupts /\ ~\A c \in catchups : InLastBatch(c)]_vars

\* As long as the process does not crash no block is delivered twice, although
\* heads arrive while earlier gaps are still being caught up.
BlocksOnce == crashes = 0 => \A h \in Heights : blocks[h] <= 1

\* The stored tip is "the highest head information".
TipIsHighest == [][tip # None => tip' >= tip]_vars

\* Every gap is filled, whatever heads arrive meanwhile, unless the process dies;
\* and a range signalled as pending, that "should be removed on complete",
\* completes, after a restart too.
GapsAreFilled ==
    /\ \A h \in Heights : h \in Gaps /\ crashes = 0 ~> blocks[h] > 0 \/ crashes > 0
    /\ \A r \in BlockNumberRange : r \in pending ~> r \notin pending
=============================================================================
