------------------------- MODULE HeadCatcherProofs -------------------------
(***************************************************************************)
(* Proofs about HeadCatcher, for every height, distance and size of batches *)
(* and, unless a theorem says otherwise, under every failure it models.     *)
(***************************************************************************)
EXTENDS HeadCatcher, SequenceTheorems, TLAPS

(* Operators *)

LEMMA HigherLemma ==
    ASSUME NEW a \in Int, NEW b \in Int
    PROVE  /\ Higher(a, b) \in Int /\ Higher(a, b) >= a /\ Higher(a, b) >= b
           /\ Higher(a, b) = a \/ Higher(a, b) = b
BY DEF Higher

\* The heights a catch-up goes down to: from below the head to the target.
LEMMA TargetsLemma ==
    ASSUME NEW n \in Heights, NEW t \in Heights, t < n
    PROVE  /\ arrayOfTargetHeights(n, t) \in Seq(Heights)
           /\ Len(arrayOfTargetHeights(n, t)) >= 1
           /\ \A i \in 1..Len(arrayOfTargetHeights(n, t)) :
                 arrayOfTargetHeights(n, t)[i] \in t..(n - 1)
           /\ \A i, j \in 1..Len(arrayOfTargetHeights(n, t)) :
                 i < j => arrayOfTargetHeights(n, t)[i] > arrayOfTargetHeights(n, t)[j]
<1> DEFINE a == n - t + BatchSize - 1
           k == a \div BatchSize
           at(i) == Higher(n - i * BatchSize, t)
           s == [i \in 1..k |-> at(i)]
<1>1. /\ n \in Int /\ t \in Int /\ BatchSize \in Int /\ BatchSize >= 1
      /\ n >= 0 /\ n <= MaxHeight /\ t >= 0 /\ MaxHeight \in Nat
  BY HeadCatcherAssumption DEF Heights
<1>2. a \in Int /\ a >= BatchSize
  BY <1>1
<1> HIDE DEF a
<1>3. k \in Int /\ k >= 1 /\ k * BatchSize <= a
  BY <1>1, <1>2
<1> HIDE DEF k
<1>4. ASSUME NEW i \in 1..k
      PROVE  /\ i * BatchSize \in Int /\ i * BatchSize >= 1
             /\ i < k => i * BatchSize <= a - BatchSize
             /\ \A j \in 1..k : i < j => i * BatchSize < j * BatchSize
  <2>1. i * BatchSize \in Int /\ i * BatchSize >= 1
    BY <1>1, <1>3
  <2>2. ASSUME i < k PROVE i * BatchSize <= a - BatchSize
    <3>1. (i + 1) * BatchSize <= k * BatchSize
      BY <1>1, <1>3, <2>2
    <3>2. (i + 1) * BatchSize = i * BatchSize + BatchSize
      BY <1>1
    <3> QED BY <1>1, <1>2, <1>3, <2>1, <3>1, <3>2
  <2>3. ASSUME NEW j \in 1..k, i < j PROVE i * BatchSize < j * BatchSize
    BY <1>1, <1>3, <2>3
  <2> QED BY <2>1, <2>2, <2>3
<1>5. ASSUME NEW i \in 1..k
      PROVE  at(i) \in t..(n - 1) /\ at(i) \in Heights
  <2> DEFINE x == n - i * BatchSize
  <2>1. x \in Int /\ x <= n - 1
    BY <1>1, <1>4
  <2> HIDE DEF x
  <2>2. Higher(x, t) \in t..(n - 1) /\ Higher(x, t) \in Heights
    BY <1>1, <2>1 DEF Higher, Heights
  <2> QED BY <2>2 DEF x
<1>6. ASSUME NEW i \in 1..k, NEW j \in 1..k, i < j PROVE at(i) > at(j)
  <2>1. i * BatchSize <= n - t - 1 /\ i * BatchSize < j * BatchSize
    BY <1>1, <1>3, <1>4, <1>6 DEF a
  <2>2. i * BatchSize \in Int /\ j * BatchSize \in Int
    BY <1>4
  <2> QED BY <1>1, <2>1, <2>2 DEF Higher
<1> HIDE DEF at
<1>7. s \in Seq(Heights) /\ Len(s) = k /\ \A i \in 1..k : s[i] = at(i)
  BY <1>3, <1>5
<1>8. arrayOfTargetHeights(n, t) = s
  BY DEF arrayOfTargetHeights, s, at, k, a
<1> HIDE DEF s
<1> QED BY <1>3, <1>5, <1>6, <1>7, <1>8
----------------------------------------------------------------------------
(* The inductive invariant *)

\* What the call with the mutex knows: that its head is not more than one above the
\* tip, or that it is, and a target between.
CallFits(k) ==
    /\ k.at = "tip" => tip = None \/ k.head - tip < 2
    /\ k.at \in {"range", "rangeTip"} =>
          tip # None /\ k.head - tip >= 2 /\ tip <= k.to /\ k.to < k.head

\* Calls other than the first one have not begun; heads come from the source or
\* from a catch-up.
CallsFit ==
    /\ \A i \in 2..Len(calls) : calls[i].at = "get"
    /\ calls # <<>> => CallFits(calls[1])
    /\ \A i \in 1..Len(calls) : calls[i].head \in arrived \cup handed

\* A catch-up is above the target of its batch, and has handed over what is above
\* the batch.
CatchUpFits(c) ==
    /\ c.index <= Len(c.targets)
    /\ \A i, j \in 1..Len(c.targets) : i < j => c.targets[i] > c.targets[j]
    /\ Target(c) < c.at /\ c.at <= c.base /\ c.base <= c.head
    /\ IF c.index = 1 THEN c.base = c.head ELSE c.base..c.head \subseteq handed

RangesFit == \A r \in pending \cup resolved : r.from > r.to

SinceFits == (since = None) <=> (tip = None)

HeadInv ==
    /\ TypeOK
    /\ CallsFit
    /\ \A c \in catchups : CatchUpFits(c)
    /\ RangesFit
    /\ SinceFits

LEMMA HeadInit == Init => HeadInv
<1> SUFFICES ASSUME Init PROVE HeadInv
  OBVIOUS
<1>1. 0 \in Heights /\ None \notin Heights
  BY HeadCatcherAssumption DEF Heights
<1>2. calls \in Seq(Call) /\ Len(calls) = 0
  BY DEF Init
<1>3. TypeOK
  BY <1>1, <1>2, HeadCatcherAssumption DEF Init, TypeOK, Heights
<1> QED BY <1>2, <1>3 DEF Init, HeadInv, CallsFit, RangesFit, SinceFits

\* A new catch-up of a range.
LEMMA NewCatchUpLemma ==
    ASSUME NEW src \in {"live", "recover"}, NEW h \in Heights, NEW t \in Heights, t < h
    PROVE  /\ NewCatchUp(src, h, t) \in CatchUp /\ CatchUpFits(NewCatchUp(src, h, t))
           /\ CatchUpFits(NewCatchUp(src, h, t))'
<1> DEFINE s == arrayOfTargetHeights(h, t)
           c == NewCatchUp(src, h, t)
<1>1. /\ s \in Seq(Heights) /\ Len(s) >= 1 /\ s[1] \in t..(h - 1)
      /\ \A i, j \in 1..Len(s) : i < j => s[i] > s[j]
  <2>1. Len(s) \in Nat
    BY TargetsLemma
  <2> QED BY <2>1, TargetsLemma
<1>2. c = [src |-> src, head |-> h, targets |-> s, index |-> 1, base |-> h, at |-> h]
  BY DEF NewCatchUp
<1>3. h \in Int /\ t \in Int
  BY DEF Heights
<1> HIDE DEF s, c
<1>4. c \in CatchUp
  BY <1>1, <1>2 DEF CatchUp
<1>5. Target(c) = s[1] /\ s[1] < h
  BY <1>1, <1>2, <1>3 DEF Target
<1>6. CatchUpFits(c) /\ CatchUpFits(c)'
  BY <1>1, <1>2, <1>3, <1>5 DEF CatchUpFits, Target
<1> QED BY <1>4, <1>6 DEF c

\* What a new catch-up does at once: it hands over its head or nothing, and clears its
\* range if that is all there is to it.
LEMMA BegunLemma ==
    ASSUME NEW src \in {"live", "recover"}, NEW h \in Heights, NEW t \in Heights, t < h,
           NEW c, c = NewCatchUp(src, h, t), HandedAtOnce(c) \subseteq handed'
    PROVE  /\ Begun(c) \subseteq CatchUp
           /\ \A d \in Begun(c) : CatchUpFits(d)' /\ d.src = src
           /\ HandedAtOnce(c) = IF IsOneHeader(c) THEN {h} ELSE {}
           /\ \A r \in CompleteAtOnce(c) : (r.to + 1)..r.from \subseteq HandedAtOnce(c)
<1>1. c \in CatchUp /\ CatchUpFits(c) /\ CatchUpFits(c)'
  BY NewCatchUpLemma
<1>2. c.src = src /\ c.head = h /\ c.base = h /\ c.at = h /\ c.index = 1
  BY DEF NewCatchUp
<1>3. h \in Int /\ c.targets \in Seq(Heights) /\ Len(c.targets) \in Nat /\ 1 <= Len(c.targets)
  BY <1>1, <1>2 DEF CatchUp, CatchUpFits, Heights
<1>4. Target(c) = c.targets[1] /\ Target(c) \in Int
  <2>1. 1 \in 1..Len(c.targets)
    BY <1>3
  <2>2. c.targets[1] \in Heights
    BY <1>3, <2>1
  <2> QED BY <1>2, <2>2 DEF Target, Heights
<1>5. HandedAtOnce(c) = IF IsOneHeader(c) THEN {h} ELSE {}
  BY <1>2 DEF HandedAtOnce
<1>6. ASSUME IsOneHeader(c), ~InLastBatch(c)
      PROVE  /\ Begun(c) \subseteq CatchUp
             /\ \A d \in Begun(c) : CatchUpFits(d)' /\ d.src = src
  <2> DEFINE d == [c EXCEPT !.index = 2]
  <2>1. /\ d \in CatchUp /\ d.src = src /\ d.head = h /\ d.base = h /\ d.at = h
        /\ d.index = 2 /\ d.targets = c.targets
    BY <1>1, <1>2 DEF CatchUp
  <2>2. Begun(c) = {d}
    BY <1>6 DEF Begun
  <2> HIDE DEF d
  <2>3. 1 \in 1..Len(c.targets) /\ 2 \in 1..Len(c.targets)
    <3> DEFINE n == Len(c.targets)
    <3>1. n \in Nat /\ 1 <= n /\ n # 1
      BY <1>2, <1>3, <1>6 DEF InLastBatch
    <3> HIDE DEF n
    <3>2. 1 \in 1..n /\ 2 \in 1..n
      BY <3>1
    <3> QED BY <3>2 DEF n
  <2>4. c.targets[2] \in Int /\ c.targets[2] < c.targets[1] /\ c.targets[1] = h - 1
    <3>1. c.targets[1] \in Heights /\ c.targets[2] \in Heights
      BY <1>3, <2>3
    <3>2. c.targets[1] > c.targets[2]
      BY <1>1, <2>3 DEF CatchUpFits
    <3>3. c.targets[1] = h - 1
      BY <1>2, <1>4, <1>6 DEF IsOneHeader
    <3> QED BY <3>1, <3>2, <3>3 DEF Heights
  <2>5. h..h \subseteq handed'
    BY <1>3, <1>5, <1>6
  <2>6. CatchUpFits(d)'
    <3>1. /\ d.index <= Len(d.targets)
          /\ \A i, j \in 1..Len(d.targets) : i < j => d.targets[i] > d.targets[j]
      BY <1>1, <2>1, <2>3 DEF CatchUpFits
    <3>2. /\ d.targets[d.index] < d.at /\ d.at <= d.base /\ d.base <= d.head
          /\ d.index # 1 /\ d.base..d.head \subseteq handed'
      BY <1>3, <2>1, <2>4, <2>5
    <3> QED BY <3>1, <3>2 DEF CatchUpFits, Target
  <2> QED BY <2>1, <2>2, <2>6
<1>7. /\ Begun(c) \subseteq CatchUp
      /\ \A d \in Begun(c) : CatchUpFits(d)' /\ d.src = src
  <2>1. ~IsOneHeader(c) => Begun(c) = {c}
    BY DEF Begun
  <2>2. IsOneHeader(c) /\ InLastBatch(c) => Begun(c) = {}
    BY DEF Begun
  <2> QED BY <1>1, <1>2, <1>6, <2>1, <2>2
<1>8. \A r \in CompleteAtOnce(c) : (r.to + 1)..r.from \subseteq HandedAtOnce(c)
  <2> SUFFICES ASSUME Begun(c) = {} PROVE (LastTarget(c) + 1)..h \subseteq HandedAtOnce(c)
    BY <1>2 DEF CompleteAtOnce, FullRange
  <2>1. IsOneHeader(c) /\ InLastBatch(c)
    BY DEF Begun
  <2>2. LastTarget(c) = h - 1
    BY <1>2, <1>3, <1>4, <2>1 DEF IsOneHeader, InLastBatch, LastTarget, Target
  <2> QED BY <1>3, <1>5, <2>1, <2>2
<1> QED BY <1>5, <1>7, <1>8

----------------------------------------------------------------------------
(* Calls *)

\* The first call goes on: its head and who waits for it stay.
LEMMA CallGoesOn ==
    ASSUME TypeOK, calls # <<>>, NEW at \in {"get", "tip", "range", "rangeTip"},
           NEW to \in Heights, Step(1, at, to)
    PROVE  /\ calls' \in Seq(Call) /\ Len(calls') = Len(calls)
           /\ calls'[1].head = calls[1].head /\ calls'[1].at = at /\ calls'[1].to = to
           /\ \A i \in 2..Len(calls) : calls'[i] = calls[i]
<1>1. calls \in Seq(Call) /\ Len(calls) \in Nat /\ 1 \in 1..Len(calls)
  BY DEF TypeOK
<1> DEFINE k == [calls[1] EXCEPT !.at = at, !.to = to]
<1>2. calls' = [calls EXCEPT ![1] = k]
  BY <1>1 DEF Step
<1>3. calls[1] \in Call
  BY <1>1
<1>4. k \in Call /\ k.head = calls[1].head /\ k.at = at /\ k.to = to
  BY <1>3 DEF Call
<1> HIDE DEF k
<1> QED BY <1>1, <1>2, <1>4

\* The first call is done.
LEMMA CallIsDone ==
    ASSUME TypeOK, calls # <<>>, calls' = Without(1)
    PROVE  /\ calls' \in Seq(Call) /\ Len(calls') = Len(calls) - 1
           /\ \A i \in 1..Len(calls') : calls'[i] = calls[i + 1]
<1>1. calls \in Seq(Call) /\ Len(calls) \in Nat /\ Len(calls) >= 1
  BY DEF TypeOK
<1> DEFINE b == SubSeq(calls, 1, 0)
           d == SubSeq(calls, 2, Len(calls))
<1>2. b \in Seq(Call) /\ Len(b) = 0
  BY <1>1, SubSeqProperties
<1>3. d \in Seq(Call) /\ Len(d) = Len(calls) - 1 /\ \A i \in 1..Len(d) : d[i] = calls[i + 1]
  <2>1. \A i \in 2..Len(calls) : calls[i] \in Call
    BY <1>1
  <2>2. /\ d \in Seq(Call) /\ Len(d) = IF 2 <= Len(calls) THEN Len(calls) - 2 + 1 ELSE 0
        /\ \A i \in 1..(Len(calls) - 2 + 1) : d[i] = calls[2 + i - 1]
    BY <1>1, <2>1, SubSeqProperties
  <2> HIDE DEF d
  <2>3. Len(d) = Len(calls) - 1
    <3> DEFINE n == Len(calls)
               m == Len(d)
    <3>1. n \in Nat /\ n >= 1 /\ m = IF 2 <= n THEN n - 2 + 1 ELSE 0
      BY <1>1, <2>2
    <3> HIDE DEF n, m
    <3>2. m = n - 1
      BY <3>1
    <3> QED BY <3>2 DEF n, m
  <2>4. \A i \in 1..Len(d) : 2 + i - 1 = i + 1 /\ i \in 1..(Len(calls) - 2 + 1)
    BY <1>1, <2>3
  <2> QED BY <2>2, <2>3, <2>4
<1>4. calls' = b \o d
  BY DEF Without
<1> HIDE DEF b, d
<1>5. b \o d = d
  BY <1>2, <1>3
<1> QED BY <1>3, <1>4, <1>5

\* Calls are appended.
LEMMA CallsAppended ==
    ASSUME TypeOK, NEW s \in Seq(Call), calls' = calls \o s
    PROVE  /\ calls' \in Seq(Call) /\ Len(calls') = Len(calls) + Len(s)
           /\ \A i \in 1..Len(calls) : calls'[i] = calls[i]
           /\ \A i \in (Len(calls) + 1)..Len(calls') : calls'[i] = s[i - Len(calls)]
BY ConcatProperties DEF TypeOK

\* What stays true of calls while others are appended and the tip stays.
LEMMA CallsFitAppended ==
    ASSUME TypeOK, CallsFit, NEW s \in Seq(Call), calls' = calls \o s, UNCHANGED tip,
           \A i \in 1..Len(s) : s[i].at = "get" /\ s[i].head \in (arrived \cup handed)',
           arrived \subseteq arrived', handed \subseteq handed'
    PROVE  CallsFit'
<1>1. /\ Len(calls') = Len(calls) + Len(s) /\ Len(calls) \in Nat /\ Len(s) \in Nat
      /\ \A i \in 1..Len(calls) : calls'[i] = calls[i]
      /\ \A i \in (Len(calls) + 1)..Len(calls') : calls'[i] = s[i - Len(calls)]
  BY CallsAppended DEF TypeOK
<1>2. ASSUME NEW i \in (Len(calls) + 1)..Len(calls')
      PROVE  calls'[i].at = "get" /\ calls'[i].head \in (arrived \cup handed)'
  <2>1. i - Len(calls) \in 1..Len(s)
    BY <1>1
  <2> QED BY <1>1, <2>1
<1>3. \A i \in 2..Len(calls') : calls'[i].at = "get"
  <2> SUFFICES ASSUME NEW i \in 2..Len(calls') PROVE calls'[i].at = "get"
    OBVIOUS
  <2>1. i \in 2..Len(calls) \/ i \in (Len(calls) + 1)..Len(calls')
    BY <1>1
  <2>2. i \in 2..Len(calls) => calls'[i] = calls[i]
    BY <1>1
  <2> QED BY <1>2, <2>1, <2>2 DEF CallsFit
<1>4. \A i \in 1..Len(calls') : calls'[i].head \in (arrived \cup handed)'
  <2> SUFFICES ASSUME NEW i \in 1..Len(calls') PROVE calls'[i].head \in (arrived \cup handed)'
    OBVIOUS
  <2>1. i \in 1..Len(calls) \/ i \in (Len(calls) + 1)..Len(calls')
    BY <1>1
  <2> QED BY <1>1, <1>2, <2>1 DEF CallsFit
<1>5. calls' # <<>> => CallFits(calls[1])'
  <2> SUFFICES ASSUME calls' # <<>> PROVE CallFits(calls[1])'
    OBVIOUS
  <2>1. CASE calls # <<>>
    <3>1. 1 \in 1..Len(calls)
      BY <2>1 DEF TypeOK
    <3> QED BY <1>1, <2>1, <3>1 DEF CallsFit, CallFits
  <2>2. CASE calls = <<>>
    <3>1. Len(calls) = 0 /\ 1 \in (Len(calls) + 1)..Len(calls')
      <4>1. calls' \in Seq(Call)
        BY CallsAppended
      <4> QED BY <1>1, <2>2, <4>1
    <3> QED BY <1>2, <3>1 DEF CallFits
  <2> QED BY <2>1, <2>2
<1> QED BY <1>3, <1>4, <1>5 DEF CallsFit

----------------------------------------------------------------------------
(* Steps of #targetHeights *)

\* The numbers of a call that is there.
LEMMA FirstCall ==
    ASSUME TypeOK, calls # <<>>
    PROVE  /\ Len(calls) \in Nat /\ 1 \in 1..Len(calls)
           /\ calls[1].head \in Heights /\ calls[1].to \in Heights /\ calls[1].head \in Int
           /\ tip # None => tip \in Heights /\ tip \in Int
           /\ None \notin Int
<1>1. calls \in Seq(Call) /\ Len(calls) \in Nat /\ 1 \in 1..Len(calls)
  BY DEF TypeOK
<1>2. calls[1] \in Call
  BY <1>1
<1> QED BY <1>1, <1>2, HeadCatcherAssumption DEF TypeOK, Call, Heights

LEMMA GetTipStep ==
    ASSUME HeadInv, calls # <<>>, GetTip(1)
    PROVE  HeadInv'
<1> DEFINE head == calls[1].head
           cur == IF tip = None THEN head ELSE tip
<1>1. /\ IF head - cur < 2 THEN Step(1, "tip", head)
         ELSE Step(1, "range", Higher(head - MaxBlockDist, cur))
      /\ UNCHANGED <<tip, pending, catchups, resolved, recovering, fetching, blocks, fresh,
                     arrived, handed, skipped, since, errors, interrupts, crashes>>
  BY DEF GetTip, stored, history, bounds
<1>2. head \in Heights /\ cur \in Heights /\ head \in Int /\ cur \in Int
  BY FirstCall DEF HeadInv
<1>3. PICK at \in {"tip", "range"}, to \in Heights :
        /\ Step(1, at, to)
        /\ at = "tip" => tip = None \/ head - tip < 2
        /\ at = "range" => tip # None /\ head - tip >= 2 /\ tip <= to /\ to < head
  <2>1. CASE head - cur < 2
    BY <1>1, <1>2, <2>1
  <2>2. CASE ~(head - cur < 2)
    <3> DEFINE to == Higher(head - MaxBlockDist, cur)
    <3>1. head - MaxBlockDist \in Int /\ head - MaxBlockDist < head
      BY <1>2, HeadCatcherAssumption
    <3>2. /\ to \in Int /\ to >= cur /\ to < head
      BY <1>2, <2>2, <3>1 DEF Higher
    <3>3. to \in Heights
      BY <1>2, <3>2, HeadCatcherAssumption DEF Heights
    <3>4. tip # None /\ cur = tip
      BY <1>2, <2>2
    <3> HIDE DEF to
    <3>5. Step(1, "range", to)
      BY <1>1, <2>2 DEF to
    <3>6. head - tip >= 2 /\ tip <= to
      BY <1>2, <2>2, <3>2, <3>4
    <3> QED BY <3>2, <3>3, <3>4, <3>5, <3>6
  <2> QED BY <2>1, <2>2
<1>4. /\ calls' \in Seq(Call) /\ Len(calls') = Len(calls)
      /\ calls'[1].head = head /\ calls'[1].at = at /\ calls'[1].to = to
      /\ \A i \in 2..Len(calls) : calls'[i] = calls[i]
  BY <1>3, CallGoesOn DEF HeadInv
<1>5. CallsFit'
  <2>1. \A i \in 1..Len(calls) : i = 1 \/ i \in 2..Len(calls)
    BY FirstCall DEF HeadInv
  <2> QED BY <1>1, <1>3, <1>4, <2>1 DEF HeadInv, CallsFit, CallFits
<1>6. TypeOK'
  BY <1>1, <1>4 DEF HeadInv, TypeOK
<1> QED BY <1>1, <1>5, <1>6 DEF HeadInv, CatchUpFits, RangesFit, SinceFits, Target

\* Calls are left to begin when the first one is done.
LEMMA CallsFitAfter ==
    ASSUME HeadInv, calls # <<>>, calls' = Without(1),
           arrived \subseteq arrived', handed \subseteq handed'
    PROVE  calls' \in Seq(Call) /\ CallsFit'
<1>1. /\ calls' \in Seq(Call) /\ Len(calls') = Len(calls) - 1 /\ Len(calls) \in Nat
      /\ \A i \in 1..Len(calls') : calls'[i] = calls[i + 1] /\ i + 1 \in 2..Len(calls)
  BY CallIsDone, FirstCall DEF HeadInv
<1>2. \A i \in 1..Len(calls') : /\ calls'[i].at = "get"
                                /\ calls'[i].head \in (arrived \cup handed)'
  BY <1>1 DEF HeadInv, CallsFit
<1>3. calls' # <<>> => 1 \in 1..Len(calls')
  BY <1>1
<1> QED BY <1>1, <1>2, <1>3 DEF CallsFit, CallFits

\* Handing heights over leaves the counts of downloads counts.
LEMMA CountLemma ==
    ASSUME NEW f \in [Heights -> Nat], NEW hs
    PROVE  Count(f, hs) \in [Heights -> Nat]
BY DEF Count

LEMMA PutTipStep ==
    ASSUME HeadInv, calls # <<>>, PutTip(1)
    PROVE  HeadInv'
<1> DEFINE hs == IF calls[1].up THEN {calls[1].head} ELSE {}
<1>1. /\ tip' = calls[1].head /\ calls' = Without(1)
      /\ fetching' = Count(fetching, hs) /\ handed' = handed \cup hs
      /\ since' = IF since = None THEN tip' ELSE since
      /\ UNCHANGED <<pending, catchups, resolved, recovering, blocks, fresh, arrived,
                     skipped, errors, interrupts, crashes>>
  BY DEF PutTip, FirstTip, bounds
<1>2. calls[1].head \in Heights /\ calls[1].head \in Int /\ None \notin Int /\ hs \subseteq Heights
  BY FirstCall DEF HeadInv
<1> HIDE DEF hs
<1>3. calls' \in Seq(Call) /\ CallsFit'
  BY <1>1, CallsFitAfter
<1>4. fetching' \in [Heights -> Nat]
  BY <1>1, CountLemma DEF HeadInv, TypeOK
<1>5. TypeOK'
  BY <1>1, <1>2, <1>3, <1>4 DEF HeadInv, TypeOK
<1>6. \A c \in catchups : CatchUpFits(c)'
  BY <1>1 DEF HeadInv, CatchUpFits, Target
<1>7. RangesFit' /\ SinceFits'
  BY <1>1, <1>2 DEF HeadInv, RangesFit, SinceFits
<1> QED BY <1>1, <1>3, <1>5, <1>6, <1>7 DEF HeadInv

LEMMA PutRangeStep ==
    ASSUME HeadInv, calls # <<>>, PutRange(1)
    PROVE  HeadInv'
<1> DEFINE r == [from |-> calls[1].head, to |-> calls[1].to]
<1>1. /\ calls[1].at = "range" /\ pending' = pending \cup {r}
      /\ Step(1, "rangeTip", calls[1].to)
      /\ skipped' = skipped \cup (tip + 1)..calls[1].to
      /\ UNCHANGED <<tip, catchups, resolved, recovering, fetching, blocks, fresh,
                     arrived, handed, since, errors, interrupts, crashes>>
  BY DEF PutRange, bounds
<1>2. /\ calls[1].head \in Heights /\ calls[1].to \in Heights
      /\ tip \in Heights /\ tip # None /\ calls[1].head - tip >= 2
      /\ tip <= calls[1].to /\ calls[1].to < calls[1].head
  BY <1>1, FirstCall DEF HeadInv, CallsFit, CallFits
<1>3. r \in BlockNumberRange /\ r.from > r.to
  BY <1>2 DEF BlockNumberRange, Heights
<1> HIDE DEF r
<1>4. /\ calls' \in Seq(Call) /\ Len(calls') = Len(calls)
      /\ calls'[1].head = calls[1].head /\ calls'[1].at = "rangeTip" /\ calls'[1].to = calls[1].to
      /\ \A i \in 2..Len(calls) : calls'[i] = calls[i]
  BY <1>1, <1>2, CallGoesOn DEF HeadInv
<1>5. CallsFit'
  <2>1. \A i \in 1..Len(calls) : i = 1 \/ i \in 2..Len(calls)
    BY FirstCall DEF HeadInv
  <2> QED BY <1>1, <1>2, <1>4, <2>1 DEF HeadInv, CallsFit, CallFits
<1>6. (tip + 1)..calls[1].to \subseteq Heights
  BY <1>2, HeadCatcherAssumption DEF Heights
<1>7. TypeOK'
  BY <1>1, <1>3, <1>4, <1>6 DEF HeadInv, TypeOK
<1>8. RangesFit'
  BY <1>1, <1>3 DEF HeadInv, RangesFit
<1> QED BY <1>1, <1>5, <1>7, <1>8 DEF HeadInv, CatchUpFits, SinceFits, Target

LEMMA PutRangeTipStep ==
    ASSUME HeadInv, calls # <<>>, PutRangeTip(1)
    PROVE  HeadInv'
<1> DEFINE c == NewCatchUp("live", calls[1].head, calls[1].to)
<1>1. /\ calls[1].at = "rangeTip" /\ tip' = calls[1].head /\ calls' = Without(1)
      /\ UNCHANGED <<resolved, recovering, blocks, fresh, arrived, skipped, since,
                     errors, interrupts, crashes>>
  BY DEF PutRangeTip, bounds
<1>2. /\ calls[1].head \in Heights /\ calls[1].to \in Heights /\ calls[1].to < calls[1].head
      /\ tip # None /\ tip' # None
  BY <1>1, FirstCall DEF HeadInv, CallsFit, CallFits
<1>3. /\ catchups' \subseteq catchups \cup CatchUp
      /\ \A d \in catchups' \ catchups : CatchUpFits(d)'
      /\ pending' \subseteq pending /\ fetching' \in [Heights -> Nat]
      /\ handed \subseteq handed' /\ handed' \subseteq Heights
  <2>1. CASE calls[1].up
    <3>1. /\ catchups' = catchups \cup Begun(c) /\ pending' = pending \ CompleteAtOnce(c)
          /\ fetching' = Count(fetching, HandedAtOnce(c))
          /\ handed' = handed \cup HandedAtOnce(c)
      BY <2>1 DEF PutRangeTip
    <3>2. /\ Begun(c) \subseteq CatchUp /\ \A d \in Begun(c) : CatchUpFits(d)'
          /\ HandedAtOnce(c) \subseteq {calls[1].head}
      BY <1>2, <3>1, BegunLemma
    <3> HIDE DEF c
    <3> QED BY <1>2, <3>1, <3>2, CountLemma DEF HeadInv, TypeOK
  <2>2. CASE ~calls[1].up
    BY <2>2 DEF PutRangeTip, HeadInv, TypeOK
  <2> QED BY <2>1, <2>2
<1>4. calls' \in Seq(Call) /\ CallsFit'
  BY <1>1, <1>3, CallsFitAfter
<1>5. TypeOK'
  BY <1>1, <1>2, <1>3, <1>4 DEF HeadInv, TypeOK
<1>6. \A d \in catchups : CatchUpFits(d)'
  BY <1>3 DEF HeadInv, CatchUpFits, Target
<1>7. RangesFit' /\ SinceFits'
  BY <1>1, <1>2, <1>3 DEF HeadInv, RangesFit, SinceFits
<1> QED BY <1>1, <1>3, <1>4, <1>5, <1>6, <1>7 DEF HeadInv

----------------------------------------------------------------------------
(* Steps of catch-ups *)

\* The numbers of a catch-up.
LEMMA CatchUpNumbers ==
    ASSUME TypeOK, NEW c \in catchups, CatchUpFits(c)
    PROVE  /\ c.head \in Heights /\ c.base \in Heights /\ c.at \in Heights
           /\ Target(c) \in Heights /\ LastTarget(c) \in Heights /\ LastTarget(c) <= Target(c)
           /\ c.targets \in Seq(Heights) /\ Len(c.targets) \in Nat
           /\ c.index \in 1..Len(c.targets)
<1>1. /\ c.targets \in Seq(Heights) /\ Len(c.targets) \in Nat /\ c.index \in Nat \ {0}
      /\ c.head \in Heights /\ c.base \in Heights /\ c.at \in Heights
  BY DEF TypeOK, CatchUp
<1>2. c.index \in 1..Len(c.targets) /\ Len(c.targets) \in 1..Len(c.targets)
  BY <1>1 DEF CatchUpFits
<1>3. Target(c) \in Heights /\ LastTarget(c) \in Heights
  BY <1>1, <1>2 DEF Target, LastTarget
<1>4. LastTarget(c) <= Target(c)
  <2>1. CASE c.index = Len(c.targets)
    BY <1>3, <2>1 DEF Target, LastTarget, Heights
  <2>2. CASE c.index < Len(c.targets)
    <3>1. Target(c) > LastTarget(c)
      BY <1>2, <2>2 DEF CatchUpFits, Target, LastTarget
    <3> QED BY <1>3, <3>1 DEF Heights
  <2> QED BY <1>2, <2>1, <2>2
<1> QED BY <1>1, <1>2, <1>3, <1>4

\* What a batch hands over: from the header after its target, or the target, to
\* what it began with.
LEMMA BatchLemma ==
    ASSUME TypeOK, NEW c \in catchups, CatchUpFits(c), ReachesTarget(c)
    PROVE  /\ c.at - 1 \in Heights /\ c.at - 1 \in {Target(c), Target(c) + 1}
           /\ c.at - 1 < c.base
           /\ HighestCollected(c) \in {c.base, c.base - 1}
           /\ HighestCollected(c) >= c.at - 1
           /\ (c.at - 1)..HighestCollected(c) \subseteq Heights
           /\ (c.at - 1)..c.head \subseteq handed \cup (c.at - 1)..HighestCollected(c)
<1>1. /\ c.head \in Heights /\ c.base \in Heights /\ c.at \in Heights /\ Target(c) \in Heights
      /\ MaxHeight \in Nat
  BY CatchUpNumbers, HeadCatcherAssumption
<1>2. /\ Target(c) < c.at /\ c.at <= c.base /\ c.base <= c.head
      /\ c.at - 2 <= Target(c)
      /\ IF c.index = 1 THEN c.base = c.head ELSE c.base..c.head \subseteq handed
  BY DEF CatchUpFits, ReachesTarget
<1> DEFINE low == c.at - 1
           high == HighestCollected(c)
<1>3. low \in Heights /\ low \in {Target(c), Target(c) + 1} /\ low < c.base
  BY <1>1, <1>2 DEF Heights
<1>4. high = IF c.index = 1 THEN c.base ELSE c.base - 1
  BY DEF HighestCollected
<1> HIDE DEF low, high
<1>5. high \in {c.base, c.base - 1} /\ high >= low
  BY <1>1, <1>3, <1>4 DEF Heights
<1>6. low..high \subseteq Heights
  BY <1>1, <1>3, <1>5 DEF Heights
<1>7. low..c.head \subseteq handed \cup low..high
  BY <1>1, <1>2, <1>3, <1>4 DEF Heights
<1> QED BY <1>3, <1>5, <1>6, <1>7 DEF low, high

\* The calls that a batch of a recovered range makes.
LEMMA NewCallsLemma ==
    ASSUME NEW low \in Int, NEW high \in Int, low..high \subseteq Heights, low <= high
    PROVE  LET s == [i \in 1..(high - low + 1) |-> NewCall(low + i - 1)]
           IN  /\ s \in Seq(Call) /\ Len(s) = high - low + 1
               /\ \A i \in 1..Len(s) : s[i].at = "get" /\ s[i].head \in low..high
<1> DEFINE n == high - low + 1
           s == [i \in 1..n |-> NewCall(low + i - 1)]
<1>1. n \in Nat
  OBVIOUS
<1>2. \A h \in Heights : NewCall(h) \in Call /\ NewCall(h).at = "get" /\ NewCall(h).head = h
  BY DEF NewCall, Call
<1>3. \A i \in 1..n : low + i - 1 \in low..high
  OBVIOUS
<1> HIDE DEF n
<1>4. s \in Seq(Call) /\ Len(s) = n
  BY <1>1, <1>2, <1>3
<1>5. \A i \in 1..n : s[i].at = "get" /\ s[i].head \in low..high
  BY <1>2, <1>3
<1> HIDE DEF s
<1>6. /\ s \in Seq(Call) /\ Len(s) = high - low + 1
      /\ \A i \in 1..Len(s) : s[i].at = "get" /\ s[i].head \in low..high
  BY <1>4, <1>5 DEF n
<1> QED BY <1>6 DEF s, n

\* The effects of handing a batch over.
LEMMA HandOverLemma ==
    ASSUME HeadInv, NEW c \in catchups, ReachesTarget(c), HandOver(c, c.at - 1),
           UNCHANGED <<tip, arrived>>
    PROVE  /\ handed' = handed \cup (c.at - 1)..HighestCollected(c)
           /\ handed' \subseteq Heights
           /\ fetching' \in [Heights -> Nat] /\ calls' \in Seq(Call)
           /\ CallsFit'
           /\ (c.at - 1)..c.head \subseteq handed'
           /\ c.src = "live" => UNCHANGED calls
<1> DEFINE low == c.at - 1
           high == HighestCollected(c)
           s == [i \in 1..(high - low + 1) |-> NewCall(low + i - 1)]
<1>0. CatchUpFits(c) /\ TypeOK /\ CallsFit
  BY DEF HeadInv
<1>1. /\ low \in Int /\ high \in Int /\ low <= high /\ low..high \subseteq Heights
      /\ low..c.head \subseteq handed \cup low..high
  <2>1. low \in Heights /\ c.base \in Heights /\ high \in {c.base, c.base - 1} /\ high >= low
    BY <1>0, BatchLemma, CatchUpNumbers
  <2> QED BY <1>0, <2>1, BatchLemma DEF Heights
<1>2. /\ handed' = handed \cup low..high
      /\ c.src = "live" => fetching' = Count(fetching, low..high) /\ UNCHANGED calls
      /\ c.src # "live" => calls' = calls \o s /\ UNCHANGED fetching
  BY DEF HandOver
<1>3. s \in Seq(Call) /\ \A i \in 1..Len(s) : s[i].at = "get" /\ s[i].head \in low..high
  BY <1>1, NewCallsLemma
<1> HIDE DEF low, high, s
<1>4. handed' \subseteq Heights /\ fetching' \in [Heights -> Nat]
  BY <1>0, <1>1, <1>2, CountLemma DEF TypeOK
<1>5. calls' \in Seq(Call)
  BY <1>0, <1>2, <1>3, CallsAppended DEF TypeOK
<1>6. CallsFit'
  <2>1. CASE c.src = "live"
    BY <1>0, <1>2, <2>1 DEF CallsFit, CallFits
  <2>2. CASE c.src # "live"
    <3>1. \A i \in 1..Len(s) : s[i].at = "get" /\ s[i].head \in (arrived \cup handed)'
      BY <1>2, <1>3
    <3> QED BY <1>0, <1>2, <1>3, <2>2, <3>1, CallsFitAppended
  <2> QED BY <2>1, <2>2
<1>7. /\ handed' = handed \cup low..high
      /\ low..c.head \subseteq handed'
      /\ c.src = "live" => UNCHANGED calls
  BY <1>1, <1>2
<1> QED BY <1>4, <1>5, <1>6, <1>7 DEF low, high

\* A catch-up that no step touches still fits when more was handed over.
LEMMA CatchUpFrame ==
    ASSUME NEW c, CatchUpFits(c), handed \subseteq handed'
    PROVE  CatchUpFits(c)'
BY DEF CatchUpFits, Target

\* A batch is done: the next one begins from where it ended.
LEMMA NextBatch ==
    ASSUME HeadInv, NEW c \in catchups, ReachesTarget(c), ~InLastBatch(c),
           (c.at - 1)..c.head \subseteq handed'
    PROVE  LET d == [c EXCEPT !.index = @ + 1, !.base = c.at - 1, !.at = c.at - 1]
           IN  d \in CatchUp /\ CatchUpFits(d)'
<1> DEFINE low == c.at - 1
           d == [c EXCEPT !.index = @ + 1, !.base = low, !.at = low]
<1>1. TypeOK /\ CatchUpFits(c) /\ c \in CatchUp
  BY DEF HeadInv, TypeOK
<1>2. /\ low \in Heights /\ low \in {Target(c), Target(c) + 1} /\ low < c.base
      /\ c.base \in Heights /\ c.head \in Heights /\ Target(c) \in Heights
  BY <1>1, BatchLemma, CatchUpNumbers
<1> HIDE DEF low
<1>3. /\ d.head = c.head /\ d.targets = c.targets /\ d.index = c.index + 1
      /\ d.base = low /\ d.at = low /\ d \in CatchUp
  <2>1. c.index + 1 \in Nat \ {0}
    BY <1>1 DEF CatchUp
  <2>2. /\ d.head = c.head /\ d.targets = c.targets /\ d.index = c.index + 1
        /\ d.base = low /\ d.at = low
    BY <1>1 DEF CatchUp
  <2>3. d \in CatchUp
    BY <1>1, <1>2, <2>1 DEF CatchUp
  <2> QED BY <2>2, <2>3
<1> HIDE DEF d
<1>4. c.index \in 1..Len(c.targets) /\ c.index + 1 \in 1..Len(c.targets) /\ Len(c.targets) \in Nat
  BY <1>1, CatchUpNumbers DEF InLastBatch
<1>5. c.targets[c.index + 1] \in Heights /\ c.targets[c.index + 1] < Target(c)
  <2>1. c.targets \in Seq(Heights)
    BY <1>1 DEF CatchUp
  <2> QED BY <1>1, <1>4, <2>1 DEF CatchUpFits, Target
<1>6. c.targets[c.index + 1] < low /\ low <= c.head
  BY <1>1, <1>2, <1>5 DEF CatchUpFits, Heights
<1>7. d.index # 1 /\ low..c.head \subseteq handed'
  BY <1>3, <1>4 DEF low
<1>8. CatchUpFits(d)'
  BY <1>1, <1>2, <1>3, <1>4, <1>6, <1>7 DEF CatchUpFits, Target, Heights
<1> QED BY <1>3, <1>8 DEF d, low

LEMMA FetchParentStep ==
    ASSUME HeadInv, NEW c \in catchups, FetchParent(c)
    PROVE  HeadInv'
<1>1. /\ UNCHANGED <<tip, resolved, recovering, blocks, fresh, arrived, skipped, since,
                     errors, interrupts, crashes>>
      /\ TypeOK /\ CatchUpFits(c) /\ c \in CatchUp
  BY DEF FetchParent, bounds, HeadInv, TypeOK
<1>2. CASE ReachesTarget(c)
  <2>1. EndBatch(c, c.at - 1) /\ HandOver(c, c.at - 1)
    BY <1>2 DEF FetchParent, EndBatch
  <2>2. /\ handed \subseteq handed' /\ handed' \subseteq Heights
        /\ fetching' \in [Heights -> Nat] /\ calls' \in Seq(Call)
        /\ CallsFit' /\ (c.at - 1)..c.head \subseteq handed'
    BY <1>1, <1>2, <2>1, HandOverLemma
  <2> DEFINE d == [c EXCEPT !.index = @ + 1, !.base = c.at - 1, !.at = c.at - 1]
  <2>3. ~InLastBatch(c) => d \in CatchUp /\ CatchUpFits(d)'
    BY <1>2, <2>2, NextBatch
  <2>4. IF InLastBatch(c)
        THEN catchups' = catchups \ {c} /\ pending' = pending \ {FullRange(c)}
        ELSE catchups' = (catchups \ {c}) \cup {d} /\ pending' = pending
    BY <2>1 DEF EndBatch
  <2> HIDE DEF d
  <2>5. catchups' \subseteq CatchUp /\ \A e \in catchups' : CatchUpFits(e)'
    <3>1. \A e \in catchups : e \in CatchUp /\ CatchUpFits(e)'
      BY <2>2, CatchUpFrame DEF HeadInv, TypeOK
    <3> QED BY <2>3, <2>4, <3>1
  <2>6. pending' \subseteq pending
    BY <2>4
  <2>7. TypeOK'
    BY <1>1, <2>2, <2>5, <2>6 DEF TypeOK
  <2> QED BY <1>1, <2>2, <2>5, <2>6, <2>7 DEF HeadInv, RangesFit, SinceFits
<1>3. CASE ~ReachesTarget(c)
  <2> DEFINE d == [c EXCEPT !.at = @ - 1]
  <2>1. /\ catchups' = (catchups \ {c}) \cup {d}
        /\ UNCHANGED <<pending, calls, fetching, handed>>
    BY <1>3 DEF FetchParent
  <2>2. c.at \in Heights /\ c.base \in Heights /\ Target(c) \in Heights
    BY <1>1, CatchUpNumbers
  <2>3. Target(c) < c.at - 1 /\ c.at - 1 \in Heights /\ c.at - 1 <= c.base
    BY <1>1, <1>3, <2>2, HeadCatcherAssumption DEF ReachesTarget, CatchUpFits, Heights
  <2>4. /\ d.head = c.head /\ d.targets = c.targets /\ d.index = c.index
        /\ d.base = c.base /\ d.at = c.at - 1 /\ d \in CatchUp
    BY <1>1, <2>3 DEF CatchUp
  <2> HIDE DEF d
  <2>5. CatchUpFits(d)'
    BY <1>1, <2>1, <2>3, <2>4 DEF CatchUpFits, Target
  <2>6. catchups' \subseteq CatchUp /\ \A e \in catchups' : CatchUpFits(e)'
    <3>1. \A e \in catchups : e \in CatchUp /\ CatchUpFits(e)'
      BY <2>1, CatchUpFrame DEF HeadInv, TypeOK
    <3> QED BY <2>1, <2>4, <2>5, <3>1
  <2>7. TypeOK'
    BY <1>1, <2>1, <2>6 DEF TypeOK
  <2>8. CallsFit'
    BY <1>1, <2>1 DEF HeadInv, CallsFit, CallFits
  <2> QED BY <1>1, <2>1, <2>6, <2>7, <2>8 DEF HeadInv, RangesFit, SinceFits
<1> QED BY <1>2, <1>3

\* What finalize leaves are ranges.
LEMMA FinalizedLemma ==
    ASSUME HeadInv, NEW cs \in SUBSET catchups, NEW ranges \in SUBSET BlockNumberRange,
           \A r \in ranges : r.from > r.to
    PROVE  /\ Finalized(cs, ranges) \subseteq BlockNumberRange
           /\ \A r \in Finalized(cs, ranges) : r.from > r.to
<1>1. ASSUME NEW c \in cs
      PROVE  CurrentRange(c) \in BlockNumberRange /\ CurrentRange(c).from > CurrentRange(c).to
  <2>1. /\ c.base \in Heights /\ c.at \in Heights /\ Target(c) \in Heights
        /\ Target(c) < c.at /\ c.at <= c.base
    BY CatchUpNumbers DEF HeadInv, CatchUpFits
  <2> QED BY <2>1 DEF CurrentRange, BlockNumberRange, Heights
<1> QED BY <1>1 DEF Finalized

\* A request of a header fails, the pipe or its source is interrupted: catch-ups
\* end, and ranges are changed as finalize does.
LEMMA DropsStep ==
    ASSUME HeadInv, NEW cs \in SUBSET catchups, catchups' = catchups \ cs,
           NEW ranges \in SUBSET pending, pending' = Finalized(cs, ranges),
           UNCHANGED <<tip, arrived, handed, since>>
    PROVE  /\ catchups' \subseteq CatchUp /\ \A c \in catchups' : CatchUpFits(c)'
           /\ pending' \subseteq BlockNumberRange /\ \A r \in pending' : r.from > r.to
           /\ SinceFits'
<1>1. pending' \subseteq BlockNumberRange /\ \A r \in pending' : r.from > r.to
  BY FinalizedLemma DEF HeadInv, TypeOK, RangesFit
<1>2. \A c \in catchups' : CatchUpFits(c)'
  BY CatchUpFrame DEF HeadInv
<1> QED BY <1>1, <1>2 DEF HeadInv, TypeOK, SinceFits

LEMMA HeaderErrorStep ==
    ASSUME HeadInv, NEW c \in catchups, HeaderError(c)
    PROVE  HeadInv'
<1>1. /\ catchups' = catchups \ {c} /\ errors < MaxErrors /\ errors' = errors + 1
      /\ pending' = Finalized({c}, pending \ {[from |-> c.head, to |-> Target(c)]})
      /\ UNCHANGED <<tip, calls, resolved, recovering, fetching, blocks, fresh, arrived,
                     handed, skipped, since, interrupts, crashes>>
  BY DEF HeaderError, history
<1>2. /\ catchups' \subseteq CatchUp /\ \A d \in catchups' : CatchUpFits(d)'
      /\ pending' \subseteq BlockNumberRange /\ \A r \in pending' : r.from > r.to
      /\ SinceFits'
  BY <1>1, DropsStep
<1>3. errors' \in 0..MaxErrors
  BY <1>1, HeadCatcherAssumption DEF HeadInv, TypeOK
<1>4. TypeOK'
  BY <1>1, <1>2, <1>3 DEF HeadInv, TypeOK
<1> QED BY <1>1, <1>2, <1>4 DEF HeadInv, CallsFit, CallFits, RangesFit

\* Ranges that are found are ranges that were stored.
LEMMA ResubscribeStep ==
    ASSUME HeadInv, NEW found \in SUBSET BlockNumberRange, \A r \in found : r.from > r.to,
           Resubscribe(found)
    PROVE  HeadInv'
<1>1. /\ interrupts < MaxInterrupts /\ interrupts' = interrupts + 1
      /\ pending' = Finalized(catchups, pending) /\ catchups' = {}
      /\ calls' = [i \in DOMAIN calls |-> [calls[i] EXCEPT !.up = FALSE]]
      /\ fetching' = [h \in Heights |-> 0] /\ fresh' = TRUE
      /\ resolved' = found /\ recovering' = found
      /\ UNCHANGED <<tip, blocks, arrived, handed, skipped, since, errors, crashes>>
  BY DEF Resubscribe, history
<1>2. /\ pending' \subseteq BlockNumberRange /\ \A r \in pending' : r.from > r.to
      /\ SinceFits'
  BY <1>1, DropsStep
<1>3. interrupts' \in 0..MaxInterrupts
  BY <1>1, HeadCatcherAssumption DEF HeadInv, TypeOK
<1>4. /\ calls \in Seq(Call) /\ Len(calls) \in Nat /\ DOMAIN calls = 1..Len(calls)
      /\ \A i \in 1..Len(calls) : calls[i] \in Call
  BY DEF HeadInv, TypeOK
<1>5. \A i \in 1..Len(calls) :
         /\ calls'[i] \in Call /\ calls'[i].head = calls[i].head
         /\ calls'[i].at = calls[i].at /\ calls'[i].to = calls[i].to
  BY <1>1, <1>4 DEF Call
<1>6. calls' \in Seq(Call) /\ Len(calls') = Len(calls)
  BY <1>1, <1>4, <1>5
<1>7. CallsFit'
  <2>1. calls' # <<>> => calls # <<>> /\ 1 \in 1..Len(calls)
    BY <1>4, <1>6
  <2>2. \A i \in 2..Len(calls) : i \in 1..Len(calls)
    BY <1>4
  <2> QED BY <1>1, <1>5, <1>6, <2>1, <2>2 DEF HeadInv, CallsFit, CallFits
<1>8. TypeOK'
  BY <1>1, <1>2, <1>3, <1>6 DEF HeadInv, TypeOK
<1> QED BY <1>1, <1>2, <1>7, <1>8 DEF HeadInv, RangesFit

\* The ranges there are to recover.
LEMMA RecoverableLemma ==
    ASSUME NEW ranges
    PROVE  Recoverable(ranges) \subseteq ranges
BY DEF Recoverable

LEMMA InterruptStep ==
    ASSUME HeadInv, Interrupt \/ \E h \in Heights : BlockError(h)
    PROVE  HeadInv'
<1>1. CASE Interrupt
  <2> DEFINE left == Finalized(catchups, pending)
  <2>1. left \subseteq BlockNumberRange /\ \A r \in left : r.from > r.to
    BY FinalizedLemma DEF HeadInv, TypeOK, RangesFit
  <2>2. Resubscribe(Recoverable(left))
    BY <1>1 DEF Interrupt
  <2> HIDE DEF left
  <2> QED BY <2>1, <2>2, RecoverableLemma, ResubscribeStep
<1>2. CASE \E h \in Heights : BlockError(h)
  <2>1. Resubscribe(resolved)
    BY <1>2 DEF BlockError
  <2> QED BY <2>1, ResubscribeStep DEF HeadInv, TypeOK, RangesFit
<1> QED BY <1>1, <1>2

LEMMA SourceErrorStep ==
    ASSUME HeadInv, SourceError
    PROVE  HeadInv'
<1> DEFINE dropped == {c \in catchups : c.src = "recover"}
<1>1. /\ interrupts < MaxInterrupts /\ interrupts' = interrupts + 1
      /\ pending' = Finalized(dropped, pending) /\ catchups' = catchups \ dropped
      /\ fresh' = TRUE /\ recovering' = resolved
      /\ UNCHANGED <<tip, calls, resolved, fetching, blocks, arrived, handed, skipped, since,
                     errors, crashes>>
  BY DEF SourceError, history
<1>2. dropped \in SUBSET catchups
  OBVIOUS
<1> HIDE DEF dropped
<1>3. /\ catchups' \subseteq CatchUp /\ \A c \in catchups' : CatchUpFits(c)'
      /\ pending' \subseteq BlockNumberRange /\ \A r \in pending' : r.from > r.to
      /\ SinceFits'
  BY <1>1, <1>2, DropsStep
<1>4. interrupts' \in 0..MaxInterrupts
  BY <1>1, HeadCatcherAssumption DEF HeadInv, TypeOK
<1>5. TypeOK'
  BY <1>1, <1>3, <1>4 DEF HeadInv, TypeOK
<1> QED BY <1>1, <1>3, <1>5 DEF HeadInv, CallsFit, CallFits, RangesFit

\* The tip a crash leaves is the stored one, or that of the first call.
LEMMA CrashTip ==
    ASSUME HeadInv, Crash
    PROVE  tip' = tip \/ (calls # <<>> /\ calls[1].at = "tip" /\ tip' = calls[1].head)
<1>1. tip' \in {tip} \cup {calls[i].head : i \in {j \in DOMAIN calls :
                              HasMutex(j) /\ calls[j].at = "tip"}}
  BY DEF Crash
<1>2. \A j \in DOMAIN calls : HasMutex(j) => j = 1 /\ calls # <<>>
  BY DEF HasMutex
<1> QED BY <1>1, <1>2

LEMMA CrashStep ==
    ASSUME HeadInv, Crash
    PROVE  HeadInv'
<1>1. /\ crashes < MaxCrash /\ crashes' = crashes + 1
      /\ since' = IF since = None THEN tip' ELSE since
      /\ calls' = <<>> /\ catchups' = {} /\ fetching' = [h \in Heights |-> 0] /\ fresh' = TRUE
      /\ resolved' = Recoverable(pending) /\ recovering' = Recoverable(pending)
      /\ UNCHANGED <<pending, blocks, arrived, handed, skipped, errors, interrupts>>
  BY DEF Crash, FirstTip
<1>2. tip' \in Heights \cup {None} /\ (tip # None => tip' # None)
  BY CrashTip, FirstCall DEF HeadInv, TypeOK
<1>3. calls' \in Seq(Call) /\ Len(calls') = 0
  BY <1>1
<1>4. crashes' \in 0..MaxCrash
  BY <1>1, HeadCatcherAssumption DEF HeadInv, TypeOK
<1>5. TypeOK'
  BY <1>1, <1>2, <1>3, <1>4, RecoverableLemma DEF HeadInv, TypeOK
<1>6. CallsFit'
  BY <1>1, <1>3 DEF CallsFit
<1>7. RangesFit' /\ SinceFits'
  BY <1>1, <1>2, RecoverableLemma DEF HeadInv, RangesFit, SinceFits
<1> QED BY <1>1, <1>5, <1>6, <1>7 DEF HeadInv

\* What a recovered range changes at once.
LEMMA RecoverEffects ==
    ASSUME HeadInv, NEW r \in recovering, RecoverRange(r)
    PROVE  /\ handed \subseteq handed' /\ handed' \subseteq Heights
           /\ catchups' \subseteq catchups \cup CatchUp
           /\ \A d \in catchups' \ catchups : CatchUpFits(d)'
           /\ pending' \subseteq pending
           /\ \A q \in pending \ pending' : (q.to + 1)..q.from \subseteq handed'
           /\ \E s \in Seq(Call) :
                 /\ calls' = calls \o s
                 /\ \A i \in 1..Len(s) : s[i].at = "get" /\ s[i].head \in handed'
<1> DEFINE c == NewCatchUp("recover", r.from, r.to)
<1>1. /\ catchups' = catchups \cup Begun(c) /\ pending' = pending \ CompleteAtOnce(c)
      /\ handed' = handed \cup HandedAtOnce(c)
      /\ calls' = IF IsOneHeader(c) THEN Append(calls, NewCall(r.from)) ELSE calls
  BY DEF RecoverRange
<1>2. r.from \in Heights /\ r.to \in Heights /\ r.to < r.from
  BY DEF HeadInv, TypeOK, RangesFit, BlockNumberRange, Heights
<1>3. /\ Begun(c) \subseteq CatchUp /\ \A d \in Begun(c) : CatchUpFits(d)'
      /\ HandedAtOnce(c) = IF IsOneHeader(c) THEN {r.from} ELSE {}
      /\ \A q \in CompleteAtOnce(c) : (q.to + 1)..q.from \subseteq HandedAtOnce(c)
  <2>1. "recover" \in {"live", "recover"} /\ HandedAtOnce(c) \subseteq handed'
    BY <1>1
  <2>2. PICK h \in Heights, t \in Heights : h = r.from /\ t = r.to
    BY <1>2
  <2>3. t < h /\ c = NewCatchUp("recover", h, t)
    BY <1>2, <2>2
  <2> HIDE DEF c
  <2> DEFINE src == "recover"
  <2>4. src \in {"live", "recover"} /\ c = NewCatchUp(src, h, t)
    BY <2>1, <2>3
  <2> HIDE DEF src
  <2>5. /\ Begun(c) \subseteq CatchUp
        /\ \A d \in Begun(c) : CatchUpFits(d)' /\ d.src = src
        /\ HandedAtOnce(c) = IF IsOneHeader(c) THEN {h} ELSE {}
        /\ \A q \in CompleteAtOnce(c) : (q.to + 1)..q.from \subseteq HandedAtOnce(c)
    BY <2>1, <2>3, <2>4, BegunLemma
  <2> QED BY <2>2, <2>5
<1> HIDE DEF c
<1>4. \E s \in Seq(Call) :
         /\ calls' = calls \o s
         /\ \A i \in 1..Len(s) : s[i].at = "get" /\ s[i].head \in handed'
  <2> DEFINE k == NewCall(r.from)
  <2>1. calls \in Seq(Call) /\ k \in Call /\ k.at = "get" /\ k.head = r.from
    BY <1>2 DEF HeadInv, TypeOK, NewCall, Call
  <2>2. CASE IsOneHeader(c)
    <3>1. calls' = Append(calls, k) /\ k.head \in handed'
      BY <1>1, <1>3, <2>1, <2>2
    <3> HIDE DEF k
    <3> DEFINE s == <<k>>
    <3>2. calls' = calls \o s /\ s \in Seq(Call) /\ Len(s) = 1 /\ s[1] = k
      BY <2>1, <3>1, AppendIsConcat
    <3> HIDE DEF s
    <3>3. \A i \in 1..Len(s) : s[i].at = "get" /\ s[i].head \in handed'
      BY <2>1, <3>1, <3>2
    <3> QED BY <3>2, <3>3
  <2>3. CASE ~IsOneHeader(c)
    <3> DEFINE s == << >>
    <3>1. calls' = calls \o s /\ s \in Seq(Call) /\ Len(s) = 0
      BY <1>1, <2>1, <2>3
    <3> HIDE DEF s
    <3>2. \A i \in 1..Len(s) : s[i].at = "get" /\ s[i].head \in handed'
      BY <3>1
    <3> QED BY <3>1, <3>2
  <2> QED BY <2>2, <2>3
<1>5. handed \subseteq handed' /\ handed' \subseteq Heights
  BY <1>1, <1>2, <1>3 DEF HeadInv, TypeOK
<1>6. \A q \in pending \ pending' : (q.to + 1)..q.from \subseteq handed'
  BY <1>1, <1>3
<1> QED BY <1>1, <1>3, <1>4, <1>5, <1>6

LEMMA RecoverRangeStep ==
    ASSUME HeadInv, NEW r \in recovering, RecoverRange(r)
    PROVE  HeadInv'
<1>1. /\ recovering' = recovering \ {r}
      /\ UNCHANGED <<tip, resolved, fetching, blocks, fresh, arrived, skipped, since,
                     errors, interrupts, crashes>>
  BY DEF RecoverRange, bounds
<1>2. PICK s \in Seq(Call) :
         /\ calls' = calls \o s
         /\ \A i \in 1..Len(s) : s[i].at = "get" /\ s[i].head \in handed'
  BY RecoverEffects
<1>3. /\ handed \subseteq handed' /\ handed' \subseteq Heights
      /\ catchups' \subseteq catchups \cup CatchUp
      /\ \A d \in catchups' \ catchups : CatchUpFits(d)'
      /\ pending' \subseteq pending
  BY RecoverEffects
<1>4. calls' \in Seq(Call) /\ CallsFit'
  BY <1>1, <1>2, <1>3, CallsAppended, CallsFitAppended DEF HeadInv
<1>5. TypeOK'
  BY <1>1, <1>3, <1>4 DEF HeadInv, TypeOK
<1>6. \A d \in catchups : CatchUpFits(d)'
  BY <1>3, CatchUpFrame DEF HeadInv
<1> QED BY <1>1, <1>3, <1>4, <1>5, <1>6 DEF HeadInv, RangesFit, SinceFits

LEMMA RecoverErrorStep ==
    ASSUME HeadInv, NEW r \in recovering, RecoverError(r)
    PROVE  HeadInv'
<1>1. /\ recovering' = recovering \ {r} /\ errors < MaxErrors /\ errors' = errors + 1
      /\ UNCHANGED <<tip, pending, calls, catchups, resolved, fetching, blocks, fresh, arrived,
                     handed, skipped, since, interrupts, crashes>>
  BY DEF RecoverError, stored, history
<1>2. errors' \in 0..MaxErrors
  BY <1>1, HeadCatcherAssumption DEF HeadInv, TypeOK
<1>3. TypeOK'
  BY <1>1, <1>2 DEF HeadInv, TypeOK
<1> QED BY <1>1, <1>3 DEF HeadInv, CallsFit, CallFits, CatchUpFits, Target, RangesFit, SinceFits

LEMMA ArriveStep ==
    ASSUME HeadInv, NEW h \in Heights, Arrive(h)
    PROVE  HeadInv'
<1>1. /\ arrived' = arrived \cup {h} /\ fresh' = FALSE /\ calls' = Append(calls, NewCall(h))
      /\ UNCHANGED <<tip, pending, catchups, resolved, recovering, fetching, blocks, handed,
                     skipped, since, errors, interrupts, crashes>>
  BY DEF Arrive, stored, bounds
<1> DEFINE s == <<NewCall(h)>>
<1>2. /\ s \in Seq(Call) /\ Len(s) = 1
      /\ s[1].at = "get" /\ s[1].head = h
  BY DEF NewCall, Call
<1>3. calls' = calls \o s
  <2> DEFINE k == NewCall(h)
  <2>1. k \in Call /\ calls \in Seq(Call) /\ calls' = Append(calls, k)
    BY <1>1 DEF HeadInv, TypeOK, Call, NewCall
  <2> HIDE DEF k
  <2>2. calls' = calls \o <<k>>
    BY <2>1, AppendIsConcat
  <2> QED BY <2>2 DEF k
<1>4. \A i \in 1..Len(s) : s[i].at = "get" /\ s[i].head \in (arrived \cup handed)'
  BY <1>1, <1>2
<1> HIDE DEF s
<1>5. CallsFit' /\ calls' \in Seq(Call)
  BY <1>1, <1>2, <1>3, <1>4, CallsFitAppended, CallsAppended DEF HeadInv
<1>6. TypeOK'
  BY <1>1, <1>5 DEF HeadInv, TypeOK
<1> QED BY <1>1, <1>5, <1>6 DEF HeadInv, CatchUpFits, Target, RangesFit, SinceFits

LEMMA BlockStep ==
    ASSUME HeadInv, NEW h \in Heights, FetchBlock(h) \/ GiveUpBlock(h)
    PROVE  HeadInv'
<1>1. /\ fetching[h] > 0 /\ fetching' = [fetching EXCEPT ![h] = @ - 1]
      /\ blocks' = blocks \/ blocks' = [blocks EXCEPT ![h] = @ + 1]
      /\ errors' = errors \/ (errors < MaxErrors /\ errors' = errors + 1)
      /\ UNCHANGED <<tip, pending, calls, catchups, resolved, recovering, fresh, arrived, handed,
                     skipped, since, interrupts, crashes>>
  BY DEF FetchBlock, GiveUpBlock, stored, history, bounds
<1>2. fetching' \in [Heights -> Nat] /\ blocks' \in [Heights -> Nat]
  <2>1. /\ fetching \in [Heights -> Nat] /\ blocks \in [Heights -> Nat]
        /\ fetching[h] - 1 \in Nat /\ blocks[h] + 1 \in Nat
    BY <1>1 DEF HeadInv, TypeOK
  <2> QED BY <1>1, <2>1
<1>3. errors' \in 0..MaxErrors
  BY <1>1, HeadCatcherAssumption DEF HeadInv, TypeOK
<1>4. TypeOK'
  BY <1>1, <1>2, <1>3 DEF HeadInv, TypeOK
<1> QED BY <1>1, <1>4 DEF HeadInv, CallsFit, CallFits, CatchUpFits, Target, RangesFit, SinceFits

\* Steps of calls are steps of the first one.
LEMMA FirstCallRuns ==
    ASSUME TypeOK, RunCalls
    PROVE  calls # <<>> /\ (GetTip(1) \/ PutTip(1) \/ PutRange(1) \/ PutRangeTip(1))
<1>1. PICK i \in DOMAIN calls : GetTip(i) \/ PutTip(i) \/ PutRange(i) \/ PutRangeTip(i)
  BY DEF RunCalls
<1>2. i = 1
  BY <1>1 DEF GetTip, PutTip, PutRange, PutRangeTip, HasMutex
<1>3. calls # <<>>
  BY <1>1
<1> QED BY <1>1, <1>2, <1>3

LEMMA HeadInductive == HeadInv /\ [Next]_vars => HeadInv'
<1>1. ASSUME HeadInv, Next PROVE HeadInv'
  <2>1. CASE RunCalls
    BY <1>1, <2>1, FirstCallRuns, GetTipStep, PutTipStep, PutRangeStep, PutRangeTipStep DEF HeadInv
  <2>2. CASE RunCatchUps \/ RunRecovery \/ RunFetch
    BY <1>1, <2>2, FetchParentStep, RecoverRangeStep, BlockStep DEF RunCatchUps, RunRecovery, RunFetch
  <2>3. CASE Fail
    BY <1>1, <2>3, HeaderErrorStep, RecoverErrorStep, BlockStep, InterruptStep, SourceErrorStep,
       CrashStep DEF Fail
  <2> QED BY <1>1, <2>1, <2>2, <2>3, ArriveStep DEF Next
<1>2. ASSUME HeadInv, UNCHANGED vars PROVE HeadInv'
  BY <1>2 DEF vars, stored, history, bounds, HeadInv, TypeOK, CallsFit, CallFits, CatchUpFits,
     Target, RangesFit, SinceFits
<1> QED BY <1>1, <1>2

\* The variables keep their types: heights are heights, what is being downloaded is
\* counted, and the catch-ups are those of arrayOfTargetHeights (head-catcher.ts).
THEOREM TypeCorrect == Spec => []TypeOK
<1>1. HeadInv => TypeOK
  BY DEF HeadInv
<1> QED BY <1>1, HeadInit, HeadInductive, PTL DEF Spec

----------------------------------------------------------------------------
(* What is forgotten *)

Covered(h, r) == r.to < h /\ h <= r.from

\* The numbers of gaps, before and after a step.
LEMMA GapNumbers ==
    ASSUME HeadInv
    PROVE  /\ NextTip \in Heights \cup {None}
           /\ Gaps \subseteq Heights
           /\ tip = None => NextTip = None
           /\ \A r \in pending : r.from \in Int /\ r.to \in Int
<1>1. NextTip \in Heights \cup {None} /\ (tip = None => NextTip = None)
  <2>1. CASE calls # <<>>
    BY <2>1, FirstCall DEF HeadInv, TypeOK, NextTip, CallsFit, CallFits
  <2>2. CASE calls = <<>>
    BY <2>2 DEF HeadInv, TypeOK, NextTip
  <2> QED BY <2>1, <2>2
<1>2. Gaps \subseteq Heights
  <2>1. CASE tip = None
    BY <2>1 DEF Gaps
  <2>2. CASE tip # None
    <3>1. since \in Heights
      BY <2>2 DEF HeadInv, TypeOK, SinceFits
    <3>2. CASE NextTip = None
      <4>1. calls # <<>> /\ NextTip = calls[1].head
        BY <2>2, <3>2 DEF NextTip
      <4> QED BY <3>2, <4>1, FirstCall, HeadCatcherAssumption DEF HeadInv
    <3>3. CASE NextTip # None
      BY <1>1, <3>1, <3>3, HeadCatcherAssumption DEF Gaps, Heights
    <3> QED BY <3>2, <3>3
  <2> QED BY <2>1, <2>2
<1> QED BY <1>1, <1>2 DEF HeadInv, TypeOK, BlockNumberRange, Heights

\* A step forgets nothing if the gaps it adds are handed over or covered, and the
\* ranges it removes were handed over.
LEMMA NotForgotten ==
    ASSUME HeadInv, HeadInv', handed \subseteq handed',
           \A h \in Gaps' : h \in Gaps \/ h \in handed' \/ \E r \in pending' : Covered(h, r),
           \A r \in pending \ pending' : (r.to + 1)..r.from \subseteq handed'
    PROVE  Forgotten' \subseteq Forgotten
<1> SUFFICES ASSUME NEW h \in Forgotten' PROVE h \in Forgotten
  OBVIOUS
<1>1. h \in Gaps' /\ h \notin handed' /\ \A r \in pending' : h <= r.to \/ h > r.from
  BY DEF Forgotten
<1>2. (HeadInv => Gaps \subseteq Heights /\ \A r \in pending : r.from \in Int /\ r.to \in Int)'
  BY GapNumbers, PTL
<1>3. h \in Int /\ \A r \in pending \cup pending' : r.from \in Int /\ r.to \in Int
  BY <1>1, <1>2, GapNumbers DEF Heights
<1>4. \A r \in pending' : ~Covered(h, r)
  BY <1>1, <1>3 DEF Covered
<1>5. \A r \in pending \ pending' : ~Covered(h, r)
  BY <1>1, <1>3 DEF Covered
<1>6. h \in Gaps /\ h \notin handed
  BY <1>1, <1>4
<1> QED BY <1>3, <1>4, <1>5, <1>6 DEF Forgotten, Covered

\* While neither the tip nor the first call moves it, no gap is added.
LEMMA GapsFrame ==
    ASSUME UNCHANGED <<tip, since>>, NextTip' = NextTip,
           arrived \subseteq arrived', skipped \subseteq skipped'
    PROVE  Gaps' \subseteq Gaps
BY DEF Gaps

\* Appended calls do not move the tip.
LEMMA NextTipAppended ==
    ASSUME HeadInv, UNCHANGED tip, NEW s \in Seq(Call), calls' = calls \o s,
           \A i \in 1..Len(s) : s[i].at = "get"
    PROVE  NextTip' = NextTip
<1>1. /\ calls' \in Seq(Call) /\ Len(calls') = Len(calls) + Len(s)
      /\ Len(calls) \in Nat /\ Len(s) \in Nat
      /\ \A i \in 1..Len(calls) : calls'[i] = calls[i]
      /\ \A i \in (Len(calls) + 1)..Len(calls') : calls'[i] = s[i - Len(calls)]
  BY CallsAppended DEF HeadInv, TypeOK
<1>2. CASE calls # <<>>
  <2>1. 1 \in 1..Len(calls) /\ calls' # <<>>
    BY <1>1, <1>2, FirstCall DEF HeadInv
  <2> QED BY <1>1, <1>2, <2>1 DEF NextTip
<1>3. CASE calls = <<>> /\ calls' # <<>>
  <2>1. Len(calls) = 0 /\ 1 \in (Len(calls) + 1)..Len(calls') /\ 1 - Len(calls) \in 1..Len(s)
    BY <1>1, <1>3
  <2> QED BY <1>1, <1>3, <2>1 DEF NextTip
<1>4. CASE calls = <<>> /\ calls' = <<>>
  BY <1>4 DEF NextTip
<1> QED BY <1>2, <1>3, <1>4

\* The tip moves with the first call, to a head that is known or whose range is
\* recorded.
LEMMA CallsForgetNothing ==
    ASSUME HeadInv, HeadInv', RunCalls
    PROVE  Forgotten' \subseteq Forgotten
<1>1. calls # <<>> /\ (GetTip(1) \/ PutTip(1) \/ PutRange(1) \/ PutRangeTip(1))
  BY FirstCallRuns DEF HeadInv
<1>2. /\ calls[1].head \in Heights /\ calls[1].head \in Int /\ calls[1].to \in Heights
      /\ tip # None => tip \in Heights
      /\ since # None => since \in Heights
      /\ calls[1].head \in arrived \cup handed /\ CallFits(calls[1])
      /\ None \notin Int
  BY <1>1, FirstCall DEF HeadInv, CallsFit, TypeOK
<1>3. \A at, to : Step(1, at, to) => calls' # <<>> /\ calls'[1].at = at /\ calls'[1].head = calls[1].head
  <2> SUFFICES ASSUME NEW at, NEW to, Step(1, at, to)
               PROVE  calls' # <<>> /\ calls'[1].at = at /\ calls'[1].head = calls[1].head
    OBVIOUS
  <2>1. calls \in Seq(Call) /\ Len(calls) \in Nat /\ 1 \in 1..Len(calls) /\ calls[1] \in Call
    BY <1>1, FirstCall DEF HeadInv, TypeOK
  <2> QED BY <2>1 DEF Step, Call
<1>4. calls' = Without(1) => NextTip' = tip'
  <2> SUFFICES ASSUME calls' = Without(1) PROVE NextTip' = tip'
    OBVIOUS
  <2>1. calls' # <<>> => calls'[1].at = "get"
    <3> SUFFICES ASSUME calls' # <<>> PROVE calls'[1].at = "get"
      OBVIOUS
    <3>1. /\ calls' \in Seq(Call) /\ Len(calls') = Len(calls) - 1 /\ Len(calls) \in Nat
          /\ \A i \in 1..Len(calls') : calls'[i] = calls[i + 1]
      BY <1>1, CallIsDone, FirstCall DEF HeadInv
    <3>2. 1 \in 1..Len(calls') /\ 1 + 1 \in 2..Len(calls)
      BY <3>1
    <3> QED BY <3>1, <3>2 DEF HeadInv, CallsFit
  <2> QED BY <2>1 DEF NextTip
<1>5. CASE GetTip(1)
  <2>1. /\ calls[1].at = "get" /\ \E at \in {"tip", "range"} : \E to : Step(1, at, to)
        /\ UNCHANGED <<tip, since, pending, arrived, skipped, handed>>
    BY <1>5 DEF GetTip, stored, history
  <2>2. NextTip' = NextTip
    BY <1>3, <2>1 DEF NextTip
  <2> QED BY <2>1, <2>2, GapsFrame, NotForgotten
<1>6. CASE PutTip(1)
  <2>1. /\ calls[1].at = "tip" /\ tip' = calls[1].head /\ NextTip' = calls[1].head
        /\ since' = IF since = None THEN tip' ELSE since
        /\ handed \subseteq handed' /\ UNCHANGED <<pending, arrived, skipped>>
    BY <1>4, <1>6 DEF PutTip, FirstTip
  <2>2. NextTip = tip
    BY <2>1 DEF NextTip
  <2>3. ASSUME NEW h \in Gaps' PROVE h \in Gaps \/ h \in handed'
    <3>1. h \in since'..calls[1].head /\ h \notin arrived \cup skipped
      BY <1>2, <2>1, <2>3 DEF Gaps
    <3>2. CASE tip = None
      <4>1. since' = calls[1].head
        BY <2>1, <3>2 DEF HeadInv, SinceFits
      <4>2. h = calls[1].head
        BY <1>2, <3>1, <4>1
      <4> QED BY <1>2, <2>1, <3>1, <4>2
    <3>3. CASE tip # None
      <4>1. since' = since /\ since \in Heights /\ tip \in Heights /\ calls[1].head - tip < 2
        BY <1>2, <2>1, <3>3 DEF HeadInv, SinceFits, CallFits
      <4>2. h \in since..tip \/ h = calls[1].head
        BY <1>2, <3>1, <4>1 DEF Heights
      <4> QED BY <1>2, <2>1, <2>2, <3>1, <3>3, <4>2 DEF Gaps
    <3> QED BY <3>2, <3>3
  <2> QED BY <2>1, <2>3, NotForgotten
<1>7. CASE PutRange(1)
  <2> DEFINE r == [from |-> calls[1].head, to |-> calls[1].to]
  <2>1. /\ calls[1].at = "range" /\ pending' = pending \cup {r}
        /\ Step(1, "rangeTip", calls[1].to)
        /\ skipped' = skipped \cup (tip + 1)..calls[1].to
        /\ UNCHANGED <<tip, since, arrived, handed>>
    BY <1>7 DEF PutRange
  <2>2. NextTip = tip /\ NextTip' = calls[1].head
    BY <1>3, <2>1 DEF NextTip
  <2>3. tip # None /\ tip \in Heights /\ since \in Heights
    BY <1>2, <2>1 DEF CallFits, HeadInv, SinceFits
  <2>4. ASSUME NEW h \in Gaps' PROVE h \in Gaps \/ Covered(h, r)
    <3>1. h \in since..calls[1].head /\ h \notin arrived /\ h \notin skipped
          /\ h \notin (tip + 1)..calls[1].to
      BY <2>1, <2>2, <2>3, <2>4 DEF Gaps
    <3>2. CASE h <= tip
      <4>1. h \in since..tip
        BY <1>2, <2>3, <3>1, <3>2 DEF Heights
      <4> QED BY <2>2, <2>3, <3>1, <4>1 DEF Gaps
    <3>3. CASE h > tip
      BY <1>2, <2>3, <3>1, <3>3 DEF Covered, Heights
    <3> QED BY <1>2, <2>3, <3>1, <3>2, <3>3 DEF Heights
  <2> HIDE DEF r
  <2> QED BY <2>1, <2>4, NotForgotten
<1>8. CASE PutRangeTip(1)
  <2> DEFINE c == NewCatchUp("live", calls[1].head, calls[1].to)
  <2>1. /\ calls[1].at = "rangeTip" /\ tip' = calls[1].head /\ calls' = Without(1)
        /\ UNCHANGED <<since, arrived, skipped>>
    BY <1>8 DEF PutRangeTip
  <2>2. NextTip' = NextTip /\ tip # None /\ tip' # None /\ calls[1].to < calls[1].head
    BY <1>1, <1>2, <1>4, <2>1 DEF NextTip, CallFits
  <2>3. Gaps' \subseteq Gaps
    BY <2>1, <2>2 DEF Gaps
  <2>4. /\ handed \subseteq handed'
        /\ \A r \in pending \ pending' : (r.to + 1)..r.from \subseteq handed'
    <3>1. CASE calls[1].up
      <4>1. /\ pending' = pending \ CompleteAtOnce(c)
            /\ handed' = handed \cup HandedAtOnce(c)
        BY <1>8, <3>1 DEF PutRangeTip
      <4>2. \A r \in CompleteAtOnce(c) : (r.to + 1)..r.from \subseteq HandedAtOnce(c)
        BY <1>2, <2>2, <4>1, BegunLemma
      <4> HIDE DEF c
      <4> QED BY <4>1, <4>2
    <3>2. CASE ~calls[1].up
      BY <1>8, <3>2 DEF PutRangeTip
    <3> QED BY <3>1, <3>2
  <2> QED BY <2>3, <2>4, NotForgotten
<1> QED BY <1>1, <1>5, <1>6, <1>7, <1>8

\* A range is removed when the last of its headers was handed over.
LEMMA CatchUpsForgetNothing ==
    ASSUME HeadInv, HeadInv', NEW c \in catchups, FetchParent(c)
    PROVE  Forgotten' \subseteq Forgotten
<1>1. /\ UNCHANGED <<tip, since, arrived, skipped>>
      /\ CatchUpFits(c) /\ TypeOK
  BY DEF FetchParent, HeadInv
<1>2. CASE ReachesTarget(c)
  <2> DEFINE low == c.at - 1
             high == HighestCollected(c)
             s == [i \in 1..(high - low + 1) |-> NewCall(low + i - 1)]
  <2>1. EndBatch(c, low) /\ HandOver(c, low)
    BY <1>2 DEF FetchParent, EndBatch
  <2>2. handed \subseteq handed' /\ low..c.head \subseteq handed'
    BY <1>1, <1>2, <2>1, HandOverLemma
  <2>3. /\ low \in Heights /\ low \in {Target(c), Target(c) + 1}
        /\ c.head \in Heights /\ Target(c) \in Heights /\ LastTarget(c) <= Target(c)
    BY <1>1, <1>2, BatchLemma, CatchUpNumbers
  <2>4. NextTip' = NextTip
    <3>1. CASE c.src = "live"
      BY <1>1, <2>1, <3>1 DEF HandOver, NextTip
    <3>2. CASE c.src # "live"
      <4>1. calls' = calls \o s
        BY <2>1, <3>2 DEF HandOver
      <4>2. /\ c.base \in Heights /\ high \in {c.base, c.base - 1} /\ high >= low
            /\ low..high \subseteq Heights
        BY <1>1, <1>2, BatchLemma, CatchUpNumbers
      <4>3. low \in Int /\ high \in Int /\ low <= high
        BY <2>3, <4>2 DEF Heights
      <4>4. s \in Seq(Call) /\ \A i \in 1..Len(s) : s[i].at = "get"
        BY <4>2, <4>3, NewCallsLemma
      <4> HIDE DEF s
      <4> QED BY <1>1, <4>1, <4>4, NextTipAppended
    <3> QED BY <3>1, <3>2
  <2>5. \A r \in pending \ pending' : r = FullRange(c) /\ InLastBatch(c)
    BY <2>1 DEF EndBatch
  <2>6. InLastBatch(c) => (LastTarget(c) + 1)..c.head \subseteq handed'
    <3> SUFFICES ASSUME InLastBatch(c) PROVE (LastTarget(c) + 1)..c.head \subseteq handed'
      OBVIOUS
    <3>1. LastTarget(c) = Target(c)
      BY DEF InLastBatch, LastTarget, Target
    <3> HIDE DEF low
    <3>2. (LastTarget(c) + 1)..c.head \subseteq low..c.head
      BY <2>3, <3>1 DEF Heights
    <3> QED BY <2>2, <3>2
  <2>7. \A r \in pending \ pending' : (r.to + 1)..r.from \subseteq handed'
    BY <2>5, <2>6 DEF FullRange
  <2> QED BY <1>1, <2>2, <2>4, <2>7, GapsFrame, NotForgotten
<1>3. CASE ~ReachesTarget(c)
  BY <1>1, <1>3, GapsFrame, NotForgotten DEF FetchParent, NextTip
<1> QED BY <1>2, <1>3

\* A crash keeps the stored ranges; the tip that was being put is a known head.
LEMMA CrashForgetsNothing ==
    ASSUME HeadInv, HeadInv', Crash
    PROVE  Forgotten' \subseteq Forgotten
<1>1. /\ since' = IF since = None THEN tip' ELSE since
      /\ calls' = <<>> /\ UNCHANGED <<pending, arrived, handed, skipped>>
  BY DEF Crash, FirstTip
<1>2. NextTip' = tip'
  BY <1>1 DEF NextTip
<1>3. /\ tip # None => tip \in Heights
      /\ since # None => since \in Heights
  BY DEF HeadInv, TypeOK
<1>4. ASSUME NEW h \in Gaps', tip' # tip, calls # <<>>, calls[1].at = "tip", tip' = calls[1].head
      PROVE  h \in Gaps \/ h \in handed'
  <2>1. /\ calls[1].head \in Heights /\ calls[1].head \in arrived \cup handed
        /\ CallFits(calls[1]) /\ NextTip = tip
    BY <1>4, FirstCall DEF HeadInv, CallsFit, NextTip
  <2>2. h \in since'..calls[1].head /\ h \notin arrived \cup skipped
    BY <1>1, <1>2, <1>4 DEF Gaps
  <2>3. CASE tip = None
    <3>1. since' = calls[1].head
      BY <1>1, <1>4, <2>3 DEF HeadInv, SinceFits
    <3>2. h = calls[1].head
      BY <2>1, <2>2, <3>1 DEF Heights
    <3> QED BY <1>1, <2>1, <2>2, <3>2
  <2>4. CASE tip # None
    <3>1. since' = since /\ since \in Heights /\ tip \in Heights /\ calls[1].head - tip < 2
      BY <1>1, <1>3, <1>4, <2>1, <2>4 DEF HeadInv, SinceFits, CallFits
    <3>2. h \in since..tip \/ h = calls[1].head
      BY <2>1, <2>2, <3>1 DEF Heights
    <3> QED BY <1>1, <2>1, <2>2, <2>4, <3>2 DEF Gaps
  <2> QED BY <2>3, <2>4
<1>5. ASSUME NEW h \in Gaps', tip' = tip PROVE h \in Gaps
  <2>1. tip # None /\ since' = since /\ h \in since..tip /\ h \notin arrived \cup skipped
    BY <1>1, <1>2, <1>5 DEF Gaps, HeadInv, SinceFits
  <2>2. NextTip \in Heights /\ tip <= NextTip /\ since \in Heights /\ tip \in Heights
    <3>1. CASE calls # <<>> /\ calls[1].at = "rangeTip"
      BY <1>3, <2>1, <3>1, FirstCall DEF NextTip, HeadInv, CallsFit, CallFits, SinceFits, Heights
    <3>2. CASE ~(calls # <<>> /\ calls[1].at = "rangeTip")
      BY <1>3, <2>1, <3>2 DEF NextTip, HeadInv, SinceFits, Heights
    <3> QED BY <3>1, <3>2
  <2>3. h \in since..NextTip
    BY <2>1, <2>2 DEF Heights
  <2> QED BY <2>1, <2>3 DEF Gaps
<1> QED BY <1>1, <1>4, <1>5, CrashTip, NotForgotten

\* An interruption of catch-ups that are all in their last batch leaves the ranges.
LEMMA LastBatchesForgetNothing ==
    ASSUME HeadInv, HeadInv', \A c \in catchups : InLastBatch(c),
           SourceError \/ Interrupt \/ \E h \in Heights : BlockError(h)
    PROVE  Forgotten' \subseteq Forgotten
<1>1. ASSUME NEW cs \in SUBSET catchups PROVE Finalized(cs, pending) = pending
  BY <1>1 DEF Finalized
<1>2. CASE SourceError
  <2>1. pending' = pending /\ UNCHANGED <<tip, since, calls, arrived, handed, skipped>>
    BY <1>1, <1>2 DEF SourceError, history
  <2> QED BY <2>1, GapsFrame, NotForgotten DEF NextTip
<1>3. CASE Interrupt \/ \E h \in Heights : BlockError(h)
  <2>1. PICK found : Resubscribe(found)
    BY <1>3 DEF Interrupt, BlockError
  <2>2. /\ pending' = pending /\ UNCHANGED <<tip, since, arrived, handed, skipped>>
        /\ calls' = [i \in DOMAIN calls |-> [calls[i] EXCEPT !.up = FALSE]]
    BY <1>1, <2>1 DEF Resubscribe, history
  <2>3. NextTip' = NextTip
    <3>1. CASE calls = <<>>
      <4>1. calls' = <<>>
        BY <2>2, <3>1
      <4> QED BY <2>2, <3>1, <4>1 DEF NextTip
    <3>2. CASE calls # <<>>
      <4>1. calls \in Seq(Call) /\ 1 \in DOMAIN calls /\ calls[1] \in Call
        BY <3>2, FirstCall DEF HeadInv, TypeOK
      <4>2. /\ calls'[1].at = calls[1].at /\ calls'[1].head = calls[1].head
            /\ calls' # <<>>
        BY <2>2, <4>1 DEF Call
      <4> QED BY <2>2, <3>2, <4>2 DEF NextTip
    <3> QED BY <3>1, <3>2
  <2> QED BY <2>2, <2>3, GapsFrame, NotForgotten
<1> QED BY <1>2, <1>3

\* The rest neither moves the tip nor removes a range.
LEMMA OthersForgetNothing ==
    ASSUME HeadInv, HeadInv',
           \/ \E h \in Heights : Arrive(h)
           \/ RunRecovery \/ RunFetch
           \/ \E r \in recovering : RecoverError(r)
           \/ \E h \in Heights : GiveUpBlock(h)
           \/ UNCHANGED vars
    PROVE  Forgotten' \subseteq Forgotten
<1>1. CASE \E h \in Heights : Arrive(h)
  <2>1. PICK h \in Heights : Arrive(h)
    BY <1>1
  <2>2. /\ calls' = Append(calls, NewCall(h)) /\ arrived \subseteq arrived'
        /\ UNCHANGED <<tip, since, pending, handed, skipped>>
    BY <2>1 DEF Arrive, stored
  <2> DEFINE k == NewCall(h)
  <2>3. k \in Call /\ k.at = "get"
    BY DEF NewCall, Call
  <2>4. calls \in Seq(Call) /\ calls' = Append(calls, k)
    BY <2>2 DEF HeadInv, TypeOK
  <2> HIDE DEF k
  <2>5. calls' = calls \o <<k>> /\ <<k>> \in Seq(Call) /\ \A i \in 1..Len(<<k>>) : <<k>>[i].at = "get"
    BY <2>3, <2>4, AppendIsConcat
  <2>6. NextTip' = NextTip
    BY <2>2, <2>5, NextTipAppended
  <2> QED BY <2>2, <2>6, GapsFrame, NotForgotten
<1>2. CASE RunRecovery
  <2>1. PICK r \in recovering : RecoverRange(r)
    BY <1>2 DEF RunRecovery
  <2>2. UNCHANGED <<tip, since, arrived, skipped>>
    BY <2>1 DEF RecoverRange
  <2>3. /\ handed \subseteq handed'
        /\ \A q \in pending \ pending' : (q.to + 1)..q.from \subseteq handed'
    BY <2>1, RecoverEffects
  <2>4. PICK s \in Seq(Call) : calls' = calls \o s /\ \A i \in 1..Len(s) : s[i].at = "get"
    BY <2>1, RecoverEffects
  <2>5. NextTip' = NextTip
    BY <2>2, <2>4, NextTipAppended
  <2> QED BY <2>2, <2>3, <2>5, GapsFrame, NotForgotten
<1>3. CASE ~RunRecovery /\ ~\E h \in Heights : Arrive(h)
  <2>1. UNCHANGED <<tip, since, calls, pending, arrived, handed, skipped>>
    BY <1>3 DEF RunFetch, RecoverError, FetchBlock, GiveUpBlock, stored, history, vars
  <2> QED BY <2>1, GapsFrame, NotForgotten DEF NextTip
<1> QED BY <1>1, <1>2, <1>3

\* Which steps forget a gap: those of OnlyInterruptionsForget.
ForgetBy ==
    \/ Forgotten' \subseteq Forgotten
    \/ \E c \in catchups : HeaderError(c)
    \/ interrupts' > interrupts /\ ~\A c \in catchups : InLastBatch(c)

LEMMA StepsForget ==
    ASSUME HeadInv, HeadInv', [Next]_vars
    PROVE  ForgetBy
<1>1. CASE RunCalls \/ RunCatchUps
  BY <1>1, CallsForgetNothing, CatchUpsForgetNothing DEF RunCatchUps, ForgetBy
<1>2. CASE Crash
  BY <1>2, CrashForgetsNothing DEF ForgetBy
<1>3. CASE SourceError \/ Interrupt \/ \E h \in Heights : BlockError(h)
  <2>1. interrupts' > interrupts
    BY <1>3 DEF SourceError, Interrupt, BlockError, Resubscribe, HeadInv, TypeOK
  <2> QED BY <1>3, <2>1, LastBatchesForgetNothing DEF ForgetBy
<1>4. CASE \E c \in catchups : HeaderError(c)
  BY <1>4 DEF ForgetBy
<1> QED BY <1>1, <1>2, <1>3, <1>4, OthersForgetNothing DEF Next, Fail, ForgetBy

\* Under every failure at once, gaps are forgotten by failing header requests and by
\* interruptions before a last batch only (OnlyInterruptionsForget;
\* head-catcher.ts:409-451).
THEOREM InterruptionsForgetOnly == Spec => OnlyInterruptionsForget
<1>1. HeadInv /\ HeadInv' /\ [Next]_vars => [ForgetBy]_vars
  BY StepsForget
<1>2. [][ForgetBy]_vars => OnlyInterruptionsForget
  BY PTL DEF OnlyInterruptionsForget, ForgetBy
<1> QED BY <1>1, <1>2, HeadInit, HeadInductive, PTL DEF Spec

\* Without failing header requests and interruptions no gap is forgotten: each is
\* handed over or covered by a stored range, over crashes, recoveries, and blocks
\* given up (GapsAreKept).
THEOREM GapsKept ==
    ASSUME "header" \notin Failing, MaxInterrupts = 0
    PROVE  Spec => []GapsAreKept
<1>1. HeadInv /\ HeadInv' /\ [Next]_vars /\ GapsAreKept => GapsAreKept'
  <2> SUFFICES ASSUME HeadInv, HeadInv', [Next]_vars, GapsAreKept PROVE GapsAreKept'
    OBVIOUS
  <2>1. ~\E c \in catchups : HeaderError(c)
    BY DEF HeaderError
  <2>2. ~(interrupts' > interrupts)
    BY DEF HeadInv, TypeOK
  <2> QED BY <2>1, <2>2, StepsForget DEF ForgetBy, GapsAreKept
<1>2. Init => GapsAreKept
  <2> SUFFICES ASSUME Init PROVE GapsAreKept
    OBVIOUS
  <2>1. tip \in {None, 0} /\ since = tip /\ arrived = {tip} \ {None} /\ NextTip = tip
    BY DEF Init, NextTip
  <2>2. tip = 0 => Gaps = {}
    BY <2>1 DEF Gaps
  <2>3. tip = None => Gaps = {}
    BY <2>1 DEF Gaps
  <2> QED BY <2>1, <2>2, <2>3 DEF GapsAreKept, Forgotten
<1> QED BY <1>1, <1>2, HeadInit, HeadInductive, PTL DEF Spec

(* The order of heads.  Where no range is recovered, the calls of            *)
(* #targetHeights wait in the order of their heads, none of them below the   *)
(* tip: so the tip never falls and, in one run of the process, no block is   *)
(* delivered twice.                                                          *)

\* Nothing is recovered; heads come from the source only, in order, and the tip is one
\* of them.
OrderInv ==
    /\ resolved = {}
    /\ \A c \in catchups : c.src = "live"
    /\ \A i \in 1..Len(calls) : calls[i].head \in arrived
    /\ \A i, j \in 1..Len(calls) : i < j => calls[i].head <= calls[j].head
    /\ tip # None => tip \in arrived /\ \A i \in 1..Len(calls) : tip <= calls[i].head

TipStays == tip # None => tip' >= tip

LEMMA Numbers ==
    ASSUME TypeOK
    PROVE  /\ calls \in Seq(Call) /\ Len(calls) \in Nat
           /\ \A i \in 1..Len(calls) : calls[i].head \in Heights
           /\ tip # None => tip \in Heights
           /\ arrived \subseteq Heights /\ Heights \subseteq Int /\ None \notin Heights
<1>1. calls \in Seq(Call) /\ Len(calls) \in Nat
  BY DEF TypeOK
<1>2. \A i \in 1..Len(calls) : calls[i] \in Call
  BY <1>1
<1>3. \A i \in 1..Len(calls) : calls[i].head \in Heights
  BY <1>2 DEF Call
<1> QED BY <1>1, <1>3, HeadCatcherAssumption DEF TypeOK, Heights

LEMMA NumbersNext ==
    ASSUME TypeOK'
    PROVE  \A i \in 1..Len(calls') : calls'[i].head \in Heights
<1>1. calls' \in Seq(Call)
  BY DEF TypeOK
<1>2. \A i \in 1..Len(calls') : calls'[i] \in Call
  BY <1>1
<1> QED BY <1>2 DEF Call

\* The calls stay in line.
SameHeads ==
    Len(calls') = Len(calls) /\ \A i \in 1..Len(calls) : calls'[i].head = calls[i].head

LEMMA StayInLine ==
    ASSUME HeadInv, OrderInv, resolved' = {}, \A c \in catchups' : c.src = "live",
           SameHeads, UNCHANGED <<tip, arrived>>
    PROVE  OrderInv' /\ TipStays
<1>1. OrderInv'
  BY DEF OrderInv, SameHeads
<1>2. TipStays
  BY Numbers DEF HeadInv, TipStays
<1> QED BY <1>1, <1>2

\* The first call is done, and its head the tip.
LEMMA FirstLeaves ==
    ASSUME HeadInv, OrderInv, resolved' = {}, \A c \in catchups' : c.src = "live",
           calls # <<>>, calls' = Without(1), tip' = calls[1].head, UNCHANGED arrived
    PROVE  OrderInv' /\ TipStays
<1>1. /\ Len(calls) \in Nat /\ Len(calls') = Len(calls) - 1 /\ 1 \in 1..Len(calls)
      /\ \A i \in 1..Len(calls') : calls'[i] = calls[i + 1] /\ i + 1 \in 2..Len(calls)
                                   /\ i + 1 \in 1..Len(calls) /\ 1 < i + 1
  BY CallIsDone, FirstCall DEF HeadInv
<1>2. \A i \in 1..Len(calls') : calls'[i].head \in arrived /\ tip' <= calls'[i].head
  BY <1>1 DEF OrderInv
<1>3. \A i, j \in 1..Len(calls') : i < j => calls'[i].head <= calls'[j].head
  <2> SUFFICES ASSUME NEW i \in 1..Len(calls'), NEW j \in 1..Len(calls'), i < j
               PROVE  calls'[i].head <= calls'[j].head
    OBVIOUS
  <2>1. i + 1 < j + 1
    OBVIOUS
  <2> QED BY <1>1, <2>1 DEF OrderInv
<1>4. OrderInv'
  BY <1>1, <1>2, <1>3 DEF OrderInv
<1>5. TipStays
  BY <1>1 DEF OrderInv, TipStays
<1> QED BY <1>4, <1>5

\* A head that arrives is not below those that arrived before.
LEMMA Joins ==
    ASSUME HeadInv, OrderInv, NEW h \in Heights, Arrive(h)
    PROVE  OrderInv' /\ TipStays
<1> DEFINE k == NewCall(h)
<1>1. /\ \A a \in arrived : h >= a
      /\ arrived' = arrived \cup {h} /\ calls' = Append(calls, k)
      /\ UNCHANGED <<tip, catchups, resolved>>
  BY Numbers DEF Arrive, stored, HeadInv, Heights
<1>2. k.head = h
  BY DEF NewCall
<1> HIDE DEF k
<1>3. /\ Len(calls') = Len(calls) + 1 /\ Len(calls) \in Nat
      /\ \A i \in 1..Len(calls) : calls'[i] = calls[i]
      /\ calls'[Len(calls) + 1].head = h
  BY <1>1, <1>2, Numbers DEF HeadInv
<1>4. \A i \in 1..Len(calls') : i \in 1..Len(calls) \/ i = Len(calls) + 1
  BY <1>3
<1>5. \A i \in 1..Len(calls') : calls'[i].head \in arrived' /\ (tip # None => tip <= calls'[i].head)
  BY <1>1, <1>3, <1>4 DEF OrderInv
<1>6. \A i, j \in 1..Len(calls') : i < j => calls'[i].head <= calls'[j].head
  <2> SUFFICES ASSUME NEW i \in 1..Len(calls'), NEW j \in 1..Len(calls'), i < j
               PROVE  calls'[i].head <= calls'[j].head
    OBVIOUS
  <2>1. i \in 1..Len(calls)
    BY <1>3
  <2>2. CASE j \in 1..Len(calls)
    BY <1>3, <2>1, <2>2 DEF OrderInv
  <2>3. CASE j = Len(calls) + 1
    BY <1>1, <1>3, <2>1, <2>3 DEF OrderInv
  <2> QED BY <1>4, <2>2, <2>3
<1>7. OrderInv'
  BY <1>1, <1>5, <1>6 DEF OrderInv
<1>8. TipStays
  BY <1>1, Numbers DEF TipStays, HeadInv
<1> QED BY <1>7, <1>8

LEMMA GoesOnInLine ==
    ASSUME TypeOK, calls # <<>>, NEW at \in {"get", "tip", "range", "rangeTip"},
           NEW to \in Heights, Step(1, at, to)
    PROVE  SameHeads
<1>1. \A i \in 1..Len(calls) : i = 1 \/ i \in 2..Len(calls)
  BY FirstCall
<1> QED BY <1>1, CallGoesOn DEF SameHeads

LEMMA GetTipGoesOn ==
    ASSUME TypeOK, calls # <<>>, GetTip(1)
    PROVE  SameHeads
<1> DEFINE head == calls[1].head
           cur == IF tip = None THEN head ELSE tip
<1>1. head \in Heights /\ head \in Int /\ (tip # None => tip \in Heights /\ tip \in Int)
  BY FirstCall
<1>2. PICK at \in {"tip", "range"} : \E to \in Heights : Step(1, at, to)
  <2>1. CASE head - cur < 2
    BY <1>1, <2>1 DEF GetTip
  <2>2. CASE ~(head - cur < 2)
    <3> DEFINE to == Higher(head - MaxBlockDist, cur)
    <3>1. head - MaxBlockDist \in Int /\ head - MaxBlockDist < head /\ cur \in Heights
      BY <1>1, HeadCatcherAssumption
    <3>2. to \in Int /\ to >= cur /\ (to = head - MaxBlockDist \/ to = cur)
      BY <3>1 DEF Higher, Heights
    <3>3. to \in Heights
      BY <1>1, <3>1, <3>2, HeadCatcherAssumption DEF Heights
    <3>4. Step(1, "range", to)
      BY <2>2 DEF GetTip
    <3> QED BY <3>3, <3>4
  <2> QED BY <2>1, <2>2
<1> QED BY <1>2, GoesOnInLine

LEMMA PutRangeGoesOn ==
    ASSUME TypeOK, calls # <<>>, PutRange(1)
    PROVE  SameHeads
<1>1. calls[1].to \in Heights
  BY FirstCall
<1> QED BY <1>1, GoesOnInLine DEF PutRange

LEMMA CallsInOrder ==
    ASSUME HeadInv, OrderInv, RunCalls, resolved' = {}
    PROVE  OrderInv' /\ TipStays
<1>1. calls # <<>> /\ (GetTip(1) \/ PutTip(1) \/ PutRange(1) \/ PutRangeTip(1))
  BY FirstCallRuns DEF HeadInv
<1>2. CASE GetTip(1) \/ PutRange(1)
  <2>1. SameHeads
    BY <1>1, <1>2, GetTipGoesOn, PutRangeGoesOn DEF HeadInv
  <2> QED BY <1>2, <2>1, StayInLine DEF GetTip, PutRange, stored, history, OrderInv
<1>3. CASE PutTip(1)
  BY <1>1, <1>3, FirstLeaves DEF PutTip, OrderInv
<1>4. CASE PutRangeTip(1)
  <2> DEFINE new == NewCatchUp("live", calls[1].head, calls[1].to)
  <2>1. \A c \in Begun(new) : c.src = "live"
    BY DEF Begun, NewCatchUp
  <2> HIDE DEF new
  <2>2. catchups' \subseteq catchups \cup Begun(new)
    BY <1>4 DEF PutRangeTip, new
  <2>3. \A c \in catchups' : c.src = "live"
    BY <2>1, <2>2 DEF OrderInv
  <2> QED BY <1>1, <1>4, <2>3, FirstLeaves DEF PutRangeTip
<1> QED BY <1>1, <1>2, <1>3, <1>4

LEMMA CatchUpsInOrder ==
    ASSUME HeadInv, OrderInv, NEW c \in catchups, FetchParent(c)
    PROVE  OrderInv' /\ TipStays
<1>1. c.src = "live" /\ c \in CatchUp
  BY DEF OrderInv, HeadInv, TypeOK
<1>2. UNCHANGED <<tip, resolved, arrived, calls>>
  BY <1>1 DEF FetchParent, EndBatch, HandOver
<1>3. \A d \in catchups' : d \in catchups \/ d.src = "live"
  <2> DEFINE d1 == [c EXCEPT !.index = @ + 1, !.base = c.at - 1, !.at = c.at - 1]
             d2 == [c EXCEPT !.at = @ - 1]
  <2>1. d1.src = "live" /\ d2.src = "live"
    BY <1>1 DEF CatchUp
  <2>2. catchups' \subseteq catchups \cup {d1, d2}
    BY DEF FetchParent, EndBatch
  <2> HIDE DEF d1, d2
  <2> QED BY <2>1, <2>2
<1> QED BY <1>2, <1>3, StayInLine DEF OrderInv, SameHeads

LEMMA FailuresInOrder ==
    ASSUME HeadInv, OrderInv, Fail, resolved' = {}
    PROVE  OrderInv' /\ TipStays
<1>1. CASE \/ \E c \in catchups : HeaderError(c)
           \/ \E r \in recovering : RecoverError(r)
           \/ \E h \in Heights : GiveUpBlock(h)
           \/ SourceError
  <2>1. UNCHANGED <<tip, resolved, arrived, calls>> /\ catchups' \subseteq catchups
    BY <1>1 DEF HeaderError, RecoverError, GiveUpBlock, SourceError, stored, history
  <2> QED BY <2>1, StayInLine DEF OrderInv, SameHeads
<1>2. CASE Interrupt \/ \E h \in Heights : BlockError(h)
  <2>1. PICK found : Resubscribe(found)
    BY <1>2 DEF Interrupt, BlockError
  <2>2. /\ catchups' = {} /\ UNCHANGED <<tip, arrived>>
        /\ calls' = [i \in DOMAIN calls |-> [calls[i] EXCEPT !.up = FALSE]]
    BY <2>1 DEF Resubscribe, history
  <2>3. SameHeads
    <3>1. calls \in Seq(Call) /\ Len(calls) \in Nat
      BY Numbers DEF HeadInv
    <3>2. \A i \in 1..Len(calls) : calls[i] \in Call
      BY <3>1
    <3>3. DOMAIN calls' = 1..Len(calls) /\ \A i \in 1..Len(calls) : calls'[i].head = calls[i].head
      BY <2>2, <3>1, <3>2 DEF Call
    <3>4. Len(calls') = Len(calls)
      BY <2>2, <3>1
    <3> QED BY <3>3, <3>4 DEF SameHeads
  <2> QED BY <2>2, <2>3, StayInLine
<1>3. CASE Crash
  <2>1. calls' = <<>> /\ catchups' = {} /\ UNCHANGED arrived
    BY <1>3 DEF Crash
  <2>2. calls # <<>> => 1 \in 1..Len(calls)
    BY Numbers DEF HeadInv
  <2>3. tip' # None => tip' \in arrived
    BY <1>3, <2>2, CrashTip DEF OrderInv
  <2>4. OrderInv'
    BY <2>1, <2>3 DEF OrderInv
  <2>5. TipStays
    BY <1>3, <2>2, CrashTip, Numbers DEF OrderInv, TipStays, HeadInv
  <2> QED BY <2>4, <2>5
<1> QED BY <1>1, <1>2, <1>3 DEF Fail

\* While nothing is found to recover heads stay in order.
LEMMA StepsInOrder ==
    ASSUME HeadInv, OrderInv, [Next]_vars, resolved' = {}
    PROVE  OrderInv' /\ TipStays
<1>1. recovering = {}
  BY DEF HeadInv, TypeOK, OrderInv
<1>2. CASE RunFetch \/ UNCHANGED vars
  BY <1>2, StayInLine DEF RunFetch, FetchBlock, vars, stored, history, OrderInv, SameHeads
<1> QED BY <1>1, <1>2, Joins, CallsInOrder, CatchUpsInOrder, FailuresInOrder
        DEF Next, RunCatchUps, RunRecovery

LEMMA OrderInit == Init => OrderInv
<1> SUFFICES ASSUME Init PROVE OrderInv
  OBVIOUS
<1>1. Len(calls) = 0 /\ resolved = {} /\ catchups = {}
  BY DEF Init
<1> QED BY <1>1 DEF Init, OrderInv

\* For a light client, which recovers nothing, the stored tip never falls, whatever fails
\* and whatever heads arrive meanwhile (TipIsHighest; head-catcher.ts:302-361).
THEOREM TipNeverFalls ==
    ASSUME Light
    PROVE  Spec => TipIsHighest
<1>1. OrderInv /\ [Next]_vars => resolved' = {}
  BY DEF OrderInv, Next, RunCalls, GetTip, PutTip, PutRange, PutRangeTip, RunCatchUps, FetchParent,
     RunRecovery, RecoverRange, RunFetch, FetchBlock, Fail, HeaderError, RecoverError, GiveUpBlock,
     BlockError, Interrupt, Resubscribe, SourceError, Crash, Recoverable, Arrive, vars
<1>2. HeadInv /\ OrderInv /\ [Next]_vars => OrderInv' /\ [TipStays]_vars
  BY <1>1, StepsInOrder
<1>3. [][TipStays]_vars => TipIsHighest
  BY PTL DEF TipIsHighest, TipStays
<1> QED BY <1>2, <1>3, OrderInit, HeadInit, HeadInductive, PTL DEF Spec
----------------------------------------------------------------------------
(* Blocks *)

\* The downloads of a block, over or under way.
Taken(h) == blocks[h] + fetching[h]

\* The heights that a catch-up is still to hand over.
Claims(c, h) == LastTarget(c) < h /\ h <= HighestCollected(c)

\* A catch-up does not reach the target of its batch.
AtFits(c) == c.at - Target(c) >= 2

Used(h) == Taken(h) > 0 \/ \E c \in catchups : Claims(c, h)

\* No height is downloaded and claimed, or claimed by two; what is used is below the
\* heads to come, no two of which are the same.
OnceInv ==
    /\ \A h \in Heights : Taken(h) <= 1
    /\ \A c \in catchups : AtFits(c) /\ \A h \in Heights : Claims(c, h) => Taken(h) = 0
    /\ \A c, d \in catchups : c # d => \A h \in Heights : ~(Claims(c, h) /\ Claims(d, h))
    /\ \A h \in Heights :
          Used(h) => tip # None /\ h <= tip /\ \A i \in 1..Len(calls) : h < calls[i].head
    /\ \A i, j \in 1..Len(calls) : i < j => calls[i].head < calls[j].head
    /\ fresh => Len(calls) = 0 /\ \A h \in Heights : ~Used(h)

LEMMA TakenNat ==
    ASSUME TypeOK, NEW h \in Heights
    PROVE  Taken(h) \in Nat /\ blocks[h] \in Nat /\ fetching[h] \in Nat
BY DEF TypeOK, Taken

LEMMA TakenNatNext ==
    ASSUME TypeOK', NEW h \in Heights
    PROVE  Taken(h)' \in Nat
BY DEF TypeOK, Taken

\* Downloads end, catch-ups are dropped, calls go on.
LEMMA OnceFrame ==
    ASSUME TypeOK, TypeOK', OnceInv, \A h \in Heights : Taken(h)' <= Taken(h),
           catchups' \subseteq catchups, SameHeads, UNCHANGED <<tip, fresh>>
    PROVE  OnceInv'
<1>1. \A h \in Heights : /\ Taken(h) \in Nat /\ Taken(h)' \in Nat
                         /\ Taken(h) = 0 => Taken(h)' = 0
                         /\ Used(h)' => Used(h)
  BY TakenNat, TakenNatNext DEF Used
<1> QED BY <1>1 DEF OnceInv, SameHeads

\* What a new catch-up claims is above the tip it was made at, and not handed over at
\* once.
LEMMA NewClaims ==
    ASSUME NEW src \in {"live", "recover"}, NEW n \in Heights, NEW t \in Heights, t < n,
           NEW low \in Int, low <= t, NEW c, c = NewCatchUp(src, n, t)
    PROVE  /\ \A d \in Begun(c) :
                 /\ AtFits(d)
                 /\ \A h \in Heights :
                       Claims(d, h) => low < h /\ h <= n /\ h \notin HandedAtOnce(c)
           /\ \A d, e \in Begun(c) : d = e
           /\ HandedAtOnce(c) \subseteq {n}
<1>1. c \in CatchUp /\ CatchUpFits(c)
  BY NewCatchUpLemma
<1>2. /\ c.head = n /\ c.base = n /\ c.at = n /\ c.index = 1
      /\ c.targets = arrayOfTargetHeights(n, t) /\ n \in Int /\ t \in Int
  BY DEF NewCatchUp, Heights
<1> DEFINE s == c.targets
           k == Len(s)
<1>3. s \in Seq(Heights) /\ k \in Nat /\ 1 <= k
  BY <1>1, <1>2 DEF CatchUp, CatchUpFits
<1>4. /\ \A i \in 1..k : s[i] \in Int /\ t <= s[i] /\ s[i] < n
      /\ \A i, j \in 1..k : i < j => s[i] > s[j]
  <2>1. s = arrayOfTargetHeights(n, t)
    BY <1>2
  <2>2. /\ \A i \in 1..k : s[i] \in t..(n - 1)
        /\ \A i, j \in 1..k : i < j => s[i] > s[j]
    BY <2>1, TargetsLemma
  <2> QED BY <1>2, <2>2
<1>5. Target(c) = s[1] /\ LastTarget(c) = s[k] /\ (InLastBatch(c) <=> k = 1)
  BY <1>2, <1>3 DEF Target, LastTarget, InLastBatch
<1>6. HandedAtOnce(c) = IF IsOneHeader(c) THEN {n} ELSE {}
  BY <1>2 DEF HandedAtOnce
<1>7. IsOneHeader(c) <=> s[1] = n - 1
  BY <1>2, <1>3, <1>4, <1>5 DEF IsOneHeader
<1>8. low <= s[k] /\ s[k] \in Int /\ s[1] \in Int /\ s[1] <= n - 1
  BY <1>2, <1>3, <1>4
<1> HIDE DEF s, k
<1>9. ASSUME ~IsOneHeader(c)
      PROVE  /\ Begun(c) = {c} /\ AtFits(c)
             /\ \A h \in Heights : Claims(c, h) => low < h /\ h <= n /\ h \notin HandedAtOnce(c)
  <2>1. Begun(c) = {c} /\ AtFits(c)
    BY <1>2, <1>5, <1>7, <1>8, <1>9 DEF Begun, AtFits
  <2>2. HighestCollected(c) = n
    BY <1>2 DEF HighestCollected
  <2> QED BY <1>2, <1>5, <1>6, <1>8, <1>9, <2>1, <2>2 DEF Claims, Heights
<1>10. ASSUME IsOneHeader(c), ~InLastBatch(c), NEW d, d = [c EXCEPT !.index = 2]
       PROVE  /\ Begun(c) = {d} /\ AtFits(d)
              /\ \A h \in Heights : Claims(d, h) => low < h /\ h <= n /\ h \notin HandedAtOnce(c)
  <2>1. Begun(c) = {d}
    BY <1>10 DEF Begun
  <2>2. d.base = n /\ d.at = n /\ d.index = 2 /\ d.targets = s
    BY <1>1, <1>2, <1>10 DEF CatchUp, s
  <2>3. 1 \in 1..k /\ 2 \in 1..k
    BY <1>3, <1>5, <1>10
  <2>4. s[2] \in Int /\ s[2] < n - 1
    BY <1>4, <1>7, <1>10, <2>3
  <2>5. Target(d) = s[2] /\ LastTarget(d) = s[k] /\ HighestCollected(d) = n - 1
    BY <2>2 DEF Target, LastTarget, HighestCollected, k
  <2>6. AtFits(d)
    BY <1>2, <2>2, <2>4, <2>5 DEF AtFits
  <2> QED BY <1>2, <1>6, <1>8, <2>1, <2>5, <2>6 DEF Claims, Heights
<1>11. IsOneHeader(c) /\ InLastBatch(c) => Begun(c) = {}
  BY DEF Begun
<1> QED BY <1>6, <1>9, <1>10, <1>11

\* The call that is done leaves the others apart.
LEMMA StillApart ==
    ASSUME HeadInv, OnceInv, calls # <<>>, calls' = Without(1)
    PROVE  /\ \A i, j \in 1..Len(calls') : i < j => calls'[i].head < calls'[j].head
           /\ \A i \in 1..Len(calls') : calls[1].head < calls'[i].head
           /\ ~fresh /\ 1 \in 1..Len(calls) /\ Len(calls') \in Nat
<1>1. /\ Len(calls) \in Nat /\ Len(calls') = Len(calls) - 1 /\ 1 \in 1..Len(calls)
      /\ \A i \in 1..Len(calls') : calls'[i] = calls[i + 1] /\ i + 1 \in 1..Len(calls) /\ 1 < i + 1
  BY CallIsDone, FirstCall DEF HeadInv
<1>2. ASSUME NEW i \in 1..Len(calls'), NEW j \in 1..Len(calls'), i < j
      PROVE  calls'[i].head < calls'[j].head
  <2>1. i + 1 < j + 1
    BY <1>2
  <2> QED BY <1>1, <2>1 DEF OnceInv
<1>3. \A i \in 1..Len(calls') : calls[1].head < calls'[i].head
  BY <1>1 DEF OnceInv
<1>4. ~fresh
  BY <1>1 DEF OnceInv
<1> QED BY <1>1, <1>2, <1>3, <1>4

LEMMA PutTipOnce ==
    ASSUME HeadInv, HeadInv', OrderInv, OnceInv, calls # <<>>, PutTip(1)
    PROVE  OnceInv'
<1> DEFINE x == calls[1].head
           hs == IF calls[1].up THEN {x} ELSE {}
<1>1. /\ tip' = x /\ calls' = Without(1) /\ fetching' = Count(fetching, hs)
      /\ UNCHANGED <<catchups, blocks, fresh>> /\ hs \subseteq {x}
  BY DEF PutTip
<1>2. /\ 1 \in 1..Len(calls) /\ ~fresh /\ x \in Heights /\ x \in Int /\ None \notin Heights
      /\ \A i, j \in 1..Len(calls') : i < j => calls'[i].head < calls'[j].head
      /\ \A i \in 1..Len(calls') : x < calls'[i].head /\ calls'[i].head \in Int
  BY <1>1, StillApart, FirstCall, NumbersNext, Numbers DEF HeadInv, Heights
<1> HIDE DEF hs
<1>3. ASSUME NEW h \in Heights
      PROVE  /\ Taken(h) \in Nat /\ Taken(h)' \in Nat
             /\ h # x => Taken(h)' = Taken(h)
             /\ Taken(h)' <= Taken(h) + 1
             /\ Used(h) => h < x
             /\ h \in Int
  <2>1. blocks[h] \in Nat /\ fetching[h] \in Nat /\ h \in Int
    BY TakenNat, Numbers DEF HeadInv
  <2>2. blocks'[h] = blocks[h] /\ fetching'[h] = IF h \in hs THEN fetching[h] + 1 ELSE fetching[h]
    BY <1>1 DEF Count
  <2>3. Used(h) => h < x
    BY <1>2 DEF OnceInv
  <2> QED BY <1>1, <2>1, <2>2, <2>3 DEF Taken
<1>4. Taken(x) = 0 /\ \A c \in catchups : ~Claims(c, x)
  BY <1>2, <1>3 DEF Used
<1>5. \A h \in Heights : Used(h)' => Used(h) \/ h = x
  BY <1>1, <1>3 DEF Used
<1>6. \A h \in Heights : Taken(h)' <= 1
  BY <1>2, <1>3, <1>4 DEF OnceInv
<1>7. \A c \in catchups' : AtFits(c) /\ \A h \in Heights : Claims(c, h) => Taken(h)' = 0
  BY <1>1, <1>3, <1>4 DEF OnceInv
<1>8. \A h \in Heights :
          Used(h)' => tip' # None /\ h <= tip' /\ \A i \in 1..Len(calls') : h < calls'[i].head
  <2> HIDE DEF x
  <2> QED BY <1>1, <1>2, <1>3, <1>5
<1>9. \A c, d \in catchups' : c # d => \A h \in Heights : ~(Claims(c, h) /\ Claims(d, h))
  BY <1>1 DEF OnceInv
<1> QED BY <1>1, <1>2, <1>6, <1>7, <1>8, <1>9 DEF OnceInv

LEMMA PutRangeTipOnce ==
    ASSUME HeadInv, HeadInv', OrderInv, OnceInv, calls # <<>>, PutRangeTip(1)
    PROVE  OnceInv'
<1> DEFINE x == calls[1].head
           c == NewCatchUp("live", x, calls[1].to)
           new == IF calls[1].up THEN Begun(c) ELSE {}
           hs == IF calls[1].up THEN HandedAtOnce(c) ELSE {}
<1>1. /\ calls[1].at = "rangeTip" /\ tip' = x /\ calls' = Without(1)
      /\ UNCHANGED <<blocks, fresh>>
  BY DEF PutRangeTip
<1>2. catchups' = catchups \cup new
  BY DEF PutRangeTip
<1>3. \A h \in Heights : fetching'[h] = IF h \in hs THEN fetching[h] + 1 ELSE fetching[h]
  BY DEF PutRangeTip, Count
<1>4. /\ 1 \in 1..Len(calls) /\ ~fresh /\ x \in Heights /\ x \in Int /\ None \notin Heights
      /\ \A i, j \in 1..Len(calls') : i < j => calls'[i].head < calls'[j].head
      /\ \A i \in 1..Len(calls') : x < calls'[i].head /\ calls'[i].head \in Int
  BY <1>1, StillApart, FirstCall, NumbersNext, Numbers DEF HeadInv, Heights
<1>5. /\ tip # None /\ tip \in Int /\ calls[1].to \in Heights
      /\ x - tip >= 2 /\ tip <= calls[1].to /\ calls[1].to < x
  BY <1>1, FirstCall DEF HeadInv, CallsFit, CallFits
<1>6. /\ \A d \in new : /\ AtFits(d)
                       /\ \A h \in Heights : Claims(d, h) => tip < h /\ h <= x /\ h \notin hs
      /\ \A d, e \in new : d = e
      /\ hs \subseteq {x}
  <2>1. /\ \A d \in Begun(c) :
              /\ AtFits(d)
              /\ \A h \in Heights : Claims(d, h) => tip < h /\ h <= x /\ h \notin HandedAtOnce(c)
        /\ \A d, e \in Begun(c) : d = e
        /\ HandedAtOnce(c) \subseteq {x}
    BY <1>4, <1>5, NewClaims
  <2> HIDE DEF c, x
  <2> QED BY <2>1
<1> HIDE DEF c, new, hs
<1>7. ASSUME NEW h \in Heights
      PROVE  /\ Taken(h) \in Nat /\ Taken(h)' = IF h \in hs THEN Taken(h) + 1 ELSE Taken(h)
             /\ h \in Int
             /\ Used(h) => h <= tip /\ h < x /\ h \notin hs
             /\ \A d \in new : Claims(d, h) => ~Used(h)
  <2>1. blocks[h] \in Nat /\ fetching[h] \in Nat /\ h \in Int
    BY TakenNat, Numbers DEF HeadInv
  <2>2. Taken(h) \in Nat /\ Taken(h)' = IF h \in hs THEN Taken(h) + 1 ELSE Taken(h)
    BY <1>1, <1>3, <2>1 DEF Taken
  <2>3. Used(h) => h <= tip /\ h < x
    BY <1>4 DEF OnceInv
  <2> QED BY <1>4, <1>5, <1>6, <2>1, <2>2, <2>3
<1>8. \A h \in Heights : Used(h)' => Used(h) \/ (tip < h /\ h <= x)
  <2> SUFFICES ASSUME NEW h \in Heights, Used(h)' PROVE Used(h) \/ (tip < h /\ h <= x)
    OBVIOUS
  <2>1. CASE Taken(h)' > 0
    BY <1>4, <1>5, <1>6, <1>7, <2>1 DEF Used
  <2>2. CASE \E d \in catchups' : Claims(d, h)
    BY <1>2, <1>6, <2>2 DEF Used
  <2> QED BY <2>1, <2>2 DEF Used
<1>9. \A h \in Heights : Taken(h)' <= 1
  BY <1>7 DEF OnceInv, Used
<1>10. ASSUME NEW d \in catchups'
       PROVE  AtFits(d) /\ \A h \in Heights : Claims(d, h) => Taken(h)' = 0
  <2>1. CASE d \in catchups
    BY <1>7, <2>1 DEF OnceInv, Used
  <2>2. CASE d \in new
    BY <1>6, <1>7, <2>2 DEF Used
  <2> QED BY <1>2, <2>1, <2>2
<1>11. \A d, e \in catchups' : d # e => \A h \in Heights : ~(Claims(d, h) /\ Claims(e, h))
  BY <1>2, <1>6, <1>7 DEF OnceInv, Used
<1>12. \A h \in Heights :
          Used(h)' => tip' # None /\ h <= tip' /\ \A i \in 1..Len(calls') : h < calls'[i].head
  <2> HIDE DEF x
  <2> QED BY <1>1, <1>4, <1>5, <1>7, <1>8
<1> QED BY <1>1, <1>4, <1>9, <1>10, <1>11, <1>12 DEF OnceInv

LEMMA CallsOnce ==
    ASSUME HeadInv, HeadInv', OrderInv, OnceInv, RunCalls
    PROVE  OnceInv'
<1>1. calls # <<>> /\ (GetTip(1) \/ PutTip(1) \/ PutRange(1) \/ PutRangeTip(1))
  BY FirstCallRuns DEF HeadInv
<1>2. ASSUME GetTip(1) \/ PutRange(1)
      PROVE  OnceInv'
  <2>1. SameHeads
    BY <1>1, <1>2, GetTipGoesOn, PutRangeGoesOn DEF HeadInv
  <2>2. UNCHANGED <<tip, fresh, catchups, blocks, fetching>>
    BY <1>2 DEF GetTip, PutRange, stored
  <2>3. \A h \in Heights : Taken(h)' <= Taken(h)
    BY <2>2, TakenNat DEF Taken, HeadInv
  <2> QED BY <2>1, <2>2, <2>3, OnceFrame DEF HeadInv
<1> QED BY <1>1, <1>2, PutTipOnce, PutRangeTipOnce

\* A head comes: above what was used before, or before anything is used.
LEMMA ArriveOnce ==
    ASSUME HeadInv, OrderInv, OnceInv, NEW n \in Heights, Arrive(n)
    PROVE  OnceInv'
<1> DEFINE k == NewCall(n)
<1>1. /\ calls' = Append(calls, k) /\ fresh' = FALSE /\ k.head = n
      /\ UNCHANGED <<tip, catchups, fetching, blocks>>
  BY DEF Arrive, NewCall, stored
<1> HIDE DEF k
<1>2. /\ Len(calls') = Len(calls) + 1 /\ Len(calls) \in Nat
      /\ \A i \in 1..Len(calls) : calls'[i] = calls[i]
      /\ calls'[Len(calls) + 1].head = n
  BY <1>1, Numbers DEF HeadInv
<1>3. \A i \in 1..Len(calls') : i \in 1..Len(calls) \/ i = Len(calls) + 1
  BY <1>2
<1>4. \A i \in 1..Len(calls) : calls[i].head < n
  <2>1. CASE fresh
    BY <1>2, <2>1 DEF OnceInv
  <2>2. CASE ~fresh
    BY <2>2, Numbers DEF OrderInv, Arrive, HeadInv, Heights
  <2> QED BY <2>1, <2>2
<1>5. ASSUME NEW h \in Heights, Used(h)
      PROVE  h < n
  <2>1. ~fresh /\ tip # None /\ h <= tip
    BY <1>5 DEF OnceInv
  <2>2. tip < n /\ tip \in Int /\ h \in Int /\ n \in Int
    BY <2>1, Numbers DEF OrderInv, Arrive, HeadInv, Heights
  <2> QED BY <2>1, <2>2
<1>6. \A h \in Heights : Taken(h)' = Taken(h) /\ (Used(h)' <=> Used(h))
  BY <1>1 DEF Taken, Used
<1>7. \A h \in Heights :
          Used(h)' => tip' # None /\ h <= tip' /\ \A i \in 1..Len(calls') : h < calls'[i].head
  BY <1>1, <1>2, <1>3, <1>5, <1>6 DEF OnceInv
<1>8. \A i, j \in 1..Len(calls') : i < j => calls'[i].head < calls'[j].head
  <2> SUFFICES ASSUME NEW i \in 1..Len(calls'), NEW j \in 1..Len(calls'), i < j
               PROVE  calls'[i].head < calls'[j].head
    OBVIOUS
  <2>1. i \in 1..Len(calls)
    BY <1>2
  <2>2. CASE j \in 1..Len(calls)
    BY <1>2, <2>1, <2>2 DEF OnceInv
  <2>3. CASE j = Len(calls) + 1
    BY <1>2, <1>4, <2>1, <2>3
  <2> QED BY <1>3, <2>2, <2>3
<1>9. /\ \A h \in Heights : Taken(h)' <= 1
      /\ \A c \in catchups' : AtFits(c) /\ \A h \in Heights : Claims(c, h) => Taken(h)' = 0
      /\ \A c, d \in catchups' : c # d => \A h \in Heights : ~(Claims(c, h) /\ Claims(d, h))
  BY <1>1, <1>6 DEF OnceInv
<1> QED BY <1>1, <1>7, <1>8, <1>9 DEF OnceInv

\* A catch-up goes on: it claims less, by what it hands over, the heights hs.
LEMMA Rework ==
    ASSUME TypeOK, OnceInv, NEW c \in catchups, NEW d, NEW hs,
           catchups' \subseteq (catchups \ {c}) \cup {d},
           d \in catchups' => /\ AtFits(d)
                              /\ \A h \in Heights : Claims(d, h) => Claims(c, h) /\ h \notin hs,
           \A h \in Heights : h \in hs => Claims(c, h),
           \A h \in Heights : Taken(h)' = IF h \in hs THEN Taken(h) + 1 ELSE Taken(h),
           UNCHANGED <<tip, calls, fresh>>
    PROVE  OnceInv'
<1>1. \A h \in Heights : Taken(h) \in Nat /\ (h \in hs => Taken(h) = 0 /\ Taken(h)' = 1)
  BY TakenNat DEF OnceInv
<1>2. \A h \in Heights : Taken(h)' <= 1
  BY <1>1 DEF OnceInv
<1>3. \A h \in Heights : Used(h)' => Used(h)
  BY <1>1 DEF Used
<1>4. ASSUME NEW e \in catchups'
      PROVE  AtFits(e) /\ \A h \in Heights : Claims(e, h) => Taken(h)' = 0
  <2>1. CASE e = d
    BY <1>1, <2>1 DEF OnceInv
  <2>2. CASE e \in catchups \ {c}
    <3>1. \A h \in Heights : Claims(e, h) => h \notin hs
      BY <2>2 DEF OnceInv
    <3> QED BY <1>1, <2>2, <3>1 DEF OnceInv
  <2> QED BY <1>4, <2>1, <2>2
<1>5. ASSUME NEW e \in catchups', NEW f \in catchups', e # f, NEW h \in Heights
      PROVE  ~(Claims(e, h) /\ Claims(f, h))
  <2>1. CASE e \in catchups \ {c} /\ f \in catchups \ {c}
    BY <1>5, <2>1 DEF OnceInv
  <2>2. CASE e = d /\ f \in catchups \ {c}
    BY <2>2 DEF OnceInv
  <2>3. CASE f = d /\ e \in catchups \ {c}
    BY <2>3 DEF OnceInv
  <2> QED BY <1>5, <2>1, <2>2, <2>3
<1>6. \A h \in Heights :
          Used(h)' => tip' # None /\ h <= tip' /\ \A i \in 1..Len(calls') : h < calls'[i].head
  BY <1>3 DEF OnceInv
<1>7. fresh' => Len(calls') = 0 /\ \A h \in Heights : ~Used(h)'
  BY <1>3 DEF OnceInv
<1> QED BY <1>2, <1>4, <1>5, <1>6, <1>7 DEF OnceInv

LEMMA FetchParentOnce ==
    ASSUME HeadInv, OrderInv, OnceInv, NEW c \in catchups, FetchParent(c)
    PROVE  OnceInv'
<1>1. /\ TypeOK /\ CatchUpFits(c) /\ c \in CatchUp /\ c.src = "live" /\ AtFits(c)
      /\ UNCHANGED <<tip, blocks, fresh>>
  BY DEF FetchParent, HeadInv, TypeOK, OrderInv, OnceInv
<1>2. /\ c.at \in Int /\ Target(c) \in Int /\ LastTarget(c) \in Int /\ c.base \in Int
      /\ LastTarget(c) <= Target(c) /\ c.index \in 1..Len(c.targets) /\ Len(c.targets) \in Nat
  BY <1>1, CatchUpNumbers DEF Heights
<1>3. CASE ~ReachesTarget(c)
  <2> DEFINE d == [c EXCEPT !.at = @ - 1]
             hs == {}
  <2>1. catchups' = (catchups \ {c}) \cup {d} /\ UNCHANGED <<calls, fetching>>
    BY <1>3 DEF FetchParent
  <2>2. /\ d.head = c.head /\ d.targets = c.targets /\ d.index = c.index
        /\ d.base = c.base /\ d.at = c.at - 1
    BY <1>1 DEF CatchUp
  <2>3. \A h : h \notin hs
    OBVIOUS
  <2> HIDE DEF d, hs
  <2>4. AtFits(d)
    BY <1>2, <1>3, <2>2 DEF AtFits, ReachesTarget, Target
  <2>5. \A h \in Heights : Claims(d, h) => Claims(c, h) /\ h \notin hs
    BY <2>2, <2>3 DEF Claims, LastTarget, HighestCollected
  <2>6. \A h \in Heights : Taken(h)' = IF h \in hs THEN Taken(h) + 1 ELSE Taken(h)
    BY <1>1, <2>1, <2>3 DEF Taken
  <2>7. catchups' \subseteq (catchups \ {c}) \cup {d} /\ \A h \in Heights : h \in hs => Claims(c, h)
    BY <2>1, <2>3
  <2> QED BY <1>1, <2>1, <2>4, <2>5, <2>6, <2>7, Rework
<1>4. CASE ReachesTarget(c)
  <2> DEFINE low == c.at - 1
             hs == low..HighestCollected(c)
             d == [c EXCEPT !.index = @ + 1, !.base = low, !.at = low]
  <2>1. /\ fetching' = Count(fetching, hs) /\ UNCHANGED calls
        /\ IF InLastBatch(c) THEN catchups' = catchups \ {c}
           ELSE catchups' = (catchups \ {c}) \cup {d}
    BY <1>1, <1>4 DEF FetchParent, EndBatch, HandOver
  <2>2. /\ d.head = c.head /\ d.targets = c.targets /\ d.index = c.index + 1
        /\ d.base = low /\ d.at = low
    BY <1>1 DEF CatchUp
  <2>3. /\ low \in {Target(c), Target(c) + 1} /\ low <= HighestCollected(c)
        /\ HighestCollected(c) \in Int /\ low \in Int /\ hs \subseteq Heights
    BY <1>1, <1>2, <1>4, BatchLemma
  <2>4. /\ low = c.at - 1
        /\ \A h \in Int : h \in hs <=> low <= h /\ h <= HighestCollected(c)
    BY <2>3
  <2> HIDE DEF low, hs, d
  <2>5. low = Target(c) + 1
    BY <1>1, <1>2, <1>4, <2>4 DEF AtFits, ReachesTarget
  <2>6. \A h \in Heights : h \in Int
    BY DEF Heights
  <2>7. \A h \in Heights : h \in hs => Claims(c, h)
    BY <1>2, <2>3, <2>4, <2>5, <2>6 DEF Claims
  <2>8. ASSUME ~InLastBatch(c)
        PROVE  /\ AtFits(d)
               /\ \A h \in Heights : Claims(d, h) => Claims(c, h) /\ h \notin hs
    <3>1. LastTarget(d) = LastTarget(c)
      BY <2>2 DEF LastTarget
    <3>2. Target(d) < Target(c) /\ Target(d) \in Int
      <4>1. c.index + 1 \in 1..Len(c.targets)
        BY <1>2, <2>8 DEF InLastBatch
      <4>2. c.targets \in Seq(Heights)
        BY <1>1 DEF CatchUp
      <4>3. c.targets[c.index + 1] \in Heights
        BY <4>1, <4>2
      <4> QED BY <1>1, <1>2, <2>2, <4>1, <4>3 DEF CatchUpFits, Target, Heights
    <3>3. AtFits(d)
      BY <1>2, <2>2, <2>5, <3>2 DEF AtFits
    <3>4. HighestCollected(d) = low - 1
      BY <1>2, <2>2 DEF HighestCollected
    <3>5. \A h \in Heights : Claims(d, h) => Claims(c, h) /\ h \notin hs
      BY <2>3, <2>4, <2>6, <3>1, <3>4 DEF Claims
    <3> QED BY <3>3, <3>5
  <2>9. \A h \in Heights : Taken(h)' = IF h \in hs THEN Taken(h) + 1 ELSE Taken(h)
    <3>1. \A h \in Heights : fetching'[h] = IF h \in hs THEN fetching[h] + 1 ELSE fetching[h]
      BY <2>1 DEF Count
    <3>2. \A h \in Heights : blocks[h] \in Nat /\ fetching[h] \in Nat
      BY <1>1, TakenNat
    <3> QED BY <1>1, <3>1, <3>2 DEF Taken
  <2>10. CASE InLastBatch(c)
    <3>1. catchups' \subseteq (catchups \ {c}) \cup {c} /\ c \notin catchups'
      BY <2>1, <2>10
    <3> QED BY <1>1, <2>1, <2>7, <2>9, <3>1, Rework
  <2>11. CASE ~InLastBatch(c)
    <3>1. catchups' \subseteq (catchups \ {c}) \cup {d}
      BY <2>1, <2>11
    <3> QED BY <1>1, <2>1, <2>7, <2>8, <2>9, <2>11, <3>1, Rework
  <2> QED BY <2>10, <2>11
<1> QED BY <1>3, <1>4

\* Downloads end; the requests that fail are of headers, ranges and given up blocks.
LEMMA DownloadsOnce ==
    ASSUME HeadInv, HeadInv', OnceInv,
           \/ RunFetch
           \/ \E c \in catchups : HeaderError(c)
           \/ \E r \in recovering : RecoverError(r)
           \/ \E h \in Heights : GiveUpBlock(h)
           \/ UNCHANGED vars
    PROVE  OnceInv'
<1>1. \A h \in Heights : blocks[h] \in Nat /\ fetching[h] \in Nat
  BY TakenNat DEF HeadInv
<1>2. /\ fetching \in [Heights -> Nat] /\ blocks \in [Heights -> Nat] /\ TypeOK /\ TypeOK'
  BY DEF HeadInv, TypeOK
<1>3. /\ UNCHANGED <<tip, fresh, calls>> /\ catchups' \subseteq catchups
      /\ \A h \in Heights : Taken(h)' <= Taken(h)
  <2>1. CASE RunFetch
    <3>1. PICK h \in Heights : FetchBlock(h)
      BY <2>1 DEF RunFetch
    <3>2. ASSUME NEW g \in Heights PROVE Taken(g)' = Taken(g)
      BY <1>1, <1>2, <3>1 DEF FetchBlock, Taken
    <3> QED BY <1>1, <3>1, <3>2 DEF FetchBlock, stored, Taken
  <2>2. CASE \E h \in Heights : GiveUpBlock(h)
    <3>1. PICK h \in Heights : GiveUpBlock(h)
      BY <2>2
    <3>2. ASSUME NEW g \in Heights PROVE Taken(g)' <= Taken(g)
      BY <1>1, <1>2, <3>1 DEF GiveUpBlock, Taken
    <3> QED BY <3>1, <3>2 DEF GiveUpBlock, stored
  <2>3. CASE \/ \E c \in catchups : HeaderError(c)
             \/ \E r \in recovering : RecoverError(r)
             \/ UNCHANGED vars
    <3>1. UNCHANGED <<tip, fresh, calls, blocks, fetching>> /\ catchups' \subseteq catchups
      BY <2>3 DEF HeaderError, RecoverError, vars, stored
    <3> QED BY <1>1, <3>1 DEF Taken
  <2> QED BY <2>1, <2>2, <2>3
<1> QED BY <1>2, <1>3, OnceFrame DEF SameHeads

LEMMA StepsOnce ==
    ASSUME HeadInv, HeadInv', OrderInv, OnceInv, [Next]_vars, crashes = 0, crashes' = 0,
           MaxInterrupts = 0
    PROVE  OnceInv' /\ resolved' = {}
<1>1. recovering = {} /\ interrupts = 0
  BY DEF HeadInv, TypeOK, OrderInv
<1>2. ~Interrupt /\ ~SourceError /\ ~Crash /\ \A h \in Heights : ~BlockError(h)
  BY <1>1 DEF Interrupt, SourceError, Crash, BlockError, Resubscribe
<1>3. resolved' = {}
  BY <1>2 DEF OrderInv, Next, RunCalls, GetTip, PutTip, PutRange, PutRangeTip, RunCatchUps,
     FetchParent, RunRecovery, RecoverRange, RunFetch, FetchBlock, Fail, HeaderError,
     RecoverError, GiveUpBlock, Arrive, vars
<1>4. \/ \E h \in Heights : Arrive(h)
      \/ RunCalls \/ RunCatchUps
      \/ RunFetch
      \/ \E c \in catchups : HeaderError(c)
      \/ \E r \in recovering : RecoverError(r)
      \/ \E h \in Heights : GiveUpBlock(h)
      \/ UNCHANGED vars
  BY <1>1, <1>2 DEF Next, Fail, RunRecovery
<1> QED BY <1>3, <1>4, ArriveOnce, CallsOnce, FetchParentOnce, DownloadsOnce DEF RunCatchUps

LEMMA OnceInit == Init => OnceInv
<1> SUFFICES ASSUME Init PROVE OnceInv
  OBVIOUS
<1>1. /\ Len(calls) = 0 /\ catchups = {}
      /\ \A h \in Heights : blocks[h] = 0 /\ fetching[h] = 0
  BY DEF Init
<1>2. \A h \in Heights : Taken(h) = 0 /\ ~Used(h)
  BY <1>1 DEF Taken, Used
<1> QED BY <1>1, <1>2 DEF OnceInv

\* One subscription of the pipe, in a process that does not die, delivers no block twice:
\* whatever requests fail, and whatever heads arrive while gaps are being caught up, no two
\* catch-ups hand over the same height, nor one that came as a head (BlocksOnce;
\* head-catcher.ts:264-448).
THEOREM BlocksAreOnce ==
    ASSUME MaxInterrupts = 0
    PROVE  Spec => []BlocksOnce
<1> DEFINE I == crashes = 0 => OrderInv /\ OnceInv
<1>1. Init => I
  BY OrderInit, OnceInit
<1>2. HeadInv /\ HeadInv' /\ I /\ [Next]_vars => I'
  <2> SUFFICES ASSUME HeadInv, HeadInv', I, [Next]_vars, crashes' = 0
               PROVE  OrderInv' /\ OnceInv'
    OBVIOUS
  <2>1. crashes = 0
    <3>1. CASE Crash
      BY <3>1 DEF Crash, HeadInv, TypeOK
    <3>2. CASE \E h \in Heights : Arrive(h)
      BY <3>2 DEF Arrive, bounds
    <3>3. CASE RunCalls
      BY <3>3 DEF RunCalls, GetTip, PutTip, PutRange, PutRangeTip, bounds
    <3>4. CASE RunCatchUps \/ RunRecovery \/ RunFetch
      BY <3>4 DEF RunCatchUps, FetchParent, RunRecovery, RecoverRange, RunFetch, FetchBlock, bounds
    <3>5. CASE Fail /\ ~Crash
      BY <3>5 DEF Fail, HeaderError, RecoverError, GiveUpBlock, BlockError, Interrupt,
         Resubscribe, SourceError
    <3>6. CASE UNCHANGED vars
      BY <3>6 DEF vars, bounds
    <3> QED BY <3>1, <3>2, <3>3, <3>4, <3>5, <3>6 DEF Next
  <2>2. OnceInv' /\ resolved' = {}
    BY <2>1, StepsOnce
  <2> QED BY <2>1, <2>2, StepsInOrder
<1>3. HeadInv /\ I => BlocksOnce
  <2> SUFFICES ASSUME HeadInv, OnceInv PROVE \A h \in Heights : blocks[h] <= 1
    BY DEF BlocksOnce
  <2>1. \A h \in Heights : Taken(h) <= 1 /\ blocks[h] \in Nat /\ fetching[h] \in Nat
    BY TakenNat DEF OnceInv, HeadInv
  <2> QED BY <2>1 DEF Taken
<1> QED BY <1>1, <1>2, <1>3, HeadInit, HeadInductive, PTL DEF Spec
=============================================================================
