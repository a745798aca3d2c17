---------------------------- MODULE WebhookProofs ----------------------------
(***************************************************************************)
(* Proofs about Webhook, for any messages, webhooks and lists of channels,  *)
(* any number of failing posts and of faults.                              *)
(***************************************************************************)
EXTENDS Webhook, FiniteSetTheorems, SequenceTheorems, WellFoundedInduction, TLAPS

(* Operators *)

\* A set of naturals has a least element.
LEMMA Least ==
    ASSUME NEW I \in SUBSET Nat, I # {}
    PROVE  \E i \in I : \A k \in I : i <= k
<1>1. PICK x \in I : \A y \in I : ~(<<y, x>> \in OpToRel(<, Nat))
  BY NatLessThanWellFounded, WFMin, ZenonT(60)
<1>2. \A y \in I : x <= y
  <2> SUFFICES ASSUME NEW y \in I PROVE ~(y < x)
    OBVIOUS
  <2>1. y < x => <<y, x>> \in OpToRel(<, Nat)
    BY DEF OpToRel
  <2> QED BY <1>1, <2>1
<1> QED BY <1>2

\* No webhook is twice in a list.
NoRepeat(s) == \A i, k \in DOMAIN s : s[i] = s[k] /\ s[i] \in Webhooks => i = k

\* What From leaves: the channels from the first accepted one on, all the accepted
\* ones among them.
LEMMA FromLemma ==
    ASSUME NEW m \in Messages, NEW X, NEW s \in Seq(X)
    PROVE  /\ From(m, s) \in Seq(X)
           /\ ToSet(From(m, s)) \cap Accepted[m] = ToSet(s) \cap Accepted[m]
           /\ From(m, s) # <<>> => Head(From(m, s)) \in Accepted[m]
           /\ NoRepeat(s) => NoRepeat(From(m, s))
<1> DEFINE I == {i \in 1..Len(s) : s[i] \in Accepted[m]}
           i == IF I # {} THEN Min(I) ELSE 0
<1>1. Len(s) \in Nat /\ \A k \in 1..Len(s) : s[k] \in X
  OBVIOUS
<1>2. From(m, s) = IF i = 0 THEN <<>> ELSE SubSeq(s, i, Len(s))
  BY DEF From, SelectInSeq
<1>3. CASE I = {}
  <2>1. From(m, s) = <<>>
    BY <1>2, <1>3
  <2> QED BY <1>1, <1>3, <2>1 DEF ToSet, NoRepeat
<1>4. CASE I # {}
  <2>1. i \in I /\ \A k \in I : i <= k
    <3>1. I \in SUBSET Nat
      OBVIOUS
    <3>2. \E x \in I : \A k \in I : x <= k
      BY <1>4, <3>1, Least
    <3>3. i = CHOOSE x \in I : \A k \in I : x <= k
      BY <1>4 DEF Min
    <3> HIDE DEF i, I
    <3> QED BY <3>2, <3>3
  <2> DEFINE r == SubSeq(s, i, Len(s))
  <2>2. /\ i \in 1..Len(s) /\ s[i] \in Accepted[m]
        /\ \A k \in 1..Len(s) : s[k] \in Accepted[m] => i <= k
    BY <2>1
  <2> HIDE DEF i, I
  <2>3. /\ r \in Seq(X) /\ Len(r) = Len(s) - i + 1 /\ Len(r) >= 1
        /\ \A k \in 1..Len(r) : r[k] = s[i + k - 1] /\ i + k - 1 \in 1..Len(s)
    BY <1>1, <2>2, SubSeqProperties
  <2>4. Head(r) = s[i]
    BY <1>1, <2>2, <2>3
  <2>5. ASSUME NEW c \in ToSet(s) \cap Accepted[m] PROVE c \in ToSet(r)
    <3>1. PICK k \in 1..Len(s) : s[k] = c
      BY <2>5 DEF ToSet
    <3>2. i <= k
      BY <2>2, <2>5, <3>1
    <3>3. k - i + 1 \in 1..Len(r) /\ i + (k - i + 1) - 1 = k
      BY <1>1, <2>2, <2>3, <3>2
    <3> QED BY <2>3, <3>1, <3>3 DEF ToSet
  <2>6. ToSet(r) \subseteq ToSet(s)
    BY <2>3 DEF ToSet
  <2>7. From(m, s) = r
    BY <1>2, <2>2
  <2> HIDE DEF r
  <2>8. ASSUME NoRepeat(s) PROVE NoRepeat(r)
    <3> SUFFICES ASSUME NEW k \in 1..Len(r), NEW l \in 1..Len(r),
                        r[k] = r[l], r[k] \in Webhooks
                 PROVE  k = l
      BY <2>3 DEF NoRepeat
    <3>1. /\ s[i + k - 1] = s[i + l - 1] /\ s[i + k - 1] \in Webhooks
          /\ i + k - 1 \in 1..Len(s) /\ i + l - 1 \in 1..Len(s)
      BY <2>3
    <3>2. i + k - 1 = i + l - 1
      BY <1>1, <2>8, <3>1 DEF NoRepeat
    <3> QED BY <1>1, <2>2, <2>3, <3>2
  <2> QED BY <2>2, <2>3, <2>4, <2>5, <2>6, <2>7, <2>8
<1> QED BY <1>3, <1>4
----------------------------------------------------------------------------
(* Bags *)

\* The copies in the bag B of elements of S, and their number.
CopySet(B, S) == UNION {{j} \X (1..B[j]) : j \in S \cap DOMAIN B}
CountIn(B, S) == Cardinality(CopySet(B, S))

FiniteBag(B) ==
    /\ B \in [DOMAIN B -> Nat \ {0}]
    /\ IsFiniteSet(CopySet(B, DOMAIN B))

LEMMA CountsAreFinite ==
    ASSUME NEW B, FiniteBag(B), NEW S
    PROVE  IsFiniteSet(CopySet(B, S)) /\ CountIn(B, S) \in Nat
<1>1. CopySet(B, S) \subseteq CopySet(B, DOMAIN B)
  BY DEF CopySet
<1>2. IsFiniteSet(CopySet(B, S))
  BY <1>1, FS_Subset DEF FiniteBag
<1> QED BY <1>2, FS_CardinalityType DEF CountIn

\* A copy is a pair of an element and its number.
LEMMA CopyLemma ==
    ASSUME NEW B, NEW S, NEW p
    PROVE  p \in CopySet(B, S) <=>
              p = <<p[1], p[2]>> /\ p[1] \in S /\ p[1] \in DOMAIN B /\ p[2] \in 1..B[p[1]]
BY DEF CopySet

\* There are none exactly when no element of S is in the bag.
LEMMA NoCopies ==
    ASSUME NEW B, FiniteBag(B), NEW S
    PROVE  CountIn(B, S) = 0 <=> S \cap DOMAIN B = {}
<1>1. IsFiniteSet(CopySet(B, S))
  BY CountsAreFinite
<1>2. CountIn(B, S) = 0 <=> CopySet(B, S) = {}
  BY <1>1, FS_EmptySet DEF CountIn
<1>3. ASSUME NEW j \in S \cap DOMAIN B PROVE <<j, 1>> \in CopySet(B, S)
  BY CopyLemma DEF FiniteBag
<1>4. S \cap DOMAIN B = {} => CopySet(B, S) = {}
  BY DEF CopySet
<1> QED BY <1>2, <1>3, <1>4

LEMMA PlusDomain ==
    ASSUME NEW B, NEW k
    PROVE  DOMAIN (B (+) SetToBag({k})) = DOMAIN B \cup {k}
BY DEF (+), SetToBag

\* One element more.
LEMMA BagPlus ==
    ASSUME NEW B, FiniteBag(B), NEW k, NEW C, C = B (+) SetToBag({k}), NEW S
    PROVE  /\ FiniteBag(C)
           /\ k \in S => CountIn(C, S) = CountIn(B, S) + 1
           /\ k \notin S => CountIn(C, S) = CountIn(B, S)
<1> DEFINE n == IF k \in DOMAIN B THEN B[k] + 1 ELSE 1
<1>1. /\ DOMAIN C = DOMAIN B \cup {k} /\ C[k] = n
      /\ \A e \in DOMAIN B : e # k => C[e] = B[e]
      /\ C = [e \in DOMAIN B \cup {k} |-> C[e]]
  BY DEF (+), SetToBag, FiniteBag
<1>2. n \in Nat \ {0} /\ \A e \in DOMAIN B : B[e] \in Nat \ {0}
  BY DEF FiniteBag
<1>3. k \in DOMAIN B => 1..n = 1..B[k] \cup {n} /\ n \notin 1..B[k]
  BY <1>2
<1>4. k \notin DOMAIN B => 1..n = {1} /\ n = 1
  OBVIOUS
<1> HIDE DEF n
<1>5. C \in [DOMAIN C -> Nat \ {0}]
  BY <1>1, <1>2
<1>6. ASSUME NEW T, k \in T
      PROVE  CopySet(C, T) = CopySet(B, T) \cup {<<k, n>>} /\ <<k, n>> \notin CopySet(B, T)
  <2>1. ASSUME NEW p PROVE p \in CopySet(C, T) <=> p \in CopySet(B, T) \/ p = <<k, n>>
    <3>1. p \in CopySet(C, T) <=>
             p = <<p[1], p[2]>> /\ p[1] \in T /\ p[1] \in DOMAIN C /\ p[2] \in 1..C[p[1]]
      BY CopyLemma
    <3>2. p \in CopySet(B, T) <=>
             p = <<p[1], p[2]>> /\ p[1] \in T /\ p[1] \in DOMAIN B /\ p[2] \in 1..B[p[1]]
      BY CopyLemma
    <3>3. CASE p[1] = k
      BY <1>1, <1>2, <1>3, <1>4, <1>6, <3>1, <3>2, <3>3
    <3>4. CASE p[1] # k
      BY <1>1, <3>1, <3>2, <3>4
    <3> QED BY <3>3, <3>4
  <2>2. <<k, n>> \notin CopySet(B, T)
    BY <1>3, CopyLemma
  <2> QED BY <2>1, <2>2
<1>7. ASSUME k \notin S PROVE CopySet(C, S) = CopySet(B, S)
  BY <1>1, <1>7 DEF CopySet
<1>8. IsFiniteSet(CopySet(C, DOMAIN C))
  <2>1. CopySet(B, DOMAIN C) = CopySet(B, DOMAIN B)
    BY <1>1 DEF CopySet
  <2>2. CopySet(C, DOMAIN C) = CopySet(B, DOMAIN B) \cup {<<k, n>>}
    BY <1>1, <1>6, <2>1
  <2> QED BY <2>2, FS_AddElement DEF FiniteBag
<1>9. /\ k \in S => CountIn(C, S) = CountIn(B, S) + 1
      /\ k \notin S => CountIn(C, S) = CountIn(B, S)
  <2>1. IsFiniteSet(CopySet(B, S)) /\ CountIn(B, S) \in Nat
    BY CountsAreFinite
  <2>2. CASE k \in S
    BY <1>6, <2>1, <2>2, FS_AddElement DEF CountIn
  <2>3. CASE k \notin S
    BY <1>7, <2>1, <2>3 DEF CountIn
  <2> QED BY <2>2, <2>3
<1> QED BY <1>1, <1>5, <1>8, <1>9 DEF FiniteBag

LEMMA MinusDomain ==
    ASSUME NEW B, FiniteBag(B), NEW j \in DOMAIN B, NEW C, C = B (-) SetToBag({j})
    PROVE  DOMAIN B \ {j} \subseteq DOMAIN C /\ DOMAIN C \subseteq DOMAIN B
<1>1. \A e \in DOMAIN B : B[e] \in Nat \ {0} /\ B[e] > 0
  BY DEF FiniteBag
<1> QED BY <1>1 DEF (-), SetToBag

\* One element less.
LEMMA BagMinus ==
    ASSUME NEW B, FiniteBag(B), NEW j \in DOMAIN B, NEW C, C = B (-) SetToBag({j}), NEW S
    PROVE  /\ FiniteBag(C)
           /\ j \in S => CountIn(C, S) = CountIn(B, S) - 1
           /\ j \notin S => CountIn(C, S) = CountIn(B, S)
<1> DEFINE n == B[j]
           D == IF n = 1 THEN DOMAIN B \ {j} ELSE DOMAIN B
<1>1. \A e \in DOMAIN B : B[e] \in Nat \ {0} /\ B[e] > 0
  BY DEF FiniteBag
<1>2. /\ DOMAIN C = D
      /\ \A e \in D : C[e] = IF e = j THEN n - 1 ELSE B[e]
      /\ C = [e \in D |-> C[e]]
  BY <1>1 DEF (-), SetToBag
<1>3. n \in Nat \ {0} /\ (n # 1 => n - 1 \in Nat \ {0})
  BY <1>1
<1>4. C \in [DOMAIN C -> Nat \ {0}]
  BY <1>1, <1>2, <1>3
<1>5. 1..(n - 1) = 1..n \ {n} /\ n \in 1..n /\ (n = 1 => 1..(n - 1) = {})
  BY <1>3
<1>10. /\ j \in DOMAIN C <=> n # 1
       /\ j \in DOMAIN C => C[j] = n - 1
       /\ \A e : e # j => (e \in DOMAIN C <=> e \in DOMAIN B)
       /\ \A e \in DOMAIN C : e # j => C[e] = B[e]
       /\ DOMAIN B \ {j} \subseteq DOMAIN C /\ DOMAIN C \subseteq DOMAIN B
  BY <1>2
<1> HIDE DEF n, D
<1>6. ASSUME NEW T, j \in T
      PROVE  CopySet(C, T) = CopySet(B, T) \ {<<j, n>>} /\ <<j, n>> \in CopySet(B, T)
  <2>1. ASSUME NEW p PROVE p \in CopySet(C, T) <=> p \in CopySet(B, T) /\ p # <<j, n>>
    <3>1. p \in CopySet(C, T) <=>
             p = <<p[1], p[2]>> /\ p[1] \in T /\ p[1] \in DOMAIN C /\ p[2] \in 1..C[p[1]]
      BY CopyLemma
    <3>2. p \in CopySet(B, T) <=>
             p = <<p[1], p[2]>> /\ p[1] \in T /\ p[1] \in DOMAIN B /\ p[2] \in 1..B[p[1]]
      BY CopyLemma
    <3>3. CASE p[1] = j
      <4>1. n = B[j]
        BY DEF n
      <4>2. p[1] \in DOMAIN B /\ p[1] \in T /\ 1..B[p[1]] = 1..n
        BY <1>6, <3>3, <4>1
      <4>3. p \in CopySet(C, T) <=> p = <<j, p[2]>> /\ n # 1 /\ p[2] \in 1..(n - 1)
        BY <1>10, <3>1, <3>3, <4>2
      <4>4. p \in CopySet(B, T) <=> p = <<j, p[2]>> /\ p[2] \in 1..n
        BY <3>2, <3>3, <4>2
      <4> QED BY <1>3, <1>5, <4>3, <4>4
    <3>4. CASE p[1] # j
      <4>1. p[1] \in DOMAIN C <=> p[1] \in DOMAIN B
        BY <1>10, <3>4
      <4>2. p[1] \in DOMAIN C => C[p[1]] = B[p[1]]
        BY <1>10, <3>4
      <4>3. p # <<j, n>>
        BY <3>4
      <4> QED BY <3>1, <3>2, <4>1, <4>2, <4>3
    <3> QED BY <3>3, <3>4
  <2>2. <<j, n>> \in CopySet(B, T)
    BY <1>5, <1>6, CopyLemma DEF n
  <2> QED BY <2>1, <2>2
<1>7. ASSUME j \notin S PROVE CopySet(C, S) = CopySet(B, S)
  <2>1. S \cap DOMAIN C = S \cap DOMAIN B
    BY <1>7, <1>10
  <2>2. \A e \in S \cap DOMAIN B : C[e] = B[e]
    BY <1>7, <1>10, <2>1
  <2> QED BY <2>1, <2>2 DEF CopySet
<1>8. IsFiniteSet(CopySet(C, DOMAIN C))
  <2>1. CopySet(C, DOMAIN C) \subseteq CopySet(B, DOMAIN B)
    <3>1. CopySet(C, DOMAIN C) \subseteq CopySet(C, DOMAIN B)
      BY <1>10 DEF CopySet
    <3> QED BY <1>6, <3>1
  <2> QED BY <2>1, FS_Subset DEF FiniteBag
<1>9. /\ j \in S => CountIn(C, S) = CountIn(B, S) - 1
      /\ j \notin S => CountIn(C, S) = CountIn(B, S)
  <2>1. IsFiniteSet(CopySet(B, S)) /\ CountIn(B, S) \in Nat
    BY CountsAreFinite
  <2>2. CASE j \in S
    BY <1>6, <2>1, <2>2, FS_RemoveElement DEF CountIn
  <2>3. CASE j \notin S
    BY <1>7, <2>1, <2>3 DEF CountIn
  <2> QED BY <2>2, <2>3
<1> QED BY <1>4, <1>8, <1>9, <1>10 DEF FiniteBag

\* Nothing more.
LEMMA BagPlusNone ==
    ASSUME NEW B, FiniteBag(B)
    PROVE  B (+) SetToBag({}) = B
<1>1. \A e \in DOMAIN B : B[e] \in Nat /\ B[e] + 0 = B[e]
  BY DEF FiniteBag
<1>2. B (+) SetToBag({}) = [e \in DOMAIN B |-> B[e] + 0]
  BY DEF (+), SetToBag
<1> QED BY <1>1, <1>2 DEF FiniteBag

\* One element for at most one other: what Becomes does to the dispatches.
LEMMA BagReplace ==
    ASSUME NEW B, FiniteBag(B), NEW j \in DOMAIN B, NEW K,
           K = {} \/ \E k : K = {k},
           NEW C, C = (B (-) SetToBag({j})) (+) SetToBag(K), NEW S
    PROVE  /\ FiniteBag(C)
           /\ CountIn(C, S) = CountIn(B, S) - (IF j \in S THEN 1 ELSE 0)
                                            + (IF K \cap S # {} THEN 1 ELSE 0)
<1> DEFINE A == B (-) SetToBag({j})
<1>1. /\ FiniteBag(A)
      /\ j \in S => CountIn(A, S) = CountIn(B, S) - 1
      /\ j \notin S => CountIn(A, S) = CountIn(B, S)
  BY BagMinus
<1>2. CountIn(A, S) \in Nat /\ CountIn(B, S) \in Nat
  BY <1>1, CountsAreFinite
<1>3. C = A (+) SetToBag(K)
  BY DEF A
<1> HIDE DEF A
<1>4. CASE K = {}
  <2>1. C = A
    BY <1>1, <1>3, <1>4, BagPlusNone
  <2>2. FiniteBag(C)
    BY <1>1, <2>1
  <2>3. CountIn(C, S) = CountIn(B, S) - (IF j \in S THEN 1 ELSE 0) + 0
    BY <1>1, <1>2, <2>1
  <2>4. K \cap S = {}
    BY <1>4
  <2> QED BY <1>4, <2>2, <2>3, <2>4
<1>5. CASE \E k : K = {k}
  <2>1. PICK k : K = {k}
    BY <1>5
  <2>2. C = A (+) SetToBag({k})
    BY <1>3, <2>1
  <2>3. /\ FiniteBag(C)
        /\ k \in S => CountIn(C, S) = CountIn(A, S) + 1
        /\ k \notin S => CountIn(C, S) = CountIn(A, S)
    BY <1>1, <2>2, BagPlus
  <2>4. (K \cap S # {}) <=> k \in S
    BY <2>1
  <2>5. CountIn(C, S) = CountIn(B, S) - (IF j \in S THEN 1 ELSE 0)
                                      + (IF k \in S THEN 1 ELSE 0)
    BY <1>1, <1>2, <2>3
  <2> QED BY <2>3, <2>4, <2>5
<1> QED BY <1>4, <1>5

LEMMA ReplaceFinite ==
    ASSUME NEW B, FiniteBag(B), NEW j \in DOMAIN B, NEW K,
           K = {} \/ \E k : K = {k},
           NEW C, C = (B (-) SetToBag({j})) (+) SetToBag(K)
    PROVE  FiniteBag(C)
<1>1. /\ FiniteBag(C)
      /\ CountIn(C, {}) = CountIn(B, {}) - (IF j \in {} THEN 1 ELSE 0)
                                          + (IF K \cap {} # {} THEN 1 ELSE 0)
  BY BagReplace
<1> QED BY <1>1

LEMMA PlusFinite ==
    ASSUME NEW B, FiniteBag(B), NEW k
    PROVE  FiniteBag(B (+) SetToBag({k}))
<1> DEFINE C == B (+) SetToBag({k})
<1>1. FiniteBag(C) /\ (k \in {} => CountIn(C, {}) = CountIn(B, {}) + 1)
  BY BagPlus
<1> QED BY <1>1

LEMMA ReplaceDomain ==
    ASSUME NEW B, FiniteBag(B), NEW j \in DOMAIN B, NEW K,
           NEW C, C = (B (-) SetToBag({j})) (+) SetToBag(K)
    PROVE  /\ DOMAIN C \subseteq DOMAIN B \cup K
           /\ DOMAIN B \ {j} \subseteq DOMAIN C /\ K \subseteq DOMAIN C
<1> DEFINE A == B (-) SetToBag({j})
<1>1. DOMAIN B \ {j} \subseteq DOMAIN A /\ DOMAIN A \subseteq DOMAIN B
  BY MinusDomain
<1>2. C = A (+) SetToBag(K)
  BY DEF A
<1> HIDE DEF A
<1>3. DOMAIN C = DOMAIN A \cup K
  BY <1>2 DEF (+), SetToBag
<1> QED BY <1>1, <1>3
----------------------------------------------------------------------------
(* The inductive invariant *)

\* The dispatches still to come have their ids; one that posts has an endpoint to
\* post to.
JobFits(j) ==
    /\ j \in Job
    /\ j.id[2] + j.more <= MaxHooks
    /\ j.at = "post" => j.left # <<>> /\ Head(j.left) \in Accepted[MessageOf(j.id)]
    /\ NoRepeat(j.left)

WebhookInv ==
    /\ TypeOK
    /\ FiniteBag(jobs) /\ \A j \in DOMAIN jobs : JobFits(j)
    /\ emitted # None => due[emitted] > 0
    /\ crashes <= faults

\* The parts of a dispatch.
LEMMA JobParts ==
    ASSUME NEW j \in Job
    PROVE  /\ j.id \in Id /\ j.id[1] \in Messages /\ MessageOf(j.id) = j.id[1]
           /\ j.id[2] \in Nat /\ j.id[2] \in 1..MaxHooks /\ j.id = <<j.id[1], j.id[2]>>
           /\ j.left \in Seq(Webhooks \cup OtherChannels)
           /\ j.more \in Nat /\ j.more \in 0..MaxHooks /\ j.failed \in BOOLEAN
           /\ j.at \in {"load", "post", "schedule"}
           /\ j = [id |-> j.id, at |-> j.at, left |-> j.left, more |-> j.more,
                   failed |-> j.failed]
BY WebhookAssumption DEF Job, Id, MessageOf

\* A new dispatch.
LEMMA LoadFits ==
    ASSUME NEW id \in Id, NEW more \in Nat, id[2] + more <= MaxHooks
    PROVE  JobFits(Load(id, more))
<1> DEFINE e == <<>>
<1>1. e \in Seq(Webhooks \cup OtherChannels) /\ DOMAIN e = {}
  OBVIOUS
<1>2. Load(id, more) = [at |-> "load", id |-> id, left |-> e, more |-> more, failed |-> FALSE]
  BY DEF Load
<1> HIDE DEF e
<1>3. id[2] \in 1..MaxHooks /\ more \in 0..MaxHooks
  BY WebhookAssumption DEF Id
<1>4. Load(id, more) \in Job
  BY <1>1, <1>2, <1>3 DEF Job
<1> QED BY <1>1, <1>2, <1>4 DEF JobFits, NoRepeat

\* What a dispatch goes on to: its next post, the next dispatch, or nothing.
NextPost(j, k) ==
    /\ k.id = j.id /\ k.more = j.more /\ k.failed = j.failed /\ k.at = "post"
    /\ k.left = From(MessageOf(j.id), j.left)
NextLoad(j, k) == j.more > 0 /\ k = Load(<<j.id[1], j.id[2] + 1>>, j.more - 1)
NextDispatch(j, k) == From(MessageOf(j.id), j.left) = <<>> /\ NextLoad(j, k)

LEMMA GoesOnLemma ==
    ASSUME NEW j \in Job, j.id[2] + j.more <= MaxHooks, NoRepeat(j.left)
    PROVE  /\ GoesOn(j) = {} => From(MessageOf(j.id), j.left) = <<>> /\ j.more = 0
           /\ GoesOn(j) = {} \/ \E k : GoesOn(j) = {k}
           /\ \A k \in GoesOn(j) : JobFits(k) /\ (NextPost(j, k) \/ NextDispatch(j, k))
<1> DEFINE left == From(MessageOf(j.id), j.left)
<1>1. /\ left \in Seq(Webhooks \cup OtherChannels) /\ NoRepeat(left)
      /\ left # <<>> => Head(left) \in Accepted[MessageOf(j.id)]
  BY JobParts, FromLemma
<1>2. GoesOn(j) = IF left # <<>> THEN {[j EXCEPT !.at = "post", !.left = left]}
                  ELSE IF j.more > 0 THEN {Load(<<j.id[1], j.id[2] + 1>>, j.more - 1)}
                  ELSE {}
  BY DEF GoesOn
<1>3. CASE left # <<>>
  <2> DEFINE k == [j EXCEPT !.at = "post", !.left = left]
  <2>1. GoesOn(j) = {k}
    BY <1>2, <1>3
  <2> HIDE DEF left
  <2>2. /\ k \in Job /\ k.id = j.id /\ k.more = j.more /\ k.failed = j.failed
        /\ k.at = "post" /\ k.left = left
    BY <1>1 DEF Job
  <2> HIDE DEF k
  <2>3. JobFits(k) /\ NextPost(j, k)
    BY <1>1, <1>3, <2>2 DEF JobFits, NextPost, left
  <2> QED BY <2>1, <2>3
<1>4. CASE left = <<>> /\ j.more > 0
  <2> DEFINE i == <<j.id[1], j.id[2] + 1>>
             k == Load(i, j.more - 1)
  <2>1. GoesOn(j) = {k}
    BY <1>2, <1>4
  <2>2. /\ j.id[1] \in Messages /\ j.id[2] \in Nat /\ j.more \in Nat /\ MaxHooks \in Nat
    BY JobParts, WebhookAssumption
  <2>3. i \in Id /\ i[2] + (j.more - 1) <= MaxHooks /\ j.more - 1 \in Nat
    BY <1>4, <2>2 DEF Id
  <2> HIDE DEF i
  <2>4. JobFits(k)
    BY <2>3, LoadFits
  <2>5. NextDispatch(j, k)
    BY <1>4 DEF NextDispatch, NextLoad, i
  <2> HIDE DEF k
  <2> QED BY <2>1, <2>4, <2>5
<1>5. CASE left = <<>> /\ ~(j.more > 0)
  <2>1. GoesOn(j) = {} /\ j.more = 0
    BY <1>2, <1>5, JobParts
  <2> QED BY <1>5, <2>1
<1> QED BY <1>3, <1>4, <1>5

\* A dispatch of j that has the endpoints hooks left goes on to K.
Goes(j, hooks, failed, K) ==
    /\ K = {} \/ \E k : K = {k}
    /\ K = {} => hooks = {} /\ j.more = 0
    /\ \A k \in K :
          /\ JobFits(k)
          /\ \/ /\ k.id = j.id /\ k.more = j.more /\ k.failed = failed /\ k.at = "post"
                /\ ToSet(k.left) \cap Accepted[MessageOf(j.id)] = hooks
             \/ hooks = {} /\ NextLoad(j, k)

LEMMA GoesFrom ==
    ASSUME NEW j, JobFits(j), NEW s \in Seq(Webhooks \cup OtherChannels), NoRepeat(s),
           NEW b \in BOOLEAN
    PROVE  Goes(j, ToSet(s) \cap Accepted[MessageOf(j.id)], b,
                GoesOn([j EXCEPT !.left = s, !.failed = b]))
<1> DEFINE i == [j EXCEPT !.left = s, !.failed = b]
           hooks == ToSet(s) \cap Accepted[MessageOf(j.id)]
           K == GoesOn(i)
<1>1. /\ i \in Job /\ i.id = j.id /\ i.more = j.more /\ i.left = s /\ i.failed = b
      /\ i.id[2] + i.more <= MaxHooks
  BY DEF JobFits, Job
<1> HIDE DEF i
<1>2. MessageOf(j.id) \in Messages
  BY JobParts DEF JobFits
<1>3. /\ ToSet(From(MessageOf(j.id), s)) \cap Accepted[MessageOf(j.id)] = hooks
      /\ From(MessageOf(j.id), s) = <<>> => hooks = {}
  <2>1. ToSet(From(MessageOf(j.id), s)) \cap Accepted[MessageOf(j.id)] = hooks
    BY <1>2, FromLemma
  <2>2. ToSet(<<>>) = {}
    BY DEF ToSet
  <2> QED BY <2>1, <2>2
<1> HIDE DEF hooks
<1>4. /\ K = {} => From(MessageOf(i.id), i.left) = <<>> /\ i.more = 0
      /\ K = {} \/ \E k : K = {k}
      /\ \A k \in K : JobFits(k) /\ (NextPost(i, k) \/ NextDispatch(i, k))
  BY <1>1, GoesOnLemma
<1> HIDE DEF K
<1>5. ASSUME NEW k \in K
      PROVE  /\ JobFits(k)
             /\ \/ /\ k.id = j.id /\ k.more = j.more /\ k.failed = b /\ k.at = "post"
                   /\ ToSet(k.left) \cap Accepted[MessageOf(j.id)] = hooks
                \/ hooks = {} /\ NextLoad(j, k)
  <2>1. CASE NextPost(i, k)
    BY <1>1, <1>3, <1>4, <2>1 DEF NextPost
  <2>2. CASE NextDispatch(i, k)
    BY <1>1, <1>3, <1>4, <2>2 DEF NextDispatch, NextLoad
  <2> QED BY <1>4, <2>1, <2>2
<1>6. Goes(j, hooks, b, K)
  BY <1>1, <1>3, <1>4, <1>5 DEF Goes
<1> QED BY <1>6 DEF K, hooks, i

\* The list that is read, and what is left of a list.
LEMMA StoredList ==
    ASSUME WebhookInv, stored # None
    PROVE  stored \in Seq(Webhooks \cup OtherChannels) /\ NoRepeat(stored)
BY WebhookAssumption DEF WebhookInv, TypeOK, NoRepeat

LEMMA TailList ==
    ASSUME NEW X, NEW s \in Seq(X), s # <<>>, NoRepeat(s)
    PROVE  /\ Tail(s) \in Seq(X) /\ NoRepeat(Tail(s))
           /\ ToSet(s) = {Head(s)} \cup ToSet(Tail(s))
           /\ Head(s) \in Webhooks => Head(s) \notin ToSet(Tail(s))
<1>1. /\ Len(s) \in Nat /\ Len(s) >= 1 /\ DOMAIN s = 1..Len(s) /\ Head(s) = s[1]
      /\ Tail(s) \in Seq(X) /\ Len(Tail(s)) = Len(s) - 1
      /\ \A i \in 1..Len(Tail(s)) : Tail(s)[i] = s[i + 1]
  BY HeadTailProperties
<1> DEFINE t == Tail(s)
<1> HIDE DEF t
<1>2. DOMAIN t = 1..Len(t) /\ \A i \in 1..Len(t) : t[i] = s[i + 1] /\ i + 1 \in 2..Len(s)
  BY <1>1 DEF t
<1>3. \A i \in 2..Len(s) : i - 1 \in 1..Len(t) /\ t[i - 1] = s[i]
  BY <1>1, <1>2 DEF t
<1>4. NoRepeat(t)
  <2> SUFFICES ASSUME NEW i \in 1..Len(t), NEW k \in 1..Len(t), t[i] = t[k], t[i] \in Webhooks
               PROVE  i = k
    BY <1>2 DEF NoRepeat
  <2>1. s[i + 1] = s[k + 1] /\ i + 1 \in DOMAIN s /\ k + 1 \in DOMAIN s /\ s[i + 1] \in Webhooks
    BY <1>1, <1>2
  <2>2. i + 1 = k + 1
    BY <2>1 DEF NoRepeat
  <2> QED BY <1>1, <2>2
<1>5. ToSet(s) = {s[1]} \cup ToSet(t)
  <2>1. ASSUME NEW c \in ToSet(s) PROVE c \in {s[1]} \cup ToSet(t)
    <3>1. PICK i \in 1..Len(s) : s[i] = c
      BY <1>1, <2>1 DEF ToSet
    <3>2. i = 1 \/ i \in 2..Len(s)
      BY <1>1
    <3> QED BY <1>2, <1>3, <3>1, <3>2 DEF ToSet
  <2>2. ToSet(t) \subseteq ToSet(s)
    BY <1>1, <1>2 DEF ToSet
  <2>3. s[1] \in ToSet(s)
    BY <1>1 DEF ToSet
  <2> QED BY <2>1, <2>2, <2>3
<1>6. ASSUME s[1] \in Webhooks, s[1] \in ToSet(t) PROVE FALSE
  <2>1. PICK i \in 1..Len(t) : t[i] = s[1]
    BY <1>2, <1>6 DEF ToSet
  <2>2. s[i + 1] = s[1] /\ i + 1 \in DOMAIN s /\ 1 \in DOMAIN s /\ i + 1 # 1
    BY <1>1, <1>2, <2>1
  <2> QED BY <1>6, <2>2 DEF NoRepeat
<1> QED BY <1>1, <1>4, <1>5, <1>6 DEF t
----------------------------------------------------------------------------
(* Steps of dispatches *)

\* The channels a dispatch of the message of j may post to.
HooksOf(j, s) == ToSet(s) \cap Accepted[MessageOf(j.id)]

LEMMA EmptyList ==
    /\ <<>> \in Seq(Webhooks \cup OtherChannels) /\ NoRepeat(<<>>) /\ ToSet(<<>>) = {}
BY DEF NoRepeat, ToSet

\* A record with some of its fields as they are.
LEMMA SameFailed ==
    ASSUME NEW j \in Job, NEW s
    PROVE  /\ [j EXCEPT !.left = s] = [j EXCEPT !.left = s, !.failed = j.failed]
           /\ [j EXCEPT !.failed = TRUE] = [j EXCEPT !.left = j.left, !.failed = TRUE]
BY DEF Job

LEMMA GetChannelsGoes ==
    ASSUME WebhookInv, NEW j \in DOMAIN jobs, GetChannels(j)
    PROVE  \E K : Goes(j, Wanted(MessageOf(j.id)), j.failed, K) /\ Becomes(j, K)
<1>1. JobFits(j) /\ j \in Job /\ j.failed \in BOOLEAN
  BY JobParts DEF WebhookInv, JobFits
<1> DEFINE s == IF stored = None THEN <<>> ELSE stored
           K == GoesOn([j EXCEPT !.left = s])
<1>2. Becomes(j, K)
  BY DEF GetChannels
<1>3. /\ s \in Seq(Webhooks \cup OtherChannels) /\ NoRepeat(s)
      /\ HooksOf(j, s) = Wanted(MessageOf(j.id))
  <2>1. CASE stored = None
    BY <2>1, EmptyList DEF HooksOf, Wanted
  <2>2. CASE stored # None
    BY <2>2, StoredList DEF HooksOf, Wanted
  <2> QED BY <2>1, <2>2
<1> HIDE DEF s
<1>4. [j EXCEPT !.left = s] = [j EXCEPT !.left = s, !.failed = j.failed]
  BY <1>1, SameFailed
<1>5. Goes(j, HooksOf(j, s), j.failed, GoesOn([j EXCEPT !.left = s, !.failed = j.failed]))
  BY <1>1, <1>3, GoesFrom DEF HooksOf
<1>6. Goes(j, Wanted(MessageOf(j.id)), j.failed, K)
  BY <1>3, <1>4, <1>5
<1> QED BY <1>2, <1>6

\* What is left of a dispatch that posts.
LEMMA PostLeft ==
    ASSUME NEW j, JobFits(j), j.at = "post"
    PROVE  /\ Tail(j.left) \in Seq(Webhooks \cup OtherChannels) /\ NoRepeat(Tail(j.left))
           /\ Head(j.left) \in Webhooks /\ Head(j.left) \in Accepted[MessageOf(j.id)]
           /\ HooksOf(j, j.left) = {Head(j.left)} \cup HooksOf(j, Tail(j.left))
           /\ Head(j.left) \notin HooksOf(j, Tail(j.left))
<1>1. /\ j.left \in Seq(Webhooks \cup OtherChannels) /\ j.left # <<>> /\ NoRepeat(j.left)
      /\ Head(j.left) \in Accepted[MessageOf(j.id)] /\ MessageOf(j.id) \in Messages
  BY JobParts DEF JobFits
<1>2. Head(j.left) \in Webhooks
  BY <1>1, WebhookAssumption
<1> QED BY <1>1, <1>2, TailList DEF HooksOf

LEMMA PostedGoes ==
    ASSUME WebhookInv, NEW j \in DOMAIN jobs, Posted(j)
    PROVE  \E K : Goes(j, HooksOf(j, Tail(j.left)), j.failed, K) /\ Becomes(j, K)
<1>1. JobFits(j) /\ j \in Job /\ j.failed \in BOOLEAN
  BY JobParts DEF WebhookInv, JobFits
<1> DEFINE s == Tail(j.left)
           K == GoesOn([j EXCEPT !.left = s])
<1>2. Becomes(j, K) /\ j.at = "post"
  BY DEF Posted
<1>3. s \in Seq(Webhooks \cup OtherChannels) /\ NoRepeat(s)
  BY <1>1, <1>2, PostLeft
<1> HIDE DEF s
<1>4. [j EXCEPT !.left = s] = [j EXCEPT !.left = s, !.failed = j.failed]
  BY <1>1, SameFailed
<1>5. Goes(j, HooksOf(j, s), j.failed, GoesOn([j EXCEPT !.left = s, !.failed = j.failed]))
  BY <1>1, <1>3, GoesFrom DEF HooksOf
<1>6. Goes(j, HooksOf(j, s), j.failed, K)
  BY <1>4, <1>5
<1> QED BY <1>2, <1>6 DEF s

LEMMA PostFailsGoes ==
    ASSUME WebhookInv, NEW j \in DOMAIN jobs, PostFails(j)
    PROVE  \E k : /\ Becomes(j, {k}) /\ JobFits(k)
                  /\ k.id = j.id /\ k.more = j.more /\ k.failed = j.failed
                  /\ k.at = "schedule" /\ k.left = Tail(j.left)
<1>1. JobFits(j) /\ j \in Job
  BY DEF WebhookInv, JobFits
<1> DEFINE s == Tail(j.left)
           k == [j EXCEPT !.at = "schedule", !.left = s]
<1>2. j.at = "post" /\ Becomes(j, {k})
  BY DEF PostFails
<1>3. s \in Seq(Webhooks \cup OtherChannels) /\ NoRepeat(s)
  BY <1>1, <1>2, PostLeft
<1> HIDE DEF s
<1>4. /\ k \in Job /\ k.id = j.id /\ k.more = j.more /\ k.failed = j.failed
      /\ k.at = "schedule" /\ k.left = s
  BY <1>1, <1>3 DEF Job
<1> HIDE DEF k
<1>5. JobFits(k)
  BY <1>1, <1>3, <1>4 DEF JobFits
<1> QED BY <1>2, <1>4, <1>5 DEF s

LEMMA ScheduleGoes ==
    ASSUME WebhookInv, NEW j \in DOMAIN jobs, Schedule(j)
    PROVE  \E K : Goes(j, HooksOf(j, j.left), TRUE, K) /\ Becomes(j, K)
<1>1. JobFits(j) /\ j \in Job /\ j.left \in Seq(Webhooks \cup OtherChannels) /\ NoRepeat(j.left)
  BY JobParts DEF WebhookInv, JobFits
<1> DEFINE K == GoesOn([j EXCEPT !.failed = TRUE])
<1>2. Becomes(j, K)
  BY DEF Schedule
<1>3. [j EXCEPT !.failed = TRUE] = [j EXCEPT !.left = j.left, !.failed = TRUE]
  BY <1>1, SameFailed
<1>4. Goes(j, HooksOf(j, j.left), TRUE, GoesOn([j EXCEPT !.left = j.left, !.failed = TRUE]))
  BY <1>1, GoesFrom DEF HooksOf
<1>5. Goes(j, HooksOf(j, j.left), TRUE, K)
  BY <1>3, <1>4
<1> QED BY <1>2, <1>5

LEMMA ScheduleFailsGoes ==
    ASSUME WebhookInv, NEW j \in DOMAIN jobs, ScheduleFails(j)
    PROVE  \E K : Goes(j, {}, j.failed, K) /\ Becomes(j, K)
<1>1. JobFits(j) /\ j \in Job /\ j.failed \in BOOLEAN
  BY JobParts DEF WebhookInv, JobFits
<1> DEFINE s == <<>>
           K == GoesOn([j EXCEPT !.left = s])
<1>2. Becomes(j, K)
  BY DEF ScheduleFails
<1>3. s \in Seq(Webhooks \cup OtherChannels) /\ NoRepeat(s) /\ HooksOf(j, s) = {}
  BY EmptyList DEF HooksOf
<1> HIDE DEF s
<1>4. [j EXCEPT !.left = s] = [j EXCEPT !.left = s, !.failed = j.failed]
  BY <1>1, SameFailed
<1>5. Goes(j, HooksOf(j, s), j.failed, GoesOn([j EXCEPT !.left = s, !.failed = j.failed]))
  BY <1>1, <1>3, GoesFrom DEF HooksOf
<1>6. Goes(j, {}, j.failed, K)
  BY <1>3, <1>4, <1>5
<1> QED BY <1>2, <1>6
----------------------------------------------------------------------------
(* The invariant is inductive *)

LEMMA JobsReplaced ==
    ASSUME WebhookInv, NEW j \in DOMAIN jobs, NEW K, K = {} \/ \E k : K = {k},
           \A k \in K : JobFits(k), Becomes(j, K)
    PROVE  /\ FiniteBag(jobs') /\ \A k \in DOMAIN jobs' : JobFits(k)
           /\ BagToSet(jobs') \subseteq Job
<1>1. FiniteBag(jobs)
  BY DEF WebhookInv
<1>2. FiniteBag(jobs')
  BY <1>1, ReplaceFinite DEF Becomes
<1>3. DOMAIN jobs' \subseteq DOMAIN jobs \cup K
  BY <1>1, ReplaceDomain DEF Becomes
<1>4. \A k \in DOMAIN jobs' : JobFits(k)
  BY <1>3 DEF WebhookInv
<1> QED BY <1>2, <1>4 DEF BagToSet, JobFits

\* The invariant but for the dispatches.
RestInv ==
    /\ stored \in Channels \cup {None} /\ sub \in Channels \cup {None}
    /\ notified \subseteq Messages
    /\ waiting \in [Id -> Nat] /\ due \in [Id -> Nat]
    /\ emitted \in Id \cup {None}
    /\ sent \in [Id \X Webhooks -> Nat] /\ failures \in [Id -> Nat]
    /\ crashes \in 0..MaxFaults /\ faults \in 0..MaxFaults
    /\ emitted # None => due[emitted] > 0
    /\ crashes <= faults
JobsInv == FiniteBag(jobs) /\ \A j \in DOMAIN jobs : JobFits(j)

LEMMA InvParts == WebhookInv <=> RestInv /\ JobsInv
BY DEF WebhookInv, RestInv, JobsInv, TypeOK, BagToSet, JobFits

LEMMA GoesKeepsJobs ==
    ASSUME WebhookInv, NEW j \in DOMAIN jobs, NEW hooks, NEW b, NEW K,
           Goes(j, hooks, b, K), Becomes(j, K)
    PROVE  JobsInv'
<1>1. (K = {} \/ \E k : K = {k}) /\ \A k \in K : JobFits(k)
  BY DEF Goes
<1> QED BY <1>1, JobsReplaced DEF JobsInv

\* A message starts no dispatch, or the first one.
LEMMA StartsLemma ==
    ASSUME NEW m \in Messages, NEW cs \in Channels
    PROVE  \/ Starts(m, cs) = SetToBag({})
           \/ \E n \in 1..MaxHooks : Starts(m, cs) = SetToBag({Load(<<m, 1>>, n - 1)})
<1> DEFINE n == Hooks(cs)
           I == {i \in DOMAIN cs : cs[i] \in Webhooks}
<1>1. n \in Nat /\ n <= MaxHooks
  <2>1. cs \in Seq(Webhooks \cup OtherChannels) /\ I \subseteq 1..Len(cs) /\ Len(cs) \in Nat
    BY WebhookAssumption
  <2> HIDE DEF I
  <2>2. IsFiniteSet(I)
    <3>1. IsFiniteSet(1..Len(cs))
      BY <2>1, FS_Interval
    <3> QED BY <2>1, <3>1, FS_Subset
  <2>3. Cardinality(I) \in Nat
    BY <2>2, FS_CardinalityType
  <2> QED BY <2>3, WebhookAssumption DEF Hooks, I
<1>2. Starts(m, cs) = IF n = 0 THEN SetToBag({}) ELSE SetToBag({Load(<<m, 1>>, n - 1)})
  BY DEF Starts, EmptyBag
<1> HIDE DEF n
<1>3. n = 0 \/ n \in 1..MaxHooks
  BY <1>1, WebhookAssumption
<1> QED BY <1>2, <1>3

LEMMA FirstLoadFits ==
    ASSUME NEW m \in Messages, NEW n \in 1..MaxHooks
    PROVE  JobFits(Load(<<m, 1>>, n - 1)) /\ <<m, 1>> \in Id
<1> DEFINE i == <<m, 1>>
<1>1. i \in Id /\ i[2] + (n - 1) <= MaxHooks /\ n - 1 \in Nat
  BY WebhookAssumption DEF Id
<1> HIDE DEF i
<1>2. JobFits(Load(i, n - 1))
  BY <1>1, LoadFits
<1> QED BY <1>1, <1>2 DEF i

LEMMA JobsAdded ==
    ASSUME JobsInv, NEW k, JobFits(k), jobs' = jobs (+) SetToBag({k})
    PROVE  JobsInv'
<1>1. FiniteBag(jobs')
  BY PlusFinite DEF JobsInv
<1>2. DOMAIN jobs' = DOMAIN jobs \cup {k}
  BY PlusDomain
<1> QED BY <1>1, <1>2 DEF JobsInv

LEMMA NoJobs ==
    ASSUME NEW B, B = EmptyBag
    PROVE  FiniteBag(B) /\ DOMAIN B = {}
<1>1. DOMAIN B = {} /\ B = [e \in {} |-> 1]
  BY DEF EmptyBag, SetToBag
<1>2. CopySet(B, DOMAIN B) = {}
  BY <1>1 DEF CopySet
<1> QED BY <1>1, <1>2, FS_EmptySet DEF FiniteBag

LEMMA WebhookInit == Init => WebhookInv
<1> SUFFICES ASSUME Init PROVE WebhookInv
  OBVIOUS
<1>1. FiniteBag(jobs) /\ DOMAIN jobs = {}
  BY NoJobs DEF Init
<1>2. RestInv
  BY WebhookAssumption DEF Init, RestInv
<1> QED BY <1>1, <1>2, InvParts DEF JobsInv

LEMMA DispatchKeeps ==
    ASSUME WebhookInv, NEW j \in DOMAIN jobs, Dispatch(j)
    PROVE  WebhookInv'
<1>1. RestInv /\ JobsInv
  BY InvParts
<1>2. /\ JobFits(j) /\ j.id \in Id
  BY JobParts DEF WebhookInv, JobFits
<1>3. CASE GetChannels(j)
  <2>1. JobsInv'
    BY <1>3, GetChannelsGoes, GoesKeepsJobs
  <2>2. RestInv'
    BY <1>1, <1>3 DEF RestInv, GetChannels, subscription, tasks, bounds
  <2> QED BY <2>1, <2>2, InvParts, PTL
<1>4. CASE Posted(j)
  <2>1. JobsInv'
    BY <1>4, PostedGoes, GoesKeepsJobs
  <2>2. j.at = "post" /\ <<j.id, Head(j.left)>> \in Id \X Webhooks
    BY <1>2, <1>4, PostLeft DEF Posted
  <2>3. sent' \in [Id \X Webhooks -> Nat]
    BY <1>1, <1>4, <2>2 DEF RestInv, Posted
  <2>4. RestInv'
    BY <1>1, <1>4, <2>3 DEF RestInv, Posted, subscription, tasks, bounds
  <2> QED BY <2>1, <2>4, InvParts, PTL
<1>5. CASE PostFails(j)
  <2>1. PICK k : Becomes(j, {k}) /\ JobFits(k)
    BY <1>5, PostFailsGoes
  <2>2. JobsInv'
    BY <2>1, JobsReplaced DEF JobsInv
  <2>3. failures' \in [Id -> Nat]
    BY <1>1, <1>2, <1>5 DEF RestInv, PostFails
  <2>4. RestInv'
    BY <1>1, <1>5, <2>3 DEF RestInv, PostFails, subscription, tasks, bounds
  <2> QED BY <2>2, <2>4, InvParts, PTL
<1>6. CASE Schedule(j)
  <2>1. JobsInv'
    BY <1>6, ScheduleGoes, GoesKeepsJobs
  <2>2. waiting' \in [Id -> Nat]
    BY <1>1, <1>2, <1>6 DEF RestInv, Schedule, PutTask
  <2>3. RestInv'
    BY <1>1, <1>6, <2>2 DEF RestInv, Schedule, subscription, bounds
  <2> QED BY <2>1, <2>3, InvParts, PTL
<1>7. CASE ScheduleFails(j)
  <2>1. JobsInv'
    BY <1>7, ScheduleFailsGoes, GoesKeepsJobs
  <2>2. RestInv'
    BY <1>1, <1>7, WebhookAssumption DEF RestInv, ScheduleFails, subscription, tasks
  <2> QED BY <2>1, <2>2, InvParts, PTL
<1> QED BY <1>3, <1>4, <1>5, <1>6, <1>7 DEF Dispatch

LEMMA WebhookStep ==
    ASSUME WebhookInv, [Next]_vars
    PROVE  WebhookInv'
<1>1. RestInv /\ JobsInv
  BY InvParts
<1> DEFINE Goal == JobsInv' /\ RestInv'
<1>2. ASSUME NEW m \in Messages, Notify(m) PROVE Goal
  <2>1. sub \in Channels /\ jobs' = jobs (+) Starts(m, sub)
    BY <1>1, <1>2 DEF Notify, RestInv
  <2>2. JobsInv'
    <3>1. CASE Starts(m, sub) = SetToBag({})
      <4>1. jobs' = jobs
        BY <1>1, <2>1, <3>1, BagPlusNone DEF JobsInv
      <4> QED BY <1>1, <4>1 DEF JobsInv
    <3>2. CASE \E n \in 1..MaxHooks : Starts(m, sub) = SetToBag({Load(<<m, 1>>, n - 1)})
      BY <1>1, <2>1, <3>2, FirstLoadFits, JobsAdded
    <3> QED BY <2>1, <3>1, <3>2, StartsLemma
  <2>3. RestInv'
    BY <1>1, <1>2 DEF RestInv, Notify, subscription, tasks, bounds
  <2> QED BY <2>2, <2>3
<1>3. ASSUME NEW id \in Id, Tick(id) PROVE Goal
  <2>1. waiting' \in [Id -> Nat] /\ due' \in [Id -> Nat]
    BY <1>1, <1>3 DEF RestInv, Tick
  <2>2. emitted' # None => due'[emitted'] > 0
    <3>1. CASE emitted = id
      BY <1>1, <1>3, <3>1 DEF RestInv, Tick
    <3>2. CASE emitted # id
      BY <1>1, <1>3, <3>2 DEF RestInv, Tick
    <3> QED BY <3>1, <3>2
  <2>3. RestInv'
    BY <1>1, <1>3, <2>1, <2>2 DEF RestInv, Tick, subscription, bounds
  <2>4. JobsInv'
    BY <1>1, <1>3 DEF JobsInv, Tick
  <2> QED BY <2>3, <2>4
<1>4. ASSUME NEW id \in Id, Emit(id) PROVE Goal
  <2>1. JobFits(Load(id, 0))
    <3>1. id[2] + 0 <= MaxHooks /\ 0 \in Nat
      BY WebhookAssumption DEF Id
    <3> QED BY <3>1, LoadFits
  <2>2. JobsInv'
    BY <1>1, <1>4, <2>1, JobsAdded DEF Emit
  <2>3. RestInv'
    BY <1>1, <1>4 DEF RestInv, Emit, subscription, tasks, bounds
  <2> QED BY <2>2, <2>3
<1>5. ASSUME DeleteTask PROVE Goal
  <2>1. emitted \in Id /\ due[emitted] \in Nat /\ due[emitted] > 0
    BY <1>1, <1>5 DEF RestInv, DeleteTask
  <2>2. due' \in [Id -> Nat]
    BY <1>1, <1>5, <2>1 DEF RestInv, DeleteTask
  <2>3. RestInv'
    BY <1>1, <1>5, <2>2 DEF RestInv, DeleteTask, subscription, bounds
  <2>4. JobsInv'
    BY <1>1, <1>5 DEF JobsInv, DeleteTask
  <2> QED BY <2>3, <2>4
<1>6. ASSUME Refresh \/ \E cs \in Channels \cup {None} : Change(cs) PROVE Goal
  <2>1. JobsInv'
    BY <1>1, <1>6 DEF JobsInv, Refresh, Change
  <2>2. RestInv'
    BY <1>1, <1>6, WebhookAssumption DEF RestInv, Refresh, Change, tasks, bounds
  <2> QED BY <2>1, <2>2
<1>7. ASSUME Crash PROVE Goal
  <2>1. JobsInv'
    BY <1>7, NoJobs DEF JobsInv, Crash
  <2>2. RestInv'
    BY <1>1, <1>7, WebhookAssumption DEF RestInv, Crash, tasks
  <2> QED BY <2>1, <2>2
<1>8. ASSUME UNCHANGED vars PROVE Goal
  BY <1>1, <1>8 DEF vars, RestInv, JobsInv, subscription, tasks, bounds
<1>9. ASSUME NEW j \in DOMAIN jobs, Dispatch(j) PROVE WebhookInv'
  BY <1>9, DispatchKeeps
<1>10. Goal => WebhookInv'
  BY InvParts, PTL
<1> HIDE DEF Goal
<1> QED BY <1>2, <1>3, <1>4, <1>5, <1>6, <1>7, <1>8, <1>9, <1>10 DEF Next, BagToSet

\* Types are preserved, counts of tasks never go below zero: an emitted task is
\* still stored (TypeOK; scheduler.ts:104-119).
THEOREM TypeCorrect == Spec => []TypeOK
<1>1. WebhookInv => TypeOK
  BY DEF WebhookInv
<1> QED BY <1>1, WebhookInit, WebhookStep, PTL DEF Spec
----------------------------------------------------------------------------
(* Webhook implements Delivery *)

\* What a dispatch and an id are for is a set of deliveries of its message.
LEMMA CarriesLemma ==
    ASSUME WebhookInv, NEW j, JobFits(j)
    PROVE  /\ WantedBy(j.id) = {MessageOf(j.id)} \X Wanted(MessageOf(j.id))
           /\ WantedBy(j.id) \subseteq Deliveries
           /\ Posting(j) \subseteq Deliveries
           /\ Carries(j) \subseteq WantedBy(j.id)
           /\ Posting(j) = {MessageOf(j.id)} \X HooksOf(j, j.left)
<1>1. MessageOf(j.id) \in Messages /\ Accepted[MessageOf(j.id)] \subseteq Webhooks
  BY JobParts, WebhookAssumption DEF JobFits
<1>2. Wanted(MessageOf(j.id)) \subseteq Webhooks
  BY <1>1 DEF Wanted
<1> QED BY <1>1, <1>2 DEF WantedBy, Deliveries, Posting, Carries, HooksOf

\* What is due, a delivery at a time: carried by a dispatch, or stored as a task.
Carried(d) == \E j \in DOMAIN jobs : d \in Carries(j)
Stored(d) == \E id \in Id : Ahead(id) > 0 /\ d \in WantedBy(id)
Unwanted(d) == \E j \in DOMAIN jobs : d \in Posting(j) \ WantedBy(j.id)
DueParts ==
    /\ \A d : d \in Due <=> d \notin Done /\ (Carried(d) \/ Stored(d))
    /\ \A d : d \in Withdrawn <=> d \notin Done /\ Unwanted(d)

LEMMA DueLemma == DueParts
<1>1. ASSUME NEW d PROVE d \in Due <=> d \notin Done /\ (Carried(d) \/ Stored(d))
  <2> DEFINE A == UNION {Carries(j) : j \in BagToSet(jobs)}
             B == UNION {WantedBy(id) : id \in {i \in Id : Ahead(i) > 0}}
  <2>1. d \in A <=> Carried(d)
    BY DEF Carried, BagToSet
  <2>2. d \in B <=> Stored(d)
    BY DEF Stored
  <2>3. Due = (A \cup B) \ Done
    BY DEF Due
  <2> HIDE DEF A, B
  <2> QED BY <2>1, <2>2, <2>3
<1>2. ASSUME NEW d PROVE d \in Withdrawn <=> d \notin Done /\ Unwanted(d)
  <2> DEFINE A == UNION {Posting(j) \ WantedBy(j.id) : j \in BagToSet(jobs)}
  <2>1. d \in A <=> Unwanted(d)
    BY DEF Unwanted, BagToSet
  <2>2. Withdrawn = A \ Done
    BY DEF Withdrawn
  <2> HIDE DEF A
  <2> QED BY <2>1, <2>2
<1> QED BY <1>1, <1>2 DEF DueParts

DueFits == Due \subseteq Deliveries \ Done /\ Withdrawn \subseteq Deliveries \ Done

LEMMA DueDeliveries == WebhookInv => DueFits
<1> SUFFICES ASSUME WebhookInv PROVE DueFits
  OBVIOUS
<1>1. ASSUME NEW j \in DOMAIN jobs PROVE Carries(j) \subseteq Deliveries /\ Posting(j) \subseteq Deliveries
  <2>1. JobFits(j)
    BY DEF WebhookInv
  <2> QED BY <2>1, CarriesLemma
<1>2. ASSUME NEW id \in Id PROVE WantedBy(id) \subseteq Deliveries
  <2>1. MessageOf(id) \in Messages
    BY DEF Id, MessageOf
  <2> QED BY <2>1, WebhookAssumption DEF WantedBy, Wanted, Deliveries
<1>3. \A d : Carried(d) \/ Stored(d) \/ Unwanted(d) => d \in Deliveries
  BY <1>1, <1>2 DEF Carried, Stored, Unwanted
<1> QED BY <1>3, DueLemma DEF DueParts, DueFits

\* What a dispatch still has to post, at most, when it goes on as K.
LEMMA GoesCarries ==
    ASSUME WebhookInv, NEW j \in DOMAIN jobs, NEW hooks, NEW b, NEW K, Goes(j, hooks, b, K),
           UNCHANGED stored
    PROVE  /\ j.more > 0 => \A k \in K : Carries(k)' = WantedBy(j.id)
           /\ j.more = 0 => \A k \in K :
                 Carries(k)' = ({MessageOf(j.id)} \X hooks) \cap WantedBy(j.id)
           /\ j.more > 0 => K # {}
           /\ K = {} => hooks = {}
           /\ \A k \in K : Posting(k) \subseteq {MessageOf(j.id)} \X hooks
                          /\ WantedBy(k.id)' = WantedBy(j.id)
<1>1. /\ JobFits(j) /\ MessageOf(j.id) \in Messages /\ j.id[1] = MessageOf(j.id)
      /\ j.id[2] \in Nat /\ j.more \in Nat
  BY JobParts DEF WebhookInv, JobFits
<1>2. \A id : WantedBy(id)' = WantedBy(id)
  BY DEF WantedBy, Wanted
<1>3. \A id : MessageOf(id) = MessageOf(j.id) => WantedBy(id) = WantedBy(j.id)
  BY DEF WantedBy
<1>4. ASSUME NEW k \in K
      PROVE  /\ MessageOf(k.id) = MessageOf(j.id)
             /\ \/ /\ k.more = j.more /\ k.at = "post"
                   /\ Posting(k) = {MessageOf(j.id)} \X hooks
                \/ j.more > 0 /\ k.at = "load" /\ Posting(k) = {}
  <2>1. CASE NextLoad(j, k)
    <3>1. /\ k.id = <<j.id[1], j.id[2] + 1>> /\ k.at = "load" /\ k.left = <<>> /\ j.more > 0
      BY <2>1 DEF NextLoad, Load
    <3>2. MessageOf(k.id) = MessageOf(j.id)
      BY <1>1, <3>1 DEF MessageOf
    <3>3. Posting(k) = {}
      BY <3>1, EmptyList DEF Posting
    <3> QED BY <3>1, <3>2, <3>3
  <2>2. CASE ~NextLoad(j, k)
    <3>1. /\ k.id = j.id /\ k.more = j.more /\ k.at = "post"
          /\ ToSet(k.left) \cap Accepted[MessageOf(j.id)] = hooks
      BY <2>2 DEF Goes
    <3> QED BY <3>1 DEF Posting
  <2> QED BY <2>1, <2>2
<1>5. ASSUME NEW k \in K
      PROVE  Carries(k)' = IF k.at = "load" \/ k.more > 0 THEN WantedBy(j.id)
                           ELSE Posting(k) \cap WantedBy(j.id)
  <2>1. k.at # "schedule" /\ WantedBy(k.id)' = WantedBy(j.id)
    BY <1>2, <1>3, <1>4
  <2> QED BY <2>1 DEF Carries, Posting
<1>6. K = {} => hooks = {} /\ j.more = 0
  BY DEF Goes
<1> QED BY <1>1, <1>2, <1>3, <1>4, <1>5, <1>6

\* Nothing that is due is lost, nothing unwanted is taken up.
Kept == Due \subseteq Due' /\ Withdrawn' \subseteq Withdrawn /\ Done' = Done
AllStored == \A d : Stored(d) => Stored(d)'

LEMMA DispatchOwes ==
    ASSUME WebhookInv, NEW j \in DOMAIN jobs, NEW K, Becomes(j, K),
           UNCHANGED <<stored, sent>>, AllStored,
           \A d \in Carries(j) : Stored(d)' \/ \E k \in K : d \in Carries(k),
           \A k \in K : Posting(k) \ WantedBy(k.id) \subseteq Posting(j) \ WantedBy(j.id)
    PROVE  Kept
<1>1. /\ DOMAIN jobs' \subseteq DOMAIN jobs \cup K
      /\ DOMAIN jobs \ {j} \subseteq DOMAIN jobs' /\ K \subseteq DOMAIN jobs'
  BY ReplaceDomain DEF WebhookInv, Becomes
<1>2. /\ \A id : WantedBy(id)' = WantedBy(id)
      /\ \A k : Carries(k)' = Carries(k) /\ Posting(k)' = Posting(k)
      /\ Done' = Done
  BY DEF WantedBy, Wanted, Carries, Posting, Done
<1>3. DueParts /\ DueParts'
  BY DueLemma, PTL
<1>4. ASSUME NEW d, Carried(d) PROVE Carried(d)' \/ Stored(d)'
  <2>1. PICK i \in DOMAIN jobs : d \in Carries(i)
    BY <1>4 DEF Carried
  <2>2. CASE i = j
    BY <1>1, <1>2, <2>1, <2>2 DEF Carried
  <2>3. CASE i # j
    BY <1>1, <1>2, <2>1, <2>3 DEF Carried
  <2> QED BY <2>2, <2>3
<1>5. ASSUME NEW d, Unwanted(d)' PROVE Unwanted(d)
  <2>1. PICK i \in DOMAIN jobs' : d \in Posting(i) \ WantedBy(i.id)
    BY <1>2, <1>5 DEF Unwanted
  <2> QED BY <1>1, <2>1 DEF Unwanted
<1>6. \A d : d \in Due => d \in Due'
  BY <1>2, <1>3, <1>4 DEF DueParts, AllStored
<1>7. \A d : d \in Withdrawn' => d \in Withdrawn
  BY <1>2, <1>3, <1>5 DEF DueParts
<1> QED BY <1>2, <1>6, <1>7 DEF Kept

\* The tasks of an id that are stored, and those still to be emitted.
LEMMA AheadLemma ==
    ASSUME WebhookInv, NEW id \in Id
    PROVE  Ahead(id) \in Nat /\ Ahead(id) >= waiting[id] /\ waiting[id] \in Nat
<1>1. /\ waiting[id] \in Nat /\ due[id] \in Nat
      /\ emitted # None => due[emitted] > 0
      /\ None \notin Id
  BY WebhookAssumption DEF WebhookInv, TypeOK
<1>2. CASE emitted = id
  BY <1>1, <1>2 DEF Ahead
<1>3. CASE emitted # id
  BY <1>1, <1>3 DEF Ahead
<1> QED BY <1>2, <1>3

LEMMA GetChannelsOwes ==
    ASSUME WebhookInv, NEW j \in DOMAIN jobs, GetChannels(j)
    PROVE  Kept
<1>1. PICK K : Goes(j, Wanted(MessageOf(j.id)), j.failed, K) /\ Becomes(j, K)
  BY GetChannelsGoes
<1>2. UNCHANGED <<stored, sent>> /\ UNCHANGED <<waiting, due, emitted>> /\ j.at = "load"
  BY DEF GetChannels, subscription, tasks
<1>3. AllStored
  BY <1>2 DEF AllStored, Stored, Ahead, WantedBy, Wanted
<1>4. JobFits(j) /\ j.more \in Nat
  BY JobParts DEF WebhookInv, JobFits
<1>5. /\ WantedBy(j.id) = {MessageOf(j.id)} \X Wanted(MessageOf(j.id))
      /\ Carries(j) = WantedBy(j.id)
  BY <1>2, <1>4, CarriesLemma DEF Carries
<1>6. \A k : Carries(k)' = Carries(k) /\ WantedBy(k.id)' = WantedBy(k.id)
  BY <1>2 DEF WantedBy, Wanted, Carries, Posting
<1>7. /\ j.more > 0 => \A k \in K : Carries(k) = WantedBy(j.id)
      /\ j.more = 0 => \A k \in K : Carries(k) = WantedBy(j.id)
      /\ j.more > 0 => K # {}
      /\ K = {} => Wanted(MessageOf(j.id)) = {}
      /\ \A k \in K : Posting(k) \subseteq WantedBy(k.id)
  BY <1>1, <1>2, <1>5, <1>6, GoesCarries
<1>8. \A d \in Carries(j) : \E k \in K : d \in Carries(k)
  <2>1. WantedBy(j.id) # {} => K # {}
    BY <1>5, <1>7
  <2>2. \A k \in K : Carries(k) = WantedBy(j.id)
    BY <1>4, <1>7
  <2> QED BY <1>5, <2>1, <2>2
<1>9. \A k \in K : Posting(k) \ WantedBy(k.id) \subseteq Posting(j) \ WantedBy(j.id)
  BY <1>7
<1> QED BY <1>1, <1>2, <1>3, <1>8, <1>9, DispatchOwes

LEMMA PostFailsOwes ==
    ASSUME WebhookInv, NEW j \in DOMAIN jobs, PostFails(j)
    PROVE  Kept
<1>1. PICK k : /\ Becomes(j, {k}) /\ JobFits(k)
               /\ k.id = j.id /\ k.more = j.more /\ k.failed = j.failed
               /\ k.at = "schedule" /\ k.left = Tail(j.left)
  BY PostFailsGoes
<1>2. UNCHANGED <<stored, sent>> /\ UNCHANGED <<waiting, due, emitted>> /\ j.at = "post"
  BY DEF PostFails, subscription, tasks
<1>3. AllStored
  BY <1>2 DEF AllStored, Stored, Ahead, WantedBy, Wanted
<1>4. JobFits(j)
  BY DEF WebhookInv
<1>5. /\ Carries(k) = WantedBy(j.id) /\ Carries(j) \subseteq WantedBy(j.id)
  BY <1>1, <1>4, CarriesLemma DEF Carries
<1>6. Posting(k) \subseteq Posting(j)
  <2>1. Posting(j) = {MessageOf(j.id)} \X HooksOf(j, j.left)
    BY <1>4, CarriesLemma
  <2>2. Posting(k) = {MessageOf(j.id)} \X HooksOf(j, Tail(j.left))
    BY <1>1 DEF Posting, HooksOf
  <2> QED BY <1>2, <1>4, <2>1, <2>2, PostLeft
<1>7. Posting(k) \ WantedBy(k.id) \subseteq Posting(j) \ WantedBy(j.id)
  BY <1>1, <1>6
<1> QED BY <1>1, <1>2, <1>3, <1>5, <1>7, DispatchOwes

LEMMA ScheduleOwes ==
    ASSUME WebhookInv, NEW j \in DOMAIN jobs, Schedule(j)
    PROVE  Kept
<1>1. PICK K : Goes(j, HooksOf(j, j.left), TRUE, K) /\ Becomes(j, K)
  BY ScheduleGoes
<1>2. /\ UNCHANGED <<stored, sent>> /\ UNCHANGED <<due, emitted>> /\ j.at = "schedule"
      /\ PutTask(j)
  BY DEF Schedule, subscription
<1>3. JobFits(j) /\ j.id \in Id
  BY JobParts DEF WebhookInv, JobFits
<1>4. /\ waiting \in [Id -> Nat]
      /\ \A id \in Id : Ahead(id)' - Ahead(id) = waiting'[id] - waiting[id]
  <2>1. waiting \in [Id -> Nat] /\ due \in [Id -> Nat]
    BY DEF WebhookInv, TypeOK
  <2>2. \A id \in Id : waiting'[id] \in Nat
    BY <1>2, <1>3, <2>1 DEF PutTask
  <2> QED BY <1>2, <2>1, <2>2 DEF Ahead
<1>5. waiting'[j.id] > 0 /\ \A id \in Id : waiting'[id] >= waiting[id] /\ waiting'[id] \in Nat
  BY <1>2, <1>3, <1>4 DEF PutTask
<1>6. \A id \in Id : /\ Ahead(id) \in Nat /\ Ahead(id) >= waiting[id]
                     /\ waiting[id] \in Nat
  BY AheadLemma
<1>7. Ahead(j.id)' > 0 /\ \A id \in Id : Ahead(id) > 0 => Ahead(id)' > 0
  <2>1. Ahead(j.id)' = Ahead(j.id) + waiting'[j.id] - waiting[j.id]
    <3>1. Ahead(j.id)' - Ahead(j.id) = waiting'[j.id] - waiting[j.id]
      BY <1>3, <1>4
    <3>2. Ahead(j.id)' \in Int
      BY <1>2, <1>3, <1>5, WebhookAssumption DEF Ahead, WebhookInv, TypeOK
    <3> QED BY <1>3, <1>5, <1>6, <3>1, <3>2
  <2>2. \A id \in Id : Ahead(id)' >= Ahead(id)
    <3> TAKE id \in Id
    <3>1. Ahead(id)' - Ahead(id) = waiting'[id] - waiting[id]
      BY <1>4
    <3>2. Ahead(id)' \in Int
      BY <1>2, <1>5 DEF Ahead, WebhookInv, TypeOK
    <3> QED BY <1>5, <1>6, <3>1, <3>2
  <2>3. Ahead(j.id)' \in Int /\ \A id \in Id : Ahead(id)' \in Int
    BY <1>2, <1>3, <1>5 DEF Ahead, WebhookInv, TypeOK
  <2> QED BY <1>3, <1>5, <1>6, <2>1, <2>2, <2>3
<1>8. \A id : WantedBy(id)' = WantedBy(id)
  BY <1>2 DEF WantedBy, Wanted
<1>9. AllStored
  BY <1>7, <1>8 DEF AllStored, Stored
<1>10. \A d \in Carries(j) : Stored(d)'
  <2>1. Carries(j) = WantedBy(j.id)
    BY <1>2 DEF Carries
  <2> QED BY <1>3, <1>7, <1>8, <2>1 DEF Stored
<1>11. \A k \in K : Posting(k) \ WantedBy(k.id) \subseteq Posting(j) \ WantedBy(j.id)
  <2>1. Posting(j) = {MessageOf(j.id)} \X HooksOf(j, j.left)
    BY <1>3, CarriesLemma
  <2>2. \A k \in K : /\ Posting(k) \subseteq {MessageOf(j.id)} \X HooksOf(j, j.left)
                     /\ WantedBy(k.id)' = WantedBy(j.id)
    BY <1>1, <1>2, GoesCarries
  <2> QED BY <1>8, <2>1, <2>2
<1> QED BY <1>1, <1>2, <1>9, <1>10, <1>11, DispatchOwes

\* The delivery that a dispatch is posting.
Doing(j) == <<MessageOf(j.id), Head(j.left)>>

\* A post is one delivery made, whether it is the first of its kind or not.
LEMMA PostedDelivers ==
    ASSUME WebhookInv, NEW j \in DOMAIN jobs, Posted(j)
    PROVE  /\ Doing(j) \in Deliveries /\ Done' = Done \cup {Doing(j)}
           /\ Doing(j) \in Done \cup Due \cup Withdrawn
           /\ Due' = Due \ {Doing(j)} /\ Withdrawn' \subseteq Withdrawn \ {Doing(j)}
<1> DEFINE m == MessageOf(j.id)
           hooks == HooksOf(j, Tail(j.left))
           made == Doing(j)
<1>1. PICK K : Goes(j, hooks, j.failed, K) /\ Becomes(j, K)
  BY PostedGoes
<1>2. /\ UNCHANGED <<stored, waiting, due, emitted>> /\ j.at = "post"
      /\ sent' = [sent EXCEPT ![<<j.id, Head(j.left)>>] = @ + 1]
  BY DEF Posted, subscription, tasks
<1>3. JobFits(j) /\ j.id \in Id /\ m \in Messages /\ j.more \in Nat
  BY JobParts DEF WebhookInv, JobFits
<1>4. /\ Head(j.left) \in Webhooks /\ HooksOf(j, j.left) = {Head(j.left)} \cup hooks
      /\ Head(j.left) \notin hooks /\ hooks \subseteq Webhooks
  BY <1>2, <1>3, PostLeft, WebhookAssumption DEF HooksOf
<1>5. made \in Deliveries /\ made = <<m, Head(j.left)>>
  BY <1>3, <1>4 DEF Deliveries, Doing
<1>6. /\ Posting(j) = {made} \cup ({m} \X hooks) /\ made \notin {m} \X hooks
  <2>1. Posting(j) = {m} \X HooksOf(j, j.left)
    BY <1>3, CarriesLemma
  <2> QED BY <1>4, <1>5, <2>1
<1>7. Done' = Done \cup {made}
  <2>1. sent \in [Id \X Webhooks -> Nat]
    BY DEF WebhookInv, TypeOK
  <2>2. ASSUME NEW d \in Deliveries PROVE d \in Done' <=> d \in Done \/ d = made
    <3>1. ASSUME d = made PROVE d \in Done'
      <4>1. MessageOf(j.id) = d[1] /\ d[2] = Head(j.left)
        BY <1>5, <3>1
      <4>2. sent'[<<j.id, d[2]>>] > 0
        BY <1>2, <1>3, <1>4, <2>1, <4>1
      <4> QED BY <1>3, <4>1, <4>2 DEF Done
    <3>2. ASSUME d \in Done PROVE d \in Done'
      <4>1. PICK id \in Id : MessageOf(id) = d[1] /\ sent[<<id, d[2]>>] > 0
        BY <3>2 DEF Done
      <4>2. d[2] \in Webhooks
        BY DEF Deliveries
      <4>3. sent'[<<id, d[2]>>] > 0
        BY <1>2, <1>3, <1>4, <2>1, <4>1, <4>2
      <4> QED BY <4>1, <4>3 DEF Done
    <3>3. ASSUME d \in Done', d # made PROVE d \in Done
      <4>1. PICK id \in Id : MessageOf(id) = d[1] /\ sent'[<<id, d[2]>>] > 0
        BY <3>3 DEF Done
      <4>2. d[2] \in Webhooks /\ d = <<d[1], d[2]>>
        BY DEF Deliveries
      <4>3. <<id, d[2]>> # <<j.id, Head(j.left)>>
        BY <1>5, <3>3, <4>1, <4>2
      <4>4. sent'[<<id, d[2]>>] = sent[<<id, d[2]>>]
        BY <1>2, <2>1, <4>2, <4>3
      <4> QED BY <4>1, <4>4 DEF Done
    <3> QED BY <3>1, <3>2, <3>3
  <2>3. Done \subseteq Deliveries /\ Done' \subseteq Deliveries
    BY DEF Done
  <2> HIDE DEF made
  <2> QED BY <1>5, <2>2, <2>3
<1>8. /\ DOMAIN jobs' \subseteq DOMAIN jobs \cup K
      /\ DOMAIN jobs \ {j} \subseteq DOMAIN jobs' /\ K \subseteq DOMAIN jobs'
  BY <1>1, ReplaceDomain DEF WebhookInv, Becomes
<1>9. /\ \A id : WantedBy(id)' = WantedBy(id) /\ Ahead(id)' = Ahead(id)
      /\ \A k : Carries(k)' = Carries(k) /\ Posting(k)' = Posting(k)
  BY <1>2 DEF WantedBy, Wanted, Carries, Posting, Ahead
<1>10. /\ j.more > 0 => \A k \in K : Carries(k)' = WantedBy(j.id)
       /\ j.more = 0 => \A k \in K : Carries(k)' = ({m} \X hooks) \cap WantedBy(j.id)
       /\ j.more > 0 => K # {}
       /\ K = {} => hooks = {}
       /\ \A k \in K : Posting(k) \subseteq {m} \X hooks /\ WantedBy(k.id)' = WantedBy(j.id)
  BY <1>1, <1>2, GoesCarries
<1>11. /\ j.more > 0 => Carries(j) = WantedBy(j.id)
       /\ j.more = 0 => Carries(j) = Posting(j) \cap WantedBy(j.id)
  BY <1>2 DEF Carries
<1> HIDE DEF m, hooks, made
<1>12. ASSUME NEW d, d # made PROVE d \in Carries(j) <=> \E k \in K : d \in Carries(k)
  <2>1. CASE j.more > 0
    BY <1>9, <1>10, <1>11, <2>1
  <2>2. CASE j.more = 0
    <3>1. d \in Carries(j) <=> d \in ({m} \X hooks) \cap WantedBy(j.id)
      BY <1>6, <1>11, <1>12, <2>2
    <3>2. \A k \in K : Carries(k) = ({m} \X hooks) \cap WantedBy(j.id)
      BY <1>9, <1>10, <2>2
    <3>3. d \in {m} \X hooks => K # {}
      BY <1>10
    <3> QED BY <3>1, <3>2, <3>3
  <2> QED BY <1>3, <2>1, <2>2
<1>13. ASSUME NEW d, d # made PROVE Carried(d)' <=> Carried(d)
  <2>1. ASSUME Carried(d) PROVE Carried(d)'
    <3>1. PICK i \in DOMAIN jobs : d \in Carries(i)
      BY <2>1 DEF Carried
    <3>2. CASE i = j
      BY <1>8, <1>9, <1>12, <1>13, <3>1, <3>2 DEF Carried
    <3>3. CASE i # j
      BY <1>8, <1>9, <3>1, <3>3 DEF Carried
    <3> QED BY <3>2, <3>3
  <2>2. ASSUME Carried(d)' PROVE Carried(d)
    <3>1. PICK i \in DOMAIN jobs' : d \in Carries(i)
      BY <1>9, <2>2 DEF Carried
    <3>2. CASE i \in K
      BY <1>12, <1>13, <3>1, <3>2 DEF Carried
    <3>3. CASE i \notin K
      BY <1>8, <3>1, <3>3 DEF Carried
    <3> QED BY <3>2, <3>3
  <2> QED BY <2>1, <2>2
<1>14. \A d : Stored(d)' <=> Stored(d)
  BY <1>9 DEF Stored
<1>15. ASSUME NEW d, Unwanted(d)' PROVE Unwanted(d)
  <2>1. PICK i \in DOMAIN jobs' : d \in Posting(i) \ WantedBy(i.id)
    BY <1>9, <1>15 DEF Unwanted
  <2>2. CASE i \in K
    <3>1. d \in {m} \X hooks /\ d \notin WantedBy(j.id)
      BY <1>9, <1>10, <2>1, <2>2
    <3>2. d \in Posting(j)
      BY <1>6, <3>1
    <3> QED BY <3>1, <3>2 DEF Unwanted
  <2>3. CASE i \notin K
    BY <1>8, <2>1, <2>3 DEF Unwanted
  <2> QED BY <2>2, <2>3
<1>16. DueParts /\ DueParts'
  BY DueLemma, PTL
<1>17. \A d : d \in Due' <=> d \in Due \ {made}
  <2>1. ASSUME NEW d, d # made PROVE d \in Due' <=> d \in Due
    BY <1>7, <1>13, <1>14, <1>16, <2>1 DEF DueParts
  <2>2. made \notin Due'
    BY <1>7, <1>16 DEF DueParts
  <2> QED BY <2>1, <2>2
<1>18. \A d : d \in Withdrawn' => d \in Withdrawn \ {made}
  BY <1>7, <1>15, <1>16 DEF DueParts
<1>19. made \in Done \cup Due \cup Withdrawn
  <2>1. made \in Posting(j)
    BY <1>6
  <2>2. made \in Carries(j) \/ made \in Posting(j) \ WantedBy(j.id)
    BY <1>3, <1>11, <2>1
  <2>3. Carried(made) \/ Unwanted(made)
    BY <2>2 DEF Carried, Unwanted
  <2> QED BY <1>16, <2>3 DEF DueParts
<1> QED BY <1>5, <1>7, <1>17, <1>18, <1>19 DEF made

\* Dispatches and tasks that are added, and nothing else.
LEMMA OthersOwe ==
    ASSUME WebhookInv,
           \/ \E m \in Messages : Notify(m)
           \/ \E id \in Id : Tick(id) \/ Emit(id)
           \/ DeleteTask \/ Refresh \/ UNCHANGED vars
    PROVE  Kept
<1>1. /\ waiting \in [Id -> Nat] /\ due \in [Id -> Nat] /\ emitted \in Id \cup {None}
      /\ None \notin Id
  BY WebhookAssumption DEF WebhookInv, TypeOK
<1>2. UNCHANGED <<stored, sent>>
  BY DEF Notify, Tick, Emit, DeleteTask, Refresh, vars, subscription
<1>3. /\ \A id : WantedBy(id)' = WantedBy(id)
      /\ \A k : Carries(k)' = Carries(k) /\ Posting(k)' = Posting(k)
      /\ Done' = Done
  BY <1>2 DEF WantedBy, Wanted, Carries, Posting, Done
<1>4. \A id \in Id : Ahead(id) \in Int
  BY <1>1 DEF Ahead
<1>5. DueParts /\ DueParts'
  BY DueLemma, PTL
<1>6. ASSUME DOMAIN jobs \subseteq DOMAIN jobs',
             \A j \in DOMAIN jobs' : j \in DOMAIN jobs \/ Posting(j) = {},
             \A id \in Id : \/ Ahead(id)' = Ahead(id)
                            \/ Load(id, 0) \in DOMAIN jobs'
      PROVE  Kept
  <2>1. \A d : Carried(d) => Carried(d)'
    BY <1>3, <1>6 DEF Carried
  <2>2. ASSUME NEW d, Stored(d) PROVE Carried(d)' \/ Stored(d)'
    <3>1. PICK id \in Id : Ahead(id) > 0 /\ d \in WantedBy(id)
      BY <2>2 DEF Stored
    <3>2. CASE Ahead(id)' = Ahead(id)
      BY <1>3, <3>1, <3>2 DEF Stored
    <3>3. CASE Load(id, 0) \in DOMAIN jobs'
      <4>1. Carries(Load(id, 0)) = WantedBy(id)
        BY DEF Carries, Load
      <4> QED BY <1>3, <3>1, <3>3, <4>1 DEF Carried
    <3> QED BY <1>6, <3>2, <3>3
  <2>3. \A d : Unwanted(d)' => Unwanted(d)
    BY <1>3, <1>6 DEF Unwanted
  <2>4. \A d : d \in Due => d \in Due'
    BY <1>3, <1>5, <2>1, <2>2 DEF DueParts
  <2>5. \A d : d \in Withdrawn' => d \in Withdrawn
    BY <1>3, <1>5, <2>3 DEF DueParts
  <2> QED BY <1>3, <2>4, <2>5 DEF Kept
<1>7. ASSUME NEW id, NEW n PROVE Posting(Load(id, n)) = {}
  <2>1. Load(id, n).left = <<>>
    BY DEF Load
  <2> QED BY <2>1, EmptyList DEF Posting
<1>8. CASE \E m \in Messages : Notify(m)
  <2>1. PICK m \in Messages : Notify(m)
    BY <1>8
  <2>2. /\ sub \in Channels /\ jobs' = jobs (+) Starts(m, sub)
        /\ UNCHANGED <<waiting, due, emitted>>
    BY <2>1 DEF Notify, WebhookInv, TypeOK, tasks
  <2>3. CASE Starts(m, sub) = SetToBag({})
    <3>1. jobs' = jobs
      BY <2>2, <2>3, BagPlusNone DEF WebhookInv
    <3> QED BY <1>6, <2>2, <3>1 DEF Ahead
  <2>4. CASE \E n \in 1..MaxHooks : Starts(m, sub) = SetToBag({Load(<<m, 1>>, n - 1)})
    <3>1. PICK n \in 1..MaxHooks : Starts(m, sub) = SetToBag({Load(<<m, 1>>, n - 1)})
      BY <2>4
    <3>2. DOMAIN jobs' = DOMAIN jobs \cup {Load(<<m, 1>>, n - 1)}
      BY <2>2, <3>1, PlusDomain
    <3> QED BY <1>6, <1>7, <2>2, <3>2 DEF Ahead
  <2> QED BY <2>2, <2>3, <2>4, StartsLemma
<1>9. CASE \E id \in Id : Emit(id)
  <2>1. PICK id \in Id : Emit(id)
    BY <1>9
  <2>2. DOMAIN jobs' = DOMAIN jobs \cup {Load(id, 0)}
    BY <2>1, PlusDomain DEF Emit
  <2>3. \A i \in Id : i # id => Ahead(i)' = Ahead(i)
    BY <1>1, <2>1 DEF Emit, Ahead, tasks
  <2> QED BY <1>6, <1>7, <2>2, <2>3
<1>10. CASE \E id \in Id : Tick(id)
  <2>1. \A i \in Id : Ahead(i)' = Ahead(i)
    BY <1>1, <1>10 DEF Tick, Ahead
  <2>2. jobs' = jobs
    BY <1>10 DEF Tick
  <2> QED BY <1>6, <2>1, <2>2
<1>11. CASE DeleteTask
  <2>1. emitted \in Id /\ jobs' = jobs
    BY <1>1, <1>11 DEF DeleteTask
  <2>2. \A i \in Id : Ahead(i)' = Ahead(i)
    BY <1>1, <1>11, <2>1 DEF DeleteTask, Ahead
  <2> QED BY <1>6, <2>1, <2>2
<1>12. CASE Refresh \/ UNCHANGED vars
  <2>1. UNCHANGED <<jobs, waiting, due, emitted>>
    BY <1>12 DEF Refresh, vars, tasks
  <2> QED BY <1>6, <2>1 DEF Ahead
<1> QED BY <1>8, <1>9, <1>10, <1>11, <1>12

LEMMA PromiseInit == Init => Promise!Init
<1> SUFFICES ASSUME Init PROVE Promise!Init
  OBVIOUS
<1>1. DOMAIN jobs = {}
  BY NoJobs DEF Init
<1>2. \A id \in Id : Ahead(id) = 0
  BY WebhookAssumption DEF Init, Ahead
<1>3. \A d : ~Carried(d) /\ ~Stored(d) /\ ~Unwanted(d)
  BY <1>1, <1>2 DEF Carried, Stored, Unwanted
<1>4. Due = {} /\ Withdrawn = {}
  BY <1>3, DueLemma DEF DueParts
<1>5. Done = {}
  <2>1. \A d \in Deliveries, id \in Id : sent[<<id, d[2]>>] = 0
    BY DEF Init, Deliveries
  <2>2. ASSUME NEW d \in Done PROVE FALSE
    <3>1. d \in Deliveries /\ \E id \in Id : sent[<<id, d[2]>>] > 0
      BY DEF Done
    <3> QED BY <2>1, <3>1
  <2> QED BY <2>2
<1> QED BY <1>4, <1>5 DEF Promise!Init, Init

LEMMA PromiseStep ==
    ASSUME WebhookInv, WebhookInv', [Next]_vars
    PROVE  Promise!Next
<1>0. DueFits'
  BY DueDeliveries, PTL
<1>1. Due' \subseteq Deliveries \ Done' /\ Withdrawn' \subseteq Deliveries \ Done'
  BY <1>0 DEF DueFits, Deliveries
<1>2. ASSUME Kept, UNCHANGED faults PROVE Promise!Owe
  BY <1>1, <1>2 DEF Promise!Owe, Kept
<1>3. ASSUME UNCHANGED sent, faults' = faults + 1 PROVE Promise!Fault
  <2>1. Done' = Done
    BY <1>3 DEF Done
  <2> QED BY <1>1, <1>3, <2>1 DEF Promise!Fault
<1>4. ASSUME NEW j \in DOMAIN jobs, Posted(j)
      PROVE  Promise!Owe \/ \E d \in Deliveries : Promise!Deliver(d)
  <2>1. /\ Doing(j) \in Deliveries /\ Done' = Done \cup {Doing(j)}
        /\ Doing(j) \in Done \cup Due \cup Withdrawn
        /\ Due' = Due \ {Doing(j)} /\ Withdrawn' \subseteq Withdrawn \ {Doing(j)}
    BY <1>4, PostedDelivers
  <2>2. faults' = faults
    BY <1>4 DEF Posted, bounds
  <2>3. CASE Doing(j) \in Done
    <3>1. Doing(j) \notin Due
      BY <2>3, DueDeliveries DEF DueFits
    <3>2. Kept
      BY <2>1, <2>3, <3>1 DEF Kept
    <3> QED BY <1>2, <2>2, <3>2
  <2>4. CASE Doing(j) \notin Done
    <3>1. Promise!Deliver(Doing(j))
      BY <2>1, <2>2, <2>4 DEF Promise!Deliver
    <3> QED BY <2>1, <3>1
  <2> QED BY <2>3, <2>4
<1>5. ASSUME NEW j \in DOMAIN jobs, GetChannels(j) \/ PostFails(j) \/ Schedule(j)
      PROVE  Promise!Owe
  <2>1. faults' = faults
    BY <1>5 DEF GetChannels, PostFails, Schedule, bounds
  <2>2. Kept
    BY <1>5, GetChannelsOwes, PostFailsOwes, ScheduleOwes
  <2> QED BY <1>2, <2>1, <2>2
<1>6. ASSUME \/ \E j \in DOMAIN jobs : ScheduleFails(j)
             \/ Crash \/ \E cs \in Channels \cup {None} : Change(cs)
      PROVE  Promise!Fault
  BY <1>3, <1>6 DEF ScheduleFails, Crash, Change
<1>7. ASSUME \/ \E m \in Messages : Notify(m)
             \/ \E id \in Id : Tick(id) \/ Emit(id)
             \/ DeleteTask \/ Refresh \/ UNCHANGED vars
      PROVE  Promise!Owe
  <2>1. faults' = faults
    BY <1>7 DEF Notify, Tick, Emit, DeleteTask, Refresh, vars, bounds
  <2>2. Kept
    BY <1>7, OthersOwe
  <2> QED BY <1>2, <2>1, <2>2
<1> QED BY <1>4, <1>5, <1>6, <1>7 DEF Next, Dispatch, BagToSet, Promise!Next

\* A delivery that is due stays due until an endpoint has accepted it: only a
\* crash, a change of the channels or a failing write loses one, however many
\* posts fail and whatever the channels (webhook.ts:76-160, scheduler.ts:104-119).
THEOREM Reliable == Spec => ReliableDelivery
<1>1. WebhookInv /\ WebhookInv' /\ [Next]_vars => [Promise!Next]_<<Due, Withdrawn, Done, faults>>
  BY PromiseStep
<1> QED BY <1>1, PromiseInit, WebhookInit, WebhookStep, PTL
        DEF Spec, ReliableDelivery, Promise!Safety
=============================================================================
