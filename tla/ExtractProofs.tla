---------------------------- MODULE ExtractProofs ----------------------------
(***************************************************************************)
(* Proofs about Extract, for any subscriptions and chains, any messages     *)
(* sent and executed and any number of failures.                           *)
(***************************************************************************)
EXTENDS Extract, FiniteSetTheorems, SequenceTheorems, WellFoundedInduction, TLAPS

(* Operators *)

\* A set of naturals has a least element.
LEMMA Least ==
    ASSUME NEW I \in SUBSET Nat, I # {}
    PROVE  \E i \in I : \A k \in I : i <= k
<1>1. PICK x \in I : \A y \in I : ~(<<y, x>> \in OpToRel(<, Nat))
  BY NatLessThanWellFounded, WFMin, ZenonT(60)
<1>2. \A y \in I : x <= y
  <2> SUFFICES ASSUME NEW y \in I PROVE ~(y < x)
    OBVIOUS
  <2>1. y < x => <<y, x>> \in OpToRel(<, Nat)
    BY DEF OpToRel
  <2> QED BY <1>1, <2>1
<1> QED BY <1>2

\* So does what Min is taken of.
LEMMA MinLemma ==
    ASSUME NEW I \in SUBSET Nat, I # {}
    PROVE  Min(I) \in I /\ \A k \in I : Min(I) <= k
<1>1. \E i \in I : \A k \in I : i <= k
  BY Least
<1> QED BY <1>1 DEF Min

\* What is found is in the sequence, is good, and stands alone if the sequence has one
\* element.
LEMMA SearchLemma ==
    ASSUME NEW S, NEW messages \in Seq(S), NEW bad, NEW good, NEW found,
           found = Search(messages, bad, good), found # None, found # Unread
    PROVE  /\ found \in S /\ found \in good
           /\ Len(messages) = 1 => messages = <<found>>
<1> DEFINE hits == {i \in DOMAIN messages : messages[i] \in bad \cup good}
<1>1. DOMAIN messages = 1 .. Len(messages) /\ Len(messages) \in Nat
  OBVIOUS
<1>2. hits # {} /\ hits \in SUBSET Nat
  BY <1>1 DEF Search
<1>3. Min(hits) \in hits
  BY <1>2, MinLemma
<1>4. found = messages[Min(hits)] /\ found \notin bad
  BY <1>2 DEF Search
<1>5. found \in S /\ found \in good
  BY <1>3, <1>4
<1>6. ASSUME Len(messages) = 1 PROVE messages = <<found>>
  BY <1>1, <1>3, <1>4, <1>6
<1> QED BY <1>5, <1>6

(* Sequences of sequences *)

\* f[i] is the first i of seqs one after the other.
Joins(seqs, n, f) ==
    f = [i \in 1 .. n |-> IF i = 1 THEN seqs[i] ELSE f[i - 1] \o seqs[i]]

\* What joins sequences exists.
LEMMA JoinsExist ==
    ASSUME NEW seqs, NEW n \in Nat
    PROVE  \E f : Joins(seqs, n, f)
<1> DEFINE Lacking == {k \in Nat : ~\E f : Joins(seqs, k, f)}
<1> SUFFICES ASSUME Lacking # {} PROVE FALSE
  OBVIOUS
<1>1. PICK k \in Lacking : \A j \in Lacking : k <= j
  BY Least
<1>2. CASE k = 0
  <2> DEFINE f == [i \in 1 .. 0 |-> <<>>]
  <2>1. Joins(seqs, 0, f)
    BY DEF Joins
  <2> QED BY <1>1, <1>2, <2>1
<1>3. CASE k # 0
  <2>1. k - 1 \in Nat /\ k - 1 \notin Lacking
    BY <1>1, <1>3
  <2>2. PICK h : Joins(seqs, k - 1, h)
    BY <2>1
  <2> DEFINE f == [i \in 1 .. k |-> IF i = 1 THEN seqs[i] ELSE h[i - 1] \o seqs[i]]
  <2>3. \A i \in 1 .. k - 1 : f[i] = h[i]
    <3>1. \A i \in 1 .. k - 1 : h[i] = IF i = 1 THEN seqs[i] ELSE h[i - 1] \o seqs[i]
      BY <2>2 DEF Joins
    <3>2. \A i \in 1 .. k - 1 : i \in 1 .. k
      BY <2>1
    <3> QED BY <3>1, <3>2
  <2>4. \A i \in 1 .. k : i # 1 => i - 1 \in 1 .. k - 1
    BY <2>1
  <2>5. Joins(seqs, k, f)
    BY <2>3, <2>4 DEF Joins
  <2> QED BY <1>1, <2>5
<1> QED BY <1>2, <1>3

\* What a concatenation holds.
LEMMA JoinToSet ==
    ASSUME NEW S, NEW s \in Seq(S), NEW t \in Seq(S)
    PROVE  s \o t \in Seq(S) /\ ToSet(s \o t) = ToSet(s) \cup ToSet(t)
<1> DEFINE c == s \o t
<1>1. /\ c \in Seq(S) /\ Len(c) = Len(s) + Len(t) /\ Len(s) \in Nat /\ Len(t) \in Nat
      /\ \A i \in 1 .. Len(s) + Len(t) :
             c[i] = IF i <= Len(s) THEN s[i] ELSE t[i - Len(s)]
  BY ConcatProperties
<1>2. DOMAIN c = 1 .. Len(s) + Len(t) /\ DOMAIN s = 1 .. Len(s) /\ DOMAIN t = 1 .. Len(t)
  BY <1>1
<1> HIDE DEF c
<1>3. \A i \in 1 .. Len(s) : i \in 1 .. Len(s) + Len(t) /\ c[i] = s[i]
  BY <1>1
<1>4. \A i \in 1 .. Len(t) : i + Len(s) \in 1 .. Len(s) + Len(t) /\ c[i + Len(s)] = t[i]
  BY <1>1
<1>5. \A i \in 1 .. Len(s) + Len(t) :
          i \in 1 .. Len(s) \/ (i - Len(s) \in 1 .. Len(t) /\ c[i] = t[i - Len(s)])
  BY <1>1
<1>6. ToSet(c) = ToSet(s) \cup ToSet(t)
  BY <1>2, <1>3, <1>4, <1>5 DEF ToSet
<1> QED BY <1>1, <1>6 DEF c

\* FlattenSeq joins the sequences: what it returns holds the elements of each, and no others.
LEMMA FlattenLemma ==
    ASSUME NEW S, NEW seqs \in Seq(Seq(S))
    PROVE  /\ FlattenSeq(seqs) \in Seq(S)
           /\ \A i \in DOMAIN seqs : ToSet(seqs[i]) \subseteq ToSet(FlattenSeq(seqs))
<1> DEFINE n == Len(seqs)
<1>1. n \in Nat /\ DOMAIN seqs = 1 .. n
  OBVIOUS
<1>2. CASE n = 0
  <2>1. FlattenSeq(seqs) = seqs /\ seqs = <<>>
    BY <1>2 DEF FlattenSeq
  <2> QED BY <1>1, <1>2, <2>1
<1>3. CASE n # 0
  <2>1. PICK f : Joins(seqs, n, f) /\ FlattenSeq(seqs) = f[n]
    <3> DEFINE g == CHOOSE f : Joins(seqs, n, f)
    <3>1. FlattenSeq(seqs) = g[n]
      BY <1>3 DEF FlattenSeq, Joins
    <3>2. \E f : Joins(seqs, n, f)
      BY <1>1, JoinsExist
    <3>3. Joins(seqs, n, g)
      BY <3>2
    <3> QED BY <3>1, <3>3
  <2>2. \A i \in 1 .. n : f[i] = IF i = 1 THEN seqs[i] ELSE f[i - 1] \o seqs[i]
    BY <2>1 DEF Joins
  <2> DEFINE Holds(k) == f[k] \in Seq(S) /\ \A i \in 1 .. k : ToSet(seqs[i]) \subseteq ToSet(f[k])
             Fails == {k \in 1 .. n : ~Holds(k)}
  <2>3. Fails = {}
    <3> SUFFICES ASSUME Fails # {} PROVE FALSE
      OBVIOUS
    <3>1. PICK k \in Fails : \A j \in Fails : k <= j
      <4>1. Fails \in SUBSET Nat
        BY <1>1
      <4> HIDE DEF Fails
      <4> QED BY <4>1, Least
    <3>2. k \in 1 .. n /\ ~Holds(k)
      OBVIOUS
    <3>3. k # 1
      <4> SUFFICES ASSUME k = 1 PROVE FALSE
        OBVIOUS
      <4>1. f[1] = seqs[1] /\ seqs[1] \in Seq(S)
        BY <1>1, <1>3, <2>2
      <4>2. Holds(1)
        BY <4>1
      <4> QED BY <3>2, <4>2
    <3>4. k - 1 \in 1 .. n /\ Holds(k - 1)
      <4>1. k - 1 \in 1 .. n /\ ~(k <= k - 1)
        BY <1>1, <3>2, <3>3
      <4>2. k - 1 \notin Fails
        BY <3>1, <4>1
      <4> QED BY <4>1, <4>2
    <3>5. f[k] = f[k - 1] \o seqs[k] /\ f[k - 1] \in Seq(S) /\ seqs[k] \in Seq(S)
      <4>1. seqs[k] \in Seq(S)
        BY <1>1, <3>2
      <4>2. f[k] = f[k - 1] \o seqs[k]
        BY <2>2, <3>2, <3>3
      <4> QED BY <3>4, <4>1, <4>2
    <3>6. f[k] \in Seq(S) /\ ToSet(f[k]) = ToSet(f[k - 1]) \cup ToSet(seqs[k])
      BY <3>5, JoinToSet
    <3>7. ASSUME NEW i \in 1 .. k PROVE ToSet(seqs[i]) \subseteq ToSet(f[k])
      <4>1. CASE i = k
        BY <3>6, <4>1
      <4>2. CASE i # k
        <5>1. i \in 1 .. k - 1
          BY <1>1, <3>2, <4>2
        <5> QED BY <3>4, <3>6, <5>1
      <4> QED BY <4>1, <4>2
    <3> QED BY <3>2, <3>6, <3>7
  <2>4. n \in 1 .. n
    BY <1>1, <1>3
  <2>5. Holds(n)
    BY <2>3, <2>4
  <2> QED BY <1>1, <2>1, <2>5
<1> QED BY <1>2, <1>3

\* The messages of a queue that go to some of the chains: all of them, and no others.
LEMMA MsgsToLemma ==
    ASSUME NEW S, NEW messages \in Seq(S), NEW chains
    PROVE  /\ MsgsTo(messages, chains) \in Seq({m \in S : Hop(m) \in chains})
           /\ \A m \in ToSet(messages) :
                  Hop(m) \in chains => m \in ToSet(MsgsTo(messages, chains))
<1> DEFINE Those == {m \in S : Hop(m) \in chains}
           places == {i \in DOMAIN messages : Hop(messages[i]) \in chains}
           seqs == [i \in DOMAIN messages |-> IF i \in places THEN <<messages[i]>> ELSE <<>>]
<1>1. seqs \in Seq(Seq(Those)) /\ DOMAIN seqs = DOMAIN messages
  <2>1. DOMAIN messages = 1 .. Len(messages) /\ Len(messages) \in Nat
    OBVIOUS
  <2>2. ASSUME NEW i \in DOMAIN messages PROVE seqs[i] \in Seq(Those)
    <3>1. messages[i] \in S
      BY <2>1
    <3>2. CASE Hop(messages[i]) \in chains
      <4>1. messages[i] \in Those
        BY <3>1, <3>2
      <4> HIDE DEF Those
      <4>2. <<messages[i]>> \in Seq(Those)
        BY <4>1
      <4> QED BY <3>2, <4>2
    <3>3. CASE Hop(messages[i]) \notin chains
      BY <3>3
    <3> QED BY <3>2, <3>3
  <2> HIDE DEF Those
  <2> QED BY <2>1, <2>2
<1>2. MsgsTo(messages, chains) = FlattenSeq(seqs)
  BY DEF MsgsTo, Kept
<1>3. /\ FlattenSeq(seqs) \in Seq(Those)
      /\ \A i \in DOMAIN seqs : ToSet(seqs[i]) \subseteq ToSet(FlattenSeq(seqs))
  <2> HIDE DEF Those, seqs
  <2> QED BY <1>1, FlattenLemma
<1>4. ASSUME NEW m \in ToSet(messages), Hop(m) \in chains
      PROVE  m \in ToSet(FlattenSeq(seqs))
  <2>1. PICK i \in DOMAIN messages : messages[i] = m
    BY DEF ToSet
  <2>2. seqs[i] = <<m>>
    BY <1>4, <2>1
  <2>3. m \in ToSet(seqs[i])
    BY <2>2 DEF ToSet
  <2> QED BY <1>1, <1>3, <2>3
<1> QED BY <1>2, <1>3, <1>4

(* Stops *)

\* How a location is read by a chain of the consensus it was written in: as what was
\* meant, or as a parachain of another consensus, which throws, or as nothing.
LEMMA LocationLemma ==
    ASSUME NEW a \in Chains, NEW b \in Chains, NEW n \in Chains, a # b, n[1] = a[1],
           ~InEthereum(a), NEW ver
    PROVE  networkIdFromMultiLocation(Location(ver, a, b), n) =
               IF a[1] = b[1] \/ (InEthereum(b) /\ ver = "V3" /\ ~isRelay(a)) THEN b
               ELSE IF ~isRelay(b) /\ ~InEthereum(b) THEN Unread
               ELSE None
<1> DEFINE loc == Location(ver, a, b)
<1>1. /\ a = <<a[1], a[2]>> /\ b = <<b[1], b[2]>> /\ n = <<n[1], n[2]>>
      /\ a[1] \in STRING /\ a[2] \in STRING /\ b[1] \in STRING /\ b[2] \in STRING
  BY DEF Chains
<1>2. b[1] # None /\ b[2] \notin {None, Unread}
  <2>1. None \notin STRING /\ Unread \notin STRING
    BY ValuesAssumption
  <2> QED BY <1>1, <2>1
<1>3. CASE a[1] = b[1]
  <2>1. ~InEthereum(b)
    BY <1>3 DEF InEthereum
  <2>2. /\ loc.global = None
        /\ loc.para = IF isRelay(b) THEN None ELSE b[2]
        /\ loc.parents = IF isRelay(a) THEN 0 ELSE 1
    BY <1>3, <2>1 DEF Location
  <2>3. isRelay(b) => ~isRelay(a)
    BY <1>1, <1>3 DEF isRelay
  <2> HIDE DEF loc
  <2>4. getParaIdFromMultiLocation(loc) = b[2]
    <3>1. CASE isRelay(b)
      BY <2>2, <2>3, <3>1 DEF getParaIdFromMultiLocation, isRelay, isHere
    <3>2. CASE ~isRelay(b)
      <4>1. ~isHere(loc) /\ isX1(loc)
        BY <1>2, <2>2, <3>2 DEF isHere, isX1
      <4> QED BY <2>2, <3>2, <4>1 DEF getParaIdFromMultiLocation
    <3> QED BY <3>1, <3>2
  <2>5. networkIdFromMultiLocation(loc, n) = createNetworkId(n, b[2])
    BY <1>2, <2>2, <2>4 DEF networkIdFromMultiLocation
  <2> QED BY <1>1, <1>3, <2>5 DEF createNetworkId, loc
<1>4. CASE a[1] # b[1]
  <2>1. /\ loc.ver = ver /\ loc.global = b[1]
        /\ loc.chainId = IF InEthereum(b) THEN b[2] ELSE None
        /\ loc.para = IF isRelay(b) \/ InEthereum(b) THEN None ELSE b[2]
        /\ loc.parents = IF isRelay(a) THEN 1 ELSE 2
    BY <1>4 DEF Location
  <2> HIDE DEF loc
  <2>2. ~isHere(loc) /\ loc.global # None
    BY <1>2, <2>1 DEF isHere
  <2>3. CASE ~isRelay(b) /\ ~InEthereum(b)
    <3>1. ~isX1(loc)
      BY <1>2, <2>1, <2>2, <2>3 DEF isX1
    <3>2. networkIdFromMultiLocation(loc, n) = Unread
      BY <2>1, <2>2, <3>1 DEF networkIdFromMultiLocation, getParaIdFromMultiLocation
    <3> QED BY <1>4, <2>3, <3>2 DEF loc
  <2>4. CASE isRelay(b) \/ InEthereum(b)
    <3>1. isX1(loc) /\ loc.para = None
      BY <2>1, <2>2, <2>4 DEF isX1
    <3>2. CASE isRelay(a)
      <4>1. networkIdFromMultiLocation(loc, n) = None
        BY <2>1, <2>2, <3>1, <3>2 DEF networkIdFromMultiLocation, getParaIdFromMultiLocation
      <4> QED BY <1>4, <2>4, <3>2, <4>1 DEF loc
    <3>3. CASE ~isRelay(a)
      <4>1. networkIdFromMultiLocation(loc, n) =
                IF ver = "V3" /\ InEthereum(b) THEN <<b[1], b[2]>> ELSE None
        BY <1>2, <2>1, <3>1, <3>3 DEF networkIdFromMultiLocation
      <4> QED BY <1>1, <1>4, <2>4, <3>3, <4>1 DEF loc
    <3> QED BY <3>2, <3>3
  <2> QED BY <2>3, <2>4
<1> QED BY <1>3, <1>4

\* f gives the chains the first n destinations of a program are, as far as they are named.
Names(network, program, n, f) ==
    f = [i \in 0 .. n |->
            IF i = 0 THEN network
            ELSE IF f[program[i].in] \in {None, Unread} THEN None
            ELSE networkIdFromMultiLocation(program[i].dest, f[program[i].in])]

\* What names them exists.
LEMMA NamesExist ==
    ASSUME NEW network, NEW program, NEW n \in Nat,
           \A i \in 1 .. n : program[i].in \in 0 .. i - 1
    PROVE  \E f : Names(network, program, n, f)
<1> DEFINE Lacking == {k \in 0 .. n : ~\E f : Names(network, program, k, f)}
<1> SUFFICES ASSUME Lacking # {} PROVE FALSE
  OBVIOUS
<1>1. PICK k \in Lacking : \A j \in Lacking : k <= j
  <2>1. Lacking \in SUBSET Nat
    OBVIOUS
  <2> HIDE DEF Lacking
  <2> QED BY <2>1, Least
<1>2. CASE k = 0
  <2> DEFINE f == [i \in 0 .. 0 |-> network]
  <2>1. Names(network, program, 0, f)
    BY DEF Names
  <2> QED BY <1>1, <1>2, <2>1
<1>3. CASE k # 0
  <2>1. k - 1 \in 0 .. n /\ k - 1 \notin Lacking
    BY <1>1, <1>3
  <2>2. PICK h : Names(network, program, k - 1, h)
    BY <2>1
  <2> DEFINE f == [i \in 0 .. k |->
                      IF i = 0 THEN network
                      ELSE IF h[program[i].in] \in {None, Unread} THEN None
                      ELSE networkIdFromMultiLocation(program[i].dest, h[program[i].in])]
  <2>3. \A i \in 0 .. k - 1 : f[i] = h[i]
    <3>1. \A i \in 0 .. k - 1 :
              h[i] = IF i = 0 THEN network
                     ELSE IF h[program[i].in] \in {None, Unread} THEN None
                     ELSE networkIdFromMultiLocation(program[i].dest, h[program[i].in])
      BY <2>2 DEF Names
    <3>2. \A i \in 0 .. k - 1 : i \in 0 .. k
      BY <2>1
    <3> QED BY <3>1, <3>2
  <2>4. \A i \in 0 .. k : i # 0 => program[i].in \in 0 .. k - 1
    <3>1. k \in 0 .. n
      BY <1>1
    <3>2. \A i \in 0 .. k : i # 0 => i \in 1 .. n /\ \A j \in 0 .. i - 1 : j \in 0 .. k - 1
      BY <3>1
    <3> QED BY <3>2
  <2>5. f = [i \in 0 .. k |->
                IF i = 0 THEN network
                ELSE IF f[program[i].in] \in {None, Unread} THEN None
                ELSE networkIdFromMultiLocation(program[i].dest, f[program[i].in])]
    BY <2>3, <2>4
  <2>6. Names(network, program, k, f)
    <3> HIDE DEF f
    <3> QED BY <2>5 DEF Names
  <2> QED BY <1>1, <2>6
<1> QED BY <1>2, <1>3

\* A message that the chain o may send (MessagesAssumption).
Travels(m, o) ==
    /\ o \in Chains /\ m.path \in Seq(Chains) /\ m.path # <<>> /\ m.path[1][1] = o[1]
    /\ ~InEthereum(m.path[1]) /\ m.sender \in [DOMAIN m.path -> Nat]
    /\ \A i \in 2 .. Len(m.path) :
           /\ m.sender[i] \in 1 .. i - 1
           /\ m.path[i] # m.path[m.sender[i]] /\ ~InEthereum(m.path[m.sender[i]])

\* S are the stops of m that can be named, and what they send to is no parachain of
\* another consensus.
Named(m, S) ==
    /\ S \in SUBSET DOMAIN m.path /\ 1 \in S
    /\ \A i \in 2 .. Len(m.path) : i \in S <=> m.sender[i] \in S /\ Nameable(m, i)

Bridges(m, S) == \E i \in 2 .. Len(m.path) : m.sender[i] \in S /\ Bridged(m, i)

\* The chain a stop is read for is known by its consensus at least, and so what the
\* program says of the stop is what was meant, or throws, or is nothing.
LEMMA ReadLemma ==
    ASSUME NEW o, NEW m, Travels(m, o), NEW f,
           Names(o, Program(m), Len(m.path) - 1, f), NEW i \in 2 .. Len(m.path),
           m.sender[i] # 1 => f[m.sender[i] - 1] \in {None, Unread, m.path[m.sender[i]]}
    PROVE  f[i - 1] = IF m.sender[i] # 1 /\ f[m.sender[i] - 1] \in {None, Unread} THEN None
                      ELSE IF Nameable(m, i) THEN m.path[i]
                      ELSE IF Bridged(m, i) THEN Unread
                      ELSE None
<1> DEFINE n == Len(m.path) - 1
           j == m.sender[i]
           from == m.path[j]
<1>1. n \in Nat /\ i - 1 \in 1 .. n /\ j \in 1 .. i - 1 /\ (i - 1) + 1 = i
      /\ i \in DOMAIN m.path /\ j \in DOMAIN m.path
  <2>1. DOMAIN m.path = 1 .. Len(m.path) /\ Len(m.path) \in Nat /\ j \in 1 .. i - 1
    BY DEF Travels
  <2> QED BY <2>1
<1>2. /\ Program(m)[i - 1].dest = Location(m.ver, from, m.path[i])
      /\ Program(m)[i - 1].in = j - 1
  BY <1>1 DEF Program
<1>3. /\ from \in Chains /\ m.path[i] \in Chains /\ m.path[i] # from /\ ~InEthereum(from)
      /\ o \in Chains /\ m.path[1][1] = o[1]
  BY <1>1 DEF Travels
<1> HIDE DEF n, j, from
<1>4. /\ f[0] = o
      /\ f[i - 1] = IF f[j - 1] \in {None, Unread} THEN None
                    ELSE networkIdFromMultiLocation(Location(m.ver, from, m.path[i]), f[j - 1])
  BY <1>1, <1>2 DEF Names, n
<1>5. CASE j # 1 /\ f[j - 1] \in {None, Unread}
  BY <1>4, <1>5 DEF j
<1>6. CASE ~(j # 1 /\ f[j - 1] \in {None, Unread})
  <2>1. f[j - 1] \in Chains /\ f[j - 1][1] = from[1]
    <3>1. CASE j = 1
      BY <1>3, <1>4, <3>1 DEF from
    <3>2. CASE j # 1
      BY <1>3, <1>6, <3>2 DEF from, j
    <3> QED BY <3>1, <3>2
  <2>2. f[j - 1] \notin {None, Unread}
    BY <2>1, ValuesAssumption
  <2>3. f[i - 1] = networkIdFromMultiLocation(Location(m.ver, from, m.path[i]), f[j - 1])
    BY <1>4, <2>2
  <2>4. f[i - 1] =
            IF from[1] = m.path[i][1] \/ (InEthereum(m.path[i]) /\ m.ver = "V3" /\ ~isRelay(from))
            THEN m.path[i]
            ELSE IF ~isRelay(m.path[i]) /\ ~InEthereum(m.path[i]) THEN Unread
            ELSE None
    BY <1>3, <2>1, <2>3, LocationLemma
  <2> QED BY <1>6, <2>4 DEF Nameable, Bridged, from, j
<1> QED BY <1>5, <1>6

\* The stops extracted of the program of m, after the first of them, are those that can be
\* named, and there are none exactly if one of them sends to a parachain of another consensus.
LEMMA StopsLemma ==
    ASSUME NEW o, NEW m, Travels(m, o)
    PROVE  \E S : /\ Named(m, S)
                  /\ recursiveExtractStops(o, Program(m)) =
                         IF Bridges(m, S) THEN Unread
                         ELSE Kept(Tail(m.path), {i - 1 : i \in S \ {1}})
<1> DEFINE n == Len(m.path) - 1
           program == Program(m)
<1>1. /\ n \in Nat /\ Len(m.path) = n + 1 /\ DOMAIN m.path = 1 .. n + 1
      /\ \A i \in 1 .. n + 1 : m.path[i] \in Chains
  <2>1. m.path \in Seq(Chains) /\ m.path # <<>>
    BY DEF Travels
  <2>2. Len(m.path) \in Nat /\ Len(m.path) # 0 /\ DOMAIN m.path = 1 .. Len(m.path)
    BY <2>1, EmptySeq
  <2> QED BY <2>1, <2>2
<1> HIDE DEF n
<1>2. /\ Len(program) = n /\ DOMAIN program = 1 .. n
      /\ \A i \in 1 .. n : program[i].in = m.sender[i + 1] - 1
  BY <1>1 DEF Program, n
<1>3. \A i \in 1 .. n : program[i].in \in 0 .. i - 1
  <2> SUFFICES ASSUME NEW i \in 1 .. n PROVE m.sender[i + 1] - 1 \in 0 .. i - 1
    BY <1>2
  <2>1. i + 1 \in 2 .. Len(m.path) /\ (i + 1) - 1 = i
    BY <1>1
  <2>2. m.sender[i + 1] \in 1 .. i
    BY <2>1 DEF Travels
  <2> QED BY <2>2
<1> HIDE DEF program
<1>4. PICK f : /\ Names(o, program, n, f)
               /\ recursiveExtractStops(o, program) =
                      IF \E i \in 1 .. n : f[i] = Unread THEN Unread
                      ELSE Kept([i \in 1 .. n |-> f[i]], {i \in 1 .. n : f[i] # None})
  <2> DEFINE g == CHOOSE f : Names(o, program, n, f)
  <2>1. recursiveExtractStops(o, program) =
            IF \E i \in 1 .. n : g[i] = Unread THEN Unread
            ELSE Kept([i \in 1 .. n |-> g[i]], {i \in 1 .. n : g[i] # None})
    BY <1>2 DEF recursiveExtractStops, Names
  <2>2. \E f : Names(o, program, n, f)
    BY <1>1, <1>3, NamesExist
  <2>3. Names(o, program, n, g)
    BY <2>2
  <2> QED BY <2>1, <2>3
<1> DEFINE Reads(i) ==
        f[i - 1] = IF m.sender[i] # 1 /\ f[m.sender[i] - 1] \in {None, Unread} THEN None
                   ELSE IF Nameable(m, i) THEN m.path[i]
                   ELSE IF Bridged(m, i) THEN Unread
                   ELSE None
<1>5. Names(o, Program(m), Len(m.path) - 1, f)
  BY <1>4 DEF program, n
<1>6. \A i \in 2 .. n + 1 : m.sender[i] \in 1 .. i - 1
  BY <1>1 DEF Travels
<1>7. \A i \in 2 .. n + 1 : f[i - 1] \in {None, Unread, m.path[i]}
  <2> DEFINE Bad == {i \in 2 .. n + 1 : f[i - 1] \notin {None, Unread, m.path[i]}}
  <2> SUFFICES ASSUME Bad # {} PROVE FALSE
    OBVIOUS
  <2>1. PICK b \in Bad : \A i \in Bad : b <= i
    <3>1. Bad \in SUBSET Nat
      OBVIOUS
    <3> HIDE DEF Bad
    <3> QED BY <3>1, Least
  <2>2. b \in 2 .. n + 1 /\ f[b - 1] \notin {None, Unread, m.path[b]}
    OBVIOUS
  <2> DEFINE j == m.sender[b]
  <2>3. j \in 1 .. b - 1
    BY <1>6, <2>2
  <2>4. j # 1 => j \in 2 .. n + 1 /\ ~(b <= j)
    BY <1>1, <2>2, <2>3
  <2>5. j # 1 => f[j - 1] \in {None, Unread, m.path[j]}
    BY <2>1, <2>4
  <2>6. Reads(b)
    BY <1>1, <1>5, <2>2, <2>5, ReadLemma
  <2> QED BY <2>2, <2>6
<1>8. ASSUME NEW i \in 2 .. n + 1 PROVE Reads(i)
  <2>1. m.sender[i] # 1 => m.sender[i] \in 2 .. n + 1
    BY <1>1, <1>6
  <2>2. m.sender[i] # 1 => f[m.sender[i] - 1] \in {None, Unread, m.path[m.sender[i]]}
    BY <1>7, <2>1
  <2>3. i \in 2 .. Len(m.path)
    BY <1>1
  <2> QED BY <1>5, <2>2, <2>3, ReadLemma
<1>9. /\ None \notin Chains /\ Unread \notin Chains /\ None # Unread
      /\ \A i \in 2 .. n + 1 : i - 1 \in 1 .. n /\ (i - 1) + 1 = i
      /\ \A i \in 1 .. n : i + 1 \in 2 .. n + 1 /\ (i + 1) - 1 = i
  BY <1>1, ValuesAssumption
<1> DEFINE S == {1} \cup {i \in 2 .. n + 1 : f[i - 1] = m.path[i]}
<1>10. \A i \in 2 .. n + 1 : i \in S <=> f[i - 1] \notin {None, Unread}
  BY <1>1, <1>7, <1>9
<1>11. \A i \in 2 .. n + 1 :
           m.sender[i] \in S <=> ~(m.sender[i] # 1 /\ f[m.sender[i] - 1] \in {None, Unread})
  <2> SUFFICES ASSUME NEW i \in 2 .. n + 1
               PROVE  m.sender[i] \in S <=>
                          ~(m.sender[i] # 1 /\ f[m.sender[i] - 1] \in {None, Unread})
    OBVIOUS
  <2>1. m.sender[i] # 1 => m.sender[i] \in 2 .. n + 1
    BY <1>1, <1>6
  <2> QED BY <1>10, <2>1
<1>12. ASSUME NEW i \in 2 .. n + 1
       PROVE  /\ i \in S <=> m.sender[i] \in S /\ Nameable(m, i)
              /\ f[i - 1] = Unread <=> m.sender[i] \in S /\ Bridged(m, i)
  <2>1. Nameable(m, i) => ~Bridged(m, i)
    BY DEF Nameable, Bridged
  <2>2. m.path[i] \in Chains
    BY <1>1
  <2>3. Reads(i) /\ (i \in S <=> f[i - 1] \notin {None, Unread})
        /\ (m.sender[i] \in S <=> ~(m.sender[i] # 1 /\ f[m.sender[i] - 1] \in {None, Unread}))
    BY <1>8, <1>10, <1>11
  <2> HIDE DEF S
  <2> QED BY <1>9, <2>1, <2>2, <2>3
<1>13. Named(m, S)
  <2>1. S \in SUBSET DOMAIN m.path /\ 1 \in S
    BY <1>1
  <2> HIDE DEF S
  <2> QED BY <1>1, <1>12, <2>1 DEF Named
<1>14. Bridges(m, S) <=> \E i \in 1 .. n : f[i] = Unread
  <2> HIDE DEF S, Reads
  <2>1. Bridges(m, S) <=> \E i \in 2 .. n + 1 : f[i - 1] = Unread
    BY <1>1, <1>12 DEF Bridges
  <2> QED BY <1>9, <2>1
<1>15. ASSUME ~Bridges(m, S)
       PROVE  Kept([i \in 1 .. n |-> f[i]], {i \in 1 .. n : f[i] # None})
                  = Kept(Tail(m.path), {i - 1 : i \in S \ {1}})
  <2> DEFINE rest == Tail(m.path)
             T == {i \in 1 .. n : f[i] # None}
             U == {i - 1 : i \in S \ {1}}
  <2>1. DOMAIN rest = 1 .. n /\ \A i \in 1 .. n : rest[i] = m.path[i + 1]
    <3>1. m.path \in Seq(Chains) /\ m.path # <<>>
      BY DEF Travels
    <3>2. rest \in Seq(Chains) /\ Len(rest) = Len(m.path) - 1
          /\ \A i \in 1 .. Len(m.path) - 1 : rest[i] = m.path[i + 1]
      BY <3>1, HeadTailProperties
    <3> HIDE DEF rest
    <3> QED BY <1>1, <3>2
  <2>2. \A i \in 1 .. n : f[i] # Unread
    BY <1>14, <1>15
  <2>3. \A i \in 1 .. n : i \in T <=> i + 1 \in S
    BY <1>9, <1>10, <2>2
  <2>4. T = U
    <3>1. S \ {1} \subseteq 2 .. n + 1
      OBVIOUS
    <3>2. U \subseteq T
      <4> SUFFICES ASSUME NEW i \in S \ {1} PROVE i - 1 \in T
        OBVIOUS
      <4> HIDE DEF S, T
      <4>1. i - 1 \in 1 .. n /\ (i - 1) + 1 = i
        BY <1>9, <3>1
      <4> QED BY <2>3, <4>1
    <3>3. T \subseteq U
      <4> SUFFICES ASSUME NEW i \in T PROVE \E k \in S \ {1} : i = k - 1
        OBVIOUS
      <4>1. i \in 1 .. n
        OBVIOUS
      <4> HIDE DEF S, T
      <4>2. i + 1 \in S /\ i + 1 # 1 /\ i = (i + 1) - 1
        BY <2>3, <4>1
      <4> QED BY <4>2
    <3> QED BY <3>2, <3>3
  <2>5. ASSUME NEW i \in 1 .. n, i \in T PROVE f[i] = rest[i]
    <3>1. i + 1 \in S /\ i + 1 \in 2 .. n + 1 /\ i + 1 # 1 /\ (i + 1) - 1 = i
      <4> HIDE DEF S, T
      <4> QED BY <1>9, <2>3, <2>5
    <3>2. f[(i + 1) - 1] = m.path[i + 1]
      BY <3>1
    <3> HIDE DEF rest
    <3> QED BY <2>1, <3>1, <3>2
  <2> HIDE DEF T, U, S, rest
  <2>6. [i \in 1 .. n |-> IF i \in T THEN <<[k \in 1 .. n |-> f[k]][i]>> ELSE <<>>]
            = [i \in DOMAIN rest |-> IF i \in T THEN <<rest[i]>> ELSE <<>>]
    BY <2>1, <2>5
  <2>7. Kept([i \in 1 .. n |-> f[i]], T) = Kept(rest, T)
    BY <2>6 DEF Kept
  <2> QED BY <2>4, <2>7 DEF T, U, rest
<1> HIDE DEF S
<1>16. recursiveExtractStops(o, Program(m)) =
           IF Bridges(m, S) THEN Unread ELSE Kept(Tail(m.path), {i - 1 : i \in S \ {1}})
  BY <1>4, <1>14, <1>15 DEF program
<1> QED BY <1>13, <1>16

(* What is known of the observations *)

\* What the origin sends, and what of it goes first to one of the chains.
Own == {m \in sub.msgs : m.from = sub.origin}
Towards(chains) == {m \in Own : Hop(m) \in chains}

\* A page that is not of messages has none.
Fragments ==
    {p \in [to : Chains, format : {"fragments", "signals", "unknown"}, data : Seq(Own)] :
         p.format # "fragments" => p.data = <<>>}

\* A query looks for its message where it can be: downward, in the queue of the chain it
\* goes to, with it in there.
QueryFits(q) ==
    /\ q.by \in {"dmp", "dmpEvent", "xcmp", "ump"} /\ q.msg \in Own
    /\ q.by \in {"dmp", "dmpEvent"} => /\ q.storage \in Seq(Towards({Hop(q.msg)}))
                                       /\ q.msg \in ToSet(q.storage)
    /\ q.by = "xcmp" => q.storage \in Seq(Fragments)
    /\ q.by = "ump" => q.storage \in Seq(Towards({getRelayId(sub.origin)}))
    /\ q.by = "dmp" => q.msg.via = "transfer"
    /\ q.by = "dmpEvent" => q.id = IdOf(q.msg)
    /\ q.by \in {"xcmp", "ump"} => \/ q.id = IdOf(q.msg)
                                   \/ q.id = NoId /\ q.hash = q.msg.hash

\* What told a message to the query of a report.
ToldBy(r) ==
    \/ r.msg = r.cause
    \/ r.by = "dmp" /\ r.cause.via = "transfer" /\ r.msg.shape = r.cause.shape
    \/ r.by \in {"xcmp", "ump"} /\ r.msg.hash = r.cause.hash
    \/ r.id # NoId /\ r.id = IdOf(r.cause)

ReportFits(r) ==
    /\ r.msg \in Own /\ r.cause \in Own
    /\ r.hash = r.msg.hash /\ r.id = getMessageId(r.msg)
    /\ r.stops = mapXcmSent(Hop(r.msg), r.msg) /\ r.stops # Unread
    /\ ToldBy(r)

\* The inductive invariant of the outbound observations.
ReportInv ==
    /\ sub \in Routes /\ up \subseteq Streams(sub)
    /\ queue \in Seq(Own)
    /\ \A q \in pending : QueryFits(q)
    /\ \A r \in reports : ReportFits(r)

\* That of the relayed ones: the candidates, and what was reported of one message.
RelayInv ==
    /\ candidates \in Seq(Seq(Fragments))
    /\ \A l \in relayed : l.id = IF getMessageId(l.msg) = NoId THEN l.msg.hash
                                 ELSE getMessageId(l.msg)
    /\ OnlyFirstRecipientsAreRelayed

\* That of the inbound ones: an event names the message by what XcmInbound keeps, and no
\* trap waits for an outcome that is not of its message.
InboundInv ==
    /\ prev = None \/ prev.method # "AssetsTrapped"
    /\ \A i \in inbound :
           /\ i.msg \in sub.msgs
           /\ i.hash = i.msg.hash \/ i.id = i.msg.hash \/ i.id = IdOf(i.msg)
    /\ OnlyFirstOutcomesAreMissed

\* The chains of a subscription, and what is known of its messages.
LEMMA OriginFacts ==
    ASSUME sub \in Routes
    PROVE  /\ sub.origin \in Chains /\ IsFiniteSet(sub.msgs)
           /\ \A n : createNetworkId(sub.origin, n) = <<sub.origin[1], n>>
           /\ \A m \in Own : /\ m \in sub.msgs /\ m.from = sub.origin
                             /\ Hop(m) \in Chains /\ Hop(m) # sub.origin
                             /\ Hop(m) = <<sub.origin[1], Hop(m)[2]>>
<1>1. sub.origin \in Chains /\ IsFiniteSet(sub.msgs)
  BY ValuesAssumption
<1>2. \A n : createNetworkId(sub.origin, n) = <<sub.origin[1], n>>
  BY DEF createNetworkId
<1>3. ASSUME NEW m \in Own
      PROVE  /\ m \in sub.msgs /\ m.from = sub.origin
             /\ Hop(m) \in Chains /\ Hop(m) # sub.origin
             /\ Hop(m) = <<sub.origin[1], Hop(m)[2]>>
  <2>1. m \in sub.msgs /\ m.from = sub.origin
    BY DEF Own
  <2>2. m.path \in Seq(Chains) /\ m.path # <<>> /\ m.path[1][1] = m.from[1] /\ m.path[1] # m.from
    BY <2>1, MessagesAssumption
  <2>3. m.path[1] \in Chains
    BY <2>2, EmptySeq
  <2> QED BY <2>1, <2>2, <2>3 DEF Hop, Chains
<1> QED BY <1>1, <1>2, <1>3

\* What is read of a page: its messages up to the first that does not decode.
LEMMA FragmentsLemma ==
    ASSUME NEW S, NEW data \in Seq(S)
    PROVE  /\ asXcmpVersionedXcms(data) \in Seq(S)
           /\ \A j \in DOMAIN data :
                  (\A k \in 1 .. j : Decodes(data[k])) =>
                      data[j] \in ToSet(asXcmpVersionedXcms(data))
<1> DEFINE bad == {i \in DOMAIN data : ~Decodes(data[i])}
<1>1. DOMAIN data = 1 .. Len(data) /\ Len(data) \in Nat
  OBVIOUS
<1>2. CASE bad = {}
  <2>1. asXcmpVersionedXcms(data) = data
    BY <1>2 DEF asXcmpVersionedXcms
  <2> QED BY <2>1 DEF ToSet
<1>3. CASE bad # {}
  <2> DEFINE b == Min(bad)
  <2>1. b \in bad /\ \A k \in bad : b <= k
    <3>1. bad \in SUBSET Nat
      BY <1>1
    <3> HIDE DEF bad
    <3> QED BY <1>3, <3>1, MinLemma
  <2>2. asXcmpVersionedXcms(data) = SubSeq(data, 1, b - 1)
    BY <1>3 DEF asXcmpVersionedXcms
  <2>3. b \in 1 .. Len(data) /\ ~Decodes(data[b])
    BY <1>1, <2>1
  <2> HIDE DEF b, bad
  <2>4. /\ SubSeq(data, 1, b - 1) \in Seq(S)
        /\ DOMAIN SubSeq(data, 1, b - 1) = 1 .. b - 1
        /\ \A j \in 1 .. b - 1 : SubSeq(data, 1, b - 1)[j] = data[j]
    BY <1>1, <2>3
  <2>5. ASSUME NEW j \in DOMAIN data, \A k \in 1 .. j : Decodes(data[k])
        PROVE  data[j] \in ToSet(SubSeq(data, 1, b - 1))
    <3>1. b \notin 1 .. j
      BY <2>3, <2>5
    <3>2. j \in 1 .. b - 1
      BY <1>1, <2>3, <3>1
    <3> QED BY <2>4, <3>2 DEF ToSet
  <2> QED BY <2>2, <2>4, <2>5
<1> QED BY <1>2, <1>3

LEMMA PageLemma ==
    ASSUME NEW p \in Fragments
    PROVE  /\ p.to \in Chains /\ p.data \in Seq(Own)
           /\ fromXcmpFormat(p) = Unread \/ fromXcmpFormat(p) \in Seq(Own)
           /\ p.format = "fragments" => fromXcmpFormat(p) = asXcmpVersionedXcms(p.data)
           /\ p.format # "fragments" => p.data = <<>>
<1>1. /\ p.to \in Chains /\ p.data \in Seq(Own) /\ p.format \in {"fragments", "signals", "unknown"}
      /\ p.format # "fragments" => p.data = <<>>
  BY DEF Fragments
<1>2. asXcmpVersionedXcms(p.data) \in Seq(Own)
  BY <1>1, FragmentsLemma
<1>3. fromXcmpFormat(p) = IF p.format = "fragments" THEN asXcmpVersionedXcms(p.data)
                          ELSE IF p.format = "signals" THEN <<>> ELSE Unread
  BY <1>1 DEF fromXcmpFormat
<1> QED BY <1>1, <1>2, <1>3

\* A page that cannot be read is of an unknown format.
LEMMA UnknownLemma ==
    ASSUME sub \in Routes, NEW p \in Fragments, fromXcmpFormat(p) = Unread
    PROVE  p.format = "unknown"
<1>1. p.format \in {"fragments", "signals", "unknown"} /\ p.data \in Seq(Own)
  BY DEF Fragments
<1>2. Unread \notin Seq(Own)
  <2>1. Unread \notin Seq(sub.msgs) /\ Own \subseteq sub.msgs
    BY ValuesAssumption DEF Own
  <2> QED BY <2>1
<1>3. p.format # "fragments"
  <2>1. asXcmpVersionedXcms(p.data) \in Seq(Own)
    BY <1>1, FragmentsLemma
  <2> QED BY <1>2, <2>1, PageLemma
<1>4. p.format # "signals"
  <2>1. <<>> \in Seq(Own)
    OBVIOUS
  <2> QED BY <1>2, <2>1 DEF fromXcmpFormat
<1> QED BY <1>1, <1>3, <1>4

(* Answers *)

\* Where a downward message is found, and that it is the one asked for if it is alone.
LEMMA DownwardFits ==
    ASSUME sub \in Routes, NEW q, QueryFits(q), q.by \in {"dmp", "dmpEvent"},
           NEW bad, NEW good, NEW m, m = Search(q.storage, bad, good), m # None, m # Unread
    PROVE  /\ m \in Own /\ m \in good /\ Recipient(q, m) = Hop(m)
           /\ Len(q.storage) = 1 => m = q.msg
<1>1. /\ q.storage \in Seq(Towards({Hop(q.msg)})) /\ q.msg \in ToSet(q.storage) /\ q.msg \in Own
  BY DEF QueryFits
<1>2. /\ m \in Towards({Hop(q.msg)}) /\ m \in good
      /\ Len(q.storage) = 1 => q.storage = <<m>>
  BY <1>1, SearchLemma
<1>3. m \in Own /\ Hop(m) = Hop(q.msg)
  BY <1>2 DEF Towards
<1>4. Len(q.storage) = 1 => m = q.msg
  BY <1>1, <1>2 DEF ToSet
<1>5. networkIdFromMultiLocation(Location(q.msg.ver, sub.origin, Hop(q.msg)), sub.origin)
          = Hop(q.msg)
  <2>1. /\ sub.origin \in Chains /\ Hop(q.msg) \in Chains /\ Hop(q.msg) # sub.origin
        /\ Hop(q.msg) = <<sub.origin[1], Hop(q.msg)[2]>>
    BY <1>1, OriginFacts
  <2>2. sub.origin[1] = Hop(q.msg)[1]
    BY <2>1
  <2>3. ~InEthereum(sub.origin)
    <3>1. q.msg \in sub.msgs /\ q.msg.from = sub.origin
      BY <1>1 DEF Own
    <3> QED BY <3>1, MessagesAssumption
  <2> QED BY <2>1, <2>2, <2>3, LocationLemma
<1>6. Recipient(q, m) =
          networkIdFromMultiLocation(Location(q.msg.ver, sub.origin, Hop(q.msg)), sub.origin)
  BY DEF Recipient, Hop
<1> QED BY <1>2, <1>3, <1>4, <1>5, <1>6

\* What a query finds is a message of the origin that goes where it says, and was told
\* to it as ToldBy says.
LEMMA FoundFits ==
    ASSUME sub \in Routes, NEW q, QueryFits(q), NEW m, m = Found(q), m # None, m # Unread
    PROVE  m \in Own /\ Recipient(q, m) = Hop(m) /\ ToldBy(GenericXcmSent(q, m))
<1> DEFINE r == GenericXcmSent(q, m)
<1>1. r.by = q.by /\ r.msg = m /\ r.cause = q.msg /\ r.id = getMessageId(m)
  BY DEF GenericXcmSent
<1> HIDE DEF r
<1>2. CASE q.by = "dmp"
  <2> DEFINE good == {n \in ToSet(q.storage) : Len(q.storage) = 1 \/ n.shape = q.msg.shape}
  <2>1. m = Search(q.storage, Unreadable(q.storage), good)
    BY <1>2 DEF Found, findDmpMessagesFromTx
  <2>2. m \in Own /\ m \in good /\ Recipient(q, m) = Hop(m) /\ (Len(q.storage) = 1 => m = q.msg)
    <3> HIDE DEF good
    <3> QED BY <1>2, <2>1, DownwardFits
  <2>3. m = q.msg \/ m.shape = q.msg.shape
    BY <2>2
  <2>4. q.msg.via = "transfer"
    BY <1>2 DEF QueryFits
  <2> QED BY <1>1, <1>2, <2>2, <2>3, <2>4 DEF ToldBy, r
<1>3. CASE q.by = "dmpEvent" /\ Len(q.storage) = 1
  <2>1. m = Search(q.storage, Unreadable(q.storage), ToSet(q.storage))
    BY <1>3 DEF Found, findDmpMessagesFromEvent
  <2>2. m \in Own /\ Recipient(q, m) = Hop(m) /\ m = q.msg
    BY <1>3, <2>1, DownwardFits
  <2> QED BY <1>1, <2>2 DEF ToldBy, r
<1>4. CASE q.by = "dmpEvent" /\ Len(q.storage) # 1
  <2> DEFINE bad == {n \in ToSet(q.storage) : n.ver \in {"V2", "V5"}}
             good == {n \in ToSet(q.storage) : matchProgramByTopic(n, q.id)}
  <2>1. m = Search(q.storage, bad, good)
    BY <1>4 DEF Found, findDmpMessagesFromEvent
  <2>2. m \in Own /\ m \in good /\ Recipient(q, m) = Hop(m)
    <3> HIDE DEF good, bad
    <3> QED BY <1>4, <2>1, DownwardFits
  <2>3. getMessageId(m) # NoId /\ getMessageId(m) = q.id
    BY <2>2 DEF matchProgramByTopic
  <2>4. q.id = IdOf(q.msg)
    BY <1>4 DEF QueryFits
  <2> QED BY <1>1, <2>2, <2>3, <2>4 DEF ToldBy, r
<1>5. ASSUME q.by \in {"xcmp", "ump"}, FoundBy(q, m)
      PROVE  ToldBy(r)
  <2>1. q.id = IdOf(q.msg) \/ (q.id = NoId /\ q.hash = q.msg.hash)
    BY <1>5 DEF QueryFits
  <2>2. IdOf(q.msg) # NoId
    <3>1. q.msg.hash # NoId
      <4>1. q.msg \in sub.msgs
        BY DEF QueryFits, Own
      <4> QED BY <4>1, MessagesAssumption
    <3> QED BY <3>1 DEF IdOf
  <2>3. CASE q.id # NoId
    BY <1>1, <1>5, <2>1, <2>3 DEF FoundBy, ToldBy
  <2>4. CASE q.id = NoId
    BY <1>1, <1>5, <2>1, <2>2, <2>4 DEF FoundBy, ToldBy
  <2> QED BY <2>3, <2>4
<1>6. CASE q.by = "xcmp"
  <2> DEFINE pages == [i \in DOMAIN q.storage |-> fromXcmpFormat(q.storage[i])]
             messages == FlattenSeq(pages)
             good == {n \in ToSet(messages) : FoundBy(q, n)}
  <2>1. q.storage \in Seq(Fragments)
    BY <1>6 DEF QueryFits
  <2>2. ~\E i \in DOMAIN q.storage : fromXcmpFormat(q.storage[i]) = Unread
    BY <1>6 DEF Found, findOutboundHrmpMessage
  <2>3. m = Search(messages, {}, good)
    BY <1>6, <2>2 DEF Found, findOutboundHrmpMessage
  <2>4. pages \in Seq(Seq(Own))
    <3>1. DOMAIN q.storage = 1 .. Len(q.storage) /\ Len(q.storage) \in Nat
      BY <2>1
    <3>2. \A i \in DOMAIN q.storage : q.storage[i] \in Fragments
      BY <2>1
    <3>3. \A i \in DOMAIN q.storage : fromXcmpFormat(q.storage[i]) \in Seq(Own)
      BY <2>2, <3>2, PageLemma
    <3> QED BY <3>1, <3>3
  <2>5. messages \in Seq(Own)
    <3> HIDE DEF pages
    <3> QED BY <2>4, FlattenLemma
  <2>6. m \in Own /\ m \in good
    <3> HIDE DEF messages, good
    <3> QED BY <2>3, <2>5, SearchLemma
  <2>7. FoundBy(q, m)
    BY <2>6
  <2>8. Recipient(q, m) = createNetworkId(sub.origin, Hop(m)[2])
    BY <1>6 DEF Recipient, Hop
  <2>9. Recipient(q, m) = Hop(m)
    BY <2>6, <2>8, OriginFacts
  <2> QED BY <1>5, <1>6, <2>6, <2>7, <2>9 DEF r
<1>7. CASE q.by = "ump"
  <2> DEFINE good == {n \in ToSet(q.storage) : FoundBy(q, n)}
  <2>1. q.storage \in Seq(Towards({getRelayId(sub.origin)}))
    BY <1>7 DEF QueryFits
  <2>2. m = Search(q.storage, {}, good)
    BY <1>7 DEF Found, findOutboundUmpMessage
  <2>3. m \in Towards({getRelayId(sub.origin)}) /\ m \in good
    <3> HIDE DEF good
    <3> QED BY <2>1, <2>2, SearchLemma
  <2>4. m \in Own /\ FoundBy(q, m) /\ Hop(m) = getRelayId(sub.origin)
    BY <2>3 DEF Towards
  <2>5. Recipient(q, m) = Hop(m)
    BY <1>7, <2>4 DEF Recipient
  <2> QED BY <1>5, <1>7, <2>4, <2>5 DEF r
<1> QED BY <1>2, <1>3, <1>4, <1>6, <1>7 DEF QueryFits, r

(* Blocks of the origin *)

\* What the chain tells of a message.
LEMMA ToldLemma ==
    ASSUME sub \in Routes, NEW m \in Own, NEW t \in Told(m)
    PROVE  /\ t.msg = m
           /\ \/ t.method = "call" /\ m.via = "transfer"
              \/ t.method = "Sent" /\ t.id = IdOf(m)
              \/ /\ t.method \in {"UpwardMessageSent", "XcmpMessageSent"}
                 /\ t.id = NoId /\ t.hash = m.hash
<1> DEFINE Fits(u) ==
        /\ u.msg = m
        /\ \/ u.method = "call" /\ m.via = "transfer"
           \/ u.method = "Sent" /\ u.id = IdOf(m)
           \/ /\ u.method \in {"UpwardMessageSent", "XcmpMessageSent"}
              /\ u.id = NoId /\ u.hash = m.hash
<1>1. Fits(Tell("Sent", m, NoId, IdOf(m), TRUE))
  BY DEF Tell
<1>2. /\ Fits(Tell("UpwardMessageSent", m, m.hash, NoId, TRUE))
      /\ Fits(Tell("XcmpMessageSent", m, m.hash, NoId, TRUE))
  BY DEF Tell
<1>3. m.via = "transfer" => Fits(Call(m, TRUE))
  BY DEF Call, Tell
<1>4. \/ t = Tell("Sent", m, NoId, IdOf(m), TRUE)
      \/ t = Tell("UpwardMessageSent", m, m.hash, NoId, TRUE)
      \/ t = Tell("XcmpMessageSent", m, m.hash, NoId, TRUE)
      \/ m.via = "transfer" /\ t = Call(m, TRUE)
  <2>1. CASE isRelay(m.from)
    BY <2>1 DEF Told
  <2>2. CASE ~isRelay(m.from) /\ isRelay(Hop(m))
    BY <2>2 DEF Told
  <2>3. CASE ~isRelay(m.from) /\ ~isRelay(Hop(m))
    BY <2>3 DEF Told
  <2> QED BY <2>1, <2>2, <2>3
<1> HIDE DEF Fits
<1>5. Fits(t)
  BY <1>1, <1>2, <1>3, <1>4
<1> QED BY <1>5 DEF Fits

\* Where a stream looks for what it was told.
LEMMA QueryLemma ==
    ASSUME sub \in Routes, NEW batch \in Seq(Own), NEW after \in Seq(Own),
           ToSet(batch) \subseteq ToSet(after), NEW pages \in Seq(Fragments),
           NEW x \in monitorOrigins(sub), NEW m \in ToSet(batch), NEW t \in Told(m),
           Takes(x, t), NEW storage,
           x \in {"dmp", "dmpEvent"} => storage = MsgsTo(after, {Hop(m)}),
           x = "xcmp" => storage = pages,
           x = "ump" => storage = MsgsTo(batch, {getRelayId(sub.origin)})
    PROVE  QueryFits(Query(x, t, storage))
<1> DEFINE q == Query(x, t, storage)
<1>1. q.by = x /\ q.msg = t.msg /\ q.id = t.id /\ q.hash = t.hash /\ q.storage = storage
  BY DEF Query
<1> HIDE DEF q
<1>2. x \in {"dmp", "dmpEvent", "xcmp", "ump"}
  BY DEF monitorOrigins
<1>3. m \in Own
  BY DEF ToSet
<1>4. /\ t.msg = m
      /\ \/ t.method = "call" /\ m.via = "transfer"
         \/ t.method = "Sent" /\ t.id = IdOf(m)
         \/ /\ t.method \in {"UpwardMessageSent", "XcmpMessageSent"}
            /\ t.id = NoId /\ t.hash = m.hash
  BY <1>3, ToldLemma
<1>5. ASSUME x \in {"dmp", "dmpEvent"}
      PROVE  storage \in Seq(Towards({Hop(m)})) /\ m \in ToSet(storage)
  <2>1. /\ MsgsTo(after, {Hop(m)}) \in Seq({n \in Own : Hop(n) \in {Hop(m)}})
        /\ m \in ToSet(MsgsTo(after, {Hop(m)}))
    <3> DEFINE chains == {Hop(m)}
    <3>1. Hop(m) \in chains /\ m \in ToSet(after)
      OBVIOUS
    <3> HIDE DEF chains
    <3>2. /\ MsgsTo(after, chains) \in Seq({n \in Own : Hop(n) \in chains})
          /\ \A n \in ToSet(after) : Hop(n) \in chains => n \in ToSet(MsgsTo(after, chains))
      BY MsgsToLemma
    <3> QED BY <3>1, <3>2 DEF chains
  <2> QED BY <1>5, <2>1 DEF Towards
<1>6. ASSUME x = "ump" PROVE storage \in Seq(Towards({getRelayId(sub.origin)}))
  <2>1. MsgsTo(batch, {getRelayId(sub.origin)}) \in
            Seq({n \in Own : Hop(n) \in {getRelayId(sub.origin)}})
    BY MsgsToLemma
  <2> QED BY <1>6, <2>1 DEF Towards
<1>7. /\ x = "dmp" => t.method = "call"
      /\ x = "dmpEvent" => t.method = "Sent"
      /\ x \in {"xcmp", "ump"} => t.method # "call"
  BY DEF Takes, Methods
<1>8. x = "dmp" => m.via = "transfer"
  BY <1>4, <1>7
<1>9. x = "dmpEvent" => t.id = IdOf(m)
  BY <1>4, <1>7
<1>10. x \in {"xcmp", "ump"} => t.id = IdOf(m) \/ (t.id = NoId /\ t.hash = m.hash)
  BY <1>4, <1>7
<1>11. QueryFits(q)
  BY <1>1, <1>2, <1>3, <1>4, <1>5, <1>6, <1>8, <1>9, <1>10 DEF QueryFits
<1> QED BY <1>11 DEF q

\* What is known does not change with the subscription.
LEMMA SubStays ==
    ASSUME sub' = sub
    PROVE  /\ Own' = Own /\ Fragments' = Fragments /\ Streams(sub)' = Streams(sub)
           /\ \A q : QueryFits(q)' <=> QueryFits(q)
           /\ \A r : ReportFits(r)' <=> ReportFits(r)
<1>1. Own' = Own
  BY DEF Own
<1>2. Fragments' = Fragments
  BY <1>1 DEF Fragments
<1>3. \A c : Towards(c)' = Towards(c)
  BY <1>1 DEF Towards
<1>4. \A q : QueryFits(q)' <=> QueryFits(q)
  BY <1>1, <1>2, <1>3 DEF QueryFits
<1>5. \A m : mapXcmSent(Hop(m), m)' = mapXcmSent(Hop(m), m)
  BY DEF mapXcmSent
<1>6. \A r : ReportFits(r)' <=> ReportFits(r)
  BY <1>1, <1>5 DEF ReportFits
<1> QED BY <1>1, <1>2, <1>4, <1>6

\* A block of the origin, with the messages of batch: what is asked and queued fits.
LEMMA BlockFits ==
    ASSUME ReportInv, NEW batch \in Seq(Own), NEW failed, NEW pages \in Seq(Fragments),
           Block(batch, failed, pages)
    PROVE  ReportInv' /\ sub' = sub /\ UNCHANGED <<reports, up>>
<1> DEFINE after == IF isRelay(sub.origin) THEN queue \o batch ELSE queue
           sends == UNION {Told(batch[i]) : i \in DOMAIN batch}
           fails == {Call(m, FALSE) : m \in failed}
           told == sends \cup fails
           storage(x, t) ==
               CASE x \in {"dmp", "dmpEvent"} -> MsgsTo(after, {Hop(t.msg)})
                 [] x = "xcmp" -> pages
                 [] x = "ump" -> MsgsTo(batch, {getRelayId(sub.origin)})
           taken == {c \in (up \cap monitorOrigins(sub)) \X told : Takes(c[1], c[2])}
<1>1. /\ queue' = after /\ UNCHANGED <<sub, up, reports>>
      /\ pending' = pending \cup {Query(p[1], p[2], storage(p[1], p[2])) : p \in taken}
  BY DEF Block
<1>2. queue \o batch \in Seq(Own) /\ ToSet(batch) \subseteq ToSet(queue \o batch)
  BY JoinToSet DEF ReportInv
<1>3. after \in Seq(Own)
  BY <1>2 DEF ReportInv
<1>4. ASSUME NEW p \in taken
      PROVE  QueryFits(Query(p[1], p[2], storage(p[1], p[2])))
  <2> DEFINE x == p[1]
             t == p[2]
  <2>1. x \in monitorOrigins(sub) /\ t \in told /\ Takes(x, t)
    OBVIOUS
  <2> HIDE DEF x, t, taken
  <2>2. t.ok
    BY <2>1 DEF Takes
  <2>3. PICK i \in DOMAIN batch : t \in Told(batch[i])
    <3>1. t \notin fails
      <4> SUFFICES ASSUME NEW m \in failed, t = Call(m, FALSE) PROVE FALSE
        OBVIOUS
      <4>1. t.ok = FALSE
        BY DEF Call, Tell
      <4> QED BY <2>2, <4>1
    <3>2. t \in sends
      <4> HIDE DEF sends, fails
      <4> QED BY <2>1, <3>1
    <3> QED BY <3>2
  <2> DEFINE m == batch[i]
  <2>4. m \in ToSet(batch) /\ m \in Own
    BY DEF ToSet
  <2>5. t.msg = m
    BY <2>3, <2>4, ToldLemma DEF ReportInv
  <2>6. x \in {"dmp", "dmpEvent"} => isRelay(sub.origin)
    BY <2>1 DEF monitorOrigins
  <2>7. x \in {"dmp", "dmpEvent"} => storage(x, t) = MsgsTo(queue \o batch, {Hop(m)})
    BY <2>5, <2>6
  <2>8. /\ x = "xcmp" => storage(x, t) = pages
        /\ x = "ump" => storage(x, t) = MsgsTo(batch, {getRelayId(sub.origin)})
    OBVIOUS
  <2>9. \E y : y = storage(x, t)
    OBVIOUS
  <2> DEFINE both == queue \o batch
             asked == storage(x, t)
  <2> HIDE DEF m, both, asked
  <2>10. QueryFits(Query(x, t, asked))
    <3>1. /\ sub \in Routes /\ both \in Seq(Own) /\ ToSet(batch) \subseteq ToSet(both)
          /\ x \in {"dmp", "dmpEvent"} => asked = MsgsTo(both, {Hop(m)})
          /\ x = "xcmp" => asked = pages
          /\ x = "ump" => asked = MsgsTo(batch, {getRelayId(sub.origin)})
          /\ t \in Told(m)
      BY <1>2, <2>3, <2>7, <2>8 DEF ReportInv, both, asked, m
    <3> QED BY <2>1, <2>4, <3>1, QueryLemma
  <2> QED BY <2>10 DEF x, t, asked
<1> HIDE DEF after, told, storage, taken
<1>5. \A q \in pending' : QueryFits(q)
  BY <1>1, <1>4 DEF ReportInv
<1>6. ReportInv'
  BY <1>1, <1>3, <1>5, SubStays DEF ReportInv
<1> QED BY <1>1, <1>6

\* The blocks there may be: their messages are of the origin, their pages hold some.
LEMMA BlocksLemma ==
    ASSUME sub \in Routes, OriginBlock \/ OddBlock
    PROVE  \E failed : \E batch \in Seq(Own), pages \in Seq(Fragments) : Block(batch, failed, pages)
<1>1. Unsent \subseteq Own
  BY DEF Unsent, Own
<1>2. IsFiniteSet(sub.msgs) /\ Own \subseteq sub.msgs /\ \A m \in Own : Hop(m) \in Chains
  BY OriginFacts DEF Own
<1>3. ASSUME NEW to \in Chains, NEW data \in Seq(Own)
      PROVE  Page(to, "fragments", data) \in Fragments
  BY <1>3 DEF Page, Fragments
<1>4. CASE OriginBlock
  <2>1. PICK S \in SUBSET Unsent, failed \in SUBSET {m \in Unsent : m.via = "transfer"} :
            \E batch \in SetToSeqs(S),
              tos \in SetToSeqs({Hop(m) : m \in S} \ {getRelayId(sub.origin)}) :
               Block(batch, failed,
                     IF isRelay(sub.origin) THEN <<>>
                     ELSE [i \in DOMAIN tos |->
                              Page(tos[i], "fragments", MsgsTo(batch, {tos[i]}))])
    BY <1>4 DEF OriginBlock
  <2> DEFINE To == {Hop(m) : m \in S} \ {getRelayId(sub.origin)}
  <2>2. PICK batch \in SetToSeqs(S), tos \in SetToSeqs(To) :
            Block(batch, failed,
                  IF isRelay(sub.origin) THEN <<>>
                  ELSE [i \in DOMAIN tos |->
                           Page(tos[i], "fragments", MsgsTo(batch, {tos[i]}))])
    BY <2>1
  <2>3. IsFiniteSet(S) /\ S \subseteq Own
    BY <1>1, <1>2, FS_Subset
  <2>4. IsFiniteSet(To) /\ To \subseteq Chains
    <3>1. IsFiniteSet({Hop(m) : m \in S})
      <4> DEFINE T == {Hop(m) : m \in S}
                 f == [m \in S |-> Hop(m)]
      <4>1. f \in Surjection(S, T)
        BY DEF Surjection
      <4> HIDE DEF T, f
      <4>2. IsFiniteSet(T)
        BY <2>3, <4>1, FS_Surjection
      <4> QED BY <4>2 DEF T
    <3> QED BY <1>2, <2>3, <3>1, FS_Subset
  <2> HIDE DEF To
  <2>5. batch \in Seq(Own)
    <3>1. Cardinality(S) \in Nat /\ batch \in [1 .. Cardinality(S) -> S]
      BY <2>3, FS_CardinalityType DEF SetToSeqs
    <3> QED BY <2>3, <3>1
  <2>6. Cardinality(To) \in Nat /\ tos \in [1 .. Cardinality(To) -> To]
    BY <2>4, FS_CardinalityType DEF SetToSeqs
  <2> DEFINE pages == IF isRelay(sub.origin) THEN <<>>
                      ELSE [i \in DOMAIN tos |->
                               Page(tos[i], "fragments", MsgsTo(batch, {tos[i]}))]
  <2>7. pages \in Seq(Fragments)
    <3>1. ASSUME NEW i \in DOMAIN tos
          PROVE  Page(tos[i], "fragments", MsgsTo(batch, {tos[i]})) \in Fragments
      <4>1. tos[i] \in Chains
        BY <2>4, <2>6
      <4>2. MsgsTo(batch, {tos[i]}) \in Seq(Own)
        <5> DEFINE chains == {tos[i]}
                   those == {m \in Own : Hop(m) \in chains}
        <5> HIDE DEF chains
        <5>1. MsgsTo(batch, chains) \in Seq(those)
          BY <2>5, MsgsToLemma
        <5>2. those \subseteq Own
          OBVIOUS
        <5> HIDE DEF those
        <5>3. MsgsTo(batch, chains) \in Seq(Own)
          BY <5>1, <5>2
        <5> QED BY <5>3 DEF chains
      <4> QED BY <1>3, <4>1, <4>2
    <3>2. DOMAIN tos = 1 .. Cardinality(To)
      BY <2>6
    <3> DEFINE page(i) == Page(tos[i], "fragments", MsgsTo(batch, {tos[i]}))
               made == [i \in 1 .. Cardinality(To) |-> page(i)]
    <3>3. \A i \in 1 .. Cardinality(To) : page(i) \in Fragments
      BY <3>1, <3>2
    <3>4. pages = IF isRelay(sub.origin) THEN <<>> ELSE made
      BY <3>2
    <3> HIDE DEF page, pages
    <3>5. made \in Seq(Fragments) /\ <<>> \in Seq(Fragments)
      BY <2>6, <3>3
    <3> QED BY <3>4, <3>5
  <2>8. Block(batch, failed, pages)
    BY <2>2
  <2> HIDE DEF pages
  <2> QED BY <2>5, <2>7, <2>8
<1>5. CASE OddBlock
  <2>1. PICK m \in Unsent, to \in {Hop(n) : n \in sub.msgs}, format \in {"signals", "unknown"} :
            Block(<<m>>, {}, <<Page(to, format, <<>>), Page(Hop(m), "fragments", <<m>>)>>)
    BY <1>5 DEF OddBlock
  <2>2. m \in Own /\ <<m>> \in Seq(Own)
    BY <1>1
  <2>3. to \in Chains
    <3>1. PICK n \in sub.msgs : to = Hop(n)
      OBVIOUS
    <3>2. n.path \in Seq(Chains) /\ n.path # <<>>
      BY <3>1, MessagesAssumption
    <3> QED BY <3>1, <3>2, EmptySeq DEF Hop
  <2>4. Page(to, format, <<>>) \in Fragments
    BY <2>3 DEF Page, Fragments
  <2>5. Page(Hop(m), "fragments", <<m>>) \in Fragments
    BY <1>2, <1>3, <2>2
  <2> DEFINE pages == <<Page(to, format, <<>>), Page(Hop(m), "fragments", <<m>>)>>
  <2>6. pages \in Seq(Fragments)
    BY <2>4, <2>5
  <2>7. Block(<<m>>, {}, pages)
    BY <2>1
  <2> HIDE DEF pages
  <2> QED BY <2>2, <2>6, <2>7
<1> QED BY <1>4, <1>5

(* Outbound observations *)

LEMMA ReportInductive ==
    /\ Init => ReportInv
    /\ ReportInv /\ [Next]_vars => ReportInv'
<1>1. ASSUME Init PROVE ReportInv
  BY <1>1 DEF Init, ReportInv
<1>2. ASSUME ReportInv, OriginBlock \/ OddBlock PROVE ReportInv'
  <2>1. sub \in Routes
    BY <1>2 DEF ReportInv
  <2>2. PICK failed : \E batch \in Seq(Own), pages \in Seq(Fragments) :
                          Block(batch, failed, pages)
    BY <1>2, <2>1, BlocksLemma
  <2>3. PICK batch \in Seq(Own), pages \in Seq(Fragments) : Block(batch, failed, pages)
    BY <2>2
  <2> QED BY <1>2, <2>3, BlockFits
<1>3. ASSUME ReportInv, Drain PROVE ReportInv'
  <2>1. PICK m \in ToSet(queue) :
            queue' = MsgsTo(queue, {Hop(n) : n \in ToSet(queue)} \ {Hop(m)})
    BY <1>3 DEF Drain
  <2> DEFINE chains == {Hop(n) : n \in ToSet(queue)} \ {Hop(m)}
             those == {n \in Own : Hop(n) \in chains}
  <2>2. queue' = MsgsTo(queue, chains)
    BY <2>1
  <2> HIDE DEF chains
  <2>3. MsgsTo(queue, chains) \in Seq(those)
    BY <1>3, MsgsToLemma DEF ReportInv
  <2>4. those \subseteq Own
    OBVIOUS
  <2> HIDE DEF those
  <2>5. queue' \in Seq(Own)
    BY <2>2, <2>3, <2>4
  <2>6. UNCHANGED <<sub, up, pending, reports>>
    BY <1>3 DEF Drain
  <2> QED BY <1>3, <2>5, <2>6, SubStays DEF ReportInv
<1>4. ASSUME ReportInv, NEW q \in pending, Answer(q) PROVE ReportInv'
  <2>1. UNCHANGED <<sub, queue>>
    BY <1>4 DEF Answer
  <2>2. pending' \subseteq pending /\ up' \subseteq up
    BY <1>4 DEF Answer, Fall
  <2>3. ASSUME NEW r \in reports', r \notin reports PROVE ReportFits(r)
    <3> DEFINE m == Found(q)
    <3>1. m # Unread /\ m # None /\ r = GenericXcmSent(q, m) /\ r.stops # Unread
      BY <1>4, <2>3 DEF Answer, emitOutbound
    <3>2. sub \in Routes /\ QueryFits(q)
      BY <1>4 DEF ReportInv
    <3> HIDE DEF m
    <3>3. m \in Own /\ Recipient(q, m) = Hop(m) /\ ToldBy(GenericXcmSent(q, m))
      BY <3>1, <3>2, FoundFits DEF m
    <3>4. q.msg \in Own
      BY <3>2 DEF QueryFits
    <3> QED BY <3>1, <3>3, <3>4 DEF ReportFits, GenericXcmSent
  <2> QED BY <1>4, <2>1, <2>2, <2>3, SubStays DEF ReportInv
<1>5. ASSUME ReportInv, StreamFails PROVE ReportInv'
  <2>1. UNCHANGED <<sub, queue, reports>> /\ pending' \subseteq pending /\ up' \subseteq up
    BY <1>5 DEF StreamFails, Fall
  <2> QED BY <1>5, <2>1, SubStays DEF ReportInv
<1>6. ASSUME ReportInv, Resubscribe PROVE ReportInv'
  <2>1. UNCHANGED <<sub, queue, reports, pending>> /\ up' \subseteq Streams(sub)
    BY <1>6 DEF Resubscribe, ReportInv
  <2> QED BY <1>6, <2>1, SubStays DEF ReportInv
<1>7. ASSUME ReportInv, RelayBlock PROVE ReportInv'
  <2>1. UNCHANGED <<sub, queue, reports, pending>> /\ up' \subseteq up
    BY <1>7 DEF RelayBlock, extractRelayReceive
  <2> QED BY <1>7, <2>1, SubStays DEF ReportInv
<1>8. ASSUME ReportInv, UNCHANGED <<sub, up, queue, reports, pending>> PROVE ReportInv'
  BY <1>8, SubStays DEF ReportInv
<1>9. ASSUME ReportInv, NEW m \in sub.msgs, NEW trapped \in BOOLEAN, NEW e \in Outcomes(m),
             Arrive(m, e, trapped)
      PROVE  ReportInv'
  BY <1>8, <1>9 DEF Arrive
<1>10. ASSUME ReportInv, OtherEvent PROVE ReportInv'
  BY <1>8, <1>10 DEF OtherEvent
<1>11. ASSUME ReportInv, UNCHANGED vars PROVE ReportInv'
  BY <1>8, <1>11 DEF vars
<1> QED BY <1>1, <1>2, <1>3, <1>4, <1>5, <1>6, <1>7, <1>9, <1>10, <1>11 DEF Next

\* The topic ids of what the origin sends are its own: none is that of another message, or
\* its hash.
TopicsDiffer ==
    \A r \in Routes : \A m, n \in r.msgs :
        /\ m.from = r.origin /\ n.from = r.origin
        /\ m.topic # NoId /\ m.topic = IdOf(n)
        => m = n

\* Whatever lies in the queues and in which order answers come, what is found is the message
\* of the call or event, or shares with it the little that told it (OnlyLookalikesMislead;
\* dmp.ts:119-248, xcmp.ts:20-60, ump.ts:84-119).
THEOREM LookalikesMislead ==
    ASSUME TopicsDiffer
    PROVE  Spec => []OnlyLookalikesMislead
<1>1. ASSUME ReportInv PROVE OnlyLookalikesMislead
  <2> SUFFICES ASSUME NEW r \in reports
               PROVE  \/ r.msg = r.cause
                      \/ r.by = "dmp" /\ r.cause.via = "transfer" /\ r.msg.shape = r.cause.shape
                      \/ r.by \in {"xcmp", "ump"} /\ r.msg.hash = r.cause.hash
    BY DEF OnlyLookalikesMislead
  <2>1. ReportFits(r) /\ sub \in Routes
    BY <1>1 DEF ReportInv
  <2>2. ASSUME r.id # NoId, r.id = IdOf(r.cause) PROVE r.msg = r.cause
    <3>1. r.msg.topic # NoId /\ r.msg.topic = IdOf(r.cause)
      BY <2>1, <2>2 DEF ReportFits, getMessageId
    <3>2. /\ r.msg \in sub.msgs /\ r.msg.from = sub.origin
          /\ r.cause \in sub.msgs /\ r.cause.from = sub.origin
      BY <2>1 DEF ReportFits, Own
    <3> QED BY <2>1, <3>1, <3>2 DEF TopicsDiffer
  <2> QED BY <2>1, <2>2 DEF ReportFits, ToldBy
<1> QED BY <1>1, ReportInductive, PTL DEF Spec

\* What the origin sends travels.
LEMMA OwnTravels ==
    ASSUME sub \in Routes, NEW m \in Own
    PROVE  Travels(m, sub.origin) /\ Hop(m) = m.path[1]
<1>1. m \in sub.msgs /\ m.from = sub.origin /\ sub.origin \in Chains
  BY OriginFacts DEF Own
<1>2. /\ m.path \in Seq(Chains) /\ m.path # <<>> /\ m.path[1][1] = m.from[1]
      /\ ~InEthereum(m.from) /\ m.sender \in [DOMAIN m.path -> Nat]
      /\ \A i \in 2 .. Len(m.path) :
             /\ m.sender[i] \in 1 .. i - 1
             /\ m.path[i] # m.path[m.sender[i]] /\ ~InEthereum(m.path[m.sender[i]])
  BY <1>1, MessagesAssumption
<1>3. ~InEthereum(m.path[1])
  BY <1>2 DEF InEthereum
<1> QED BY <1>1, <1>2, <1>3 DEF Travels, Hop

\* The stops of a report are those of the message that can be named, of nested programs and
\* of several in one, whatever the chains; and no message that goes on to a parachain of
\* another consensus is reported (StopsFollowPath; common.ts:13-48, util.ts:97-259).
THEOREM StopsFollow == Spec => []StopsFollowPath
<1>1. ASSUME ReportInv PROVE StopsFollowPath
  <2> SUFFICES ASSUME NEW r \in reports
               PROVE  \E S \in SUBSET DOMAIN r.msg.path :
                          /\ r.stops = <<Hop(r.msg)>>
                                           \o Kept(Tail(r.msg.path), {i - 1 : i \in S \ {1}})
                          /\ Named(r.msg, S) /\ ~Bridges(r.msg, S)
    BY DEF StopsFollowPath, Named, Bridges
  <2>1. ReportFits(r) /\ sub \in Routes /\ r.msg \in Own
    BY <1>1 DEF ReportInv, ReportFits
  <2>2. Travels(r.msg, sub.origin)
    BY <2>1, OwnTravels
  <2>3. PICK S : /\ Named(r.msg, S)
                 /\ recursiveExtractStops(sub.origin, Program(r.msg)) =
                        IF Bridges(r.msg, S) THEN Unread
                        ELSE Kept(Tail(r.msg.path), {i - 1 : i \in S \ {1}})
    BY <2>2, StopsLemma
  <2>4. /\ recursiveExtractStops(sub.origin, Program(r.msg)) # Unread
        /\ r.stops = <<Hop(r.msg)>> \o recursiveExtractStops(sub.origin, Program(r.msg))
    BY <2>1 DEF ReportFits, mapXcmSent
  <2> QED BY <2>3, <2>4 DEF Named
<1> QED BY <1>1, ReportInductive, PTL DEF Spec

(* Relayed observations *)

\* What the first wanted page of a candidate gives.
LEMMA WantedLemma ==
    ASSUME NEW pages \in Seq(Fragments), NEW i \in DOMAIN pages,
           pages[i].to \in sub.destinations,
           \A k \in 1 .. i - 1 : pages[k].to \notin sub.destinations
    PROVE  FirstWantedPage(pages) = {i}
<1>1. DOMAIN pages = 1 .. Len(pages) /\ Len(pages) \in Nat
  OBVIOUS
<1> DEFINE wanted == WantedPages(pages)
<1>2. i \in wanted /\ wanted \subseteq DOMAIN pages
  BY DEF WantedPages, messageCriteria
<1>3. \A k \in wanted : pages[k].to \in sub.destinations
  BY DEF WantedPages, messageCriteria
<1>4. wanted \in SUBSET Nat /\ wanted # {}
  BY <1>1, <1>2
<1> HIDE DEF wanted
<1>5. Min(wanted) \in wanted /\ Min(wanted) <= i
  BY <1>2, <1>4, MinLemma
<1>6. Min(wanted) \in 1 .. Len(pages) /\ Min(wanted) \notin 1 .. i - 1
  BY <1>1, <1>2, <1>3, <1>5
<1>7. Min(wanted) = i
  BY <1>1, <1>5, <1>6
<1> QED BY <1>4, <1>7 DEF FirstWantedPage, wanted

\* A candidate is read as OnlyFirstRecipientsAreRelayed says.
LEMMA CandidateRead ==
    ASSUME ReportInv, NEW pages \in Seq(Fragments), extractRelayReceive(pages),
           NEW i \in DOMAIN pages, NEW j \in DOMAIN pages[i].data,
           pages[i].to \in sub.destinations,
           \A k \in 1 .. i - 1 : pages[k].to \notin sub.destinations,
           \A k \in 1 .. j : Decodes(pages[i].data[k])
    PROVE  GenericXcmRelayed(pages[i].data[j], pages[i].to) \in relayed'
<1> DEFINE page == pages[i]
<1>1. page \in Fragments
  OBVIOUS
<1>2. FirstWantedPage(pages) = {i}
  BY WantedLemma
<1>3. /\ page.data \in Seq(Own) /\ page.data # <<>>
      /\ page.format # "fragments" => page.data = <<>>
      /\ page.format = "fragments" => fromXcmpFormat(page) = asXcmpVersionedXcms(page.data)
  <2>1. page.data # <<>>
    OBVIOUS
  <2> HIDE DEF page
  <2> QED BY <1>1, <2>1, PageLemma
<1>4. fromXcmpFormat(page) = asXcmpVersionedXcms(page.data)
  BY <1>3
<1> DEFINE data == page.data
<1>5. /\ data \in Seq(Own) /\ j \in DOMAIN data
      /\ \A k \in 1 .. j : Decodes(data[k])
  BY <1>3
<1> HIDE DEF data
<1>6. asXcmpVersionedXcms(data) \in Seq(Own) /\ data[j] \in ToSet(asXcmpVersionedXcms(data))
  BY <1>5, FragmentsLemma
<1>7. fromXcmpFormat(page) # Unread
  <2>1. Unread \notin Seq(sub.msgs) /\ Own \subseteq sub.msgs
    BY ValuesAssumption DEF ReportInv, Own
  <2>2. Unread \notin Seq(Own)
    BY <2>1
  <2> QED BY <1>4, <1>6, <2>2 DEF data
<1>8. relayed' = relayed \cup
          UNION {{GenericXcmRelayed(m, pages[k].to) : m \in ToSet(fromXcmpFormat(pages[k]))}
                     : k \in {i}}
  BY <1>2, <1>7 DEF extractRelayReceive
<1> QED BY <1>4, <1>6, <1>8 DEF data

LEMMA RelayInductive ==
    /\ Init => RelayInv
    /\ ReportInv /\ RelayInv /\ [Next]_vars => RelayInv'
<1> DEFINE Known(l) == l.id = IF getMessageId(l.msg) = NoId THEN l.msg.hash ELSE getMessageId(l.msg)
<1>1. ASSUME Init PROVE RelayInv
  BY <1>1 DEF Init, RelayInv, OnlyFirstRecipientsAreRelayed
<1>2. ASSUME RelayInv, UNCHANGED <<sub, candidates, relayed, included>> PROVE RelayInv'
  <2>1. Fragments' = Fragments
    BY <1>2, SubStays
  <2> QED BY <1>2, <2>1 DEF RelayInv, OnlyFirstRecipientsAreRelayed
<1>3. ASSUME ReportInv, RelayInv, OriginBlock \/ OddBlock PROVE RelayInv'
  <2>1. sub \in Routes
    BY <1>3 DEF ReportInv
  <2>2. PICK failed : \E batch \in Seq(Own), pages \in Seq(Fragments) :
                          Block(batch, failed, pages)
    BY <1>3, <2>1, BlocksLemma
  <2>3. PICK batch \in Seq(Own), pages \in Seq(Fragments) : Block(batch, failed, pages)
    BY <2>2
  <2>4. /\ UNCHANGED <<sub, relayed, included>>
        /\ candidates' = Append(candidates, pages) \/ candidates' = candidates
    BY <2>3 DEF Block
  <2>5. Fragments' = Fragments /\ candidates' \in Seq(Seq(Fragments))
    <3>1. candidates \in Seq(Seq(Fragments))
      BY <1>3 DEF RelayInv
    <3>2. Append(candidates, pages) \in Seq(Seq(Fragments))
      BY <3>1, AppendProperties
    <3> QED BY <2>4, <3>1, <3>2, SubStays
  <2> QED BY <1>3, <2>4, <2>5 DEF RelayInv, OnlyFirstRecipientsAreRelayed
<1>4. ASSUME ReportInv, RelayInv, RelayBlock PROVE RelayInv'
  <2>1. /\ candidates # <<>> /\ candidates' = Tail(candidates)
        /\ UNCHANGED sub
    BY <1>4 DEF RelayBlock
  <2>2. Fragments' = Fragments /\ candidates' \in Seq(Seq(Fragments))
    BY <1>4, <2>1, SubStays DEF RelayInv
  <2>3. CASE "relay" \notin up
    <3>1. UNCHANGED <<relayed, included>>
      BY <1>4, <2>3 DEF RelayBlock
    <3> QED BY <1>4, <2>1, <2>2, <3>1 DEF RelayInv, OnlyFirstRecipientsAreRelayed
  <2>4. CASE "relay" \in up
    <3> DEFINE pages == Head(candidates)
    <3>1. /\ pages \in Seq(Fragments) /\ extractRelayReceive(pages)
          /\ included' = included \cup {pages}
      BY <1>4, <2>1, <2>4 DEF RelayBlock, RelayInv
    <3>2. relayed \subseteq relayed'
      BY <3>1 DEF extractRelayReceive
    <3>3. \A l \in relayed' : Known(l)
      <4>1. \A m, to : Known(GenericXcmRelayed(m, to))
        BY DEF GenericXcmRelayed
      <4>2. \A l \in relayed' : l \in relayed \/ \E m, to : l = GenericXcmRelayed(m, to)
        BY <3>1 DEF extractRelayReceive
      <4>3. \A l \in relayed : Known(l)
        BY <1>4 DEF RelayInv
      <4> HIDE DEF Known
      <4> QED BY <4>1, <4>2, <4>3
    <3> HIDE DEF pages
    <3>4. OnlyFirstRecipientsAreRelayed'
      <4> SUFFICES ASSUME NEW ps \in included', NEW i \in DOMAIN ps, NEW j \in DOMAIN ps[i].data,
                          ps[i].to \in sub.destinations,
                          \A k \in 1 .. i - 1 : ps[k].to \notin sub.destinations,
                          \A k \in 1 .. j : Decodes(ps[i].data[k])
                   PROVE  [msg |-> ps[i].data[j], recipient |-> ps[i].to] \in
                              {[msg |-> l.msg, recipient |-> l.recipient] : l \in relayed'}
        BY <2>1 DEF OnlyFirstRecipientsAreRelayed
      <4>1. CASE ps \in included
        <5>1. [msg |-> ps[i].data[j], recipient |-> ps[i].to] \in
                  {[msg |-> l.msg, recipient |-> l.recipient] : l \in relayed}
          BY <1>4, <4>1 DEF RelayInv, OnlyFirstRecipientsAreRelayed
        <5> QED BY <3>2, <5>1
      <4>2. CASE ps \notin included
        <5>1. ps = pages
          BY <3>1, <4>2
        <5>2. GenericXcmRelayed(ps[i].data[j], ps[i].to) \in relayed'
          BY <1>4, <3>1, <5>1, CandidateRead
        <5> QED BY <5>2 DEF GenericXcmRelayed
      <4> QED BY <4>1, <4>2
    <3> QED BY <2>2, <3>3, <3>4 DEF RelayInv
  <2> QED BY <2>3, <2>4
<1> HIDE DEF Known
<1>5. ASSUME RelayInv, Drain PROVE RelayInv'
  BY <1>2, <1>5 DEF Drain, histories
<1>6. ASSUME RelayInv, NEW q \in pending, Answer(q) PROVE RelayInv'
  BY <1>2, <1>6 DEF Answer
<1>7. ASSUME RelayInv, StreamFails PROVE RelayInv'
  BY <1>2, <1>7 DEF StreamFails
<1>8. ASSUME RelayInv, Resubscribe PROVE RelayInv'
  BY <1>2, <1>8 DEF Resubscribe, histories
<1>9. ASSUME RelayInv, NEW m \in sub.msgs, NEW trapped \in BOOLEAN, NEW e \in Outcomes(m),
             Arrive(m, e, trapped)
      PROVE  RelayInv'
  BY <1>2, <1>9 DEF Arrive
<1>10. ASSUME RelayInv, OtherEvent PROVE RelayInv'
  BY <1>2, <1>10 DEF OtherEvent, histories
<1>11. ASSUME RelayInv, UNCHANGED vars PROVE RelayInv'
  BY <1>2, <1>11 DEF vars, histories
<1> QED BY <1>1, <1>3, <1>4, <1>5, <1>6, <1>7, <1>8, <1>9, <1>10, <1>11 DEF Next

\* Of each candidate what is for the first wanted recipient is reported, up to what cannot
\* be read (OnlyFirstRecipientsAreRelayed; relay.ts:13-52).
THEOREM FirstRecipientsRelayed == Spec => []OnlyFirstRecipientsAreRelayed
<1>1. RelayInv => OnlyFirstRecipientsAreRelayed
  BY DEF RelayInv
<1> QED BY <1>1, ReportInductive, RelayInductive, PTL DEF Spec

(* Inbound observations *)

\* The ways a chain tells an execution, and whether the inbound stream listens.
LEMMA OutcomesLemma ==
    ASSUME sub \in Routes, NEW m \in sub.msgs, NEW e \in Outcomes(m), Hop(m) = sub.at
    PROVE  /\ e.msg = m /\ e.method # "AssetsTrapped"
           /\ e.hash = m.hash \/ (e.hash = NoId /\ e.id \in {m.hash, IdOf(m)})
           /\ m.from = sub.origin =>
                  /\ FromOrigin(e)
                  /\ \/ e.method \in InMethods(sub)
                     \/ isRelay(m.from) /\ e.method = "ProcessingFailed"
<1>1. /\ m.from \in Chains /\ Hop(m) \in Chains /\ Hop(m)[1] = m.from[1] /\ Hop(m) # m.from
  <2>1. m.from \in Chains /\ m.path \in Seq(Chains) /\ m.path # <<>>
        /\ m.path[1][1] = m.from[1] /\ m.path[1] # m.from
    BY MessagesAssumption
  <2>2. m.path[1] \in Chains
    BY <2>1, EmptySeq
  <2> QED BY <2>1, <2>2 DEF Hop
<1>2. isRelay(m.from) => ~isRelay(Hop(m))
  BY <1>1 DEF isRelay, Chains
<1>3. CASE isRelay(m.from)
  <2>1. \/ e = Event("ExecutedDownward", m, NoId, m.hash, None)
        \/ e = Event("ExecutedDownward", m, m.hash, IdOf(m), None)
        \/ e = Event("Processed", m, NoId, IdOf(m), None)
        \/ e = Event("ProcessingFailed", m, NoId, IdOf(m), None)
    BY <1>2, <1>3 DEF Outcomes
  <2>2. /\ e.msg = m /\ e.method \in {"ExecutedDownward", "Processed", "ProcessingFailed"}
        /\ e.hash = m.hash \/ (e.hash = NoId /\ e.id \in {m.hash, IdOf(m)})
    BY <2>1 DEF Event
  <2> QED BY <1>2, <1>3, <2>2 DEF FromOrigin, InMethods
<1>4. CASE ~isRelay(m.from) /\ isRelay(Hop(m))
  <2>1. \E n \in {"Processed", "ProcessingFailed"}, o \in {m.from, None} :
            e = Event(n, m, NoId, IdOf(m), o)
    BY <1>4 DEF Outcomes
  <2>2. /\ e.msg = m /\ e.method \in {"Processed", "ProcessingFailed"}
        /\ e.hash = NoId /\ e.id = IdOf(m) /\ e.origin \in {m.from, None}
    BY <2>1 DEF Event
  <2> QED BY <1>4, <2>2 DEF FromOrigin, InMethods
<1>5. CASE ~isRelay(m.from) /\ ~isRelay(Hop(m))
  <2>1. \E n \in {"Success", "Fail"} : e = Event(n, m, m.hash, NoId, None)
    BY <1>5 DEF Outcomes
  <2>2. e.msg = m /\ e.method \in {"Success", "Fail"} /\ e.hash = m.hash
    BY <2>1 DEF Event
  <2> QED BY <1>5, <2>2 DEF FromOrigin, InMethods
<1> QED BY <1>3, <1>4, <1>5

LEMMA InboundInductive ==
    /\ Init => InboundInv
    /\ ReportInv /\ InboundInv /\ [Next]_vars => InboundInv'
<1> DEFINE Waits(p) == p = None \/ p.method # "AssetsTrapped"
           Tells(i) == /\ i.msg \in sub.msgs
                       /\ i.hash = i.msg.hash \/ i.id = i.msg.hash \/ i.id = IdOf(i.msg)
<1>1. ASSUME Init PROVE InboundInv
  BY <1>1 DEF Init, InboundInv, OnlyFirstOutcomesAreMissed
<1>2. ASSUME InboundInv, UNCHANGED <<sub, inbound, shown>>, Waits(prev') PROVE InboundInv'
  BY <1>2 DEF InboundInv, OnlyFirstOutcomesAreMissed
<1>3. ASSUME ReportInv, InboundInv, NEW m \in sub.msgs, NEW trapped \in BOOLEAN,
             NEW e \in Outcomes(m), Arrive(m, e, trapped)
      PROVE  InboundInv'
  <2> DEFINE trap == Event("AssetsTrapped", m, NoId, NoId, None)
             before == IF trapped THEN trap ELSE prev
             s == [msg |-> m, event |-> e, trapped |-> trapped, first |-> before = None]
  <2>1. /\ Hop(m) = sub.at /\ UNCHANGED sub
        /\ inbound' = inbound \cup extractReceive(e, before)
        /\ prev' = e /\ shown' = shown \cup {s}
    BY <1>3 DEF Arrive, bufferCount
  <2>2. /\ e.msg = m /\ e.method # "AssetsTrapped"
        /\ e.hash = m.hash \/ (e.hash = NoId /\ e.id \in {m.hash, IdOf(m)})
        /\ m.from = sub.origin =>
               /\ FromOrigin(e)
               /\ \/ e.method \in InMethods(sub)
                  \/ isRelay(m.from) /\ e.method = "ProcessingFailed"
    BY <1>3, <2>1, OutcomesLemma DEF ReportInv
  <2>3. /\ XcmInbound(e, before).msg = m
        /\ before # None => XcmInbound(e, before).trap = IF trapped THEN m ELSE None
    <3>1. trap.method = "AssetsTrapped" /\ trap.msg = m
      BY DEF Event
    <3>2. Waits(prev)
      BY <1>3 DEF InboundInv
    <3> QED BY <2>2, <3>1, <3>2 DEF XcmInbound
  <2>4. ASSUME NEW i \in inbound', i \notin inbound PROVE Tells(i)
    <3>1. i = XcmInbound(e, before)
      BY <2>1, <2>4 DEF extractReceive
    <3>2. i.msg = m /\ i.hash = (IF e.hash = NoId THEN e.id ELSE e.hash)
          /\ i.id = (IF e.id = NoId THEN e.hash ELSE e.id)
      BY <2>2, <3>1 DEF XcmInbound
    <3>3. m.hash # NoId
      BY <1>3, MessagesAssumption DEF ReportInv
    <3>4. IdOf(m) # NoId
      BY <3>3 DEF IdOf
    <3> QED BY <2>2, <3>2, <3>3, <3>4
  <2> DEFINE Seen(x, is) ==
          \/ \E i \in is : i.msg = x.msg /\ i.trap = IF x.trapped THEN x.msg ELSE None
          \/ x.first
          \/ isRelay(x.msg.from) /\ x.event.method = "ProcessingFailed"
          \/ x.msg.from # sub.origin
  <2>5. Seen(s, inbound')
    <3> SUFFICES ASSUME before # None, m.from = sub.origin,
                        ~(isRelay(m.from) /\ e.method = "ProcessingFailed")
                 PROVE  \E i \in inbound' : i.msg = m /\ i.trap = IF trapped THEN m ELSE None
      OBVIOUS
    <3>1. XcmInbound(e, before) \in inbound'
      BY <2>1, <2>2 DEF extractReceive
    <3> QED BY <2>3, <3>1
  <2>6. \A x \in shown : Seen(x, inbound)
    BY <1>3 DEF InboundInv, OnlyFirstOutcomesAreMissed
  <2>7. \A x \in shown' : Seen(x, inbound')
    <3>1. \A x : Seen(x, inbound) => Seen(x, inbound')
      BY <2>1
    <3> HIDE DEF Seen, s
    <3> QED BY <2>1, <2>5, <2>6, <3>1
  <2>8. OnlyFirstOutcomesAreMissed'
    BY <2>1, <2>7 DEF OnlyFirstOutcomesAreMissed
  <2>9. \A i \in inbound' : Tells(i)
    BY <1>3, <2>4 DEF InboundInv
  <2> QED BY <2>1, <2>2, <2>8, <2>9 DEF InboundInv
<1>4. ASSUME InboundInv, UNCHANGED <<sub, inbound, shown, prev>> PROVE InboundInv'
  BY <1>2, <1>4 DEF InboundInv
<1> HIDE DEF Waits, Tells
<1>5. ASSUME InboundInv, OriginBlock \/ OddBlock PROVE InboundInv'
  BY <1>4, <1>5 DEF OriginBlock, OddBlock, Block
<1>6. ASSUME InboundInv, Drain PROVE InboundInv'
  BY <1>4, <1>6 DEF Drain, histories
<1>7. ASSUME InboundInv, NEW q \in pending, Answer(q) PROVE InboundInv'
  BY <1>4, <1>7 DEF Answer
<1>8. ASSUME InboundInv, StreamFails PROVE InboundInv'
  BY <1>4, <1>8 DEF StreamFails
<1>9. ASSUME InboundInv, Resubscribe PROVE InboundInv'
  <2>1. UNCHANGED <<sub, inbound, shown>> /\ (prev' = None \/ prev' = prev)
    BY <1>9 DEF Resubscribe, histories
  <2> QED BY <1>2, <1>9, <2>1 DEF Waits, InboundInv
<1>10. ASSUME InboundInv, RelayBlock PROVE InboundInv'
  BY <1>4, <1>10 DEF RelayBlock
<1>11. ASSUME InboundInv, OtherEvent PROVE InboundInv'
  <2>1. UNCHANGED <<sub, inbound, shown>> /\ prev' = Other
    BY <1>11 DEF OtherEvent, histories, bufferCount
  <2> QED BY <1>2, <1>11, <2>1 DEF Waits, Other
<1>12. ASSUME InboundInv, UNCHANGED vars PROVE InboundInv'
  BY <1>4, <1>12 DEF vars, histories
<1> QED BY <1>1, <1>3, <1>5, <1>6, <1>7, <1>8, <1>9, <1>10, <1>11, <1>12 DEF Next

\* Every outcome is reported with its own trap, but for those the code names as missed
\* (OnlyFirstOutcomesAreMissed; dmp.ts:325-347, ump.ts:138-154, xcmp.ts:97-126).
THEOREM FirstOutcomesMissed == Spec => []OnlyFirstOutcomesAreMissed
<1>1. InboundInv => OnlyFirstOutcomesAreMissed
  BY DEF InboundInv
<1> QED BY <1>1, ReportInductive, InboundInductive, PTL DEF Spec

\* What is reported of one message by the extractors of two chains shares a reference that
\* the matching engine looks up (ReportsMeet; types.ts:68-82, 139-194).
THEOREM TheyMeet == Spec => []ReportsMeet
<1>1. ASSUME ReportInv, RelayInv, InboundInv PROVE ReportsMeet
  <2> SUFFICES ASSUME NEW r \in reports
               PROVE  /\ \A i \in inbound :
                             i.msg = r.msg => {i.hash, i.id} \cap ({r.hash, r.id} \ {NoId}) # {}
                      /\ \A l \in relayed :
                             l.msg = r.msg => l.id = IF r.id = NoId THEN r.hash ELSE r.id
    BY DEF ReportsMeet
  <2>1. r.hash = r.msg.hash /\ r.id = getMessageId(r.msg)
    BY <1>1 DEF ReportInv, ReportFits
  <2>2. ASSUME NEW i \in inbound, i.msg = r.msg
        PROVE  {i.hash, i.id} \cap ({r.hash, r.id} \ {NoId}) # {}
    <3> DEFINE m == r.msg
    <3>1. m \in sub.msgs /\ (i.hash = m.hash \/ i.id = m.hash \/ i.id = IdOf(m))
      BY <1>1, <2>2 DEF InboundInv
    <3>2. m.hash # NoId /\ (m.ver = "V2" => m.topic = NoId)
      BY <1>1, <3>1, MessagesAssumption DEF ReportInv
    <3>3. IdOf(m) # NoId /\ IdOf(m) \in {r.hash, r.id}
      BY <2>1, <3>2 DEF IdOf, getMessageId
    <3> QED BY <2>1, <3>1, <3>2, <3>3
  <2>3. ASSUME NEW l \in relayed, l.msg = r.msg
        PROVE  l.id = IF r.id = NoId THEN r.hash ELSE r.id
    BY <1>1, <2>1, <2>3 DEF RelayInv
  <2> QED BY <2>2, <2>3
<1> QED BY <1>1, ReportInductive, RelayInductive, InboundInductive, PTL DEF Spec

(* Streams that end *)

\* What is searched for and cannot be read is not of the messages, so it is one of the bad.
LEMMA SearchUnread ==
    ASSUME sub \in Routes, NEW messages \in Seq(Own), NEW bad, NEW good,
           Search(messages, bad, good) = Unread
    PROVE  \E n \in ToSet(messages) : n \in bad
<1> DEFINE hits == {i \in DOMAIN messages : messages[i] \in bad \cup good}
<1>1. DOMAIN messages = 1 .. Len(messages) /\ Len(messages) \in Nat
  OBVIOUS
<1>2. None # Unread /\ Unread \notin Own
  <2>1. Own \subseteq sub.msgs
    BY DEF Own
  <2> QED BY <2>1, ValuesAssumption
<1>3. hits # {} /\ hits \in SUBSET Nat
  BY <1>1, <1>2 DEF Search
<1>4. Min(hits) \in hits
  BY <1>3, MinLemma
<1>5. \A i \in DOMAIN messages : messages[i] \in Own /\ messages[i] \in ToSet(messages)
  BY <1>1 DEF ToSet
<1>6. messages[Min(hits)] \in bad \/ messages[Min(hits)] = Unread
  BY <1>3 DEF Search
<1> QED BY <1>2, <1>4, <1>5, <1>6

\* An answer cannot be read for what Breaks says.
LEMMA UnreadBreaks ==
    ASSUME sub \in Routes, NEW q, QueryFits(q), Found(q) = Unread
    PROVE  Breaks(q)
<1>1. \A c : Towards(c) \subseteq Own
  BY DEF Towards
<1>2. q.by \in {"dmp", "dmpEvent", "ump"} => q.storage \in Seq(Own)
  <2>1. q.by \in {"dmp", "dmpEvent"} => q.storage \in Seq(Towards({Hop(q.msg)}))
    BY DEF QueryFits
  <2>2. q.by = "ump" => q.storage \in Seq(Towards({getRelayId(sub.origin)}))
    BY DEF QueryFits
  <2> QED BY <1>1, <2>1, <2>2
<1>3. CASE q.by = "dmp"
  <2> DEFINE good == {m \in ToSet(q.storage) : Len(q.storage) = 1 \/ m.shape = q.msg.shape}
  <2>1. Search(q.storage, Unreadable(q.storage), good) = Unread
    BY <1>3 DEF Found, findDmpMessagesFromTx
  <2> HIDE DEF good
  <2>2. \E n \in ToSet(q.storage) : n \in Unreadable(q.storage)
    BY <1>2, <1>3, <2>1, SearchUnread
  <2> QED BY <1>3, <2>2 DEF Breaks, Unreadable
<1>4. CASE q.by = "dmpEvent" /\ Len(q.storage) = 1
  <2>1. Search(q.storage, Unreadable(q.storage), ToSet(q.storage)) = Unread
    BY <1>4 DEF Found, findDmpMessagesFromEvent
  <2>2. \E n \in ToSet(q.storage) : n \in Unreadable(q.storage)
    BY <1>2, <1>4, <2>1, SearchUnread
  <2> QED BY <1>4, <2>2 DEF Breaks, Unreadable
<1>5. CASE q.by = "dmpEvent" /\ Len(q.storage) # 1
  <2> DEFINE bad == {m \in ToSet(q.storage) : m.ver \in {"V2", "V5"}}
             good == {m \in ToSet(q.storage) : matchProgramByTopic(m, q.id)}
  <2>1. Search(q.storage, bad, good) = Unread
    BY <1>5 DEF Found, findDmpMessagesFromEvent
  <2>2. PICK n \in ToSet(q.storage) : n \in bad
    <3> HIDE DEF bad, good
    <3> QED BY <1>2, <1>5, <2>1, SearchUnread
  <2>3. n.ver = "V2" \/ ~Decodes(n)
    BY <2>2 DEF Decodes
  <2>4. Len(q.storage) > 1
    <3>1. q.storage \in Seq(Own) /\ q.storage # <<>>
      BY <1>2, <1>5, <2>2 DEF ToSet
    <3>2. Len(q.storage) \in Nat /\ Len(q.storage) # 0
      BY <3>1, EmptySeq
    <3> DEFINE len == Len(q.storage)
    <3>3. len \in Nat /\ len # 0 /\ len # 1
      BY <1>5, <3>2
    <3> HIDE DEF len
    <3>4. len > 1
      BY <3>3
    <3> QED BY <3>4 DEF len
  <2> QED BY <1>5, <2>3, <2>4 DEF Breaks
<1>6. CASE q.by = "xcmp"
  <2>1. q.storage \in Seq(Fragments)
    BY <1>6 DEF QueryFits
  <2>2. CASE \E i \in DOMAIN q.storage : fromXcmpFormat(q.storage[i]) = Unread
    <3>1. PICK i \in DOMAIN q.storage : fromXcmpFormat(q.storage[i]) = Unread
      BY <2>2
    <3>2. q.storage[i] \in Fragments /\ q.storage[i] \in ToSet(q.storage)
      BY <2>1 DEF ToSet
    <3>3. q.storage[i].format = "unknown"
      BY <3>1, <3>2, UnknownLemma
    <3> QED BY <1>6, <3>2, <3>3 DEF Breaks
  <2>3. CASE ~\E i \in DOMAIN q.storage : fromXcmpFormat(q.storage[i]) = Unread
    <3> DEFINE pages == [i \in DOMAIN q.storage |-> fromXcmpFormat(q.storage[i])]
               messages == FlattenSeq(pages)
               good == {n \in ToSet(messages) : FoundBy(q, n)}
    <3>1. Search(messages, {}, good) = Unread
      BY <1>6, <2>3 DEF Found, findOutboundHrmpMessage
    <3>2. pages \in Seq(Seq(Own))
      <4>1. DOMAIN q.storage = 1 .. Len(q.storage) /\ Len(q.storage) \in Nat
        BY <2>1
      <4>2. \A i \in DOMAIN q.storage : q.storage[i] \in Fragments
        BY <2>1
      <4>3. \A i \in DOMAIN q.storage : fromXcmpFormat(q.storage[i]) \in Seq(Own)
        BY <2>3, <4>2, PageLemma
      <4> QED BY <4>1, <4>3
    <3>3. messages \in Seq(Own)
      <4> HIDE DEF pages
      <4> QED BY <3>2, FlattenLemma
    <3> HIDE DEF messages, good
    <3>4. \E n \in ToSet(messages) : n \in {}
      BY <3>1, <3>3, SearchUnread
    <3> QED BY <3>4
  <2> QED BY <2>2, <2>3
<1>7. CASE q.by = "ump"
  <2>1. CASE Unreadable(q.storage) # {}
    BY <1>7, <2>1 DEF Breaks, Unreadable
  <2>2. CASE Unreadable(q.storage) = {}
    <3> DEFINE good == {m \in ToSet(q.storage) : FoundBy(q, m)}
    <3>1. Search(q.storage, {}, good) = Unread
      BY <1>7, <2>2 DEF Found, findOutboundUmpMessage
    <3> HIDE DEF good
    <3>2. \E n \in ToSet(q.storage) : n \in {}
      BY <1>2, <1>7, <3>1, SearchUnread
    <3> QED BY <3>2
  <2> QED BY <2>1, <2>2
<1> QED BY <1>3, <1>4, <1>5, <1>6, <1>7 DEF QueryFits

\* A message found is not reported only if it goes on to a parachain of another consensus.
LEMMA StopsBreak ==
    ASSUME sub \in Routes, NEW q, QueryFits(q), Found(q) # None, Found(q) # Unread,
           GenericXcmSent(q, Found(q)).stops = Unread
    PROVE  Breaks(q)
<1> DEFINE m == Found(q)
           rest == recursiveExtractStops(sub.origin, Program(m))
<1>1. m \in Own /\ Recipient(q, m) = Hop(m)
  BY FoundFits
<1>2. mapXcmSent(Hop(m), m) = Unread
  BY <1>1 DEF GenericXcmSent
<1>3. Travels(m, sub.origin) /\ Hop(m) = m.path[1]
  BY <1>1, OwnTravels
<1>4. PICK S : /\ Named(m, S)
               /\ rest = IF Bridges(m, S) THEN Unread
                         ELSE Kept(Tail(m.path), {i - 1 : i \in S \ {1}})
  <2> HIDE DEF m
  <2> QED BY <1>3, StopsLemma
<1> HIDE DEF m
<1>5. ASSUME ~Bridges(m, S) PROVE FALSE
  <2> DEFINE T == {i - 1 : i \in S \ {1}}
             tail == Tail(m.path)
             seqs == [i \in DOMAIN tail |-> IF i \in T THEN <<tail[i]>> ELSE <<>>]
  <2>1. m.path \in Seq(Chains) /\ m.path # <<>> /\ Hop(m) \in Chains
    <3>1. m.path \in Seq(Chains) /\ m.path # <<>>
      BY <1>3 DEF Travels
    <3> QED BY <1>3, <3>1, EmptySeq
  <2>2. tail \in Seq(Chains)
    BY <2>1, HeadTailProperties
  <2> HIDE DEF T, tail
  <2>3. seqs \in Seq(Seq(Chains))
    <3>1. /\ DOMAIN tail = 1 .. Len(tail) /\ Len(tail) \in Nat
          /\ \A i \in DOMAIN tail : tail[i] \in Chains
      BY <2>2
    <3>2. ASSUME NEW c \in Chains PROVE <<c>> \in Seq(Chains) /\ <<>> \in Seq(Chains)
      OBVIOUS
    <3>3. \A i \in DOMAIN tail : seqs[i] \in Seq(Chains)
      BY <3>1, <3>2
    <3> HIDE DEF seqs
    <3>4. seqs = [i \in 1 .. Len(tail) |-> seqs[i]]
      BY <3>1 DEF seqs
    <3> QED BY <3>1, <3>3, <3>4
  <2> HIDE DEF seqs
  <2>4. FlattenSeq(seqs) \in Seq(Chains)
    BY <2>3, FlattenLemma
  <2>5. rest = FlattenSeq(seqs)
    BY <1>4, <1>5 DEF Kept, seqs, T, tail
  <2>6. <<Hop(m)>> \o rest \in Seq(Chains)
    <3>1. <<Hop(m)>> \in Seq(Chains)
      BY <2>1
    <3> HIDE DEF rest
    <3> QED BY <2>4, <2>5, <3>1, ConcatProperties
  <2>7. rest # Unread /\ Unread \notin Seq(Chains)
    BY <2>4, <2>5, ValuesAssumption
  <2>8. mapXcmSent(Hop(m), m) = <<Hop(m)>> \o rest
    BY <2>7 DEF mapXcmSent
  <2> QED BY <1>2, <2>6, <2>7, <2>8
<1>6. \E i \in 2 .. Len(m.path) : Bridged(m, i)
  BY <1>5 DEF Bridges
<1> QED BY <1>6 DEF Breaks, m

EndsBy ==
    \A x \in up \ up' :
        \/ StreamFails
        \/ \E q \in pending : q.by = x /\ Answer(q) /\ Breaks(q)
        \/ /\ x = "relay"
           /\ \E page \in ToSet(Head(candidates)) :
                  page.format = "unknown" /\ messageCriteria(page.to)

\* Whatever lies in the queues and pages, a stream ends for want of an answer, for a message
\* or a page it cannot read, and for a message found that goes on to a parachain of another
\* consensus; nothing else the chains do ends one (OnlyUnreadablesEndStreams;
\* dmp.ts:119-248, xcmp.ts:20-60, ump.ts:84-119, relay.ts:13-52, util.ts:97-107).
THEOREM UnreadablesEndStreams == Spec => OnlyUnreadablesEndStreams
<1>1. ASSUME ReportInv, RelayInv, [Next]_vars PROVE EndsBy
  <2> SUFFICES ASSUME NEW x \in up \ up'
               PROVE  \/ StreamFails
                      \/ \E q \in pending : q.by = x /\ Answer(q) /\ Breaks(q)
                      \/ /\ x = "relay"
                         /\ \E page \in ToSet(Head(candidates)) :
                                page.format = "unknown" /\ messageCriteria(page.to)
    BY DEF EndsBy
  <2>1. CASE OriginBlock \/ OddBlock
    <3>1. UNCHANGED up
      BY <2>1 DEF OriginBlock, OddBlock, Block
    <3> QED BY <3>1
  <2>2. ASSUME NEW q \in pending, Answer(q) PROVE q.by = x /\ Breaks(q)
    <3>1. QueryFits(q) /\ sub \in Routes
      BY <1>1 DEF ReportInv
    <3>2. /\ \/ Found(q) = Unread
             \/ Found(q) # None /\ GenericXcmSent(q, Found(q)).stops = Unread
          /\ up' = up \ {q.by}
      BY <2>2 DEF Answer, Fall
    <3> QED BY <3>1, <3>2, UnreadBreaks, StopsBreak
  <2>3. CASE RelayBlock
    <3> DEFINE pages == Head(candidates)
    <3>1. candidates # <<>> /\ extractRelayReceive(pages)
      BY <2>3 DEF RelayBlock
    <3>2. pages \in Seq(Fragments)
      BY <1>1, <3>1 DEF RelayInv
    <3> HIDE DEF pages
    <3>3. x = "relay" /\ \E i \in FirstWantedPage(pages) : fromXcmpFormat(pages[i]) = Unread
      BY <3>1 DEF extractRelayReceive
    <3>4. PICK i \in FirstWantedPage(pages) : fromXcmpFormat(pages[i]) = Unread
      BY <3>3
    <3> DEFINE wanted == WantedPages(pages)
    <3>5. wanted \in SUBSET Nat /\ wanted \subseteq DOMAIN pages
      BY <3>2 DEF WantedPages
    <3>6. i \in wanted
      <4> HIDE DEF wanted
      <4>1. wanted # {} => Min(wanted) \in wanted
        BY <3>5, MinLemma
      <4> QED BY <4>1 DEF FirstWantedPage, wanted
    <3>7. i \in DOMAIN pages /\ messageCriteria(pages[i].to)
      BY <3>6 DEF WantedPages
    <3>8. pages[i] \in Fragments /\ pages[i] \in ToSet(pages)
      BY <3>2, <3>7 DEF ToSet
    <3>9. pages[i].format = "unknown"
      BY <1>1, <3>4, <3>8, UnknownLemma DEF ReportInv
    <3> QED BY <3>3, <3>7, <3>8, <3>9 DEF pages
  <2>4. ASSUME UNCHANGED up PROVE FALSE
    BY <2>4
  <2>5. CASE Drain \/ OtherEvent \/ UNCHANGED vars
    <3>1. UNCHANGED up
      BY <2>5 DEF Drain, OtherEvent, vars
    <3> QED BY <2>4, <3>1
  <2>6. CASE Resubscribe
    BY <2>6 DEF Resubscribe
  <2>7. ASSUME NEW m \in sub.msgs, NEW trapped \in BOOLEAN, NEW e \in Outcomes(m),
               Arrive(m, e, trapped)
        PROVE  FALSE
    BY <2>4, <2>7 DEF Arrive
  <2> QED BY <1>1, <2>1, <2>2, <2>3, <2>5, <2>6, <2>7 DEF Next
<1>2. [][EndsBy]_vars => OnlyUnreadablesEndStreams
  BY PTL DEF OnlyUnreadablesEndStreams, EndsBy
<1>3. ReportInv /\ RelayInv /\ [Next]_vars => [EndsBy]_vars
  BY <1>1
<1> QED BY <1>2, <1>3, ReportInductive, RelayInductive, PTL DEF Spec
=============================================================================
