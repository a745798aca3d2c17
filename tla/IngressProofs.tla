--------------------------- MODULE IngressProofs ---------------------------
(***************************************************************************)
(* Proofs about Ingress, for every set of chains and requests and every    *)
(* load.                                                                   *)
(***************************************************************************)
EXTENDS Ingress, SequenceTheorems, TLAPS

\* The reply lists, which are also what their answers tell.
Lists == {ReplyTo(r) : r \in Requests}

\* The type invariant, with the domain of every function, and what keeps the
\* consumer's sets within each other.
TypeInv ==
    /\ networks \in SUBSET Chains
    /\ metadata \in [Chains -> Nat]
    /\ stream \in [Chains -> Seq(Nat)]
    /\ trimmed \in [Chains -> Nat]
    /\ \A c \in Chains : trimmed[c] <= Len(stream[c])
    /\ asked \in [Chains -> Seq(Requests)]
    /\ replies \in [Lists -> Seq(Lists)]
    /\ runtime \in [Chains -> Nat]
    /\ producer \in (SUBSET Chains) \cup {Down}
    /\ opened \in SUBSET Chains
    /\ listener \in [Chains -> Reader]
    /\ fetching \in SUBSET Requests
    /\ known \in SUBSET Chains
    /\ consumer \in (SUBSET known) \cup {Down}
    /\ consumers \in SUBSET known
    /\ registry \in [Chains -> Nat]
    /\ reader \in [Chains -> Reader]
    /\ seen \in [Chains -> SUBSET Nat]
    /\ \A c \in Chains : seen[c] \subseteq 1..Len(stream[c])
    /\ stored \in [Chains -> Nat]
    /\ \A c \in Chains : stored[c] <= Len(stream[c])
    /\ pipe \in Seq(Command)
    /\ state \in [Requests -> RequestState]
    /\ load \in Load
----------------------------------------------------------------------------
(* Readers *)

\* The larger of two numbers.
LEMMA MaxOfTwo ==
    ASSUME NEW a \in Nat, NEW b \in Nat
    PROVE  Max({a, b}) = IF a >= b THEN a ELSE b
BY DEF Max

\* What the operations of a reader make of it.
LEMMA ReaderOps ==
    ASSUME NEW r \in Reader, NEW n \in Nat
    PROVE  /\ XRead(r, n) \in Reader /\ After(r, n) \in Reader
           /\ TimedOut(r) \in Reader /\ Stopped(r) \in Reader
           /\ NoReader \in Reader /\ NewReader(Latest) \in Reader
BY DEF Reader, XRead, After, TimedOut, Stopped, NoReader, NewReader

\* The entry a blocked reader is given: the first after its own that is not trimmed.
LEMMA EntryLemma ==
    ASSUME NEW r \in Reader, NEW trim \in Nat, NEW top \in Nat, HasEntry(r, trim, top)
    PROVE  /\ Entry(r, trim) \in 1..top
           /\ Entry(r, trim) > r.from
           /\ (r.from + 1)..(Entry(r, trim) - 1) \subseteq 1..trim
<1>1. r.from \in Nat
  BY DEF Reader
<1> QED BY <1>1, MaxOfTwo DEF HasEntry, Entry
----------------------------------------------------------------------------
(* Types *)

\* The names of the lists, the answers and the states of a request.
LEMMA RequestTypes ==
    ASSUME NEW r \in Requests
    PROVE  /\ Chain[r] \in Chains
           /\ ReplyTo(r) \in Lists /\ Answer(r) = ReplyTo(r)
           /\ \A a \in {"new", "adding", "popping", "rejected"} :
                 [at |-> a, got |-> None] \in RequestState
           /\ \A l \in Lists : [at |-> "answered", got |-> l] \in RequestState
<1>1. Lists = {Answer(q) : q \in Requests}
  BY DEF Lists, Answer, ReplyTo
<1> QED BY <1>1, IngressAssumption DEF Lists, Answer, ReplyTo, RequestState

\* Spending takes one from a count of the load.
LEMMA SpendType ==
    ASSUME load \in Load, NEW what \in {"blocks", "restarts", "errors", "upgrades", "trims"},
           Spend(what)
    PROVE  load' \in Load
BY DEF Load, Spend

\* The initial states are well typed.
LEMMA TypeInit == Init => TypeInv
<1> SUFFICES ASSUME Init PROVE TypeInv
  OBVIOUS
<1>1. replies \in [Lists -> Seq(Lists)]
  BY DEF Init, Lists
<1>2. state \in [Requests -> RequestState]
  BY RequestTypes DEF Init
<1>3. load \in Load
  BY IngressAssumption DEF Init
<1>4. listener \in [Chains -> Reader]
  BY DEF Init, NoReader, Reader
<1> QED BY <1>1, <1>2, <1>3, <1>4 DEF Init, TypeInv

\* The readers, and how far the streams are, at chain c.
LEMMA ChainTypes ==
    ASSUME TypeInv, NEW c \in Chains
    PROVE  /\ listener[c] \in Reader /\ reader[c] \in Reader
           /\ stream[c] \in Seq(Nat) /\ Len(stream[c]) \in Nat
           /\ asked[c] \in Seq(Requests) /\ Len(asked[c]) \in Nat
           /\ trimmed[c] \in Nat /\ runtime[c] \in Nat
BY DEF TypeInv

\* A step of one reader, or of one listener, keeps the types.
LEMMA TypeRead ==
    ASSUME TypeInv, NEW c \in Chains, NEW l \in Reader,
           \/ Reads(c, l) /\ UNCHANGED <<listener, seen, stored>>
           \/ Listens(c, l) /\ UNCHANGED <<reader, seen, stored>>,
           UNCHANGED <<redis, runtime, producer, opened, fetching, consumer, known,
                       consumers, registry, pipe, state>>,
           load' \in Load
    PROVE  TypeInv'
<1>1. reader' \in [Chains -> Reader] /\ listener' \in [Chains -> Reader]
  BY DEF TypeInv, Reads, Listens
<1>2. UNCHANGED <<seen, stored>>
  OBVIOUS
<1> QED BY <1>1, <1>2 DEF TypeInv, redis

\* The steps of the producer keep the types.
LEMMA TypeProducer ==
    ASSUME TypeInv, NEW c \in Chains,
           Producing(c) \/ Publish(c) \/ Trim(c) \/ Upgrade(c) \/ ListenerFails(c)
    PROVE  TypeInv'
<1>2. CASE WriteMetadata(c)
  BY <1>2 DEF TypeInv, WriteMetadata, consuming, producing
<1>3. CASE OpenStream(c)
  BY <1>3, ReaderOps DEF TypeInv, OpenStream, consuming, redis, Opening
<1>4. CASE Publish(c)
  BY <1>4, SpendType DEF TypeInv, Publish, consuming, producing
<1>5. CASE Trim(c)
  <2>1. trimmed' \in [Chains -> Nat] /\ \A d \in Chains : trimmed'[d] <= Len(stream[d])
    BY <1>5, ChainTypes DEF TypeInv, Trim
  <2>2. load' \in Load
    BY <1>5, SpendType DEF TypeInv, Trim
  <2> QED BY <1>5, <2>1, <2>2 DEF TypeInv, Trim, consuming, producing
<1>6. CASE Upgrade(c)
  <2>1. runtime' \in [Chains -> Nat]
    BY <1>6, ChainTypes DEF TypeInv, Upgrade
  <2>2. load' \in Load
    BY <1>6, SpendType DEF TypeInv, Upgrade
  <2> QED BY <1>6, <2>1, <2>2 DEF TypeInv, Upgrade, consuming, redis
<1>8. CASE ListenerCalls(c)
  <2>1. XRead(listener[c], Len(asked[c])) \in Reader
    BY ReaderOps, ChainTypes
  <2> QED BY <1>8, <2>1, TypeRead DEF ListenerCalls, consuming, TypeInv
<1>9. CASE GetRequest(c)
  <2> DEFINE n == Entry(listener[c], 0)
  <2>1. n \in 1..Len(asked[c])
    BY <1>9, EntryLemma, ChainTypes DEF GetRequest
  <2>2. asked[c][n] \in Requests
    BY <2>1, ChainTypes
  <2> HIDE DEF n
  <2>3. After(listener[c], n) \in Reader
    <3>1. n \in Nat /\ listener[c] \in Reader
      BY <2>1, ChainTypes
    <3> QED BY <3>1, ReaderOps
  <2>4. /\ listener' = [listener EXCEPT ![c] = After(listener[c], n)]
        /\ fetching' = fetching \cup {asked[c][n]}
    BY <1>9 DEF GetRequest, Listens, n
  <2>5. listener' \in [Chains -> Reader] /\ fetching' \in SUBSET Requests
    BY <2>2, <2>3, <2>4 DEF TypeInv
  <2> QED BY <1>9, <2>5 DEF TypeInv, GetRequest, consuming, redis
<1>10. CASE ListenerTimesOut(c)
  <2>1. TimedOut(listener[c]) \in Reader
    BY ReaderOps, ChainTypes
  <2> QED BY <1>10, <2>1, TypeRead DEF ListenerTimesOut, consuming, TypeInv
<1>11. CASE ListenerFails(c)
  <2>1. Stopped(listener[c]) \in Reader
    BY ReaderOps, ChainTypes
  <2> QED BY <1>11, <2>1, TypeRead, SpendType DEF ListenerFails, consuming, TypeInv
<1> QED BY <1>2, <1>3, <1>4, <1>5, <1>6, <1>8, <1>9, <1>10, <1>11 DEF Producing

\* What a consumer loses keeps the types.
LEMMA TypeLose ==
    ASSUME TypeInv, LoseConsumer, load' \in Load
    PROVE  TypeInv'
<1>1. state' \in [Requests -> RequestState]
  BY RequestTypes DEF TypeInv, LoseConsumer
<1>2. reader' \in [Chains -> Reader]
  BY ReaderOps DEF LoseConsumer, NoReader, Reader
<1> QED BY <1>1, <1>2 DEF TypeInv, LoseConsumer, redis, producing

\* The steps of the consumer keep the types.
LEMMA TypeConsumer ==
    ASSUME TypeInv, NEW c \in Chains,
           Reading(c) \/ ReaderFails(c) \/ ReaderTimesOut(c)
    PROVE  TypeInv'
<1>2. CASE StartChain(c)
  <2>1. consumer \in SUBSET known /\ c \in known
    BY <1>2 DEF TypeInv, StartChain, Starting
  <2> QED BY <1>2, <2>1, ReaderOps DEF TypeInv, StartChain, redis, producing
<1>3. CASE StartFails(c)
  BY <1>3, TypeLose DEF StartFails, TypeInv
<1>6. CASE ReaderCalls(c)
  <2>1. XRead(reader[c], Len(stream[c])) \in Reader
    BY ReaderOps, ChainTypes
  <2> QED BY <1>6, <2>1, TypeRead DEF ReaderCalls, producing, TypeInv
<1>7. CASE GetBlock(c)
  <2>1. NextBlock(c) \in 1..Len(stream[c])
    BY <1>7, EntryLemma, ChainTypes DEF GetBlock, NextBlock
  <2>2. After(reader[c], NextBlock(c)) \in Reader
    <3>1. NextBlock(c) \in Nat /\ reader[c] \in Reader
      BY <2>1, ChainTypes
    <3> QED BY <3>1, ReaderOps
  <2> DEFINE n == NextBlock(c)
  <2>3. /\ reader' = [reader EXCEPT ![c] = After(reader[c], n)]
        /\ seen' = [seen EXCEPT ![c] = @ \cup {n}]
        /\ stored' = [stored EXCEPT ![c] = n]
    BY <1>7 DEF GetBlock, Reads
  <2> HIDE DEF n
  <2>4. n \in 1..Len(stream[c]) /\ n \in Nat /\ n <= Len(stream[c])
    BY <2>1, ChainTypes DEF n
  <2>5. seen' \in [Chains -> SUBSET Nat] /\ stored' \in [Chains -> Nat]
    BY <2>3, <2>4 DEF TypeInv
  <2>6. \A d \in Chains : seen'[d] \subseteq 1..Len(stream[d]) /\ stored'[d] <= Len(stream[d])
    BY <2>3, <2>4 DEF TypeInv
  <2>7. reader' \in [Chains -> Reader]
    BY <2>2, <2>3 DEF TypeInv, n
  <2> QED BY <1>7, <2>5, <2>6, <2>7 DEF TypeInv, GetBlock, redis, producing
<1>8. CASE BlockThrows(c)
  <2>1. Stopped(reader[c]) \in Reader
    BY ReaderOps, ChainTypes
  <2> QED BY <1>8, <2>1, TypeRead DEF BlockThrows, producing, TypeInv
<1>9. CASE ReaderTimesOut(c)
  <2>1. TimedOut(reader[c]) \in Reader
    BY ReaderOps, ChainTypes
  <2> QED BY <1>9, <2>1, TypeRead DEF ReaderTimesOut, producing, TypeInv
<1>10. CASE ReaderFails(c)
  <2>1. Stopped(reader[c]) \in Reader
    BY ReaderOps, ChainTypes
  <2> QED BY <1>10, <2>1, TypeRead, SpendType DEF ReaderFails, producing, TypeInv
<1> QED BY <1>2, <1>3, <1>6, <1>7, <1>8, <1>9, <1>10 DEF Reading

\* The commands of a request keep the types.
LEMMA TypeRequest ==
    ASSUME TypeInv, NEW r \in Requests, Ask(r) \/ Asking(r)
    PROVE  TypeInv'
<1>1. [op |-> "add", req |-> r] \in Command /\ [op |-> "pop", req |-> r] \in Command
  BY DEF Command
<1>2. ASSUME NEW at \in {"new", "adding", "popping", "rejected"}, Steps(r, at)
      PROVE  state' \in [Requests -> RequestState]
  BY <1>2, RequestTypes DEF TypeInv, Steps
<1>3. CASE Ask(r)
  BY <1>1, <1>2, <1>3 DEF TypeInv, Ask, redis, producing
<1>4. CASE Push(r)
  BY <1>4, RequestTypes DEF TypeInv, Push, consuming
<1>5. CASE Added(r)
  <2>1. state' \in [Requests -> RequestState]
    BY <1>2, <1>5 DEF Added
  <2>2. /\ asked' = [asked EXCEPT ![Chain[r]] = Append(@, r)]
        /\ pipe' = Append(Tail(pipe), [op |-> "pop", req |-> r]) /\ pipe # <<>>
    BY <1>5 DEF Added, First
  <2>3. asked' \in [Chains -> Seq(Requests)]
    BY <2>2, RequestTypes DEF TypeInv
  <2>4. pipe' \in Seq(Command)
    <3>1. pipe \in Seq(Command) /\ Tail(pipe) \in Seq(Command)
      BY <2>2 DEF TypeInv
    <3> QED BY <1>1, <2>2, <3>1
  <2> QED BY <1>5, <2>1, <2>3, <2>4 DEF TypeInv, Added, producing
<1>6. CASE Popped(r)
  <2>1. ReplyTo(r) \in Lists /\ Head(replies[ReplyTo(r)]) \in Lists
    BY <1>6, RequestTypes DEF TypeInv, Popped
  <2>2. state' \in [Requests -> RequestState]
    BY <1>6, <2>1, RequestTypes DEF TypeInv, Popped
  <2>3. Tail(replies[ReplyTo(r)]) \in Seq(Lists) /\ Tail(pipe) \in Seq(Command)
    BY <1>6, <2>1 DEF TypeInv, Popped, First
  <2> QED BY <1>6, <2>1, <2>2, <2>3 DEF TypeInv, Popped, producing
<1>7. CASE PopTimesOut(r)
  <2>1. state' \in [Requests -> RequestState]
    BY <1>2, <1>7 DEF PopTimesOut
  <2>2. pipe' \in Seq(Command)
    BY <1>7 DEF TypeInv, PopTimesOut, First
  <2> QED BY <1>7, <2>1, <2>2 DEF TypeInv, PopTimesOut, redis, producing
<1> QED BY <1>3, <1>4, <1>5, <1>6, <1>7 DEF Asking

\* TypeInv is inductive.
LEMMA TypeStep == TypeInv /\ [Next]_vars => TypeInv'
<1> SUFFICES ASSUME TypeInv, [Next]_vars PROVE TypeInv'
  OBVIOUS
<1>1. CASE UNCHANGED vars
  BY <1>1 DEF TypeInv, vars, redis, producing, consuming
<1>2. ASSUME NEW config \in load.configs, StartProducer(config) PROVE TypeInv'
  BY <1>2 DEF TypeInv, StartProducer, consuming, Load
<1>3. ASSUME StopProducer PROVE TypeInv'
  BY <1>3, SpendType, ReaderOps DEF TypeInv, StopProducer, consuming, redis
<1>4. ASSUME StopConsumer PROVE TypeInv'
  BY <1>4, TypeLose, SpendType DEF StopConsumer, TypeInv
<1>5. ASSUME StartConsumer \/ Poll PROVE TypeInv'
  BY <1>5 DEF TypeInv, StartConsumer, Poll, ReadNetworks, redis, producing
<1> QED
  BY <1>1, <1>2, <1>3, <1>4, <1>5, TypeProducer, TypeConsumer, TypeRequest DEF Next

LEMMA TypeInductive == Spec => []TypeInv
BY TypeInit, TypeStep, PTL DEF Spec
\* Every variable of the ingress stays in its type.
THEOREM TypeCorrect == Spec => []TypeOK
<1>1. TypeInv => TypeOK
  <2> SUFFICES ASSUME TypeInv PROVE TypeOK
    OBVIOUS
  <2>1. ASSUME NEW c \in Chains
        PROVE  /\ trimmed[c] \in 0..Len(stream[c])
               /\ stored[c] \in seen[c] \cup (0..Len(stream[c]))
    BY ChainTypes DEF TypeInv
  <2> QED BY <2>1 DEF TypeInv, TypeOK
<1> QED BY <1>1, TypeInductive, PTL
----------------------------------------------------------------------------
(* Storage requests *)

\* What a reply list holds is what its name says.
RepliesFit ==
    \A r \in Requests : \A i \in 1..Len(replies[ReplyTo(r)]) :
        replies[ReplyTo(r)][i] = Answer(r)

AnswerInv == RepliesFit /\ AnswersAreForTheBlock

LEMMA AnswerInit == Init => AnswerInv
<1> SUFFICES ASSUME Init PROVE AnswerInv
  OBVIOUS
<1>1. \A r \in Requests : replies[ReplyTo(r)] = <<>>
  BY DEF Init
<1>2. \A r \in Requests : state[r].at = "new"
  BY DEF Init
<1> QED BY <1>1, <1>2 DEF AnswerInv, RepliesFit, AnswersAreForTheBlock

\* An answer that is pushed goes to the list of its own name.
LEMMA AnswerPush ==
    ASSUME TypeInv, AnswerInv, NEW r \in Requests, Push(r)
    PROVE  AnswerInv'
<1>1. ASSUME NEW q \in Requests, NEW i \in 1..Len(replies'[ReplyTo(q)])
      PROVE  replies'[ReplyTo(q)][i] = Answer(q)
  <2>1. /\ ReplyTo(q) \in Lists /\ ReplyTo(r) \in Lists
        /\ Answer(r) = ReplyTo(r) /\ Answer(q) = ReplyTo(q)
    BY RequestTypes
  <2>2. \A j \in 1..Len(replies[ReplyTo(q)]) : replies[ReplyTo(q)][j] = Answer(q)
    BY DEF AnswerInv, RepliesFit
  <2>3. CASE ReplyTo(q) = ReplyTo(r)
    <3>1. replies'[ReplyTo(q)] = Append(replies[ReplyTo(q)], Answer(q))
      BY <2>1, <2>3 DEF Push, TypeInv
    <3>2. replies[ReplyTo(q)] \in Seq(Lists)
      BY <2>1 DEF TypeInv
    <3> QED BY <2>1, <2>2, <3>1, <3>2
  <2>4. CASE ReplyTo(q) # ReplyTo(r)
    BY <2>1, <2>2, <2>4 DEF Push, TypeInv
  <2> QED BY <2>3, <2>4
<1> QED BY <1>1 DEF AnswerInv, RepliesFit, AnswersAreForTheBlock, Push, consuming

\* The answer that is popped is one of its list, and the others stay.
LEMMA AnswerPop ==
    ASSUME TypeInv, AnswerInv, NEW r \in Requests, Popped(r)
    PROVE  AnswerInv'
<1>1. /\ ReplyTo(r) \in Lists /\ replies[ReplyTo(r)] \in Seq(Lists)
      /\ replies[ReplyTo(r)] # <<>>
  BY RequestTypes DEF TypeInv, Popped
<1>2. Head(replies[ReplyTo(r)]) = Answer(r)
  BY <1>1 DEF AnswerInv, RepliesFit
<1>3. AnswersAreForTheBlock'
  BY <1>2 DEF AnswerInv, AnswersAreForTheBlock, Popped, TypeInv
<1>4. ASSUME NEW q \in Requests, NEW i \in 1..Len(replies'[ReplyTo(q)])
      PROVE  replies'[ReplyTo(q)][i] = Answer(q)
  <2>1. ReplyTo(q) \in Lists
    BY RequestTypes
  <2>2. \A j \in 1..Len(replies[ReplyTo(q)]) : replies[ReplyTo(q)][j] = Answer(q)
    BY DEF AnswerInv, RepliesFit
  <2>3. CASE ReplyTo(q) = ReplyTo(r)
    <3>1. replies'[ReplyTo(q)] = Tail(replies[ReplyTo(q)])
      BY <2>1, <2>3 DEF Popped, TypeInv
    <3> QED BY <1>1, <2>2, <2>3, <3>1
  <2>4. CASE ReplyTo(q) # ReplyTo(r)
    BY <2>1, <2>2, <2>4 DEF Popped, TypeInv
  <2> QED BY <2>3, <2>4
<1> QED BY <1>3, <1>4 DEF AnswerInv, RepliesFit

\* A request that loses its answer, or asks for one, is not answered.
LEMMA AnswerOther ==
    ASSUME TypeInv, AnswerInv, UNCHANGED replies,
           \A r \in Requests : state'[r] = state[r] \/ state'[r].at # "answered"
    PROVE  AnswerInv'
BY DEF AnswerInv, RepliesFit, AnswersAreForTheBlock

LEMMA AnswerStep == TypeInv /\ AnswerInv /\ [Next]_vars => AnswerInv'
<1> SUFFICES ASSUME TypeInv, AnswerInv, [Next]_vars PROVE AnswerInv'
  OBVIOUS
<1> DEFINE Unanswered == \A r \in Requests : state'[r] = state[r] \/ state'[r].at # "answered"
<1>1. ASSUME NEW r \in Requests, Steps(r, "adding") \/ Steps(r, "popping") \/ Steps(r, "rejected")
      PROVE  Unanswered
  BY <1>1 DEF Steps, TypeInv
<1>2. ASSUME LoseConsumer PROVE UNCHANGED replies /\ Unanswered
  BY <1>2 DEF LoseConsumer, redis, TypeInv
<1>3. ASSUME NEW r \in Requests, Ask(r) \/ Added(r) \/ PopTimesOut(r)
      PROVE  UNCHANGED replies /\ Unanswered
  BY <1>1, <1>3 DEF Ask, Added, PopTimesOut, redis
<1>4. ASSUME NEW c \in Chains,
             \/ Producing(c) \/ Publish(c) \/ Trim(c) \/ Upgrade(c) \/ ListenerFails(c)
             \/ StartChain(c) \/ ReaderCalls(c) \/ GetBlock(c) \/ BlockThrows(c)
             \/ ReaderFails(c) \/ ReaderTimesOut(c)
      PROVE  UNCHANGED <<replies, state>>
  BY <1>4 DEF Producing, WriteMetadata, OpenStream, Publish, Trim, Upgrade, ListenerCalls,
     GetRequest, ListenerTimesOut, ListenerFails, StartChain, ReaderCalls, GetBlock,
     BlockThrows, ReaderFails, ReaderTimesOut, redis, consuming
<1>5. ASSUME \/ StopProducer \/ StartConsumer \/ Poll \/ UNCHANGED vars
             \/ \E config \in load.configs : StartProducer(config)
      PROVE  UNCHANGED <<replies, state>>
  BY <1>5 DEF StopProducer, StartConsumer, Poll, StartProducer, vars, redis, consuming
<1>6. ASSUME StopConsumer \/ \E c \in Chains : StartFails(c)
      PROVE  UNCHANGED replies /\ Unanswered
  BY <1>2, <1>6 DEF StopConsumer, StartFails
<1> QED
  BY <1>3, <1>4, <1>5, <1>6, AnswerPush, AnswerPop, AnswerOther DEF Next, Reading, Asking

\* A request is answered with the storage of its own chain, key and block.
THEOREM AnswersFit == Spec => []AnswersAreForTheBlock
<1>1. AnswerInv => AnswersAreForTheBlock
  BY DEF AnswerInv
<1> QED BY <1>1, AnswerInit, AnswerStep, TypeInductive, PTL DEF Spec
----------------------------------------------------------------------------
(* Blocks *)

\* What the reader of chain c has been given: nothing before its first entry; then
\* its id is the latest one given, it waits for what comes after that, and what it
\* was given reaches from any entry to the latest, but for what was trimmed.
Contiguous(c) ==
    /\ (consumer = Down \/ c \in consumer) => reader[c] = NoReader
    /\ reader[c].at = "off" => reader[c].id = Latest
    /\ reader[c].id = Latest => seen[c] = {}
    /\ reader[c].id # Latest =>
          /\ reader[c].id \in seen[c]
          /\ \A n \in seen[c] : n <= reader[c].id
          /\ \E lo \in seen[c] : \A n \in seen[c] : lo <= n
          /\ \A n \in seen[c] : n..reader[c].id \subseteq seen[c] \cup 1..trimmed[c]
          /\ reader[c].at = "blocked" => reader[c].from = reader[c].id

ContiguousInv == \A c \in Chains : Contiguous(c)

\* The least and the greatest element of a set of numbers, when it has them.
LEMMA MinMax ==
    ASSUME NEW S \in SUBSET Nat, NEW lo \in S, NEW hi \in S,
           \A n \in S : lo <= n /\ n <= hi
    PROVE  Min(S) = lo /\ Max(S) = hi
<1>1. Min(S) \in S /\ \A n \in S : Min(S) <= n
  BY DEF Min
<1>2. Max(S) \in S /\ \A n \in S : Max(S) >= n
  BY DEF Max
<1>3. \A m, n \in Nat : m <= n /\ n <= m => m = n
  OBVIOUS
<1>4. Min(S) = lo
  <2> HIDE DEF Min
  <2> QED BY <1>1, <1>3
<1>5. Max(S) = hi
  <2> HIDE DEF Max
  <2> QED BY <1>2, <1>3
<1> QED BY <1>4, <1>5

LEMMA ContiguousEnough ==
    ASSUME TypeInv, ContiguousInv
    PROVE  BlocksAreContiguous
<1> SUFFICES ASSUME NEW c \in Chains, seen[c] # {}
             PROVE  Min(seen[c])..Max(seen[c]) \subseteq seen[c] \cup 1..trimmed[c]
  BY DEF BlocksAreContiguous
<1>1. Contiguous(c) /\ reader[c].id # Latest /\ seen[c] \subseteq Nat
  BY DEF ContiguousInv, Contiguous, TypeInv
<1>2. PICK lo \in seen[c] : \A n \in seen[c] : lo <= n
  BY <1>1 DEF Contiguous
<1>3. Min(seen[c]) = lo /\ Max(seen[c]) = reader[c].id
  BY <1>1, <1>2, MinMax DEF Contiguous
<1> QED BY <1>1, <1>3 DEF Contiguous

LEMMA ContiguousInit == Init => ContiguousInv
<1> SUFFICES ASSUME Init, NEW c \in Chains PROVE Contiguous(c)
  BY DEF ContiguousInv
<1>1. reader[c] = NoReader /\ seen[c] = {}
  BY DEF Init
<1> QED BY <1>1 DEF Contiguous, NoReader

\* A new block extends what was seen up to the id of the reader.
LEMMA ContiguousGet ==
    ASSUME TypeInv, NEW c \in Chains, Contiguous(c), GetBlock(c)
    PROVE  Contiguous(c)'
<1> DEFINE n == NextBlock(c)
           r == reader[c]
<1>1. /\ r \in Reader /\ r.at = "blocked" /\ trimmed[c] \in Nat
      /\ seen[c] \subseteq Nat /\ ~(consumer = Down \/ c \in consumer)
  BY ChainTypes DEF GetBlock, HasEntry, TypeInv, Contiguous, NoReader
<1>2. /\ n \in Nat /\ n > r.from
      /\ (r.from + 1)..(n - 1) \subseteq 1..trimmed[c]
  <2>1. HasEntry(r, trimmed[c], Len(stream[c])) /\ Len(stream[c]) \in Nat
    BY ChainTypes DEF GetBlock
  <2>2. Entry(r, trimmed[c]) \in 1..Len(stream[c])
    BY <1>1, <2>1, EntryLemma
  <2> QED BY <1>1, <2>1, <2>2, EntryLemma DEF NextBlock
<1>3. /\ reader'[c] = After(r, n) /\ seen'[c] = seen[c] \cup {n}
      /\ trimmed'[c] = trimmed[c] /\ consumer' = consumer
  BY DEF GetBlock, Reads, TypeInv, redis
<1> HIDE DEF n
<1>4. reader'[c].id = n /\ reader'[c].at = "calling" /\ n # Latest
  BY <1>2, <1>3, IngressAssumption DEF After
<1>5. CASE r.id = Latest
  <2>1. seen'[c] = {n}
    BY <1>3, <1>5 DEF Contiguous
  <2> QED BY <1>1, <1>2, <1>3, <1>4, <2>1 DEF Contiguous
<1>6. CASE r.id # Latest
  <2>1. r.id \in Nat /\ r.from = r.id /\ r.id \in seen[c]
    BY <1>1, <1>6 DEF Contiguous, Reader
  <2>2. \A m \in seen[c] : m <= r.id /\ m..r.id \subseteq seen[c] \cup 1..trimmed[c]
    BY <1>6 DEF Contiguous
  <2>3. \A m \in seen'[c] : m <= n
    BY <1>1, <1>2, <1>3, <2>1, <2>2
  <2>4. \A m \in seen'[c] : m..n \subseteq seen'[c] \cup 1..trimmed'[c]
    <3> SUFFICES ASSUME NEW m \in seen'[c], NEW k \in m..n
                 PROVE  k \in seen'[c] \cup 1..trimmed'[c]
      OBVIOUS
    <3>1. CASE m = n
      BY <1>2, <1>3, <3>1
    <3>2. CASE m # n
      <4>1. m \in seen[c] /\ m \in Nat
        BY <1>1, <1>3, <3>2
      <4>2. k \in m..r.id \/ k \in (r.id + 1)..(n - 1) \/ k = n
        BY <1>2, <2>1, <4>1
      <4> QED BY <1>2, <1>3, <2>1, <2>2, <4>1, <4>2
    <3> QED BY <3>1, <3>2
  <2>5. \E lo \in seen'[c] : \A m \in seen'[c] : lo <= m
    <3>1. PICK lo \in seen[c] : \A m \in seen[c] : lo <= m
      BY <1>6 DEF Contiguous
    <3>2. lo <= n /\ lo \in seen'[c]
      BY <1>3, <2>3, <3>1
    <3> QED BY <1>3, <3>1, <3>2
  <2> QED BY <1>1, <1>3, <1>4, <2>3, <2>4, <2>5 DEF Contiguous
<1> QED BY <1>5, <1>6

\* The other steps of a reader leave its id where it is.
LEMMA ContiguousRead ==
    ASSUME TypeInv, NEW c \in Chains, Contiguous(c),
           \/ ReaderCalls(c) \/ BlockThrows(c) \/ ReaderTimesOut(c) \/ ReaderFails(c)
    PROVE  Contiguous(c)'
<1>1. reader[c] \in Reader /\ UNCHANGED <<seen, trimmed, consumer>>
  BY ChainTypes DEF ReaderCalls, BlockThrows, ReaderTimesOut, ReaderFails, redis
<1>2. reader[c].at # "off"
  BY DEF ReaderCalls, BlockThrows, ReaderTimesOut, ReaderFails, HasEntry
<1>3. reader'[c] \in {XRead(reader[c], Len(stream[c])), Stopped(reader[c]), TimedOut(reader[c])}
  BY DEF TypeInv, ReaderCalls, BlockThrows, ReaderTimesOut, ReaderFails, Reads
<1>4. /\ reader'[c].id = reader[c].id /\ reader'[c].at # "off"
      /\ reader'[c].at = "blocked" /\ reader[c].id # Latest => reader'[c].from = reader[c].id
  BY <1>1, <1>3 DEF XRead, Stopped, TimedOut, Reader
<1>5. ~(consumer = Down \/ c \in consumer)
  BY <1>2 DEF Contiguous, NoReader
<1> QED BY <1>1, <1>2, <1>4, <1>5 DEF Contiguous

\* Trimming only adds to what may be missing.
LEMMA ContiguousTrim ==
    ASSUME TypeInv, NEW c \in Chains, Contiguous(c),
           UNCHANGED <<reader, seen, consumer>>, trimmed'[c] >= trimmed[c], trimmed'[c] \in Nat
    PROVE  Contiguous(c)'
<1>1. 1..trimmed[c] \subseteq 1..trimmed'[c]
  BY ChainTypes
<1> QED BY <1>1 DEF Contiguous

LEMMA ContiguousStep == TypeInv /\ ContiguousInv /\ [Next]_vars => ContiguousInv'
<1> SUFFICES ASSUME TypeInv, ContiguousInv, [Next]_vars, NEW d \in Chains
             PROVE  Contiguous(d)'
  BY DEF ContiguousInv
<1>1. Contiguous(d)
  BY DEF ContiguousInv
<1>2. ASSUME UNCHANGED <<reader, seen, consumer, trimmed>>
      PROVE  Contiguous(d)'
  BY <1>1, <1>2 DEF Contiguous
<1>3. ASSUME LoseConsumer
      PROVE  Contiguous(d)'
  BY <1>3 DEF LoseConsumer, Contiguous, NoReader
<1>4. ASSUME StartConsumer
      PROVE  Contiguous(d)'
  BY <1>1, <1>4 DEF StartConsumer, Contiguous, redis
<1>5. ASSUME NEW c \in Chains, StartChain(c)
      PROVE  Contiguous(d)'
  <2>1. CASE c = d
    <3>1. reader[c] = NoReader /\ seen[c] = {}
      BY <1>1, <1>5, <2>1 DEF StartChain, Starting, Contiguous, NoReader
    <3>2. /\ reader'[c] = NewReader(Latest) /\ seen'[c] = {}
          /\ consumer' = consumer \ {c} /\ consumer' # Down
      BY <1>5, <3>1, IngressAssumption DEF StartChain, Starting, TypeInv
    <3> QED BY <2>1, <3>2 DEF Contiguous, NewReader
  <2>2. CASE c # d
    <3>1. /\ reader'[d] = reader[d] /\ seen' = seen /\ trimmed' = trimmed
          /\ consumer # Down /\ consumer' = consumer \ {c} /\ consumer' # Down
      BY <1>5, <2>2, IngressAssumption DEF StartChain, Starting, TypeInv, redis
    <3> QED BY <1>1, <2>2, <3>1 DEF Contiguous
  <2> QED BY <2>1, <2>2
<1>6. ASSUME NEW c \in Chains,
             \/ GetBlock(c) \/ ReaderCalls(c) \/ BlockThrows(c) \/ ReaderTimesOut(c)
             \/ ReaderFails(c)
      PROVE  Contiguous(d)'
  <2>1. CASE c = d
    BY <1>1, <1>6, <2>1, ContiguousGet, ContiguousRead
  <2>2. CASE c # d
    <3>1. /\ reader'[d] = reader[d] /\ seen'[d] = seen[d]
          /\ UNCHANGED <<trimmed, consumer>>
      BY <1>6, <2>2 DEF GetBlock, ReaderCalls, BlockThrows, ReaderTimesOut, ReaderFails,
         Reads, TypeInv, redis
    <3> QED BY <1>1, <3>1 DEF Contiguous
  <2> QED BY <2>1, <2>2
<1>7. ASSUME NEW c \in Chains, Trim(c)
      PROVE  Contiguous(d)'
  <2>1. trimmed'[d] >= trimmed[d] /\ trimmed'[d] \in Nat
    BY <1>7, ChainTypes DEF Trim, TypeInv
  <2> QED BY <1>1, <1>7, <2>1, ContiguousTrim DEF Trim, consuming
<1>8. ASSUME NEW c \in Chains,
             Producing(c) \/ Publish(c) \/ Upgrade(c) \/ ListenerFails(c)
      PROVE  UNCHANGED <<reader, seen, consumer, trimmed>>
  BY <1>8 DEF Producing, WriteMetadata, OpenStream, Publish, Upgrade, ListenerCalls,
     GetRequest, ListenerTimesOut, ListenerFails, redis, consuming
<1>9. ASSUME NEW r \in Requests, Ask(r) \/ Asking(r)
      PROVE  UNCHANGED <<reader, seen, consumer, trimmed>>
  BY <1>9 DEF Ask, Asking, Push, Added, Popped, PopTimesOut, redis, consuming
<1>10. ASSUME \/ StopProducer \/ Poll \/ UNCHANGED vars
              \/ \E config \in load.configs : StartProducer(config)
       PROVE  UNCHANGED <<reader, seen, consumer, trimmed>>
  BY <1>10 DEF StopProducer, Poll, StartProducer, vars, redis, consuming
<1>11. ASSUME StopConsumer \/ \E c \in Chains : StartFails(c)
       PROVE  Contiguous(d)'
  BY <1>3, <1>11 DEF StopConsumer, StartFails
<1> QED
  BY <1>2, <1>4, <1>5, <1>6, <1>7, <1>8, <1>9, <1>10, <1>11 DEF Next, Reading

\* From the first block on, a consumer is given every block the stream still holds.
THEOREM NoBlockSkipped == Spec => []BlocksAreContiguous
BY ContiguousInit, ContiguousStep, ContiguousEnough, TypeInductive, PTL DEF Spec
----------------------------------------------------------------------------
(* Networks *)

\* While a consumer starts, the chains it knows are those it still has to start and
\* those it started.
StartInv ==
    /\ consumer = Down => known = {} /\ consumers = {}
    /\ consumer # Down /\ consumer # {} => known \subseteq consumer \cup consumers

LEMMA StartInit == Init => StartInv
BY IngressAssumption DEF Init, StartInv

\* The steps that neither start nor stop a consumer, nor read the networks.
LEMMA StartOther ==
    ASSUME [Next]_vars, ~StartConsumer, ~StopConsumer, ~Poll,
           ~\E c \in Chains : StartChain(c) \/ StartFails(c)
    PROVE  UNCHANGED <<consumer, known, consumers>>
<1>1. ASSUME NEW c \in Chains,
             \/ Producing(c) \/ Publish(c) \/ Trim(c) \/ Upgrade(c) \/ ListenerFails(c)
             \/ ReaderCalls(c) \/ GetBlock(c) \/ BlockThrows(c) \/ ReaderFails(c)
             \/ ReaderTimesOut(c)
      PROVE  UNCHANGED <<consumer, known, consumers>>
  BY <1>1 DEF Producing, WriteMetadata, OpenStream, Publish, Trim, Upgrade, ListenerCalls,
     GetRequest, ListenerTimesOut, ListenerFails, ReaderCalls, GetBlock, BlockThrows,
     ReaderFails, ReaderTimesOut, consuming
<1>2. ASSUME NEW r \in Requests, Ask(r) \/ Asking(r)
      PROVE  UNCHANGED <<consumer, known, consumers>>
  BY <1>2 DEF Ask, Asking, Push, Added, Popped, PopTimesOut, consuming
<1>3. ASSUME \/ StopProducer \/ UNCHANGED vars
             \/ \E config \in load.configs : StartProducer(config)
      PROVE  UNCHANGED <<consumer, known, consumers>>
  BY <1>3 DEF StopProducer, StartProducer, vars, consuming
<1> QED BY <1>1, <1>2, <1>3 DEF Next, Reading

LEMMA StartStep == TypeInv /\ StartInv /\ [Next]_vars => StartInv'
<1> SUFFICES ASSUME TypeInv, StartInv, [Next]_vars PROVE StartInv'
  OBVIOUS
<1>1. CASE StartConsumer
  BY <1>1, IngressAssumption DEF StartConsumer, ReadNetworks, StartInv, TypeInv
<1>2. CASE \E c \in Chains : StartChain(c)
  BY <1>2, IngressAssumption DEF StartChain, Starting, StartInv, TypeInv
<1>3. CASE StopConsumer \/ \E c \in Chains : StartFails(c)
  BY <1>3 DEF StopConsumer, StartFails, LoseConsumer, StartInv
<1>4. CASE Poll
  BY <1>4, IngressAssumption DEF Poll, StartInv
<1> QED BY <1>1, <1>2, <1>3, <1>4, StartOther DEF StartInv

\* A network is known without blocks only when a poll found it after the start.
THEOREM LateNetworks == Spec => OnlyLateNetworksAreBlockless
<1>1. ASSUME TypeInv, StartInv, [Next]_vars, Blockless' \ Blockless # {}
      PROVE  Poll
  <2> SUFFICES ASSUME ~Poll PROVE FALSE
    OBVIOUS
  <2>1. CASE StartConsumer
    <3>1. known' = networks /\ consumer' = networks
      BY <1>1, <2>1 DEF StartConsumer, ReadNetworks, StartInv
    <3> QED BY <1>1, <3>1 DEF Blockless
  <2>2. CASE \E c \in Chains : StartChain(c)
    <3>1. PICK c \in Chains : StartChain(c)
      BY <2>2
    <3>2. consumer # Down /\ consumer # {} /\ known \subseteq consumer \cup consumers
      BY <1>1, <3>1 DEF StartChain, Starting, StartInv
    <3>3. consumer' = consumer \ {c} /\ consumers' = consumers \cup {c} /\ known' = known
      BY <3>1 DEF StartChain
    <3> QED BY <1>1, <3>2, <3>3 DEF Blockless
  <2>3. CASE StopConsumer \/ \E c \in Chains : StartFails(c)
    BY <1>1, <2>3 DEF StopConsumer, StartFails, LoseConsumer, Blockless
  <2>4. CASE UNCHANGED <<consumer, known, consumers>>
    BY <1>1, <2>4 DEF Blockless
  <2> QED BY <1>1, <2>1, <2>2, <2>3, <2>4, StartOther
<1>2. TypeInv /\ StartInv /\ [Next]_vars => [Blockless' \ Blockless # {} => Poll]_vars
  BY <1>1
<1> QED
  BY <1>2, StartInit, StartStep, TypeInductive, PTL DEF Spec, OnlyLateNetworksAreBlockless
=============================================================================
