------------------------- MODULE MessageQueueProofs --------------------------
(***************************************************************************)
(* For any number of consumers, any limit and either mode: the counter     *)
(* agrees with the queue, messages leave in order, no consumer is stranded *)
(* by a lost wakeup, coverage mode keeps the newest messages, and the      *)
(* queue implements LossyFifo.                                             *)
(***************************************************************************)
EXTENDS MessageQueue, FiniteSetTheorems, SequenceTheorems, TLAPS

\* The inductive invariant.
IInv ==
  /\ Types
  /\ CountMatchesQueue
  /\ InOrder
  /\ KeepsNewest
  /\ NoStrandedConsumer
-----------------------------------------------------------------------------
\* What appending a number greater than all before it does to a sequence.
LEMMA AppendAscending ==
  ASSUME NEW n \in Nat, NEW s \in Seq(1 .. n), Ascending(s)
  PROVE  /\ Append(s, n + 1) \in Seq(1 .. n + 1)
         /\ Ascending(Append(s, n + 1))
  <1>1. s \in Seq(1 .. n + 1)
    BY SeqMonotonic
  <1>2. \A i \in DOMAIN s : s[i] \in 1 .. n
    BY ElementOfSeq, LenProperties
  <1>3. /\ Append(s, n + 1) \in Seq(1 .. n + 1)
        /\ Len(Append(s, n + 1)) = Len(s) + 1
        /\ \A i \in 1 .. Len(s) : Append(s, n + 1)[i] = s[i]
        /\ Append(s, n + 1)[Len(s) + 1] = n + 1
    BY <1>1, AppendProperties
  <1>4. DOMAIN Append(s, n + 1) = 1 .. Len(s) + 1 /\ DOMAIN s = 1 .. Len(s)
    BY <1>1, <1>3, LenProperties
  <1>. QED  BY <1>2, <1>3, <1>4, LenProperties DEF Ascending

\* Appending a number that lies above all elements of an ascending sequence.
LEMMA AppendAbove ==
  ASSUME NEW n \in Nat, NEW s \in Seq(1 .. n), NEW e \in 1 .. n,
         Ascending(s), \A i \in DOMAIN s : s[i] < e
  PROVE  Append(s, e) \in Seq(1 .. n) /\ Ascending(Append(s, e))
  <1>1. /\ Append(s, e) \in Seq(1 .. n)
        /\ Len(Append(s, e)) = Len(s) + 1
        /\ \A i \in 1 .. Len(s) : Append(s, e)[i] = s[i]
        /\ Append(s, e)[Len(s) + 1] = e
    BY AppendProperties
  <1>2. DOMAIN Append(s, e) = 1 .. Len(s) + 1 /\ DOMAIN s = 1 .. Len(s)
    BY <1>1, LenProperties
  <1>. QED  BY <1>1, <1>2, LenProperties DEF Ascending

\* The tail of an ascending sequence is ascending, and lies above the head.
LEMMA TailAscending ==
  ASSUME NEW n \in Nat, NEW s \in Seq(1 .. n), s # <<>>, Ascending(s)
  PROVE  /\ Head(s) \in 1 .. n /\ Tail(s) \in Seq(1 .. n)
         /\ Len(Tail(s)) = Len(s) - 1
         /\ DOMAIN Tail(s) = 1 .. Len(s) - 1
         /\ \A i \in DOMAIN Tail(s) : Tail(s)[i] = s[i + 1]
         /\ \A i \in DOMAIN Tail(s) : Head(s) < Tail(s)[i]
         /\ Ascending(Tail(s))
  <1>1. /\ Head(s) \in 1 .. n /\ Tail(s) \in Seq(1 .. n)
        /\ Len(Tail(s)) = Len(s) - 1
        /\ \A i \in 1 .. Len(Tail(s)) : Tail(s)[i] = s[i + 1]
    BY HeadTailProperties
  <1>2. Head(s) = s[1]
    OBVIOUS
  <1>3. /\ DOMAIN s = 1 .. Len(s) /\ DOMAIN Tail(s) = 1 .. Len(s) - 1
        /\ Len(s) \in Nat \ {0}
    BY <1>1, LenProperties, EmptySeq
  <1>4. \A i \in DOMAIN Tail(s) : Tail(s)[i] = s[i + 1]
    BY <1>1, <1>3
  <1>5. \A i \in 1 .. Len(s) - 1 : i + 1 \in 1 .. Len(s) /\ 1 < i + 1
    BY <1>3
  <1>6. \A i \in DOMAIN Tail(s) : Head(s) < Tail(s)[i]
    BY <1>2, <1>3, <1>4, <1>5 DEF Ascending
  <1>7. Ascending(Tail(s))
    <2>. SUFFICES ASSUME NEW i \in DOMAIN Tail(s), NEW j \in DOMAIN Tail(s), i < j
                  PROVE  Tail(s)[i] < Tail(s)[j]
      BY DEF Ascending
    <2>1. i + 1 \in DOMAIN s /\ j + 1 \in DOMAIN s /\ i + 1 < j + 1
      BY <1>3
    <2>. QED  BY <1>4, <2>1 DEF Ascending
  <1>. QED  BY <1>1, <1>3, <1>4, <1>6, <1>7

\* Waking a sleeper leaves one sleeper less and one awakened consumer more.
LEMMA OneMoreAwakened ==
  ASSUME NEW S, IsFiniteSet(S), NEW A, NEW c \in S, c \in A
  PROVE  /\ IsFiniteSet(S \ (A \ {c}))
         /\ Cardinality(S \ (A \ {c})) = Cardinality(S \ A) + 1
  <1> DEFINE T == S \ A
  <1>1. S \ (A \ {c}) = T \cup {c} /\ c \notin T
    OBVIOUS
  <1>2. IsFiniteSet(T)
    BY FS_Subset, T \subseteq S
  <1>3. IsFiniteSet(T \cup {c}) /\ Cardinality(T \cup {c}) = Cardinality(T) + 1
    <2> HIDE DEF T
    <2>. QED  BY <1>1, <1>2, FS_AddElement
  <1>. QED  BY <1>1, <1>3
-----------------------------------------------------------------------------
\* The queue and the counter, as far as the proofs below need them.
LEMMA QueueFacts ==
  ASSUME Types, CountMatchesQueue
  PROVE  /\ Len(queue_) \in Nat /\ DOMAIN queue_ = 1 .. Len(queue_)
         /\ pushed \in Nat /\ pushed + 1 \in Nat
         /\ (currentMessageCount > 0) <=> (queue_ # <<>>)
         /\ \A i \in DOMAIN queue_ : queue_[i] \in 1 .. pushed
         /\ \A i \in DOMAIN popped : popped[i] \in 1 .. pushed
  BY QueueAssumption, LenProperties, EmptySeq, ElementOfSeq
  DEF Types, CountMatchesQueue

Popping == {c \in Consumers : pc[c] = "popping"}

\* The awakened consumers are finitely many.
LEMMA AwakenedFacts ==
  ASSUME Types
  PROVE  /\ IsFiniteSet(Popping) /\ Awakened = Popping \ asleep
         /\ IsFiniteSet(Awakened) /\ Cardinality(Awakened) \in Nat
  <1>1. Popping \subseteq Consumers /\ Awakened \subseteq Consumers
        /\ Awakened = Popping \ asleep
    BY DEF Popping, Awakened
  <1>. QED  BY <1>1, QueueAssumption, FS_Subset, FS_CardinalityType

\* One sleeper less is one consumer more on its way.
LEMMA WakeupFacts ==
  ASSUME Types, NEW c \in asleep, asleep' = asleep \ {c}, UNCHANGED pc
  PROVE  Cardinality(Awakened') = Cardinality(Awakened) + 1
  <1>1. Awakened' = Popping \ (asleep \ {c})
    BY DEF Awakened, Popping
  <1>2. c \in Popping
    BY DEF Types, Popping
  <1>3. Cardinality(Popping \ (asleep \ {c})) = Cardinality(Popping \ asleep) + 1
    BY <1>2, AwakenedFacts, OneMoreAwakened
  <1>. QED  BY <1>1, <1>3, AwakenedFacts

\* A notification, needed or not, never leaves a sleeper behind with fewer
\* consumers on their way than before, and adds one if anybody slept.
LEMMA NotifyOneFacts ==
  ASSUME Types, NotifyOne, UNCHANGED pc
  PROVE  /\ asleep' \subseteq asleep
         /\ asleep' # {} => Cardinality(Awakened') = Cardinality(Awakened) + 1
  BY WakeupFacts DEF NotifyOne

\* The invariant holds initially.
LEMMA InitIInv == Init => IInv
  <1>. SUFFICES ASSUME Init  PROVE IInv
    OBVIOUS
  <1>1. /\ queue_ = <<>> /\ popped = <<>> /\ pushed = 0
        /\ Len(queue_) = 0 /\ DOMAIN queue_ = {} /\ DOMAIN popped = {}
    BY DEF Init
  <1>2. Types
    BY <1>1, QueueAssumption DEF Init, Types
  <1>3. CountMatchesQueue /\ InOrder /\ KeepsNewest /\ NoStrandedConsumer
    BY <1>1, QueueAssumption
    DEF Init, CountMatchesQueue, InOrder, Ascending, KeepsNewest, NoStrandedConsumer
  <1>. QED  BY <1>2, <1>3 DEF IInv

\* push stores the message in a queue that has room.
LEMMA StoreIInv ==
  ASSUME IInv, pushed < MaxPush, pushed' = pushed + 1, Store, UNCHANGED <<coverageMode, pc, popped>>
  PROVE  IInv'
  <1>. USE DEF IInv
  <1>1. /\ queue_' = Append(queue_, pushed + 1)
        /\ currentMessageCount' = currentMessageCount + 1
        /\ currentMessageCount < maxMessageCount
    BY DEF Store, Room
  <1>2. /\ queue_' \in Seq(1 .. pushed + 1) /\ Ascending(queue_')
        /\ Len(queue_') = Len(queue_) + 1
        /\ DOMAIN queue_' = 1 .. Len(queue_) + 1 /\ DOMAIN queue_ = 1 .. Len(queue_)
        /\ \A i \in 1 .. Len(queue_) : queue_'[i] = queue_[i]
        /\ queue_'[Len(queue_) + 1] = pushed + 1
    <2>1. queue_ \in Seq(1 .. pushed + 1) /\ pushed + 1 \in 1 .. pushed + 1
      BY QueueFacts, SeqMonotonic DEF Types
    <2>2. queue_' \in Seq(1 .. pushed + 1) /\ Ascending(queue_')
      BY <1>1, AppendAscending, QueueFacts DEF Types, InOrder
    <2>. QED  BY <1>1, <2>1, <2>2, AppendProperties, LenProperties
  <1>3. popped' \in Seq(1 .. pushed + 1)
    BY SeqMonotonic, QueueFacts DEF Types
  <1>4. NotifyOne
    BY DEF Store
  <1>5. Types'
    BY <1>1, <1>2, <1>3, <1>4, NotifyOneFacts, QueueFacts, QueueAssumption DEF Types
  <1>6. CountMatchesQueue'
    BY <1>1, <1>2, QueueFacts, QueueAssumption DEF CountMatchesQueue, Types
  <1>7. InOrder'
    <2>1. \A i \in DOMAIN popped', j \in DOMAIN queue_' : popped'[i] < queue_'[j]
      <3>. SUFFICES ASSUME NEW i \in DOMAIN popped, NEW j \in 1 .. Len(queue_) + 1
                    PROVE  popped[i] < queue_'[j]
        BY <1>2
      <3>1. CASE j = Len(queue_) + 1
        BY <3>1, <1>2, QueueFacts
      <3>2. CASE j \in 1 .. Len(queue_)
        BY <3>2, <1>2 DEF InOrder
      <3>. QED  BY <3>1, <3>2, QueueFacts
    <2>. QED  BY <1>2, <2>1 DEF InOrder, Ascending
  <1>8. KeepsNewest'
    <2>. SUFFICES ASSUME coverageMode, NEW i \in 1 .. Len(queue_) + 1
                  PROVE  queue_'[i] = pushed' - Len(queue_') + i
      BY <1>2 DEF KeepsNewest
    <2>1. pushed' - Len(queue_') = pushed - Len(queue_)
      BY <1>2, QueueFacts
    <2>2. CASE i = Len(queue_) + 1
      BY <2>1, <2>2, <1>2, QueueFacts
    <2>3. CASE i \in 1 .. Len(queue_)
      BY <2>1, <2>3, <1>2 DEF KeepsNewest
    <2>. QED  BY <2>2, <2>3, QueueFacts
  <1>9. NoStrandedConsumer'
    BY <1>2, <1>4, NotifyOneFacts, AwakenedFacts, QueueFacts DEF NoStrandedConsumer
  <1>. QED  BY <1>5, <1>6, <1>7, <1>8, <1>9

\* push overwrites the oldest message of a full queue.
LEMMA OverwriteIInv ==
  ASSUME IInv, pushed < MaxPush, pushed' = pushed + 1, Overwrite, UNCHANGED <<coverageMode, pc, popped>>
  PROVE  IInv'
  <1>. USE DEF IInv
  <1>. DEFINE t == Tail(queue_)
  <1>1. /\ queue_' = Append(t, pushed + 1)
        /\ currentMessageCount' = (currentMessageCount - 1) + 1
        /\ coverageMode /\ NotifyOne
    BY DEF Overwrite
  <1>2. queue_ # <<>>
    BY QueueAssumption, QueueFacts DEF Overwrite, Room, Types
  <1>3. /\ t \in Seq(1 .. pushed) /\ Ascending(t) /\ Len(t) = Len(queue_) - 1
        /\ DOMAIN t = 1 .. Len(queue_) - 1 /\ Len(queue_) \in Nat \ {0}
        /\ \A i \in DOMAIN t : t[i] = queue_[i + 1] /\ i + 1 \in DOMAIN queue_
    BY <1>2, TailAscending, QueueFacts DEF Types, InOrder
  <1> HIDE DEF t
  <1>4. /\ queue_' \in Seq(1 .. pushed + 1) /\ Len(queue_') = Len(queue_)
        /\ DOMAIN queue_' = 1 .. Len(queue_)
        /\ \A i \in 1 .. Len(queue_) - 1 : queue_'[i] = queue_[i + 1]
        /\ queue_'[Len(queue_)] = pushed + 1
        /\ Ascending(queue_')
    <2>1. t \in Seq(1 .. pushed + 1) /\ pushed + 1 \in 1 .. pushed + 1
      BY <1>3, QueueFacts, SeqMonotonic
    <2>2. queue_' \in Seq(1 .. pushed + 1) /\ Ascending(queue_')
      BY <1>1, <1>3, AppendAscending, QueueFacts
    <2>3. /\ Len(queue_') = Len(t) + 1 /\ queue_'[Len(t) + 1] = pushed + 1
          /\ \A i \in 1 .. Len(t) : queue_'[i] = t[i]
      BY <1>1, <2>1, AppendProperties
    <2>4. Len(queue_') = Len(queue_) /\ Len(t) = Len(queue_) - 1
      BY <1>3, <2>3
    <2>5. DOMAIN queue_' = 1 .. Len(queue_)
      BY <2>2, <2>4, LenProperties
    <2>6. \A i \in 1 .. Len(queue_) - 1 : queue_'[i] = queue_[i + 1]
      BY <1>3, <2>3
    <2>7. queue_'[Len(queue_)] = pushed + 1
      BY <1>3, <2>3
    <2>. QED  BY <2>2, <2>4, <2>5, <2>6, <2>7
  <1>5. Types'
    <2>1. popped' \in Seq(1 .. pushed + 1)
      BY SeqMonotonic, QueueFacts DEF Types
    <2>. QED  BY <1>1, <1>3, <1>4, <2>1, NotifyOneFacts, QueueFacts, QueueAssumption
              DEF Types, CountMatchesQueue
  <1>6. CountMatchesQueue'
    BY <1>1, <1>4, QueueFacts DEF CountMatchesQueue, Types
  <1>7. InOrder'
    <2>1. \A i \in DOMAIN popped', j \in DOMAIN queue_' : popped'[i] < queue_'[j]
      <3>. SUFFICES ASSUME NEW i \in DOMAIN popped, NEW j \in 1 .. Len(queue_)
                    PROVE  popped[i] < queue_'[j]
        BY <1>4
      <3>1. CASE j = Len(queue_)
        BY <3>1, <1>4, QueueFacts
      <3>2. CASE j \in 1 .. Len(queue_) - 1
        BY <3>2, <1>3, <1>4 DEF InOrder
      <3>. QED  BY <3>1, <3>2, <1>3
    <2>. QED  BY <1>4, <2>1 DEF InOrder, Ascending
  <1>8. KeepsNewest'
    <2>. SUFFICES ASSUME NEW i \in 1 .. Len(queue_)
                  PROVE  queue_'[i] = pushed' - Len(queue_') + i
      BY <1>4 DEF KeepsNewest
    <2>1. CASE i = Len(queue_)
      BY <2>1, <1>4, QueueFacts
    <2>2. CASE i \in 1 .. Len(queue_) - 1
      <3>1. queue_[i + 1] = pushed - Len(queue_) + (i + 1)
        BY <2>2, <1>1, <1>3 DEF KeepsNewest
      <3>. QED  BY <2>2, <3>1, <1>4, QueueFacts
    <2>. QED  BY <2>1, <2>2, <1>3
  <1>9. NoStrandedConsumer'
    BY <1>1, <1>4, NotifyOneFacts, AwakenedFacts, QueueFacts DEF NoStrandedConsumer
  <1>. QED  BY <1>5, <1>6, <1>7, <1>8, <1>9

\* push refuses the message.
LEMMA RefuseIInv ==
  ASSUME IInv, pushed < MaxPush, pushed' = pushed + 1, Refuse, UNCHANGED <<coverageMode, pc, popped>>
  PROVE  IInv'
  <1>. USE DEF IInv
  <1>1. ~coverageMode /\ UNCHANGED coverageMode
        /\ UNCHANGED <<queue_, currentMessageCount, asleep, pc, popped>>
    BY DEF Refuse
  <1>2. queue_ \in Seq(1 .. pushed + 1) /\ popped \in Seq(1 .. pushed + 1)
    BY SeqMonotonic, QueueFacts DEF Types
  <1>3. Types'
    BY <1>1, <1>2, QueueFacts, QueueAssumption DEF Types
  <1>4. Awakened' = Awakened
    BY <1>1 DEF Awakened
  <1>. QED  BY <1>1, <1>3, <1>4
            DEF CountMatchesQueue, InOrder, Ascending, KeepsNewest, NoStrandedConsumer

\* pop takes the oldest message, in its first run or after a wait.
LEMMA TakeIInv ==
  ASSUME IInv, NEW c \in Consumers, c \notin asleep, Take(c)
  PROVE  IInv'
  <1>. USE DEF IInv
  <1>. DEFINE e == Head(queue_)
              t == Tail(queue_)
  <1>1. /\ popped' = Append(popped, e) /\ queue_' = t
        /\ UNCHANGED <<coverageMode, asleep, pushed>>
        /\ currentMessageCount' = currentMessageCount - 1
        /\ pc' = [pc EXCEPT ![c] = "out"]
        /\ queue_ # <<>>
    BY QueueFacts DEF Take
  <1>2. /\ e \in 1 .. pushed /\ t \in Seq(1 .. pushed) /\ Ascending(t)
        /\ Len(t) = Len(queue_) - 1 /\ DOMAIN t = 1 .. Len(queue_) - 1
        /\ Len(queue_) \in Nat \ {0}
        /\ \A i \in DOMAIN t : t[i] = queue_[i + 1] /\ i + 1 \in DOMAIN queue_
        /\ \A i \in DOMAIN t : e < t[i]
    BY <1>1, TailAscending, QueueFacts DEF Types, InOrder
  <1>3. e = queue_[1] /\ 1 \in DOMAIN queue_
    BY <1>1, <1>2, QueueFacts
  <1> HIDE DEF e, t
  <1>4. Append(popped, e) \in Seq(1 .. pushed) /\ Ascending(Append(popped, e))
    BY <1>2, <1>3, AppendAbove, QueueFacts DEF Types, InOrder
  <1>5. Types'
    <2>1. currentMessageCount' \in Nat
      BY <1>1, <1>2 DEF CountMatchesQueue
    <2>2. /\ pc' \in [Consumers -> {"out", "polled", "popping"}]
          /\ asleep' \subseteq {d \in Consumers : pc'[d] = "popping"}
      BY <1>1 DEF Types
    <2>. QED  BY <1>1, <1>2, <1>4, <2>1, <2>2 DEF Types
  <1>6. CountMatchesQueue'
    BY <1>1, <1>2, QueueAssumption DEF CountMatchesQueue, Types
  <1>7. InOrder'
    <2>1. /\ DOMAIN popped' = 1 .. Len(popped) + 1 /\ DOMAIN popped = 1 .. Len(popped)
          /\ Len(popped) \in Nat
          /\ \A i \in 1 .. Len(popped) : popped'[i] = popped[i]
          /\ popped'[Len(popped) + 1] = e
      BY <1>1, <1>2, AppendProperties, LenProperties DEF Types
    <2>2. \A i \in DOMAIN popped', j \in DOMAIN t : popped'[i] < t[j]
      <3>. SUFFICES ASSUME NEW i \in 1 .. Len(popped) + 1, NEW j \in DOMAIN t
                    PROVE  popped'[i] < t[j]
        BY <2>1
      <3>1. CASE i = Len(popped) + 1
        BY <3>1, <2>1, <1>2
      <3>2. CASE i \in 1 .. Len(popped)
        BY <3>2, <2>1, <1>2 DEF InOrder
      <3>. QED  BY <3>1, <3>2, <2>1
    <2>. QED  BY <1>1, <1>2, <1>4, <2>2 DEF InOrder, Ascending
  <1>8. KeepsNewest'
    <2>. SUFFICES ASSUME coverageMode, NEW i \in DOMAIN t
                  PROVE  t[i] = pushed - Len(t) + i
      BY <1>1 DEF KeepsNewest
    <2>1. queue_[i + 1] = pushed - Len(queue_) + (i + 1)
      BY <1>2 DEF KeepsNewest
    <2>. QED  BY <2>1, <1>2, QueueFacts
  <1>9. NoStrandedConsumer'
    <2>1. Awakened' = Awakened \ {c}
      BY <1>1 DEF Awakened, Types
    <2>2. Cardinality(Awakened') \in Nat /\ Cardinality(Awakened') >= Cardinality(Awakened) - 1
      <3>1. IsFiniteSet(Awakened) /\ Cardinality(Awakened) \in Nat
        BY AwakenedFacts
      <3>2. \A S, d : IsFiniteSet(S) =>
              Cardinality(S \ {d}) = IF d \in S THEN Cardinality(S) - 1 ELSE Cardinality(S)
        BY FS_RemoveElement
      <3>3. \A S : IsFiniteSet(S) => IsFiniteSet(S \ {c}) /\ Cardinality(S \ {c}) \in Nat
        BY FS_RemoveElement, FS_CardinalityType
      <3>. QED  BY <2>1, <3>1, <3>2, <3>3
    <2>. QED  BY <1>1, <1>2, <2>2, AwakenedFacts DEF NoStrandedConsumer
  <1>. QED  BY <1>5, <1>6, <1>7, <1>8, <1>9

\* pop goes to sleep.
LEMMA SleepIInv ==
  ASSUME IInv, NEW c \in Consumers, Sleep(c)
  PROVE  IInv'
  <1>. USE DEF IInv
  <1>1. /\ queue_ = <<>>
        /\ UNCHANGED <<coverageMode, queue_, currentMessageCount, pushed, popped>>
        /\ pc' = [pc EXCEPT ![c] = "popping"] /\ asleep' = asleep \cup {c}
    BY QueueFacts DEF Sleep
  <1>2. Types'
    BY <1>1 DEF Types
  <1>3. Cardinality(Awakened') \in Nat
    <2>1. Awakened' \subseteq Consumers
      BY DEF Awakened
    <2>. QED  BY <2>1, QueueAssumption, FS_Subset, FS_CardinalityType
  <1>4. NoStrandedConsumer'
    BY <1>1, <1>3 DEF NoStrandedConsumer
  <1>. QED  BY <1>1, <1>2, <1>4 DEF CountMatchesQueue, InOrder, Ascending, KeepsNewest

\* empty() and a spurious wakeup.
LEMMA PollIInv ==
  ASSUME IInv, NEW c \in Consumers, Poll(c)
  PROVE  IInv'
  <1>1. Types'
    BY DEF IInv, Types, Poll
  <1>2. Awakened' = Awakened
    BY DEF IInv, Types, Poll, Awakened
  <1>. QED  BY <1>1, <1>2
            DEF IInv, Poll, CountMatchesQueue, InOrder, Ascending, KeepsNewest,
                NoStrandedConsumer

LEMMA SpuriousIInv ==
  ASSUME IInv, NEW c \in Consumers, SpuriousWakeup(c)
  PROVE  IInv'
  <1>1. c \in asleep /\ asleep' = asleep \ {c}
        /\ UNCHANGED <<coverageMode, queue_, currentMessageCount, pc, pushed, popped>>
    BY DEF SpuriousWakeup
  <1>2. Types'
    BY <1>1 DEF IInv, Types
  <1>3. Cardinality(Awakened') = Cardinality(Awakened) + 1
    BY <1>1, WakeupFacts DEF IInv
  <1>4. NoStrandedConsumer'
    BY <1>1, <1>3, AwakenedFacts, QueueFacts DEF IInv, NoStrandedConsumer
  <1>. QED  BY <1>1, <1>2, <1>4 DEF IInv, CountMatchesQueue, InOrder, Ascending, KeepsNewest
-----------------------------------------------------------------------------
\* Every step preserves the invariant.
LEMMA StepIInv == IInv /\ [Next]_vars => IInv'
  <1>. SUFFICES ASSUME IInv, [Next]_vars  PROVE IInv'
    OBVIOUS
  <1>1. CASE Push
    BY <1>1, StoreIInv, OverwriteIInv, RefuseIInv DEF Push
  <1>2. ASSUME NEW c \in Consumers, Pop(c) \/ Resume(c)  PROVE IInv'
    <2>1. c \notin asleep
      BY <1>2 DEF Pop, Resume, IInv, Types
    <2>. QED  BY <1>2, <2>1, TakeIInv, SleepIInv DEF Pop, Resume
  <1>3. ASSUME NEW c \in Consumers, Poll(c)  PROVE IInv'
    BY <1>3, PollIInv
  <1>4. ASSUME NEW c \in Consumers, SpuriousWakeup(c)  PROVE IInv'
    BY <1>4, SpuriousIInv
  <1>5. CASE UNCHANGED vars
    BY <1>5 DEF vars, IInv, Types, CountMatchesQueue, InOrder, Ascending, KeepsNewest,
                NoStrandedConsumer, Awakened
  <1>. QED  BY <1>1, <1>2, <1>3, <1>4, <1>5 DEF Next

THEOREM Invariance == Spec => []IInv
  BY InitIInv, StepIInv, PTL DEF Spec

\* Every variable stays in its type, and the counter that push and pop decide
\* by equals the length of the std::queue and never exceeds the limit.
THEOREM TypeCorrect == Spec => []TypeOK
  BY Invariance, PTL DEF IInv, TypeOK

\* No message is reordered or delivered twice, with any number of consumers.
THEOREM OrderCorrect == Spec => []InOrder
  BY Invariance, PTL DEF IInv

\* Coverage mode only ever gives up the oldest message.
THEOREM NewestKept == Spec => []KeepsNewest
  BY Invariance, PTL DEF IInv

\* One notify_one per stored message is enough: no wakeup is ever lost.
THEOREM NobodyStranded == Spec => []NoStrandedConsumer
  BY Invariance, PTL DEF IInv

\* When all consumers sleep nobody is on the way to a message: there is none.
LEMMA AllAsleep ==
  ASSUME IInv, Consumers # {}, asleep = Consumers
  PROVE  queue_ = <<>>
  <1>1. Awakened = {} /\ Cardinality(Awakened) = 0
    BY FS_EmptySet DEF Awakened
  <1>2. Len(queue_) <= 0 /\ queue_ \in Seq(1 .. pushed)
    BY <1>1 DEF IInv, Types, NoStrandedConsumer
  <1>. QED  BY <1>2, LenProperties, EmptySeq
-----------------------------------------------------------------------------
\* What a step does to the set of messages that are in the queue or popped.
LEMMA AcceptedStep ==
  ASSUME IInv, Next, ~coverageMode, NEW m \in Lost', m # pushed'
  PROVE  m \in Lost
  <1>. USE DEF IInv
  <1>1. CASE Push
    <2>1. /\ pushed' = pushed + 1 /\ popped' = popped
          /\ m \in 1 .. pushed
      BY <1>1, QueueFacts DEF Push, Lost
    <2>2. CASE Store
      <3>1. /\ Len(queue_') = Len(queue_) + 1
            /\ \A i \in 1 .. Len(queue_) : queue_'[i] = queue_[i]
            /\ queue_' \in Seq(1 .. pushed + 1)
        <4>1. queue_ \in Seq(1 .. pushed + 1) /\ pushed + 1 \in 1 .. pushed + 1
          BY QueueFacts, SeqMonotonic DEF Types
        <4>. QED  BY <2>1, <2>2, <4>1, AppendProperties DEF Store
      <3>2. Range(queue_) \subseteq Range(queue_')
        BY <3>1, LenProperties, QueueFacts DEF Range
      <3>. QED  BY <2>1, <3>2 DEF Lost
    <2>3. CASE Refuse
      BY <2>1, <2>3 DEF Refuse, Lost
    <2>. QED  BY <1>1, <2>2, <2>3 DEF Push, Overwrite
  <1>2. ASSUME NEW c \in Consumers, Take(c)  PROVE m \in Lost
    <2>. DEFINE e == Head(queue_)
                t == Tail(queue_)
    <2>1. popped' = Append(popped, e) /\ queue_' = t /\ pushed' = pushed /\ queue_ # <<>>
      BY <1>2, QueueFacts DEF Take
    <2>2. /\ e \in 1 .. pushed /\ DOMAIN t = 1 .. Len(queue_) - 1
          /\ \A i \in DOMAIN t : t[i] = queue_[i + 1]
          /\ e = queue_[1]
      BY <2>1, TailAscending, QueueFacts DEF Types, InOrder
    <2> HIDE DEF e, t
    <2>3. Range(queue_) \subseteq {e} \cup Range(t)
      <3>. SUFFICES ASSUME NEW i \in 1 .. Len(queue_), i # 1  PROVE queue_[i] \in Range(t)
        BY <2>2, QueueFacts DEF Range
      <3>1. i - 1 \in DOMAIN t /\ queue_[(i - 1) + 1] = t[i - 1] /\ (i - 1) + 1 = i
        BY <2>2, QueueFacts
      <3>. QED  BY <3>1 DEF Range
    <2>4. Range(popped) \cup {e} \subseteq Range(Append(popped, e))
      <3>1. /\ DOMAIN popped = 1 .. Len(popped) /\ Len(popped) \in Nat
            /\ DOMAIN Append(popped, e) = 1 .. Len(popped) + 1
            /\ \A i \in 1 .. Len(popped) : Append(popped, e)[i] = popped[i]
            /\ Append(popped, e)[Len(popped) + 1] = e
        BY <2>2, AppendProperties, LenProperties DEF Types
      <3>. QED  BY <3>1 DEF Range
    <2>. QED  BY <2>1, <2>3, <2>4 DEF Lost
  <1>3. ASSUME NEW c \in Consumers, Sleep(c) \/ Poll(c) \/ SpuriousWakeup(c)
        PROVE  m \in Lost
    BY <1>3 DEF Sleep, Poll, SpuriousWakeup, Lost
  <1>. QED  BY <1>1, <1>2, <1>3 DEF Next, Pop, Resume

\* Without coverage mode, an accepted message stays in the queue until it is
\* popped.
THEOREM AcceptedKept == Spec => AcceptedNotLost
  <1>1. IInv /\ [Next]_vars => [~coverageMode => Lost' \subseteq Lost \cup {pushed'}]_vars
    BY AcceptedStep
  <1>. QED  BY <1>1, Invariance, PTL DEF Spec, AcceptedNotLost
-----------------------------------------------------------------------------
\* Every step of the queue is a step of the lossy FIFO or leaves it alone.
LEMMA StepFifo == IInv /\ [Next]_vars => [Fifo!Next]_Fifo!vars
  <1>. SUFFICES ASSUME IInv, [Next]_vars  PROVE [Fifo!Next]_Fifo!vars
    OBVIOUS
  <1>. USE DEF IInv
  <1>1. Room <=> ~Fifo!Full
    BY QueueFacts, QueueAssumption DEF CountMatchesQueue, Room, Fifo!Full
  <1>2. CASE Push
    <2>1. Overwrite => queue_ # <<>>
      BY QueueFacts, QueueAssumption DEF Overwrite, Room, Types
    <2>2. Fifo!Send
      BY <1>1, <1>2, <2>1 DEF Push, Store, Overwrite, Refuse, Fifo!Send
    <2>. QED  BY <2>2 DEF Fifo!Next
  <1>3. ASSUME NEW c \in Consumers, Take(c)  PROVE [Fifo!Next]_Fifo!vars
    BY <1>3, QueueFacts DEF Take, Fifo!Next, Fifo!Receive
  <1>4. ASSUME NEW c \in Consumers, Sleep(c) \/ Poll(c) \/ SpuriousWakeup(c)
        PROVE  [Fifo!Next]_Fifo!vars
    BY <1>4 DEF Sleep, Poll, SpuriousWakeup, Fifo!vars
  <1>5. CASE UNCHANGED vars
    BY <1>5 DEF vars, Fifo!vars
  <1>. QED  BY <1>2, <1>3, <1>4, <1>5 DEF Next, Pop, Resume

\* push, pop and empty, with their mutex, counter and condition variable,
\* implement the abstract queue.
THEOREM Refinement == Spec => ImplementsLossyFifo
  <1>1. Init => Fifo!Init
    BY DEF Init, Fifo!Init
  <1>. QED  BY <1>1, StepFifo, Invariance, PTL DEF Spec, ImplementsLossyFifo, Fifo!Spec
=============================================================================
