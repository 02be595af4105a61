------------------------- MODULE AsyncTCPServerProofs -------------------------
(***************************************************************************)
(* For any peers, users, limit of the queue and number of bytes: the chain *)
(* of handlers is not broken while the io thread runs, the server drives   *)
(* its MessageQueue as that class specifies, so that the queue's own       *)
(* results hold of it, the users of GetMessage are never all blocked, and  *)
(* the bytes of each peer come out in order.                               *)
(***************************************************************************)
EXTENDS AsyncTCPServer, FiniteSetTheorems, SequenceTheorems, TLAPS

MQ == INSTANCE MessageQueueProofs WITH Consumers <- Users

Message == [from : Peers, data : Seq(1 .. MaxBytes)]

\* What the owner's thread, the io thread and the peers agree on: nothing was
\* accepted before the start, a socket is open only once it is registered, and
\* what is read is open.
Chain ==
  /\ io = "off" => acceptor # "closed" /\ reading = {} /\ clientsPtr = <<>>
  /\ io # "off" => acceptor \in {"listening", "closed"}
  /\ content \in Seq(Message)
  /\ \A p \in Peers : /\ peer[p] = "away" <=> socket[p] = "none"
                      /\ Contains(clientsPtr, p) <=> socket[p] \in {"open", "closed"}
  /\ ~terminated => \A p \in reading : socket[p] = "open"

\* A user passes empty() only beside a message.  Either it is still there, or
\* the user who took it has left GetMessage.
MessageOrTaker ==
  Users # {} => queue_ # <<>> \/ \E u \in Users : pc[u] = "out"

Server == TypeOK /\ Chain /\ HandlersArmed

\* A stream, told by what was pushed whether or not the queue kept it: what
\* was read is in order among itself, before the wire, and was sent.
StreamOf(p, m) ==
  /\ Ascending(BytesOf(p, m))
  /\ Precedes(BytesOf(p, m), wire[p])
  /\ \A i \in DOMAIN BytesOf(p, m) : BytesOf(p, m)[i] <= sent[p]
  /\ \A n \in DOMAIN content : m < n => Precedes(BytesOf(p, m), BytesOf(p, n))

Stream(p) ==
  /\ Ascending(wire[p])
  /\ \A i \in DOMAIN wire[p] : wire[p][i] <= sent[p]
  /\ \A m \in DOMAIN content : StreamOf(p, m)

Streams == \A p \in Peers : Stream(p)

\* The inductive invariant.
IInv == Server /\ MQ!IInv /\ MessageOrTaker /\ Streams
-----------------------------------------------------------------------------
(* The queue: its own results, carried over by instantiation. *)

LEMMA Amounts == MaxPush \in Nat
  BY ServerAssumption, FS_CardinalityType DEF MaxPush

LEMMA FiniteUsers == MQ!IsFiniteSet(Users)
  BY ServerAssumption DEF IsFiniteSet, MQ!IsFiniteSet, ExistsBijection, MQ!ExistsBijection,
                          Bijection, MQ!Bijection, Injection, MQ!Injection, Surjection,
                          MQ!Surjection

LEMMA QueueTypes == MQ!IInv => Queue!TypeOK
  BY DEF MQ!IInv, MQ!Types, MQ!CountMatchesQueue, Queue!TypeOK, Queue!Types,
         Queue!CountMatchesQueue

LEMMA QueueInit == Queue!Init => MQ!IInv
  <1>1. Queue!Init => MQ!Init
    BY DEF Queue!Init, MQ!Init
  <1>. QED  BY <1>1, MQ!InitIInv, Amounts, FiniteUsers, ServerAssumption

LEMMA QueueStep == MQ!IInv /\ [Queue!Next]_queueVars => MQ!IInv'
  <1>1. [Queue!Next]_queueVars => [MQ!Next]_(MQ!vars)
    BY DEF queueVars, MQ!vars, Queue!Next, Queue!Push, Queue!Store, Queue!Overwrite,
           Queue!Refuse, Queue!Room, Queue!NotifyOne, Queue!Poll, Queue!Pop, Queue!Take,
           Queue!Sleep, Queue!Resume, Queue!SpuriousWakeup, MQ!Next, MQ!Push, MQ!Store,
           MQ!Overwrite, MQ!Refuse, MQ!Room, MQ!NotifyOne, MQ!Poll, MQ!Pop, MQ!Take, MQ!Sleep,
           MQ!Resume, MQ!SpuriousWakeup
  <1>. QED  BY <1>1, MQ!StepIInv, Amounts, FiniteUsers, ServerAssumption

\* Whatever the server does, its queue takes a step of its class or none.
LEMMA UsesQueue == [Next]_vars => [Queue!Next]_queueVars
  <1>. SUFFICES ASSUME [Next]_vars  PROVE [Queue!Next]_queueVars
    OBVIOUS
  <1>1. CASE UNCHANGED vars
    BY <1>1 DEF vars
  <1>2. CASE SetUp \/ StartServer \/ CloseAcceptor \/ StopIo \/ Destroy \/ RunReturns
    BY <1>2 DEF SetUp, StartServer, CloseAcceptor, StopIo, Destroy, RunReturns
  <1>3. CASE AcceptHandler
    BY <1>3 DEF AcceptHandler, Accept, AcceptReset, AcceptFailed
  <1>4. ASSUME NEW p \in Peers, ReadHandler(p)  PROVE [Queue!Next]_queueVars
    BY <1>4 DEF ReadHandler, Read, ReadEof, ReadReset, Queue!Next
  <1>5. ASSUME NEW u \in Users, GetMessage(u)  PROVE [Queue!Next]_queueVars
    BY <1>5 DEF GetMessage, Queue!Next
  <1>6. ASSUME NEW p \in Peers, Connect(p) \/ Send(p) \/ Leave(p)  PROVE [Queue!Next]_queueVars
    BY <1>6 DEF Connect, Send, Leave
  <1>. QED  BY <1>1, <1>2, <1>3, <1>4, <1>5, <1>6 DEF Next
-----------------------------------------------------------------------------
(* The server, given that its queue is in order. *)

LEMMA InitServer == Init => Server
  <1>. SUFFICES ASSUME Init  PROVE Server
    OBVIOUS
  <1>1. /\ clientsPtr \in Seq(Peers) /\ Len(clientsPtr) = 0 /\ DOMAIN clientsPtr = {}
        /\ content \in Seq(Message) /\ Len(content) = 0
        /\ wire \in [Peers -> Seq(1 .. MaxBytes)]
    BY DEF Init
  <1>2. Queue!TypeOK /\ pushed = 0
    BY QueueInit, QueueTypes DEF Init, Queue!Init
  <1>3. TypeOK
    <2>1. IsInjective(clientsPtr)
      BY <1>1 DEF IsInjective
    <2>2. sent \in [Peers -> 0 .. MaxBytes]
      BY ServerAssumption DEF Init
    <2>. QED  BY <1>1, <1>2, <2>1, <2>2 DEF Init, TypeOK
  <1>4. Chain /\ HandlersArmed
    BY <1>1 DEF Init, Chain, HandlersArmed, Contains
  <1>. QED  BY <1>3, <1>4 DEF Server

\* The steps that only move the acceptor or the io thread.
LEMMA OwnerServer ==
  ASSUME Server, Queue!TypeOK', ~terminated,
         SetUp \/ StartServer \/ CloseAcceptor \/ StopIo \/ RunReturns \/ AcceptFailed
  PROVE  Server'
  <1>1. UNCHANGED <<net, reading, clientsPtr, content, terminated, queueVars>>
    BY DEF SetUp, StartServer, CloseAcceptor, StopIo, RunReturns, AcceptFailed
  <1>2. UNCHANGED <<peer, socket, wire, sent, reading, clientsPtr, content, terminated, pushed>>
    BY <1>1 DEF net, queueVars
  <1>3. TypeOK'
    <2>1. accepting' = accepting \/ DoAccept
      BY DEF SetUp, StartServer, CloseAcceptor, StopIo, RunReturns, AcceptFailed
    <2>2. /\ acceptor' \in {"none", "created", "bound", "listening", "closed"}
          /\ io' \in {"off", "running", "stopping", "returned"}
      BY DEF Server, TypeOK, SetUp, StartServer, CloseAcceptor, StopIo, RunReturns,
             AcceptFailed, RunsHandler
    <2>3. accepting' \in BOOLEAN
      <3>1. accepting \in BOOLEAN
        BY DEF Server, TypeOK
      <3>2. DoAccept => accepting' \in BOOLEAN
        BY DEF DoAccept
      <3>. QED  BY <2>1, <3>1, <3>2
    <2>. QED  BY <1>2, <2>2, <2>3 DEF Server, TypeOK
  <1>4. Chain'
    BY <1>2 DEF Server, TypeOK, Chain, SetUp, StartServer, CloseAcceptor, StopIo, RunReturns,
                AcceptFailed, RunsHandler
  <1>5. HandlersArmed'
    <2>. SUFFICES ASSUME io' = "running"  PROVE HandlersArmed'
      BY DEF HandlersArmed
    <2>1. CASE StartServer
      <3>1. reading = {} /\ clientsPtr = <<>> /\ accepting'
        BY <2>1 DEF Server, Chain, StartServer, DoAccept
      <3>. QED  BY <1>2, <3>1 DEF HandlersArmed, Contains
    <2>2. CASE AcceptFailed
      BY <1>2, <2>2 DEF Server, AcceptFailed, RunsHandler, DoAccept, HandlersArmed
    <2>3. CASE CloseAcceptor
      BY <1>2, <2>3 DEF Server, CloseAcceptor, HandlersArmed
    <2>4. ~SetUp /\ ~StopIo /\ ~RunReturns
      BY DEF Server, Chain, SetUp, StopIo, RunReturns
    <2>. QED  BY <2>1, <2>2, <2>3, <2>4
  <1>. QED  BY <1>3, <1>4, <1>5 DEF Server

LEMMA DestroyServer ==
  ASSUME Server, Queue!TypeOK', Destroy
  PROVE  Server'
  <1>1. UNCHANGED <<acceptor, accepting, io, peer, wire, sent, reading, clientsPtr, content,
                    pushed>> /\ io \in {"stopping", "returned"} /\ terminated'
        /\ socket' = [p \in Peers |-> IF Contains(clientsPtr, p) THEN "closed" ELSE socket[p]]
    BY DEF Destroy, queueVars
  <1>2. TypeOK'
    BY <1>1 DEF Server, TypeOK
  <1>3. Chain' /\ HandlersArmed'
    BY <1>1 DEF Server, TypeOK, Chain, HandlersArmed
  <1>. QED  BY <1>2, <1>3 DEF Server

\* The pieces that a read cuts off are pieces of the stream.
LEMMA Pieces ==
  ASSUME NEW S, NEW s \in Seq(S), NEW n \in 0 .. Len(s)
  PROVE  SubSeq(s, 1, n) \in Seq(S) /\ SubSeq(s, n + 1, Len(s)) \in Seq(S)
  BY SubSeqProperties, LenProperties

\* A client is registered once.
LEMMA Registered ==
  ASSUME NEW s \in Seq(Peers), IsInjective(s), NEW p \in Peers, ~Contains(s, p)
  PROVE  /\ Append(s, p) \in Seq(Peers) /\ IsInjective(Append(s, p))
         /\ \A q : Contains(Append(s, p), q) <=> Contains(s, q) \/ q = p
  <1>1. /\ Append(s, p) \in Seq(Peers) /\ Len(Append(s, p)) = Len(s) + 1
        /\ \A i \in 1 .. Len(s) : Append(s, p)[i] = s[i]
        /\ Append(s, p)[Len(s) + 1] = p
        /\ Len(s) \in Nat
    BY AppendProperties, LenProperties
  <1>2. DOMAIN s = 1 .. Len(s) /\ DOMAIN Append(s, p) = 1 .. Len(s) + 1
    BY <1>1, LenProperties
  <1>3. \A i \in 1 .. Len(s) : s[i] # p
    BY DEF Contains
  <1>4. IsInjective(Append(s, p))
    BY <1>1, <1>2, <1>3 DEF IsInjective
  <1>5. ASSUME NEW q  PROVE Contains(Append(s, p), q) <=> Contains(s, q) \/ q = p
    BY <1>1 DEF Contains
  <1>. QED  BY <1>1, <1>4, <1>5

LEMMA AcceptServer ==
  ASSUME Server, Queue!TypeOK', ~terminated, NEW p \in Peers, Accept(p)
  PROVE  Server'
  <1>1. /\ UNCHANGED <<acceptor, peer, wire, sent, content, terminated, pushed>>
        /\ accepting' = (acceptor \in {"bound", "listening"})
        /\ socket[p] = "backlog" /\ socket' = [socket EXCEPT ![p] = "open"]
        /\ clientsPtr' = Append(clientsPtr, p) /\ reading' = reading \cup {p}
        /\ io \in {"running", "stopping"} /\ io' = (IF io = "running" THEN io ELSE "returned")
    BY DEF Accept, RunsHandler, DoAccept, queueVars
  <1>2. ~Contains(clientsPtr, p)
    BY <1>1 DEF Server, Chain
  <1>3. /\ clientsPtr' \in Seq(Peers) /\ IsInjective(clientsPtr)'
        /\ \A q : Contains(clientsPtr, q)' <=> Contains(clientsPtr, q) \/ q = p
    BY <1>1, <1>2, Registered DEF Server, TypeOK
  <1>4. TypeOK'
    BY <1>1, <1>3 DEF Server, TypeOK
  <1>5. Chain'
    BY <1>1, <1>3 DEF Server, TypeOK, Chain
  <1>6. HandlersArmed'
    BY <1>1, <1>3 DEF Server, TypeOK, HandlersArmed
  <1>. QED  BY <1>4, <1>5, <1>6 DEF Server

LEMMA ResetServer ==
  ASSUME Server, Queue!TypeOK', NEW p \in Peers, AcceptReset(p) \/ ReadReset(p)
  PROVE  Server'
  <1>1. /\ UNCHANGED <<acceptor, accepting, peer, socket, wire, sent, reading, clientsPtr,
                       content, pushed>> /\ terminated'
        /\ io \in {"running", "stopping"} /\ io' = (IF io = "running" THEN io ELSE "returned")
    BY DEF AcceptReset, ReadReset, RunsHandler, net, queueVars
  <1>2. TypeOK'
    BY <1>1 DEF Server, TypeOK
  <1>3. Chain' /\ HandlersArmed'
    BY <1>1 DEF Server, TypeOK, Chain, HandlersArmed
  <1>. QED  BY <1>2, <1>3 DEF Server

LEMMA ReadEofServer ==
  ASSUME Server, Queue!TypeOK', ~terminated, NEW p \in Peers, ReadEof(p)
  PROVE  Server'
  <1>1. /\ UNCHANGED <<acceptor, accepting, peer, wire, sent, clientsPtr, content, terminated,
                       pushed>>
        /\ p \in reading /\ reading' = reading \ {p}
        /\ socket' = [socket EXCEPT ![p] = "closed"]
        /\ io \in {"running", "stopping"} /\ io' = (IF io = "running" THEN io ELSE "returned")
    BY DEF ReadEof, RunsHandler, queueVars
  <1>2. socket[p] = "open"
    BY <1>1 DEF Server, Chain
  <1>3. TypeOK'
    BY <1>1 DEF Server, TypeOK
  <1>4. Chain'
    BY <1>1, <1>2 DEF Server, TypeOK, Chain
  <1>5. HandlersArmed'
    BY <1>1 DEF Server, TypeOK, HandlersArmed
  <1>. QED  BY <1>3, <1>4, <1>5 DEF Server

LEMMA ReadServer ==
  ASSUME Server, Queue!TypeOK', NEW p \in Peers, NEW n \in 1 .. MaxBytes, Read(p, n)
  PROVE  Server'
  <1> DEFINE m == [from |-> p, data |-> SubSeq(wire[p], 1, n)]
  <1>1. /\ UNCHANGED <<acceptor, accepting, peer, socket, sent, reading, clientsPtr, terminated>>
        /\ n \in 1 .. Len(wire[p]) /\ content' = Append(content, m)
        /\ wire' = [wire EXCEPT ![p] = SubSeq(@, n + 1, Len(@))]
        /\ pushed' = pushed + 1
        /\ io \in {"running", "stopping"} /\ io' = (IF io = "running" THEN io ELSE "returned")
    BY DEF Read, RunsHandler, Queue!Push
  <1>2. wire[p] \in Seq(1 .. MaxBytes) /\ n \in 0 .. Len(wire[p])
    BY <1>1 DEF Server, TypeOK
  <1>3. m \in Message
    BY <1>1, <1>2, Pieces DEF Message
  <1>4. SubSeq(wire[p], n + 1, Len(wire[p])) \in Seq(1 .. MaxBytes)
    BY <1>1, <1>2, Pieces
  <1> HIDE DEF m
  <1>5. content' \in Seq(Message) /\ Len(content') = Len(content) + 1
    BY <1>1, <1>3, AppendProperties DEF Server, Chain
  <1>6. TypeOK'
    BY <1>1, <1>4, <1>5 DEF Server, TypeOK
  <1>7. Chain' /\ HandlersArmed'
    BY <1>1, <1>5 DEF Server, TypeOK, Chain, HandlersArmed
  <1>. QED  BY <1>6, <1>7 DEF Server

LEMMA GetServer ==
  ASSUME Server, Queue!TypeOK', NEW u \in Users, GetMessage(u)
  PROVE  Server'
  <1>1. UNCHANGED <<acceptor, accepting, io, peer, socket, wire, sent, reading, clientsPtr,
                    content, terminated>> /\ pushed' = pushed
    BY DEF GetMessage, net, Queue!Poll, Queue!Pop, Queue!Resume, Queue!SpuriousWakeup,
           Queue!Take, Queue!Sleep
  <1>. QED  BY <1>1 DEF Server, TypeOK, Chain, HandlersArmed

LEMMA PeerServer ==
  ASSUME Server, Queue!TypeOK', NEW p \in Peers, Connect(p) \/ Send(p) \/ Leave(p)
  PROVE  Server'
  <1>. USE DEF Server
  <1>0. UNCHANGED <<acceptor, accepting, io, reading, clientsPtr, content, terminated, pushed>>
    BY DEF Connect, Send, Leave, queueVars
  <1>1. CASE Connect(p)
    <2>1. /\ peer[p] = "away" /\ peer' = [peer EXCEPT ![p] = "up"]
          /\ socket' = [socket EXCEPT ![p] = "backlog"] /\ UNCHANGED <<wire, sent>>
          /\ acceptor = "listening"
      BY <1>1 DEF Connect
    <2>2. TypeOK'
      BY <1>0, <2>1 DEF TypeOK
    <2>3. socket[p] = "none" /\ ~Contains(clientsPtr, p) /\ (~terminated => p \notin reading)
      BY <2>1 DEF Chain
    <2>4. Chain'
      BY <1>0, <2>1, <2>3 DEF TypeOK, Chain
    <2>5. HandlersArmed'
      BY <1>0, <2>1, <2>3 DEF TypeOK, HandlersArmed
    <2>. QED  BY <2>2, <2>4, <2>5
  <1>2. CASE Send(p)
    <2>1. /\ sent[p] < MaxBytes /\ sent' = [sent EXCEPT ![p] = @ + 1]
          /\ wire' = [wire EXCEPT ![p] = Append(@, sent'[p])] /\ UNCHANGED <<peer, socket>>
      BY <1>2 DEF Send
    <2>2. sent[p] \in 0 .. MaxBytes /\ wire[p] \in Seq(1 .. MaxBytes)
      BY DEF TypeOK
    <2>3. sent' \in [Peers -> 0 .. MaxBytes] /\ sent'[p] \in 1 .. MaxBytes
      BY <2>1, <2>2, ServerAssumption DEF TypeOK
    <2>4. Append(wire[p], sent'[p]) \in Seq(1 .. MaxBytes)
      BY <2>2, <2>3, AppendProperties
    <2>. QED  BY <1>0, <2>1, <2>3, <2>4 DEF TypeOK, Chain, HandlersArmed
  <1>3. CASE Leave(p)
    <2>1. /\ peer[p] = "up" /\ UNCHANGED <<socket, sent>>
          /\ \/ peer' = [peer EXCEPT ![p] = "closed"]
             \/ peer' = [peer EXCEPT ![p] = "reset"]
      BY <1>3 DEF Leave
    <2>2. wire' \in [Peers -> Seq(1 .. MaxBytes)]
      <3>1. CASE UNCHANGED wire
        BY <3>1 DEF TypeOK
      <3>2. ASSUME NEW n \in 0 .. Len(wire[p]), wire' = [wire EXCEPT ![p] = SubSeq(@, 1, n)]
            PROVE  wire' \in [Peers -> Seq(1 .. MaxBytes)]
        <4>1. wire[p] \in Seq(1 .. MaxBytes)
          BY DEF TypeOK
        <4>2. SubSeq(wire[p], 1, n) \in Seq(1 .. MaxBytes)
          BY <3>2, <4>1, Pieces
        <4>. QED  BY <3>2, <4>2 DEF TypeOK
      <3>. QED  BY <1>3, <3>1, <3>2 DEF Leave
    <2>. QED  BY <1>0, <2>1, <2>2 DEF TypeOK, Chain, HandlersArmed
  <1>. QED  BY <1>1, <1>2, <1>3
-----------------------------------------------------------------------------
(* GetMessage asks empty() and then calls pop(): two critical sections, with *)
(* nobody but the pushing io thread between them.                            *)

LEMMA StepMessageOrTaker ==
  ASSUME Queue!TypeOK, Queue!TypeOK', MessageOrTaker, [Next]_vars
  PROVE  MessageOrTaker'
  <1>. USE DEF Queue!TypeOK, Queue!Types, Queue!CountMatchesQueue
  <1>1. CASE UNCHANGED queueVars
    BY <1>1 DEF queueVars, MessageOrTaker
  <1>2. CASE Queue!Push
    <2>1. UNCHANGED pc
      BY <1>2 DEF Queue!Push
    <2>2. queue_ # <<>> => queue_' # <<>>
      BY <1>2, AppendProperties, EmptySeq DEF Queue!Push, Queue!Store, Queue!Overwrite, Queue!Refuse
    <2>. QED  BY <2>1, <2>2 DEF MessageOrTaker
  <1>3. ASSUME NEW u \in Users, GetMessage(u)  PROVE MessageOrTaker'
    <2>1. (currentMessageCount > 0) <=> queue_ # <<>>
      BY LenProperties, EmptySeq
    <2>2. CASE Queue!Poll(u)
      BY <2>1, <2>2 DEF Queue!Poll, MessageOrTaker
    <2>3. CASE Queue!Take(u)
      BY <2>3 DEF Queue!Take, MessageOrTaker
    <2>4. CASE Queue!Sleep(u) /\ pc[u] \in {"polled", "popping"}
      <3>1. queue_ = <<>>
        BY <2>1, <2>4 DEF Queue!Sleep
      <3>2. PICK v \in Users : pc[v] = "out"
        BY <3>1 DEF MessageOrTaker
      <3>3. pc'[v] = "out"
        BY <2>4, <3>2 DEF Queue!Sleep
      <3>. QED  BY <3>3 DEF MessageOrTaker
    <2>5. CASE Queue!SpuriousWakeup(u)
      BY <2>5 DEF Queue!SpuriousWakeup, MessageOrTaker
    <2>. QED  BY <1>3, <2>2, <2>3, <2>4, <2>5 DEF GetMessage, Queue!Pop, Queue!Resume
  <1>4. UNCHANGED queueVars \/ Queue!Push \/ \E u \in Users : GetMessage(u)
    BY DEF vars, Next, SetUp, StartServer, CloseAcceptor, StopIo, Destroy, RunReturns,
           AcceptHandler, Accept, AcceptReset, AcceptFailed, ReadHandler, Read, ReadEof,
           ReadReset, Connect, Send, Leave
  <1>. QED  BY <1>1, <1>2, <1>3, <1>4
-----------------------------------------------------------------------------
(* The streams.  What a read cuts off the wire lies between everything read *)
(* before and the rest of the wire, so that order is kept among all that    *)
(* was ever pushed; the queue, by its own results, gives it out in the      *)
(* order of the pushes.                                                     *)

LEMMA BytesType ==
  ASSUME Server, NEW p \in Peers, NEW m \in DOMAIN content
  PROVE  BytesOf(p, m) \in Seq(1 .. MaxBytes)
  <1>1. content[m] \in Message
    BY ElementOfSeq, LenProperties DEF Server, Chain
  <1>2. content[m].data \in Seq(1 .. MaxBytes)
    BY <1>1 DEF Message
  <1>. QED  BY <1>2, EmptySeq DEF BytesOf

\* A sequence in order that is cut in two: both parts are in order, one comes
\* before the other, and each is made of what was there.
LEMMA CutInOrder ==
  ASSUME NEW S, NEW s \in Seq(S), Ascending(s), NEW n \in 0 .. Len(s)
  PROVE  /\ Ascending(SubSeq(s, 1, n)) /\ Ascending(SubSeq(s, n + 1, Len(s)))
         /\ Precedes(SubSeq(s, 1, n), SubSeq(s, n + 1, Len(s)))
         /\ \A i \in DOMAIN SubSeq(s, 1, n) :
              \E j \in DOMAIN s : SubSeq(s, 1, n)[i] = s[j]
         /\ \A i \in DOMAIN SubSeq(s, n + 1, Len(s)) :
              \E j \in DOMAIN s : SubSeq(s, n + 1, Len(s))[i] = s[j]
  <1> DEFINE a == SubSeq(s, 1, n)  b == SubSeq(s, n + 1, Len(s))
  <1>1. Len(s) \in Nat /\ DOMAIN s = 1 .. Len(s) /\ n \in Nat /\ n <= Len(s)
    BY LenProperties
  <1>2. DOMAIN a = 1 .. n /\ \A i \in 1 .. n : a[i] = s[i]
    <2>1. a \in Seq(S) /\ Len(a) = n
      BY <1>1, SubSeqProperties
    <2>2. \A i \in 1 .. n : a[i] = s[1 + i - 1]
      BY <1>1, <2>1, SubSeqProperties
    <2>. QED  BY <1>1, <2>1, <2>2, LenProperties
  <1>3. /\ DOMAIN b = 1 .. Len(s) - n
        /\ \A i \in 1 .. Len(s) - n : n + i \in DOMAIN s /\ b[i] = s[n + i]
    <2>0. n + 1 \in Int /\ Len(s) \in Int
      BY <1>1
    <2>. PICK m \in Int, k \in Int : m = n + 1 /\ k = Len(s)
      BY <2>0, Zenon
    <2>1. \A i \in m .. k : s[i] \in S
      BY <1>1, ElementOfSeq
    <2>2. /\ SubSeq(s, m, k) \in Seq(S) /\ Len(SubSeq(s, m, k)) = (IF m <= k THEN k - m + 1 ELSE 0)
          /\ \A i \in 1 .. k - m + 1 : SubSeq(s, m, k)[i] = s[m + i - 1]
      BY <2>1, SubSeqProperties
    <2>3. b = SubSeq(s, m, k)
      OBVIOUS
    <2> HIDE DEF b
    <2>4. Len(b) = Len(s) - n /\ DOMAIN b = 1 .. Len(s) - n
      <3>1. Len(b) = Len(s) - n
        BY <1>1, <2>2, <2>3
      <3>. QED  BY <2>2, <2>3, <3>1, LenProperties
    <2>5. ASSUME NEW i \in 1 .. Len(s) - n  PROVE n + i \in DOMAIN s /\ b[i] = s[n + i]
      <3>1. i \in 1 .. k - m + 1 /\ m + i - 1 = n + i /\ n + i \in DOMAIN s
        BY <1>1
      <3>. QED  BY <2>2, <2>3, <3>1
    <2>. QED  BY <2>4, <2>5
  <1> HIDE DEF a, b
  <1>4. Ascending(a)
    BY <1>1, <1>2 DEF Ascending
  <1>5. Ascending(b)
    <2>. SUFFICES ASSUME NEW i \in DOMAIN b, NEW j \in DOMAIN b, i < j  PROVE b[i] < b[j]
      BY DEF Ascending
    <2>1. PICK k \in DOMAIN s : k = n + i /\ b[i] = s[k]
      BY <1>3
    <2>2. PICK l \in DOMAIN s : l = n + j /\ b[j] = s[l]
      BY <1>3
    <2>3. k < l
      BY <1>1, <1>3, <2>1, <2>2
    <2>. QED  BY <2>1, <2>2, <2>3 DEF Ascending
  <1>6. Precedes(a, b)
    <2>. SUFFICES ASSUME NEW i \in DOMAIN a, NEW j \in DOMAIN b  PROVE a[i] < b[j]
      BY DEF Precedes
    <2>1. PICK k \in DOMAIN s : k = n + j /\ b[j] = s[k]
      BY <1>3
    <2>2. i \in DOMAIN s /\ a[i] = s[i] /\ i < k
      BY <1>1, <1>2, <1>3, <2>1
    <2>. QED  BY <2>1, <2>2 DEF Ascending
  <1>7. /\ \A i \in DOMAIN a : \E j \in DOMAIN s : a[i] = s[j]
        /\ \A i \in DOMAIN b : \E j \in DOMAIN s : b[i] = s[j]
    <2>1. 1 .. n \subseteq DOMAIN s
      BY <1>1
    <2>. QED  BY <1>2, <1>3, <2>1
  <1>. QED  BY <1>4, <1>5, <1>6, <1>7 DEF a, b

\* What precedes a sequence precedes what is made of its elements.
LEMMA PrecedesPart ==
  ASSUME NEW r, NEW s, NEW t, Precedes(r, s), \A i \in DOMAIN t : \E j \in DOMAIN s : t[i] = s[j]
  PROVE  Precedes(r, t)
  BY DEF Precedes

LEMMA NoBytes ==
  ASSUME NEW s
  PROVE  Ascending(<<>>) /\ Precedes(<<>>, s) /\ Precedes(s, <<>>)
  BY DEF Ascending, Precedes

LEMMA InitStreams == Init => Streams
  <1>. SUFFICES ASSUME Init, NEW p \in Peers  PROVE Stream(p)
    BY DEF Streams
  <1>1. wire[p] = <<>> /\ DOMAIN content = {} /\ DOMAIN wire[p] = {}
    BY DEF Init
  <1>. QED  BY <1>1, NoBytes DEF Stream, StreamOf

\* A step that changes only what a stream is not made of.
LEMMA SameStream ==
  ASSUME NEW p \in Peers, Stream(p), content' = content, wire'[p] = wire[p], sent'[p] = sent[p]
  PROVE  Stream(p)'
  BY DEF Stream, StreamOf, BytesOf

\* Send puts the next byte at the end of the wire.
LEMMA SendStream ==
  ASSUME Server, NEW p \in Peers, Stream(p), Send(p)
  PROVE  Stream(p)'
  <1>1. /\ sent'[p] = sent[p] + 1 /\ wire'[p] = Append(wire[p], sent[p] + 1) /\ content' = content
        /\ sent[p] \in Nat /\ wire[p] \in Seq(1 .. MaxBytes) /\ wire[p] \in Seq(Nat)
    <2>1. sent[p] \in Nat /\ wire[p] \in Seq(1 .. MaxBytes)
      BY DEF Server, TypeOK
    <2>2. sent'[p] = sent[p] + 1 /\ wire'[p] = Append(wire[p], sent'[p]) /\ content' = content
      BY DEF Send, Server, TypeOK
    <2>3. wire[p] \in Seq(Nat)
      <3>1. 1 .. MaxBytes \subseteq Nat
        OBVIOUS
      <3>. QED  BY <2>1, <3>1, SeqMonotonic
    <2>. QED  BY <2>1, <2>2, <2>3
  <1> DEFINE w == wire[p]  b == sent[p] + 1
  <1>2. /\ w \in Seq(Nat) /\ b \in Nat /\ Len(w) \in Nat /\ DOMAIN w = 1 .. Len(w)
        /\ \A i \in DOMAIN w : w[i] \in Nat
    BY <1>1, LenProperties, ElementOfSeq
  <1>3. /\ DOMAIN Append(w, b) = 1 .. Len(w) + 1
        /\ \A i \in 1 .. Len(w) : Append(w, b)[i] = w[i]
        /\ Append(w, b)[Len(w) + 1] = b
    <2>1. Append(w, b) \in Seq(Nat) /\ Len(Append(w, b)) = Len(w) + 1
      BY <1>2, AppendProperties
    <2>. QED  BY <1>2, <2>1, AppendProperties, LenProperties
  <1>4. /\ Ascending(w) /\ \A i \in DOMAIN w : w[i] < b
        /\ \A m \in DOMAIN content : \A i \in DOMAIN BytesOf(p, m) :
             BytesOf(p, m)[i] \in Nat /\ BytesOf(p, m)[i] < b
    <2>1. ASSUME NEW m \in DOMAIN content, NEW i \in DOMAIN BytesOf(p, m)
          PROVE  BytesOf(p, m)[i] \in Nat
      <3>1. BytesOf(p, m) \in Seq(1 .. MaxBytes)
        BY BytesType
      <3>2. i \in 1 .. Len(BytesOf(p, m))
        BY <3>1, LenProperties
      <3>3. BytesOf(p, m)[i] \in 1 .. MaxBytes
        BY <3>1, <3>2, ElementOfSeq
      <3>. QED  BY <3>3
    <2>. QED  BY <1>1, <1>2, <2>1 DEF Stream, StreamOf
  <1> HIDE DEF w, b
  <1>5. Ascending(Append(w, b))
    BY <1>2, <1>3, <1>4 DEF Ascending
  <1>6. \A i \in DOMAIN Append(w, b) : Append(w, b)[i] <= b
    BY <1>2, <1>3, <1>4
  <1>7. ASSUME NEW m \in DOMAIN content
        PROVE  /\ Precedes(BytesOf(p, m), Append(w, b))
               /\ \A i \in DOMAIN BytesOf(p, m) : BytesOf(p, m)[i] <= b
    <2>1. Precedes(BytesOf(p, m), w)
      BY DEF Stream, StreamOf, w
    <2>. QED  BY <1>2, <1>3, <1>4, <2>1 DEF Precedes
  <1>8. wire'[p] = Append(w, b) /\ sent'[p] = b
    BY <1>1 DEF w, b
  <1>. QED  BY <1>1, <1>5, <1>6, <1>7, <1>8 DEF Stream, StreamOf, BytesOf

\* A reset loses the end of the wire.
LEMMA LeaveStream ==
  ASSUME Server, NEW p \in Peers, Stream(p), Leave(p)
  PROVE  Stream(p)'
  <1>1. content' = content /\ sent' = sent
    BY DEF Leave
  <1>2. CASE wire' = wire
    BY <1>1, <1>2, SameStream
  <1>3. ASSUME NEW n \in 0 .. Len(wire[p]), wire' = [wire EXCEPT ![p] = SubSeq(@, 1, n)]
        PROVE  Stream(p)'
    <2>1. wire[p] \in Seq(1 .. MaxBytes) /\ Ascending(wire[p])
      BY DEF Server, TypeOK, Stream
    <2>2. wire'[p] = SubSeq(wire[p], 1, n)
      BY <1>3 DEF Server, TypeOK
    <2>3. /\ Ascending(wire'[p])
          /\ \A i \in DOMAIN wire'[p] : \E j \in DOMAIN wire[p] : wire'[p][i] = wire[p][j]
      BY <2>1, <2>2, CutInOrder
    <2>4. \A m \in DOMAIN content : Precedes(BytesOf(p, m), wire'[p])
      BY <2>3, PrecedesPart DEF Stream, StreamOf
    <2>. QED  BY <1>1, <2>3, <2>4 DEF Stream, StreamOf, BytesOf
  <1>. QED  BY <1>2, <1>3 DEF Leave

\* Read moves a beginning of the wire of p to the end of what was pushed.
LEMMA ReadStream ==
  ASSUME Server, NEW p \in Peers, NEW n \in 1 .. MaxBytes, Read(p, n), NEW q \in Peers, Stream(q)
  PROVE  Stream(q)'
  <1> DEFINE piece == SubSeq(wire[p], 1, n)
             rest  == SubSeq(wire[p], n + 1, Len(wire[p]))
             read  == IF q = p THEN piece ELSE <<>>
  <1>1. /\ n \in 0 .. Len(wire[p]) /\ content' = Append(content, [from |-> p, data |-> piece])
        /\ wire' = [wire EXCEPT ![p] = rest] /\ sent' = sent
        /\ wire[p] \in Seq(1 .. MaxBytes) /\ p \in DOMAIN wire
    BY DEF Read, Server, TypeOK
  <1>2. piece \in Seq(1 .. MaxBytes)
    BY <1>1, Pieces
  <1>a. Len(content) \in Nat
    BY LenProperties DEF Server, Chain
  <1>. PICK new \in Nat : new = Len(content) + 1
    <2>. QED  BY <1>a
  <1>3. /\ DOMAIN content = 1 .. Len(content) /\ Len(content) \in Nat
        /\ DOMAIN content' = 1 .. new
        /\ \A m \in 1 .. Len(content) : content'[m] = content[m]
        /\ content'[new] = [from |-> p, data |-> piece]
    <2>1. [from |-> p, data |-> piece] \in Message
      BY <1>2 DEF Message
    <2>2. content \in Seq(Message)
      BY DEF Server, Chain
    <2>3. content' \in Seq(Message) /\ Len(content') = new
      BY <1>1, <2>1, <2>2, AppendProperties
    <2>. QED  BY <1>1, <2>1, <2>2, <2>3, AppendProperties, LenProperties
  <1>4. /\ \A m \in 1 .. Len(content) : BytesOf(q, m)' = BytesOf(q, m)
        /\ BytesOf(q, new)' = read
    BY <1>3, <1>a DEF BytesOf
  <1>5. wire'[q] = IF q = p THEN rest ELSE wire[q]
    BY <1>1
  <1>6. /\ Ascending(read) /\ Ascending(wire'[q]) /\ Precedes(read, wire'[q])
        /\ \A i \in DOMAIN read : \E j \in DOMAIN wire[q] : read[i] = wire[q][j]
        /\ \A i \in DOMAIN wire'[q] : \E j \in DOMAIN wire[q] : wire'[q][i] = wire[q][j]
    <2>1. CASE q = p
      <3>1. Ascending(wire[p]) /\ wire[p] \in Seq(1 .. MaxBytes) /\ n \in 0 .. Len(wire[p])
        BY <1>1, <2>1 DEF Stream
      <3>2. read = piece /\ wire'[q] = rest /\ wire[q] = wire[p]
        BY <1>5, <2>1
      <3>3. /\ Ascending(piece) /\ Ascending(rest) /\ Precedes(piece, rest)
            /\ \A i \in DOMAIN piece : \E j \in DOMAIN wire[p] : piece[i] = wire[p][j]
            /\ \A i \in DOMAIN rest : \E j \in DOMAIN wire[p] : rest[i] = wire[p][j]
        BY <3>1, CutInOrder
      <3> HIDE DEF piece, rest, read
      <3>. QED  BY <3>2, <3>3
    <2>2. CASE q # p
      <3>1. read = <<>> /\ wire'[q] = wire[q] /\ DOMAIN read = {}
        BY <1>5, <2>2
      <3>. QED  BY <3>1, NoBytes DEF Stream, StreamOf
    <2>. QED  BY <2>1, <2>2
  <1> HIDE DEF piece, rest, read
  <1>7. \A m \in 1 .. Len(content) :
          Precedes(BytesOf(q, m), read) /\ Precedes(BytesOf(q, m), wire'[q])
    BY <1>3, <1>6, PrecedesPart DEF Stream, StreamOf
  <1>8. /\ \A i \in DOMAIN read : read[i] <= sent'[q]
        /\ \A i \in DOMAIN wire'[q] : wire'[q][i] <= sent'[q]
    BY <1>1, <1>6 DEF Stream, StreamOf
  <1>9. ASSUME NEW m \in 1 .. new  PROVE StreamOf(q, m)'
    <2>. USE DEF StreamOf
    <2>1. CASE m = new
      <3>1. \A k \in 1 .. new : ~(m < k)
        BY <1>3, <2>1
      <3>. QED  BY <1>3, <1>4, <1>6, <1>8, <2>1, <3>1
    <2>2. CASE m \in 1 .. Len(content)
      <3>1. ASSUME NEW k \in 1 .. new, m < k  PROVE Precedes(BytesOf(q, m), BytesOf(q, k)')
        <4>1. CASE k = new
          BY <1>4, <1>7, <2>2, <4>1
        <4>2. CASE k \in 1 .. Len(content)
          BY <1>3, <1>4, <2>2, <3>1, <4>2 DEF Stream, StreamOf
        <4>. QED  BY <1>3, <4>1, <4>2
      <3>2. StreamOf(q, m)
        BY <1>3, <2>2 DEF Stream, StreamOf
      <3>. QED  BY <1>1, <1>3, <1>4, <1>7, <2>2, <3>1, <3>2
    <2>. QED  BY <1>3, <2>1, <2>2
  <1>. QED  BY <1>3, <1>6, <1>8, <1>9 DEF Stream, StreamOf

LEMMA StepStreams ==
  ASSUME Server, Streams, [Next]_vars
  PROVE  Streams'
  <1>. SUFFICES ASSUME NEW q \in Peers  PROVE Stream(q)'
    BY DEF Streams
  <1>0. Stream(q)
    BY DEF Streams
  <1>1. CASE UNCHANGED <<content, wire, sent>>
    BY <1>0, <1>1, SameStream
  <1>2. ASSUME NEW p \in Peers, NEW n \in 1 .. MaxBytes, Read(p, n)  PROVE Stream(q)'
    BY <1>0, <1>2, ReadStream
  <1>3. ASSUME NEW p \in Peers, Send(p) \/ Leave(p)  PROVE Stream(q)'
    <2>1. CASE p = q
      BY <1>0, <1>3, <2>1, SendStream, LeaveStream
    <2>2. CASE p # q
      <3>1. content' = content /\ wire'[q] = wire[q] /\ sent'[q] = sent[q]
        BY <1>3, <2>2 DEF Send, Leave, Server, TypeOK
      <3>. QED  BY <1>0, <3>1, SameStream
    <2>. QED  BY <2>1, <2>2
  <1>4. \/ UNCHANGED <<content, wire, sent>>
        \/ \E p \in Peers : \/ \E n \in 1 .. MaxBytes : Read(p, n)
                            \/ Send(p) \/ Leave(p)
    BY DEF vars, net, Next, SetUp, StartServer, CloseAcceptor, StopIo, Destroy, RunReturns,
           AcceptHandler, Accept, AcceptReset, AcceptFailed, ReadHandler, ReadEof,
           ReadReset, Connect, GetMessage
  <1>. QED  BY <1>1, <1>2, <1>3, <1>4
-----------------------------------------------------------------------------
LEMMA InitIInv == Init => IInv
  <1>1. Init => MessageOrTaker
    BY DEF Init, Queue!Init, MessageOrTaker
  <1>2. Init => MQ!IInv
    BY QueueInit DEF Init
  <1>. QED  BY <1>1, <1>2, InitServer, InitStreams DEF IInv

LEMMA StepIInv == IInv /\ [Next]_vars => IInv'
  <1>. SUFFICES ASSUME IInv, [Next]_vars  PROVE IInv'
    OBVIOUS
  <1>1. MQ!IInv'
    BY UsesQueue, QueueStep DEF IInv
  <1>2. Queue!TypeOK /\ Queue!TypeOK'
    <2>1. MQ!IInv' => Queue!TypeOK'
      BY DEF MQ!IInv, MQ!Types, MQ!CountMatchesQueue, Queue!TypeOK, Queue!Types,
             Queue!CountMatchesQueue
    <2>. QED  BY <1>1, <2>1, QueueTypes DEF IInv
  <1>3. MessageOrTaker'
    BY <1>2, StepMessageOrTaker DEF IInv, MessageOrTaker
  <1>4. Server'
    <2>. USE <1>2 DEF IInv
    <2>1. CASE UNCHANGED vars
      BY <2>1 DEF vars, net, queueVars, Server, TypeOK, Chain, HandlersArmed
    <2>2. ASSUME ~terminated, SetUp \/ StartServer \/ CloseAcceptor \/ StopIo \/ RunReturns
          PROVE  Server'
      BY <2>2, OwnerServer
    <2>3. CASE Destroy
      BY <2>3, DestroyServer
    <2>4. ASSUME ~terminated, AcceptHandler  PROVE Server'
      BY <2>4, OwnerServer, AcceptServer, ResetServer DEF AcceptHandler
    <2>5. ASSUME ~terminated, NEW p \in Peers, ReadHandler(p)  PROVE Server'
      BY <2>5, ReadServer, ReadEofServer, ResetServer DEF ReadHandler
    <2>6. ASSUME NEW u \in Users, GetMessage(u)  PROVE Server'
      BY <2>6, GetServer
    <2>7. ASSUME NEW p \in Peers, Connect(p) \/ Send(p) \/ Leave(p)  PROVE Server'
      BY <2>7, PeerServer
    <2>. QED  BY <2>1, <2>2, <2>3, <2>4, <2>5, <2>6, <2>7 DEF Next
  <1>5. Streams'
    BY StepStreams DEF IInv
  <1>. QED  BY <1>1, <1>3, <1>4, <1>5 DEF IInv

\* The inductive invariant holds of every behaviour of the server.
THEOREM Invariance == Spec => []IInv
  BY InitIInv, StepIInv, PTL DEF Spec

\* Every variable stays in its type; no client is registered twice, and there
\* is one push for every read that brought data.
THEOREM TypeCorrect == Spec => []TypeOK
  BY Invariance, PTL DEF IInv, Server

\* The chain of handlers is never broken while the io thread runs: every open
\* client is being read, and a listening acceptor has an accept pending.
THEOREM HandlersCorrect == Spec => []HandlersArmed
  BY Invariance, PTL DEF IInv, Server

\* However many users race between empty() and pop() of GetMessage, they are
\* never all blocked there; a single user never is.
THEOREM GetMessageCorrect == Spec => []NotAllBlocked
  <1>1. IInv => NotAllBlocked
    <2>. SUFFICES ASSUME IInv, Users # {}, asleep = Users  PROVE FALSE
      BY DEF NotAllBlocked
    <2>1. \A u \in Users : pc[u] = "popping"
      BY DEF IInv, MQ!IInv, MQ!Types
    <2>2. queue_ # <<>>
      BY <2>1 DEF IInv, MessageOrTaker
    <2>. QED  BY <2>2, MQ!AllAsleep, Amounts, FiniteUsers, ServerAssumption DEF IInv
  <1>. QED  BY <1>1, Invariance, PTL

\* What the queue gave out and what it holds, taken together, ascends.
LEMMA MessagesAscend ==
  ASSUME IInv
  PROVE  /\ popped \o queue_ \in Seq(1 .. Len(content))
         /\ Ascending(popped \o queue_)
  <1>1. /\ popped \in Seq(1 .. pushed) /\ queue_ \in Seq(1 .. pushed) /\ Len(content) = pushed
        /\ Ascending(queue_) /\ Ascending(popped)
        /\ \A i \in DOMAIN popped, j \in DOMAIN queue_ : popped[i] < queue_[j]
    BY DEF IInv, Server, TypeOK, Queue!TypeOK, Queue!Types, MQ!IInv, MQ!InOrder, MQ!Ascending,
           Ascending
  <1> DEFINE s == popped \o queue_
  <1>2. /\ s \in Seq(1 .. pushed) /\ Len(s) = Len(popped) + Len(queue_)
        /\ \A i \in 1 .. Len(popped) + Len(queue_) :
             s[i] = IF i <= Len(popped) THEN popped[i] ELSE queue_[i - Len(popped)]
    BY <1>1, ConcatProperties
  <1>3. /\ DOMAIN popped = 1 .. Len(popped) /\ DOMAIN queue_ = 1 .. Len(queue_)
        /\ Len(popped) \in Nat /\ Len(queue_) \in Nat
        /\ DOMAIN s = 1 .. Len(popped) + Len(queue_)
    BY <1>1, <1>2, LenProperties
  <1> HIDE DEF s
  <1>4. Ascending(s)
    <2>. SUFFICES ASSUME NEW i \in DOMAIN s, NEW j \in DOMAIN s, i < j  PROVE s[i] < s[j]
      BY DEF Ascending
    <2>1. CASE j <= Len(popped)
      BY <1>1, <1>2, <1>3, <2>1 DEF Ascending
    <2>2. CASE j > Len(popped)
      <3>. PICK l \in DOMAIN queue_ : l = j - Len(popped)
        BY <1>3, <2>2
      <3>1. s[j] = queue_[l]
        BY <1>2, <1>3, <2>2
      <3>2. CASE i <= Len(popped)
        BY <1>1, <1>2, <1>3, <3>1, <3>2
      <3>3. CASE i > Len(popped)
        <4>. PICK k \in DOMAIN queue_ : k = i - Len(popped)
          BY <1>3, <3>3
        <4>1. s[i] = queue_[k] /\ k < l
          BY <1>2, <1>3, <3>3
        <4>. QED  BY <1>1, <3>1, <4>1 DEF Ascending
      <3>. QED  BY <1>3, <3>2, <3>3
    <2>. QED  BY <1>3, <2>1, <2>2
  <1>. QED  BY <1>1, <1>2, <1>4 DEF s

\* Whatever the pieces in which a stream is read, and whatever the queue
\* refuses, the users get the bytes of a peer in the order it sent them, none
\* twice, and before everything that is still queued or on the wire.
THEOREM BytesCorrect == Spec => []BytesInOrder
  <1>1. IInv => BytesInOrder
    <2>. SUFFICES ASSUME IInv  PROVE BytesInOrder
      OBVIOUS
    <2> DEFINE s == popped \o queue_
    <2>1. s \in Seq(1 .. Len(content)) /\ Ascending(s)
      BY MessagesAscend
    <2>2. \A k \in DOMAIN s : s[k] \in DOMAIN content
      <3>1. DOMAIN content = 1 .. Len(content)
        BY LenProperties DEF IInv, Server, Chain
      <3>. QED  BY <2>1, <3>1, LenProperties, ElementOfSeq
    <2>3. \A k, l \in DOMAIN s : k < l => s[k] < s[l]
      BY <2>1 DEF Ascending
    <2> HIDE DEF s
    <2>4. \A p \in Peers :
            /\ Ascending(wire[p])
            /\ \A k \in DOMAIN s :
                 /\ Ascending(BytesOf(p, s[k])) /\ Precedes(BytesOf(p, s[k]), wire[p])
                 /\ \A l \in DOMAIN s : k < l => Precedes(BytesOf(p, s[k]), BytesOf(p, s[l]))
      BY <2>2, <2>3 DEF IInv, Streams, Stream, StreamOf
    <2>. QED  BY <2>4 DEF BytesInOrder, s
  <1>. QED  BY <1>1, Invariance, PTL

\* The server uses its queue as the class specifies: what holds of every
\* MessageQueue holds of the server's.
THEOREM QueueUsed == Spec => Queue!Spec
  <1>1. Init => Queue!Init
    BY DEF Init
  <1>2. [Next]_vars => [Queue!Next]_(Queue!vars)
    BY UsesQueue DEF queueVars, Queue!vars
  <1>. QED  BY <1>1, <1>2, PTL DEF Spec, Queue!Spec
=============================================================================
