--------------------------- MODULE SingleTCPProofs ----------------------------
(***************************************************************************)
(* For any clients and message lengths: however the stream is cut into     *)
(* calls of RecData, and whichever clients came before, the server reads a *)
(* beginning of what the client sent, and serves one client at a time.     *)
(***************************************************************************)
EXTENDS SingleTCP, SequenceTheorems, TLAPS

\* What the two programs know of each other: the server is past its accept
\* just while it has a client; a client is connected while it talks, and only
\* one that has closed its socket is reset.
InTouch ==
  /\ server \in {"receive", "answer", "close"} <=> clientPtr # Nobody
  /\ \A c \in Clients :
       /\ client[c] = "connect" => link[c] = "none"
       /\ serverSocketPtr[c] = "closed" => client[c] = "done"
       /\ reset[c] # "no" => serverSocketPtr[c] = "closed"

\* The inductive invariant.
IInv == TypeOK /\ InTouch /\ StreamIntact

Iota(n) == [i \in 1 .. n |-> i]
-----------------------------------------------------------------------------
LEMMA IotaSeq ==
  ASSUME NEW n \in Nat
  PROVE  Iota(n) \in Seq(Int) /\ Len(Iota(n)) = n
  BY DEF Iota

\* Moving the first n elements of u to the end of r changes nothing in all.
LEMMA Cut ==
  \A S : \A r, u \in Seq(S) : \A n \in 1 .. Len(u) :
    /\ SubSeq(u, 1, n) \in Seq(S) /\ SubSeq(u, n + 1, Len(u)) \in Seq(S)
    /\ r \o SubSeq(u, 1, n) \in Seq(S)
    /\ (r \o SubSeq(u, 1, n)) \o SubSeq(u, n + 1, Len(u)) = r \o u
  <1>. TAKE S
  <1>. TAKE r, u \in Seq(S)
  <1>. TAKE n \in 1 .. Len(u)
  <1>. DEFINE a == SubSeq(u, 1, n)
              b == SubSeq(u, n + 1, Len(u))
  <1>1. Len(u) \in Nat /\ \A i \in 1 .. Len(u) : u[i] \in S
    BY LenProperties, ElementOfSeq
  <1>2. SubSeq(u, 1, n) \in Seq(S) /\ SubSeq(u, n + 1, Len(u)) \in Seq(S)
    BY <1>1, SubSeqProperties
  <1>3. SubSeq(u, 1, n) \o SubSeq(u, n + 1, Len(u)) = u
    <2>1. SubSeq(u, 1, n) \o SubSeq(u, n + 1, Len(u)) = SubSeq(u, 1, Len(u))
      BY <1>1, ConcatAdjacentSubSeq
    <2>. QED  BY <2>1, SubSeqFull
  <1>4. a \in Seq(S) /\ b \in Seq(S)
    BY <1>2
  <1>8. a \o b = u
    BY <1>3
  <1>. HIDE DEF a, b
  <1>5. r \o a \in Seq(S)
    BY <1>4, ConcatProperties
  <1>6. (r \o a) \o b = r \o (a \o b)
    BY <1>4, ConcatAssociative, SMTT(60)
  <1>7. (r \o a) \o b = r \o u
    BY <1>8, <1>6, Zenon
  <1>. QED  BY <1>4, <1>5, <1>7, Zenon DEF a, b

\* Without its last elements a stream is still counted from 1.
LEMMA Prefix ==
  \A S \in SUBSET Int : \A r, u \in Seq(S) : \A n \in 0 .. Len(u) :
    r \o u = Iota(Len(r \o u))
      => /\ SubSeq(u, 1, n) \in Seq(S)
         /\ r \o SubSeq(u, 1, n) = Iota(Len(r \o SubSeq(u, 1, n)))
  <1>. TAKE S \in SUBSET Int
  <1>. TAKE r, u \in Seq(S)
  <1>. TAKE n \in 0 .. Len(u)
  <1>. HAVE r \o u = Iota(Len(r \o u))
  <1>. DEFINE v == SubSeq(u, 1, n)
  <1>1. /\ Len(u) \in Nat /\ Len(r) \in Nat /\ n \in Nat
        /\ \A i \in 1 .. Len(u) : u[i] \in S
    BY LenProperties, ElementOfSeq
  <1>2. v \in Seq(S) /\ Len(v) = n /\ \A i \in 1 .. n : v[i] = u[i]
    BY <1>1, SubSeqProperties
  <1>. HIDE DEF v
  <1>3. /\ r \o v \in Seq(S) /\ Len(r \o v) = Len(r) + n
        /\ \A i \in 1 .. Len(r) + n : (r \o v)[i] = IF i <= Len(r) THEN r[i] ELSE v[i - Len(r)]
    BY <1>2, ConcatProperties
  <1>4. /\ Len(r \o u) = Len(r) + Len(u)
        /\ \A i \in 1 .. Len(r) + Len(u) : (r \o u)[i] = IF i <= Len(r) THEN r[i] ELSE u[i - Len(r)]
    BY ConcatProperties
  <1>5. ASSUME NEW i \in 1 .. Len(r) + n  PROVE (r \o v)[i] = i
    <2>1. i \in 1 .. Len(r) + Len(u)
      BY <1>1
    <2>2. (r \o u)[i] = i
      BY <1>1, <1>4, <2>1 DEF Iota
    <2>3. i > Len(r) => i - Len(r) \in 1 .. n
      BY <1>1
    <2>. QED  BY <1>1, <1>2, <1>3, <1>4, <2>1, <2>2, <2>3
  <1>6. r \o v \in Seq(Int)
    BY <1>3, SeqMonotonic
  <1>7. r \o v = Iota(Len(r) + n)
    <2>1. Len(r) + n \in Nat
      BY <1>1
    <2>2. \A i \in 1 .. Len(r) + n : Iota(Len(r) + n)[i] = i
      BY <2>1 DEF Iota
    <2>. QED  BY <1>3, <1>5, <1>6, <2>1, <2>2, IotaSeq, SeqEqual
  <1>. QED  BY <1>2, <1>3, <1>7 DEF v

\* What is sent goes on counting where the stream ended.
LEMMA Extend ==
  \A S \in SUBSET Int : \A b, d \in Seq(S) :
    b = Iota(Len(b)) /\ d = [i \in 1 .. Len(d) |-> Len(b) + i]
      => b \o d = Iota(Len(b) + Len(d)) /\ Len(b \o d) = Len(b) + Len(d)
  <1>. TAKE S \in SUBSET Int
  <1>. TAKE b, d \in Seq(S)
  <1>. HAVE b = Iota(Len(b)) /\ d = [i \in 1 .. Len(d) |-> Len(b) + i]
  <1>1. /\ b \o d \in Seq(S) /\ Len(b \o d) = Len(b) + Len(d)
        /\ \A i \in 1 .. Len(b) + Len(d) :
             (b \o d)[i] = IF i <= Len(b) THEN b[i] ELSE d[i - Len(b)]
        /\ Len(b) \in Nat /\ Len(d) \in Nat
    BY ConcatProperties, LenProperties
  <1>2. ASSUME NEW i \in 1 .. Len(b) + Len(d)  PROVE (b \o d)[i] = i
    <2>1. CASE i <= Len(b)
      BY <1>1, <2>1 DEF Iota
    <2>2. CASE i > Len(b)
      <3>1. i - Len(b) \in 1 .. Len(d)
        BY <1>1, <2>2
      <3>2. d[i - Len(b)] = Len(b) + (i - Len(b))
        BY <3>1
      <3>3. (b \o d)[i] = d[i - Len(b)]
        BY <1>1, <2>2
      <3>. QED  BY <1>1, <3>2, <3>3
    <2>. QED  BY <1>1, <2>1, <2>2
  <1>3. b \o d \in Seq(Int)
    BY <1>1, SeqMonotonic
  <1>4. Len(b) + Len(d) \in Nat /\ \A i \in 1 .. Len(b) + Len(d) : Iota(Len(b) + Len(d))[i] = i
    BY <1>1 DEF Iota
  <1>. QED  BY <1>1, <1>2, <1>3, <1>4, IotaSeq, SeqEqual

LEMMA Joined ==
  ASSUME NEW S, NEW r \in Seq(S), NEW u \in Seq(S), NEW d \in Seq(S)
  PROVE  (r \o u) \o d = r \o (u \o d) /\ u \o d \in Seq(S) /\ r \o u \in Seq(S)
  BY ConcatAssociative, ConcatProperties
-----------------------------------------------------------------------------
LEMMA InitIInv == Init => IInv
  <1>. SUFFICES ASSUME Init  PROVE IInv
    OBVIOUS
  <1>1. TypeOK
    <2>1. \A S : <<>> \in Seq(S)
      OBVIOUS
    <2>2. /\ up \in [Clients -> Seq(1 .. MaxBytes)] /\ received \in [Clients -> Seq(1 .. MaxBytes)]
          /\ down \in [Clients -> Seq(Nat)]
      BY <2>1 DEF Init
    <2>3. /\ client \in [Clients -> {"connect", "send", "receive", "done"}]
          /\ serverSocketPtr \in [Clients -> {"none", "open", "closed"}]
          /\ link \in [Clients -> {"none", "backlog", "accepted", "closed"}]
          /\ reset \in [Clients -> {"no", "coming", "here"}]
          /\ sent \in [Clients -> 0 .. MaxBytes] /\ answered \in [Clients -> Nat]
      BY SingleAssumption DEF Init
    <2>4. \A c \in Clients : clientPtr # c /\ link[c] # "accepted"
      BY SingleAssumption DEF Init
    <2>. QED  BY <2>2, <2>3, <2>4 DEF Init, TypeOK
  <1>3. InTouch
    BY DEF Init, InTouch
  <1>2. StreamIntact
    BY ConcatEmptySeq, EmptySeq DEF Init, StreamIntact, Bytes
  <1>. QED  BY <1>1, <1>2, <1>3 DEF IInv

\* The steps that leave every stream as it is.
LEMMA StreamKept ==
  ASSUME StreamIntact, UNCHANGED <<received, up, sent>>,
         \A c \in Clients : reset'[c] # "here" => reset[c] # "here"
  PROVE  StreamIntact'
  BY DEF StreamIntact, Bytes

LEMMA ServerStepIInv ==
  ASSUME IInv, NEW c \in Clients,
         \/ CreateServer \/ BindPort \/ ListenServer \/ AcceptClient(c) \/ ReceiveEnd(c)
         \/ SendData(c) \/ CloseClient(c)
  PROVE  IInv'
  <1>. USE DEF IInv, TypeOK, InTouch
  <1>1. CASE CreateServer \/ BindPort \/ ListenServer
    <2>1. TypeOK' /\ InTouch'
      BY <1>1 DEF CreateServer, BindPort, ListenServer, clientVars
    <2>. QED  BY <1>1, <2>1, StreamKept DEF CreateServer, BindPort, ListenServer, clientVars
  <1>2. CASE AcceptClient(c)
    <2>1. TypeOK' /\ InTouch'
      BY <1>2, SingleAssumption DEF AcceptClient, clientVars
    <2>. QED  BY <1>2, <2>1, StreamKept DEF AcceptClient, clientVars
  <1>3. CASE ReceiveEnd(c)
    <2>1. TypeOK' /\ InTouch'
      BY <1>3 DEF ReceiveEnd, clientVars
    <2>. QED  BY <1>3, <2>1, StreamKept DEF ReceiveEnd, clientVars
  <1>4. CASE SendData(c)
    <2>1. down' \in [Clients -> Seq(Nat)] /\ answered' \in [Clients -> Nat]
      <3>1. answered[c] + 1 \in Nat /\ down[c] \in Seq(Nat)
        OBVIOUS
      <3>2. Append(down[c], answered[c] + 1) \in Seq(Nat)
        BY <3>1, AppendProperties
      <3>3. CASE /\ answered' = [answered EXCEPT ![c] = @ + 1]
                 /\ down' = [down EXCEPT ![c] = Append(@, answered'[c])]
        <4>1. answered' \in [Clients -> Nat] /\ answered'[c] = answered[c] + 1
          BY <3>1, <3>3
        <4>. QED  BY <3>2, <3>3, <4>1
      <3>4. CASE UNCHANGED <<answered, down>>
        BY <3>4
      <3>. QED  BY <1>4, <3>3, <3>4 DEF SendData
    <2>2. /\ reset' \in [Clients -> {"no", "coming", "here"}]
          /\ \A d \in Clients : reset'[d] # reset[d] => d = c /\ serverSocketPtr[c] = "closed" /\ reset'[d] = "coming"
          /\ \A d \in Clients : reset'[d] # "here" => reset[d] # "here"
      BY <1>4 DEF SendData
    <2>3. /\ server' = "receive" /\ server = "answer" /\ clientPtr' = clientPtr
          /\ UNCHANGED <<acceptorPtr, terminated, received, clientVars, link, up>>
      BY <1>4 DEF SendData
    <2>4. TypeOK'
      BY <2>1, <2>2, <2>3 DEF clientVars
    <2>5. InTouch'
      BY <2>2, <2>3 DEF clientVars
    <2>. QED  BY <2>2, <2>3, <2>4, <2>5, StreamKept DEF clientVars
  <1>5. CASE CloseClient(c)
    <2>3. server = "close" /\ clientPtr = c /\ c # Nobody
      BY <1>5, SingleAssumption DEF CloseClient
    <2>2. ASSUME clientPtr' = Nobody, server' = "listen", link' = [link EXCEPT ![c] = "closed"],
                 UNCHANGED terminated
          PROVE  TypeOK' /\ InTouch'
      BY <1>5, <2>2, <2>3, SingleAssumption DEF CloseClient, clientVars
    <2>4. ASSUME terminated' = TRUE, UNCHANGED <<clientPtr, server, link>>
          PROVE  TypeOK' /\ InTouch'
      BY <1>5, <2>3, <2>4 DEF CloseClient, clientVars
    <2>1. TypeOK' /\ InTouch'
      BY <1>5, <2>2, <2>4 DEF CloseClient
    <2>. QED  BY <1>5, <2>1, StreamKept DEF CloseClient, clientVars
  <1>. QED  BY <1>1, <1>2, <1>3, <1>4, <1>5

LEMMA ReceiveIInv ==
  ASSUME IInv, NEW c \in Clients, NEW n \in 1 .. MaxBytes, Receive(c, n)
  PROVE  IInv'
  <1>. DEFINE r == received[c] \o SubSeq(up[c], 1, n)
              u == SubSeq(up[c], n + 1, Len(up[c]))
  <1>1. /\ n \in 1 .. Len(up[c]) /\ received' = [received EXCEPT ![c] = r]
        /\ up' = [up EXCEPT ![c] = u] /\ server = "receive" /\ server' = "answer"
        /\ UNCHANGED <<acceptorPtr, clientPtr, terminated, answered, clientVars, link, down, reset>>
    BY DEF Receive
  <1>2. /\ received[c] \in Seq(1 .. MaxBytes) /\ up[c] \in Seq(1 .. MaxBytes)
        /\ received \in [Clients -> Seq(1 .. MaxBytes)] /\ up \in [Clients -> Seq(1 .. MaxBytes)]
    BY DEF IInv, TypeOK
  <1>3. r \in Seq(1 .. MaxBytes) /\ u \in Seq(1 .. MaxBytes) /\ r \o u = received[c] \o up[c]
    <2>. DEFINE S == Seq(1 .. MaxBytes)
    <2>1. \A x, y \in S : \A k \in 1 .. Len(y) :
            /\ SubSeq(y, 1, k) \in S /\ SubSeq(y, k + 1, Len(y)) \in S
            /\ x \o SubSeq(y, 1, k) \in S
            /\ (x \o SubSeq(y, 1, k)) \o SubSeq(y, k + 1, Len(y)) = x \o y
      BY Cut, Zenon
    <2>2. received[c] \in S /\ up[c] \in S /\ n \in 1 .. Len(up[c])
      BY <1>1, <1>2
    <2>. HIDE DEF S
    <2>3. /\ u \in S /\ r \in S /\ r \o u = received[c] \o up[c]
      BY <2>1, <2>2, Zenon
    <2>. QED  BY <2>3 DEF S
  <1>. HIDE DEF r, u
  <1>4. TypeOK'
    BY <1>1, <1>2, <1>3 DEF IInv, TypeOK, clientVars
  <1>5. InTouch'
    BY <1>1 DEF IInv, InTouch, clientVars
  <1>6. \A d \in Clients : Bytes(d)' = Bytes(d)
    BY <1>1, <1>2, <1>3 DEF Bytes
  <1>7. StreamIntact'
    BY <1>1, <1>6 DEF IInv, StreamIntact, Bytes, clientVars
  <1>. QED  BY <1>4, <1>5, <1>7 DEF IInv

LEMMA SendIInv ==
  ASSUME IInv, NEW c \in Clients, NEW n \in 1 .. MaxLen, Send(c, n)
  PROVE  IInv'
  <1>. DEFINE u == up[c] \o [i \in 1 .. n |-> sent[c] + i]
  <1>1. /\ client[c] = "send" /\ client' = [client EXCEPT ![c] = "receive"]
        /\ UNCHANGED <<serverVars, serverSocketPtr, link, down, reset>>
        /\ n \in Nat /\ sent[c] \in Nat /\ sent[c] + n \in 0 .. MaxBytes /\ MaxBytes \in Nat
    BY SingleAssumption DEF Send, IInv, TypeOK
  <1>2. InTouch'
    BY <1>1 DEF IInv, TypeOK, InTouch, serverVars
  <1>3. CASE UNCHANGED <<sent, up>>
    <2>1. TypeOK'
      BY <1>1, <1>3 DEF IInv, TypeOK, serverVars
    <2>. QED  BY <1>1, <1>2, <1>3, <2>1, StreamKept DEF IInv, serverVars
  <1>4. CASE sent' = [sent EXCEPT ![c] = @ + n] /\ up' = [up EXCEPT ![c] = u]
    <2>1. /\ received[c] \in Seq(1 .. MaxBytes) /\ up[c] \in Seq(1 .. MaxBytes)
          /\ received \in [Clients -> Seq(1 .. MaxBytes)] /\ up \in [Clients -> Seq(1 .. MaxBytes)]
      BY DEF IInv, TypeOK
    <2>. DEFINE piece == [i \in 1 .. n |-> sent[c] + i]
    <2>2. Len(Bytes(c)) = sent[c] /\ Bytes(c) = Iota(sent[c])
      BY <1>1 DEF IInv, TypeOK, InTouch, StreamIntact, Iota
    <2>3. piece \in Seq(1 .. MaxBytes) /\ Len(piece) = n /\ 1 .. MaxBytes \in SUBSET Int
      BY <1>1
    <2>8. piece = [i \in 1 .. Len(piece) |-> Len(Bytes(c)) + i]
      BY <2>2, <2>3
    <2>. HIDE DEF piece
    <2>9. Bytes(c) \in Seq(1 .. MaxBytes) /\ up[c] \o piece \in Seq(1 .. MaxBytes)
      BY <2>1, <2>3, Joined DEF Bytes
    <2>10. Bytes(c) \o piece = received[c] \o (up[c] \o piece)
      BY <2>1, <2>3, Joined DEF Bytes
    <2>11. Bytes(c) \o piece = Iota(sent[c] + n) /\ Len(Bytes(c) \o piece) = sent[c] + n
      <3>1. Bytes(c) = Iota(Len(Bytes(c)))
        BY <2>2, Zenon
      <3>2. /\ Bytes(c) \o piece = Iota(Len(Bytes(c)) + Len(piece))
            /\ Len(Bytes(c) \o piece) = Len(Bytes(c)) + Len(piece)
        BY <3>1, <2>3, <2>8, <2>9, Extend, Zenon
      <3>. QED  BY <3>2, <2>2, <2>3, Zenon
    <2>4. /\ u \in Seq(1 .. MaxBytes) /\ received[c] \o u = Iota(sent[c] + n)
          /\ Len(received[c] \o u) = sent[c] + n
      <3>1. u = up[c] \o piece
        BY Zenon DEF piece
      <3>. HIDE DEF u
      <3>. QED  BY <2>9, <2>10, <2>11, <3>1, Zenon
    <2>. HIDE DEF u
    <2>5. TypeOK'
      BY <1>1, <1>4, <2>4 DEF IInv, TypeOK, serverVars
    <2>6. /\ Bytes(c)' = received[c] \o u /\ sent'[c] = sent[c] + n
          /\ \A d \in Clients : d # c => Bytes(d)' = Bytes(d) /\ sent'[d] = sent[d]
      BY <1>1, <1>4, <2>1 DEF Bytes, IInv, TypeOK, serverVars
    <2>7. StreamIntact'
      <3>1. ASSUME NEW d \in Clients
            PROVE  /\ Bytes(d)' = [i \in 1 .. Len(Bytes(d)') |-> i]
                   /\ reset'[d] # "here" => Len(Bytes(d)') = sent'[d]
        <4>1. CASE d = c
          BY <2>4, <2>6, <4>1 DEF Iota
        <4>2. CASE d # c
          BY <1>1, <2>6, <4>2 DEF IInv, StreamIntact, Bytes
        <4>. QED  BY <4>1, <4>2
      <3>. QED  BY <3>1 DEF StreamIntact, Bytes
    <2>. QED  BY <1>2, <2>5, <2>7 DEF IInv
  <1>. QED  BY <1>3, <1>4 DEF Send

LEMMA ResetIInv ==
  ASSUME IInv, NEW c \in Clients, ResetArrives(c)
  PROVE  IInv'
  <1>1. PICK n \in 0 .. Len(up[c]) : up' = [up EXCEPT ![c] = SubSeq(@, 1, n)]
    BY DEF ResetArrives
  <1>. DEFINE u == SubSeq(up[c], 1, n)
  <1>2. /\ reset[c] = "coming" /\ reset' = [reset EXCEPT ![c] = "here"]
        /\ up' = [up EXCEPT ![c] = u] /\ UNCHANGED <<serverVars, clientVars, link, down>>
    BY <1>1 DEF ResetArrives
  <1>3. /\ received[c] \in Seq(1 .. MaxBytes) /\ up[c] \in Seq(1 .. MaxBytes)
        /\ received \in [Clients -> Seq(1 .. MaxBytes)] /\ up \in [Clients -> Seq(1 .. MaxBytes)]
        /\ reset \in [Clients -> {"no", "coming", "here"}]
    BY DEF IInv, TypeOK
  <1>4. u \in Seq(1 .. MaxBytes) /\ received[c] \o u = Iota(Len(received[c] \o u))
    <2>1. received[c] \o up[c] = Iota(Len(received[c] \o up[c]))
      BY Zenon DEF IInv, StreamIntact, Bytes, Iota
    <2>2. 1 .. MaxBytes \in SUBSET Int
      OBVIOUS
    <2>. QED  BY <1>1, <1>3, <2>1, <2>2, Prefix, Zenon
  <1>. HIDE DEF u
  <1>5. TypeOK'
    BY <1>2, <1>3, <1>4 DEF IInv, TypeOK, serverVars, clientVars
  <1>6. InTouch'
    BY <1>2, <1>3 DEF IInv, InTouch, serverVars, clientVars
  <1>7. StreamIntact'
    <2>1. /\ Bytes(c)' = received[c] \o u /\ reset'[c] = "here"
          /\ \A d \in Clients : d # c => Bytes(d)' = Bytes(d) /\ reset'[d] = reset[d]
      BY <1>2, <1>3 DEF Bytes, serverVars
    <2>2. ASSUME NEW d \in Clients
          PROVE  /\ Bytes(d)' = [i \in 1 .. Len(Bytes(d)') |-> i]
                 /\ reset'[d] # "here" => Len(Bytes(d)') = sent'[d]
      <3>1. CASE d = c
        BY <1>4, <2>1, <3>1 DEF Iota
      <3>2. CASE d # c
        BY <1>2, <2>1, <3>2 DEF IInv, StreamIntact, Bytes, clientVars
      <3>. QED  BY <3>1, <3>2
    <2>. QED  BY <2>2 DEF StreamIntact, Bytes
  <1>. QED  BY <1>5, <1>6, <1>7 DEF IInv

LEMMA ClientStepIInv ==
  ASSUME IInv, NEW c \in Clients, ConnectToServer(c) \/ RecvData(c) \/ CloseConnection(c)
  PROVE  IInv'
  <1>. USE DEF IInv, TypeOK, InTouch
  <1>1. CASE ConnectToServer(c)
    <2>1. /\ client[c] = "connect" /\ link[c] = "none" /\ UNCHANGED <<serverVars, sent, up, down, reset>>
      BY <1>1 DEF ConnectToServer
    <2>2. ASSUME client' = [client EXCEPT ![c] = "send"], link' = [link EXCEPT ![c] = "backlog"],
                 serverSocketPtr' = [serverSocketPtr EXCEPT ![c] = "open"]
          PROVE  TypeOK' /\ InTouch'
      BY <2>1, <2>2 DEF serverVars
    <2>3. ASSUME client' = [client EXCEPT ![c] = "done"], UNCHANGED <<serverSocketPtr, link>>
          PROVE  TypeOK' /\ InTouch'
      BY <2>1, <2>3 DEF serverVars
    <2>. QED  BY <1>1, <2>1, <2>2, <2>3, StreamKept DEF ConnectToServer, serverVars
  <1>2. CASE RecvData(c)
    <2>1. /\ client[c] = "receive" /\ client' = [client EXCEPT ![c] = "send"]
          /\ UNCHANGED <<serverVars, serverSocketPtr, sent, link, up, reset>>
      BY <1>2 DEF RecvData
    <2>2. down' \in [Clients -> Seq(Nat)]
      <3>1. ASSUME NEW n \in 1 .. Len(down[c])  PROVE SubSeq(down[c], n + 1, Len(down[c])) \in Seq(Nat)
        BY Cut
      <3>. QED  BY <1>2, <3>1 DEF RecvData
    <2>3. TypeOK' /\ InTouch'
      BY <2>1, <2>2 DEF serverVars
    <2>. QED  BY <2>1, <2>3, StreamKept DEF serverVars
  <1>3. CASE CloseConnection(c)
    <2>1. /\ serverSocketPtr' = [serverSocketPtr EXCEPT ![c] = "closed"]
          /\ client' = [client EXCEPT ![c] = "done"] /\ down' = [down EXCEPT ![c] = <<>>]
          /\ serverSocketPtr[c] = "open" /\ UNCHANGED <<serverVars, sent, link, up>>
          /\ reset' = reset \/ reset' = [reset EXCEPT ![c] = "coming"]
      BY <1>3 DEF CloseConnection
    <2>2. down' \in [Clients -> Seq(Nat)]
      BY <2>1
    <2>3. TypeOK'
      BY <2>1, <2>2 DEF serverVars
    <2>4. InTouch'
      BY <2>1 DEF serverVars
    <2>5. \A d \in Clients : reset'[d] # "here" => reset[d] # "here"
      BY <2>1
    <2>. QED  BY <2>1, <2>3, <2>4, <2>5, StreamKept DEF serverVars
  <1>. QED  BY <1>1, <1>2, <1>3
-----------------------------------------------------------------------------
\* Every step preserves the invariant.
LEMMA StepIInv == IInv /\ [Next]_vars => IInv'
  <1>1. ASSUME IInv, ServerStep  PROVE IInv'
    <2>1. PICK c \in Clients \cup {Nobody} :
            \/ CreateServer \/ BindPort \/ ListenServer
            \/ c \in Clients /\ (AcceptClient(c) \/ RecData(c) \/ SendData(c) \/ CloseClient(c))
      BY <1>1 DEF ServerStep
    <2>2. CASE CreateServer \/ BindPort \/ ListenServer
      BY <1>1, <2>2, StreamKept
      DEF CreateServer, BindPort, ListenServer, clientVars, IInv, TypeOK, InTouch
    <2>3. CASE c \in Clients /\ (AcceptClient(c) \/ RecData(c) \/ SendData(c) \/ CloseClient(c))
      BY <1>1, <2>3, ServerStepIInv, ReceiveIInv DEF RecData
    <2>. QED  BY <2>1, <2>2, <2>3
  <1>2. ASSUME IInv, NEW c \in Clients,
               \/ ConnectToServer(c) \/ RecvData(c) \/ CloseConnection(c) \/ ResetArrives(c)
               \/ \E n \in 1 .. MaxLen : Send(c, n)
        PROVE  IInv'
    BY <1>2, ClientStepIInv, ResetIInv, SendIInv
  <1>3. ASSUME IInv, UNCHANGED vars  PROVE IInv'
    BY <1>3 DEF vars, serverVars, clientVars, IInv, TypeOK, InTouch, StreamIntact, Bytes
  <1>. QED  BY <1>1, <1>2, <1>3 DEF Next

THEOREM Invariance == Spec => []IInv
  BY InitIInv, StepIInv, PTL DEF Spec

\* The server holds the connection of the client it serves, and of no other.
THEOREM TypeCorrect == Spec => []TypeOK
  BY Invariance, PTL DEF IInv

\* RecData returns the client's bytes in order, none twice, and without a
\* reset none is lost.
THEOREM StreamCorrect == Spec => []StreamIntact
  BY Invariance, PTL DEF IInv
=============================================================================
