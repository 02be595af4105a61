--------------------------- MODULE AsyncTCPServer ----------------------------
(***************************************************************************)
(* Utils::TCP::AsyncTCPServer (Modules/TCP/src/Server.cpp) with the        *)
(* MessageQueue it fills.  One thread runs the io_context, so its handlers *)
(* run one after the other; each is a step.  The owner's thread creates,   *)
(* starts, closes and destroys the server, the user threads call           *)
(* GetMessage.  What peers and boost.asio do (connections, the bytes on    *)
(* their way, end of file, a reset connection) is external: it is modelled *)
(* by what the handlers are told.  SendData and RecData need a client      *)
(* pointer that the class never hands out; no caller can reach them.       *)
(*                                                                         *)
(* A message of the queue is the number of the push that brought it;       *)
(* content says what its data is: a piece of one peer's byte stream.       *)
(***************************************************************************)
EXTENDS Integers, Sequences, FiniteSets, SequencesExt

CONSTANTS
  Peers,            \* the peers that may connect, each once
  Users,            \* the threads that call GetMessage
  maxMessageCount,  \* limit of the queue (1024 in the code)
  Resets,           \* TRUE: a peer may reset its connection
  MaxBytes,         \* bound of the model: bytes per peer
  Brief             \* bound of the model: the peers that send one byte only

MaxPush == MaxBytes * Cardinality(Peers)

ASSUME ServerAssumption ==
  /\ IsFiniteSet(Peers) /\ IsFiniteSet(Users)
  /\ maxMessageCount \in Nat /\ Resets \in BOOLEAN /\ MaxBytes \in Nat

VARIABLES
  acceptor,     \* "none", "created", "bound", "listening" or "closed"
  accepting,    \* TRUE: an async_accept is pending
  io,           \* the io thread: "off", "running", "stopping" (it may still
                \* finish one handler) or "returned"
  peer,         \* a peer: "away", "up", "closed" its side, or "reset"
  socket,       \* its socket here: "none", "backlog", "open" or "closed"
  reading,      \* the peers with a pending async_read_some
  clientsPtr,   \* the accepted clients, in order
  wire,         \* the bytes of each peer that were sent and not read
  sent,         \* history: how many bytes each peer sent
  content,      \* history: what was pushed, in order
  terminated    \* an exception left a thread, or a joinable thread died

VARIABLES coverageMode, queue_, currentMessageCount, pc, asleep, pushed, popped

Queue == INSTANCE MessageQueue WITH Consumers <- Users

queueVars == <<coverageMode, queue_, currentMessageCount, pc, asleep, pushed, popped>>
net == <<peer, socket, wire, sent>>
vars == <<acceptor, accepting, io, net, reading, clientsPtr, content, terminated, queueVars>>

Init ==
  /\ acceptor = "none" /\ accepting = FALSE /\ io = "off"
  /\ peer = [p \in Peers |-> "away"] /\ socket = [p \in Peers |-> "none"]
  /\ reading = {} /\ clientsPtr = <<>>
  /\ wire = [p \in Peers |-> <<>>] /\ sent = [p \in Peers |-> 0]
  /\ content = <<>> /\ terminated = FALSE
  /\ Queue!Init /\ ~coverageMode
-----------------------------------------------------------------------------
(* The owner's thread. *)

\* CreateServer, BindPort and ListenServer, in the order in which they work.
\* When one of them fails the owner gives up.
SetUp ==
  /\ \/ acceptor = "none" /\ acceptor' = "created"
     \/ acceptor = "created" /\ acceptor' = "bound"
     \/ acceptor = "bound" /\ acceptor' = "listening"
  /\ UNCHANGED <<accepting, io, net, reading, clientsPtr, content, terminated, queueVars>>

\* DoAccept, in the thread that calls it.
DoAccept == accepting' = (acceptor \in {"bound", "listening"})

StartServer ==
  /\ acceptor = "listening" /\ io = "off"
  /\ DoAccept
  /\ io' = "running"
  /\ UNCHANGED <<acceptor, net, reading, clientsPtr, content, terminated, queueVars>>

\* CloseServer is two steps for the io thread.
CloseAcceptor ==
  /\ acceptor = "listening" /\ io # "off"
  /\ acceptor' = "closed"
  /\ UNCHANGED <<accepting, io, net, reading, clientsPtr, content, terminated, queueVars>>

StopIo ==
  /\ acceptor = "closed" /\ io \in {"running", "returned"}
  /\ io' = IF io = "running" THEN "stopping" ELSE io
  /\ UNCHANGED <<acceptor, accepting, net, reading, clientsPtr, content, terminated,
                 queueVars>>

\* The destructor after CloseServer.  serverThread was never joined: the
\* destructor of the std::thread ends the program, unless shutdown of a reset
\* connection has thrown before.
Destroy ==
  /\ io \in {"stopping", "returned"}
  /\ terminated' = TRUE
  /\ socket' = [p \in Peers |-> IF Contains(clientsPtr, p) THEN "closed" ELSE socket[p]]
  /\ UNCHANGED <<acceptor, accepting, io, peer, wire, sent, reading, clientsPtr, content,
                 queueVars>>
-----------------------------------------------------------------------------
(* The io thread. *)

\* After a stop, run() returns with the handler that is being executed.
RunsHandler == io \in {"running", "stopping"} /\ io' = (IF io = "running" THEN io ELSE "returned")

\* run() also returns when nothing is pending.
RunReturns ==
  /\ io = "stopping" \/ (io = "running" /\ ~accepting /\ reading = {})
  /\ io' = "returned"
  /\ UNCHANGED <<acceptor, accepting, net, reading, clientsPtr, content, terminated,
                 queueVars>>

\* Slip: no further connection is accepted.
AcceptOne(p) ==
  /\ RunsHandler /\ accepting
  /\ socket[p] = "backlog" /\ peer[p] # "reset"
  /\ accepting' = FALSE
  /\ socket' = [socket EXCEPT ![p] = "open"]
  /\ clientsPtr' = Append(clientsPtr, p)
  /\ reading' = reading \cup {p}
  /\ UNCHANGED <<acceptor, peer, wire, sent, content, terminated, queueVars>>

\* Slip: the client is registered where it is accepted and where it is read.
AcceptTwice(p) ==
  /\ RunsHandler /\ accepting
  /\ socket[p] = "backlog" /\ peer[p] # "reset"
  /\ socket' = [socket EXCEPT ![p] = "open"]
  /\ clientsPtr' = clientsPtr \o <<p, p>>
  /\ reading' = reading \cup {p}
  /\ DoAccept
  /\ UNCHANGED <<acceptor, peer, wire, sent, content, terminated, queueVars>>

\* The accept handler; remote_endpoint() throws if the peer has gone already.
Accept(p) ==
  /\ RunsHandler /\ accepting
  /\ socket[p] = "backlog" /\ peer[p] # "reset"
  /\ socket' = [socket EXCEPT ![p] = "open"]
  /\ clientsPtr' = Append(clientsPtr, p)
  /\ reading' = reading \cup {p}
  /\ DoAccept
  /\ UNCHANGED <<acceptor, peer, wire, sent, content, terminated, queueVars>>

AcceptReset(p) ==
  /\ RunsHandler /\ accepting
  /\ socket[p] = "backlog" /\ peer[p] = "reset"
  /\ terminated' = TRUE
  /\ UNCHANGED <<acceptor, accepting, net, reading, clientsPtr, content, queueVars>>

\* The accept handler with an error, as when the acceptor has been closed or
\* no descriptor is left: an open acceptor accepts again.
AcceptFailed ==
  /\ RunsHandler /\ accepting
  /\ DoAccept
  /\ UNCHANGED <<acceptor, net, reading, clientsPtr, content, terminated, queueVars>>

\* Slip: the read is not started again after the data was pushed.
ReadOnce(p, n) ==
  /\ RunsHandler /\ p \in reading
  /\ n \in 1 .. Len(wire[p])
  /\ content' = Append(content, [from |-> p, data |-> SubSeq(wire[p], 1, n)])
  /\ wire' = [wire EXCEPT ![p] = SubSeq(@, n + 1, Len(@))]
  /\ reading' = reading \ {p}
  /\ Queue!Push
  /\ UNCHANGED <<acceptor, accepting, peer, socket, sent, clientsPtr, terminated>>

\* Slip: the data is one byte longer than what was transferred.
ReadBeyond(p, n) ==
  /\ RunsHandler /\ p \in reading
  /\ n \in 1 .. Len(wire[p])
  /\ content' = Append(content, [from |-> p,
                                 data |-> SubSeq(Append(wire[p], wire[p][1]), 1, n + 1)])
  /\ wire' = [wire EXCEPT ![p] = SubSeq(@, n + 1, Len(@))]
  /\ Queue!Push
  /\ UNCHANGED <<acceptor, accepting, peer, socket, sent, reading, clientsPtr, terminated>>

\* The read handler with data: any number of the bytes that are there.
Read(p, n) ==
  /\ RunsHandler /\ p \in reading
  /\ n \in 1 .. Len(wire[p])
  /\ content' = Append(content, [from |-> p, data |-> SubSeq(wire[p], 1, n)])
  /\ wire' = [wire EXCEPT ![p] = SubSeq(@, n + 1, Len(@))]
  /\ Queue!Push
  /\ UNCHANGED <<acceptor, accepting, peer, socket, sent, reading, clientsPtr, terminated>>

\* The read handler at the end of file: CloseClient.
ReadEof(p) ==
  /\ RunsHandler /\ p \in reading /\ peer[p] = "closed" /\ wire[p] = <<>>
  /\ reading' = reading \ {p}
  /\ socket' = [socket EXCEPT ![p] = "closed"]
  /\ UNCHANGED <<acceptor, accepting, peer, wire, sent, clientsPtr, content, terminated,
                 queueVars>>

\* The read handler after a reset: shutdown() throws in CloseClient.
ReadReset(p) ==
  /\ RunsHandler /\ p \in reading /\ peer[p] = "reset" /\ wire[p] = <<>>
  /\ terminated' = TRUE
  /\ UNCHANGED <<acceptor, accepting, net, reading, clientsPtr, content, queueVars>>
-----------------------------------------------------------------------------
(* The user threads: GetMessage. *)

\* Slip: pop without a look at the queue.
GetUnpolled(u) ==
  /\ Queue!Poll(u) \/ Queue!Pop(u) \/ Queue!Resume(u) \/ Queue!SpuriousWakeup(u)
  /\ UNCHANGED <<acceptor, accepting, io, net, reading, clientsPtr, content, terminated>>

\* empty() says there is a message, then pop().
GetMessage(u) ==
  /\ \/ Queue!Poll(u)
     \/ pc[u] = "polled" /\ Queue!Pop(u)
     \/ Queue!Resume(u) \/ Queue!SpuriousWakeup(u)
  /\ UNCHANGED <<acceptor, accepting, io, net, reading, clientsPtr, content, terminated>>
-----------------------------------------------------------------------------
(* The peers. *)

Connect(p) ==
  /\ acceptor = "listening" /\ peer[p] = "away"
  /\ peer' = [peer EXCEPT ![p] = "up"]
  /\ socket' = [socket EXCEPT ![p] = "backlog"]
  /\ UNCHANGED <<acceptor, accepting, io, wire, sent, reading, clientsPtr, content,
                 terminated, queueVars>>

Send(p) ==
  /\ peer[p] = "up" /\ sent[p] < MaxBytes
  /\ p \in Brief => sent[p] = 0
  /\ sent' = [sent EXCEPT ![p] = @ + 1]
  /\ wire' = [wire EXCEPT ![p] = Append(@, sent'[p])]
  /\ UNCHANGED <<acceptor, accepting, io, peer, socket, reading, clientsPtr, content,
                 terminated, queueVars>>

\* An orderly end, or a reset, before which the last bytes may get lost.
Leave(p) ==
  /\ peer[p] = "up"
  /\ \/ peer' = [peer EXCEPT ![p] = "closed"] /\ UNCHANGED wire
     \/ /\ Resets /\ peer' = [peer EXCEPT ![p] = "reset"]
        /\ \E n \in 0 .. Len(wire[p]) : wire' = [wire EXCEPT ![p] = SubSeq(@, 1, n)]
  /\ UNCHANGED <<acceptor, accepting, io, socket, sent, reading, clientsPtr, content,
                 terminated, queueVars>>

AcceptHandler == AcceptFailed \/ \E p \in Peers : Accept(p) \/ AcceptReset(p)
ReadHandler(p) == (\E n \in 1 .. MaxBytes : Read(p, n)) \/ ReadEof(p) \/ ReadReset(p)

Next ==
  /\ ~terminated
  /\ \/ SetUp \/ StartServer \/ CloseAcceptor \/ StopIo \/ Destroy
     \/ RunReturns \/ AcceptHandler \/ \E p \in Peers : ReadHandler(p)
     \/ \E u \in Users : GetMessage(u)
     \/ \E p \in Peers : Connect(p) \/ Send(p) \/ Leave(p)

Spec == Init /\ [][Next]_vars

\* The io thread runs the handlers of events that have happened, of each
\* socket in turn.  An accept that fails is tried again, and does not fail for
\* ever: the fairness of the handler speaks of the steps that change something.
FairSpec ==
  /\ Spec
  /\ WF_vars(~terminated /\ AcceptHandler)
  /\ \A p \in Peers : WF_vars(~terminated /\ ReadHandler(p))
-----------------------------------------------------------------------------
TypeOK ==
  /\ acceptor \in {"none", "created", "bound", "listening", "closed"}
  /\ accepting \in BOOLEAN /\ terminated \in BOOLEAN
  /\ io \in {"off", "running", "stopping", "returned"}
  /\ peer \in [Peers -> {"away", "up", "closed", "reset"}]
  /\ socket \in [Peers -> {"none", "backlog", "open", "closed"}]
  /\ reading \subseteq Peers
  /\ clientsPtr \in Seq(Peers) /\ IsInjective(clientsPtr)
  /\ sent \in [Peers -> 0 .. MaxBytes] /\ wire \in [Peers -> Seq(1 .. MaxBytes)]
  /\ Len(content) = pushed
  /\ Queue!TypeOK

\* The bytes of a peer in a message.
BytesOf(p, m) == IF content[m].from = p THEN content[m].data ELSE <<>>

Ascending(s) == \A i, j \in DOMAIN s : i < j => s[i] < s[j]
Precedes(s, t) == \A i \in DOMAIN s, j \in DOMAIN t : s[i] < t[j]

\* The users get the bytes of a peer in the order it sent them, none twice and
\* none that is still in the queue or on the wire: pieces may be cut and
\* joined at will, and refused by a full queue, but never reordered.
BytesInOrder ==
  LET messages == popped \o queue_
  IN  \A p \in Peers :
        /\ Ascending(wire[p])
        /\ \A k \in DOMAIN messages :
             /\ Ascending(BytesOf(p, messages[k]))
             /\ Precedes(BytesOf(p, messages[k]), wire[p])
             /\ \A l \in DOMAIN messages :
                  k < l => Precedes(BytesOf(p, messages[k]), BytesOf(p, messages[l]))

\* While the io thread runs, it has one read pending on every open client and
\* on no other, and a pending accept while the acceptor is open.
HandlersArmed ==
  io = "running" =>
    /\ \A p \in Peers : p \in reading <=> socket[p] = "open" /\ Contains(clientsPtr, p)
    /\ acceptor = "listening" => accepting

\* GetMessage asks empty() and then calls pop(), and another user may take the
\* message in between.  However many race for it, they are never all blocked
\* in pop: somebody got the message.  A single user is never blocked.
NotAllBlocked == Users # {} => asleep # Users

\* GetMessage returns: no user is ever blocked in pop.
GetMessageReturns == \A u \in Users : pc[u] # "popping"

\* While the server runs, every peer that connects is accepted, and what an
\* accepted peer sent is read, in spite of the other peers.
EveryPeerServed ==
  LET Ended == io # "running" \/ acceptor = "closed" \/ terminated
  IN  \A p \in Peers :
        /\ (socket[p] = "backlog" /\ ~Ended) ~> (socket[p] # "backlog" \/ Ended)
        /\ (wire[p] # <<>> /\ ~Ended) ~> (wire[p] = <<>> \/ Ended)

\* Closing and destroying the server, as the test program does at its end,
\* does not end in std::terminate.
CleanEnd == ~terminated
=============================================================================
