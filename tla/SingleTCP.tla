------------------------------ MODULE SingleTCP ------------------------------
(***************************************************************************)
(* Utils::TCP::SingleTCPServer and SingleTCPClient (Modules/TCP), driven   *)
(* by the loops of Test_TCPServer.cpp and Test_TCPClient.cpp: the server   *)
(* serves one client after the other and answers whatever RecData returns, *)
(* a client sends a message and waits for the answer.                      *)
(*                                                                         *)
(* Every call is synchronous, so a step is one call that returns.  TCP     *)
(* itself is external: the bytes on their way in both directions, end of   *)
(* file, and the reset that a host sends when a socket is closed over      *)
(* unread data or when data arrives for a closed socket.  A byte is its    *)
(* number in the client's stream, an answer its number among the answers.  *)
(***************************************************************************)
EXTENDS Integers, Sequences, FiniteSets

CONSTANTS
  Clients,    \* the client programs, each of which connects once
  MaxLen,     \* bytes of a message at most; RecData returns 512 at most, so
              \* that a longer message comes in pieces
  MaxBytes    \* bound of the model: bytes a client sends

Nobody == "nobody"

ASSUME SingleAssumption ==
  /\ IsFiniteSet(Clients) /\ Nobody \notin Clients
  /\ MaxLen \in Nat \ {0} /\ MaxBytes \in Nat

VARIABLES
  acceptorPtr,      \* "none", "created", "bound" or "listening"
  clientPtr,        \* the client whose socket the server has open, or Nobody
  server,           \* the next call of the server's program: "create", "bind",
                    \* "listen", "accept", "receive", "answer" or "close"
  terminated,       \* an exception left the server's main
  client,           \* the next call of a client: "connect", "send", "receive",
                    \* or "done"
  serverSocketPtr,  \* a client's socket: "none", "open" or "closed"
  link,             \* the server's end of a connection: "none", in the
                    \* "backlog", "accepted" or "closed"
  up, down,         \* what is on its way to the server, and to the client
  reset,            \* a reset from the client's host: "no", "coming" or "here"
  sent,             \* history: how many bytes a client sent
  received,         \* history: the bytes RecData returned for each client
  answered          \* history: how many answers a client was sent

serverVars == <<acceptorPtr, clientPtr, server, terminated, received, answered>>
clientVars == <<client, serverSocketPtr, sent>>
vars == <<serverVars, clientVars, link, up, down, reset>>

Init ==
  /\ acceptorPtr = "none" /\ clientPtr = Nobody /\ server = "create" /\ terminated = FALSE
  /\ client = [c \in Clients |-> "connect"] /\ serverSocketPtr = [c \in Clients |-> "none"]
  /\ link = [c \in Clients |-> "none"] /\ reset = [c \in Clients |-> "no"]
  /\ up = [c \in Clients |-> <<>>] /\ down = [c \in Clients |-> <<>>]
  /\ sent = [c \in Clients |-> 0] /\ received = [c \in Clients |-> <<>>]
  /\ answered = [c \in Clients |-> 0]
-----------------------------------------------------------------------------
(* The server *)

CreateServer ==
  /\ server = "create"
  /\ acceptorPtr' = "created" /\ server' = "bind"
  /\ UNCHANGED <<clientPtr, terminated, received, answered, clientVars, link, up, down, reset>>

BindPort ==
  /\ server = "bind"
  /\ acceptorPtr' = "bound" /\ server' = "listen"
  /\ UNCHANGED <<clientPtr, terminated, received, answered, clientVars, link, up, down, reset>>

\* Called before every accept; on a listening socket it changes nothing.
ListenServer ==
  /\ server = "listen"
  /\ acceptorPtr' = "listening" /\ server' = "accept"
  /\ UNCHANGED <<clientPtr, terminated, received, answered, clientVars, link, up, down, reset>>

\* Slip: the connection is accepted into a socket that is not the client's.
AcceptUnheld(c) ==
  /\ server = "accept" /\ link[c] = "backlog"
  /\ clientPtr' = c
  /\ server' = "receive"
  /\ UNCHANGED <<acceptorPtr, terminated, received, answered, clientVars, link, up, down,
                 reset>>

AcceptClient(c) ==
  /\ server = "accept" /\ link[c] = "backlog"
  /\ clientPtr' = c
  /\ link' = [link EXCEPT ![c] = "accepted"]
  /\ server' = "receive"
  /\ UNCHANGED <<acceptorPtr, terminated, received, answered, clientVars, up, down, reset>>

\* Slip: the stream buffer keeps the bytes, and the next call returns them too.
ReceiveAgain(c, n) ==
  /\ server = "receive" /\ clientPtr = c
  /\ n \in 1 .. Len(up[c])
  /\ received' = [received EXCEPT ![c] = @ \o SubSeq(up[c], 1, n)]
  /\ up' = [up EXCEPT ![c] = SubSeq(@, n, Len(@))]
  /\ server' = "answer"
  /\ UNCHANGED <<acceptorPtr, clientPtr, terminated, answered, clientVars, link, down, reset>>

\* Slip: read without transfer_at_least(1), which returns at the end of file.
ReceiveAll(c, n) ==
  /\ server = "receive" /\ clientPtr = c
  /\ serverSocketPtr[c] = "closed" /\ n = Len(up[c]) /\ n > 0
  /\ received' = [received EXCEPT ![c] = @ \o up[c]]
  /\ up' = [up EXCEPT ![c] = <<>>]
  /\ server' = "answer"
  /\ UNCHANGED <<acceptorPtr, clientPtr, terminated, answered, clientVars, link, down, reset>>

\* RecData returns with at least one byte of those that are there.
Receive(c, n) ==
  /\ server = "receive" /\ clientPtr = c
  /\ n \in 1 .. Len(up[c])
  /\ received' = [received EXCEPT ![c] = @ \o SubSeq(up[c], 1, n)]
  /\ up' = [up EXCEPT ![c] = SubSeq(@, n + 1, Len(@))]
  /\ server' = "answer"
  /\ UNCHANGED <<acceptorPtr, clientPtr, terminated, answered, clientVars, link, down, reset>>

\* Slip: only an error ends the loop, not the end of file.
ReceiveError(c) ==
  /\ server = "receive" /\ clientPtr = c
  /\ up[c] = <<>> /\ reset[c] = "here"
  /\ server' = "close"
  /\ UNCHANGED <<acceptorPtr, clientPtr, terminated, received, answered, clientVars, link, up,
                 down, reset>>

\* RecData fails: end of file, or the connection was reset.
ReceiveEnd(c) ==
  /\ server = "receive" /\ clientPtr = c
  /\ up[c] = <<>> /\ (serverSocketPtr[c] = "closed" \/ reset[c] = "here")
  /\ server' = "close"
  /\ UNCHANGED <<acceptorPtr, clientPtr, terminated, received, answered, clientVars, link, up,
                 down, reset>>

\* SendData: to a client that has gone it may still succeed, and draws a
\* reset.  The program ignores its result.
SendData(c) ==
  /\ server = "answer" /\ clientPtr = c
  /\ server' = "receive"
  /\ \/ /\ reset[c] # "here" /\ serverSocketPtr[c] = "open"
        /\ answered' = [answered EXCEPT ![c] = @ + 1]
        /\ down' = [down EXCEPT ![c] = Append(@, answered'[c])]
        /\ UNCHANGED reset
     \/ /\ reset[c] # "here" /\ serverSocketPtr[c] = "closed"
        /\ reset' = [reset EXCEPT ![c] = "coming"]
        /\ UNCHANGED <<answered, down>>
     \/ reset[c] = "here" /\ UNCHANGED <<answered, down, reset>>
  /\ UNCHANGED <<acceptorPtr, clientPtr, terminated, received, clientVars, link, up>>

\* CloseClient: shutdown of a connection that was reset throws.
CloseClient(c) ==
  /\ server = "close" /\ clientPtr = c
  /\ IF reset[c] = "here"
       THEN terminated' = TRUE /\ UNCHANGED <<clientPtr, server, link>>
       ELSE /\ clientPtr' = Nobody /\ server' = "listen"
            /\ link' = [link EXCEPT ![c] = "closed"]
            /\ UNCHANGED terminated
  /\ UNCHANGED <<acceptorPtr, received, answered, clientVars, up, down, reset>>
-----------------------------------------------------------------------------
(* A client.  The host closes the connections of a server that has died. *)

Gone(c) == terminated \/ link[c] = "closed"

\* A server that does not listen refuses; RunClient then returns.
ConnectToServer(c) ==
  /\ client[c] = "connect"
  /\ IF acceptorPtr = "listening" /\ ~terminated
       THEN /\ client' = [client EXCEPT ![c] = "send"]
            /\ serverSocketPtr' = [serverSocketPtr EXCEPT ![c] = "open"]
            /\ link' = [link EXCEPT ![c] = "backlog"]
       ELSE client' = [client EXCEPT ![c] = "done"] /\ UNCHANGED <<serverSocketPtr, link>>
  /\ UNCHANGED <<serverVars, sent, up, down, reset>>

\* SendData of n bytes; what is sent to a server that has gone is lost.
Send(c, n) ==
  /\ client[c] = "send" /\ sent[c] + n <= MaxBytes
  /\ client' = [client EXCEPT ![c] = "receive"]
  /\ IF Gone(c)
       THEN UNCHANGED <<sent, up>>
       ELSE /\ sent' = [sent EXCEPT ![c] = @ + n]
            /\ up' = [up EXCEPT ![c] = @ \o [i \in 1 .. n |-> sent[c] + i]]
  /\ UNCHANGED <<serverVars, serverSocketPtr, link, down, reset>>

\* RecvData returns some answers, or fails as the server has gone.
RecvData(c) ==
  /\ client[c] = "receive"
  /\ \/ \E n \in 1 .. Len(down[c]) : down' = [down EXCEPT ![c] = SubSeq(@, n + 1, Len(@))]
     \/ down[c] = <<>> /\ Gone(c) /\ UNCHANGED down
  /\ client' = [client EXCEPT ![c] = "send"]
  /\ UNCHANGED <<serverVars, serverSocketPtr, sent, link, up, reset>>

\* CloseConnection, by the destructor or by the end of the program: answers
\* that nobody has read make the host reset the connection.
CloseConnection(c) ==
  /\ serverSocketPtr[c] = "open"
  /\ serverSocketPtr' = [serverSocketPtr EXCEPT ![c] = "closed"]
  /\ client' = [client EXCEPT ![c] = "done"]
  /\ reset' = IF down[c] # <<>> /\ ~Gone(c) THEN [reset EXCEPT ![c] = "coming"] ELSE reset
  /\ down' = [down EXCEPT ![c] = <<>>]
  /\ UNCHANGED <<serverVars, sent, link, up>>

\* The reset arrives; the last of the bytes before it may be lost.
ResetArrives(c) ==
  /\ reset[c] = "coming"
  /\ reset' = [reset EXCEPT ![c] = "here"]
  /\ \E n \in 0 .. Len(up[c]) : up' = [up EXCEPT ![c] = SubSeq(@, 1, n)]
  /\ UNCHANGED <<serverVars, clientVars, link, down>>

RecData(c) == (\E n \in 1 .. MaxBytes : Receive(c, n)) \/ ReceiveEnd(c)

ServerStep ==
  /\ ~terminated
  /\ \/ CreateServer \/ BindPort \/ ListenServer
     \/ \E c \in Clients : AcceptClient(c) \/ RecData(c) \/ SendData(c) \/ CloseClient(c)

Next ==
  \/ ServerStep
  \/ \E c \in Clients :
       \/ ConnectToServer(c) \/ RecvData(c) \/ CloseConnection(c) \/ ResetArrives(c)
       \/ \E n \in 1 .. MaxLen : Send(c, n)

Spec == Init /\ [][Next]_vars

\* A call that can return returns, and what was sent arrives.  No client has
\* to connect, to send or to leave.
FairSpec ==
  /\ Spec
  /\ WF_vars(ServerStep)
  /\ \A c \in Clients : WF_vars(RecvData(c)) /\ WF_vars(ResetArrives(c))
-----------------------------------------------------------------------------
TypeOK ==
  /\ acceptorPtr \in {"none", "created", "bound", "listening"}
  /\ clientPtr \in Clients \cup {Nobody}
  /\ server \in {"create", "bind", "listen", "accept", "receive", "answer", "close"}
  /\ terminated \in BOOLEAN
  /\ client \in [Clients -> {"connect", "send", "receive", "done"}]
  /\ serverSocketPtr \in [Clients -> {"none", "open", "closed"}]
  /\ link \in [Clients -> {"none", "backlog", "accepted", "closed"}]
  /\ \A c \in Clients : clientPtr = c <=> link[c] = "accepted"
  /\ up \in [Clients -> Seq(1 .. MaxBytes)] /\ down \in [Clients -> Seq(Nat)]
  /\ reset \in [Clients -> {"no", "coming", "here"}]
  /\ sent \in [Clients -> 0 .. MaxBytes] /\ received \in [Clients -> Seq(1 .. MaxBytes)]
  /\ answered \in [Clients -> Nat]

\* A client's stream, as far as the server has or can still get it.
Bytes(c) == received[c] \o up[c]

\* However the stream is cut into calls of RecData, and whichever clients came
\* before, the server reads a beginning of what this client sent; nothing of
\* it is missing while no reset has come in between.
StreamIntact ==
  \A c \in Clients :
    /\ Bytes(c) = [i \in 1 .. Len(Bytes(c)) |-> i]
    /\ reset[c] # "here" => Len(Bytes(c)) = sent[c]

\* A client that is about to send has nothing outstanding: the answer it just
\* received was the answer to its last message.
AnswersInStep ==
  \A c \in Clients :
    client[c] = "send" /\ ~Gone(c) => up[c] = <<>> /\ down[c] = <<>>

\* A client that waits for an answer from the server that serves it does not
\* wait for ever, however its messages were cut and joined.
RecvDataReturns ==
  \A c \in Clients :
    (client[c] = "receive" /\ link[c] = "accepted") ~> client[c] # "receive"

\* The server does not stay with a client that has left, so that the next one
\* is accepted.
ServerMovesOn ==
  \A c \in Clients :
    /\ (serverSocketPtr[c] = "closed" /\ link[c] = "accepted") ~> Gone(c)
    /\ (link[c] = "backlog" /\ server = "accept") ~> (server # "accept" \/ terminated)

\* After a client disconnected, the server waits for the next one.
ServerSurvives == ~terminated
=============================================================================
