----------------------------- MODULE TcpServer -----------------------------
(***************************************************************************)
(* The TCP server sample, tcpserver() in                                   *)
(* examples/network/main/sample/tcpserver_sample.c, run against a set of   *)
(* clients.  The server is one thread: it allocates its receive buffer,    *)
(* creates, binds and listens on a socket, then accepts one connection at  *)
(* a time; on each it sends a greeting and receives a chunk, closes the    *)
(* connection on "q", a reset or an orderly close, and stops the whole     *)
(* server on "exit".                                                       *)
(*                                                                         *)
(* The socket layer is the environment.  A client connects into the        *)
(* listen backlog, sends tokens into its byte stream, closes (FIN) or      *)
(* resets (RST).  TCP keeps no message boundaries: one recv() returns the  *)
(* next 1..MaxCoalesce tokens of the stream as a single chunk.  A token is *)
(* "q", "exit" or an element of Payload; the chunk is what recv_data holds *)
(* after the recv, and strcmp(recv_data, "exit") = 0 holds exactly when    *)
(* the chunk is the single token "exit".                                   *)
(***************************************************************************)
EXTENDS Naturals, Sequences

CONSTANTS
    Clients,        \* the client hosts
    Payload,        \* ordinary data tokens (neither "q" nor "exit")
    MaxSends,       \* bound on the tokens one client sends
    MaxCoalesce,    \* bound on the tokens one recv() returns
    MaxAcceptFail,  \* bound on failed accept() calls
    Backlog,        \* listen(sock, 5): the backlog of the listening socket
    NoClient        \* the value of `connected' before the first accept

ASSUME ConstAssumption ==
    /\ MaxSends \in Nat
    /\ MaxCoalesce \in Nat \ {0}
    /\ MaxAcceptFail \in Nat
    /\ Backlog \in Nat \ {0}
    /\ NoClient \notin Clients
    /\ "q" \notin Payload /\ "exit" \notin Payload

Token == Payload \cup {"q", "exit"}

VARIABLES
    pc,          \* the server's place in tcpserver()
    buf,         \* recv_data: "none" before rt_malloc, "held", "freed"
    lsock,       \* the listening socket `sock': "none", "open", "closed"
    connSt,      \* connSt[c]: the server's socket for client c
    conn,        \* `connected': the client of the current connection
    stop,        \* the stop flag
    recvData,    \* the chunk the last successful recv() stored in recv_data
    acceptFails, \* failed accept() calls so far
    peer,        \* peer[c]: "idle", "open", "fin" (closed), "rst" (reset)
    stream,      \* stream[c]: tokens sent by c and not yet received
    sent,        \* sent[c]: tokens c has sent
    backlog      \* connections completed but not yet accepted, oldest first

server == <<pc, buf, lsock, connSt, conn, stop, recvData, acceptFails>>
env == <<peer, stream, sent, backlog>>
vars == <<server, env>>

PC == {"malloc", "socket", "bind", "listen", "loop", "send", "recv", "done"}

TypeOK ==
    /\ pc \in PC
    /\ buf \in {"none", "held", "freed"}
    /\ lsock \in {"none", "open", "closed"}
    /\ connSt \in [Clients -> {"none", "open", "closed"}]
    /\ conn \in Clients \cup {NoClient}
    /\ stop \in BOOLEAN
    /\ recvData \in Seq(Token) /\ Len(recvData) <= MaxCoalesce
    /\ acceptFails \in 0..MaxAcceptFail
    /\ peer \in [Clients -> {"idle", "open", "fin", "rst"}]
    /\ stream \in [Clients -> Seq(Token)]
    /\ sent \in [Clients -> 0..MaxSends]
    /\ backlog \in Seq(Clients)

Init ==
    /\ pc = "malloc"
    /\ buf = "none"
    /\ lsock = "none"
    /\ connSt = [c \in Clients |-> "none"]
    /\ conn = NoClient
    /\ stop = FALSE
    /\ recvData = <<>>
    /\ acceptFails = 0
    /\ peer = [c \in Clients |-> "idle"]
    /\ stream = [c \in Clients |-> <<>>]
    /\ sent = [c \in Clients |-> 0]
    /\ backlog = <<>>

-----------------------------------------------------------------------------
(* The server.  Each action is one call of tcpserver() with the branches  *)
(* on its result; an error branch that returns goes to "done".            *)

\* recv_data = rt_malloc(...); return on RT_NULL.
Malloc ==
    /\ pc = "malloc"
    /\ \/ buf' = "held" /\ pc' = "socket"
       \/ pc' = "done" /\ UNCHANGED buf
    /\ UNCHANGED <<lsock, connSt, conn, stop, recvData, acceptFails, env>>

\* Mutant: the socket error path returns without rt_free(recv_data).
SocketLeakingBuf ==
    /\ pc = "socket"
    /\ \/ lsock' = "open" /\ pc' = "bind" /\ UNCHANGED buf
       \/ pc' = "done" /\ UNCHANGED <<buf, lsock>>
    /\ UNCHANGED <<connSt, conn, stop, recvData, acceptFails, env>>

\* sock = socket(AF_INET, SOCK_STREAM, 0); on -1 free the buffer, return.
Socket ==
    /\ pc = "socket"
    /\ \/ lsock' = "open" /\ pc' = "bind" /\ UNCHANGED buf
       \/ buf' = "freed" /\ pc' = "done" /\ UNCHANGED lsock
    /\ UNCHANGED <<connSt, conn, stop, recvData, acceptFails, env>>

\* bind(sock, ...); on -1 free the buffer and return (sock stays open).
Bind ==
    /\ pc = "bind"
    /\ \/ pc' = "listen" /\ UNCHANGED buf
       \/ buf' = "freed" /\ pc' = "done"
    /\ UNCHANGED <<lsock, connSt, conn, stop, recvData, acceptFails, env>>

\* listen(sock, 5); on -1 free the buffer and return (sock stays open).
Listen ==
    /\ pc = "listen"
    /\ \/ pc' = "loop" /\ UNCHANGED buf
       \/ buf' = "freed" /\ pc' = "done"
    /\ UNCHANGED <<lsock, connSt, conn, stop, recvData, acceptFails, env>>

\* The socket accepts connections once listen() has succeeded and until
\* closesocket(sock).
Listening == lsock = "open" /\ pc \in {"loop", "send", "recv"}

\* while (stop != RT_TRUE) { connected = accept(...); ... }: accept blocks
\* until the backlog holds a connection; on failure it `continue's.
Accept ==
    /\ pc = "loop"
    /\ ~stop
    /\ \/ /\ backlog # <<>>
          /\ conn' = Head(backlog)
          /\ backlog' = Tail(backlog)
          /\ connSt' = [connSt EXCEPT ![Head(backlog)] = "open"]
          /\ pc' = "send"
          /\ UNCHANGED acceptFails
       \/ /\ acceptFails < MaxAcceptFail
          /\ acceptFails' = acceptFails + 1
          /\ UNCHANGED <<conn, backlog, connSt, pc>>
    /\ UNCHANGED <<buf, lsock, stop, recvData, peer, stream, sent>>

\* Mutant: the break out of the inner loop without closesocket(connected).
CloseConnNoClose == pc' = "loop" /\ UNCHANGED connSt

\* closesocket(connected); break: back to the head of the accept loop.
CloseConn ==
    /\ connSt' = [connSt EXCEPT ![conn] = "closed"]
    /\ pc' = "loop"

\* ret = send(connected, send_data, ...): fails once the peer has reset.
Send ==
    /\ pc = "send"
    /\ IF peer[conn] = "rst"
          THEN CloseConn
          ELSE pc' = "recv" /\ UNCHANGED connSt
    /\ UNCHANGED <<buf, lsock, conn, stop, recvData, acceptFails, env>>

\* Mutant: recv(connected, recv_data, BUFFER_SIZE + 1, 0), which leaves no
\* room for the '\0' stored after the data.
RecvCapOffByOne == MaxCoalesce + 1

\* The most one recv() returns: EXAMPLE_NETWORK_BUFFER_SIZE bytes, one less
\* than the buffer holds; MaxCoalesce tokens.
RecvCap == MaxCoalesce

\* Mutant: a return of 0 (orderly close) is not seen as the end.
PeerClosedIgnored(c) == FALSE

\* recv() returns 0: the peer closed and everything it sent was read.
PeerClosed(c) == peer[c] = "fin" /\ stream[c] = <<>>

\* bytes_received = recv(connected, ...): blocks until the stream holds
\* data, the peer closed or the peer reset.  A chunk that is exactly "q"
\* (which stands for "q" and "Q" alike) closes the connection, exactly "exit" also sets stop; any other chunk
\* is printed and the loop sends again.
Recv ==
    /\ pc = "recv"
    /\ \/ /\ peer[conn] = "rst"
          /\ CloseConn
          /\ UNCHANGED <<stop, recvData, stream>>
       \/ /\ PeerClosed(conn)
          /\ CloseConn
          /\ UNCHANGED <<stop, recvData, stream>>
       \/ /\ peer[conn] # "rst"
          /\ \E k \in 1..RecvCap :
               /\ k <= Len(stream[conn])
               /\ recvData' = SubSeq(stream[conn], 1, k)
               /\ stream' = [stream EXCEPT ![conn] =
                                SubSeq(stream[conn], k + 1, Len(stream[conn]))]
          /\ IF recvData' = <<"q">>
                THEN CloseConn /\ UNCHANGED stop
             ELSE IF recvData' = <<"exit">>
                THEN CloseConn /\ stop' = TRUE
             ELSE pc' = "send" /\ UNCHANGED <<connSt, stop>>
    /\ UNCHANGED <<buf, lsock, conn, acceptFails, peer, sent, backlog>>

\* The loop ends once stop is set: closesocket(sock); rt_free(recv_data).
ServerExit ==
    /\ pc = "loop"
    /\ stop
    /\ lsock' = "closed"
    /\ buf' = "freed"
    /\ pc' = "done"
    /\ UNCHANGED <<connSt, conn, stop, recvData, acceptFails, env>>

ServerStep ==
    Malloc \/ Socket \/ Bind \/ Listen \/ Accept \/ Send \/ Recv \/ ServerExit

-----------------------------------------------------------------------------
(* The clients and the network.                                           *)

ClientConnect(c) ==
    /\ peer[c] = "idle"
    /\ Listening
    /\ Len(backlog) < Backlog
    /\ peer' = [peer EXCEPT ![c] = "open"]
    /\ backlog' = Append(backlog, c)
    /\ UNCHANGED <<server, stream, sent>>

ClientSend(c, t) ==
    /\ peer[c] = "open"
    /\ sent[c] < MaxSends
    /\ stream' = [stream EXCEPT ![c] = Append(@, t)]
    /\ sent' = [sent EXCEPT ![c] = @ + 1]
    /\ UNCHANGED <<server, peer, backlog>>

ClientClose(c) ==
    /\ peer[c] = "open"
    /\ peer' = [peer EXCEPT ![c] = "fin"]
    /\ UNCHANGED <<server, stream, sent, backlog>>

ClientReset(c) ==
    /\ peer[c] \in {"open", "fin"}
    /\ peer' = [peer EXCEPT ![c] = "rst"]
    /\ stream' = [stream EXCEPT ![c] = <<>>]
    /\ UNCHANGED <<server, sent, backlog>>

ClientStep(c) ==
    \/ ClientConnect(c)
    \/ \E t \in Token : ClientSend(c, t)
    \/ ClientClose(c)
    \/ ClientReset(c)

Next == ServerStep \/ \E c \in Clients : ClientStep(c)

Spec == Init /\ [][Next]_vars

(* The server thread runs whenever it can (it is the only thread of the   *)
(* sample); a client that has connected eventually closes its side.       *)
FairSpec ==
    /\ Spec
    /\ WF_vars(ServerStep)
    /\ \A c \in Clients : WF_vars(ClientClose(c))

-----------------------------------------------------------------------------
(* Properties.                                                            *)

(* Every connection the server accepts is closed on each path out of the  *)
(* per-connection loop (send error, recv error, peer close, "q", "exit"): *)
(* a socket of the server is open exactly while tcpserver() is inside the *)
(* inner loop for that client, so at most one is ever open.               *)
ConnectionHygiene ==
    \A c \in Clients :
        connSt[c] = "open" <=> (pc \in {"send", "recv"} /\ conn = c)

(* Every return of tcpserver() has released the receive buffer obtained  *)
(* by rt_malloc: the socket, bind and listen error paths and the normal   *)
(* exit after "exit" all call rt_free(recv_data).                         *)
BufferReleasedOnReturn == pc = "done" => buf # "held"

(* The header comment: the server "exits the program when receiving       *)
(* exit".  Once a recv() has returned data containing the token "exit",   *)
(* the stop flag is set.                                                  *)
ExitHonoured == (\E i \in DOMAIN recvData : recvData[i] = "exit") => stop

(* A client that connects is eventually served and disconnected by the   *)
(* server, or the server has returned.  The server handles one client at *)
(* a time, so this needs every connected client to close eventually.     *)
EveryClientServed ==
    \A c \in Clients :
        peer[c] # "idle" ~> (connSt[c] = "closed" \/ pc = "done")

=============================================================================
