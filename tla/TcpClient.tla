----------------------------- MODULE TcpClient -----------------------------
(***************************************************************************)
(* The two TCP client samples of examples/network/main/sample:            *)
(* tcpclient() in tcpclient_sample.c and tcpclient_select() in            *)
(* tcpclient_select_sample.c; the variable variant, fixed in Init, is the *)
(* command the user typed.  Both parse their arguments, resolve the host, *)
(* allocate the receive buffer, create                                     *)
(* and connect a socket, then loop: receive a chunk, leave on an error,    *)
(* on the peer's close or on a chunk starting with 'q', else send a reply. *)
(* The select variant waits in select() before each recv().               *)
(*                                                                         *)
(* The server is the environment: it accepts or refuses the connection,   *)
(* writes tokens into the stream, closes or resets.  As in TcpServer, one *)
(* recv() returns 1..MaxCoalesce tokens as one chunk, and                  *)
(* strncmp(recv_data, "q", 1) = 0 holds when the chunk's first token is    *)
(* "q".                                                                    *)
(***************************************************************************)
EXTENDS Naturals, Sequences

CONSTANTS
    Payload,       \* ordinary data tokens (not "q")
    MaxSends,      \* bound on the tokens the server sends
    MaxCoalesce,   \* bound on the tokens one recv() returns
    MaxSelectErr,  \* bound on select() calls that fail
    Variants       \* the commands typed: "plain" (tcpclient), "select"

ASSUME ClientConstAssumption ==
    /\ MaxSends \in Nat
    /\ MaxCoalesce \in Nat \ {0}
    /\ MaxSelectErr \in Nat
    /\ Variants \subseteq {"plain", "select"} /\ Variants # {}
    /\ "q" \notin Payload

Token == Payload \cup {"q"}

VARIABLES
    pc,        \* the client's place in tcpclient()/tcpclient_select()
    host,      \* gethostbyname(url): "none" before the call, "entry", "null"
    buf,       \* recv_data: "none", "held", "freed"
    sock,      \* the socket: "none", "open", "closed"
    readable,  \* FD_ISSET(sock, &readset) after the last select()
    recvData,  \* the chunk the last successful recv() stored in recv_data
    selErrs,   \* select() calls that returned -1 so far
    srv,       \* the server: "accepting", "refusing", "open", "fin", "rst"
    stream,    \* tokens the server sent and the client has not received
    sent,      \* tokens the server has sent
    variant    \* the command typed: "plain" or "select"

client == <<pc, host, buf, sock, readable, recvData, selErrs>>
\* The environment: the server, and the user whose command never changes.
env == <<srv, stream, sent, variant>>
vars == <<client, env>>

TypeOK ==
    /\ pc \in {"args", "resolve", "malloc", "socket", "connect", "select",
               "recv", "send", "done", "fault"}
    /\ host \in {"none", "entry", "null"}
    /\ buf \in {"none", "held", "freed"}
    /\ sock \in {"none", "open", "closed"}
    /\ readable \in BOOLEAN
    /\ recvData \in Seq(Token) /\ Len(recvData) <= MaxCoalesce
    /\ selErrs \in 0..MaxSelectErr
    /\ srv \in {"accepting", "refusing", "open", "fin", "rst"}
    /\ stream \in Seq(Token)
    /\ sent \in 0..MaxSends
    /\ variant \in Variants

Init ==
    /\ pc = "args"
    /\ host = "none"
    /\ buf = "none"
    /\ sock = "none"
    /\ readable = FALSE
    /\ recvData = <<>>
    /\ selErrs = 0
    /\ srv \in {"accepting", "refusing"}
    /\ stream = <<>>
    /\ sent = 0
    /\ variant \in Variants

-----------------------------------------------------------------------------
\* The head of the receive loop of the variant.
LoopHead == IF variant = "select" THEN "select" ELSE "recv"

\* if (argc < 3) { print usage; return; }
Args ==
    /\ pc = "args"
    /\ pc' \in {"resolve", "done"}
    /\ UNCHANGED <<host, buf, sock, readable, recvData, selErrs, env>>

\* host = gethostbyname(url): the result is not checked.
Resolve ==
    /\ pc = "resolve"
    /\ host' \in {"entry", "null"}
    /\ pc' = "malloc"
    /\ UNCHANGED <<buf, sock, readable, recvData, selErrs, env>>

\* recv_data = rt_malloc(EXAMPLE_NETWORK_BUFFER_SIZE); return on RT_NULL.
Malloc ==
    /\ pc = "malloc"
    /\ \/ buf' = "held" /\ pc' = "socket"
       \/ pc' = "done" /\ UNCHANGED buf
    /\ UNCHANGED <<host, sock, readable, recvData, selErrs, env>>

\* sock = socket(...); on -1 free the buffer and return.
Socket ==
    /\ pc = "socket"
    /\ \/ sock' = "open" /\ pc' = "connect" /\ UNCHANGED buf
       \/ buf' = "freed" /\ pc' = "done" /\ UNCHANGED sock
    /\ UNCHANGED <<host, readable, recvData, selErrs, env>>

\* server_addr.sin_addr = *((struct in_addr *)host->h_addr), then
\* connect(); on -1 close the socket, free the buffer and return.  With a
\* NULL host entry the dereference faults before connect() is reached.
Connect ==
    /\ pc = "connect"
    /\ \/ /\ host = "null"
          /\ pc' = "fault"
          /\ UNCHANGED <<buf, sock, srv>>
       \/ /\ host = "entry"
          /\ srv = "accepting"
          /\ srv' = "open"
          /\ pc' = LoopHead
          /\ UNCHANGED <<buf, sock>>
       \/ /\ host = "entry"
          /\ srv = "refusing"
          /\ sock' = "closed"
          /\ buf' = "freed"
          /\ pc' = "done"
          /\ UNCHANGED srv
    /\ UNCHANGED <<host, readable, recvData, selErrs, stream, sent, variant>>

\* FD_ZERO; FD_SET(sock); i = select(maxfdp1, &readset, 0, 0, 0).  With no
\* timeout select() blocks until the socket is readable (data, FIN or RST)
\* and returns 1, so the `i == 0' branch is never taken; or it returns -1,
\* after which the readset may or may not still hold the socket.
\* Mutant: select() taken to wake only on data, not on FIN or RST.
ReadableDataOnly == stream # <<>>

Readable == stream # <<>> \/ srv \in {"fin", "rst"}

Select ==
    /\ pc = "select"
    /\ \/ /\ Readable
          /\ readable' = TRUE
          /\ UNCHANGED selErrs
       \/ /\ selErrs < MaxSelectErr
          /\ selErrs' = selErrs + 1
          /\ readable' \in BOOLEAN
    /\ pc' = IF readable' THEN "recv" ELSE "select"
    /\ UNCHANGED <<host, buf, sock, recvData, env>>

\* Mutant: an exit path that frees the buffer but forgets closesocket(sock).
CloseAndFreeNoClose == buf' = "freed" /\ pc' = "done" /\ UNCHANGED sock

\* closesocket(sock); rt_free(recv_data); break.
CloseAndFree ==
    /\ sock' = "closed"
    /\ buf' = "freed"
    /\ pc' = "done"

\* Mutant: recv(sock, recv_data, BUFFER_SIZE, 0), one byte too many.
RecvCapOffByOne == MaxCoalesce + 1

\* The most one recv() returns: BUFFER_SIZE - 1 bytes, MaxCoalesce tokens.
RecvCap == MaxCoalesce

\* Mutant: a return of 0 (orderly close) is not seen as the end.
PeerClosedIgnored == FALSE

\* recv() returns 0: the server closed and everything it sent was read.
PeerClosed == srv = "fin" /\ stream = <<>>

\* bytes_received = recv(sock, recv_data, BUFFER_SIZE - 1, 0): blocks until
\* data, FIN (0) or RST (-1).  A chunk whose first token is "q" ends the
\* client; any other chunk is printed and answered.
Recv ==
    /\ pc = "recv"
    /\ \/ /\ srv = "rst"
          /\ CloseAndFree
          /\ UNCHANGED <<recvData, stream>>
       \/ /\ PeerClosed
          /\ CloseAndFree
          /\ UNCHANGED <<recvData, stream>>
       \/ /\ srv # "rst"
          /\ \E k \in 1..RecvCap :
               /\ k <= Len(stream)
               /\ recvData' = SubSeq(stream, 1, k)
               /\ stream' = SubSeq(stream, k + 1, Len(stream))
          /\ IF Head(recvData') = "q"
                THEN CloseAndFree
                ELSE pc' = "send" /\ UNCHANGED <<sock, buf>>
    /\ UNCHANGED <<host, readable, selErrs, srv, sent, variant>>

\* ret = send(sock, send_data, ...): on < 0 close, free and break; 0 only
\* prints a warning.
Send ==
    /\ pc = "send"
    /\ IF srv = "rst"
          THEN CloseAndFree
          ELSE pc' = LoopHead /\ UNCHANGED <<sock, buf>>
    /\ UNCHANGED <<host, readable, recvData, selErrs, env>>

ClientStep ==
    Args \/ Resolve \/ Malloc \/ Socket \/ Connect \/ Select \/ Recv \/ Send

-----------------------------------------------------------------------------
(* The server peer.                                                        *)

ServerSend(t) ==
    /\ srv = "open"
    /\ sent < MaxSends
    /\ stream' = Append(stream, t)
    /\ sent' = sent + 1
    /\ UNCHANGED <<client, srv, variant>>

ServerClose ==
    /\ srv = "open"
    /\ srv' = "fin"
    /\ UNCHANGED <<client, stream, sent, variant>>

ServerReset ==
    /\ srv \in {"open", "fin"}
    /\ srv' = "rst"
    /\ stream' = <<>>
    /\ UNCHANGED <<client, sent, variant>>

ServerStep == (\E t \in Token : ServerSend(t)) \/ ServerClose \/ ServerReset

Next == ClientStep \/ ServerStep

Spec == Init /\ [][Next]_vars

(* The client thread runs whenever it can; the server eventually closes   *)
(* the connection.                                                        *)
FairSpec == Spec /\ WF_vars(ClientStep) /\ WF_vars(ServerClose)

-----------------------------------------------------------------------------
(* Properties.                                                            *)

(* The buffer and the socket are held exactly while the client is between *)
(* their creation and a return: every error path (socket, connect, recv,  *)
(* send) and the 'q' exit close the socket and free the buffer, and none  *)
(* frees them while the loop still uses them.  A fault leaves both held.  *)
ResourceLifecycle ==
    /\ buf = "held" <=>
         pc \in {"socket", "connect", "select", "recv", "send", "fault"}
    /\ sock = "open" <=>
         pc \in {"connect", "select", "recv", "send", "fault"}

(* The client returns once the server closes the connection: every path   *)
(* of the loop, select() errors included, reaches a recv() that sees the  *)
(* close.                                                                 *)
ClientTerminates == <>(pc \in {"done", "fault"})

=============================================================================
