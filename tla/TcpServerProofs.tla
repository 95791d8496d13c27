-------------------------- MODULE TcpServerProofs --------------------------
(***************************************************************************)
(* Proofs about TcpServer for every value of its constants: the type       *)
(* invariant, and ConnectionHygiene, the invariant that tcpserver() closes *)
(* every connection it accepts on each path out of its inner loop.        *)
(*                                                                         *)
(* ConnectionHygiene is not inductive by itself: Send and Recv close       *)
(* connSt[conn], which is a client only if the server is inside the inner *)
(* loop with conn set by accept().  IInv adds that fact and TypeOK.        *)
(***************************************************************************)
EXTENDS TcpServer, SequenceTheorems, TLAPS

\* Inside the inner loop `connected' is a client returned by accept().
ConnInLoop == pc \in {"send", "recv"} => conn \in Clients

IInv == TypeOK /\ ConnectionHygiene /\ ConnInLoop

(* A chunk taken by recv() from a stream of tokens is a sequence of at    *)
(* most RecvCap tokens, and what remains of the stream is a sequence of    *)
(* tokens.                                                                *)
LEMMA ChunkTyped ==
    ASSUME NEW s \in Seq(Token), NEW k \in 1..RecvCap, k <= Len(s)
    PROVE  /\ SubSeq(s, 1, k) \in Seq(Token)
           /\ Len(SubSeq(s, 1, k)) <= MaxCoalesce
           /\ SubSeq(s, k + 1, Len(s)) \in Seq(Token)
<1>1. SubSeq(s, 1, k) \in Seq(Token) /\ Len(SubSeq(s, 1, k)) = k
  BY SubSeqProperties, ConstAssumption DEF RecvCap
<1>2. SubSeq(s, k + 1, Len(s)) \in Seq(Token)
  BY SubSeqProperties
<1>3. QED
  BY <1>1, <1>2, ConstAssumption DEF RecvCap

(* The initial state satisfies the inductive invariant.                   *)
LEMMA InitIInv == Init => IInv
<1> SUFFICES ASSUME Init PROVE IInv
  OBVIOUS
<1>1. recvData \in Seq(Token) /\ Len(recvData) <= MaxCoalesce
  BY EmptySeq, ConstAssumption DEF Init
<1>2. stream \in [Clients -> Seq(Token)] /\ sent \in [Clients -> 0..MaxSends]
  BY EmptySeq, ConstAssumption DEF Init
<1>3. backlog \in Seq(Clients) /\ acceptFails \in 0..MaxAcceptFail
  BY EmptySeq, ConstAssumption DEF Init
<1>4. TypeOK
  BY <1>1, <1>2, <1>3 DEF Init, TypeOK, PC
<1>5. ConnectionHygiene /\ ConnInLoop
  BY DEF Init, ConnectionHygiene, ConnInLoop
<1>6. QED
  BY <1>4, <1>5 DEF IInv

(* Every step of the server and of the clients preserves it.              *)
LEMMA NextIInv == IInv /\ [Next]_vars => IInv'
<1> SUFFICES ASSUME IInv, [Next]_vars PROVE IInv'
  OBVIOUS
<1> USE DEF IInv, TypeOK, ConnectionHygiene, ConnInLoop, PC, env, server
<1>1. CASE Malloc
  BY <1>1 DEF Malloc
<1>2. CASE Socket
  BY <1>2 DEF Socket
<1>3. CASE Bind
  BY <1>3 DEF Bind
<1>4. CASE Listen
  BY <1>4 DEF Listen
<1>5. CASE Accept
  <2>1. CASE backlog # <<>> /\ conn' = Head(backlog)
             /\ backlog' = Tail(backlog)
             /\ connSt' = [connSt EXCEPT ![Head(backlog)] = "open"]
             /\ pc' = "send" /\ UNCHANGED acceptFails
    <3>1. Head(backlog) \in Clients /\ Tail(backlog) \in Seq(Clients)
      BY <2>1, HeadTailProperties
    <3>2. \A c \in Clients : connSt[c] # "open"
      BY <1>5 DEF Accept
    <3>3. QED
      BY <1>5, <2>1, <3>1, <3>2 DEF Accept
  <2>2. CASE acceptFails < MaxAcceptFail /\ acceptFails' = acceptFails + 1
             /\ UNCHANGED <<conn, backlog, connSt, pc>>
    BY <1>5, <2>2, ConstAssumption DEF Accept
  <2>3. QED
    BY <1>5, <2>1, <2>2 DEF Accept
<1>6. CASE Send
  BY <1>6 DEF Send, CloseConn
<1>7. CASE Recv
  <2>1. conn \in Clients
    BY <1>7 DEF Recv
  <2>2. CASE peer[conn] = "rst" /\ CloseConn /\ UNCHANGED <<stop, recvData, stream>>
    BY <1>7, <2>1, <2>2 DEF Recv, CloseConn
  <2>3. CASE PeerClosed(conn) /\ CloseConn /\ UNCHANGED <<stop, recvData, stream>>
    BY <1>7, <2>1, <2>3 DEF Recv, CloseConn
  <2>4. CASE /\ peer[conn] # "rst"
             /\ \E k \in 1..RecvCap :
                  /\ k <= Len(stream[conn])
                  /\ recvData' = SubSeq(stream[conn], 1, k)
                  /\ stream' = [stream EXCEPT ![conn] =
                                   SubSeq(stream[conn], k + 1, Len(stream[conn]))]
             /\ IF recvData' = <<"q">>
                   THEN CloseConn /\ UNCHANGED stop
                ELSE IF recvData' = <<"exit">>
                   THEN CloseConn /\ stop' = TRUE
                ELSE pc' = "send" /\ UNCHANGED <<connSt, stop>>
    <3>1. PICK k \in 1..RecvCap :
             /\ k <= Len(stream[conn])
             /\ recvData' = SubSeq(stream[conn], 1, k)
             /\ stream' = [stream EXCEPT ![conn] =
                              SubSeq(stream[conn], k + 1, Len(stream[conn]))]
      BY <2>4
    <3>2. /\ recvData' \in Seq(Token) /\ Len(recvData') <= MaxCoalesce
          /\ stream' \in [Clients -> Seq(Token)]
      BY <2>1, <3>1, ChunkTyped
    <3>3. QED
      BY <1>7, <2>1, <2>4, <3>2 DEF Recv, CloseConn
  <2>5. QED
    BY <1>7, <2>2, <2>3, <2>4 DEF Recv
<1>8. CASE ServerExit
  BY <1>8 DEF ServerExit
<1>9. ASSUME NEW c \in Clients, ClientConnect(c)
      PROVE  IInv'
  BY <1>9 DEF ClientConnect
<1>10. ASSUME NEW c \in Clients, NEW t \in Token, ClientSend(c, t)
       PROVE  IInv'
  <2>1. stream' \in [Clients -> Seq(Token)]
    BY <1>10, AppendProperties DEF ClientSend
  <2>2. sent' \in [Clients -> 0..MaxSends]
    BY <1>10, ConstAssumption DEF ClientSend
  <2>3. QED
    BY <1>10, <2>1, <2>2 DEF ClientSend
<1>11. ASSUME NEW c \in Clients, ClientClose(c)
       PROVE  IInv'
  BY <1>11 DEF ClientClose
<1>12. ASSUME NEW c \in Clients, ClientReset(c)
       PROVE  IInv'
  BY <1>12 DEF ClientReset
<1>13. CASE UNCHANGED vars
  BY <1>13 DEF vars, server, env
<1>14. QED
  BY <1>1, <1>2, <1>3, <1>4, <1>5, <1>6, <1>7, <1>8, <1>9, <1>10, <1>11,
     <1>12, <1>13 DEF Next, ServerStep, ClientStep

(* tcpserver() keeps its variables within their types in every run.       *)
THEOREM TypeCorrect == Spec => []TypeOK
<1>1. Spec => []IInv
  BY InitIInv, NextIInv, PTL DEF Spec
<1>2. QED
  BY <1>1, PTL DEF IInv

(* ConnectionHygiene holds in every run, for any set of clients and any   *)
(* bounds: every connection tcpserver() accepts is closed on each path    *)
(* out of its inner loop, and only the current one is ever open.          *)
THEOREM ConnectionsClosed == Spec => []ConnectionHygiene
<1>1. Spec => []IInv
  BY InitIInv, NextIInv, PTL DEF Spec
<1>2. QED
  BY <1>1, PTL DEF IInv

(* recv_data is held from rt_malloc() until tcpserver() returns: not yet *)
(* allocated at "malloc", held at every later pc short of "done", and     *)
(* never held at "done".  It is inductive with TypeOK: only the server    *)
(* steps change buf or pc, and each changes them together.               *)
BufHeld ==
    /\ pc = "malloc" => buf = "none"
    /\ pc \in PC \ {"malloc", "done"} => buf = "held"
    /\ pc = "done" => buf # "held"

LEMMA InitBufHeld == Init => BufHeld
BY DEF Init, BufHeld

LEMMA NextBufHeld == IInv /\ BufHeld /\ [Next]_vars => BufHeld'
<1> SUFFICES ASSUME IInv, BufHeld, [Next]_vars PROVE BufHeld'
  OBVIOUS
<1> USE DEF IInv, TypeOK, BufHeld, PC
<1>1. CASE Malloc
  BY <1>1 DEF Malloc
<1>2. CASE Socket
  BY <1>2 DEF Socket
<1>3. CASE Bind
  BY <1>3 DEF Bind
<1>4. CASE Listen
  BY <1>4 DEF Listen
<1>5. CASE Accept
  BY <1>5 DEF Accept
<1>6. CASE Send
  BY <1>6 DEF Send, CloseConn
<1>7. CASE Recv
  BY <1>7 DEF Recv, CloseConn
<1>8. CASE ServerExit
  BY <1>8 DEF ServerExit
<1>9. ASSUME NEW c \in Clients, ClientConnect(c) \/ ClientClose(c) \/ ClientReset(c)
       PROVE  BufHeld'
  BY <1>9 DEF ClientConnect, ClientClose, ClientReset, server
<1>10. ASSUME NEW c \in Clients, NEW t \in Token, ClientSend(c, t)
       PROVE  BufHeld'
  BY <1>10 DEF ClientSend, server
<1>11. CASE UNCHANGED vars
  BY <1>11 DEF vars, server
<1>12. QED
  BY <1>1, <1>2, <1>3, <1>4, <1>5, <1>6, <1>7, <1>8, <1>9, <1>10, <1>11
     DEF Next, ServerStep, ClientStep

(* Every path by which tcpserver() returns has freed recv_data: the       *)
(* error returns after socket(), bind() and listen(), and the exit after *)
(* the loop.  It holds for every set of clients and every bound.          *)
THEOREM BufferFreedOnReturn == Spec => []BufferReleasedOnReturn
<1>1. Spec => [](IInv /\ BufHeld)
  BY InitIInv, NextIInv, InitBufHeld, NextBufHeld, PTL DEF Spec
<1>2. QED
  BY <1>1, PTL DEF BufHeld, BufferReleasedOnReturn

=============================================================================
