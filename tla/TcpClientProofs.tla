-------------------------- MODULE TcpClientProofs --------------------------
(***************************************************************************)
(* Proofs about TcpClient for every payload and every bound, in both      *)
(* samples: the type invariant, and ResourceLifecycle, that tcpclient()    *)
(* and tcpclient_select() hold their buffer and socket exactly while they  *)
(* use them and release both on every return.                              *)
(*                                                                         *)
(* ResourceLifecycle and TypeOK together are inductive.  TypeOK is needed  *)
(* because the loop's next place depends on the variant and on the chunk   *)
(* recv() returns: both must stay within their types for pc to stay on the *)
(* places the lifecycle names.                                            *)
(***************************************************************************)
EXTENDS TcpClient, SequenceTheorems, TLAPS

CInv == TypeOK /\ ResourceLifecycle

(* A chunk taken by recv() from the stream is a non-empty sequence of at   *)
(* most RecvCap tokens, and what remains of the stream is a sequence of    *)
(* tokens.                                                                *)
LEMMA ClientChunkTyped ==
    ASSUME NEW s \in Seq(Token), NEW k \in 1..RecvCap, k <= Len(s)
    PROVE  /\ SubSeq(s, 1, k) \in Seq(Token)
           /\ SubSeq(s, 1, k) # <<>>
           /\ Len(SubSeq(s, 1, k)) <= MaxCoalesce
           /\ SubSeq(s, k + 1, Len(s)) \in Seq(Token)
<1>1. SubSeq(s, 1, k) \in Seq(Token) /\ Len(SubSeq(s, 1, k)) = k
  BY SubSeqProperties, ClientConstAssumption DEF RecvCap
<1>2. SubSeq(s, k + 1, Len(s)) \in Seq(Token)
  BY SubSeqProperties
<1>3. QED
  BY <1>1, <1>2, ClientConstAssumption DEF RecvCap

(* The head of the receive loop is one of its two places.                  *)
LEMMA LoopHeadPlace == LoopHead \in {"select", "recv"}
BY DEF LoopHead

(* The initial states satisfy CInv.                                       *)
LEMMA InitCInv == Init => CInv
<1> SUFFICES ASSUME Init PROVE CInv
  OBVIOUS
<1>1. recvData \in Seq(Token) /\ Len(recvData) <= MaxCoalesce /\ stream \in Seq(Token)
  BY EmptySeq, ClientConstAssumption DEF Init
<1>2. selErrs \in 0..MaxSelectErr /\ sent \in 0..MaxSends
  BY ClientConstAssumption DEF Init
<1>3. QED
  BY <1>1, <1>2 DEF Init, CInv, TypeOK, ResourceLifecycle

(* Every step of the client and of the server preserves CInv.              *)
LEMMA NextCInv == CInv /\ [Next]_vars => CInv'
<1> SUFFICES ASSUME CInv, [Next]_vars PROVE CInv'
  OBVIOUS
<1> USE DEF CInv, TypeOK, ResourceLifecycle
<1>1. CASE Args \/ Resolve \/ Malloc \/ Socket
  BY <1>1 DEF Args, Resolve, Malloc, Socket, env
<1>2. CASE Connect
  BY <1>2, LoopHeadPlace DEF Connect
<1>3. CASE Select
  <2>1. pc = "select" /\ UNCHANGED <<host, buf, sock, recvData, env>>
        /\ pc' = IF readable' THEN "recv" ELSE "select"
    BY <1>3 DEF Select
  <2>2. CASE readable' = TRUE /\ UNCHANGED selErrs
    BY <2>1, <2>2 DEF env
  <2>3. CASE /\ selErrs < MaxSelectErr
             /\ selErrs' = selErrs + 1
             /\ readable' \in BOOLEAN
    <3>1. selErrs' \in 0..MaxSelectErr
      BY <2>3, ClientConstAssumption
    <3>2. pc' \in {"recv", "select"}
      BY <2>1, <2>3
    <3>3. QED
      BY <2>1, <2>3, <3>1, <3>2 DEF env
  <2>4. QED
    BY <1>3, <2>2, <2>3 DEF Select
<1>4. CASE Recv
  <2>1. CASE srv = "rst" /\ CloseAndFree /\ UNCHANGED <<recvData, stream>>
    BY <1>4, <2>1 DEF Recv, CloseAndFree
  <2>2. CASE PeerClosed /\ CloseAndFree /\ UNCHANGED <<recvData, stream>>
    BY <1>4, <2>2 DEF Recv, CloseAndFree
  <2>3. CASE /\ srv # "rst"
             /\ \E k \in 1..RecvCap :
                  /\ k <= Len(stream)
                  /\ recvData' = SubSeq(stream, 1, k)
                  /\ stream' = SubSeq(stream, k + 1, Len(stream))
             /\ IF Head(recvData') = "q"
                   THEN CloseAndFree
                   ELSE pc' = "send" /\ UNCHANGED <<sock, buf>>
    <3>1. PICK k \in 1..RecvCap :
             /\ k <= Len(stream)
             /\ recvData' = SubSeq(stream, 1, k)
             /\ stream' = SubSeq(stream, k + 1, Len(stream))
      BY <2>3
    <3>2. /\ recvData' \in Seq(Token) /\ Len(recvData') <= MaxCoalesce
          /\ stream' \in Seq(Token)
      BY <3>1, ClientChunkTyped
    <3>3. QED
      BY <1>4, <2>3, <3>2 DEF Recv, CloseAndFree
  <2>4. QED
    BY <1>4, <2>1, <2>2, <2>3 DEF Recv
<1>5. CASE Send
  BY <1>5, LoopHeadPlace DEF Send, CloseAndFree, env
<1>6. ASSUME NEW t \in Token, ServerSend(t)
      PROVE  CInv'
  BY <1>6, AppendProperties, ClientConstAssumption DEF ServerSend, client
<1>7. CASE ServerClose \/ ServerReset
  BY <1>7, EmptySeq DEF ServerClose, ServerReset, client
<1>8. CASE UNCHANGED vars
  BY <1>8 DEF vars, client, env
<1>9. QED
  BY <1>1, <1>2, <1>3, <1>4, <1>5, <1>6, <1>7, <1>8
  DEF Next, ClientStep, ServerStep

(* Both client samples keep their variables within their types.          *)
THEOREM ClientTypeCorrect == Spec => []TypeOK
<1>1. Spec => []CInv
  BY InitCInv, NextCInv, PTL DEF Spec
<1>2. QED
  BY <1>1, PTL DEF CInv

(* In every run of either sample, for every payload and bound, the buffer *)
(* and the socket are held exactly while the client uses them: every      *)
(* error path and the "q" exit close the socket and free the buffer, and  *)
(* nothing is released while the loop still runs.                         *)
THEOREM ResourcesReleased == Spec => []ResourceLifecycle
<1>1. Spec => []CInv
  BY InitCInv, NextCInv, PTL DEF Spec
<1>2. QED
  BY <1>1, PTL DEF CInv

=============================================================================
