------------------------------ MODULE UdpProofs ------------------------------
(***************************************************************************)
(* Proofs about the UDP samples, for every value of the constants.         *)
(* udpserver() holds its buffer exactly while it can still use it.         *)
(* udpclient(), given a count that is not negative, sends exactly that     *)
(* many datagrams before it closes its socket.  With a negative count the  *)
(* int wraps around and the claim is false; that case stays a hazard.      *)
(***************************************************************************)
EXTENDS Udp, TLAPS

\* ServerBufferLifecycle is inductive as it stands: every server step
\* moves sbuf and spc together.
LEMMA ServerStepKeepsBuffer ==
    ASSUME ServerBufferLifecycle, [Next]_vars
    PROVE  ServerBufferLifecycle'
<1>1. CASE SMalloc      BY <1>1 DEF SMalloc, ServerBufferLifecycle
<1>2. CASE SSocket      BY <1>2 DEF SSocket, ServerBufferLifecycle
<1>3. CASE SBind        BY <1>3 DEF SBind, ServerBufferLifecycle
<1>4. CASE SRecvfrom    BY <1>4 DEF SRecvfrom, ServerBufferLifecycle
<1>5. CASE ClientStep
      BY <1>5 DEF ClientStep, CArgs, CResolve, CSocket, CSendto, CClose,
                  serverVars, ServerBufferLifecycle
<1>6. CASE OtherSendExit \/ Lose
      BY <1>6 DEF OtherSendExit, Lose, serverVars, ServerBufferLifecycle
<1>7. CASE UNCHANGED vars
      BY <1>7 DEF vars, serverVars, ServerBufferLifecycle
<1>8. QED BY <1>1, <1>2, <1>3, <1>4, <1>5, <1>6, <1>7 DEF Next, ServerStep

(* udpserver() never frees recv_data while its receive loop can still     *)
(* write into it, and frees it on every path that returns.                *)
THEOREM ServerBufferReleased == Spec => []ServerBufferLifecycle
<1>1. Init => ServerBufferLifecycle BY DEF Init, ServerBufferLifecycle
<1>2. QED BY <1>1, ServerStepKeepsBuffer, PTL DEF Spec

-----------------------------------------------------------------------------
(* The client's count.                                                    *)

\* Every count the client can be given is a natural number.
NonNegCounts == CountArgs \subseteq Nat

\* The strengthening of SendsRequestedCount: before the loop nothing is
\* sent and the count is the one asked for; in the loop the count is what
\* remains to send.
CountInv ==
    /\ count \in Int /\ asked \in Int /\ nsent \in Nat
    /\ cpc \in {"resolve", "socket"} => count = asked /\ count >= 0 /\ nsent = 0
    /\ cpc = "args" => nsent = 0
    /\ cpc \in {"args", "resolve", "socket"} => csock = "none"
    /\ cpc = "loop" => count = asked - nsent /\ count >= 0
    /\ SendsRequestedCount

LEMMA InitCountInv == Init => CountInv
BY DEF Init, CountInv, SendsRequestedCount

LEMMA NextCountInv ==
    ASSUME NonNegCounts, CountInv, [Next]_vars
    PROVE  CountInv'
<1> USE DEF CountInv, SendsRequestedCount
<1>1. CASE ServerStep
      BY <1>1 DEF ServerStep, SMalloc, SSocket, SBind, SRecvfrom, clientVars
<1>2. CASE CArgs
      BY <1>2, UdpConstAssumption DEF CArgs, NonNegCounts
<1>3. CASE CResolve BY <1>3 DEF CResolve
<1>4. CASE CSocket BY <1>4 DEF CSocket
<1>5. CASE CSendto
      <2>1. count >= 1 BY <1>5 DEF CSendto
      <2>2. Dec(count) = count - 1 BY <2>1, UdpConstAssumption DEF Dec
      <2>3. QED BY <1>5, <2>1, <2>2 DEF CSendto
<1>6. CASE CClose BY <1>6 DEF CClose
<1>7. CASE OtherSendExit \/ Lose BY <1>7 DEF OtherSendExit, Lose, clientVars
<1>8. CASE UNCHANGED vars BY <1>8 DEF vars, clientVars
<1>9. QED BY <1>1, <1>2, <1>3, <1>4, <1>5, <1>6, <1>7, <1>8 DEF Next, ClientStep

(* udpclient() sends exactly the COUNT datagrams it is asked for, as its  *)
(* header says, whenever that count is not negative: when its socket is   *)
(* closed, the number of sendto() calls equals the count given.           *)
THEOREM SendsCount ==
    ASSUME NonNegCounts
    PROVE  Spec => []SendsRequestedCount
<1>1. CountInv => SendsRequestedCount BY DEF CountInv
<1>2. QED BY InitCountInv, NextCountInv, <1>1, PTL DEF Spec

-----------------------------------------------------------------------------
(* Types.                                                                 *)

\* Removing the i-th datagram from the queue leaves a queue.
LEMMA RemoveTyped ==
    ASSUME NEW q \in Seq(Dgram), NEW i \in 1..Len(q)
    PROVE  [j \in 1..(Len(q) - 1) |-> IF j < i THEN q[j] ELSE q[j + 1]]
              \in Seq(Dgram)
<1>1. Len(q) - 1 \in Nat OBVIOUS
<1>2. \A j \in 1..(Len(q) - 1) : (IF j < i THEN q[j] ELSE q[j + 1]) \in Dgram
      OBVIOUS
<1>3. QED BY <1>1, <1>2

\* count-- keeps an int of IntWidth bits.
LEMMA DecTyped ==
    ASSUME UdpConstAssumption,
           NEW x \in -(2^(IntWidth - 1))..(2^(IntWidth - 1) - 1)
    PROVE  Dec(x) \in -(2^(IntWidth - 1))..(2^(IntWidth - 1) - 1)
<1>1. 2^(IntWidth - 1) \in Nat \ {0}
      <2>1. IntWidth - 1 \in Nat BY UdpConstAssumption
      <2>2. QED BY <2>1
<1>2. QED BY <1>1 DEF Dec

\* The bound on sendto() calls is a natural number.
LEMMA SendBoundNat == ASSUME UdpConstAssumption PROVE SendBound \in Nat
<1>1. 2^(IntWidth - 1) \in Nat \ {0}
      <2>1. IntWidth - 1 \in Nat BY UdpConstAssumption
      <2>2. QED BY <2>1, UdpConstAssumption
<1>2. QED BY <1>1 DEF SendBound

\* What recvfrom() can write as the terminator index.
LEMMA TermIdxTyped ==
    ASSUME UdpConstAssumption, NEW d \in Dgram
    PROVE  TermIdx(d) \in -1..(BufSize - 1)
BY UdpConstAssumption DEF TermIdx, Bytes, Dgram

LEMMA InitTypeOK == ASSUME UdpConstAssumption PROVE Init => TypeOK
<1>1. 0 \in -(2^(IntWidth - 1))..(2^(IntWidth - 1) - 1)
      <2>1. 2^(IntWidth - 1) \in Nat \ {0}
            <3>1. IntWidth - 1 \in Nat BY UdpConstAssumption
            <3>2. QED BY <3>1
      <2>2. QED BY <2>1
<1>2. SendBound \in Nat BY SendBoundNat
<1>3. 0 \in 0..SendBound BY <1>2
<1>4. 0 \in -1..(BufSize - 1) /\ 0 \in 0..MaxRecvErr BY UdpConstAssumption
<1>5. <<>> \in Seq(Dgram) /\ 0 \in Int OBVIOUS
<1>6. QED BY <1>1, <1>3, <1>4, <1>5, Zenon DEF Init, TypeOK

LEMMA NextTypeOK ==
    ASSUME UdpConstAssumption, TypeOK, [Next]_vars
    PROVE  TypeOK'
<1> USE DEF TypeOK
<1>1. CASE SMalloc \/ SSocket \/ SBind BY <1>1 DEF SMalloc, SSocket, SBind, clientVars
<1>2. CASE SRecvfrom
      <2>1. /\ spc' \in {"malloc", "socket", "bind", "loop", "done"}
            /\ sbuf' \in {"none", "held", "freed"}
            /\ ssock' \in {"none", "open", "closed"}
            <3>1. CASE recvData' = "exit" BY <1>2, <3>1 DEF SRecvfrom
            <3>2. CASE recvData' # "exit" BY <1>2, <3>2 DEF SRecvfrom
            <3>3. QED BY <3>1, <3>2
      <2>2. UNCHANGED <<cpc, host, csock, count, asked, nsent, exitSent>>
            BY <1>2 DEF SRecvfrom, clientVars
      <2>3. CASE \E i \in 1..Len(net) :
                    /\ recvData' = net[i]
                    /\ termIdx' = TermIdx(net[i])
                    /\ net' = [j \in 1..(Len(net) - 1) |->
                                 IF j < i THEN net[j] ELSE net[j + 1]]
                    /\ UNCHANGED recvErrs
            <3>1. PICK i \in 1..Len(net) :
                    /\ recvData' = net[i]
                    /\ termIdx' = TermIdx(net[i])
                    /\ net' = [j \in 1..(Len(net) - 1) |->
                                 IF j < i THEN net[j] ELSE net[j + 1]]
                    /\ UNCHANGED recvErrs
                  BY <2>3
            <3>2. net[i] \in Dgram OBVIOUS
            <3>3. termIdx' \in -1..(BufSize - 1) BY <3>1, <3>2, TermIdxTyped
            <3>4. net' \in Seq(Dgram) BY <3>1, RemoveTyped
            <3>5. recvData' \in Dgram \cup {"none"} /\ recvErrs' \in 0..MaxRecvErr
                  BY <3>1, <3>2
            <3>6. QED BY <2>1, <2>2, <3>3, <3>4, <3>5
      <2>4. CASE recvErrs < MaxRecvErr /\ recvErrs' = recvErrs + 1 /\ termIdx' = -1
                 /\ UNCHANGED <<recvData, net>>
            <3>1. recvErrs' \in 0..MaxRecvErr BY <2>4, UdpConstAssumption
            <3>2. termIdx' \in -1..(BufSize - 1) BY <2>4, UdpConstAssumption
            <3>3. QED BY <2>1, <2>2, <2>4, <3>1, <3>2
      <2>5. QED BY <1>2, <2>3, <2>4 DEF SRecvfrom
<1>3. CASE CArgs
      <2>1. CountArgs \cup {DefaultCount}
               \subseteq -(2^(IntWidth - 1))..(2^(IntWidth - 1) - 1)
            BY UdpConstAssumption
      <2>2. QED BY <1>3, <2>1 DEF CArgs, serverVars
<1>4. CASE CResolve \/ CSocket BY <1>4 DEF CResolve, CSocket, serverVars
<1>5. CASE CSendto
      <2>1. count' \in -(2^(IntWidth - 1))..(2^(IntWidth - 1) - 1)
            BY <1>5, DecTyped DEF CSendto
      <2>2. net' \in Seq(Dgram) BY <1>5 DEF CSendto, Deliver, Dgram
      <2>3. nsent' \in 0..SendBound BY <1>5, SendBoundNat DEF CSendto
      <2>4. QED BY <1>5, <2>1, <2>2, <2>3 DEF CSendto, serverVars
<1>6. CASE CClose BY <1>6 DEF CClose, serverVars
<1>7. CASE OtherSendExit BY <1>7 DEF OtherSendExit, Deliver, Dgram, serverVars,
                                    clientVars
<1>8. CASE Lose
      <2>1. PICK i \in 1..Len(net) :
              net' = [j \in 1..(Len(net) - 1) |-> IF j < i THEN net[j] ELSE net[j + 1]]
            BY <1>8 DEF Lose
      <2>2. net' \in Seq(Dgram) BY <2>1, RemoveTyped
      <2>3. QED BY <1>8, <2>2 DEF Lose, serverVars, clientVars
<1>9. CASE UNCHANGED vars BY <1>9 DEF vars, serverVars, clientVars
<1>10. QED BY <1>1, <1>2, <1>3, <1>4, <1>5, <1>6, <1>7, <1>8, <1>9
       DEF Next, ServerStep, ClientStep

(* The two samples and the network keep every variable within its type   *)
(* for every buffer size, int width and bound: the terminator index stays *)
(* inside recv_data or is -1 after a failed recvfrom(), count stays an    *)
(* int of IntWidth bits as count-- wraps, and the queue holds datagrams.  *)
THEOREM UdpTypeCorrect == Spec => []TypeOK
BY InitTypeOK, NextTypeOK, UdpConstAssumption, PTL DEF Spec

=============================================================================
