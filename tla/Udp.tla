-------------------------------- MODULE Udp --------------------------------
(***************************************************************************)
(* The UDP samples of examples/network/main/sample, composed over a lossy *)
(* network: udpclient() of udpclient_sample.c sends `count' datagrams of  *)
(* send_data to the server, and udpserver() of udpserver_sample.c prints  *)
(* every datagram it receives and returns on one that is exactly "exit".  *)
(* Another host may send that "exit" datagram.                            *)
(*                                                                         *)
(* A datagram is "data" (the client's send_data, DataLen bytes) or "exit" *)
(* (4 bytes).  Datagrams reach the server's socket only while it is bound *)
(* and may be lost or reordered on the way; recvfrom() takes any queued   *)
(* one.  `count' is a C int of IntWidth bits.                             *)
(***************************************************************************)
EXTENDS Integers, Sequences

CONSTANTS
    BufSize,       \* EXAMPLE_NETWORK_BUFFER_SIZE
    DataLen,       \* strlen(send_data) of the client
    DefaultCount,  \* the count when no COUNT argument is given (10)
    CountArgs,     \* the values strtoul(argv[3]) can give `count'
    IntWidth,      \* bits of an int
    MaxRecvErr     \* bound on failed recvfrom() calls

ASSUME UdpConstAssumption ==
    /\ BufSize \in Nat \ {0}
    /\ DataLen \in Nat \ {0}
    /\ IntWidth \in Nat \ {0}
    /\ DefaultCount \in 0..(2^(IntWidth - 1) - 1)
    /\ CountArgs \subseteq -(2^(IntWidth - 1))..(2^(IntWidth - 1) - 1)
    /\ MaxRecvErr \in Nat

\* Mutant: the count-- of the loop is missing.
DecMissing(x) == x

\* count-- on an int of IntWidth bits: INT_MIN - 1 wraps to INT_MAX.
Dec(x) == IF x = -(2^(IntWidth - 1)) THEN 2^(IntWidth - 1) - 1 ELSE x - 1

\* A bound on sendto() calls: the number of ints of IntWidth bits,
\* 2^IntWidth.  count reaches 0 within that many decrements whatever it
\* starts at, so the code never meets it.
SendBound == 2 * 2^(IntWidth - 1)

\* The bytes a datagram carries.
Bytes(d) == IF d = "exit" THEN 4 ELSE DataLen

Dgram == {"data", "exit"}

\* Mutant: recvfrom(sock, recv_data, BUFFER_SIZE, ...), one byte too many.
TermIdxOffByOne(d) == IF Bytes(d) < BufSize THEN Bytes(d) ELSE BufSize

\* bytes_read of a datagram d read with a limit of BUFFER_SIZE - 1 bytes.
TermIdx(d) == IF Bytes(d) < BufSize - 1 THEN Bytes(d) ELSE BufSize - 1

VARIABLES
    spc,       \* udpserver(): "malloc", "socket", "bind", "loop", "done"
    sbuf,      \* its recv_data: "none", "held", "freed"
    ssock,     \* its socket: "none", "open", "closed"
    recvData,  \* the datagram recv_data holds, or "none"
    termIdx,   \* the index of the last recv_data[bytes_read] = '\0' (0 before any)
    recvErrs,  \* failed recvfrom() calls so far
    cpc,       \* udpclient(): "args", "resolve", "socket", "loop", "done", "fault"
    host,      \* its gethostbyname() result: "none", "entry", "null"
    csock,     \* its socket: "none", "open", "closed"
    count,     \* its `count'
    asked,     \* the count it was asked for
    nsent,     \* datagrams it has sent
    exitSent,  \* the other host has sent its "exit" datagram
    net        \* datagrams on their way to or queued at the server's socket

serverVars == <<spc, sbuf, ssock, recvData, termIdx, recvErrs>>
clientVars == <<cpc, host, csock, count, asked, nsent>>
vars == <<serverVars, clientVars, exitSent, net>>

TypeOK ==
    /\ spc \in {"malloc", "socket", "bind", "loop", "done"}
    /\ sbuf \in {"none", "held", "freed"}
    /\ ssock \in {"none", "open", "closed"}
    /\ recvData \in Dgram \cup {"none"}
    /\ termIdx \in -1..(BufSize - 1)
    /\ recvErrs \in 0..MaxRecvErr
    /\ cpc \in {"args", "resolve", "socket", "loop", "done", "fault"}
    /\ host \in {"none", "entry", "null"}
    /\ csock \in {"none", "open", "closed"}
    /\ count \in -(2^(IntWidth - 1))..(2^(IntWidth - 1) - 1)
    /\ asked \in Int
    /\ nsent \in 0..SendBound
    /\ exitSent \in BOOLEAN
    /\ net \in Seq(Dgram)

Init ==
    /\ spc = "malloc"
    /\ sbuf = "none"
    /\ ssock = "none"
    /\ recvData = "none"
    /\ termIdx = 0
    /\ recvErrs = 0
    /\ cpc = "args"
    /\ host = "none"
    /\ csock = "none"
    /\ count = 0
    /\ asked = 0
    /\ nsent = 0
    /\ exitSent = FALSE
    /\ net = <<>>

\* A datagram sent to the server reaches its queue only if it is bound.
Deliver(d) == IF spc = "loop" THEN Append(net, d) ELSE net

-----------------------------------------------------------------------------
(* udpserver()                                                            *)

\* recv_data = rt_malloc(EXAMPLE_NETWORK_BUFFER_SIZE); return on RT_NULL.
SMalloc ==
    /\ spc = "malloc"
    /\ \/ sbuf' = "held" /\ spc' = "socket"
       \/ spc' = "done" /\ UNCHANGED sbuf
    /\ UNCHANGED <<ssock, recvData, termIdx, recvErrs, clientVars, exitSent, net>>

\* sock = socket(AF_INET, SOCK_DGRAM, 0); on -1 free and return.
SSocket ==
    /\ spc = "socket"
    /\ \/ ssock' = "open" /\ spc' = "bind" /\ UNCHANGED sbuf
       \/ sbuf' = "freed" /\ spc' = "done" /\ UNCHANGED ssock
    /\ UNCHANGED <<recvData, termIdx, recvErrs, clientVars, exitSent, net>>

\* Mutant: the bind error path returns without rt_free(recv_data).
SBindLeakingBuf ==
    /\ spc = "bind"
    /\ spc' \in {"loop", "done"}
    /\ UNCHANGED <<sbuf, ssock, recvData, termIdx, recvErrs, clientVars,
                   exitSent, net>>

\* bind(sock, ...); on -1 free the buffer and return (sock stays open).
SBind ==
    /\ spc = "bind"
    /\ \/ spc' = "loop" /\ UNCHANGED sbuf
       \/ sbuf' = "freed" /\ spc' = "done"
    /\ UNCHANGED <<ssock, recvData, termIdx, recvErrs, clientVars, exitSent, net>>

\* One pass of while (1): bytes_read = recvfrom(sock, recv_data,
\* BUFFER_SIZE - 1, ...) blocks for a datagram (or fails with -1);
\* recv_data[bytes_read] = '\0'; print; on "exit" close, free and break.
\* After a failure recv_data still holds the previous datagram.
SRecvfrom ==
    /\ spc = "loop"
    /\ \/ \E i \in 1..Len(net) :
            /\ recvData' = net[i]
            /\ termIdx' = TermIdx(net[i])
            /\ net' = [j \in 1..(Len(net) - 1) |->
                         IF j < i THEN net[j] ELSE net[j + 1]]
            /\ UNCHANGED recvErrs
       \/ /\ recvErrs < MaxRecvErr
          /\ recvErrs' = recvErrs + 1
          /\ termIdx' = -1
          /\ UNCHANGED <<recvData, net>>
    /\ IF recvData' = "exit"
          THEN ssock' = "closed" /\ sbuf' = "freed" /\ spc' = "done"
          ELSE UNCHANGED <<ssock, sbuf, spc>>
    /\ UNCHANGED <<clientVars, exitSent>>

ServerStep == SMalloc \/ SSocket \/ SBind \/ SRecvfrom

-----------------------------------------------------------------------------
(* udpclient()                                                            *)

\* if (argc < 3) return; count = argc > 3 ? strtoul(argv[3]) : 10.
CArgs ==
    /\ cpc = "args"
    /\ \/ cpc' = "done" /\ UNCHANGED <<count, asked>>
       \/ \E n \in CountArgs \cup {DefaultCount} :
             count' = n /\ asked' = n /\ cpc' = "resolve"
    /\ UNCHANGED <<serverVars, host, csock, nsent, exitSent, net>>

\* host = gethostbyname(url): the result is not checked.
CResolve ==
    /\ cpc = "resolve"
    /\ host' \in {"entry", "null"}
    /\ cpc' = "socket"
    /\ UNCHANGED <<serverVars, csock, count, asked, nsent, exitSent, net>>

\* sock = socket(AF_INET, SOCK_DGRAM, 0), return on -1; then
\* server_addr.sin_addr = *((struct in_addr *)host->h_addr), which faults
\* on a NULL host entry.
CSocket ==
    /\ cpc = "socket"
    /\ \/ cpc' = "done" /\ UNCHANGED csock
       \/ csock' = "open" /\ cpc' = IF host = "null" THEN "fault" ELSE "loop"
    /\ UNCHANGED <<serverVars, host, count, asked, nsent, exitSent, net>>

\* while (count) { sendto(...); rt_thread_delay(50); count--; }: the result
\* of sendto() is ignored.
CSendto ==
    /\ cpc = "loop"
    /\ count # 0
    /\ nsent < SendBound
    /\ net' = Deliver("data")
    /\ nsent' = nsent + 1
    /\ count' = Dec(count)
    /\ UNCHANGED <<serverVars, cpc, host, csock, asked, exitSent>>

\* Mutant: the loop stops one pass early, as `while (--count)' would.
CCloseOffByOne ==
    /\ cpc = "loop"
    /\ count <= 1
    /\ csock' = "closed"
    /\ cpc' = "done"
    /\ UNCHANGED <<serverVars, host, count, asked, nsent, exitSent, net>>

\* The loop ends at count = 0: closesocket(sock).
CClose ==
    /\ cpc = "loop"
    /\ count = 0
    /\ csock' = "closed"
    /\ cpc' = "done"
    /\ UNCHANGED <<serverVars, host, count, asked, nsent, exitSent, net>>

ClientStep == CArgs \/ CResolve \/ CSocket \/ CSendto \/ CClose

-----------------------------------------------------------------------------
(* The other host and the network.                                        *)

OtherSendExit ==
    /\ ~exitSent
    /\ exitSent' = TRUE
    /\ net' = Deliver("exit")
    /\ UNCHANGED <<serverVars, clientVars>>

Lose ==
    /\ \E i \in 1..Len(net) :
         net' = [j \in 1..(Len(net) - 1) |-> IF j < i THEN net[j] ELSE net[j + 1]]
    /\ UNCHANGED <<serverVars, clientVars, exitSent>>

Next == ServerStep \/ ClientStep \/ OtherSendExit \/ Lose

Spec == Init /\ [][Next]_vars

(* Both sample threads run whenever they can.                             *)
FairSpec == Spec /\ WF_vars(ServerStep) /\ WF_vars(ClientStep)

-----------------------------------------------------------------------------
(* Properties.                                                            *)

(* udpserver() holds its buffer exactly between rt_malloc() and a return: *)
(* the socket and bind error paths and the "exit" path free it, and no    *)
(* path frees it while the loop can still write into it.                  *)
ServerBufferLifecycle == sbuf = "held" <=> spc \in {"socket", "bind", "loop"}

(* udpclient() sends COUNT datagrams, as its header comment says: when it *)
(* has closed its socket, the number of sendto() calls is the count it   *)
(* was given.                                                             *)
SendsRequestedCount == csock = "closed" => nsent = asked

(* udpclient() always returns: its loop counts `count' down to zero.      *)
ClientTerminates == <>(cpc \in {"done", "fault"})

=============================================================================
