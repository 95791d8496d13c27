----------------------------- MODULE Completion -----------------------------
(***************************************************************************)
(* The completion sample, examples/kernel/main/sample/completion_sample.c, *)
(* on one core under RT-Thread's preemptive priority scheduler.  The msh   *)
(* shell thread runs completion_sample() each time the user types the     *)
(* command: it initialises the completion, then initialises and starts    *)
(* thread1 (priority ThreadPrio - 1), which waits on the completion, and  *)
(* thread2 (priority ThreadPrio), which signals it.                       *)
(*                                                                         *)
(* The kernel objects are the environment, modelled from RT-Thread's      *)
(* rt_completion (a flag and a list of suspended threads; wait clears the *)
(* flag when it returns, done sets it and resumes the first waiter) and   *)
(* its scheduler (the ready thread of the numerically lowest priority     *)
(* runs; equal priorities time-share).  A thread's exit and the detaching *)
(* of its object are one step.                                            *)
(***************************************************************************)
EXTENDS Naturals, Sequences

CONSTANTS
    ShellPrio,   \* priority of the msh thread that runs the command
    ThreadPrio,  \* EXAMPLE_THREAD_PRIORITY
    MaxRuns      \* bound on the times the user types completion_sample

ASSUME CompletionConstAssumption ==
    /\ ShellPrio \in Nat
    /\ ThreadPrio \in Nat \ {0}
    /\ MaxRuns \in Nat

Threads == {"shell", "t1", "t2"}

Prio == [t \in Threads |->
           CASE t = "shell" -> ShellPrio
             [] t = "t1"    -> ThreadPrio - 1
             [] t = "t2"    -> ThreadPrio]

VARIABLES
    tstate,  \* tstate[t]: "none" (no object), "init", "ready", "suspended", "closed"
    pc,      \* pc[t]: the next statement of thread t
    flag,    \* completion.flag: "uncompleted" or "completed"
    waiters, \* completion.suspended_list
    runs     \* times the command has been typed

vars == <<tstate, pc, flag, waiters, runs>>

ShellPC == {"idle", "init_c", "init1", "start1", "init2", "start2"}
T1PC == {"wait", "woken", "leave"}
T2PC == {"done", "leave"}

TypeOK ==
    /\ tstate \in [Threads -> {"none", "init", "ready", "suspended", "closed"}]
    /\ pc \in [Threads -> ShellPC \cup T1PC \cup T2PC]
    /\ pc["shell"] \in ShellPC
    /\ pc["t1"] \in T1PC
    /\ pc["t2"] \in T2PC
    /\ flag \in {"uncompleted", "completed"}
    /\ waiters \in Seq({"t1"}) /\ Len(waiters) <= 1
    /\ runs \in 0..MaxRuns

Init ==
    /\ tstate = [t \in Threads |-> IF t = "shell" THEN "suspended" ELSE "none"]
    /\ pc = [shell |-> "idle", t1 |-> "wait", t2 |-> "done"]
    /\ flag = "uncompleted"
    /\ waiters = <<>>
    /\ runs = 0

\* Thread t is on the CPU: it is ready and no ready thread has a more
\* urgent priority.
Running(t) ==
    /\ tstate[t] = "ready"
    /\ \A u \in Threads : tstate[u] = "ready" => Prio[t] <= Prio[u]

-----------------------------------------------------------------------------
(* completion_sample(), run by the shell.                                 *)

\* The user types the command: msh readies the shell thread.
UserTypes ==
    /\ pc["shell"] = "idle"
    /\ runs < MaxRuns
    /\ runs' = runs + 1
    /\ tstate' = [tstate EXCEPT !["shell"] = "ready"]
    /\ pc' = [pc EXCEPT !["shell"] = "init_c"]
    /\ UNCHANGED <<flag, waiters>>

\* Mutant: the init clears the flag but not the list of suspended threads.
InitCompletionKeepList ==
    /\ Running("shell")
    /\ pc["shell"] = "init_c"
    /\ flag' = "uncompleted"
    /\ pc' = [pc EXCEPT !["shell"] = "init1"]
    /\ UNCHANGED <<tstate, waiters, runs>>

\* rt_completion_init(&completion).
InitCompletion ==
    /\ Running("shell")
    /\ pc["shell"] = "init_c"
    /\ flag' = "uncompleted"
    /\ waiters' = <<>>
    /\ pc' = [pc EXCEPT !["shell"] = "init1"]
    /\ UNCHANGED <<tstate, runs>>

\* rt_thread_init(&thread, ...): the object is set up afresh, suspended,
\* with its entry function as the next statement.
InitThread(t, next) ==
    /\ Running("shell")
    /\ pc["shell"] = IF t = "t1" THEN "init1" ELSE "init2"
    /\ tstate' = [tstate EXCEPT ![t] = "init"]
    /\ pc' = [pc EXCEPT ![t] = IF t = "t1" THEN "wait" ELSE "done",
                        !["shell"] = next]
    /\ UNCHANGED <<flag, runs>>

InitThread1 == InitThread("t1", "start1") /\ UNCHANGED waiters
InitThread2 == InitThread("t2", "start2") /\ UNCHANGED waiters

\* rt_thread_startup(&thread): the thread becomes ready; it preempts the
\* shell at once if its priority is more urgent.
StartThread(t, next) ==
    /\ Running("shell")
    /\ pc["shell"] = IF t = "t1" THEN "start1" ELSE "start2"
    /\ tstate' = [tstate EXCEPT ![t] = "ready"]
    /\ pc' = [pc EXCEPT !["shell"] = next]
    /\ UNCHANGED <<flag, waiters, runs>>

StartThread1 == StartThread("t1", "init2")

\* The last startup; completion_sample() returns and msh waits for input.
StartThread2 ==
    /\ StartThread("t2", "idle")

ShellDone ==
    /\ Running("shell")
    /\ pc["shell"] = "idle"
    /\ tstate' = [tstate EXCEPT !["shell"] = "suspended"]
    /\ UNCHANGED <<pc, flag, waiters, runs>>

-----------------------------------------------------------------------------
(* thread1_completion_wait()                                             *)

\* Mutant: the wait returns at once whatever the flag.
T1WaitNoBlock ==
    /\ Running("t1")
    /\ pc["t1"] = "wait"
    /\ flag' = "uncompleted"
    /\ pc' = [pc EXCEPT !["t1"] = "leave"]
    /\ UNCHANGED <<tstate, waiters, runs>>

\* rt_completion_wait(&completion, RT_WAITING_FOREVER): return at once if
\* the flag is set (clearing it), else suspend on the list.
T1Wait ==
    /\ Running("t1")
    /\ pc["t1"] = "wait"
    /\ IF flag = "completed"
          THEN /\ flag' = "uncompleted"
               /\ pc' = [pc EXCEPT !["t1"] = "leave"]
               /\ UNCHANGED <<tstate, waiters>>
          ELSE /\ tstate' = [tstate EXCEPT !["t1"] = "suspended"]
               /\ waiters' = Append(waiters, "t1")
               /\ pc' = [pc EXCEPT !["t1"] = "woken"]
               /\ UNCHANGED flag
    /\ UNCHANGED runs

\* Resumed by rt_completion_done: the wait clears the flag and returns.
T1Woken ==
    /\ Running("t1")
    /\ pc["t1"] = "woken"
    /\ flag' = "uncompleted"
    /\ pc' = [pc EXCEPT !["t1"] = "leave"]
    /\ UNCHANGED <<tstate, waiters, runs>>

\* "completion waiting done", "thread1 leave.", and the entry returns.
T1Leave ==
    /\ Running("t1")
    /\ pc["t1"] = "leave"
    /\ tstate' = [tstate EXCEPT !["t1"] = "closed"]
    /\ UNCHANGED <<pc, flag, waiters, runs>>

-----------------------------------------------------------------------------
(* thread2_completion_done()                                             *)

\* Mutant: done sets the flag but resumes no waiter (a lost wake-up).
T2DoneNoResume ==
    /\ Running("t2")
    /\ pc["t2"] = "done"
    /\ flag' = "completed"
    /\ pc' = [pc EXCEPT !["t2"] = "leave"]
    /\ UNCHANGED <<tstate, waiters, runs>>

\* rt_completion_done(&completion): nothing if the flag is already set;
\* else set it and resume the first waiter.
T2Done ==
    /\ Running("t2")
    /\ pc["t2"] = "done"
    /\ IF flag = "completed"
          THEN UNCHANGED <<flag, waiters, tstate>>
          ELSE /\ flag' = "completed"
               /\ IF waiters = <<>>
                     THEN UNCHANGED <<waiters, tstate>>
                     ELSE /\ waiters' = Tail(waiters)
                          /\ tstate' = [tstate EXCEPT ![Head(waiters)] = "ready"]
    /\ pc' = [pc EXCEPT !["t2"] = "leave"]
    /\ UNCHANGED runs

\* "thread2 leave.", and the entry returns.
T2Leave ==
    /\ Running("t2")
    /\ pc["t2"] = "leave"
    /\ tstate' = [tstate EXCEPT !["t2"] = "closed"]
    /\ UNCHANGED <<pc, flag, waiters, runs>>

-----------------------------------------------------------------------------
ShellStep ==
    \/ InitCompletion \/ InitThread1 \/ StartThread1
    \/ InitThread2 \/ StartThread2 \/ ShellDone
Thread1Step == T1Wait \/ T1Woken \/ T1Leave
Thread2Step == T2Done \/ T2Leave

Next == UserTypes \/ ShellStep \/ Thread1Step \/ Thread2Step

Spec == Init /\ [][Next]_vars

(* Every ready thread that is the most urgent is eventually dispatched;   *)
(* the user is not obliged to type anything.                              *)
FairSpec ==
    /\ Spec
    /\ WF_vars(ShellStep) /\ WF_vars(Thread1Step) /\ WF_vars(Thread2Step)

-----------------------------------------------------------------------------
(* Properties.                                                            *)

(* thread1 gets past rt_completion_wait() only after thread2 has called   *)
(* rt_completion_done() in the same run: the wait never returns early,    *)
(* whichever of the two threads the scheduler dispatches first.           *)
WaitEndsAfterDone ==
    pc["t1"] = "leave" /\ tstate["t1"] # "closed" => pc["t2"] = "leave"

(* Once the command has been typed, both threads eventually leave: the    *)
(* signal is not lost whether thread2 signals before or after thread1     *)
(* waits.                                                                 *)
BothThreadsLeave ==
    runs > 0 ~> (tstate["t1"] = "closed" /\ tstate["t2"] = "closed")

(* completion_sample() calls rt_thread_init() only on a thread object that *)
(* is not in use: one never initialised or one whose thread has exited.    *)
NoReinitOfLiveThread ==
    [][\A t \in {"t1", "t2"} :
          tstate'[t] = "init" => tstate[t] \in {"none", "closed"}]_vars

=============================================================================
