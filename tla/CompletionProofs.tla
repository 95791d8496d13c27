-------------------------- MODULE CompletionProofs --------------------------
(***************************************************************************)
(* Proofs about the completion sample for every value of its constants.    *)
(*                                                                         *)
(* WaitEndsAfterDone holds for every pair of priorities, but not by its    *)
(* own induction: the danger is the shell re-initialising thread2 (its     *)
(* pc back to "done") while thread1 stands released at "leave".  CInv      *)
(* says why that never happens.  Within one completion_sample() call the  *)
(* shell stays ready, so a thread2 left over from an earlier call can      *)
(* signal the fresh completion only if its priority does not beat the     *)
(* shell's (ThreadPrio <= ShellPrio); thread1, one step more urgent, is    *)
(* then ready whenever it is released, and the shell cannot be dispatched  *)
(* to rt_thread_init(&thread2) until thread1 has left.                     *)
(*                                                                         *)
(* The suspended list may hold thread1 twice, or hold it after it was     *)
(* re-initialised, only when the shell shares thread1's priority          *)
(* (ShellPrio = ThreadPrio - 1): the two then time-share and thread1 can  *)
(* wait between rt_completion_init() and rt_thread_init(&thread1).  The    *)
(* type invariant, which bounds the list by one, is proved for the other  *)
(* priorities.                                                            *)
(***************************************************************************)
EXTENDS Completion, SequenceTheorems, TLAPS

\* TypeOK without its bound on the length of the suspended list.
TypeBase ==
    /\ tstate \in [Threads -> {"none", "init", "ready", "suspended", "closed"}]
    /\ pc \in [Threads -> ShellPC \cup T1PC \cup T2PC]
    /\ pc["shell"] \in ShellPC
    /\ pc["t1"] \in T1PC
    /\ pc["t2"] \in T2PC
    /\ flag \in {"uncompleted", "completed"}
    /\ waiters \in Seq({"t1"})
    /\ runs \in 0..MaxRuns

\* What a thread's kernel state says of its pc and of the shell's: a thread
\* object is "init" exactly between the shell's rt_thread_init() and
\* rt_thread_startup() of it, and only thread1 ever suspends.
ThreadStates ==
    /\ tstate["shell"] \in {"ready", "suspended"}
    /\ tstate["shell"] = "suspended" => pc["shell"] = "idle"
    /\ tstate["t1"] = "init" <=> pc["shell"] = "start1"
    /\ tstate["t2"] = "init" <=> pc["shell"] = "start2"
    /\ tstate["t1"] = "init" => pc["t1"] = "wait"
    /\ tstate["t2"] = "init" => pc["t2"] = "done"
    /\ tstate["t1"] = "none" => /\ pc["t1"] = "wait"
                                /\ tstate["t2"] = "none"
                                /\ pc["shell"] \in {"idle", "init_c", "init1"}
    /\ tstate["t2"] = "none" => pc["t2"] = "done"
    /\ tstate["t1"] = "closed" => pc["t1"] = "leave"
    /\ tstate["t2"] = "closed" => pc["t2"] = "leave"
    /\ tstate["t1"] = "suspended" => pc["t1"] = "woken"
    /\ tstate["t2"] # "suspended"

\* The suspended list holds thread1 only while it is suspended in the wait,
\* except when the shell shares thread1's priority; rt_completion_init()
\* empties it, and only in that case can thread1 wait again before the
\* shell re-initialises it.
WaitList ==
    /\ tstate["t1"] = "suspended" /\ waiters = <<>> => pc["shell"] = "init1"
    /\ waiters # <<>> /\ ~(tstate["t1"] = "suspended" /\ pc["t1"] = "woken")
         => ShellPrio = Prio["t1"]
    /\ Len(waiters) > 1 => ShellPrio = Prio["t1"]
    /\ pc["shell"] = "init1" /\ tstate["t1"] = "ready" /\ pc["t1"] = "wait"
         => ShellPrio <= Prio["t1"]
    /\ pc["shell"] \in {"init1", "start1"} /\ waiters # <<>>
         => ShellPrio = Prio["t1"]

\* A set flag and a released thread1 both come from thread2's
\* rt_completion_done().
Signalled ==
    /\ flag = "completed" => pc["t2"] = "leave"
    /\ pc["t1"] = "woken" /\ tstate["t1"] = "ready" => pc["t2"] = "leave"
    /\ WaitEndsAfterDone

\* Inside completion_sample() the shell is ready: thread2 signals only if
\* its priority does not beat the shell's, and a released thread1 then
\* keeps the shell from reaching rt_thread_init(&thread2).
DuringCall ==
    /\ pc["shell"] \in {"init1", "start1", "init2"} /\ flag = "completed"
         => Prio["t2"] <= ShellPrio
    /\ pc["shell"] = "init2"
       /\ (pc["t1"] = "leave" \/ (pc["t1"] = "woken" /\ tstate["t1"] = "ready"))
         => Prio["t2"] <= ShellPrio /\ pc["t2"] = "leave"
    /\ pc["shell"] = "init2" /\ flag = "completed"
         => tstate["t1"] = "ready" /\ pc["t1"] \in {"wait", "woken"}
    /\ pc["shell"] = "start2"
         => /\ flag = "uncompleted"
            /\ ~(tstate["t1"] = "ready" /\ pc["t1"] \in {"leave", "woken"})

CInv == TypeBase /\ ThreadStates /\ WaitList /\ Signalled /\ DuringCall

\* The priorities the sample gives its threads.
LEMMA PrioVals ==
    ASSUME CompletionConstAssumption
    PROVE  /\ Prio["shell"] = ShellPrio
           /\ Prio["t1"] = ThreadPrio - 1
           /\ Prio["t2"] = ThreadPrio
           /\ \A t \in Threads : Prio[t] \in Int
BY DEF Prio, Threads

\* A running thread is ready and no ready thread is more urgent.
LEMMA RunningFacts ==
    ASSUME NEW t \in Threads, Running(t)
    PROVE  /\ tstate[t] = "ready"
           /\ tstate["shell"] = "ready" => Prio[t] <= Prio["shell"]
           /\ tstate["t1"] = "ready" => Prio[t] <= Prio["t1"]
           /\ tstate["t2"] = "ready" => Prio[t] <= Prio["t2"]
BY DEF Running, Threads

LEMMA InitCInv == ASSUME CompletionConstAssumption PROVE Init => CInv
<1> SUFFICES ASSUME Init PROVE CInv
  OBVIOUS
<1>1. /\ tstate["shell"] = "suspended" /\ tstate["t1"] = "none"
      /\ tstate["t2"] = "none"
      /\ pc["shell"] = "idle" /\ pc["t1"] = "wait" /\ pc["t2"] = "done"
  BY DEF Init, Threads
<1>2. TypeBase
  <2>1. tstate \in [Threads -> {"none", "init", "ready", "suspended", "closed"}]
    BY DEF Init, Threads
  <2>2. pc \in [Threads -> ShellPC \cup T1PC \cup T2PC]
    BY DEF Init, Threads, ShellPC, T1PC, T2PC
  <2>3. QED
    BY <1>1, <2>1, <2>2 DEF Init, TypeBase, ShellPC, T1PC, T2PC
<1>3. QED
  BY <1>1, <1>2 DEF Init, CInv, ThreadStates, WaitList, Signalled, DuringCall,
                    WaitEndsAfterDone

LEMMA NextCInv ==
    ASSUME CompletionConstAssumption, CInv, [Next]_vars
    PROVE  CInv'
<1> USE PrioVals DEF CInv, TypeBase, ThreadStates, WaitList, Signalled,
                     DuringCall, WaitEndsAfterDone, Threads, ShellPC, T1PC, T2PC
<1>1. CASE UserTypes
  BY <1>1 DEF UserTypes
<1>2. CASE InitCompletion
  BY <1>2, RunningFacts DEF InitCompletion
<1>3. CASE InitThread1
  BY <1>3, RunningFacts DEF InitThread1, InitThread
<1>4. CASE StartThread1
  BY <1>4, RunningFacts DEF StartThread1, StartThread
<1>5. CASE InitThread2
  BY <1>5, RunningFacts DEF InitThread2, InitThread
<1>6. CASE StartThread2
  BY <1>6, RunningFacts DEF StartThread2, StartThread
<1>7. CASE ShellDone
  BY <1>7, RunningFacts DEF ShellDone
<1>8. CASE T1Wait
  <2>1. tstate["t1"] = "ready" /\ pc["t1"] = "wait"
    BY <1>8, RunningFacts DEF T1Wait
  <2>2. CASE flag = "completed"
    BY <1>8, <2>1, <2>2 DEF T1Wait
  <2>3. CASE flag # "completed"
    <3>1. /\ waiters' = Append(waiters, "t1")
          /\ tstate' = [tstate EXCEPT !["t1"] = "suspended"]
          /\ pc' = [pc EXCEPT !["t1"] = "woken"]
          /\ UNCHANGED <<flag, runs>>
      BY <1>8, <2>3 DEF T1Wait
    <3>2. /\ waiters' \in Seq({"t1"})
          /\ Len(waiters') = Len(waiters) + 1
          /\ waiters' # <<>>
      BY <3>1, AppendProperties
    <3>3. Len(waiters) >= 1 => ShellPrio = Prio["t1"]
      BY <2>1, EmptySeq
    <3>4. Running("t1")
      BY <1>8 DEF T1Wait
    <3>5. pc["shell"] \in {"init1", "start1"} => ShellPrio = Prio["t1"]
      BY <2>1, <3>4, RunningFacts
    <3>6. QED
      BY <2>1, <2>3, <3>1, <3>2, <3>3, <3>5
  <2>4. QED
    BY <2>2, <2>3
<1>9. CASE T1Woken
  BY <1>9, RunningFacts DEF T1Woken
<1>10. CASE T1Leave
  BY <1>10, RunningFacts DEF T1Leave
<1>11. CASE T2Done
  <2>1. /\ Running("t2") /\ pc["t2"] = "done" /\ tstate["t2"] = "ready"
        /\ pc' = [pc EXCEPT !["t2"] = "leave"] /\ UNCHANGED runs
    BY <1>11, RunningFacts DEF T2Done
  <2>2. tstate["shell"] = "ready" => ThreadPrio <= ShellPrio
    BY <2>1, RunningFacts
  <2>3. CASE flag = "completed"
    BY <1>11, <2>1, <2>3 DEF T2Done
  <2>4. CASE flag # "completed" /\ waiters = <<>>
    BY <1>11, <2>1, <2>2, <2>4 DEF T2Done
  <2>5. CASE flag # "completed" /\ waiters # <<>>
    <3>1. /\ flag' = "completed"
          /\ waiters' = Tail(waiters)
          /\ tstate' = [tstate EXCEPT ![Head(waiters)] = "ready"]
      BY <1>11, <2>5 DEF T2Done
    <3>2. /\ Head(waiters) = "t1"
          /\ Tail(waiters) \in Seq({"t1"})
          /\ Len(Tail(waiters)) = Len(waiters) - 1
      BY <2>5, HeadTailProperties
    <3>3. tstate' = [tstate EXCEPT !["t1"] = "ready"]
      BY <3>1, <3>2
    <3>4. Tail(waiters) # <<>> => Len(waiters) > 1
      BY <3>2, EmptySeq
    <3>5. QED
      BY <2>1, <2>2, <2>5, <3>1, <3>2, <3>3, <3>4
  <2>6. QED
    BY <2>3, <2>4, <2>5
<1>12. CASE T2Leave
  BY <1>12, RunningFacts DEF T2Leave
<1>13. CASE UNCHANGED vars
  BY <1>13 DEF vars
<1>14. QED
  BY <1>1, <1>2, <1>3, <1>4, <1>5, <1>6, <1>7, <1>8, <1>9, <1>10, <1>11,
     <1>12, <1>13 DEF Next, ShellStep, Thread1Step, Thread2Step

LEMMA AlwaysCInv == Spec => []CInv
<1>1. Init => CInv
  BY InitCInv, CompletionConstAssumption
<1>2. CInv /\ [Next]_vars => CInv'
  BY NextCInv, CompletionConstAssumption
<1>3. QED
  BY <1>1, <1>2, PTL DEF Spec

(* rt_completion_wait() in thread1 returns only after thread2's            *)
(* rt_completion_done() of the same call of completion_sample(), for every *)
(* priority of the shell and of the two threads, and however often the    *)
(* command is typed.                                                      *)
THEOREM WaitReturnsAfterDone == Spec => []WaitEndsAfterDone
BY AlwaysCInv, PTL DEF CInv, Signalled

\* With the shell off thread1's priority, the list holds thread1 at most once.
LEMMA CInvTypeOK ==
    ASSUME CInv, ShellPrio # ThreadPrio - 1
    PROVE  TypeOK
<1>1. Len(waiters) <= 1
  BY PrioVals, CompletionConstAssumption DEF CInv, WaitList, TypeBase
<1>2. QED
  BY <1>1 DEF CInv, TypeBase, TypeOK

(* Unless the shell runs at thread1's priority, the sample keeps every    *)
(* variable within its type, and the completion's suspended list never    *)
(* holds thread1 twice.  At ShellPrio = ThreadPrio - 1 the bound fails     *)
(* (the completion_rerun run shows the re-initialisation behind it).     *)
THEOREM CompletionTypeCorrect ==
    ASSUME ShellPrio # ThreadPrio - 1
    PROVE  Spec => []TypeOK
<1>1. CInv => TypeOK
  BY CInvTypeOK
<1>2. QED
  BY <1>1, AlwaysCInv, PTL

=============================================================================
