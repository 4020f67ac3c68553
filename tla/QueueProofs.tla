---------------------------- MODULE QueueProofs ----------------------------
(***************************************************************************)
(* Safety of net::Queue for any number of pushing threads and messages.    *)
(***************************************************************************)
EXTENDS Queue, TLAPS

\* Where a thread can be, and which locks it owns there.
Control ==
    /\ \A p \in Producers :
        /\ pc[p] \in {"idle", "emplace", "block", "notify"}
        /\ muxQueue = p <=> pc[p] # "idle"
        /\ muxBlocking = p <=> pc[p] = "notify"
    /\ pc[Main] \in {"wait", "block", "sleep", "asleep", "woken", "loop", "pop"}
    /\ muxQueue # Main
    /\ muxBlocking = Main <=> pc[Main] \in {"sleep", "woken"}
    /\ waiting => pc[Main] = "asleep"
    /\ pc[Main] = "pop" => messageCount < MaxMessages
    /\ sleptAt <= pushed

\* The inductive invariant: the properties of Queue and the control state.
IInv == TypeOK /\ Control /\ PopNonEmpty /\ Backlog /\ WakeupNotLost

\* Appending the next number to an interval, and removing its first.
LEMMA Interval ==
    ASSUME NEW lo \in Nat, NEW hi \in Nat, lo <= hi, NEW s \in Seq(Nat),
           s = [i \in 1..(hi - lo) |-> lo + i]
    PROVE  /\ Append(s, hi + 1) = [i \in 1..(hi + 1 - lo) |-> lo + i]
           /\ s # <<>> => /\ lo < hi
                          /\ Head(s) = lo + 1
                          /\ Tail(s) = [i \in 1..(hi - (lo + 1)) |-> (lo + 1) + i]
  <1>1. Len(s) = hi - lo
    OBVIOUS
  <1>2. Append(s, hi + 1) = [i \in 1..(hi + 1 - lo) |-> lo + i]
    BY <1>1
  <1>3. ASSUME s # <<>>
        PROVE  /\ lo < hi
               /\ Head(s) = lo + 1
               /\ Tail(s) = [i \in 1..(hi - (lo + 1)) |-> (lo + 1) + i]
    BY <1>1, <1>3
  <1> QED
    BY <1>2, <1>3

\* The initial state satisfies the inductive invariant.
LEMMA InitIInv == Init => IInv
  <1> SUFFICES ASSUME Init PROVE IInv
    OBVIOUS
  <1>1. Backlog
    <2>1. <<>> = [i \in 1..0 |-> 0 + i]
      OBVIOUS
    <2> QED
      BY <2>1 DEF Init, Backlog
  <1>2. TypeOK
    <2>1. deqQueue \in Seq(Nat)
      BY DEF Init
    <2>2. waiting \in BOOLEAN
      BY DEF Init
    <2>3. pc \in [Threads -> {"idle", "emplace", "block", "notify", "wait", "sleep",
                              "asleep", "woken", "loop", "pop"}]
      BY DEF Init
    <2> QED
      BY <2>1, <2>2, <2>3, QueueAssumption DEF Init, TypeOK
  <1>3. Control /\ PopNonEmpty
    BY QueueAssumption DEF Init, Control, PopNonEmpty, Threads
  <1>4. WakeupNotLost
    BY DEF Init, WakeupNotLost
  <1> QED
    BY <1>1, <1>2, <1>3, <1>4 DEF IInv

\* Every step of PushBack, Wait and Update keeps the inductive invariant.
LEMMA NextIInv == IInv /\ [Next]_vars => IInv'
  <1> SUFFICES ASSUME IInv, [Next]_vars PROVE IInv'
    OBVIOUS
  <1> USE QueueAssumption DEF IInv, TypeOK, Control, Threads, Goto
  <1>1. ASSUME NEW p \in Producers, PushLock(p) PROVE IInv'
    BY <1>1 DEF PushLock, PopNonEmpty, Backlog, WakeupNotLost
  <1>2. ASSUME NEW p \in Producers, PushEmplace(p) PROVE IInv'
    <2>1. /\ TypeOK' /\ Control' /\ WakeupNotLost'
      BY <1>2 DEF PushEmplace, EmplaceBack, WakeupNotLost
    <2>2. Backlog'
      <3>1. Append(deqQueue, pushed + 1) = [i \in 1..(pushed + 1 - handled) |-> handled + i]
        BY Interval DEF Backlog
      <3> QED
        BY <1>2, <3>1 DEF PushEmplace, EmplaceBack, Backlog
    <2>3. PopNonEmpty'
      BY <1>2 DEF PushEmplace, EmplaceBack, PopNonEmpty
    <2> QED
      BY <2>1, <2>2, <2>3
  <1>3. ASSUME NEW p \in Producers, PushBlock(p) PROVE IInv'
    BY <1>3 DEF PushBlock, PopNonEmpty, Backlog, WakeupNotLost
  <1>4. ASSUME NEW p \in Producers, PushNotify(p) PROVE IInv'
    BY <1>4 DEF PushNotify, NotifyOne, PopNonEmpty, Backlog, WakeupNotLost
  <1>5. CASE WaitCheck
    BY <1>5 DEF WaitCheck, PopNonEmpty, Backlog, WakeupNotLost
  <1>6. CASE WaitBlock
    BY <1>6 DEF WaitBlock, PopNonEmpty, Backlog, WakeupNotLost
  <1>7. CASE WaitSleep
    BY <1>7 DEF WaitSleep, PopNonEmpty, Backlog, WakeupNotLost
  <1>8. CASE SpuriousWakeup
    BY <1>8 DEF SpuriousWakeup, PopNonEmpty, Backlog, WakeupNotLost
  <1>9. CASE WaitReturn
    BY <1>9 DEF WaitReturn, PopNonEmpty, Backlog, WakeupNotLost
  <1>10. CASE WaitRelease
    BY <1>10 DEF WaitRelease, ReleaseBlocking, PopNonEmpty, Backlog, WakeupNotLost
  <1>11. CASE UpdateLoop
    <2>1. CASE MoreToHandle
      BY <1>11, <2>1 DEF UpdateLoop, MoreToHandle, IsEmpty, PopNonEmpty, Backlog, WakeupNotLost
    <2>2. CASE ~MoreToHandle
      BY <1>11, <2>2 DEF UpdateLoop, PopNonEmpty, Backlog, WakeupNotLost
    <2> QED
      BY <2>1, <2>2
  <1>12. CASE UpdatePop
    <2>1. /\ handled < pushed
          /\ Head(deqQueue) = handled + 1
          /\ Tail(deqQueue) = [i \in 1..(pushed - (handled + 1)) |-> (handled + 1) + i]
      BY <1>12, Interval DEF UpdatePop, PopNonEmpty, Backlog
    <2>2. Backlog'
      BY <1>12, <2>1 DEF UpdatePop, Backlog
    <2>3. TypeOK' /\ Control' /\ WakeupNotLost' /\ PopNonEmpty'
      BY <1>12, <2>1 DEF UpdatePop, PopNonEmpty, WakeupNotLost
    <2> QED
      BY <2>2, <2>3
  <1>13. CASE UNCHANGED vars
    BY <1>13 DEF vars, PopNonEmpty, Backlog, WakeupNotLost
  <1> QED
    BY <1>1, <1>2, <1>3, <1>4, <1>5, <1>6, <1>7, <1>8, <1>9, <1>10, <1>11, <1>12, <1>13
       DEF Next, PushBack, Wait, Update

\* The inductive invariant holds throughout.
LEMMA Inductive == Spec => []IInv
  BY InitIInv, NextIInv, PTL DEF Spec

\* Every state of the queue is type correct.
THEOREM TypeCorrect == Spec => []TypeOK
  <1>1. IInv => TypeOK
    BY DEF IInv
  <1> QED
    BY Inductive, <1>1, PTL

\* Update never pops an empty queue (SnekServer's main loop, server.h:181-184).
THEOREM PopIsSafe == Spec => []PopNonEmpty
  <1>1. IInv => PopNonEmpty
    BY DEF IInv
  <1> QED
    BY Inductive, <1>1, PTL

\* The queue is the interval of the messages pushed and not handled.
THEOREM QueueIsBacklog == Spec => []Backlog
  <1>1. IInv => Backlog
    BY DEF IInv
  <1> QED
    BY Inductive, <1>1, PTL

\* OnMessage gets every message once, in the order of the pushes.
THEOREM HandledInOrder == Spec => InOrder
  <1>1. IInv /\ [Next]_vars => [handled' # handled => handled' = handled + 1]_vars
    <2> SUFFICES ASSUME IInv, Next, handled' # handled
                 PROVE  handled' = handled + 1
      OBVIOUS
    <2>1. UpdatePop
      BY DEF Next, PushBack, Wait, Update, PushLock, PushEmplace, PushBlock, PushNotify, WaitCheck,
             WaitBlock, WaitSleep, SpuriousWakeup, WaitReturn, WaitRelease, UpdateLoop
    <2> QED
      BY <2>1, Interval DEF UpdatePop, IInv, TypeOK, PopNonEmpty, Backlog
  <1> QED
    BY <1>1, Inductive, PTL DEF Spec, InOrder

\* No thread asks for muxQueue while it owns muxBlocking: PushBack and Wait
\* cannot block each other in a cycle.
THEOREM LocksOrdered == Spec => []LockOrder
  <1>1. IInv => LockOrder
    BY DEF IInv, Control, LockOrder
  <1> QED
    BY Inductive, <1>1, PTL

\* A push that starts after Main sleeps wakes it.
THEOREM LatePushWakes == Spec => []WakeupNotLost
  <1>1. IInv => WakeupNotLost
    BY DEF IInv
  <1> QED
    BY Inductive, <1>1, PTL

============================================================================
