------------------------------- MODULE Queue -------------------------------
(***************************************************************************)
(* net::Queue (Networking/queue.h) as the server uses it: asio context     *)
(* threads call PushBack, and the main thread loops on                     *)
(* ServerInterface::Update(maxMessages, true), that is Wait, then IsEmpty  *)
(* and PopFront until the queue is empty or the batch is complete.         *)
(*                                                                         *)
(* A step is what one thread does between two points where another thread  *)
(* can interfere.  IsEmpty and PopFront take and release muxQueue in one   *)
(* step (nothing else is locked or read meanwhile); PushBack, which takes  *)
(* muxBlocking while it holds muxQueue, and Wait, which sleeps, are split. *)
(***************************************************************************)
EXTENDS Naturals, Sequences

CONSTANTS
    Producers,    \* threads that call PushBack
    Main,         \* the one thread that calls Update
    NoThread,     \* the owner of a free mutex
    MaxMessages,  \* the argument maxMessages of Update
    MaxPush       \* bound: number of messages pushed in a behaviour

ASSUME QueueAssumption ==
    /\ Main \notin Producers
    /\ NoThread \notin Producers \cup {Main}
    /\ MaxMessages \in Nat
    /\ MaxPush \in Nat

VARIABLES
    deqQueue,     \* the messages, numbered in the order they were pushed
    muxQueue,     \* owner of muxQueue
    muxBlocking,  \* owner of muxBlocking
    waiting,      \* TRUE iff Main is in the wait set of cvBlocking
    pc,           \* where each thread is
    messageCount, \* the local of Update
    pushed,       \* history: messages pushed so far
    handled,      \* history: number of the last message given to OnMessage
    sleptAt       \* history: value of pushed when Main last called wait

vars == <<deqQueue, muxQueue, muxBlocking, waiting, pc, messageCount,
          pushed, handled, sleptAt>>

Threads == Producers \cup {Main}

Goto(t, l) == pc' = [pc EXCEPT ![t] = l]

Init ==
    /\ deqQueue = <<>>
    /\ muxQueue = NoThread /\ muxBlocking = NoThread
    /\ waiting = FALSE
    /\ pc = [t \in Threads |-> IF t = Main THEN "wait" ELSE "idle"]
    /\ messageCount = 0
    /\ pushed = 0 /\ handled = 0 /\ sleptAt = 0

----------------------------------------------------------------------------
(* PushBack *)

\* scoped_lock lock(muxQueue)
PushLock(p) ==
    /\ pc[p] = "idle" /\ pushed < MaxPush
    /\ muxQueue = NoThread
    /\ muxQueue' = p
    /\ Goto(p, "emplace")
    /\ UNCHANGED <<deqQueue, muxBlocking, waiting, messageCount, pushed, handled, sleptAt>>

\* emplace_front in place of emplace_back
EmplaceFront(item) == <<item>> \o deqQueue

EmplaceBack(item) == Append(deqQueue, item)

\* deqQueue.emplace_back
PushEmplace(p) ==
    /\ pc[p] = "emplace"
    /\ pushed' = pushed + 1
    /\ deqQueue' = EmplaceBack(pushed + 1)
    /\ Goto(p, "block")
    /\ UNCHANGED <<muxQueue, muxBlocking, waiting, messageCount, handled, sleptAt>>

\* unique_lock ul(muxBlocking), taken while muxQueue is held
PushBlock(p) ==
    /\ pc[p] = "block"
    /\ muxBlocking = NoThread
    /\ muxBlocking' = p
    /\ Goto(p, "notify")
    /\ UNCHANGED <<deqQueue, muxQueue, waiting, messageCount, pushed, handled, sleptAt>>

\* a push that forgets notify_one
NoNotify == UNCHANGED waiting

\* notify_one: a sleeping Main leaves the wait set, without one it does nothing
NotifyOne == waiting' = FALSE

\* notify_one, then both locks are released at the end of the scope
PushNotify(p) ==
    /\ pc[p] = "notify"
    /\ NotifyOne
    /\ muxBlocking' = NoThread /\ muxQueue' = NoThread
    /\ Goto(p, "idle")
    /\ UNCHANGED <<deqQueue, messageCount, pushed, handled, sleptAt>>

----------------------------------------------------------------------------
(* Wait *)

IsEmpty == deqQueue = <<>>

\* while (IsEmpty()): the verdict is used after muxQueue is released again
WaitCheck ==
    /\ pc[Main] = "wait"
    /\ muxQueue = NoThread
    /\ Goto(Main, IF IsEmpty THEN "block" ELSE "loop")
    /\ UNCHANGED <<deqQueue, muxQueue, muxBlocking, waiting, messageCount, pushed, handled, sleptAt>>

\* unique_lock ul(muxBlocking)
WaitBlock ==
    /\ pc[Main] = "block"
    /\ muxBlocking = NoThread
    /\ muxBlocking' = Main
    /\ Goto(Main, "sleep")
    /\ UNCHANGED <<deqQueue, muxQueue, waiting, messageCount, pushed, handled, sleptAt>>

\* cvBlocking.wait(ul): releases muxBlocking and joins the wait set at once
WaitSleep ==
    /\ pc[Main] = "sleep"
    /\ muxBlocking' = NoThread
    /\ waiting' = TRUE
    /\ sleptAt' = pushed
    /\ Goto(Main, "asleep")
    /\ UNCHANGED <<deqQueue, muxQueue, messageCount, pushed, handled>>

\* the C++ standard lets wait return without a notification
SpuriousWakeup ==
    /\ waiting
    /\ waiting' = FALSE
    /\ UNCHANGED <<deqQueue, muxQueue, muxBlocking, pc, messageCount, pushed, handled, sleptAt>>

\* wait returns once it owns muxBlocking again
WaitReturn ==
    /\ pc[Main] = "asleep" /\ ~waiting
    /\ muxBlocking = NoThread
    /\ muxBlocking' = Main
    /\ Goto(Main, "woken")
    /\ UNCHANGED <<deqQueue, muxQueue, waiting, messageCount, pushed, handled, sleptAt>>

\* the loop tests IsEmpty before ul is released, as wait(ul, predicate) would
KeepBlocking == UNCHANGED muxBlocking

\* ul is released at the end of the loop's body
ReleaseBlocking == muxBlocking' = NoThread

WaitRelease ==
    /\ pc[Main] = "woken"
    /\ ReleaseBlocking
    /\ Goto(Main, "wait")
    /\ UNCHANGED <<deqQueue, muxQueue, waiting, messageCount, pushed, handled, sleptAt>>

----------------------------------------------------------------------------
(* Update *)

\* the loop handles one message too many
OneMore == messageCount <= MaxMessages /\ ~IsEmpty

\* the loop tests only the batch size
BatchOnly == messageCount < MaxMessages

\* messageCount < maxMessages && !m_qMessagesIn.IsEmpty()
MoreToHandle == messageCount < MaxMessages /\ ~IsEmpty

\* the loop's test; when it fails Update returns and main calls it again
UpdateLoop ==
    /\ pc[Main] = "loop"
    /\ muxQueue = NoThread
    /\ IF MoreToHandle
         THEN Goto(Main, "pop") /\ UNCHANGED messageCount
         ELSE Goto(Main, "wait") /\ messageCount' = 0
    /\ UNCHANGED <<deqQueue, muxQueue, muxBlocking, waiting, pushed, handled, sleptAt>>

\* PopFront, OnMessage, messageCount++
UpdatePop ==
    /\ pc[Main] = "pop"
    /\ muxQueue = NoThread
    /\ handled' = Head(deqQueue)
    /\ deqQueue' = Tail(deqQueue)
    /\ messageCount' = messageCount + 1
    /\ Goto(Main, "loop")
    /\ UNCHANGED <<muxQueue, muxBlocking, waiting, pushed, sleptAt>>

----------------------------------------------------------------------------
PushBack(p) == PushLock(p) \/ PushEmplace(p) \/ PushBlock(p) \/ PushNotify(p)

Wait == WaitCheck \/ WaitBlock \/ WaitSleep \/ SpuriousWakeup \/ WaitReturn \/ WaitRelease

Update == UpdateLoop \/ UpdatePop

Next == (\E p \in Producers : PushBack(p)) \/ Wait \/ Update

Spec == Init /\ [][Next]_vars

(***************************************************************************)
(* Fairness: every thread the operating system runs goes on with the call  *)
(* it is in.  Nothing obliges a client to send, so PushLock is not fair,   *)
(* nor does the standard promise a spurious wake-up.                       *)
(***************************************************************************)
FairSpec ==
    /\ Spec
    /\ \A p \in Producers : WF_vars(PushEmplace(p) \/ PushBlock(p) \/ PushNotify(p))
    /\ WF_vars(WaitCheck \/ WaitBlock \/ WaitSleep \/ WaitReturn \/ WaitRelease \/ Update)

----------------------------------------------------------------------------
(* Properties *)

\* Type invariant; Update handles no more than a batch.
TypeOK ==
    /\ deqQueue \in Seq(Nat)
    /\ muxQueue \in Threads \cup {NoThread}
    /\ muxBlocking \in Threads \cup {NoThread}
    /\ waiting \in BOOLEAN
    /\ pc \in [Threads -> {"idle", "emplace", "block", "notify", "wait", "sleep",
                           "asleep", "woken", "loop", "pop"}]
    /\ messageCount \in 0..MaxMessages
    /\ pushed \in Nat /\ handled \in Nat /\ sleptAt \in Nat

\* Update never calls PopFront on an empty queue (deque::front of an empty
\* deque is undefined), although IsEmpty and PopFront lock separately.
PopNonEmpty == pc[Main] = "pop" => deqQueue # <<>>

\* The queue holds exactly the messages pushed and not yet handled, in the
\* order in which they were pushed, whatever the threads' interleaving.
Backlog ==
    /\ handled <= pushed
    /\ deqQueue = [i \in 1..(pushed - handled) |-> handled + i]

\* OnMessage is given every message once and in the order of arrival.
InOrder == [][handled' # handled => handled' = handled + 1]_vars

\* The order of the locks: PushBack asks for muxBlocking while it holds
\* muxQueue, so no thread may ask for muxQueue while it holds muxBlocking.
LockOrder ==
    /\ muxBlocking = Main => pc[Main] \in {"sleep", "woken"}
    /\ \A p \in Producers : muxBlocking = p => muxQueue = p

\* A push that completes after Main went to sleep never leaves it asleep:
\* Main can sleep on messages only if it was late, or a push is about to notify.
WakeupNotLost ==
    waiting /\ sleptAt < pushed => \E p \in Producers : pc[p] \in {"block", "notify"}

\* A call of PushBack returns: the asio thread is never blocked for good by
\* the locks Main takes in Wait and Update.
PushReturns == \A p \in Producers : pc[p] # "idle" ~> pc[p] = "idle"

\* A message that arrives while Main sleeps in Wait is handled.
ArrivalWakes ==
    \A n \in 1..MaxPush :
        (pc[Main] = "asleep" /\ sleptAt < n /\ n <= pushed) ~> (n <= handled)

\* Every message that is pushed is handled, which is what "Sleeps until msg is
\* received from client" (SnekServer/main.cpp:17) says of Update(-1, true).
ReceivedIsHandled == \A n \in 1..MaxPush : (n <= pushed) ~> (n <= handled)

============================================================================
