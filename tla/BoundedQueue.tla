---------------------------- MODULE BoundedQueue ----------------------------
(* meta::vision::Queue<T> (include/mgr/QueueManager.h), the blocking queue  *)
(* in front of every pipeline node, with the threads that use it: several   *)
(* producers and the one thread that runs the node owning the queue.        *)
(*                                                                          *)
(* Every field is read and written under m_mtx only, so what Push and Pop   *)
(* do between taking and releasing the mutex is one step.  notify_one comes *)
(* after the unlock and is a step of its own: other threads run in between. *)
(* Both sides sleep on the same condition variable.                         *)
EXTENDS Naturals, Sequences, FiniteSets

CONSTANTS
    Producers,      \* threads that call Push
    Consumer,       \* the thread that calls Pop
    Items,          \* the objects that are queued
    Capacity,       \* m_capacity
    NotEmptyInit    \* what m_not_empty may hold after the constructor

ASSUME ThreadsAssumption == IsFiniteSet(Producers) /\ Consumer \notin Producers
ASSUME CapacityAssumption == Capacity \in Nat \ {0}
ASSUME NotEmptyInitAssumption == NotEmptyInit \subseteq BOOLEAN

VARIABLES
    m_queue,        \* *m_queue_ptr
    m_not_empty,
    m_not_full,
    pc,             \* where each thread is: see TypeOK
    undefined       \* front()/pop() were called on an empty std::queue

vars == <<m_queue, m_not_empty, m_not_full, pc, undefined>>

Threads == Producers \cup {Consumer}

Full == Len(m_queue) = Capacity
Empty == m_queue = <<>>

\* The threads asleep on m_cond_var.
Waiting == {t \in Threads : pc[t] = "waiting"}

\* In "idle" a thread is outside the queue or about to take the mutex for the
\* first time, in "waking" it has left the wait set and is about to take it
\* again: in both the next thing it does is to evaluate its predicate.
CanLock(t) == pc[t] \in {"idle", "waking"}

Goto(t, place) == pc' = [pc EXCEPT ![t] = place]

Init ==
    /\ m_queue = <<>>
    /\ m_not_empty \in NotEmptyInit
    /\ m_not_full = TRUE
    /\ pc = [t \in Threads |-> "idle"]
    /\ undefined = FALSE

-----------------------------------------------------------------------------
(* Push *)

CanPushIgnoringFull == m_not_full

CanPush == m_not_full /\ ~Full

\* The predicate is false: the producer sleeps, which releases the mutex.
PushBlocks(p) ==
    /\ CanLock(p)
    /\ ~CanPush
    /\ Goto(p, "waiting")
    /\ UNCHANGED <<m_queue, m_not_empty, m_not_full, undefined>>

PushSilently(p, x) ==
    /\ CanLock(p)
    /\ CanPush
    /\ m_queue' = Append(m_queue, x)
    /\ m_not_empty' = TRUE
    /\ Goto(p, "idle")
    /\ UNCHANGED <<m_not_full, undefined>>

PushInFront(p, x) ==
    /\ CanLock(p)
    /\ CanPush
    /\ m_queue' = <<x>> \o m_queue
    /\ m_not_empty' = TRUE
    /\ Goto(p, "notify")
    /\ UNCHANGED <<m_not_full, undefined>>

Push(p, x) ==
    /\ CanLock(p)
    /\ CanPush
    /\ m_queue' = Append(m_queue, x)
    /\ m_not_empty' = TRUE
    /\ Goto(p, "notify")
    /\ UNCHANGED <<m_not_full, undefined>>

-----------------------------------------------------------------------------
(* Pop *)

PopBlocks ==
    /\ CanLock(Consumer)
    /\ ~m_not_empty
    /\ Goto(Consumer, "waiting")
    /\ UNCHANGED <<m_queue, m_not_empty, m_not_full, undefined>>

PopSilently ==
    /\ CanLock(Consumer)
    /\ m_not_empty
    /\ ~Empty
    /\ m_queue' = Tail(m_queue)
    /\ m_not_full' = TRUE
    /\ m_not_empty' = (Tail(m_queue) # <<>>)
    /\ Goto(Consumer, "idle")
    /\ UNCHANGED undefined

PopKeepingFlag ==
    /\ CanLock(Consumer)
    /\ m_not_empty
    /\ ~Empty
    /\ m_queue' = Tail(m_queue)
    /\ m_not_full' = TRUE
    /\ Goto(Consumer, "notify")
    /\ UNCHANGED <<m_not_empty, undefined>>

Pop ==
    /\ CanLock(Consumer)
    /\ m_not_empty
    /\ ~Empty
    /\ m_queue' = Tail(m_queue)
    /\ m_not_full' = TRUE
    /\ m_not_empty' = (Tail(m_queue) # <<>>)
    /\ Goto(Consumer, "notify")
    /\ UNCHANGED undefined

\* Pop asks m_not_empty, not Empty(): with a stale or uninitialised flag it
\* calls front() and pop() on an empty std::queue.  What the program does
\* afterwards is not defined: the model follows it up to here (see Next).
PopUndefined ==
    /\ CanLock(Consumer)
    /\ m_not_empty
    /\ Empty
    /\ undefined' = TRUE
    /\ UNCHANGED <<m_queue, m_not_empty, m_not_full, pc>>

-----------------------------------------------------------------------------
(* The condition variable *)

\* notify_one: one sleeper, whoever it is, leaves the wait set; with no
\* sleeper the notification is gone.
NotifyOne(t) ==
    /\ pc[t] = "notify"
    /\ \/ \E w \in Waiting : pc' = [pc EXCEPT ![t] = "idle", ![w] = "waking"]
       \/ Waiting = {} /\ Goto(t, "idle")
    /\ UNCHANGED <<m_queue, m_not_empty, m_not_full, undefined>>

\* The predicate loop of wait() also runs after a wake-up nobody asked for.
SpuriousWake(t) ==
    /\ pc[t] = "waiting"
    /\ Goto(t, "waking")
    /\ UNCHANGED <<m_queue, m_not_empty, m_not_full, undefined>>

-----------------------------------------------------------------------------

ProducerStep(p) == PushBlocks(p) \/ \E x \in Items : Push(p, x)
ConsumerStep == PopBlocks \/ Pop \/ PopUndefined

Next ==
    /\ ~undefined
    /\ \/ \E p \in Producers : ProducerStep(p)
       \/ ConsumerStep
       \/ \E t \in Threads : NotifyOne(t) \/ SpuriousWake(t)

SafeSpec == Init /\ [][Next]_vars

\* A runnable thread gets the mutex in the end and runs: the node threads loop
\* on Pop for ever, a thread past its unlock notifies, a woken producer goes
\* round its wait loop.  Nothing makes an idle producer call Push again.
Fairness ==
    /\ WF_vars(ConsumerStep)
    /\ \A t \in Threads : WF_vars(NotifyOne(t))
    /\ \A p \in Producers : WF_vars(pc[p] = "waking" /\ ProducerStep(p))

Spec == SafeSpec /\ Fairness

-----------------------------------------------------------------------------
(* Properties *)

\* The types, and the bound on the frames in flight: a queue never holds more
\* than m_capacity objects, however many producers block in Push
\* (QueueManager.h:30).
TypeOK ==
    /\ m_queue \in Seq(Items)
    /\ Len(m_queue) <= Capacity
    /\ m_not_empty \in BOOLEAN
    /\ m_not_full \in BOOLEAN
    /\ pc \in [Threads -> {"idle", "waiting", "waking", "notify"}]
    /\ undefined \in BOOLEAN

\* Pop trusts a flag that Push and Pop keep by hand (QueueManager.h:32, 48-49)
\* instead of the queue: the flag says what Empty() would.
FlagTellsTruth == m_not_empty <=> ~Empty

\* front() and pop() are never called on an empty std::queue
\* (QueueManager.h:43-46).
NeverPopsEmpty == ~undefined

\* Notifying after the unlock, with one condition variable for both sides,
\* loses no wake-up that matters: the consumer never sleeps on a non-empty
\* queue unless some thread is about to notify, and it never sleeps while a
\* producer does.
NoLostWakeup ==
    pc[Consumer] = "waiting" =>
        /\ ~Empty => \E t \in Threads : pc[t] = "notify"
        /\ \A p \in Producers : pc[p] # "waiting"

\* A producer asleep on a full queue is never forgotten: the consumer takes
\* another object in the end (QueueManager.h:30, 43, 52).
BackPressureEnds ==
    (\E p \in Producers : pc[p] = "waiting") ~> (pc[Consumer] = "notify")
=============================================================================
