-------------------------- MODULE BoundedQueueFifo --------------------------
(* BoundedQueue with the history of what went in and what came out, shown   *)
(* to implement FifoChannel: the flags, the wait set and the late           *)
(* notifications neither lose, duplicate nor reorder an object.             *)
EXTENDS BoundedQueue

CONSTANT MaxSent    \* bound on the number of objects pushed

ASSUME MaxSentAssumption == MaxSent \in Nat

VARIABLES sent, got

varsF == <<vars, sent, got>>

InitF == Init /\ sent = <<>> /\ got = <<>>

PushF(p, x) ==
    /\ Len(sent) < MaxSent
    /\ Push(p, x)
    /\ sent' = Append(sent, x)
    /\ UNCHANGED got

PopF ==
    /\ Pop
    /\ got' = Append(got, Head(m_queue))
    /\ UNCHANGED sent

\* The steps that neither push nor pop an object.
Internal ==
    /\ \/ \E p \in Producers : PushBlocks(p)
       \/ PopBlocks
       \/ PopUndefined
       \/ \E t \in Threads : NotifyOne(t) \/ SpuriousWake(t)
    /\ UNCHANGED <<sent, got>>

NextF ==
    /\ ~undefined
    /\ \/ \E p \in Producers, x \in Items : PushF(p, x)
       \/ PopF
       \/ Internal

SafeSpecF == InitF /\ [][NextF]_varsF

ConsumerStepF == PopF \/ ((PopBlocks \/ PopUndefined) /\ UNCHANGED <<sent, got>>)

\* As Fairness, except that producers owe nothing: they may stop pushing.
SpecF ==
    /\ SafeSpecF
    /\ WF_varsF(~undefined /\ ConsumerStepF)
    /\ \A t \in Threads :
           WF_varsF(~undefined /\ NotifyOne(t) /\ UNCHANGED <<sent, got>>)

-----------------------------------------------------------------------------
(* Properties *)

Channel == INSTANCE FifoChannel

\* What is in the queue is what was pushed and not yet popped, in order
\* (QueueManager.h:31, 45-46).
QueueIsDifference == sent = got \o m_queue

\* The queue implements the channel.
ImplementsChannel == Channel!SafeSpec

\* ... and an object that was pushed is popped in the end, even if no producer
\* ever pushes again: the last notification is never lost.
ImplementsFairChannel == Channel!Spec

\* The uninitialised m_not_empty is the only way to an empty front(): once
\* Push has written the flag (QueueManager.h:32), Pop never meets an empty
\* std::queue.
UndefinedOnlyBeforeFirstPush == [][undefined' => sent = <<>>]_varsF
=============================================================================
