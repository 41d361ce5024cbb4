---------------------------- MODULE FifoChannel ----------------------------
(* What a message queue between two pipeline nodes promises: the messages   *)
(* come out once each, in the order they went in, and at most Capacity of   *)
(* them are inside.  No threads, no flags, no condition variable.           *)
EXTENDS Naturals, Sequences

CONSTANTS
    Items,      \* what travels: MetaObject pointers
    Capacity    \* the most messages the channel holds

VARIABLES
    sent,       \* every message that went in, oldest first
    got         \* every message that came out, oldest first

Init == sent = <<>> /\ got = <<>>

Send(x) ==
    /\ Len(sent) < Len(got) + Capacity
    /\ sent' = Append(sent, x)
    /\ UNCHANGED got

Receive ==
    /\ Len(got) < Len(sent)
    /\ got' = Append(got, sent[Len(got) + 1])
    /\ UNCHANGED sent

Next == (\E x \in Items : Send(x)) \/ Receive

SafeSpec == Init /\ [][Next]_<<sent, got>>

(* A message that went in comes out: nothing stays behind for ever. *)
Spec == SafeSpec /\ WF_<<sent, got>>(Receive)
=============================================================================
