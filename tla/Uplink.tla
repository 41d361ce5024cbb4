------------------------------- MODULE Uplink -------------------------------
(* What FlowRpcAsynNode is for, as long as nothing is spilled and no process *)
(* ends: every message is in one place at a time, and goes from place to     *)
(* place until the server has it or, after sys_quit, dump() took it.         *)
CONSTANTS
    New,        \* the messages still to be handed over
    Old         \* other ones, which an earlier process stored

VARIABLES
    unseen,     \* not handed over yet
    waiting,    \* in memory
    stored,     \* on disk
    sent,       \* the server has them
    dumped      \* where nobody will look for them

vars == <<unseen, waiting, stored, sent, dumped>>

Init ==
    /\ unseen = New /\ waiting = {} /\ stored = Old
    /\ sent = {} /\ dumped = {}

Accept(m) ==
    /\ unseen' = unseen \ {m} /\ waiting' = waiting \cup {m}
    /\ UNCHANGED <<stored, sent, dumped>>

Recover(S) ==
    /\ stored' = stored \ S /\ waiting' = waiting \cup S
    /\ UNCHANGED <<unseen, sent, dumped>>

\* The messages of one record.
Send(S) ==
    /\ waiting' = waiting \ S /\ sent' = sent \cup S
    /\ UNCHANGED <<unseen, stored, dumped>>

Dump(S) ==
    /\ waiting' = waiting \ S /\ dumped' = dumped \cup S
    /\ UNCHANGED <<unseen, stored, sent>>

Next ==
    \/ \E m \in unseen : Accept(m)
    \/ \E S \in SUBSET stored : Recover(S)
    \/ \E S \in SUBSET waiting : Send(S) \/ Dump(S)

Spec == Init /\ [][Next]_vars
=============================================================================
