----------------------------- MODULE InferEngine -----------------------------
(* What infer_engine_api promises of one engine, whichever it is: after a   *)
(* creation that succeeds it can be asked, until it is released or          *)
(* destroyed; a run_engine that returns IE_SUCCESS has the answer to its    *)
(* own question, if the engine gives answers at all, and none but its own;  *)
(* one that does not has changed no answer; every call returns.  A question *)
(* is numbered by the call it is put with.                                  *)
EXTENDS Naturals

VARIABLES
    ready,      \* may answer
    gives,      \* the outputs it hands out have places for an answer
    busy,       \* the caller is in a call
    asked,      \* questions so far
    told,       \* the last run_engine returned IE_SUCCESS
    answer      \* question the answer handed out last is to, or 0

vars == <<ready, gives, busy, asked, told, answer>>

Init ==
    /\ ready = FALSE /\ gives = FALSE /\ busy = TRUE
    /\ asked = 0 /\ told = FALSE /\ answer = 0

Created ==
    /\ busy /\ asked = 0 /\ ~ready
    /\ busy' = FALSE /\ ready' \in BOOLEAN /\ gives' \in BOOLEAN
    /\ UNCHANGED <<asked, told, answer>>

\* A question may be refused at once.
Ask ==
    /\ ~busy
    /\ asked' = asked + 1 /\ told' = FALSE /\ busy' \in BOOLEAN
    /\ UNCHANGED <<ready, gives, answer>>

Answer ==
    /\ busy /\ asked > 0 /\ ready
    /\ answer' = (IF gives THEN asked ELSE 0)
    /\ told' = TRUE /\ busy' = FALSE
    /\ UNCHANGED <<ready, gives, asked>>

Fail ==
    /\ busy /\ asked > 0
    /\ busy' = FALSE
    /\ UNCHANGED <<ready, gives, asked, told, answer>>

Release ==
    ~busy /\ ready' = FALSE /\ UNCHANGED <<gives, busy, asked, told, answer>>

Next == Created \/ Ask \/ Answer \/ Fail \/ Release

Spec == Init /\ [][Next]_vars /\ WF_vars(Created \/ Answer \/ Fail)
=============================================================================
