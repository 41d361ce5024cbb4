----------------------------- MODULE MCFlowRpc -----------------------------
(* Backlogs for the model-checking runs of FlowRpc: what an earlier process *)
(* may have left in the data directory.                                     *)
EXTENDS FlowRpc

NoBacklog == <<>>

\* The process ended between opening the second file and closing it.
Interrupted == 1 :> <<11, Sep>> @@ 2 :> <<>>

OneFile == 1 :> <<11, Sep, 12, Sep>>
=============================================================================
