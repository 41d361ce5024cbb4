---------------------------- MODULE MCEngineNNIE ----------------------------
(* A model for the model-checking run of EngineNNIE.                        *)
EXTENDS EngineNNIE

Output(wd) == [n_dims |-> 4, dims |-> <<1, 1, 1, wd>>]

OneModel == {[in |-> [c |-> 1, h |-> 2, w |-> 16], inputs |-> 1,
              out |-> <<Output(5), Output(8)>>]}
=============================================================================
