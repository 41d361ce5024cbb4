-------------------------- MODULE MCInferEngineApi --------------------------
(* Models for the model-checking run of InferEngineApi.                     *)
EXTENDS InferEngineApi

Shape(ch, ht, wd) == [c |-> ch, h |-> ht, w |-> wd]
Plain(ch, ht, wd) == [n_dims |-> 4, dims |-> <<1, ch, ht, wd>>]
Model(in, out) == [in |-> in, inputs |-> 1, out |-> out]

\* Inputs with and without padding, of one channel, of three and of four, and
\* several of them; outputs of a first dimension other than one, of five
\* dimensions and of three, with what a query may leave in the fourth place.
ManyModels ==
    {Model(Shape(1, 2, 16), <<Plain(2, 1, 5), Plain(1, 1, 8), Plain(3, 3, 4)>>),
     Model(Shape(3, 1, 16), <<Plain(1, 5, 7)>>),
     Model(Shape(4, 1, 32), <<Plain(2, 2, 20)>>),
     [Model(Shape(1, 2, 20), <<Plain(1, 1, 5)>>) EXCEPT !.inputs = 2],
     Model(Shape(1, 2, 16), <<[n_dims |-> 4, dims |-> <<2, 1, 1, 5>>]>>),
     Model(Shape(1, 2, 16), <<[n_dims |-> 5, dims |-> <<1, 2, 2, 2, 3>>]>>),
     Model(Shape(1, 2, 16), <<[n_dims |-> 3, dims |-> <<1, 5, 2, 0>>]>>),
     Model(Shape(1, 2, 16),
           <<[n_dims |-> 3, dims |-> <<1, 5, 2, 7>>], Plain(1, 1, 5)>>)}
=============================================================================
