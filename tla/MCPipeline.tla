----------------------------- MODULE MCPipeline -----------------------------
(* Pipeline for model checking: the cameras are interchangeable.            *)
EXTENDS Pipeline, TLC

Cameras == Permutations(Loaders)
=============================================================================
