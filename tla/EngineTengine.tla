---------------------------- MODULE EngineTengine ----------------------------
(* One EngineTengine, of the x86 and rk platforms: a graph of the Tengine   *)
(* library, any call of which may fail, and whose tensors hold the results  *)
(* of the last graph that ran.  The constructor initialises none of the     *)
(* handles.                                                                 *)
EXTENDS IE_Engine

VARIABLES
    g_is_init,      \* some engine of the process has initialised the library
    m_graph,        \* "unset", "null", "built" or "destroyed"; or "lost", with
                    \* the engine
    tensors         \* image whose results the output tensors hold

own == <<g_is_init, m_graph, tensors>>
vars == <<base, own>>

Init ==
    /\ \E fresh \in {"zero", "junk"} : InitBase({"x86", "rk"}, fresh)
    /\ g_is_init \in BOOLEAN /\ m_graph = "unset" /\ tensors = 0

\* In a library built for another platform.
Absent == g_is_init = FALSE /\ m_graph = "unset" /\ tensors = 0

InitEnds(c) ==
    /\ InitReturns(c)
    /\ UNCHANGED <<setting, net, runs, given, undefined, tensors>>

-----------------------------------------------------------------------------
(* create_engine: init *)

InitTengine ==
    /\ pc = "create"
    /\ UNCHANGED m_graph
    /\ \/ ~g_is_init /\ InitEnds("library") /\ UNCHANGED g_is_init
       \/ /\ g_is_init' = TRUE
          /\ pc' = "graph"
          /\ UNCHANGED <<setting, code, init_code, net, runs, given, undefined,
                         tensors>>

CreateGraph ==
    /\ pc = "graph"
    /\ UNCHANGED g_is_init
    /\ \/ InitEnds("path") /\ UNCHANGED m_graph
       \/ InitEnds("graph") /\ m_graph' = "null"
       \/ /\ m_graph' = "built"
          /\ model' \in Models
          /\ pc' = "input"
          /\ UNCHANGED <<setting, code, init_code, m_input_shape, m_output_num,
                         m_output_blobs, runs, given, undefined, tensors>>

GetInputTensor ==
    /\ pc = "input"
    /\ UNCHANGED <<g_is_init, m_graph>>
    /\ \/ \E c \in {"input tensor", "input shape"} : InitEnds(c)
       \/ /\ m_input_shape' = model.in
          /\ m_output_num' = Len(model.out)
          /\ pc' = "outputs"
          /\ UNCHANGED <<setting, code, init_code, model, m_output_blobs, runs,
                         given, undefined, tensors>>

\* Output by output, each of four dimensions: those before one that fails stay.
GetOutputTensor ==
    LET i == Len(m_output_blobs) + 1
    IN /\ pc = "outputs"
       /\ UNCHANGED <<g_is_init, m_graph>>
       /\ \/ \E c \in {"output tensor", "output shape"} : InitEnds(c)
          \/ /\ model.out[i].n_dims = 4
             /\ m_output_blobs' = Append(m_output_blobs, NewBlob(i))
             /\ IF i = m_output_num THEN InitReturns("success")
                ELSE UNCHANGED call
             /\ UNCHANGED <<setting, model, m_input_shape, m_output_num, runs,
                            given, undefined, tensors>>

CreateStep == InitTengine \/ CreateGraph \/ GetInputTensor \/ GetOutputTensor

-----------------------------------------------------------------------------
(* run_engine *)

Alive == m_graph = "built"

\* The tensor takes the whole input as floats, whatever m_input_blob holds.
SetsBuffer(img) ==
    ~WritesPastBlob(img) /\ BlobHolds(img) >= InputNeeds(4) /\ Alive

Run(img) ==
    /\ UNCHANGED own
    /\ \/ RunRefused(img, Alive)
       \/ /\ Begin(img, Alive) /\ Preprocess(img) = "fine"
          /\ IF ~SetsBuffer(img) THEN GoesWrong
             ELSE /\ runs' = runs + 1
                  /\ Return("set input") \/ (pc' = "run" /\ UNCHANGED code)
                  /\ UNCHANGED <<setting, init_code, net, given, undefined>>

RunGraph ==
    /\ pc = "run"
    /\ UNCHANGED <<g_is_init, m_graph>>
    /\ \/ RunFails("run graph") /\ tensors' \in {tensors, runs}
       \/ /\ tensors' = runs
          /\ pc' = "copy"
          /\ UNCHANGED <<setting, code, init_code, net, runs, given, undefined>>

\* An init that failed at an output leaves fewer of them than m_output_num.
CopyOutputs ==
    /\ pc = "copy"
    /\ UNCHANGED own
    /\ IF Len(m_output_blobs) < m_output_num THEN GoesWrong
       ELSE RunSucceeds(tensors, 1 .. m_output_num)

RunStep == RunGraph \/ CopyOutputs

-----------------------------------------------------------------------------
(* release *)

\* Destroying what is no graph (any more) is not defined.
Release ==
    /\ MayRelease(Alive)
    /\ UNCHANGED <<g_is_init, tensors>>
    /\ IF ~Alive THEN GoesWrong /\ UNCHANGED m_graph
       ELSE m_graph' \in {"built", "destroyed"} /\ UNCHANGED base

Destroy == DestroyEngine /\ m_graph' = "lost" /\ UNCHANGED <<g_is_init, tensors>>

Next ==
    /\ ~undefined
    /\ \/ CreateStep \/ RunStep \/ Release \/ Destroy
       \/ \E img \in Images : Run(img)

TypeOK ==
    /\ g_is_init \in BOOLEAN
    /\ m_graph \in {"unset", "null", "built", "destroyed", "lost"}
    /\ tensors \in 0 .. MaxRuns

\* x86 only makes floats of an image it normalises, and hands over bytes where
\* the tensor wants floats (ie_preprocess.cpp:100-112, engine_tengine.cpp:122);
\* both platforms normalise three channels of images that have fewer
\* (ie_preprocess.cpp:114-136).
Trap ==
    /\ pc = "idle"
    /\ (Normalises /\ m_input_shape.c < 3) \/ (board = "x86" /\ ~normalise)
=============================================================================
