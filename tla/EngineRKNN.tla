----------------------------- MODULE EngineRKNN -----------------------------
(* One EngineRKNN, of the rv platform: a context of the RKNN library, any   *)
(* call of which may fail, and buffers of the engine's own that it writes   *)
(* the results into.  The constructor initialises neither the context nor   *)
(* the outputs.  What malloc is asked for per output is taken to be there;  *)
(* the memory for the model file may not be, and nobody looks.              *)
EXTENDS IE_Engine

VARIABLES
    m_ctx,          \* "unset", "open" or "destroyed"; or "lost", with the engine
    m_outputs,      \* entries of m_outputs that are filled in, or Junk
    bufs            \* image whose results the outputs' buffers hold

own == <<m_ctx, m_outputs, bufs>>
vars == <<base, own>>

\* As the constructor leaves it, and in a library built for another platform.
Absent == m_ctx = "unset" /\ m_outputs = Junk /\ bufs = 0

Init == Absent /\ \E fresh \in {"zero", "junk"} : InitBase({"rv"}, fresh)

InitEnds(c) ==
    /\ InitReturns(c)
    /\ UNCHANGED <<setting, net, runs, given, undefined>>

-----------------------------------------------------------------------------
(* create_engine: init *)

\* fread into memory that was not there is not defined.
ReadModel ==
    /\ pc = "create"
    /\ UNCHANGED own
    /\ \/ \E c \in {"open", "read"} : InitEnds(c)
       \/ GoesWrong
       \/ /\ model' \in Models
          /\ pc' = "init"
          /\ UNCHANGED <<setting, code, init_code, m_input_shape, m_output_num,
                         m_output_blobs, runs, given, undefined>>

InitContext ==
    /\ pc = "init"
    /\ UNCHANGED <<m_outputs, bufs>>
    /\ \/ InitEnds("init") /\ UNCHANGED m_ctx
       \/ /\ m_ctx' = "open"
          /\ pc' = "input"
          /\ UNCHANGED <<setting, code, init_code, net, runs, given, undefined>>

GetInputAttr ==
    /\ pc = "input"
    /\ UNCHANGED own
    /\ \/ InitEnds("input")
       \/ /\ m_input_shape' = model.in
          /\ pc' = "number"
          /\ UNCHANGED <<setting, code, init_code, model, m_output_num,
                         m_output_blobs, runs, given, undefined>>

GetOutputNumber ==
    /\ pc = "number"
    /\ UNCHANGED <<m_ctx, bufs>>
    /\ \/ InitEnds("number") /\ UNCHANGED m_outputs
       \/ /\ m_output_num' = Len(model.out)
          /\ m_outputs' = 0
          /\ pc' = "outputs"
          /\ UNCHANGED <<setting, code, init_code, model, m_input_shape,
                         m_output_blobs, runs, given, undefined>>

\* The buffer of an output has a place for as many values as the product of its
\* n_dims dimensions; its blob is of dims[2] to dims[4], whatever n_dims is.
BufferSize(tensor) ==
    LET size[k \in 0 .. tensor.n_dims] ==
            IF k = 0 THEN 1 ELSE size[k - 1] * tensor.dims[k]
    IN size[tensor.n_dims]
BlobSize(tensor) == ShapeOf(tensor).c * ShapeOf(tensor).h * ShapeOf(tensor).w

GetOutputAttr ==
    /\ pc = "outputs"
    /\ UNCHANGED <<m_ctx, bufs>>
    /\ \/ InitEnds("output") /\ UNCHANGED m_outputs
       \/ /\ m_outputs' = m_outputs + 1
          /\ m_output_blobs' = Append(m_output_blobs, NewBlob(m_outputs'))
          /\ IF m_outputs' = m_output_num THEN InitReturns("success")
             ELSE UNCHANGED call
          /\ UNCHANGED <<setting, model, m_input_shape, m_output_num, runs, given,
                         undefined>>

CreateStep ==
    ReadModel \/ InitContext \/ GetInputAttr \/ GetOutputNumber \/ GetOutputAttr

-----------------------------------------------------------------------------
(* run_engine *)

Alive == m_ctx = "open"

\* The size goes by the type of m_input_blob.
SetsInputs(img) ==
    ~WritesPastBlob(img) /\ BlobHolds(img) >= InputNeeds(ElemSize) /\ Alive

Run(img) ==
    /\ UNCHANGED own
    /\ \/ RunRefused(img, Alive)
       \/ /\ Begin(img, Alive) /\ Preprocess(img) = "fine"
          /\ IF ~SetsInputs(img) THEN GoesWrong
             ELSE /\ runs' = runs + 1
                  /\ Return("set input") \/ (pc' = "run" /\ UNCHANGED code)
                  /\ UNCHANGED <<setting, init_code, net, given, undefined>>

RunContext ==
    /\ pc = "run"
    /\ UNCHANGED own
    /\ \/ RunFails("run")
       \/ /\ pc' = "get"
          /\ UNCHANGED <<setting, code, init_code, net, runs, given, undefined>>

\* An init that failed at the outputs leaves some of them, or their number, as
\* they were.
GetOutputs ==
    /\ pc = "get"
    /\ UNCHANGED <<m_ctx, m_outputs>>
    /\ IF m_outputs # m_output_num \/ m_outputs = Junk
       THEN GoesWrong /\ UNCHANGED bufs
       ELSE \/ RunFails("get output") /\ bufs' \in {bufs, runs}
            \/ /\ bufs' = runs
               /\ pc' = "copy"
               /\ UNCHANGED <<setting, code, init_code, net, runs, given,
                              undefined>>

\* The whole buffer goes into the blob, past the end of one that is smaller; of
\* one that is larger it leaves the rest as it is.
Overflows(tensor) == BufferSize(tensor) > BlobSize(tensor)
Whole(tensor) == BufferSize(tensor) = BlobSize(tensor)

CopyOutputs ==
    /\ pc = "copy"
    /\ UNCHANGED own
    /\ IF \E i \in DOMAIN model.out : Overflows(model.out[i]) THEN GoesWrong
       ELSE RunSucceeds(bufs, {i \in DOMAIN model.out : Whole(model.out[i])})

RunStep == RunContext \/ GetOutputs \/ CopyOutputs

-----------------------------------------------------------------------------
(* release *)

\* Without its outputs released the context stays.
Release ==
    /\ MayRelease(Alive)
    /\ UNCHANGED <<m_outputs, bufs>>
    /\ IF ~Alive \/ m_outputs # m_output_num \/ m_outputs = Junk
       THEN GoesWrong /\ UNCHANGED m_ctx
       ELSE m_ctx' \in {"open", "destroyed"} /\ UNCHANGED base

Destroy ==
    DestroyEngine /\ m_ctx' = "lost" /\ m_outputs' = Junk /\ UNCHANGED bufs

Next ==
    /\ ~undefined
    /\ \/ CreateStep \/ RunStep \/ Release \/ Destroy
       \/ \E img \in Images : Run(img)

TypeOK ==
    /\ m_ctx \in {"unset", "open", "destroyed", "lost"}
    /\ m_outputs \in {Junk} \cup 0 .. Len(model.out)
    /\ bufs \in 0 .. MaxRuns

\* The memory for the model file, three channels normalised of an image that has
\* fewer (ie_preprocess.cpp:114-136), and outputs whose buffers are larger than
\* their blobs: of a first dimension other than 1, or of a number of dimensions
\* other than four (engine_rknn.cpp:106-119, 203-206).
Trap ==
    \/ pc = "create"
    \/ pc = "idle" /\ Normalises /\ m_input_shape.c < 3
    \/ pc = "copy" /\ \E i \in DOMAIN model.out : Overflows(model.out[i])
=============================================================================
