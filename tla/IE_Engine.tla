------------------------------ MODULE IE_Engine ------------------------------
(* What all engines of the infer_engine module have in common: the fields   *)
(* of IE_Engine, ie_preprocess as each platform compiles it, and the calls  *)
(* of infer_engine_api around init and run.  One caller makes one call      *)
(* after the other.  IE_Engine's constructor leaves its counts as they are, *)
(* and its destructor does not reach the release of the engine.             *)
(*                                                                          *)
(* An image is its number of channels where it matters whether it fits, and *)
(* the number of the run_engine it was handed to where its results are      *)
(* meant.  Behaviour that C++ does not define sets undefined.               *)
EXTENDS Integers, SequencesExt

CONSTANTS
    Models,         \* the models a file may hold: [in : the shape of its first
                    \* input, inputs : how many it has, out : its outputs]
    MaxRuns         \* calls of run_engine: bound

IE_Shape == [c : Nat, h : Nat, w : Nat]

\* An output as its library tells of it: n_dims dimensions, of which dims[1] is
\* dims[0] of the code.  Past those, dims holds what the query left there, and
\* four are read of it whatever n_dims is.
Tensor == [n_dims : Nat, dims : Seq(Nat)]

ASSUME ModelsAssumption ==
    /\ Models \subseteq [in : IE_Shape, inputs : Nat \ {0}, out : Seq(Tensor)]
    /\ \A m \in Models :
           /\ m.in.w > 0 /\ m.in.h > 0 /\ m.out # <<>>
           /\ \A i \in DOMAIN m.out : {4, m.out[i].n_dims} \subseteq DOMAIN m.out[i].dims
ASSUME MaxRunsAssumption == MaxRuns \in Nat

NoShape == [c |-> 0, h |-> 0, w |-> 0]
NoModel == [in |-> NoShape, inputs |-> 1, out |-> <<>>]
Junk == -1

VARIABLES
    board,          \* the platform the library is built for
    normalise,      \* the parameters have mean or std values
    careful,        \* the caller heeds return codes and sizes
    pc,             \* the call the caller is in, "idle" or "gone"
    code,           \* what the last call returned
    init_code,      \* what init returned
    model,          \* what the engine has loaded
    m_input_shape,
    m_output_num,   \* the number, or Junk
    m_output_blobs, \* [of : its output or 0, data : image its values are from]
    runs,           \* calls of run_engine so far
    answer,         \* image whose values are in all outputs run_engine
                    \* returned last, or 0
    outputs,        \* what run_engine handed to the caller
    undefined       \* behaviour is not defined any more

setting == <<board, normalise, careful>>
call == <<pc, code, init_code>>
net == <<model, m_input_shape, m_output_num, m_output_blobs>>
given == <<answer, outputs>>
base == <<setting, call, net, runs, given, undefined>>

\* The constructor, on memory that is all zero or all junk.
InitBase(boards, fresh) ==
    /\ board \in boards /\ normalise \in BOOLEAN /\ careful \in BOOLEAN
    /\ pc = "create" /\ code = "none" /\ init_code = "none"
    /\ model = NoModel /\ m_input_shape = NoShape
    /\ m_output_num = (IF fresh = "zero" THEN 0 ELSE Junk)
    /\ m_output_blobs = <<>>
    /\ runs = 0 /\ answer = 0 /\ outputs = <<>>
    /\ undefined = FALSE

\* The call returns; so does create_engine, with what init returned.
Return(c) == pc' = "idle" /\ code' = c
InitReturns(c) == Return(c) /\ init_code' = c

GoesWrong ==
    /\ undefined' = TRUE
    /\ UNCHANGED <<setting, call, net, runs, given>>

\* An IE_Blob with a place for the values of output i, and the shape it has.
NewBlob(i) == [of |-> i, data |-> 0]
ShapeOf(tensor) ==
    [c |-> tensor.dims[2], h |-> tensor.dims[3], w |-> tensor.dims[4]]

-----------------------------------------------------------------------------
(* ie_preprocess *)

\* Numbers of channels; 0 stands for an image that is empty.
Images == {0, 1, 3, 4}

\* What it objects to.  The two conditions on the channels leave one image out.
Preprocess(img) ==
    IF img = 0 THEN "empty"
    ELSE IF img # 1 /\ img = 3 THEN "channels"
    ELSE IF m_input_shape.w <= 0 \/ m_input_shape.h <= 0 THEN "size"
    ELSE "fine"

\* An image has bytes; it is made into floats to be normalised, and always on
\* one of the platforms.  Only its first three channels are normalised.
Normalises == normalise /\ board # "hisi"
ElemSizeAsNormalised == IF Normalises THEN 4 ELSE 1
ElemSize == IF Normalises \/ board = "rk" THEN 4 ELSE 1
WritesPastBlob(img) == Normalises /\ img < 3

\* What m_input_blob holds per pixel of the input, and what a reader of the
\* whole input takes that expects elements of a size.
BlobHolds(img) == img * ElemSize
InputNeeds(size) == m_input_shape.c * size

-----------------------------------------------------------------------------
(* run_engine *)

\* A careful caller has an engine that init completed and nobody released, and
\* takes images with the channels of the model, or such as are refused.
Begin(img, alive) ==
    /\ pc = "idle" /\ runs < MaxRuns
    /\ careful => /\ init_code = "success" /\ alive
                  /\ Preprocess(img) = "fine" => img = m_input_shape.c

RunRefused(img, alive) ==
    /\ Begin(img, alive)
    /\ Preprocess(img) # "fine"
    /\ runs' = runs + 1
    /\ Return(Preprocess(img))
    /\ UNCHANGED <<setting, init_code, net, given, undefined>>

RunFails(c) ==
    /\ Return(c)
    /\ UNCHANGED <<setting, init_code, net, runs, given, undefined>>

\* What the caller finds: the image, if all blobs have the values of one.
Answered(blobs) ==
    LET images == {blobs[i].data : i \in DOMAIN blobs}
    IN IF \E n \in images : images = {n} THEN CHOOSE n \in images : TRUE ELSE 0

\* The results of an image go into the blobs with a place for all of them, and
\* all blobs to the caller.
RunSucceeds(image, filled) ==
    /\ m_output_blobs' =
           [i \in DOMAIN m_output_blobs |->
                IF i \in filled THEN [m_output_blobs[i] EXCEPT !.data = image]
                ELSE m_output_blobs[i]]
    /\ outputs' = m_output_blobs'
    /\ answer' = Answered(outputs')
    /\ Return("success")
    /\ UNCHANGED <<setting, init_code, model, m_input_shape, m_output_num, runs,
                   undefined>>

-----------------------------------------------------------------------------
(* release and destroy_engine *)

MayRelease(alive) == pc = "idle" /\ (careful => alive /\ init_code = "success")

\* The destructor of the base class calls the release of the base class, which
\* does nothing.  The fields are no more: what they led to can never be given
\* back.
DestroyEngine ==
    /\ pc = "idle"
    /\ pc' = "gone"
    /\ m_input_shape' = NoShape /\ m_output_num' = Junk /\ m_output_blobs' = <<>>
    /\ UNCHANGED <<setting, code, init_code, model, runs, given, undefined>>

-----------------------------------------------------------------------------

\* IE_ERR_CODE, by the call that failed; "none" before there is one.
IE_ERR_CODE ==
    {"none", "success", "path", "empty", "size", "channels"}
        \cup {"library", "graph", "input tensor", "input shape",
              "output tensor", "output shape", "set input", "run graph"}
        \cup {"open", "malloc", "load", "flush", "forward", "timeout", "query"}
        \cup {"read", "init", "input", "number", "output", "run", "get output"}

\* The calls, and how far init or run has got in them.
Places ==
    {"create", "init", "graph", "input", "number", "outputs", "src", "dst", "task",
     "tmp", "idle", "run", "query", "get", "copy", "gone"}

Blob == [of : Nat, data : Nat]

BaseTypeOK ==
    /\ board \in {"hisi", "x86", "rk", "rv"}
    /\ normalise \in BOOLEAN /\ careful \in BOOLEAN /\ undefined \in BOOLEAN
    /\ pc \in Places /\ {code, init_code} \subseteq IE_ERR_CODE
    /\ model \in Models \cup {NoModel} /\ m_input_shape \in {model.in, NoShape}
    /\ m_output_num \in {Junk, 0, Len(model.out)}
    /\ m_output_blobs \in Seq(Blob) /\ outputs \in Seq(Blob)
    /\ runs \in 0 .. MaxRuns /\ answer \in 0 .. MaxRuns
=============================================================================
