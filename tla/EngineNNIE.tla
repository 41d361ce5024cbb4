----------------------------- MODULE EngineNNIE -----------------------------
(* One EngineNNIE, of the hisi platform, from create_engine to              *)
(* destroy_engine: the calls of the HiSilicon interface may fail, those     *)
(* that flush a cache unnoticed by run, and the accelerator works through   *)
(* its tasks on its own.  Giving memory back is taken to work: what a call  *)
(* of release returns is looked at nowhere.  The constructor                *)
(* initialises none of the fields that hold addresses, counts and flags:    *)
(* whatever the memory held is in them, all zero or junk, and freeing or    *)
(* following junk is not defined.                                           *)
EXTENDS NnieLayout, IE_Engine

\* The fields that hold the address of MMZ memory.
ModelBuf == <<"model", 0>>
Src == <<"src", 0>>
Task == <<"task", 0>>
Tmp == <<"tmp", 0>>
Dst(i) == <<"dst", i>>
Dsts == UNION {{Dst(i) : i \in DOMAIN m.out} : m \in Models}
Buffers == {ModelBuf, Src, Task, Tmp} \cup Dsts

TimeOutLimit == 5

VARIABLES
    buf,            \* buf[b]: the field is "zero", "junk" or "held", or "lost"
                    \* with the engine; so for the next four
    mmz,            \* the fields whose memory is allocated
    m_dst_blobs,    \* "zero", "junk" or "held"
    loaded,         \* m_model is "zero", "junk", "loaded" or "unloaded"
    m_fw_ctrl,      \* is set
    m_is_tb_added,  \* "yes", "no" or "junk"
    registered,     \* the accelerator knows m_task_buf
    files,          \* model files left open
    flushed,        \* no flush of the last run failed
    src,            \* image the accelerator finds in m_src_blob, 0 for none
    results,        \* image whose results are in m_dst_blobs
    nTimeOut,
    device,         \* tasks of the accelerator, by image
    corrupt         \* the accelerator worked on memory given back

memory == <<buf, mmz>>
object == <<m_dst_blobs, loaded, m_fw_ctrl, m_is_tb_added, registered, files>>
inference == <<flushed, src, results, nTimeOut, device, corrupt>>
ownNNIE == <<memory, object, inference>>
vars == <<base, ownNNIE>>

\* The constructor, on memory that is all zero or all junk.
Fresh(fresh) ==
    /\ buf = [b \in Buffers |-> fresh]
    /\ m_dst_blobs = fresh /\ loaded = fresh
    /\ m_is_tb_added = (IF fresh = "zero" THEN "no" ELSE "junk")
    /\ mmz = {} /\ m_fw_ctrl = FALSE /\ registered = FALSE /\ files = 0
    /\ flushed = FALSE /\ src = 0 /\ results = 0 /\ nTimeOut = 0 /\ device = <<>>
    /\ corrupt = FALSE

Init == \E fresh \in {"zero", "junk"} : InitBase({"hisi"}, fresh) /\ Fresh(fresh)

\* IE_HISI_MMZ_Free, and its mutant: the fields are cleared and no more.
FreeForgets(bs) ==
    /\ buf' = [b \in Buffers |-> IF b \in bs THEN "zero" ELSE buf[b]]
    /\ UNCHANGED mmz
Free(bs) ==
    /\ buf' = [b \in Buffers |-> IF b \in bs THEN "zero" ELSE buf[b]]
    /\ mmz' = mmz \ {b \in bs : buf[b] = "held"}

Allocate(b) == mmz' = mmz \cup {b} /\ buf' = [buf EXCEPT ![b] = "held"]

\* What a step of init or run leaves alone but for what it says.
InitEnds(c) ==
    /\ InitReturns(c)
    /\ UNCHANGED <<setting, net, runs, given, undefined, inference>>
InitGoesOn(where) ==
    /\ pc' = where
    /\ UNCHANGED <<setting, code, init_code, runs, given, undefined, inference>>

-----------------------------------------------------------------------------
(* create_engine: init *)

\* read_model_from_file, whose failures leave the file open but for the first.
OpenFails == pc = "create" /\ InitEnds("open") /\ UNCHANGED <<memory, object>>

\* Without memory for the model, m_model_buf is freed as it is.
MallocModelFails ==
    /\ pc = "create"
    /\ \/ buf[ModelBuf] = "junk" /\ GoesWrong /\ UNCHANGED ownNNIE
       \/ /\ buf[ModelBuf] = "zero"
          /\ InitEnds("malloc")
          /\ files' = files + 1
          /\ UNCHANGED <<memory, m_dst_blobs, loaded, m_fw_ctrl, m_is_tb_added,
                         registered>>

LoadModelFails ==
    /\ pc = "create"
    /\ InitEnds("load")
    /\ buf' = [buf EXCEPT ![ModelBuf] = "zero"]
    /\ files' = files + 1
    /\ UNCHANGED <<mmz, m_dst_blobs, loaded, m_fw_ctrl, m_is_tb_added, registered>>

\* ... and get_input_size.
LoadModel ==
    /\ pc = "create"
    /\ model' \in Models
    /\ m_input_shape' = model'.in
    /\ loaded' = "loaded"
    /\ Allocate(ModelBuf)
    /\ InitGoesOn("src")
    /\ UNCHANGED <<m_output_num, m_output_blobs, m_dst_blobs, m_fw_ctrl,
                   m_is_tb_added, registered, files>>

\* malloc_blob_mem.  A block whose cache cannot be flushed never gets into its
\* field.
BlobFails(b) ==
    /\ \/ InitEnds("malloc") /\ UNCHANGED mmz
       \/ InitEnds("flush") /\ mmz' = mmz \cup {b}
    /\ UNCHANGED <<buf, object>>

\* An IE_Blob without a place for values.
EmptyBlob == [of |-> 0, data |-> 0]

\* m_dst_blobs comes from malloc, with junk in it.  m_output_blobs gets an empty
\* blob for each output ...
MallocSrc ==
    /\ pc = "src"
    /\ \/ BlobFails(Src)
       \/ /\ mmz' = mmz \cup {Src}
          /\ buf' = [b \in Buffers |-> IF b = Src THEN "held"
                                      ELSE IF b \in Dsts THEN "junk" ELSE buf[b]]
          /\ m_output_num' = Len(model.out)
          /\ m_dst_blobs' = "held"
          /\ m_output_blobs' = [i \in DOMAIN model.out |-> EmptyBlob]
          /\ InitGoesOn("dst")
          /\ UNCHANGED <<model, m_input_shape, loaded, m_fw_ctrl, m_is_tb_added,
                         registered, files>>

\* ... and another one, with a place for its values, when its memory is there.
PastLastOutput(i) == i > m_output_num
LastOutput(i) == i = m_output_num

MallocDst ==
    LET i == Len(m_output_blobs) - m_output_num + 1
    IN /\ pc = "dst"
       /\ \/ BlobFails(Dst(i))
          \/ /\ Allocate(Dst(i))
             /\ m_output_blobs' = Append(m_output_blobs, NewBlob(i))
             /\ InitGoesOn(IF LastOutput(i) THEN "task" ELSE "dst")
             /\ UNCHANGED <<model, m_input_shape, m_output_num, object>>

\* malloc_task_mem: a failure before the memory is there, or after.
MallocFails(b) ==
    /\ \/ InitEnds("malloc") /\ UNCHANGED memory
       \/ InitEnds("flush") /\ Allocate(b)
    /\ UNCHANGED object

MallocTask ==
    /\ pc = "task"
    /\ \/ MallocFails(Task)
       \/ /\ Allocate(Task)
          /\ registered' \in BOOLEAN
          /\ m_is_tb_added' = IF registered' THEN "yes" ELSE "no"
          /\ InitGoesOn("tmp")
          /\ UNCHANGED <<net, m_dst_blobs, loaded, m_fw_ctrl, files>>

MallocTmp ==
    /\ pc = "tmp"
    /\ \/ MallocFails(Tmp)
       \/ /\ Allocate(Tmp)
          /\ m_fw_ctrl' = TRUE
          /\ InitEnds("success")
          /\ UNCHANGED <<m_dst_blobs, loaded, m_is_tb_added, registered, files>>

CreateStep ==
    \/ OpenFails \/ MallocModelFails \/ LoadModelFails \/ LoadModel
    \/ MallocSrc \/ MallocDst \/ MallocTask \/ MallocTmp

-----------------------------------------------------------------------------
(* run_engine *)

Alive == loaded = "loaded"

\* The memcpy reads as many bytes as the model wants, however many there are.
Enough(img) == BlobHolds(img) >= InputNeeds(1)

\* What Forward is given is in place: m_src_blob is one blob, and Forward reads
\* as many from there on as the model has inputs.
Ready ==
    /\ Alive /\ m_fw_ctrl /\ model.inputs = 1
    /\ \A b \in {Src, Task, Tmp} \cup {Dst(i) : i \in DOMAIN model.out} :
           buf[b] = "held"

\* Where a cache could not be flushed the accelerator finds the image, the one
\* before or a bit of both, and run goes on.
RunAnyway(img) ==
    /\ Begin(img, Alive)
    /\ Preprocess(img) = "fine"
    /\ UNCHANGED <<memory, object, results, corrupt>>
    /\ IF ~(Enough(img) /\ Ready)
       THEN GoesWrong /\ UNCHANGED <<flushed, src, nTimeOut, device>>
       ELSE /\ runs' = runs + 1
            /\ flushed' \in BOOLEAN
            /\ src' \in IF flushed' THEN {runs'} ELSE {0, src, runs'}
            /\ \/ Return("forward") /\ UNCHANGED <<device, nTimeOut>>
               \/ /\ device' = Append(device, runs')
                  /\ nTimeOut' = 0
                  /\ pc' = "query"
                  /\ UNCHANGED code
            /\ UNCHANGED <<setting, init_code, net, given, undefined>>

Forward(img) ==
    \/ RunRefused(img, Alive) /\ UNCHANGED ownNNIE
    \/ RunAnyway(img)

\* Query blocks for a while and gives up; so does run, in the end, and leaves
\* the task to the accelerator.
WrapsRound(tries) == (tries + 1) % TimeOutLimit
OneMore(tries) == tries + 1

QueryTimesOut ==
    /\ pc = "query" /\ runs \in ToSet(device)
    /\ nTimeOut' = OneMore(nTimeOut)
    /\ IF nTimeOut' > TimeOutLimit THEN RunFails("timeout") ELSE UNCHANGED base
    /\ UNCHANGED <<memory, object, flushed, src, results, device, corrupt>>

\* Any other error ends the wait.
QueryFails == pc = "query" /\ RunFails("query") /\ UNCHANGED ownNNIE

FinishedOrNot == TRUE
Finished == runs \notin ToSet(device)

\* What Dequant makes of the results of output i: it takes the shape of the blob
\* it writes to, and the rows of an empty one have no values.
Dequantised(i) ==
    LET shape == IF m_output_blobs[i] = EmptyBlob THEN NoShape
                 ELSE ShapeOf(model.out[m_output_blobs[i].of])
    IN Dequant(Rows(shape), shape.w, OutputStride(ShapeOf(model.out[i])))

\* Where a cache could not be flushed any older results may be read.
QueryFinished ==
    /\ pc = "query" /\ Finished
    /\ flushed' \in {flushed, FALSE}
    /\ \E image \in IF flushed' = flushed THEN {results} ELSE 0 .. runs :
           RunSucceeds(image, {i \in 1 .. m_output_num : Dequantised(i) # {}})
    /\ nTimeOut' = 0
    /\ UNCHANGED <<memory, object, src, results, device, corrupt>>

RunStep == QueryTimesOut \/ QueryFails \/ QueryFinished

\* The accelerator takes its tasks in order.
DeviceFinishes ==
    /\ device # <<>>
    /\ device' = Tail(device)
    /\ results' = src
    /\ corrupt' = (corrupt \/ ~({Src, Task, Tmp, Dst(1)} \subseteq mmz))
    /\ UNCHANGED <<base, memory, object, flushed, src, nTimeOut>>

-----------------------------------------------------------------------------
(* release *)

\* What release frees.
AllButTmp == {ModelBuf, Task, Src} \cup {Dst(i) : i \in 1 .. m_output_num}
Released == {ModelBuf, Task, Tmp, Src} \cup {Dst(i) : i \in 1 .. m_output_num}

\* Its fields are fit for that.
Releasable ==
    /\ m_output_num # Junk /\ m_dst_blobs # "junk" /\ loaded # "junk"
    /\ \A b \in Released : buf[b] # "junk"
    /\ m_output_num > 0 => m_dst_blobs = "held"

Release ==
    /\ MayRelease(Alive)
    /\ IF ~Releasable THEN GoesWrong /\ UNCHANGED ownNNIE
       ELSE /\ Free(Released)
            /\ loaded' = "unloaded"
            /\ m_dst_blobs' = "zero"
            /\ registered' = (registered /\ m_is_tb_added # "yes")
            /\ UNCHANGED <<base, m_fw_ctrl, m_is_tb_added, files, inference>>

\* The memory, the registration and the tasks of the accelerator outlive the
\* engine.
Destroy ==
    /\ DestroyEngine
    /\ buf' = [b \in Buffers |-> "lost"]
    /\ m_dst_blobs' = "lost" /\ m_is_tb_added' = "lost" /\ m_fw_ctrl' = FALSE
    /\ loaded' = IF loaded = "unloaded" THEN "unloaded" ELSE "lost"
    /\ UNCHANGED <<mmz, registered, files, inference>>

Next ==
    /\ ~undefined
    /\ \/ CreateStep \/ RunStep \/ DeviceFinishes \/ Release \/ Destroy
       \/ \E img \in Images : Forward(img)

SafeSpec == Init /\ [][Next]_vars

-----------------------------------------------------------------------------
(* Properties *)

Field == {"zero", "junk", "held", "lost"}

TypeOK ==
    /\ BaseTypeOK
    /\ buf \in [Buffers -> Field] /\ mmz \subseteq Buffers
    /\ m_dst_blobs \in Field
    /\ loaded \in {"zero", "junk", "loaded", "unloaded", "lost"}
    /\ m_fw_ctrl \in BOOLEAN /\ m_is_tb_added \in {"yes", "no", "junk", "lost"}
    /\ registered \in BOOLEAN /\ flushed \in BOOLEAN
    /\ files \in 0 .. 1
    /\ src \in 0 .. MaxRuns /\ results \in 0 .. MaxRuns
    /\ nTimeOut \in 0 .. TimeOutLimit + 1
    /\ device \in Seq(1 .. MaxRuns) /\ Len(device) <= MaxRuns
    /\ corrupt \in BOOLEAN

\* Freed before it was ever set: m_model_buf, when there is no memory for the
\* model (engine_nnie.cpp:262).  Read past its end: m_src_blob, for a model with
\* several inputs (engine_nnie.cpp:341, 539, 580).
Trap == pc = "create" \/ (pc = "idle" /\ model.inputs > 1)

\* A block of MMZ memory leaks in two ways only: a cache could not be flushed in
\* init, which has not stored the address yet, or the engine was deleted before
\* it was released (ie_engine.hpp:35-38).  Every other block has its address in
\* a field, however far init got (engine_nnie.cpp:260-284, 331-387, 428-463),
\* and release gives back what init left in the fields.
Owned ==
    \A b \in mmz : buf[b] = "held" \/ init_code = "flush" \/ loaded = "lost"

\* release after a successful init gives everything back
\* (engine_nnie.cpp:629-643).
ReleaseReturnsAll ==
    loaded = "unloaded" /\ init_code = "success"
        => mmz = {} /\ ~registered /\ files = 0

\* The accelerator works on memory given back only if the last run did not end
\* in IE_SUCCESS; and when it did, and no flush failed, the results are those of
\* the image just given and not of one that run had given up on
\* (engine_nnie.cpp:572-601, 607, 629-643).
SafeAfterSuccess ==
    code = "success" =>
        /\ ~corrupt
        /\ pc \in {"idle", "gone"} /\ flushed => results = runs

\* The image reaches the accelerator row by row, if the width of the model's
\* input is a multiple of 16 (engine_nnie.cpp:327, 572).
AlignedInputExact == model.in.w % ALIGN_BYTES = 0 => InputExact(model.in)

\* What run_engine hands out are the values of its outputs
\* (engine_nnie.cpp:390-391, 613-616).
OutputsFilled == \A i \in DOMAIN outputs : outputs[i].data # 0
=============================================================================
