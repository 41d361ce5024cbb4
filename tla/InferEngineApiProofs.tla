------------------------- MODULE InferEngineApiProofs -------------------------
(* What holds of the infer_engine API whichever engine it has made, for any *)
(* set of models and any number of runs: which memory of the accelerator    *)
(* can leak and which cannot, what a success says of the outputs handed out *)
(* with it, and where a careful caller meets undefined behaviour.           *)
EXTENDS InferEngineApi, NnieLayoutProofs

\* SpecApi without its fairness.
SafeSpecApi == InitApi /\ [][NextApi]_varsApi

-----------------------------------------------------------------------------
(* The invariant *)

\* In create_engine, whichever engine it makes.
Creating ==
    pc \in {"create", "init", "graph", "input", "number", "outputs", "src", "dst",
            "task", "tmp"}

\* The types, by kind.
Flags ==
    /\ board \in {"hisi", "x86", "rk", "rv"}
    /\ normalise \in BOOLEAN /\ careful \in BOOLEAN /\ undefined \in BOOLEAN
    /\ m_fw_ctrl \in BOOLEAN /\ registered \in BOOLEAN /\ flushed \in BOOLEAN
    /\ corrupt \in BOOLEAN /\ g_is_init \in BOOLEAN

Numbers ==
    /\ runs \in 0 .. MaxRuns /\ answer \in 0 .. runs
    /\ src \in 0 .. runs /\ results \in 0 .. runs
    /\ tensors \in 0 .. runs /\ bufs \in 0 .. runs
    /\ files \in 0 .. 1
    /\ nTimeOut \in 0 .. TimeOutLimit + 1
    /\ device \in Seq(1 .. MaxRuns) /\ Len(device) <= runs

Net ==
    /\ model \in Models \cup {NoModel} /\ m_input_shape \in {model.in, NoShape}
    /\ m_output_num \in {Junk, 0, Len(model.out)}
    /\ m_output_blobs \in Seq(Blob) /\ outputs \in Seq(Blob)

Fields ==
    /\ buf \in [Buffers -> Field] /\ mmz \subseteq Buffers
    /\ m_dst_blobs \in Field
    /\ loaded \in {"zero", "junk", "loaded", "unloaded", "lost"}
    /\ m_is_tb_added \in {"yes", "no", "junk", "lost"}
    /\ m_graph \in {"unset", "null", "built", "destroyed", "lost"}
    /\ m_ctx \in {"unset", "open", "destroyed", "lost"}
    /\ m_outputs \in {Junk} \cup 0 .. Len(model.out)

\* How far create_engine got, and what it returned.
Calls ==
    /\ pc \in Places /\ code \in IE_ERR_CODE /\ init_code \in IE_ERR_CODE
    /\ Creating <=> init_code = "none"
    /\ Creating => runs = 0 /\ code = "none"

\* What it left in the fields of IE_Engine.
NetInv ==
    /\ pc = "create" => model = NoModel /\ m_input_shape = NoShape
                        /\ m_output_num \in {0, Junk} /\ m_output_blobs = <<>>
    /\ m_input_shape.w > 0 => model \in Models /\ m_input_shape = model.in
    /\ init_code = "success" => model \in Models
    /\ init_code = "success" /\ pc # "gone" =>
           m_input_shape = model.in /\ m_output_num = Len(model.out)

\* EngineNNIE, in init with a model loaded.
Preparing == pc \in {"src", "dst", "task", "tmp"}

\* The outputs that have their memory.
HaveMemory == Len(m_output_blobs) - m_output_num

\* What may be allocated, of the model that is loaded.
Kept == {ModelBuf, Src, Task, Tmp} \cup {Dst(i) : i \in DOMAIN model.out}

\* There is memory behind each address in a field, and release will free it; so
\* once it has, a block that is left never got into its field.
MemoryInv ==
    /\ pc = "create" => mmz = {}
    /\ mmz \subseteq Kept
    /\ \A b \in Buffers : buf[b] = "held" => b \in mmz /\ b \in Released
    /\ loaded = "unloaded" => mmz = {} \/ init_code = "flush"
    /\ Owned

\* What init has put into the fields so far; the last of it before it succeeds.
FieldsInv ==
    /\ pc \in {"create", "src", "dst", "task", "tmp", "idle", "query", "gone"}
    /\ pc = "create" => loaded \in {"zero", "junk"}
    /\ pc = "create" \/ Preparing \/ init_code = "success" => files = 0
    /\ Preparing => loaded = "loaded"
    /\ loaded = "loaded" =>
           model \in Models /\ m_input_shape = model.in /\ buf[ModelBuf] = "held"
    /\ pc = "src" => m_output_num \in {0, Junk}
    /\ loaded = "lost" => pc = "gone"
    /\ init_code = "success" => loaded \in {"loaded", "unloaded", "lost"}
    /\ registered /\ pc # "gone" => m_is_tb_added = "yes"
    /\ m_fw_ctrl => init_code = "success"
    /\ pc = "dst" =>
           /\ m_output_num = Len(model.out)
           /\ HaveMemory \in 0 .. m_output_num - 1
           /\ m_dst_blobs = "held" /\ buf[Src] = "held"
           /\ \A i \in 1 .. HaveMemory : buf[Dst(i)] = "held"
    /\ pc \in {"task", "tmp"} \/ (init_code = "success" /\ Alive) =>
           /\ m_output_num = Len(model.out)
           /\ m_dst_blobs = "held" /\ buf[Src] = "held"
           /\ \A i \in DOMAIN model.out : buf[Dst(i)] = "held"
           /\ pc # "task" => buf[Task] = "held"
           /\ ~Preparing => buf[Tmp] = "held" /\ m_fw_ctrl
    /\ ReleaseReturnsAll

\* What the accelerator works on is there while run waits for it, and what it
\* still has to do when run does not wait is not what succeeded.
InUse == {Src, Task, Tmp, Dst(1)}
DeviceInv ==
    /\ Creating => device = <<>> /\ ~corrupt
    /\ pc \in {"idle", "gone"} /\ device # <<>> => code # "success"
    /\ pc = "query" =>
           /\ InUse \subseteq mmz /\ Alive /\ m_fw_ctrl
           /\ nTimeOut <= TimeOutLimit
           /\ runs > 0 /\ (flushed => src = runs)
           /\ device # <<>> => device[Len(device)] = runs
           /\ device = <<>> /\ flushed => results = runs
    /\ pc \in {"idle", "gone"} /\ code = "success" /\ flushed => results = runs
    /\ corrupt => ~(InUse \subseteq mmz) /\ code # "success"

\* The empty blobs that m_output_blobs begins with stay as they are.
EmptyInv ==
    pc \in {"dst", "task", "tmp"} \/ (init_code = "success" /\ pc # "gone") =>
        /\ m_output_num \in Nat /\ m_output_num <= Len(m_output_blobs)
        /\ \A i \in 1 .. m_output_num : m_output_blobs[i] = EmptyBlob

NnieInv == MemoryInv /\ FieldsInv /\ DeviceInv /\ EmptyInv

\* EngineTengine: an init that failed at an output left too few of them.
TengineInv ==
    /\ pc \in {"create", "graph", "input", "outputs", "idle", "run", "copy", "gone"}
    /\ pc \in {"create", "graph", "input"} =>
           /\ m_output_num \in {0, Junk} /\ m_output_blobs = <<>>
           /\ m_input_shape = NoShape
    /\ pc = "graph" => model = NoModel
    /\ pc \in {"input", "outputs"} => model \in Models /\ Tengine!Alive
    /\ pc = "outputs" => m_input_shape = model.in
    /\ m_input_shape.w > 0 =>
           /\ m_output_num = Len(model.out)
           /\ init_code # "success" => Len(m_output_blobs) < m_output_num
    /\ init_code = "success" /\ pc # "gone" => Len(m_output_blobs) = m_output_num
    /\ pc \in {"run", "copy"} =>
           /\ Tengine!Alive /\ runs > 0 /\ m_input_shape.w > 0
           /\ careful => init_code = "success"
    /\ pc = "copy" => tensors = runs

\* EngineRKNN: likewise.
RknnInv ==
    /\ pc \in {"create", "init", "input", "number", "outputs", "idle", "run", "get",
               "copy", "gone"}
    /\ pc \in {"create", "init", "input", "number"} =>
           /\ m_output_num \in {0, Junk} /\ m_output_blobs = <<>>
           /\ m_outputs = Junk
    /\ pc \in {"init", "input", "number", "outputs"} => model \in Models
    /\ pc \in {"init", "input"} => m_input_shape = NoShape
    /\ pc \in {"number", "outputs"} => m_input_shape = model.in
    /\ pc \in {"input", "number", "outputs"} => RKNN!Alive
    /\ pc = "outputs" => m_outputs # Junk
    /\ m_outputs # Junk => m_output_num = Len(model.out) /\ m_outputs \in Nat
    /\ m_outputs # Junk /\ init_code # "success" => m_outputs < m_output_num
    /\ init_code = "success" /\ pc # "gone" =>
           m_outputs = m_output_num /\ m_outputs # Junk
    /\ pc \in {"run", "get", "copy"} =>
           /\ RKNN!Alive /\ runs > 0
           /\ careful => init_code = "success"
    /\ pc = "copy" => bufs = runs /\ m_outputs = m_output_num /\ m_outputs # Junk

\* The blobs it has so far, and those that no result fits into.
PlacesInv ==
    /\ m_outputs # Junk => Len(m_output_blobs) = m_outputs
    /\ \A i \in DOMAIN m_output_blobs :
           ~RKNN!Whole(model.out[i]) => m_output_blobs[i].data = 0

\* An engine of another platform is not there.
NnieAbsent == mmz = {} /\ loaded = "zero" /\ ~corrupt /\ ~flushed

ApiInv ==
    /\ Flags /\ Numbers /\ Net /\ Fields /\ Calls /\ NetInv
    /\ IF board = "hisi" THEN NnieInv ELSE NnieAbsent
    /\ board \in {"x86", "rk"} => TengineInv
    /\ IF board = "rv" THEN RknnInv /\ PlacesInv ELSE m_outputs = Junk
    /\ DefinedForCareful

-----------------------------------------------------------------------------
(* The contract *)

\* What the contract knows of an engine: whether it can answer, whether answers
\* get to the caller, whether it did answer.
Can == init_code = "success" /\ AliveEngine
Gives == init_code = "success" /\ AnswersAtAll
Told == pc \in {"idle", "gone"} /\ runs > 0 /\ code = "success"

\* A step of an engine is one of the contract, or nothing the contract knows of.
KeepsContract == [Contract!Next]_(Contract!vars)

\* Lemma: whether answers get to the caller is settled by init.
LEMMA GivesStays ==
    ASSUME UNCHANGED <<board, init_code, model>> PROVE Gives' <=> Gives
BY DEF Gives, AnswersAtAll

\* Lemma: create_engine returns.
LEMMA Creates ==
    ASSUME InAnyCall, runs = 0, ~Can, ~Told,
           ~InAnyCall', runs' = runs, ~Told', answer' = answer
    PROVE  KeepsContract
BY DEF KeepsContract, Contract!Next, Contract!Created, InAnyCall, Can, Told

\* Lemma: run_engine is called.
LEMMA Asks ==
    ASSUME ~InAnyCall, runs' = runs + 1, ~Told', Can' <=> Can, Gives' <=> Gives,
           answer' = answer
    PROVE  KeepsContract
BY DEF KeepsContract, Contract!Next, Contract!Ask, InAnyCall, Can, Gives, Told

\* Lemma: run_engine returns with an answer.
LEMMA Answers ==
    ASSUME InAnyCall, runs > 0, Can, Can', ~InAnyCall', runs' = runs, Told',
           Gives' <=> Gives, answer' = IF Gives THEN runs ELSE 0
    PROVE  KeepsContract
BY DEF KeepsContract, Contract!Next, Contract!Answer, InAnyCall, Can, Gives, Told

\* Lemma: run_engine returns without one.
LEMMA Fails ==
    ASSUME InAnyCall, runs > 0, ~Told, ~InAnyCall', runs' = runs, ~Told', Can' <=> Can,
           Gives' <=> Gives, answer' = answer
    PROVE  KeepsContract
BY DEF KeepsContract, Contract!Next, Contract!Fail, InAnyCall, Can, Gives, Told

\* Lemma: the engine can answer no more.
LEMMA Releases ==
    ASSUME ~InAnyCall, ~InAnyCall', ~Can', runs' = runs, Told' <=> Told,
           Gives' <=> Gives, answer' = answer
    PROVE  KeepsContract
BY DEF KeepsContract, Contract!Next, Contract!Release, InAnyCall, Can, Gives, Told

\* Lemma: the contract does not see the step.
LEMMA Goes ==
    ASSUME InAnyCall' <=> InAnyCall, Can' <=> Can, Gives' <=> Gives, runs' = runs,
           Told' <=> Told, answer' = answer
    PROVE  KeepsContract
BY DEF KeepsContract, Contract!vars, InAnyCall, Can, Gives, Told

\* Lemma: a step of create_engine, that returns with it, goes on or goes wrong.
LEMMA CreateKeeps ==
    ASSUME Calls, Creating, ~undefined, runs' = runs, answer' = answer,
           InAnyCall' => init_code' # "success" /\ pc' # "gone"
    PROVE  KeepsContract
<1>1. InAnyCall /\ runs = 0 /\ ~Can /\ ~Told /\ ~Gives
  BY DEF Calls, Creating, InAnyCall, Can, Told, Gives
<1>2. ~Told'
  BY <1>1 DEF Told
<1>3. CASE InAnyCall'
  <2>1. ~Can' /\ ~Gives'
    BY <1>3 DEF Can, Gives
  <2>2. QED BY <1>1, <1>2, <1>3, <2>1, Goes
<1>4. CASE ~InAnyCall'
  BY <1>1, <1>2, <1>4, Creates
<1>5. QED BY <1>3, <1>4

\* Lemma: run_engine is called, and may return at once without an answer.
LEMMA AskKeeps ==
    ASSUME pc = "idle", runs' = runs + 1, answer' = answer,
           UNCHANGED <<board, init_code, model>>, AliveEngine' <=> AliveEngine,
           pc' # "gone", pc' = "idle" => code' # "success"
    PROVE  KeepsContract
<1>1. ~InAnyCall /\ ~Told' /\ (Can' <=> Can)
  BY Zenon DEF InAnyCall, Told, Can
<1>2. QED BY <1>1, GivesStays, Asks

\* Lemma: run_engine goes on, goes wrong or returns without an answer.
LEMMA RunKeeps ==
    ASSUME pc \notin {"idle", "gone"}, ~undefined, runs > 0, runs' = runs,
           answer' = answer, UNCHANGED <<board, init_code, model>>,
           AliveEngine' <=> AliveEngine, pc' # "gone", pc' = "idle" => code' # "success"
    PROVE  KeepsContract
<1>1. InAnyCall /\ ~Told /\ ~Told' /\ (Can' <=> Can)
  BY Zenon DEF InAnyCall, Told, Can
<1>2. CASE InAnyCall'
  BY <1>1, <1>2, GivesStays, Goes
<1>3. CASE ~InAnyCall'
  BY <1>1, <1>3, GivesStays, Fails
<1>4. QED BY <1>2, <1>3

\* Lemma: run_engine returns with the answer.
LEMMA AnswerKeeps ==
    ASSUME pc \notin {"idle", "gone"}, ~undefined, runs > 0, runs' = runs,
           answer' = (IF Gives THEN runs ELSE 0), UNCHANGED <<board, init_code, model>>,
           Can, Can', pc' = "idle", code' = "success"
    PROVE  KeepsContract
<1>1. InAnyCall /\ ~InAnyCall' /\ Told'
  BY DEF InAnyCall, Told
<1>2. QED BY <1>1, GivesStays, Answers

\* Lemma: between two calls, or after the last, the engine may lose the ability
\* to answer and no more.
LEMMA IdleKeeps ==
    ASSUME pc \in {"idle", "gone"}, pc' \in {"idle", "gone"}, runs' = runs,
           answer' = answer, UNCHANGED <<board, code, init_code, model>>,
           AliveEngine' => AliveEngine
    PROVE  KeepsContract
<1>1. ~InAnyCall /\ ~InAnyCall' /\ (Told' <=> Told)
  BY DEF InAnyCall, Told
<1>2. CASE Can'
  <2>1. Can
    BY <1>2, Zenon DEF Can
  <2>2. QED BY <1>1, <1>2, <2>1, GivesStays, Goes
<1>3. CASE ~Can'
  BY <1>1, <1>3, GivesStays, Releases
<1>4. QED BY <1>2, <1>3

-----------------------------------------------------------------------------
(* Models and memory *)

\* Lemma: the parts of a model.
LEMMA ModelParts ==
    ASSUME NEW m \in Models
    PROVE  /\ m.out \in Seq(Tensor) /\ m.out # <<>> /\ Len(m.out) \in Nat \ {0}
           /\ DOMAIN m.out = 1 .. Len(m.out)
           /\ m.in \in IE_Shape /\ m.in.w > 0 /\ m.in.h > 0 /\ m.in # NoShape
           /\ m.in.c \in Nat /\ m.inputs \in Nat \ {0}
<1>1. m.out \in Seq(Tensor) /\ m.in \in IE_Shape /\ m.inputs \in Nat \ {0}
  BY ModelsAssumption
<1>2. m.in.w > 0 /\ m.in.h > 0 /\ m.out # <<>>
  BY ModelsAssumption
<1>3. Len(m.out) \in Nat \ {0} /\ DOMAIN m.out = 1 .. Len(m.out)
  BY <1>1, <1>2
<1>4. m.in.c \in Nat /\ m.in # NoShape
  BY <1>1, <1>2 DEF IE_Shape, NoShape
<1>5. QED BY <1>1, <1>2, <1>3, <1>4

\* Lemma: the shape of the input is one.
LEMMA Shape == ASSUME Net PROVE m_input_shape \in IE_Shape /\ m_input_shape.w \in Nat
<1>1. model.in \in IE_Shape /\ NoShape \in IE_Shape
  BY ModelParts DEF Net, NoModel, NoShape, IE_Shape
<1>2. m_input_shape \in IE_Shape
  BY <1>1 DEF Net
<1>3. QED BY <1>2 DEF IE_Shape

\* Lemma: no two fields are one, and each output's is there.
LEMMA Distinct ==
    /\ ModelBuf # Src /\ ModelBuf # Task /\ ModelBuf # Tmp
    /\ Src # Task /\ Src # Tmp /\ Task # Tmp
    /\ \A i : Dst(i) \notin {ModelBuf, Src, Task, Tmp}
    /\ \A i, j : Dst(i) = Dst(j) => i = j
    /\ {ModelBuf, Src, Task, Tmp} \subseteq Buffers
    /\ \A m \in Models : \A i \in DOMAIN m.out : Dst(i) \in Buffers
    /\ \A b \in Buffers : b \in {ModelBuf, Src, Task, Tmp} <=> b \notin Dsts
<1>1. /\ ModelBuf # Src /\ ModelBuf # Task /\ ModelBuf # Tmp
      /\ Src # Task /\ Src # Tmp /\ Task # Tmp
  BY DEF ModelBuf, Src, Task, Tmp
<1>2. \A i : Dst(i) \notin {ModelBuf, Src, Task, Tmp}
  BY DEF ModelBuf, Src, Task, Tmp, Dst
<1>3. \A i, j : Dst(i) = Dst(j) => i = j
  BY DEF Dst
<1>4. {ModelBuf, Src, Task, Tmp} \subseteq Buffers
  BY DEF Buffers
<1>5. \A m \in Models : \A i \in DOMAIN m.out : Dst(i) \in Dsts
  <2> TAKE m \in Models
  <2> TAKE i \in DOMAIN m.out
  <2>1. Dst(i) \in {Dst(j) : j \in DOMAIN m.out}
    OBVIOUS
  <2>2. QED BY <2>1 DEF Dsts
<1>6. \A m \in Models : \A i \in DOMAIN m.out : Dst(i) \in Buffers
  BY <1>5 DEF Buffers
<1>7. \A b \in Dsts : b \notin {ModelBuf, Src, Task, Tmp}
  <2> TAKE b \in Dsts
  <2>1. PICK m \in Models : b \in {Dst(i) : i \in DOMAIN m.out}
    BY DEF Dsts
  <2>2. PICK i \in DOMAIN m.out : b = Dst(i)
    BY <2>1
  <2>3. QED BY <2>2, <1>2
<1>8. \A b \in Buffers : b \in {ModelBuf, Src, Task, Tmp} <=> b \notin Dsts
  BY <1>7 DEF Buffers
<1>9. QED BY <1>1, <1>2, <1>3, <1>4, <1>6, <1>8

-----------------------------------------------------------------------------
(* What is handed out *)

\* Lemma: blobs that run_engine has put an image into are blobs.
LEMMA Filled ==
    ASSUME NEW blobs \in Seq(Blob), NEW image \in Nat, NEW filled, NEW after,
           after = [i \in DOMAIN blobs |->
                       IF i \in filled THEN [blobs[i] EXCEPT !.data = image]
                       ELSE blobs[i]]
    PROVE  /\ after \in Seq(Blob) /\ Len(after) = Len(blobs)
           /\ DOMAIN after = DOMAIN blobs
           /\ \A i \in DOMAIN blobs : after[i].data = IF i \in filled THEN image
                                                      ELSE blobs[i].data
           /\ \A i \in DOMAIN blobs : i \notin filled => after[i] = blobs[i]
<1> DEFINE value(i) == IF i \in filled THEN [blobs[i] EXCEPT !.data = image]
                       ELSE blobs[i]
<1>1. \A b \in Blob : [b EXCEPT !.data = image] \in Blob
  BY DEF Blob
<1>2. \A i \in DOMAIN blobs : value(i) \in Blob
  BY <1>1
<1>3. \A b \in Blob : [b EXCEPT !.data = image].data = image
  BY DEF Blob
<1>4. \A i \in DOMAIN blobs :
          value(i).data = IF i \in filled THEN image ELSE blobs[i].data
  BY <1>3
<1>5. \A i \in DOMAIN blobs : i \notin filled => value(i) = blobs[i]
  OBVIOUS
<1>6. after = [i \in DOMAIN blobs |-> value(i)]
  OBVIOUS
<1> HIDE DEF value
<1>7. DOMAIN blobs = 1 .. Len(blobs) /\ Len(blobs) \in Nat
  OBVIOUS
<1>8. after \in Seq(Blob) /\ Len(after) = Len(blobs)
  BY <1>2, <1>6, <1>7
<1>9. DOMAIN after = DOMAIN blobs /\ \A i \in DOMAIN blobs : after[i] = value(i)
  BY <1>6
<1>10. QED BY <1>4, <1>5, <1>8, <1>9

\* Lemma: what run_engine has put an image into are blobs.
LEMMA TengineFills ==
    ASSUME Numbers, Net, NEW filled, Tengine!RunSucceeds(tensors, filled)
    PROVE  m_output_blobs' \in Seq(Blob)
<1>1. tensors \in Nat /\ m_output_blobs \in Seq(Blob)
  BY DEF Numbers, Net
<1>2. m_output_blobs' =
          [i \in DOMAIN m_output_blobs |->
               IF i \in filled THEN [m_output_blobs[i] EXCEPT !.data = tensors]
               ELSE m_output_blobs[i]]
  BY DEF Tengine!RunSucceeds
<1>3. QED BY <1>1, <1>2, Filled

\* Lemma: likewise.
LEMMA RknnFills ==
    ASSUME Numbers, Net, NEW filled, RKNN!RunSucceeds(bufs, filled)
    PROVE  m_output_blobs' \in Seq(Blob)
<1>1. bufs \in Nat /\ m_output_blobs \in Seq(Blob)
  BY DEF Numbers, Net
<1>2. m_output_blobs' =
          [i \in DOMAIN m_output_blobs |->
               IF i \in filled THEN [m_output_blobs[i] EXCEPT !.data = bufs]
               ELSE m_output_blobs[i]]
  BY DEF RKNN!RunSucceeds
<1>3. QED BY <1>1, <1>2, Filled

\* Lemma: blobs that all have one image answer with it.
LEMMA AnsweredAll ==
    ASSUME NEW blobs, NEW n, DOMAIN blobs # {},
           \A i \in DOMAIN blobs : blobs[i].data = n
    PROVE  Answered(blobs) = n /\ Tengine!Answered(blobs) = n /\ RKNN!Answered(blobs) = n
<1>1. {blobs[i].data : i \in DOMAIN blobs} = {n}
  OBVIOUS
<1>2. \E k \in {n} : {n} = {k}
  OBVIOUS
<1>3. (CHOOSE k \in {n} : TRUE) = n
  OBVIOUS
<1>4. QED BY <1>1, <1>2, <1>3 DEF Answered, Tengine!Answered, RKNN!Answered

\* Lemma: blobs of which one has none do not answer.
LEMMA AnsweredNone ==
    ASSUME NEW blobs, NEW i \in DOMAIN blobs, blobs[i].data = 0
    PROVE  Answered(blobs) = 0 /\ RKNN!Answered(blobs) = 0
<1> DEFINE images == {blobs[j].data : j \in DOMAIN blobs}
<1>1. 0 \in images
  OBVIOUS
<1>2. (IF \E n \in images : images = {n} THEN CHOOSE n \in images : TRUE ELSE 0) = 0
  <2>1. ASSUME NEW n \in images, images = {n} PROVE images = {0}
    BY <1>1, <2>1
  <2> HIDE DEF images
  <2>2. images = {0} => (CHOOSE n \in images : TRUE) = 0
    OBVIOUS
  <2>3. QED BY <2>1, <2>2
<1>3. QED BY <1>2 DEF Answered, RKNN!Answered

-----------------------------------------------------------------------------
\* Lemma: create_engine begins so.
LEMMA ApiInit == InitApi => ApiInv
<1> SUFFICES ASSUME InitApi PROVE ApiInv
  OBVIOUS
<1>1. \E fresh \in {"zero", "junk"} : InitBase({"hisi", "x86", "rk", "rv"}, fresh)
  BY DEF InitApi, Init, Tengine!Init, RKNN!Init, InitBase, Tengine!InitBase,
         RKNN!InitBase, NoModel, NoShape, Junk, Tengine!NoModel, Tengine!NoShape,
         Tengine!Junk, RKNN!NoModel, RKNN!NoShape, RKNN!Junk
<1>2. \E fresh \in {"zero", "junk"} :
          Fresh(fresh) /\ (board # "hisi" => fresh = "zero")
  BY DEF InitApi, Init, Tengine!Init, RKNN!Init, InitBase, Tengine!InitBase,
         RKNN!InitBase
<1>3. /\ g_is_init \in BOOLEAN /\ m_graph = "unset" /\ tensors = 0
      /\ m_ctx = "unset" /\ m_outputs = Junk /\ bufs = 0
  BY DEF InitApi, Tengine!Init, RKNN!Init, Tengine!Absent, RKNN!Absent, Junk,
         RKNN!Junk
<1>4. Flags
  <2>1. PICK fresh \in {"zero", "junk"} : InitBase({"hisi", "x86", "rk", "rv"}, fresh)
    BY <1>1
  <2>2. PICK rest \in {"zero", "junk"} : Fresh(rest)
    BY <1>2
  <2>3. QED BY <1>3, <2>1, <2>2 DEF Flags, InitBase, Fresh
<1>5. Numbers
  <2>1. runs = 0 /\ answer = 0
    BY <1>1 DEF InitBase
  <2>2. src = 0 /\ results = 0 /\ files = 0 /\ nTimeOut = 0 /\ device = <<>>
    BY <1>2 DEF Fresh
  <2>3. QED
    BY <1>3, <2>1, <2>2, MaxRunsAssumption DEF Numbers, TimeOutLimit
<1>6. Net /\ Fields
  <2>1. /\ model = NoModel /\ m_input_shape = NoShape /\ m_output_num \in {0, Junk}
        /\ m_output_blobs = <<>> /\ outputs = <<>>
    BY <1>1 DEF InitBase
  <2>2. model.in = NoShape
    BY <2>1 DEF NoModel
  <2>3. Net
    BY <2>1, <2>2 DEF Net
  <2>4. Fields
    BY <1>2, <1>3 DEF Fields, Fresh, Field
  <2>5. QED BY <2>3, <2>4
<1>61. Calls /\ NetInv
  BY <1>1 DEF InitBase, Calls, NetInv, Creating, NoModel, NoShape, Places, IE_ERR_CODE
<1>62. ~undefined
  BY <1>1 DEF InitBase
<1>7. NnieInv
  BY <1>1, <1>2
     DEF InitBase, Fresh, NnieInv, MemoryInv, FieldsInv, DeviceInv, EmptyInv, Owned,
         ReleaseReturnsAll, Creating, Preparing
<1>8. board # "hisi" => NnieAbsent
  BY <1>2 DEF Fresh, NnieAbsent
<1>9. TengineInv
  BY <1>1, <1>3 DEF InitBase, TengineInv, Junk, NoModel, NoShape
<1>10. RknnInv /\ PlacesInv
  <2>1. RknnInv
    BY <1>1, <1>3 DEF InitBase, RknnInv, Junk, NoModel, NoShape
  <2>2. m_output_blobs = <<>> /\ m_outputs = Junk
    BY <1>1, <1>3 DEF InitBase
  <2>3. QED BY <2>1, <2>2 DEF PlacesInv
<1>11. QED
  BY <1>3, <1>4, <1>5, <1>6, <1>61, <1>62, <1>7, <1>8, <1>9, <1>10 DEF ApiInv, DefinedForCareful

-----------------------------------------------------------------------------
(* EngineNNIE *)

\* Lemma: a flag stays one.
LEMMA NnieFlags ==
    ASSUME Flags, Next, UNCHANGED <<ownTengine, ownRKNN>>
    PROVE  Flags'
<1> USE DEF base, setting, call, net, given, ownNNIE, memory, object, inference,
            ownTengine, ownRKNN, InitEnds, InitReturns, Return, InitGoesOn,
            GoesWrong, Flags
<1>1. CASE OpenFails
  BY <1>1 DEF OpenFails
<1>2. CASE MallocModelFails
  BY <1>2 DEF MallocModelFails
<1>3. CASE LoadModelFails
  BY <1>3 DEF LoadModelFails
<1>4. CASE LoadModel
  BY <1>4 DEF LoadModel, Allocate
<1>5. CASE MallocSrc
  BY <1>5 DEF MallocSrc, BlobFails, Allocate
<1>6. CASE MallocDst
  BY <1>6 DEF MallocDst, BlobFails, Allocate
<1>7. CASE MallocTask
  BY <1>7 DEF MallocTask, MallocFails, Allocate
<1>8. CASE MallocTmp
  <2>1. m_fw_ctrl' \in BOOLEAN
    BY <1>8 DEF MallocTmp, MallocFails
  <2>2. /\ UNCHANGED <<board, normalise, careful, undefined, registered, flushed>>
        /\ UNCHANGED <<corrupt, g_is_init>>
    BY <1>8 DEF MallocTmp, MallocFails
  <2>3. QED
    BY <2>1, <2>2
<1>9. CASE QueryTimesOut
  BY <1>9 DEF QueryTimesOut, RunFails
<1>10. CASE QueryFails
  BY <1>10 DEF QueryFails, RunFails
<1>11. CASE QueryFinished
  BY <1>11 DEF QueryFinished, RunSucceeds
<1>12. CASE DeviceFinishes
  BY <1>12 DEF DeviceFinishes
<1>13. CASE Release
  BY <1>13 DEF Release
<1>14. ASSUME NEW img \in Images, RunRefused(img, Alive), UNCHANGED ownNNIE
      PROVE  Flags'
  BY <1>14 DEF RunRefused, Begin
<1>15. ASSUME NEW img \in Images, RunAnyway(img)
      PROVE  Flags'
  BY <1>15 DEF RunAnyway, Begin
<1>16. CASE Destroy
  BY <1>16 DEF Destroy, DestroyEngine
<1>17. QED
  BY <1>1, <1>2, <1>3, <1>4, <1>5, <1>6, <1>7, <1>8, <1>9, <1>10, <1>11, <1>12,
     <1>13, <1>14, <1>15, <1>16, Zenon
     DEF Next, CreateStep, RunStep, Forward

\* Lemma: the platform stays.
LEMMA NnieBoard ==
    ASSUME Next, UNCHANGED <<ownTengine, ownRKNN>>
    PROVE  board' = board
<1> USE DEF base, setting, call, net, given, ownNNIE, memory, object, inference,
            ownTengine, ownRKNN, InitEnds, InitReturns, Return, InitGoesOn,
            GoesWrong
<1>1. CASE OpenFails
  BY <1>1 DEF OpenFails
<1>2. CASE MallocModelFails
  BY <1>2 DEF MallocModelFails
<1>3. CASE LoadModelFails
  BY <1>3 DEF LoadModelFails
<1>4. CASE LoadModel
  BY <1>4 DEF LoadModel, Allocate
<1>5. CASE MallocSrc
  BY <1>5 DEF MallocSrc, BlobFails, Allocate
<1>6. CASE MallocDst
  BY <1>6 DEF MallocDst, BlobFails, Allocate
<1>7. CASE MallocTask
  BY <1>7 DEF MallocTask, MallocFails, Allocate
<1>8. CASE MallocTmp
  BY <1>8 DEF MallocTmp, MallocFails, Allocate
<1>9. CASE QueryTimesOut
  BY <1>9 DEF QueryTimesOut, RunFails
<1>10. CASE QueryFails
  BY <1>10 DEF QueryFails, RunFails
<1>11. CASE QueryFinished
  BY <1>11 DEF QueryFinished, RunSucceeds
<1>12. CASE DeviceFinishes
  BY <1>12 DEF DeviceFinishes
<1>13. CASE Release
  BY <1>13 DEF Release
<1>14. ASSUME NEW img \in Images, RunRefused(img, Alive), UNCHANGED ownNNIE
      PROVE  board' = board
  BY <1>14 DEF RunRefused, Begin
<1>15. ASSUME NEW img \in Images, RunAnyway(img)
      PROVE  board' = board
  BY <1>15 DEF RunAnyway, Begin
<1>16. CASE Destroy
  BY <1>16 DEF Destroy, DestroyEngine
<1>17. QED
  BY <1>1, <1>2, <1>3, <1>4, <1>5, <1>6, <1>7, <1>8, <1>9, <1>10, <1>11, <1>12,
     <1>13, <1>14, <1>15, <1>16, Zenon
     DEF Next, CreateStep, RunStep, Forward

\* Lemma: Dequant takes nothing to an empty blob.
LEMMA DequantOfNothing == \A stride : Dequant(Rows(NoShape), NoShape.w, stride) = {}
<1>1. Rows(NoShape) = 0 /\ NoShape.w = 0
  BY DEF Rows, NoShape
<1>2. \A stride : DequantPlain(0, 0, stride) = {}
  BY DEF DequantPlain
<1>3. QED BY <1>1, <1>2 DEF Dequant, MinStep

\* Lemma: run fills no blob, and what it hands out answers nothing.
LEMMA NnieAnswers ==
    ASSUME Numbers, Net, NetInv, FieldsInv, DeviceInv, EmptyInv, QueryFinished
    PROVE  answer' = 0 /\ m_output_blobs' = m_output_blobs
<1>1. init_code = "success" /\ pc = "query"
  BY DEF QueryFinished, DeviceInv, FieldsInv
<1>2. model \in Models /\ m_output_num = Len(model.out)
  BY <1>1 DEF NetInv
<1>3. /\ m_output_num \in Nat \ {0} /\ m_output_num <= Len(m_output_blobs)
      /\ \A i \in 1 .. m_output_num : m_output_blobs[i] = EmptyBlob
  BY <1>1, <1>2, ModelParts DEF EmptyInv
<1>4. \A i \in 1 .. m_output_num : Dequantised(i) = {}
  BY <1>3, DequantOfNothing DEF Dequantised
<1>5. {i \in 1 .. m_output_num : Dequantised(i) # {}} = {}
  BY <1>4
<1>6. PICK image : RunSucceeds(image, {i \in 1 .. m_output_num : Dequantised(i) # {}})
  BY DEF QueryFinished
<1>7. RunSucceeds(image, {})
  BY <1>5, <1>6
<1>8. m_output_blobs' = m_output_blobs
  BY <1>7 DEF RunSucceeds, Net
<1>9. 1 \in DOMAIN m_output_blobs /\ m_output_blobs[1].data = 0
  BY <1>3 DEF Net, EmptyBlob
<1>10. answer' = Answered(m_output_blobs)
  BY <1>7, <1>8 DEF RunSucceeds
<1>11. QED BY <1>8, <1>9, <1>10, AnsweredNone

\* Lemma: no number is beyond the runs so far.
LEMMA NnieNumbers ==
    ASSUME Numbers, Net, NetInv, FieldsInv, DeviceInv, EmptyInv, Next,
           UNCHANGED <<ownTengine, ownRKNN>>
    PROVE  Numbers'
<1> USE DEF base, setting, call, net, given, ownNNIE, memory, object, inference,
            ownTengine, ownRKNN, InitEnds, InitReturns, Return, InitGoesOn,
            GoesWrong, Numbers
<1>1. CASE OpenFails
  BY <1>1, MaxRunsAssumption DEF OpenFails
<1>2. CASE MallocModelFails
  BY <1>2, MaxRunsAssumption DEF MallocModelFails, FieldsInv
<1>3. CASE LoadModelFails
  BY <1>3, MaxRunsAssumption DEF LoadModelFails, FieldsInv
<1>4. CASE LoadModel
  BY <1>4, MaxRunsAssumption DEF LoadModel, Allocate
<1>5. CASE MallocSrc
  BY <1>5, MaxRunsAssumption DEF MallocSrc, BlobFails, Allocate
<1>6. CASE MallocDst
  BY <1>6, MaxRunsAssumption DEF MallocDst, BlobFails, Allocate
<1>7. CASE MallocTask
  BY <1>7, MaxRunsAssumption DEF MallocTask, MallocFails, Allocate
<1>8. CASE MallocTmp
  BY <1>8, MaxRunsAssumption DEF MallocTmp, MallocFails, Allocate
<1>9. CASE QueryTimesOut
  BY <1>9, MaxRunsAssumption
     DEF QueryTimesOut, RunFails, OneMore, DeviceInv, TimeOutLimit
<1>10. CASE QueryFails
  BY <1>10, MaxRunsAssumption DEF QueryFails, RunFails
<1>11. CASE QueryFinished
  <2>1. answer' = 0
    BY <1>11, NnieAnswers
  <2>2. nTimeOut' = 0 /\ UNCHANGED <<runs, src, results, tensors, bufs, files, device>>
    BY <1>11 DEF QueryFinished, RunSucceeds
  <2>3. QED
    BY <2>1, <2>2, MaxRunsAssumption DEF TimeOutLimit
<1>12. CASE DeviceFinishes
  BY <1>12, MaxRunsAssumption DEF DeviceFinishes
<1>13. CASE Release
  BY <1>13, MaxRunsAssumption DEF Release
<1>14. ASSUME NEW img \in Images, RunRefused(img, Alive), UNCHANGED ownNNIE
      PROVE  Numbers'
  BY <1>14, MaxRunsAssumption DEF RunRefused, Begin
<1>15. ASSUME NEW img \in Images, RunAnyway(img)
      PROVE  Numbers'
  <2>1. runs < MaxRuns /\ runs \in Nat
    BY <1>15, MaxRunsAssumption DEF RunAnyway, Begin
  <2>2. /\ runs' \in {runs, runs + 1} /\ src' \in {0, src, runs'}
        /\ nTimeOut' \in {nTimeOut, 0}
        /\ \/ device' = device
           \/ device' = Append(device, runs') /\ runs' = runs + 1
        /\ UNCHANGED <<answer, results, tensors, bufs, files>>
    BY <1>15 DEF RunAnyway
  <2>3. device' \in Seq(1 .. MaxRuns) /\ Len(device') <= runs'
    <3>1. CASE device' = device
      BY <2>1, <2>2, <3>1
    <3>2. CASE device' = Append(device, runs') /\ runs' = runs + 1
      <4>1. runs' \in 1 .. MaxRuns
        BY <2>1, <3>2, MaxRunsAssumption
      <4>2. QED BY <2>1, <3>2, <4>1
    <3>3. QED BY <2>2, <3>1, <3>2
  <2>4. QED
    BY <2>1, <2>2, <2>3, MaxRunsAssumption DEF TimeOutLimit
<1>16. CASE Destroy
  BY <1>16, MaxRunsAssumption DEF Destroy, DestroyEngine
<1>17. QED
  BY <1>1, <1>2, <1>3, <1>4, <1>5, <1>6, <1>7, <1>8, <1>9, <1>10, <1>11, <1>12,
     <1>13, <1>14, <1>15, <1>16, Zenon
     DEF Next, CreateStep, RunStep, Forward

\* Lemma: the fields of IE_Engine.
LEMMA NnieNet ==
    ASSUME Numbers, Net, NetInv, FieldsInv, DeviceInv, EmptyInv, Next,
           UNCHANGED <<ownTengine, ownRKNN>>
    PROVE  Net'
<1> USE DEF base, setting, call, net, given, ownNNIE, memory, object, inference,
            ownTengine, ownRKNN, InitEnds, InitReturns, Return, InitGoesOn,
            GoesWrong, Net
<1>1. CASE OpenFails
  BY <1>1 DEF OpenFails
<1>2. CASE MallocModelFails
  BY <1>2 DEF MallocModelFails
<1>3. CASE LoadModelFails
  BY <1>3 DEF LoadModelFails
<1>4. CASE LoadModel
  BY <1>4, ModelParts DEF LoadModel, Allocate, NetInv
<1>5. CASE MallocSrc
  <2>1. CASE \E c \in {"malloc", "flush"} : InitEnds(c)
    BY <2>1
  <2>2. CASE /\ m_output_num' = Len(model.out) /\ InitGoesOn("dst")
             /\ m_output_blobs' = [i \in DOMAIN model.out |-> EmptyBlob]
             /\ UNCHANGED <<model, m_input_shape>>
    <3>1. model \in Models
      BY <1>5 DEF MallocSrc, FieldsInv, Preparing
    <3>2. EmptyBlob \in Blob
      BY DEF EmptyBlob, Blob
    <3>3. m_output_blobs' \in Seq(Blob)
      BY <2>2, <3>1, <3>2, ModelParts
    <3>4. QED BY <2>2, <3>3
  <2>3. QED
    BY <1>5, <2>1, <2>2 DEF MallocSrc, BlobFails
<1>6. CASE MallocDst
  <2>1. Len(m_output_blobs) - m_output_num + 1 \in Nat
    BY <1>6 DEF MallocDst, FieldsInv, HaveMemory
  <2>2. NewBlob(Len(m_output_blobs) - m_output_num + 1) \in Blob
    BY <2>1 DEF NewBlob, Blob
  <2>3. m_output_blobs' \in Seq(Blob)
    BY <1>6, <2>2 DEF MallocDst, BlobFails
  <2>4. UNCHANGED <<model, m_input_shape, m_output_num, outputs>>
    BY <1>6 DEF MallocDst, BlobFails
  <2>5. QED
    BY <2>3, <2>4
<1>7. CASE MallocTask
  BY <1>7 DEF MallocTask, MallocFails, Allocate
<1>8. CASE MallocTmp
  BY <1>8 DEF MallocTmp, MallocFails, Allocate
<1>9. CASE QueryTimesOut
  BY <1>9 DEF QueryTimesOut, RunFails
<1>10. CASE QueryFails
  BY <1>10 DEF QueryFails, RunFails
<1>11. CASE QueryFinished
  <2>1. m_output_blobs' = m_output_blobs
    BY <1>11, NnieAnswers
  <2>2. outputs' = m_output_blobs' /\ UNCHANGED <<model, m_input_shape, m_output_num>>
    BY <1>11 DEF QueryFinished, RunSucceeds
  <2>3. QED
    BY <2>1, <2>2
<1>12. CASE DeviceFinishes
  BY <1>12 DEF DeviceFinishes
<1>13. CASE Release
  BY <1>13 DEF Release
<1>14. ASSUME NEW img \in Images, RunRefused(img, Alive), UNCHANGED ownNNIE
      PROVE  Net'
  BY <1>14 DEF RunRefused, Begin
<1>15. ASSUME NEW img \in Images, RunAnyway(img)
      PROVE  Net'
  BY <1>15 DEF RunAnyway, Begin
<1>16. CASE Destroy
  BY <1>16 DEF Destroy, DestroyEngine
<1>17. QED
  BY <1>1, <1>2, <1>3, <1>4, <1>5, <1>6, <1>7, <1>8, <1>9, <1>10, <1>11, <1>12,
     <1>13, <1>14, <1>15, <1>16, Zenon
     DEF Next, CreateStep, RunStep, Forward

\* Lemma: the fields of EngineNNIE; those of the others stay.
LEMMA NnieFields ==
    ASSUME Fields, m_outputs = Junk, Net, FieldsInv, Next, UNCHANGED <<ownTengine,
           ownRKNN>>
    PROVE  Fields'
<1> USE DEF base, setting, call, net, given, ownNNIE, memory, object, inference,
            ownTengine, ownRKNN, InitEnds, InitReturns, Return, InitGoesOn,
            GoesWrong, Fields
<1>1. CASE OpenFails
  BY <1>1 DEF OpenFails
<1>2. CASE MallocModelFails
  BY <1>2, Distinct DEF MallocModelFails, Field
<1>3. CASE LoadModelFails
  BY <1>3, Distinct DEF LoadModelFails, Field
<1>4. CASE LoadModel
  BY <1>4, Distinct DEF LoadModel, Allocate, Field
<1>5. CASE MallocSrc
  BY <1>5, Distinct DEF MallocSrc, BlobFails, Allocate, Field
<1>6. CASE MallocDst
  <2>1. /\ model \in Models
        /\ Len(m_output_blobs) - m_output_num + 1 \in 1 .. Len(model.out)
    BY <1>6, ModelParts DEF MallocDst, FieldsInv, HaveMemory, Preparing
  <2>2. Dst(Len(m_output_blobs) - m_output_num + 1) \in Buffers
    BY <2>1, Distinct, ModelParts
  <2>3. QED
    BY <1>6, <2>2 DEF MallocDst, BlobFails, Allocate, Field
<1>7. CASE MallocTask
  BY <1>7, Distinct DEF MallocTask, MallocFails, Allocate, Field
<1>8. CASE MallocTmp
  BY <1>8, Distinct DEF MallocTmp, MallocFails, Allocate, Field
<1>9. CASE QueryTimesOut
  BY <1>9 DEF QueryTimesOut, RunFails
<1>10. CASE QueryFails
  BY <1>10 DEF QueryFails, RunFails
<1>11. CASE QueryFinished
  BY <1>11 DEF QueryFinished, RunSucceeds
<1>12. CASE DeviceFinishes
  BY <1>12 DEF DeviceFinishes
<1>13. CASE Release
  BY <1>13 DEF Release, Free, Field
<1>14. ASSUME NEW img \in Images, RunRefused(img, Alive), UNCHANGED ownNNIE
      PROVE  Fields'
  BY <1>14 DEF RunRefused, Begin
<1>15. ASSUME NEW img \in Images, RunAnyway(img)
      PROVE  Fields'
  BY <1>15 DEF RunAnyway, Begin
<1>16. CASE Destroy
  BY <1>16 DEF Destroy, DestroyEngine, Field
<1>17. QED
  BY <1>1, <1>2, <1>3, <1>4, <1>5, <1>6, <1>7, <1>8, <1>9, <1>10, <1>11, <1>12,
     <1>13, <1>14, <1>15, <1>16, Zenon
     DEF Next, CreateStep, RunStep, Forward

\* Lemma: what create_engine and run_engine return.
LEMMA NnieCalls ==
    ASSUME Calls, NnieInv, Next, UNCHANGED <<ownTengine, ownRKNN>>
    PROVE  Calls'
<1> USE DEF base, setting, call, net, given, ownNNIE, memory, object, inference,
            ownTengine, ownRKNN, InitEnds, InitReturns, Return, InitGoesOn,
            GoesWrong, Calls, Creating
<1>1. CASE OpenFails
  BY <1>1 DEF OpenFails, Places, IE_ERR_CODE
<1>2. CASE MallocModelFails
  BY <1>2 DEF MallocModelFails, Places, IE_ERR_CODE
<1>3. CASE LoadModelFails
  BY <1>3 DEF LoadModelFails, Places, IE_ERR_CODE
<1>4. CASE LoadModel
  BY <1>4 DEF LoadModel, Allocate, Places, IE_ERR_CODE
<1>5. CASE MallocSrc
  BY <1>5 DEF MallocSrc, BlobFails, Allocate, Places, IE_ERR_CODE
<1>6. CASE MallocDst
  BY <1>6 DEF MallocDst, BlobFails, Allocate, Places, IE_ERR_CODE
<1>7. CASE MallocTask
  BY <1>7 DEF MallocTask, MallocFails, Allocate, Places, IE_ERR_CODE
<1>8. CASE MallocTmp
  BY <1>8 DEF MallocTmp, MallocFails, Allocate, Places, IE_ERR_CODE
<1>9. CASE QueryTimesOut
  BY <1>9 DEF QueryTimesOut, RunFails, Places, IE_ERR_CODE
<1>10. CASE QueryFails
  BY <1>10 DEF QueryFails, RunFails, Places, IE_ERR_CODE
<1>11. CASE QueryFinished
  BY <1>11 DEF QueryFinished, RunSucceeds, Places, IE_ERR_CODE
<1>12. CASE DeviceFinishes
  BY <1>12 DEF DeviceFinishes
<1>13. CASE Release
  BY <1>13 DEF Release
<1>14. ASSUME NEW img \in Images, RunRefused(img, Alive), UNCHANGED ownNNIE
      PROVE  Calls'
  BY <1>14 DEF RunRefused, Begin, Places, IE_ERR_CODE, Preprocess
<1>15. ASSUME NEW img \in Images, RunAnyway(img)
      PROVE  Calls'
  BY <1>15 DEF RunAnyway, Begin, Places, IE_ERR_CODE
<1>16. CASE Destroy
  BY <1>16 DEF Destroy, DestroyEngine, Places, IE_ERR_CODE
<1>17. QED
  BY <1>1, <1>2, <1>3, <1>4, <1>5, <1>6, <1>7, <1>8, <1>9, <1>10, <1>11, <1>12,
     <1>13, <1>14, <1>15, <1>16, Zenon
     DEF Next, CreateStep, RunStep, Forward

\* Lemma: how far create_engine got with the fields of IE_Engine.
LEMMA NnieNetInv ==
    ASSUME Net, NetInv, Calls, FieldsInv, Next, UNCHANGED <<ownTengine, ownRKNN>>
    PROVE  NetInv'
<1> USE DEF base, setting, call, net, given, ownNNIE, memory, object, inference,
            ownTengine, ownRKNN, InitEnds, InitReturns, Return, InitGoesOn,
            GoesWrong, NetInv
<1>1. CASE OpenFails
  BY <1>1 DEF OpenFails, NoShape
<1>2. CASE MallocModelFails
  BY <1>2 DEF MallocModelFails
<1>3. CASE LoadModelFails
  BY <1>3 DEF LoadModelFails
<1>4. CASE LoadModel
  BY <1>4, ModelParts DEF LoadModel, Allocate
<1>5. CASE MallocSrc
  BY <1>5 DEF MallocSrc, BlobFails, Allocate, FieldsInv, Preparing, Net
<1>6. CASE MallocDst
  BY <1>6 DEF MallocDst, BlobFails, Allocate
<1>7. CASE MallocTask
  BY <1>7 DEF MallocTask, MallocFails, Allocate
<1>8. CASE MallocTmp
  BY <1>8 DEF MallocTmp, MallocFails, Allocate, FieldsInv, Preparing
<1>9. CASE QueryTimesOut
  BY <1>9 DEF QueryTimesOut, RunFails
<1>10. CASE QueryFails
  BY <1>10 DEF QueryFails, RunFails
<1>11. CASE QueryFinished
  BY <1>11 DEF QueryFinished, RunSucceeds
<1>12. CASE DeviceFinishes
  BY <1>12 DEF DeviceFinishes
<1>13. CASE Release
  BY <1>13 DEF Release
<1>14. ASSUME NEW img \in Images, RunRefused(img, Alive), UNCHANGED ownNNIE
      PROVE  NetInv'
  BY <1>14 DEF RunRefused, Begin
<1>15. ASSUME NEW img \in Images, RunAnyway(img)
      PROVE  NetInv'
  BY <1>15 DEF RunAnyway, Begin
<1>16. CASE Destroy
  BY <1>16 DEF Destroy, DestroyEngine, NoShape
<1>17. QED
  BY <1>1, <1>2, <1>3, <1>4, <1>5, <1>6, <1>7, <1>8, <1>9, <1>10, <1>11, <1>12,
     <1>13, <1>14, <1>15, <1>16, Zenon
     DEF Next, CreateStep, RunStep, Forward

\* Lemma: a step that leaves the memory alone.
LEMMA MemoryRests ==
    ASSUME MemoryInv, UNCHANGED <<buf, mmz, model, m_output_num, loaded>>,
           init_code' = init_code \/ init_code = "none", pc' = "create" => pc = "create"
    PROVE  MemoryInv'
<1>1. Kept' = Kept /\ Released' = Released
  BY DEF Kept, Released
<1>2. Owned'
  BY DEF MemoryInv, Owned
<1>3. (loaded = "unloaded" => mmz = {} \/ init_code = "flush")'
  BY DEF MemoryInv
<1>4. QED BY <1>1, <1>2, <1>3 DEF MemoryInv

\* Lemma: in init a block is allocated, and its address gets into its field.
LEMMA MemoryGrows ==
    ASSUME Fields, MemoryInv, init_code = "none", loaded # "lost", NEW b \in Buffers,
           Allocate(b), b \in Kept', b \in Released', Kept \subseteq Kept',
           Released \subseteq Released', loaded' # "unloaded", pc' # "create"
    PROVE  MemoryInv'
<1>1. mmz' = mmz \cup {b} /\ mmz' \subseteq Kept'
  BY DEF Allocate, MemoryInv
<1>2. \A c \in Buffers : buf'[c] = IF c = b THEN "held" ELSE buf[c]
  BY DEF Allocate, Fields
<1>3. \A c \in Buffers : buf'[c] = "held" => c \in mmz' /\ c \in Released'
  BY <1>1, <1>2 DEF MemoryInv
<1>4. \A c \in mmz' : buf'[c] = "held"
  <2>1. \A c \in mmz : buf[c] = "held" /\ c \in Buffers
    BY DEF MemoryInv, Owned, Fields
  <2>2. QED BY <1>1, <1>2, <2>1
<1>5. QED BY <1>1, <1>3, <1>4 DEF MemoryInv, Owned

\* Lemma: in init a block is allocated, and its address never gets into a field.
LEMMA MemorySlips ==
    ASSUME MemoryInv, NEW b \in Kept, mmz' = mmz \cup {b},
           UNCHANGED <<buf, model, m_output_num>>, init_code' = "flush", pc' # "create"
    PROVE  MemoryInv'
<1>1. Kept' = Kept /\ Released' = Released
  BY DEF Kept, Released
<1>2. mmz' \subseteq Kept'
  BY <1>1 DEF MemoryInv
<1>3. \A c \in Buffers : buf'[c] = "held" => c \in mmz' /\ c \in Released'
  BY <1>1 DEF MemoryInv
<1>4. QED BY <1>2, <1>3 DEF MemoryInv, Owned

\* Lemma: the memory of the accelerator and the fields with its address.
LEMMA NnieMemory ==
    ASSUME Fields, Net, NetInv, Calls, FieldsInv, MemoryInv, Next,
           UNCHANGED <<ownTengine, ownRKNN>>
    PROVE  MemoryInv'
<1> USE DEF base, setting, call, net, given, ownNNIE, memory, object, inference,
            ownTengine, ownRKNN, InitEnds, InitReturns, Return, InitGoesOn,
            GoesWrong
<1>1. CASE OpenFails
  BY <1>1, MemoryRests DEF OpenFails, Calls, Creating
<1>2. CASE MallocModelFails
  BY <1>2, MemoryRests DEF MallocModelFails, Calls, Creating
<1>3. CASE LoadModelFails
  <2>1. /\ pc = "create" /\ mmz = {} /\ pc' = "idle" /\ init_code' = "load"
        /\ UNCHANGED <<mmz, model, m_output_num, loaded>>
    BY <1>3 DEF LoadModelFails, MemoryInv
  <2>2. \A b \in Buffers : buf'[b] # "held"
    <3>1. \A b \in Buffers : buf[b] # "held"
      BY <2>1 DEF MemoryInv
    <3>2. \A b \in Buffers : buf'[b] \in {"zero", buf[b]}
      BY <1>3 DEF LoadModelFails, Fields
    <3>3. QED BY <3>1, <3>2
  <2>3. QED BY <2>1, <2>2 DEF MemoryInv, Owned
<1>4. CASE LoadModel
  <2>1. /\ Allocate(ModelBuf) /\ init_code = "none" /\ loaded' = "loaded" /\ pc' = "src"
        /\ m_output_num' = m_output_num /\ model = NoModel /\ loaded # "lost"
    BY <1>4 DEF LoadModel, Calls, Creating, NetInv, FieldsInv
  <2>2. Kept \subseteq Kept' /\ ModelBuf \in Kept'
    BY <2>1 DEF Kept, NoModel
  <2>3. Released' = Released /\ ModelBuf \in Released /\ ModelBuf \in Buffers
    BY <2>1, Distinct DEF Released
  <2>4. QED BY <2>1, <2>2, <2>3, MemoryGrows
<1>5. CASE MallocSrc
  <2>1. /\ pc = "src" /\ init_code = "none" /\ loaded = "loaded" /\ model \in Models
        /\ m_output_num \in {0, Junk} /\ loaded' = "loaded" /\ model' = model
    BY <1>5 DEF MallocSrc, BlobFails, Calls, Creating, FieldsInv, Preparing
  <2>2. CASE InitEnds("malloc") /\ UNCHANGED memory
    BY <2>1, <2>2, MemoryRests
  <2>3. CASE InitEnds("flush") /\ mmz' = mmz \cup {Src} /\ UNCHANGED buf
    <3>1. Src \in Kept
      BY DEF Kept
    <3>2. QED BY <2>3, <3>1, MemorySlips
  <2>4. CASE /\ mmz' = mmz \cup {Src} /\ pc' = "dst" /\ m_output_num' = Len(model.out)
             /\ buf' = [b \in Buffers |-> IF b = Src THEN "held"
                                          ELSE IF b \in Dsts THEN "junk" ELSE buf[b]]
    <3>1. Released = {ModelBuf, Task, Tmp, Src}
      BY <2>1 DEF Released, Junk
    <3>2. \A b \in mmz : b \in Buffers /\ buf[b] = "held" /\ b \in Released
      BY <2>1 DEF MemoryInv, Owned, Fields
    <3>3. \A b \in mmz : b \notin Dsts
      BY <3>1, <3>2, Distinct
    <3>4. Src \in Buffers /\ Src \notin Dsts
      BY Distinct
    <3>5. \A b \in mmz' : buf'[b] = "held"
      BY <2>4, <3>2, <3>3, <3>4
    <3>6. \A b \in Buffers : buf'[b] = "held" => b \in mmz' /\ b \in {ModelBuf, Task, Tmp, Src}
      BY <2>4, <3>1 DEF MemoryInv
    <3>7. {ModelBuf, Task, Tmp, Src} \subseteq Released'
      BY DEF Released
    <3>8. mmz' \subseteq Kept'
      BY <2>1, <2>4 DEF MemoryInv, Kept
    <3>9. QED BY <2>1, <2>4, <3>5, <3>6, <3>7, <3>8 DEF MemoryInv, Owned
  <2>5. QED
    BY <1>5, <2>2, <2>3, <2>4 DEF MallocSrc, BlobFails
<1>6. CASE MallocDst
  <2> DEFINE i == Len(m_output_blobs) - m_output_num + 1
  <2>1. /\ pc = "dst" /\ init_code = "none" /\ loaded = "loaded" /\ model \in Models
        /\ i \in 1 .. m_output_num /\ m_output_num = Len(model.out)
        /\ UNCHANGED <<loaded, model, m_output_num>>
    <3>1. /\ pc = "dst" /\ init_code = "none" /\ loaded = "loaded" /\ model \in Models
          /\ m_output_num = Len(model.out) /\ UNCHANGED <<loaded, model, m_output_num>>
      BY <1>6 DEF MallocDst, BlobFails, Calls, Creating, FieldsInv, Preparing
    <3>2. HaveMemory \in 0 .. m_output_num - 1
      BY <3>1 DEF FieldsInv
    <3>3. Len(model.out) \in Nat
      BY <3>1, ModelParts
    <3>4. QED BY <3>1, <3>2, <3>3 DEF HaveMemory
  <2>2. DOMAIN model.out = 1 .. m_output_num
    BY <2>1, ModelParts
  <2>3. Dst(i) \in Kept /\ Dst(i) \in Released /\ Dst(i) \in Buffers
    BY <2>1, <2>2, Distinct DEF Kept, Released
  <2>4. Kept' = Kept /\ Released' = Released
    BY <2>1 DEF Kept, Released
  <2>5. \/ InitEnds("malloc") /\ UNCHANGED memory
        \/ InitEnds("flush") /\ mmz' = mmz \cup {Dst(i)} /\ UNCHANGED buf
        \/ Allocate(Dst(i)) /\ pc' # "create"
    BY <1>6 DEF MallocDst, BlobFails
  <2> HIDE DEF i
  <2>6. CASE InitEnds("malloc") /\ UNCHANGED memory
    BY <2>1, <2>6, MemoryRests
  <2>7. CASE InitEnds("flush") /\ mmz' = mmz \cup {Dst(i)} /\ UNCHANGED buf
    BY <2>1, <2>3, <2>7, MemorySlips
  <2>8. CASE Allocate(Dst(i)) /\ pc' # "create"
    BY <2>1, <2>3, <2>4, <2>8, MemoryGrows
  <2>9. QED
    BY <2>5, <2>6, <2>7, <2>8
<1>7. CASE MallocTask
  <2>1. /\ pc = "task" /\ init_code = "none" /\ loaded = "loaded"
        /\ UNCHANGED <<loaded, model, m_output_num>>
    BY <1>7 DEF MallocTask, MallocFails, Calls, Creating, FieldsInv, Preparing
  <2>2. Kept' = Kept /\ Released' = Released
    BY <2>1 DEF Kept, Released
  <2>3. Task \in Kept /\ Task \in Released /\ Task \in Buffers
    BY Distinct DEF Kept, Released
  <2>4. pc' # "create" /\ (UNCHANGED memory \/ Allocate(Task))
    BY <1>7 DEF MallocTask, MallocFails
  <2>5. QED BY <2>1, <2>2, <2>3, <2>4, MemoryRests, MemoryGrows
<1>8. CASE MallocTmp
  <2>1. /\ pc = "tmp" /\ init_code = "none" /\ loaded = "loaded"
        /\ UNCHANGED <<loaded, model, m_output_num>>
    BY <1>8 DEF MallocTmp, MallocFails, Calls, Creating, FieldsInv, Preparing
  <2>2. Kept' = Kept /\ Released' = Released
    BY <2>1 DEF Kept, Released
  <2>3. Tmp \in Kept /\ Tmp \in Released /\ Tmp \in Buffers
    BY Distinct DEF Kept, Released
  <2>4. pc' # "create" /\ (UNCHANGED memory \/ Allocate(Tmp))
    BY <1>8 DEF MallocTmp, MallocFails
  <2>5. QED BY <2>1, <2>2, <2>3, <2>4, MemoryRests, MemoryGrows
<1>9. CASE QueryTimesOut
  BY <1>9, MemoryRests DEF QueryTimesOut, RunFails
<1>10. CASE QueryFails
  BY <1>10, MemoryRests DEF QueryFails, RunFails
<1>11. CASE QueryFinished
  BY <1>11, MemoryRests DEF QueryFinished, RunSucceeds
<1>12. CASE DeviceFinishes
  BY <1>12, MemoryRests DEF DeviceFinishes
<1>13. CASE Release
  <2>1. CASE GoesWrong /\ UNCHANGED ownNNIE
    BY <2>1, MemoryRests
  <2>2. CASE Free(Released) /\ loaded' = "unloaded" /\ UNCHANGED base
    <3>1. pc = "idle" /\ loaded # "lost"
      BY <1>13 DEF Release, MayRelease, FieldsInv
    <3>2. Kept' = Kept
      BY <2>2 DEF Kept
    <3>3. \A b \in Buffers : buf'[b] # "held"
      BY <2>2 DEF Free, MemoryInv
    <3>4. mmz' \subseteq mmz /\ \A b \in mmz' : b \in Released => buf[b] # "held"
      BY <2>2 DEF Free
    <3>5. \A b \in mmz' : buf[b] # "held"
      BY <3>4 DEF Fields, MemoryInv
    <3>6. mmz' # {} => init_code = "flush"
      BY <3>1, <3>4, <3>5 DEF MemoryInv, Owned
    <3>7. mmz' \subseteq Kept' /\ pc' # "create" /\ init_code' = init_code
      BY <2>2, <3>1, <3>2, <3>4 DEF MemoryInv
    <3>8. QED
      BY <2>2, <3>3, <3>6, <3>7 DEF MemoryInv, Owned
  <2>3. QED
    BY <1>13, <2>1, <2>2 DEF Release
<1>14. ASSUME NEW img \in Images, RunRefused(img, Alive), UNCHANGED ownNNIE
      PROVE  MemoryInv'
  BY <1>14, MemoryRests DEF RunRefused, Begin
<1>15. ASSUME NEW img \in Images, RunAnyway(img)
      PROVE  MemoryInv'
  <2>1. UNCHANGED <<memory, object, model, m_output_num, init_code>> /\ pc' # "create"
    BY <1>15 DEF RunAnyway, Begin
  <2>2. QED BY <2>1, MemoryRests
<1>16. CASE Destroy
  <2>1. \A b \in Buffers : buf'[b] # "held"
    BY <1>16 DEF Destroy
  <2>2. UNCHANGED <<mmz, model, init_code>> /\ pc' = "gone"
    BY <1>16 DEF Destroy, DestroyEngine
  <2>3. loaded' = "lost" \/ (loaded = "unloaded" /\ loaded' = "unloaded")
    BY <1>16 DEF Destroy
  <2>4. mmz' \subseteq Kept'
    BY <2>2 DEF MemoryInv, Kept
  <2>5. QED
    BY <2>1, <2>2, <2>3, <2>4 DEF MemoryInv, Owned
<1>17. QED
  BY <1>1, <1>2, <1>3, <1>4, <1>5, <1>6, <1>7, <1>8, <1>9, <1>10, <1>11, <1>12,
     <1>13, <1>14, <1>15, <1>16, Zenon
     DEF Next, CreateStep, RunStep, Forward

\* Lemma: what is in the fields at each stage of init, and after it.
LEMMA NnieStages ==
    ASSUME Fields, Net, NetInv, Calls, MemoryInv, FieldsInv, Next, UNCHANGED
           <<ownTengine, ownRKNN>>
    PROVE  FieldsInv'
<1> USE DEF base, setting, call, net, given, ownNNIE, memory, object, inference,
            ownTengine, ownRKNN, InitEnds, InitReturns, Return, InitGoesOn,
            GoesWrong, FieldsInv, Preparing, HaveMemory, Alive, ReleaseReturnsAll
<1>1. CASE OpenFails
  BY <1>1, Distinct DEF OpenFails, Fields, Calls, Creating
<1>2. CASE MallocModelFails
  BY <1>2, Distinct DEF MallocModelFails, Fields, Calls, Creating
<1>3. CASE LoadModelFails
  BY <1>3, Distinct DEF LoadModelFails, Fields, Calls, Creating
<1>4. CASE LoadModel
  <2>1. /\ pc' = "src" /\ init_code' = "none" /\ loaded' = "loaded"
        /\ model' \in Models /\ m_input_shape' = model'.in
        /\ UNCHANGED <<m_fw_ctrl, m_is_tb_added, registered, files>>
    BY <1>4 DEF LoadModel, Calls, Creating
  <2>2. buf'[ModelBuf] = "held"
    BY <1>4, Distinct DEF LoadModel, Allocate, Fields
  <2>3. m_output_num' \in {0, Junk}
    BY <1>4 DEF LoadModel, NetInv
  <2>4. files = 0 /\ ~m_fw_ctrl /\ (registered => m_is_tb_added = "yes")
    <3>1. pc = "create" /\ init_code = "none"
      BY <1>4 DEF LoadModel, Calls, Creating
    <3>2. QED BY <2>1, <3>1
  <2>5. QED
    BY <2>1, <2>2, <2>3, <2>4
<1>5. CASE MallocSrc
  BY <1>5, Distinct, ModelParts
     DEF MallocSrc, BlobFails, Allocate, Fields, Calls, Creating
<1>6. CASE MallocDst
  <2> DEFINE i == HaveMemory + 1
  <2>1. /\ model \in Models /\ m_output_num = Len(model.out) /\ m_output_num \in Nat
        /\ i \in 1 .. m_output_num /\ DOMAIN model.out = 1 .. m_output_num
        /\ init_code = "none" /\ ~m_fw_ctrl /\ HaveMemory \in Nat
        /\ pc = "dst" /\ loaded = "loaded"
    BY <1>6, ModelParts DEF MallocDst, Calls, Creating
  <2>2. CASE BlobFails(Dst(i))
    <3>1. /\ pc' = "idle" /\ init_code' \in {"malloc", "flush"}
          /\ UNCHANGED <<net, buf, object>>
      BY <2>2 DEF BlobFails
    <3>2. ~Preparing' /\ pc' \notin {"create", "src", "dst", "task", "tmp"}
      BY <3>1
    <3> HIDE DEF i
    <3>3. QED BY <2>1, <3>1, <3>2
  <2>3. CASE /\ Allocate(Dst(i)) /\ m_output_blobs' = Append(m_output_blobs, NewBlob(i))
             /\ InitGoesOn(IF LastOutput(i) THEN "task" ELSE "dst")
             /\ UNCHANGED <<model, m_input_shape, m_output_num, object>>
    <3>1. Len(m_output_blobs') = Len(m_output_blobs) + 1
      BY <2>3 DEF Net
    <3>2. Dst(i) \in Buffers
      BY <2>1, Distinct
    <3>3. /\ buf'[Dst(i)] = "held"
          /\ \A b \in Buffers : buf[b] = "held" => buf'[b] = "held"
      BY <2>3, <3>2 DEF Allocate, Fields
    <3>4. \A j \in 1 .. i : buf'[Dst(j)] = "held"
      <4>1. \A j \in 1 .. i : Dst(j) \in Buffers
        <5> HIDE DEF i
        <5>1. \A j \in 1 .. i : j \in DOMAIN model.out
          BY <2>1
        <5>2. QED BY <2>1, <5>1, Distinct, Zenon
      <4>2. \A j \in 1 .. HaveMemory : buf[Dst(j)] = "held"
        BY <1>6 DEF MallocDst
      <4>3. \A j \in 1 .. i : j \in 1 .. HaveMemory \/ j = i
        <5> HIDE DEF HaveMemory
        <5>1. \A h \in Nat : \A j \in 1 .. h + 1 : j \in 1 .. h \/ j = h + 1
          OBVIOUS
        <5>2. QED BY <2>1, <5>1, Zenon
      <4>4. QED BY <3>3, <4>1, <4>2, <4>3, Zenon
    <3>5. buf'[Src] = "held" /\ buf'[ModelBuf] = "held"
      BY <1>6, <3>3, Distinct DEF MallocDst
    <3>6. pc' = "task" => i = m_output_num
      BY <2>3 DEF LastOutput
    <3>7. pc' = "dst" => i < m_output_num
      <4>1. i = m_output_num => pc' = "task"
        BY <2>3, Zenon DEF LastOutput
      <4> HIDE DEF i
      <4>2. QED BY <2>1, <4>1
    <3>8. pc' \in {"task", "dst"} /\ init_code' = "none"
          /\ UNCHANGED <<m_dst_blobs, loaded, m_fw_ctrl, m_is_tb_added, registered, files>>
          /\ UNCHANGED <<model, m_input_shape, m_output_num>>
      BY <2>1, <2>3
    <3>9. Len(m_output_blobs') - m_output_num' = i
      BY <2>1, <3>1, <3>8
    <3> HIDE DEF i
    <3>10. QED
      BY <1>6, <2>1, <3>4, <3>5, <3>6, <3>7, <3>8, <3>9 DEF MallocDst
  <2>4. QED
    BY <1>6, <2>2, <2>3 DEF MallocDst
<1>7. CASE MallocTask
  BY <1>7, Distinct, ModelParts
     DEF MallocTask, MallocFails, Allocate, Fields, Calls, Creating
<1>8. CASE MallocTmp
  BY <1>8, Distinct, ModelParts
     DEF MallocTmp, MallocFails, Allocate, Fields, Calls, Creating
<1>9. CASE QueryTimesOut
  BY <1>9 DEF QueryTimesOut, RunFails
<1>10. CASE QueryFails
  BY <1>10 DEF QueryFails, RunFails
<1>11. CASE QueryFinished
  BY <1>11 DEF QueryFinished, RunSucceeds
<1>12. CASE DeviceFinishes
  BY <1>12 DEF DeviceFinishes
<1>13. CASE Release
  <2>1. CASE GoesWrong /\ UNCHANGED ownNNIE
    BY <2>1
  <2>2. CASE /\ Free(Released) /\ loaded' = "unloaded" /\ m_dst_blobs' = "zero"
             /\ registered' = (registered /\ m_is_tb_added # "yes")
             /\ UNCHANGED <<base, m_fw_ctrl, m_is_tb_added, files, inference>>
    <3>1. pc = "idle"
      BY <1>13 DEF Release, MayRelease
    <3>2. ~registered'
      BY <2>2, <3>1
    <3>3. ASSUME init_code = "success" PROVE mmz' = {}
      <4>1. model \in Models /\ m_output_num = Len(model.out)
        BY <3>1, <3>3 DEF NetInv
      <4>2. Kept = Released
        BY <4>1, ModelParts DEF Kept, Released
      <4>3. \A b \in mmz : buf[b] = "held"
        BY <3>1, <3>3 DEF MemoryInv, Owned
      <4>4. mmz \subseteq Released
        BY <4>2 DEF MemoryInv
      <4>5. QED BY <2>2, <4>3, <4>4 DEF Free
    <3>4. init_code = "success" => files = 0
      OBVIOUS
    <3>5. QED
      BY <2>2, <3>1, <3>2, <3>3, <3>4
  <2>3. QED
    BY <1>13, <2>1, <2>2 DEF Release
<1>14. ASSUME NEW img \in Images, RunRefused(img, Alive), UNCHANGED ownNNIE
      PROVE  FieldsInv'
  BY <1>14 DEF RunRefused, Begin
<1>15. ASSUME NEW img \in Images, RunAnyway(img)
      PROVE  FieldsInv'
  BY <1>15 DEF RunAnyway, Begin
<1>16. CASE Destroy
  BY <1>16 DEF Destroy, DestroyEngine
<1>17. QED
  BY <1>1, <1>2, <1>3, <1>4, <1>5, <1>6, <1>7, <1>8, <1>9, <1>10, <1>11, <1>12,
     <1>13, <1>14, <1>15, <1>16, Zenon
     DEF Next, CreateStep, RunStep, Forward

\* Lemma: the blobs that m_output_blobs begins with stay empty.
LEMMA NnieEmpty ==
    ASSUME Numbers, Net, NetInv, Calls, FieldsInv, DeviceInv, EmptyInv, Next,
           UNCHANGED <<ownTengine, ownRKNN>>
    PROVE  EmptyInv'
<1> USE DEF base, setting, call, net, given, ownNNIE, memory, object, inference,
            ownTengine, ownRKNN, InitEnds, InitReturns, Return, InitGoesOn,
            GoesWrong, EmptyInv
<1>1. CASE OpenFails
  BY <1>1 DEF OpenFails, Calls, Creating
<1>2. CASE MallocModelFails
  BY <1>2 DEF MallocModelFails, Calls, Creating
<1>3. CASE LoadModelFails
  BY <1>3 DEF LoadModelFails, Calls, Creating
<1>4. CASE LoadModel
  BY <1>4 DEF LoadModel, Allocate, Calls, Creating
<1>5. CASE MallocSrc
  <2>1. CASE BlobFails(Src)
    BY <1>5, <2>1 DEF BlobFails, MallocSrc, Calls, Creating
  <2>2. CASE /\ m_output_num' = Len(model.out)
             /\ m_output_blobs' = [i \in DOMAIN model.out |-> EmptyBlob]
    <3>1. model \in Models
      BY <1>5 DEF MallocSrc, FieldsInv, Preparing
    <3>2. DOMAIN model.out = 1 .. Len(model.out) /\ Len(model.out) \in Nat
      BY <3>1, ModelParts
    <3>3. Len(m_output_blobs') = Len(model.out)
      BY <2>2, <3>2
    <3>4. \A i \in 1 .. Len(model.out) : m_output_blobs'[i] = EmptyBlob
      BY <2>2, <3>2
    <3>5. QED
      BY <2>2, <3>2, <3>3, <3>4
  <2>3. QED
    BY <1>5, <2>1, <2>2 DEF MallocSrc
<1>6. CASE MallocDst
  <2>1. /\ pc = "dst" /\ m_output_num \in Nat /\ Len(m_output_blobs) \in Nat
        /\ m_output_num <= Len(m_output_blobs)
    BY <1>6 DEF MallocDst, Net
  <2>2. CASE BlobFails(Dst(Len(m_output_blobs) - m_output_num + 1))
    BY <2>1, <2>2 DEF BlobFails, Calls, Creating
  <2>3. CASE /\ m_output_num' = m_output_num
             /\ m_output_blobs' = Append(m_output_blobs, NewBlob(Len(m_output_blobs) - m_output_num + 1))
    <3>1. Len(m_output_blobs') = Len(m_output_blobs) + 1
      BY <2>3 DEF Net
    <3>2. \A i \in 1 .. m_output_num : m_output_blobs'[i] = m_output_blobs[i]
      BY <2>1, <2>3 DEF Net
    <3>3. QED
      BY <2>1, <2>3, <3>1, <3>2
  <2>4. QED
    BY <1>6, <2>2, <2>3 DEF MallocDst
<1>7. CASE MallocTask
  BY <1>7 DEF MallocTask, MallocFails, Allocate
<1>8. CASE MallocTmp
  BY <1>8 DEF MallocTmp, MallocFails, Allocate, FieldsInv, Preparing
<1>9. CASE QueryTimesOut
  BY <1>9 DEF QueryTimesOut, RunFails
<1>10. CASE QueryFails
  BY <1>10 DEF QueryFails, RunFails
<1>11. CASE QueryFinished
  <2>1. m_output_blobs' = m_output_blobs
    BY <1>11, NnieAnswers
  <2>2. pc = "query" /\ pc' = "idle" /\ UNCHANGED <<init_code, m_output_num>>
    BY <1>11 DEF QueryFinished, RunSucceeds
  <2>3. QED
    BY <2>1, <2>2
<1>12. CASE DeviceFinishes
  BY <1>12 DEF DeviceFinishes
<1>13. CASE Release
  BY <1>13 DEF Release
<1>14. ASSUME NEW img \in Images, RunRefused(img, Alive), UNCHANGED ownNNIE
      PROVE  EmptyInv'
  BY <1>14 DEF RunRefused, Begin
<1>15. ASSUME NEW img \in Images, RunAnyway(img)
      PROVE  EmptyInv'
  BY <1>15 DEF RunAnyway, Begin
<1>16. CASE Destroy
  BY <1>16 DEF Destroy, DestroyEngine
<1>17. QED
  BY <1>1, <1>2, <1>3, <1>4, <1>5, <1>6, <1>7, <1>8, <1>9, <1>10, <1>11, <1>12,
     <1>13, <1>14, <1>15, <1>16, Zenon
     DEF Next, CreateStep, RunStep, Forward

\* Lemma: the tasks of the accelerator, and what it works on.
LEMMA NnieDevice ==
    ASSUME Flags, Numbers, Net, NetInv, Calls, MemoryInv, FieldsInv, DeviceInv, Next,
           UNCHANGED <<ownTengine, ownRKNN>>
    PROVE  DeviceInv'
<1> USE DEF base, setting, call, net, given, ownNNIE, memory, object, inference,
            ownTengine, ownRKNN, InitEnds, InitReturns, Return, InitGoesOn,
            GoesWrong, DeviceInv, Alive, Creating
<1>1. CASE OpenFails
  BY <1>1 DEF OpenFails
<1>2. CASE MallocModelFails
  BY <1>2 DEF MallocModelFails
<1>3. CASE LoadModelFails
  BY <1>3 DEF LoadModelFails
<1>4. CASE LoadModel
  BY <1>4 DEF LoadModel, Allocate
<1>5. CASE MallocSrc
  BY <1>5 DEF MallocSrc, BlobFails, Allocate
<1>6. CASE MallocDst
  BY <1>6 DEF MallocDst, BlobFails, Allocate
<1>7. CASE MallocTask
  BY <1>7 DEF MallocTask, MallocFails, Allocate
<1>8. CASE MallocTmp
  <2>1. UNCHANGED <<device, corrupt, flushed, results, runs>> /\ Creating
    BY <1>8 DEF MallocTmp, MallocFails
  <2>2. pc' = "idle"
    BY <1>8 DEF MallocTmp, MallocFails
  <2>3. results' = runs'
    BY <2>1 DEF Numbers, Calls
  <2>4. QED
    BY <2>1, <2>2, <2>3
<1>9. CASE QueryTimesOut
  BY <1>9 DEF QueryTimesOut, RunFails, OneMore, TimeOutLimit
<1>10. CASE QueryFails
  BY <1>10 DEF QueryFails, RunFails
<1>11. CASE QueryFinished
  <2>1. device = <<>>
    <3>1. ASSUME device # <<>> PROVE FALSE
      <4>1. Len(device) \in DOMAIN device /\ device[Len(device)] = runs
        BY <1>11, <3>1 DEF QueryFinished, Numbers
      <4>2. runs \in ToSet(device)
        BY <4>1 DEF ToSet
      <4>3. QED BY <1>11, <4>2 DEF QueryFinished, Finished
    <3>2. QED BY <3>1
  <2>2. ~corrupt
    BY <1>11 DEF QueryFinished
  <2>3. pc' = "idle" /\ device' = <<>> /\ ~corrupt' /\ UNCHANGED <<runs, results>>
        /\ (flushed' => flushed)
    <3>1. pc' = "idle" /\ UNCHANGED <<runs, results, device, corrupt>>
      BY <1>11 DEF QueryFinished, RunSucceeds
    <3>2. flushed' => flushed
      BY <1>11 DEF QueryFinished, Flags
    <3>3. QED BY <2>1, <2>2, <3>1, <3>2
  <2>4. flushed' => results' = runs'
    BY <1>11, <2>1, <2>3 DEF QueryFinished
  <2>5. QED
    BY <2>3, <2>4
<1>12. CASE DeviceFinishes
  <2>1. /\ device # <<>> /\ device' = Tail(device) /\ results' = src
        /\ corrupt' = (corrupt \/ ~(InUse \subseteq mmz))
        /\ UNCHANGED <<pc, code, mmz, loaded, m_fw_ctrl, nTimeOut, flushed, src, runs>>
    BY <1>12 DEF DeviceFinishes, InUse
  <2>2. Len(device) \in Nat \ {0} /\ Len(Tail(device)) = Len(device) - 1
    BY <2>1 DEF Numbers
  <2>3. Tail(device) # <<>> => Tail(device)[Len(Tail(device))] = device[Len(device)]
    BY <2>2 DEF Numbers
  <2>4. ~Creating
    BY <2>1
  <2>5. pc = "query" \/ code # "success"
    BY <2>1, <2>4 DEF FieldsInv, Creating
  <2>6. corrupt' => ~(InUse \subseteq mmz) /\ code # "success"
    <3>1. CASE corrupt
      BY <3>1
    <3>2. CASE ~(InUse \subseteq mmz)
      BY <2>5, <3>2
    <3>3. QED BY <2>1, <3>1, <3>2
  <2>7. InUse' = InUse
    BY DEF InUse
  <2>8. QED
    BY <2>1, <2>3, <2>4, <2>6, <2>7
<1>13. CASE Release
  <2>1. mmz' \subseteq mmz /\ UNCHANGED <<pc, code, runs, inference>> /\ pc = "idle"
    BY <1>13 DEF Release, MayRelease, Free
  <2>2. InUse' = InUse
    BY DEF InUse
  <2>3. QED
    BY <2>1, <2>2
<1>14. ASSUME NEW img \in Images, RunRefused(img, Alive), UNCHANGED ownNNIE
      PROVE  DeviceInv'
  BY <1>14 DEF RunRefused, Begin, Preprocess
<1>15. ASSUME NEW img \in Images, RunAnyway(img)
      PROVE  DeviceInv'
  <2>1. UNCHANGED <<mmz, loaded, m_fw_ctrl, results, corrupt, init_code>> /\ pc = "idle"
    BY <1>15 DEF RunAnyway, Begin
  <2>2. InUse' = InUse
    BY DEF InUse
  <2>3. CASE ~(Enough(img) /\ Ready)
    <3>1. GoesWrong /\ UNCHANGED <<flushed, src, nTimeOut, device>>
      BY <1>15, <2>3 DEF RunAnyway
    <3>2. QED BY <2>1, <2>2, <3>1
  <2>4. CASE Enough(img) /\ Ready
    <3>1. InUse \subseteq mmz
      <4>1. model \in Models
        BY <2>4 DEF Ready, FieldsInv
      <4>2. buf[Src] = "held" /\ buf[Task] = "held" /\ buf[Tmp] = "held" /\ buf[Dst(1)] = "held"
        BY <2>4, <4>1, ModelParts DEF Ready
      <4>3. InUse \subseteq Buffers
        BY <4>1, Distinct, ModelParts DEF InUse
      <4>4. QED BY <4>2, <4>3 DEF InUse, MemoryInv
    <3>2. ~corrupt
      BY <3>1
    <3>3. runs' = runs + 1 /\ (flushed' => src' = runs') /\ runs \in Nat
      BY <1>15, <2>4 DEF RunAnyway, Numbers
    <3>4. CASE Return("forward") /\ UNCHANGED <<device, nTimeOut>>
      BY <2>1, <2>2, <3>1, <3>2, <3>4
    <3>5. CASE device' = Append(device, runs') /\ nTimeOut' = 0 /\ pc' = "query"
      <4>1. /\ device' # <<>> /\ device'[Len(device')] = runs'
        BY <3>3, <3>5 DEF Numbers
      <4>2. QED
        BY <2>1, <2>2, <2>4, <3>1, <3>2, <3>3, <3>5, <4>1 DEF Ready, TimeOutLimit
    <3>6. QED
      BY <1>15, <2>4, <3>4, <3>5 DEF RunAnyway
  <2>5. QED
    BY <2>3, <2>4
<1>16. CASE Destroy
  BY <1>16 DEF Destroy, DestroyEngine
<1>17. QED
  BY <1>1, <1>2, <1>3, <1>4, <1>5, <1>6, <1>7, <1>8, <1>9, <1>10, <1>11, <1>12,
     <1>13, <1>14, <1>15, <1>16, Zenon
     DEF Next, CreateStep, RunStep, Forward

\* Lemma: what goes wrong for a careful caller goes wrong in init, before the
\* model is loaded, or in run, with a model of several inputs.
LEMMA NnieDefined ==
    ASSUME Net, NetInv, Calls, FieldsInv, Fields, Flags, board = "hisi",
           ~undefined, Next, UNCHANGED <<ownTengine, ownRKNN>>
    PROVE  DefinedForCareful'
<1> USE DEF base, setting, call, net, given, ownNNIE, memory, object, inference,
            ownTengine, ownRKNN, InitEnds, InitReturns, Return, InitGoesOn,
            GoesWrong, DefinedForCareful, Trap
<1>1. CASE OpenFails
  BY <1>1 DEF OpenFails
<1>2. CASE MallocModelFails
  BY <1>2 DEF MallocModelFails
<1>3. CASE LoadModelFails
  BY <1>3 DEF LoadModelFails
<1>4. CASE LoadModel
  BY <1>4 DEF LoadModel, Allocate
<1>5. CASE MallocSrc
  BY <1>5 DEF MallocSrc, BlobFails, Allocate
<1>6. CASE MallocDst
  BY <1>6 DEF MallocDst, BlobFails, Allocate
<1>7. CASE MallocTask
  BY <1>7 DEF MallocTask, MallocFails, Allocate
<1>8. CASE MallocTmp
  BY <1>8 DEF MallocTmp, MallocFails, Allocate
<1>9. CASE QueryTimesOut
  BY <1>9 DEF QueryTimesOut, RunFails
<1>10. CASE QueryFails
  BY <1>10 DEF QueryFails, RunFails
<1>11. CASE QueryFinished
  BY <1>11 DEF QueryFinished, RunSucceeds
<1>12. CASE DeviceFinishes
  BY <1>12 DEF DeviceFinishes
<1>13. CASE Release
  <2>1. CASE Releasable
    BY <1>13, <2>1 DEF Release
  <2>2. CASE ~Releasable
    <3>1. ASSUME careful PROVE FALSE
      <4>1. Alive /\ init_code = "success" /\ pc = "idle"
        BY <1>13, <3>1 DEF Release, MayRelease
      <4>2. model \in Models /\ m_output_num = Len(model.out)
        BY <4>1 DEF NetInv
      <4>3. \A b \in Released : buf[b] = "held"
        BY <4>1, <4>2, ModelParts DEF Released, FieldsInv, Preparing, Alive
      <4>4. m_output_num \in Nat /\ m_dst_blobs = "held"
        BY <4>1, <4>2, ModelParts DEF FieldsInv, Preparing
      <4>5. Releasable
        BY <4>1, <4>3, <4>4 DEF Releasable, Alive, Junk
      <4>6. QED BY <2>2, <4>5
    <3>2. QED
      BY <1>13, <2>2, <3>1 DEF Release
  <2>3. QED BY <2>1, <2>2
<1>14. ASSUME NEW img \in Images, RunRefused(img, Alive), UNCHANGED ownNNIE
      PROVE  DefinedForCareful'
  BY <1>14 DEF RunRefused, Begin
<1>15. ASSUME NEW img \in Images, RunAnyway(img)
      PROVE  DefinedForCareful'
  <2>1. CASE Enough(img) /\ Ready
    BY <1>15, <2>1 DEF RunAnyway
  <2>2. CASE ~(Enough(img) /\ Ready)
    <3>1. ASSUME careful PROVE pc = "idle" /\ model.inputs > 1
      <4>1. Alive /\ init_code = "success" /\ img = m_input_shape.c /\ pc = "idle"
        BY <1>15, <3>1 DEF RunAnyway, Begin
      <4>2. Enough(img)
        <5>1. img * 1 = img
          BY <1>15 DEF Images
        <5>2. BlobHolds(img) = img /\ InputNeeds(1) = img
          BY <4>1, <5>1 DEF BlobHolds, InputNeeds, ElemSize, Normalises
        <5>3. QED BY <1>15, <5>2 DEF Enough, Images
      <4>3. model.inputs = 1 => Ready
        BY <4>1 DEF Ready, FieldsInv, Alive, Preparing, Calls, Creating
      <4>4. model.inputs \in Nat \ {0}
        BY <4>1, ModelParts DEF NetInv
      <4>5. QED BY <2>2, <4>1, <4>2, <4>3, <4>4
    <3>2. GoesWrong
      BY <1>15, <2>2 DEF RunAnyway
    <3>3. QED
      BY <3>1, <3>2
  <2>3. QED BY <2>1, <2>2
<1>16. CASE Destroy
  BY <1>16 DEF Destroy, DestroyEngine
<1>17. QED
  BY <1>1, <1>2, <1>3, <1>4, <1>5, <1>6, <1>7, <1>8, <1>9, <1>10, <1>11, <1>12,
     <1>13, <1>14, <1>15, <1>16, Zenon
     DEF Next, CreateStep, RunStep, Forward

\* Lemma: the engine of this platform can answer while its model is loaded.
LEMMA NnieAlive ==
    ASSUME board = "hisi", board' = board
    PROVE  (AliveEngine <=> loaded = "loaded") /\ (AliveEngine' <=> loaded' = "loaded")
BY DEF AliveEngine, Alive

\* Lemma: each step of EngineNNIE is one of the contract, or none.
LEMMA NnieContract ==
    ASSUME Numbers, Net, NetInv, Calls, FieldsInv, DeviceInv, EmptyInv,
           board = "hisi", ~undefined, Next, UNCHANGED <<ownTengine, ownRKNN>>
    PROVE  KeepsContract
<1> USE DEF base, setting, call, net, given, ownNNIE, memory, object, inference,
            ownTengine, ownRKNN, InitEnds, InitReturns, Return, InitGoesOn,
            GoesWrong
<1>1. CASE OpenFails
  <2>1. /\ Creating /\ runs' = runs /\ answer' = answer
        /\ InAnyCall' => init_code' # "success" /\ pc' # "gone"
    BY <1>1 DEF OpenFails, Creating, InAnyCall, Calls, Places
  <2>2. QED BY <2>1, CreateKeeps
<1>2. CASE MallocModelFails
  <2>1. /\ Creating /\ runs' = runs /\ answer' = answer
        /\ InAnyCall' => init_code' # "success" /\ pc' # "gone"
    BY <1>2 DEF MallocModelFails, Creating, InAnyCall, Calls, Places
  <2>2. QED BY <2>1, CreateKeeps
<1>3. CASE LoadModelFails
  <2>1. /\ Creating /\ runs' = runs /\ answer' = answer
        /\ InAnyCall' => init_code' # "success" /\ pc' # "gone"
    BY <1>3 DEF LoadModelFails, Creating, InAnyCall, Calls, Places
  <2>2. QED BY <2>1, CreateKeeps
<1>4. CASE LoadModel
  <2>1. /\ Creating /\ runs' = runs /\ answer' = answer
        /\ InAnyCall' => init_code' # "success" /\ pc' # "gone"
    BY <1>4 DEF LoadModel, Allocate, Creating, InAnyCall, Calls, Places
  <2>2. QED BY <2>1, CreateKeeps
<1>5. CASE MallocSrc
  <2>1. /\ Creating /\ runs' = runs /\ answer' = answer
        /\ InAnyCall' => init_code' # "success" /\ pc' # "gone"
    BY <1>5 DEF MallocSrc, BlobFails, Allocate, Creating, InAnyCall, Calls, Places
  <2>2. QED BY <2>1, CreateKeeps
<1>6. CASE MallocDst
  <2>1. /\ Creating /\ runs' = runs /\ answer' = answer
        /\ InAnyCall' => init_code' # "success" /\ pc' # "gone"
    BY <1>6 DEF MallocDst, BlobFails, Allocate, Creating, InAnyCall, Calls, Places
  <2>2. QED BY <2>1, CreateKeeps
<1>7. CASE MallocTask
  <2>1. /\ Creating /\ runs' = runs /\ answer' = answer
        /\ InAnyCall' => init_code' # "success" /\ pc' # "gone"
    BY <1>7 DEF MallocTask, MallocFails, Allocate, Creating, InAnyCall, Calls, Places
  <2>2. QED BY <2>1, CreateKeeps
<1>8. CASE MallocTmp
  <2>1. /\ Creating /\ runs' = runs /\ answer' = answer
        /\ InAnyCall' => init_code' # "success" /\ pc' # "gone"
    BY <1>8 DEF MallocTmp, MallocFails, Allocate, Creating, InAnyCall, Calls, Places
  <2>2. QED BY <2>1, CreateKeeps
<1>9. CASE QueryTimesOut
  <2>1. /\ pc \notin {"idle", "gone"} /\ runs' = runs /\ answer' = answer
        /\ UNCHANGED <<board, init_code, model, loaded>> /\ pc' # "gone"
        /\ pc' = "idle" => code' # "success"
    BY <1>9 DEF QueryTimesOut, RunFails
  <2>2. runs > 0
    BY <1>9 DEF QueryTimesOut, DeviceInv
  <2>3. QED BY <2>1, <2>2, RunKeeps, NnieAlive
<1>10. CASE QueryFails
  <2>1. /\ pc \notin {"idle", "gone"} /\ runs' = runs /\ answer' = answer
        /\ UNCHANGED <<board, init_code, model, loaded>> /\ pc' # "gone"
        /\ pc' = "idle" => code' # "success"
    BY <1>10 DEF QueryFails, RunFails
  <2>2. runs > 0
    BY <1>10 DEF QueryFails, DeviceInv
  <2>3. QED BY <2>1, <2>2, RunKeeps, NnieAlive
<1>11. CASE QueryFinished
  <2>1. /\ pc = "query" /\ runs' = runs /\ pc' = "idle" /\ code' = "success"
        /\ UNCHANGED <<board, init_code, model, loaded>>
    BY <1>11 DEF QueryFinished, RunSucceeds
  <2>2. runs > 0 /\ init_code = "success" /\ loaded = "loaded"
    BY <2>1 DEF DeviceInv, FieldsInv, Alive
  <2>3. ~Gives
    BY DEF Gives, AnswersAtAll
  <2>4. answer' = 0
    BY <1>11, NnieAnswers
  <2>5. Can /\ Can'
    BY <2>1, <2>2, NnieAlive DEF Can
  <2>6. QED BY <2>1, <2>2, <2>3, <2>4, <2>5, AnswerKeeps
<1>12. CASE DeviceFinishes
  <2>1. UNCHANGED <<base, loaded>>
    BY <1>12 DEF DeviceFinishes
  <2>2. (InAnyCall' <=> InAnyCall) /\ (Told' <=> Told) /\ (Can' <=> Can)
    BY <2>1, NnieAlive, Zenon DEF InAnyCall, Told, Can
  <2>3. QED
    BY <2>1, <2>2, GivesStays, Goes
<1>13. CASE Release
  <2>1. /\ pc \in {"idle", "gone"} /\ pc' \in {"idle", "gone"}
        /\ runs' = runs /\ answer' = answer
        /\ UNCHANGED <<board, code, init_code, model>> /\ (loaded' = "loaded" => loaded = "loaded")
    BY <1>13 DEF Release, MayRelease
  <2>2. QED BY <2>1, IdleKeeps, NnieAlive
<1>14. ASSUME NEW img \in Images, RunRefused(img, Alive), UNCHANGED ownNNIE
      PROVE  KeepsContract
  <2>1. /\ pc = "idle" /\ runs' = runs + 1 /\ answer' = answer
        /\ UNCHANGED <<board, init_code, model, loaded>> /\ pc' # "gone" /\ code' # "success"
    BY <1>14 DEF RunRefused, Begin, Preprocess
  <2>2. QED BY <2>1, AskKeeps, NnieAlive
<1>15. ASSUME NEW img \in Images, RunAnyway(img)
      PROVE  KeepsContract
  <2>1. CASE GoesWrong /\ UNCHANGED ownNNIE
    <3>1. pc = "idle"
      BY <1>15 DEF RunAnyway, Begin
    <3>2. QED
      BY <2>1, <3>1, IdleKeeps, NnieAlive
  <2>2. CASE runs' = runs + 1 /\ UNCHANGED <<setting, init_code, model, given, loaded>>
             /\ pc' # "gone" /\ (pc' = "idle" => code' # "success")
    <3>1. pc = "idle"
      BY <1>15 DEF RunAnyway, Begin
    <3>2. QED
      BY <2>2, <3>1, AskKeeps, NnieAlive
  <2>3. QED
    BY <1>15, <2>1, <2>2 DEF RunAnyway
<1>16. CASE Destroy
  <2>1. /\ pc \in {"idle", "gone"} /\ pc' \in {"idle", "gone"}
        /\ runs' = runs /\ answer' = answer
        /\ UNCHANGED <<board, code, init_code, model>> /\ (loaded' = "loaded" => loaded = "loaded")
    BY <1>16 DEF Destroy, DestroyEngine
  <2>2. QED BY <2>1, IdleKeeps, NnieAlive
<1>17. QED
  BY <1>1, <1>2, <1>3, <1>4, <1>5, <1>6, <1>7, <1>8, <1>9, <1>10, <1>11, <1>12,
     <1>13, <1>14, <1>15, <1>16, Zenon
     DEF Next, CreateStep, RunStep, Forward

-----------------------------------------------------------------------------
(* EngineTengine *)

\* Lemma: a flag stays one.
LEMMA TengineFlags ==
    ASSUME Flags, Tengine!Next, UNCHANGED <<ownNNIE, ownRKNN>>
    PROVE  Flags'
<1> USE DEF Tengine!base, Tengine!setting, Tengine!call, Tengine!net,
            Tengine!given, Tengine!own, ownNNIE, memory, object, inference,
            ownRKNN, Tengine!InitEnds, Tengine!InitReturns, Tengine!Return,
            Tengine!GoesWrong, Flags
<1>1. CASE Tengine!InitTengine
  BY <1>1 DEF Tengine!InitTengine
<1>2. CASE Tengine!CreateGraph
  BY <1>2 DEF Tengine!CreateGraph
<1>3. CASE Tengine!GetInputTensor
  BY <1>3 DEF Tengine!GetInputTensor
<1>4. CASE Tengine!GetOutputTensor
  BY <1>4 DEF Tengine!GetOutputTensor, Tengine!NewBlob
<1>5. CASE Tengine!RunGraph
  BY <1>5 DEF Tengine!RunGraph, Tengine!RunFails
<1>6. CASE Tengine!CopyOutputs
  BY <1>6 DEF Tengine!CopyOutputs, Tengine!RunSucceeds
<1>7. CASE Tengine!Release
  BY <1>7 DEF Tengine!Release, Tengine!MayRelease
<1>8. ASSUME NEW img \in Tengine!Images, Tengine!Run(img)
      PROVE  Flags'
  BY <1>8 DEF Tengine!Run, Tengine!RunRefused, Tengine!Begin
<1>9. CASE Tengine!Destroy
  BY <1>9 DEF Tengine!Destroy, Tengine!DestroyEngine
<1>10. QED
  BY <1>1, <1>2, <1>3, <1>4, <1>5, <1>6, <1>7, <1>8, <1>9, Zenon
     DEF Tengine!Next, Tengine!CreateStep, Tengine!RunStep

\* Lemma: the platform stays.
LEMMA TengineBoard ==
    ASSUME Tengine!Next, UNCHANGED <<ownNNIE, ownRKNN>>
    PROVE  board' = board
<1> USE DEF Tengine!base, Tengine!setting, Tengine!call, Tengine!net,
            Tengine!given, Tengine!own, ownNNIE, memory, object, inference,
            ownRKNN, Tengine!InitEnds, Tengine!InitReturns, Tengine!Return,
            Tengine!GoesWrong
<1>1. CASE Tengine!InitTengine
  BY <1>1 DEF Tengine!InitTengine
<1>2. CASE Tengine!CreateGraph
  BY <1>2 DEF Tengine!CreateGraph
<1>3. CASE Tengine!GetInputTensor
  BY <1>3 DEF Tengine!GetInputTensor
<1>4. CASE Tengine!GetOutputTensor
  BY <1>4 DEF Tengine!GetOutputTensor, Tengine!NewBlob
<1>5. CASE Tengine!RunGraph
  BY <1>5 DEF Tengine!RunGraph, Tengine!RunFails
<1>6. CASE Tengine!CopyOutputs
  BY <1>6 DEF Tengine!CopyOutputs, Tengine!RunSucceeds
<1>7. CASE Tengine!Release
  BY <1>7 DEF Tengine!Release, Tengine!MayRelease
<1>8. ASSUME NEW img \in Tengine!Images, Tengine!Run(img)
      PROVE  board' = board
  BY <1>8 DEF Tengine!Run, Tengine!RunRefused, Tengine!Begin
<1>9. CASE Tengine!Destroy
  BY <1>9 DEF Tengine!Destroy, Tengine!DestroyEngine
<1>10. QED
  BY <1>1, <1>2, <1>3, <1>4, <1>5, <1>6, <1>7, <1>8, <1>9, Zenon
     DEF Tengine!Next, Tengine!CreateStep, Tengine!RunStep

\* Lemma: what run hands out, if it does, are the results in the tensors.
LEMMA TengineAnswers ==
    ASSUME Numbers, Net, NetInv, TengineInv, Tengine!CopyOutputs
    PROVE  /\ answer' = answer \/ answer' = tensors
           /\ ~(Len(m_output_blobs) < m_output_num) => answer' = tensors
<1>1. pc = "copy" /\ m_input_shape.w > 0
  BY DEF Tengine!CopyOutputs, TengineInv
<1>2. model \in Models /\ m_output_num = Len(model.out)
  BY <1>1 DEF NetInv, TengineInv
<1>3. CASE Len(m_output_blobs) < m_output_num
  BY <1>3 DEF Tengine!CopyOutputs, Tengine!GoesWrong, Tengine!given
<1>4. CASE ~(Len(m_output_blobs) < m_output_num)
  <2>1. Len(m_output_blobs) = m_output_num
    BY <1>1, <1>4 DEF TengineInv
  <2>2. DOMAIN m_output_blobs = 1 .. m_output_num /\ m_output_num \in Nat \ {0}
    BY <1>2, <2>1, ModelParts DEF Net
  <2>3. Tengine!RunSucceeds(tensors, 1 .. m_output_num)
    BY <1>4 DEF Tengine!CopyOutputs
  <2>4. /\ DOMAIN m_output_blobs' = DOMAIN m_output_blobs
        /\ \A i \in DOMAIN m_output_blobs :
               m_output_blobs'[i].data = IF i \in 1 .. m_output_num THEN tensors
                                         ELSE m_output_blobs[i].data
    BY <2>3, Filled DEF Tengine!RunSucceeds, Numbers, Net
  <2>5. Tengine!Answered(m_output_blobs') = tensors
    <3>1. 1 \in 1 .. m_output_num
      BY <2>2
    <3>2. DOMAIN m_output_blobs' # {}
      BY <2>2, <2>4, <3>1, Zenon
    <3>3. \A i \in DOMAIN m_output_blobs' : i \in DOMAIN m_output_blobs /\ i \in 1 .. m_output_num
      BY <2>2, <2>4, Zenon
    <3>4. \A i \in DOMAIN m_output_blobs' : m_output_blobs'[i].data = tensors
      BY <2>4, <3>3, Zenon
    <3>5. QED BY <3>2, <3>4, AnsweredAll
  <2>6. answer' = Tengine!Answered(m_output_blobs')
    BY <2>3 DEF Tengine!RunSucceeds
  <2>7. QED BY <1>4, <2>5, <2>6
<1>5. QED BY <1>3, <1>4

\* Lemma: no number is beyond the runs so far.
LEMMA TengineNumbers ==
    ASSUME Numbers, Net, NetInv, TengineInv, Tengine!Next,
           UNCHANGED <<ownNNIE, ownRKNN>>
    PROVE  Numbers'
<1> USE DEF Tengine!base, Tengine!setting, Tengine!call, Tengine!net,
            Tengine!given, Tengine!own, ownNNIE, memory, object, inference,
            ownRKNN, Tengine!InitEnds, Tengine!InitReturns, Tengine!Return,
            Tengine!GoesWrong, Numbers
<1>1. CASE Tengine!InitTengine
  BY <1>1, MaxRunsAssumption DEF Tengine!InitTengine
<1>2. CASE Tengine!CreateGraph
  BY <1>2, MaxRunsAssumption DEF Tengine!CreateGraph
<1>3. CASE Tengine!GetInputTensor
  BY <1>3, MaxRunsAssumption DEF Tengine!GetInputTensor
<1>4. CASE Tengine!GetOutputTensor
  BY <1>4, MaxRunsAssumption DEF Tengine!GetOutputTensor, Tengine!NewBlob
<1>5. CASE Tengine!RunGraph
  <2>1. tensors' \in {tensors, runs}
    BY <1>5 DEF Tengine!RunGraph, Tengine!RunFails
  <2>2. UNCHANGED <<runs, answer>>
    BY <1>5 DEF Tengine!RunGraph, Tengine!RunFails
  <2>3. QED
    BY <2>1, <2>2
<1>6. CASE Tengine!CopyOutputs
  <2>1. UNCHANGED <<runs, tensors>>
    BY <1>6 DEF Tengine!CopyOutputs, Tengine!RunSucceeds
  <2>2. answer' \in {answer, tensors}
    BY <1>6, TengineAnswers
  <2>3. QED
    BY <2>1, <2>2
<1>7. CASE Tengine!Release
  BY <1>7, MaxRunsAssumption DEF Tengine!Release, Tengine!MayRelease
<1>8. ASSUME NEW img \in Tengine!Images, Tengine!Run(img)
      PROVE  Numbers'
  <2>1. runs' \in {runs, runs + 1} /\ (runs' = runs + 1 => runs < MaxRuns)
        /\ UNCHANGED <<answer, tensors>>
    BY <1>8 DEF Tengine!Run, Tengine!RunRefused, Tengine!Begin
  <2>2. runs' \in 0 .. MaxRuns /\ runs <= runs'
    BY <2>1, MaxRunsAssumption
  <2>3. QED
    BY <2>1, <2>2, MaxRunsAssumption
<1>9. CASE Tengine!Destroy
  BY <1>9, MaxRunsAssumption DEF Tengine!Destroy, Tengine!DestroyEngine
<1>10. QED
  BY <1>1, <1>2, <1>3, <1>4, <1>5, <1>6, <1>7, <1>8, <1>9, Zenon
     DEF Tengine!Next, Tengine!CreateStep, Tengine!RunStep

\* Lemma: the fields of IE_Engine.
LEMMA TengineNet ==
    ASSUME Numbers, Net, NetInv, TengineInv, Tengine!Next, UNCHANGED <<ownNNIE,
           ownRKNN>>
    PROVE  Net'
<1> USE DEF Tengine!base, Tengine!setting, Tengine!call, Tengine!net,
            Tengine!given, Tengine!own, ownNNIE, memory, object, inference,
            ownRKNN, Tengine!InitEnds, Tengine!InitReturns, Tengine!Return,
            Tengine!GoesWrong, Net
<1>1. CASE Tengine!InitTengine
  BY <1>1 DEF Tengine!InitTengine
<1>2. CASE Tengine!CreateGraph
  BY <1>2 DEF Tengine!CreateGraph, TengineInv, NoModel, NoShape
<1>3. CASE Tengine!GetInputTensor
  BY <1>3 DEF Tengine!GetInputTensor
<1>4. CASE Tengine!GetOutputTensor
  <2>1. CASE \E c \in {"output tensor", "output shape"} : Tengine!InitEnds(c)
    BY <2>1
  <2>2. CASE /\ m_output_blobs' = Append(m_output_blobs, Tengine!NewBlob(Len(m_output_blobs) + 1))
             /\ IF Len(m_output_blobs) + 1 = m_output_num THEN Tengine!InitReturns("success")
                ELSE UNCHANGED Tengine!call
             /\ UNCHANGED <<model, m_input_shape, m_output_num, outputs, runs, tensors>>
    <3>1. Tengine!NewBlob(Len(m_output_blobs) + 1) \in Blob
      BY DEF Tengine!NewBlob, Blob
    <3>2. m_output_blobs' \in Seq(Blob)
      BY <2>2, <3>1
    <3>3. QED
      BY <2>2, <3>2
  <2>3. QED
    BY <1>4, <2>1, <2>2 DEF Tengine!GetOutputTensor
<1>5. CASE Tengine!RunGraph
  BY <1>5 DEF Tengine!RunGraph, Tengine!RunFails
<1>6. CASE Tengine!CopyOutputs
  <2>1. CASE Tengine!GoesWrong
    BY <2>1
  <2>2. CASE Tengine!RunSucceeds(tensors, 1 .. m_output_num)
    <3>1. m_output_blobs' \in Seq(Blob)
      BY <2>2, TengineFills
    <3>2. outputs' = m_output_blobs' /\ UNCHANGED <<model, m_input_shape, m_output_num>>
      BY <2>2 DEF Tengine!RunSucceeds
    <3>3. QED
      BY <3>1, <3>2
  <2>3. QED
    BY <1>6, <2>1, <2>2 DEF Tengine!CopyOutputs
<1>7. CASE Tengine!Release
  BY <1>7 DEF Tengine!Release, Tengine!MayRelease
<1>8. ASSUME NEW img \in Tengine!Images, Tengine!Run(img)
      PROVE  Net'
  BY <1>8 DEF Tengine!Run, Tengine!RunRefused, Tengine!Begin
<1>9. CASE Tengine!Destroy
  BY <1>9 DEF Tengine!Destroy, Tengine!DestroyEngine, Tengine!NoShape, NoShape,
     Tengine!Junk, Junk
<1>10. QED
  BY <1>1, <1>2, <1>3, <1>4, <1>5, <1>6, <1>7, <1>8, <1>9, Zenon
     DEF Tengine!Next, Tengine!CreateStep, Tengine!RunStep

\* Lemma: the fields of EngineTengine; those of the others stay.
LEMMA TengineFields ==
    ASSUME Fields, m_outputs = Junk, m_outputs' = Junk, Tengine!Next, UNCHANGED
           <<ownNNIE, ownRKNN>>
    PROVE  Fields'
<1> USE DEF Tengine!base, Tengine!setting, Tengine!call, Tengine!net,
            Tengine!given, Tengine!own, ownNNIE, memory, object, inference,
            ownRKNN, Tengine!InitEnds, Tengine!InitReturns, Tengine!Return,
            Tengine!GoesWrong, Fields
<1>1. CASE Tengine!InitTengine
  BY <1>1 DEF Tengine!InitTengine
<1>2. CASE Tengine!CreateGraph
  BY <1>2 DEF Tengine!CreateGraph
<1>3. CASE Tengine!GetInputTensor
  BY <1>3 DEF Tengine!GetInputTensor
<1>4. CASE Tengine!GetOutputTensor
  BY <1>4 DEF Tengine!GetOutputTensor, Tengine!NewBlob
<1>5. CASE Tengine!RunGraph
  BY <1>5 DEF Tengine!RunGraph, Tengine!RunFails
<1>6. CASE Tengine!CopyOutputs
  BY <1>6 DEF Tengine!CopyOutputs, Tengine!RunSucceeds
<1>7. CASE Tengine!Release
  BY <1>7 DEF Tengine!Release, Tengine!MayRelease
<1>8. ASSUME NEW img \in Tengine!Images, Tengine!Run(img)
      PROVE  Fields'
  BY <1>8 DEF Tengine!Run, Tengine!RunRefused, Tengine!Begin
<1>9. CASE Tengine!Destroy
  BY <1>9 DEF Tengine!Destroy, Tengine!DestroyEngine
<1>10. QED
  BY <1>1, <1>2, <1>3, <1>4, <1>5, <1>6, <1>7, <1>8, <1>9, Zenon
     DEF Tengine!Next, Tengine!CreateStep, Tengine!RunStep

\* Lemma: what create_engine and run_engine return.
LEMMA TengineCalls ==
    ASSUME Calls, TengineInv, Tengine!Next, UNCHANGED <<ownNNIE, ownRKNN>>
    PROVE  Calls'
<1> USE DEF Tengine!base, Tengine!setting, Tengine!call, Tengine!net,
            Tengine!given, Tengine!own, ownNNIE, memory, object, inference,
            ownRKNN, Tengine!InitEnds, Tengine!InitReturns, Tengine!Return,
            Tengine!GoesWrong, Calls, Creating
<1>1. CASE Tengine!InitTengine
  BY <1>1 DEF Tengine!InitTengine, Places, IE_ERR_CODE
<1>2. CASE Tengine!CreateGraph
  BY <1>2 DEF Tengine!CreateGraph, Places, IE_ERR_CODE
<1>3. CASE Tengine!GetInputTensor
  BY <1>3 DEF Tengine!GetInputTensor, Places, IE_ERR_CODE
<1>4. CASE Tengine!GetOutputTensor
  BY <1>4 DEF Tengine!GetOutputTensor, Tengine!NewBlob, Places, IE_ERR_CODE
<1>5. CASE Tengine!RunGraph
  BY <1>5 DEF Tengine!RunGraph, Tengine!RunFails, Places, IE_ERR_CODE
<1>6. CASE Tengine!CopyOutputs
  BY <1>6 DEF Tengine!CopyOutputs, Tengine!RunSucceeds, Places, IE_ERR_CODE
<1>7. CASE Tengine!Release
  BY <1>7 DEF Tengine!Release, Tengine!MayRelease
<1>8. ASSUME NEW img \in Tengine!Images, Tengine!Run(img)
      PROVE  Calls'
  BY <1>8
     DEF Tengine!Run, Tengine!RunRefused, Tengine!Begin, Places, IE_ERR_CODE,
         Tengine!Preprocess
<1>9. CASE Tengine!Destroy
  BY <1>9 DEF Tengine!Destroy, Tengine!DestroyEngine, Places, IE_ERR_CODE
<1>10. QED
  BY <1>1, <1>2, <1>3, <1>4, <1>5, <1>6, <1>7, <1>8, <1>9, Zenon
     DEF Tengine!Next, Tengine!CreateStep, Tengine!RunStep

\* Lemma: how far create_engine got with the fields of IE_Engine.
LEMMA TengineNetInv ==
    ASSUME Net, NetInv, Calls, TengineInv, Tengine!Next, UNCHANGED <<ownNNIE,
           ownRKNN>>
    PROVE  NetInv'
<1> USE DEF Tengine!base, Tengine!setting, Tengine!call, Tengine!net,
            Tengine!given, Tengine!own, ownNNIE, memory, object, inference,
            ownRKNN, Tengine!InitEnds, Tengine!InitReturns, Tengine!Return,
            Tengine!GoesWrong, NetInv
<1>1. CASE Tengine!InitTengine
  BY <1>1 DEF Tengine!InitTengine
<1>2. CASE Tengine!CreateGraph
  <2>1. m_input_shape' = NoShape /\ pc' # "create" /\ init_code' # "success"
    BY <1>2 DEF Tengine!CreateGraph, TengineInv, Calls, Creating
  <2>2. m_input_shape'.w = 0
    BY <2>1 DEF NoShape
  <2>3. QED BY <2>1, <2>2
<1>3. CASE Tengine!GetInputTensor
  BY <1>3, ModelParts DEF Tengine!GetInputTensor, TengineInv, Calls, Creating
<1>4. CASE Tengine!GetOutputTensor
  <2>1. CASE \E c \in {"output tensor", "output shape"} : Tengine!InitEnds(c)
    BY <1>4, <2>1 DEF Tengine!GetOutputTensor
  <2>2. CASE /\ m_output_blobs' = Append(m_output_blobs, Tengine!NewBlob(Len(m_output_blobs) + 1))
             /\ IF Len(m_output_blobs) + 1 = m_output_num THEN Tengine!InitReturns("success")
                ELSE UNCHANGED Tengine!call
             /\ UNCHANGED <<model, m_input_shape, m_output_num, outputs, runs, tensors>>
    <3>1. model \in Models /\ m_input_shape = model.in /\ pc = "outputs"
      BY <1>4 DEF Tengine!GetOutputTensor, TengineInv
    <3>2. m_output_num = Len(model.out)
      BY <3>1, ModelParts DEF TengineInv
    <3>3. pc' # "create"
      BY <2>2, <3>1
    <3>4. QED
      BY <2>2, <3>1, <3>2, <3>3
  <2>3. QED
    BY <1>4, <2>1, <2>2 DEF Tengine!GetOutputTensor
<1>5. CASE Tengine!RunGraph
  BY <1>5 DEF Tengine!RunGraph, Tengine!RunFails
<1>6. CASE Tengine!CopyOutputs
  BY <1>6 DEF Tengine!CopyOutputs, Tengine!RunSucceeds
<1>7. CASE Tengine!Release
  BY <1>7 DEF Tengine!Release, Tengine!MayRelease
<1>8. ASSUME NEW img \in Tengine!Images, Tengine!Run(img)
      PROVE  NetInv'
  BY <1>8 DEF Tengine!Run, Tengine!RunRefused, Tengine!Begin
<1>9. CASE Tengine!Destroy
  BY <1>9 DEF Tengine!Destroy, Tengine!DestroyEngine, Tengine!NoShape
<1>10. QED
  BY <1>1, <1>2, <1>3, <1>4, <1>5, <1>6, <1>7, <1>8, <1>9, Zenon
     DEF Tengine!Next, Tengine!CreateStep, Tengine!RunStep

\* Lemma: the graph and the outputs at each stage of init and run.
LEMMA TengineStages ==
    ASSUME Numbers, Net, NetInv, Calls, TengineInv, Tengine!Next, UNCHANGED
           <<ownNNIE, ownRKNN>>
    PROVE  TengineInv'
<1> USE DEF Tengine!base, Tengine!setting, Tengine!call, Tengine!net,
            Tengine!given, Tengine!own, ownNNIE, memory, object, inference,
            ownRKNN, Tengine!InitEnds, Tengine!InitReturns, Tengine!Return,
            Tengine!GoesWrong, TengineInv, Tengine!Alive
<1>1. CASE Tengine!InitTengine
  BY <1>1 DEF Tengine!InitTengine, Calls, Creating, NoShape, NetInv
<1>2. CASE Tengine!CreateGraph
  BY <1>2 DEF Tengine!CreateGraph, Calls, Creating, NoShape
<1>3. CASE Tengine!GetInputTensor
  <2>1. /\ pc = "input" /\ model \in Models /\ m_graph = "built" /\ m_output_blobs = <<>>
        /\ m_input_shape = NoShape /\ init_code = "none" /\ UNCHANGED <<model, m_graph, m_output_blobs, runs, tensors, careful>>
    BY <1>3 DEF Tengine!GetInputTensor, Calls, Creating
  <2>2. Len(<<>>) = 0 /\ NoShape.w = 0 /\ Len(model.out) \in Nat \ {0}
    BY <2>1, ModelParts DEF NoShape
  <2>3. CASE \E c \in {"input tensor", "input shape"} : Tengine!InitEnds(c)
    BY <2>1, <2>2, <2>3
  <2>4. CASE /\ m_input_shape' = model.in /\ m_output_num' = Len(model.out)
             /\ pc' = "outputs" /\ UNCHANGED init_code
    BY <2>1, <2>2, <2>4
  <2>5. QED
    BY <1>3, <2>3, <2>4 DEF Tengine!GetInputTensor
<1>4. CASE Tengine!GetOutputTensor
  <2>0. /\ pc = "outputs" /\ model \in Models /\ m_input_shape = model.in /\ m_graph = "built"
        /\ UNCHANGED <<m_graph, careful>> /\ init_code = "none"
    BY <1>4 DEF Tengine!GetOutputTensor, Calls, Creating
  <2>4. m_output_num = Len(model.out) /\ Len(m_output_blobs) < m_output_num
    BY <2>0, ModelParts
  <2>5. Len(m_output_blobs) \in Nat /\ m_output_num \in Nat
    BY <2>0, <2>4, ModelParts DEF Net
  <2>1. CASE \E c \in {"output tensor", "output shape"} : Tengine!InitEnds(c)
    BY <2>0, <2>1, <2>4
  <2>2. CASE /\ m_output_blobs' = Append(m_output_blobs, Tengine!NewBlob(Len(m_output_blobs) + 1))
             /\ IF Len(m_output_blobs) + 1 = m_output_num THEN Tengine!InitReturns("success")
                ELSE UNCHANGED Tengine!call
             /\ UNCHANGED <<model, m_input_shape, m_output_num, outputs, runs, tensors>>
    <3>1. Len(m_output_blobs') = Len(m_output_blobs) + 1
      BY <2>2 DEF Net
    <3>2. CASE Len(m_output_blobs) + 1 = m_output_num
      BY <2>0, <2>2, <2>4, <2>5, <3>1, <3>2
    <3>3. CASE Len(m_output_blobs) + 1 # m_output_num
      <4>1. Len(m_output_blobs') < m_output_num'
        BY <2>2, <2>4, <2>5, <3>1, <3>3
      <4>2. QED
        BY <2>0, <2>2, <2>4, <3>3, <4>1
    <3>4. QED BY <3>2, <3>3
  <2>3. QED
    BY <1>4, <2>1, <2>2 DEF Tengine!GetOutputTensor
<1>5. CASE Tengine!RunGraph
  <2>1. /\ pc = "run" /\ UNCHANGED <<init_code, model, m_input_shape, m_output_num, m_output_blobs, m_graph, runs, careful>>
        /\ pc' \in {"idle", "copy"} /\ (pc' = "copy" => tensors' = runs)
    BY <1>5 DEF Tengine!RunGraph, Tengine!RunFails
  <2>2. QED
    BY <2>1
<1>6. CASE Tengine!CopyOutputs
  <2>1. CASE Tengine!GoesWrong
    BY <1>6, <2>1 DEF Tengine!CopyOutputs
  <2>2. CASE Tengine!RunSucceeds(tensors, 1 .. m_output_num)
    <3>1. Len(m_output_blobs') = Len(m_output_blobs)
      BY <2>2, Filled DEF Tengine!RunSucceeds, Numbers, Net
    <3>2. /\ pc = "copy" /\ pc' = "idle" /\ UNCHANGED m_graph
          /\ UNCHANGED <<init_code, model, m_input_shape, m_output_num>>
      BY <1>6, <2>2 DEF Tengine!CopyOutputs, Tengine!RunSucceeds
    <3>3. QED
      BY <3>1, <3>2
  <2>3. QED
    BY <1>6, <2>1, <2>2 DEF Tengine!CopyOutputs
<1>7. CASE Tengine!Release
  BY <1>7 DEF Tengine!Release, Tengine!MayRelease
<1>8. ASSUME NEW img \in Tengine!Images, Tengine!Run(img)
      PROVE  TengineInv'
  <2>1. /\ pc = "idle"
        /\ UNCHANGED <<init_code, model, m_input_shape, m_output_num, m_output_blobs, m_graph, tensors, careful>>
        /\ pc' \in {"idle", "run"}
    BY <1>8 DEF Tengine!Run, Tengine!RunRefused, Tengine!Begin
  <2>2. ASSUME pc' = "run"
        PROVE  /\ m_graph = "built" /\ runs' > 0 /\ m_input_shape.w > 0
               /\ careful => init_code = "success"
    <3>1. /\ Tengine!Begin(img, Tengine!Alive) /\ Tengine!Preprocess(img) = "fine"
          /\ Tengine!SetsBuffer(img) /\ runs' = runs + 1
      BY <1>8, <2>1, <2>2 DEF Tengine!Run, Tengine!RunRefused
    <3>2. m_graph = "built"
      BY <3>1 DEF Tengine!SetsBuffer
    <3>3. runs' > 0
      BY <3>1, MaxRunsAssumption DEF Numbers
    <3>4. ~(m_input_shape.w <= 0)
      BY <3>1 DEF Tengine!Preprocess
    <3>41. m_input_shape.w \in Nat
      BY Shape
    <3>5. careful => init_code = "success"
      BY <3>1 DEF Tengine!Begin
    <3>6. QED BY <3>2, <3>3, <3>4, <3>41, <3>5
  <2>3. QED
    BY <2>1, <2>2
<1>9. CASE Tengine!Destroy
  BY <1>9 DEF Tengine!Destroy, Tengine!DestroyEngine, Tengine!NoShape
<1>10. QED
  BY <1>1, <1>2, <1>3, <1>4, <1>5, <1>6, <1>7, <1>8, <1>9, Zenon
     DEF Tengine!Next, Tengine!CreateStep, Tengine!RunStep

\* Lemma: what goes wrong for a careful caller.
LEMMA TengineDefined ==
    ASSUME Net, NetInv, Calls, TengineInv, Flags, board \in {"x86", "rk"},
           ~undefined, Tengine!Next, UNCHANGED <<ownNNIE, ownRKNN>>
    PROVE  DefinedForCareful'
<1> USE DEF Tengine!base, Tengine!setting, Tengine!call, Tengine!net,
            Tengine!given, Tengine!own, ownNNIE, memory, object, inference,
            ownRKNN, Tengine!InitEnds, Tengine!InitReturns, Tengine!Return,
            Tengine!GoesWrong, DefinedForCareful, Tengine!Trap, Tengine!Alive
<1>1. CASE Tengine!InitTengine
  BY <1>1 DEF Tengine!InitTengine
<1>2. CASE Tengine!CreateGraph
  BY <1>2 DEF Tengine!CreateGraph
<1>3. CASE Tengine!GetInputTensor
  BY <1>3 DEF Tengine!GetInputTensor
<1>4. CASE Tengine!GetOutputTensor
  BY <1>4 DEF Tengine!GetOutputTensor, Tengine!NewBlob
<1>5. CASE Tengine!RunGraph
  BY <1>5 DEF Tengine!RunGraph, Tengine!RunFails
<1>6. CASE Tengine!CopyOutputs
  <2>1. ASSUME careful PROVE ~(Len(m_output_blobs) < m_output_num)
    <3>1. init_code = "success"
      BY <1>6, <2>1 DEF Tengine!CopyOutputs, TengineInv
    <3>2. Len(m_output_blobs) = m_output_num /\ Len(m_output_blobs) \in Nat
      BY <1>6, <3>1 DEF Tengine!CopyOutputs, TengineInv, Net
    <3>3. QED BY <3>2
  <2>2. QED
    BY <1>6, <2>1 DEF Tengine!CopyOutputs, Tengine!RunSucceeds
<1>7. CASE Tengine!Release
  BY <1>7 DEF Tengine!Release, Tengine!MayRelease
<1>8. ASSUME NEW img \in Tengine!Images, Tengine!Run(img)
      PROVE  DefinedForCareful'
  <2>1. CASE Tengine!GoesWrong /\ ~Tengine!SetsBuffer(img) /\ Tengine!Begin(img, Tengine!Alive)
             /\ Tengine!Preprocess(img) = "fine"
    <3>1. ASSUME careful PROVE Tengine!Trap
      <4>1. pc = "idle" /\ img = m_input_shape.c /\ Tengine!Alive
        BY <2>1, <3>1 DEF Tengine!Begin
      <4>2. CASE Tengine!WritesPastBlob(img)
        BY <4>1, <4>2 DEF Tengine!WritesPastBlob
      <4>3. CASE ~(Tengine!BlobHolds(img) >= Tengine!InputNeeds(4))
        <5>1. Tengine!ElemSize # 4
          BY <4>1, <4>3, <1>8 DEF Tengine!BlobHolds, Tengine!InputNeeds, Tengine!Images
        <5>2. ~Tengine!Normalises /\ board # "rk"
          BY <5>1 DEF Tengine!ElemSize
        <5>3. board = "x86" /\ ~normalise
          BY <5>2 DEF Tengine!Normalises, Flags
        <5>4. QED BY <4>1, <5>3
      <4>4. QED
        BY <2>1, <4>1, <4>2, <4>3 DEF Tengine!SetsBuffer
    <3>2. Tengine!Trap => Tengine!Trap'
      BY <2>1 DEF Tengine!Normalises
    <3>3. QED BY <2>1, <3>1, <3>2
  <2>2. CASE undefined' = undefined
    BY <2>2
  <2>3. QED
    BY <1>8, <2>1, <2>2 DEF Tengine!Run, Tengine!RunRefused
<1>9. CASE Tengine!Destroy
  BY <1>9 DEF Tengine!Destroy, Tengine!DestroyEngine
<1>10. QED
  BY <1>1, <1>2, <1>3, <1>4, <1>5, <1>6, <1>7, <1>8, <1>9, Zenon
     DEF Tengine!Next, Tengine!CreateStep, Tengine!RunStep

\* Lemma: the engine of these platforms can answer while its graph is built.
LEMMA TengineAlive ==
    ASSUME board \in {"x86", "rk"}, board' = board
    PROVE  (AliveEngine <=> m_graph = "built") /\ (AliveEngine' <=> m_graph' = "built")
BY DEF AliveEngine, Tengine!Alive

\* Lemma: each step of EngineTengine is one of the contract, or none.
LEMMA TengineContract ==
    ASSUME Numbers, Net, NetInv, Calls, TengineInv, board \in {"x86", "rk"}, ~undefined,
           Tengine!Next, UNCHANGED <<ownNNIE, ownRKNN>>
    PROVE  KeepsContract
<1> USE DEF Tengine!base, Tengine!setting, Tengine!call, Tengine!net,
            Tengine!given, Tengine!own, ownNNIE, memory, object, inference,
            ownRKNN, Tengine!InitEnds, Tengine!InitReturns, Tengine!Return,
            Tengine!GoesWrong
<1>1. CASE Tengine!InitTengine
  <2>1. /\ Creating /\ runs' = runs /\ answer' = answer
        /\ InAnyCall' => init_code' # "success" /\ pc' # "gone"
    BY <1>1 DEF Tengine!InitTengine, Creating, InAnyCall, Calls, Places
  <2>2. QED BY <2>1, CreateKeeps
<1>2. CASE Tengine!CreateGraph
  <2>1. /\ Creating /\ runs' = runs /\ answer' = answer
        /\ InAnyCall' => init_code' # "success" /\ pc' # "gone"
    BY <1>2 DEF Tengine!CreateGraph, Creating, InAnyCall, Calls, Places
  <2>2. QED BY <2>1, CreateKeeps
<1>3. CASE Tengine!GetInputTensor
  <2>1. /\ Creating /\ runs' = runs /\ answer' = answer
        /\ InAnyCall' => init_code' # "success" /\ pc' # "gone"
    BY <1>3 DEF Tengine!GetInputTensor, Creating, InAnyCall, Calls, Places
  <2>2. QED BY <2>1, CreateKeeps
<1>4. CASE Tengine!GetOutputTensor
  <2>1. /\ Creating /\ runs' = runs /\ answer' = answer
        /\ InAnyCall' => init_code' # "success" /\ pc' # "gone"
    BY <1>4 DEF Tengine!GetOutputTensor, Tengine!NewBlob, Creating, InAnyCall, Calls, Places
  <2>2. QED BY <2>1, CreateKeeps
<1>5. CASE Tengine!RunGraph
  <2>1. /\ pc \notin {"idle", "gone"} /\ runs' = runs /\ answer' = answer
        /\ UNCHANGED <<board, init_code, model, m_graph>> /\ pc' # "gone"
        /\ pc' = "idle" => code' # "success"
    BY <1>5 DEF Tengine!RunGraph, Tengine!RunFails
  <2>2. runs > 0
    BY <1>5 DEF Tengine!RunGraph, TengineInv
  <2>3. QED BY <2>1, <2>2, RunKeeps, TengineAlive
<1>6. CASE Tengine!CopyOutputs
  <2>1. pc = "copy" /\ runs > 0 /\ tensors = runs /\ m_graph = "built"
        /\ m_input_shape.w > 0
    BY <1>6 DEF Tengine!CopyOutputs, TengineInv, Tengine!Alive
  <2>2. CASE Tengine!GoesWrong /\ UNCHANGED Tengine!own
    BY <2>1, <2>2, RunKeeps, TengineAlive
  <2>3. CASE /\ ~(Len(m_output_blobs) < m_output_num) /\ UNCHANGED Tengine!own
             /\ Tengine!RunSucceeds(tensors, 1 .. m_output_num)
    <3>1. init_code = "success"
      BY <2>1, <2>3 DEF TengineInv
    <3>2. /\ runs' = runs /\ pc' = "idle" /\ code' = "success"
          /\ UNCHANGED <<board, init_code, model, m_graph>>
      BY <2>1, <2>3 DEF Tengine!RunSucceeds
    <3>3. Can /\ Can'
      BY <2>1, <3>1, <3>2, TengineAlive DEF Can
    <3>4. Gives /\ answer' = runs
      BY <1>6, <2>1, <2>3, <3>1, TengineAnswers DEF Gives, AnswersAtAll
    <3>5. QED BY <2>1, <3>2, <3>3, <3>4, AnswerKeeps
  <2>4. QED
    BY <1>6, <2>2, <2>3 DEF Tengine!CopyOutputs
<1>7. CASE Tengine!Release
  <2>1. /\ pc \in {"idle", "gone"} /\ pc' \in {"idle", "gone"}
        /\ runs' = runs /\ answer' = answer
        /\ UNCHANGED <<board, code, init_code, model>> /\ (m_graph' = "built" => m_graph = "built")
    BY <1>7 DEF Tengine!Release, Tengine!MayRelease, Tengine!Alive
  <2>2. QED BY <2>1, IdleKeeps, TengineAlive
<1>8. ASSUME NEW img \in Tengine!Images, Tengine!Run(img)
      PROVE  KeepsContract
  <2>1. pc = "idle" /\ UNCHANGED <<board, init_code, model, answer, m_graph>>
    BY <1>8 DEF Tengine!Run, Tengine!RunRefused, Tengine!Begin
  <2>2. CASE Tengine!GoesWrong
    BY <2>1, <2>2, IdleKeeps, TengineAlive
  <2>3. CASE runs' = runs + 1 /\ pc' # "gone" /\ (pc' = "idle" => code' # "success")
    BY <2>1, <2>3, AskKeeps, TengineAlive
  <2>4. QED
    BY <1>8, <2>1, <2>2, <2>3 DEF Tengine!Run, Tengine!RunRefused, Tengine!Preprocess
<1>9. CASE Tengine!Destroy
  <2>1. /\ pc \in {"idle", "gone"} /\ pc' \in {"idle", "gone"}
        /\ runs' = runs /\ answer' = answer
        /\ UNCHANGED <<board, code, init_code, model>> /\ m_graph' # "built"
    BY <1>9 DEF Tengine!Destroy, Tengine!DestroyEngine
  <2>2. QED BY <2>1, IdleKeeps, TengineAlive
<1>10. QED
  BY <1>1, <1>2, <1>3, <1>4, <1>5, <1>6, <1>7, <1>8, <1>9, Zenon
     DEF Tengine!Next, Tengine!CreateStep, Tengine!RunStep

-----------------------------------------------------------------------------
(* EngineRKNN *)

\* Lemma: a flag stays one.
LEMMA RknnFlags ==
    ASSUME Flags, RKNN!Next, UNCHANGED <<ownNNIE, ownTengine>>
    PROVE  Flags'
<1> USE DEF RKNN!base, RKNN!setting, RKNN!call, RKNN!net, RKNN!given, RKNN!own,
            ownNNIE, memory, object, inference, ownTengine, RKNN!InitEnds,
            RKNN!InitReturns, RKNN!Return, RKNN!GoesWrong, Flags
<1>1. CASE RKNN!ReadModel
  BY <1>1 DEF RKNN!ReadModel
<1>2. CASE RKNN!InitContext
  BY <1>2 DEF RKNN!InitContext
<1>3. CASE RKNN!GetInputAttr
  BY <1>3 DEF RKNN!GetInputAttr
<1>4. CASE RKNN!GetOutputNumber
  BY <1>4 DEF RKNN!GetOutputNumber
<1>5. CASE RKNN!GetOutputAttr
  BY <1>5 DEF RKNN!GetOutputAttr, RKNN!NewBlob
<1>6. CASE RKNN!RunContext
  BY <1>6 DEF RKNN!RunContext, RKNN!RunFails
<1>7. CASE RKNN!GetOutputs
  BY <1>7 DEF RKNN!GetOutputs, RKNN!RunFails
<1>8. CASE RKNN!CopyOutputs
  BY <1>8 DEF RKNN!CopyOutputs, RKNN!RunSucceeds
<1>9. CASE RKNN!Release
  BY <1>9 DEF RKNN!Release, RKNN!MayRelease
<1>10. ASSUME NEW img \in RKNN!Images, RKNN!Run(img)
      PROVE  Flags'
  BY <1>10 DEF RKNN!Run, RKNN!RunRefused, RKNN!Begin
<1>11. CASE RKNN!Destroy
  BY <1>11 DEF RKNN!Destroy, RKNN!DestroyEngine
<1>12. QED
  BY <1>1, <1>2, <1>3, <1>4, <1>5, <1>6, <1>7, <1>8, <1>9, <1>10, <1>11, Zenon
     DEF RKNN!Next, RKNN!CreateStep, RKNN!RunStep

\* Lemma: the platform stays.
LEMMA RknnBoard ==
    ASSUME RKNN!Next, UNCHANGED <<ownNNIE, ownTengine>>
    PROVE  board' = board
<1> USE DEF RKNN!base, RKNN!setting, RKNN!call, RKNN!net, RKNN!given, RKNN!own,
            ownNNIE, memory, object, inference, ownTengine, RKNN!InitEnds,
            RKNN!InitReturns, RKNN!Return, RKNN!GoesWrong
<1>1. CASE RKNN!ReadModel
  BY <1>1 DEF RKNN!ReadModel
<1>2. CASE RKNN!InitContext
  BY <1>2 DEF RKNN!InitContext
<1>3. CASE RKNN!GetInputAttr
  BY <1>3 DEF RKNN!GetInputAttr
<1>4. CASE RKNN!GetOutputNumber
  BY <1>4 DEF RKNN!GetOutputNumber
<1>5. CASE RKNN!GetOutputAttr
  BY <1>5 DEF RKNN!GetOutputAttr, RKNN!NewBlob
<1>6. CASE RKNN!RunContext
  BY <1>6 DEF RKNN!RunContext, RKNN!RunFails
<1>7. CASE RKNN!GetOutputs
  BY <1>7 DEF RKNN!GetOutputs, RKNN!RunFails
<1>8. CASE RKNN!CopyOutputs
  BY <1>8 DEF RKNN!CopyOutputs, RKNN!RunSucceeds
<1>9. CASE RKNN!Release
  BY <1>9 DEF RKNN!Release, RKNN!MayRelease
<1>10. ASSUME NEW img \in RKNN!Images, RKNN!Run(img)
      PROVE  board' = board
  BY <1>10 DEF RKNN!Run, RKNN!RunRefused, RKNN!Begin
<1>11. CASE RKNN!Destroy
  BY <1>11 DEF RKNN!Destroy, RKNN!DestroyEngine
<1>12. QED
  BY <1>1, <1>2, <1>3, <1>4, <1>5, <1>6, <1>7, <1>8, <1>9, <1>10, <1>11, Zenon
     DEF RKNN!Next, RKNN!CreateStep, RKNN!RunStep

\* The outputs of the model that fill their blobs.
WholeOutputs == {i \in DOMAIN model.out : RKNN!Whole(model.out[i])}

\* Lemma: what run hands out, if it does, are the results in the buffers if they
\* have places in the blobs, and no answer if some have not.
LEMMA RknnAnswers ==
    ASSUME Numbers, Net, NetInv, RknnInv, PlacesInv, RKNN!CopyOutputs
    PROVE  /\ answer' \in {answer, bufs, 0}
           /\ RKNN!RunSucceeds(bufs, WholeOutputs) =>
                  answer' = IF \A i \in DOMAIN model.out : RKNN!Whole(model.out[i])
                            THEN bufs ELSE 0
<1>1. pc = "copy" /\ m_outputs = m_output_num /\ m_outputs # Junk
  BY DEF RKNN!CopyOutputs, RknnInv
<1>2. model \in Models /\ m_output_num = Len(model.out)
  BY <1>1 DEF RknnInv, NetInv
<1>3. /\ DOMAIN m_output_blobs = DOMAIN model.out /\ DOMAIN model.out # {}
      /\ 1 \in DOMAIN model.out
  BY <1>1, <1>2, ModelParts DEF PlacesInv, Net
<1>4. CASE RKNN!GoesWrong
  <2>1. answer' = answer /\ pc' = pc
    BY <1>4 DEF RKNN!GoesWrong, RKNN!given, RKNN!call
  <2>2. RKNN!RunSucceeds(bufs, WholeOutputs) => pc' = "idle"
    BY DEF RKNN!RunSucceeds, RKNN!Return
  <2>3. QED BY <1>1, <2>1, <2>2
<1>5. CASE RKNN!RunSucceeds(bufs, WholeOutputs)
  <2>1. /\ DOMAIN m_output_blobs' = DOMAIN m_output_blobs
        /\ \A i \in DOMAIN m_output_blobs :
               m_output_blobs'[i].data = IF i \in WholeOutputs THEN bufs
                                         ELSE m_output_blobs[i].data
    BY <1>5, Filled DEF RKNN!RunSucceeds, Numbers, Net
  <2>2. answer' = RKNN!Answered(m_output_blobs')
    BY <1>5 DEF RKNN!RunSucceeds
  <2>3. CASE \A i \in DOMAIN model.out : RKNN!Whole(model.out[i])
    <3>1. \A i \in DOMAIN m_output_blobs' : m_output_blobs'[i].data = bufs
      BY <1>3, <2>1, <2>3 DEF WholeOutputs
    <3>2. DOMAIN m_output_blobs' # {}
      BY <1>3, <2>1
    <3>3. RKNN!Answered(m_output_blobs') = bufs
      BY <3>1, <3>2, AnsweredAll
    <3>4. QED BY <2>2, <2>3, <3>3
  <2>4. CASE ~\A i \in DOMAIN model.out : RKNN!Whole(model.out[i])
    <3>1. PICK i \in DOMAIN model.out : ~RKNN!Whole(model.out[i])
      BY <2>4
    <3>2. i \in DOMAIN m_output_blobs' /\ m_output_blobs'[i].data = 0
      BY <1>3, <2>1, <3>1 DEF WholeOutputs, PlacesInv
    <3>3. RKNN!Answered(m_output_blobs') = 0
      BY <3>2, AnsweredNone
    <3>4. QED BY <2>2, <2>4, <3>3
  <2>5. QED BY <2>3, <2>4
<1>6. QED
  BY <1>4, <1>5 DEF RKNN!CopyOutputs, WholeOutputs

\* Lemma: no number is beyond the runs so far.
LEMMA RknnNumbers ==
    ASSUME Numbers, Net, NetInv, RknnInv, PlacesInv, RKNN!Next,
           UNCHANGED <<ownNNIE, ownTengine>>
    PROVE  Numbers'
<1> USE DEF RKNN!base, RKNN!setting, RKNN!call, RKNN!net, RKNN!given, RKNN!own,
            ownNNIE, memory, object, inference, ownTengine, RKNN!InitEnds,
            RKNN!InitReturns, RKNN!Return, RKNN!GoesWrong, Numbers
<1>1. CASE RKNN!ReadModel
  BY <1>1, MaxRunsAssumption DEF RKNN!ReadModel
<1>2. CASE RKNN!InitContext
  BY <1>2, MaxRunsAssumption DEF RKNN!InitContext
<1>3. CASE RKNN!GetInputAttr
  BY <1>3, MaxRunsAssumption DEF RKNN!GetInputAttr
<1>4. CASE RKNN!GetOutputNumber
  BY <1>4, MaxRunsAssumption DEF RKNN!GetOutputNumber
<1>5. CASE RKNN!GetOutputAttr
  BY <1>5, MaxRunsAssumption DEF RKNN!GetOutputAttr, RKNN!NewBlob
<1>6. CASE RKNN!RunContext
  BY <1>6, MaxRunsAssumption DEF RKNN!RunContext, RKNN!RunFails
<1>7. CASE RKNN!GetOutputs
  <2>1. bufs' \in {bufs, runs}
    BY <1>7 DEF RKNN!GetOutputs, RKNN!RunFails
  <2>2. UNCHANGED <<runs, answer>>
    BY <1>7 DEF RKNN!GetOutputs, RKNN!RunFails
  <2>3. QED
    BY <2>1, <2>2
<1>8. CASE RKNN!CopyOutputs
  <2>1. UNCHANGED <<runs, bufs>>
    BY <1>8 DEF RKNN!CopyOutputs, RKNN!RunSucceeds
  <2>2. answer' \in {answer, bufs, 0}
    BY <1>8, RknnAnswers
  <2>3. QED
    BY <2>1, <2>2
<1>9. CASE RKNN!Release
  BY <1>9, MaxRunsAssumption DEF RKNN!Release, RKNN!MayRelease
<1>10. ASSUME NEW img \in RKNN!Images, RKNN!Run(img)
      PROVE  Numbers'
  <2>1. runs' \in {runs, runs + 1} /\ (runs' = runs + 1 => runs < MaxRuns)
        /\ UNCHANGED <<answer, bufs>>
    BY <1>10 DEF RKNN!Run, RKNN!RunRefused, RKNN!Begin
  <2>2. runs' \in 0 .. MaxRuns /\ runs <= runs'
    BY <2>1, MaxRunsAssumption
  <2>3. QED
    BY <2>1, <2>2, MaxRunsAssumption
<1>11. CASE RKNN!Destroy
  BY <1>11, MaxRunsAssumption DEF RKNN!Destroy, RKNN!DestroyEngine
<1>12. QED
  BY <1>1, <1>2, <1>3, <1>4, <1>5, <1>6, <1>7, <1>8, <1>9, <1>10, <1>11, Zenon
     DEF RKNN!Next, RKNN!CreateStep, RKNN!RunStep

\* Lemma: the fields of IE_Engine.
LEMMA RknnNet ==
    ASSUME Numbers, Net, NetInv, RknnInv, RKNN!Next, UNCHANGED <<ownNNIE,
           ownTengine>>
    PROVE  Net'
<1> USE DEF RKNN!base, RKNN!setting, RKNN!call, RKNN!net, RKNN!given, RKNN!own,
            ownNNIE, memory, object, inference, ownTengine, RKNN!InitEnds,
            RKNN!InitReturns, RKNN!Return, RKNN!GoesWrong, Net
<1>1. CASE RKNN!ReadModel
  BY <1>1 DEF RKNN!ReadModel, NetInv, NoModel, NoShape
<1>2. CASE RKNN!InitContext
  BY <1>2 DEF RKNN!InitContext
<1>3. CASE RKNN!GetInputAttr
  BY <1>3 DEF RKNN!GetInputAttr
<1>4. CASE RKNN!GetOutputNumber
  BY <1>4 DEF RKNN!GetOutputNumber
<1>5. CASE RKNN!GetOutputAttr
  <2>1. CASE RKNN!InitEnds("output") /\ UNCHANGED m_outputs
    BY <2>1
  <2>2. CASE /\ m_outputs' = m_outputs + 1
             /\ m_output_blobs' = Append(m_output_blobs, RKNN!NewBlob(m_outputs'))
             /\ IF m_outputs' = m_output_num THEN RKNN!InitReturns("success")
                ELSE UNCHANGED RKNN!call
             /\ UNCHANGED <<model, m_input_shape, m_output_num, outputs, runs>>
    <3>1. m_outputs' \in Nat
      BY <1>5, <2>2, ModelParts DEF RKNN!GetOutputAttr, RknnInv
    <3>2. RKNN!NewBlob(m_outputs') \in Blob
      BY <3>1 DEF RKNN!NewBlob, Blob
    <3>3. m_output_blobs' \in Seq(Blob)
      BY <2>2, <3>2
    <3>4. QED
      BY <2>2, <3>3
  <2>3. QED
    BY <1>5, <2>1, <2>2 DEF RKNN!GetOutputAttr
<1>6. CASE RKNN!RunContext
  BY <1>6 DEF RKNN!RunContext, RKNN!RunFails
<1>7. CASE RKNN!GetOutputs
  BY <1>7 DEF RKNN!GetOutputs, RKNN!RunFails
<1>8. CASE RKNN!CopyOutputs
  <2>1. CASE RKNN!GoesWrong
    BY <2>1
  <2>2. CASE RKNN!RunSucceeds(bufs, WholeOutputs)
    <3>1. m_output_blobs' \in Seq(Blob)
      BY <2>2, RknnFills
    <3>2. outputs' = m_output_blobs' /\ UNCHANGED <<model, m_input_shape, m_output_num>>
      BY <2>2 DEF RKNN!RunSucceeds
    <3>3. QED
      BY <3>1, <3>2
  <2>3. QED
    BY <1>8, <2>1, <2>2 DEF RKNN!CopyOutputs, WholeOutputs
<1>9. CASE RKNN!Release
  BY <1>9 DEF RKNN!Release, RKNN!MayRelease
<1>10. ASSUME NEW img \in RKNN!Images, RKNN!Run(img)
      PROVE  Net'
  BY <1>10 DEF RKNN!Run, RKNN!RunRefused, RKNN!Begin
<1>11. CASE RKNN!Destroy
  BY <1>11 DEF RKNN!Destroy, RKNN!DestroyEngine, RKNN!NoShape, NoShape,
     RKNN!Junk, Junk
<1>12. QED
  BY <1>1, <1>2, <1>3, <1>4, <1>5, <1>6, <1>7, <1>8, <1>9, <1>10, <1>11, Zenon
     DEF RKNN!Next, RKNN!CreateStep, RKNN!RunStep

\* Lemma: the fields of EngineRKNN; those of the others stay.
LEMMA RknnFields ==
    ASSUME Fields, Net, Calls, RknnInv, RKNN!Next, UNCHANGED <<ownNNIE,
           ownTengine>>
    PROVE  Fields'
<1> USE DEF RKNN!base, RKNN!setting, RKNN!call, RKNN!net, RKNN!given, RKNN!own,
            ownNNIE, memory, object, inference, ownTengine, RKNN!InitEnds,
            RKNN!InitReturns, RKNN!Return, RKNN!GoesWrong, Fields
<1>1. CASE RKNN!ReadModel
  <2>1. m_outputs' = Junk
    BY <1>1 DEF RKNN!ReadModel, RknnInv
  <2>2. QED
    BY <1>1, <2>1 DEF RKNN!ReadModel
<1>2. CASE RKNN!InitContext
  BY <1>2 DEF RKNN!InitContext
<1>3. CASE RKNN!GetInputAttr
  BY <1>3 DEF RKNN!GetInputAttr
<1>4. CASE RKNN!GetOutputNumber
  <2>1. Len(model.out) \in Nat
    BY <1>4, ModelParts DEF RKNN!GetOutputNumber, RknnInv
  <2>2. m_outputs' \in {m_outputs, 0} /\ model' = model
    BY <1>4 DEF RKNN!GetOutputNumber
  <2>3. QED
    BY <1>4, <2>1, <2>2 DEF RKNN!GetOutputNumber
<1>5. CASE RKNN!GetOutputAttr
  <2>1. CASE RKNN!InitEnds("output") /\ UNCHANGED m_outputs
    BY <2>1, <1>5 DEF RKNN!GetOutputAttr
  <2>2. CASE /\ m_outputs' = m_outputs + 1
             /\ m_output_blobs' = Append(m_output_blobs, RKNN!NewBlob(m_outputs'))
             /\ IF m_outputs' = m_output_num THEN RKNN!InitReturns("success")
                ELSE UNCHANGED RKNN!call
             /\ UNCHANGED <<model, m_input_shape, m_output_num, outputs, runs>>
    <3>1. m_outputs \in Nat /\ m_outputs < Len(model.out) /\ Len(model.out) \in Nat
      BY <1>5, ModelParts DEF RKNN!GetOutputAttr, RknnInv, Calls, Creating
    <3>2. m_outputs' \in 0 .. Len(model'.out)
      BY <2>2, <3>1
    <3>3. UNCHANGED m_ctx
      BY <1>5 DEF RKNN!GetOutputAttr
    <3>4. QED
      BY <3>2, <3>3
  <2>3. QED
    BY <1>5, <2>1, <2>2 DEF RKNN!GetOutputAttr
<1>6. CASE RKNN!RunContext
  BY <1>6 DEF RKNN!RunContext, RKNN!RunFails
<1>7. CASE RKNN!GetOutputs
  BY <1>7 DEF RKNN!GetOutputs, RKNN!RunFails
<1>8. CASE RKNN!CopyOutputs
  BY <1>8 DEF RKNN!CopyOutputs, RKNN!RunSucceeds
<1>9. CASE RKNN!Release
  BY <1>9 DEF RKNN!Release, RKNN!MayRelease
<1>10. ASSUME NEW img \in RKNN!Images, RKNN!Run(img)
      PROVE  Fields'
  BY <1>10 DEF RKNN!Run, RKNN!RunRefused, RKNN!Begin
<1>11. CASE RKNN!Destroy
  BY <1>11 DEF RKNN!Destroy, RKNN!DestroyEngine, RKNN!Junk, Junk
<1>12. QED
  BY <1>1, <1>2, <1>3, <1>4, <1>5, <1>6, <1>7, <1>8, <1>9, <1>10, <1>11, Zenon
     DEF RKNN!Next, RKNN!CreateStep, RKNN!RunStep

\* Lemma: what create_engine and run_engine return.
LEMMA RknnCalls ==
    ASSUME Calls, RknnInv, RKNN!Next, UNCHANGED <<ownNNIE, ownTengine>>
    PROVE  Calls'
<1> USE DEF RKNN!base, RKNN!setting, RKNN!call, RKNN!net, RKNN!given, RKNN!own,
            ownNNIE, memory, object, inference, ownTengine, RKNN!InitEnds,
            RKNN!InitReturns, RKNN!Return, RKNN!GoesWrong, Calls, Creating
<1>1. CASE RKNN!ReadModel
  BY <1>1 DEF RKNN!ReadModel, Places, IE_ERR_CODE
<1>2. CASE RKNN!InitContext
  BY <1>2 DEF RKNN!InitContext, Places, IE_ERR_CODE
<1>3. CASE RKNN!GetInputAttr
  BY <1>3 DEF RKNN!GetInputAttr, Places, IE_ERR_CODE
<1>4. CASE RKNN!GetOutputNumber
  BY <1>4 DEF RKNN!GetOutputNumber, Places, IE_ERR_CODE
<1>5. CASE RKNN!GetOutputAttr
  BY <1>5 DEF RKNN!GetOutputAttr, RKNN!NewBlob, Places, IE_ERR_CODE
<1>6. CASE RKNN!RunContext
  BY <1>6 DEF RKNN!RunContext, RKNN!RunFails, Places, IE_ERR_CODE
<1>7. CASE RKNN!GetOutputs
  BY <1>7 DEF RKNN!GetOutputs, RKNN!RunFails, Places, IE_ERR_CODE
<1>8. CASE RKNN!CopyOutputs
  BY <1>8 DEF RKNN!CopyOutputs, RKNN!RunSucceeds, Places, IE_ERR_CODE
<1>9. CASE RKNN!Release
  <2>1. RKNN!GoesWrong \/ UNCHANGED RKNN!base
    BY <1>9, Zenon DEF RKNN!Release
  <2>2. QED
    BY <2>1
<1>10. ASSUME NEW img \in RKNN!Images, RKNN!Run(img)
      PROVE  Calls'
  BY <1>10
     DEF RKNN!Run, RKNN!RunRefused, RKNN!Begin, Places, IE_ERR_CODE,
         RKNN!Preprocess
<1>11. CASE RKNN!Destroy
  BY <1>11 DEF RKNN!Destroy, RKNN!DestroyEngine, Places, IE_ERR_CODE
<1>12. QED
  BY <1>1, <1>2, <1>3, <1>4, <1>5, <1>6, <1>7, <1>8, <1>9, <1>10, <1>11, Zenon
     DEF RKNN!Next, RKNN!CreateStep, RKNN!RunStep

\* Lemma: how far create_engine got with the fields of IE_Engine.
LEMMA RknnNetInv ==
    ASSUME Net, NetInv, Calls, RknnInv, RKNN!Next, UNCHANGED <<ownNNIE,
           ownTengine>>
    PROVE  NetInv'
<1> USE DEF RKNN!base, RKNN!setting, RKNN!call, RKNN!net, RKNN!given, RKNN!own,
            ownNNIE, memory, object, inference, ownTengine, RKNN!InitEnds,
            RKNN!InitReturns, RKNN!Return, RKNN!GoesWrong, NetInv
<1>1. CASE RKNN!ReadModel
  BY <1>1, Shape DEF RKNN!ReadModel, Calls, Creating, NoShape, RknnInv
<1>2. CASE RKNN!InitContext
  BY <1>2 DEF RKNN!InitContext
<1>3. CASE RKNN!GetInputAttr
  BY <1>3 DEF RKNN!GetInputAttr, RknnInv, Calls, Creating
<1>4. CASE RKNN!GetOutputNumber
  BY <1>4 DEF RKNN!GetOutputNumber, RknnInv, Calls, Creating
<1>5. CASE RKNN!GetOutputAttr
  <2>1. CASE RKNN!InitEnds("output") /\ UNCHANGED m_outputs
    BY <1>5, <2>1 DEF RKNN!GetOutputAttr
  <2>2. CASE /\ m_outputs' = m_outputs + 1
             /\ m_output_blobs' = Append(m_output_blobs, RKNN!NewBlob(m_outputs'))
             /\ IF m_outputs' = m_output_num THEN RKNN!InitReturns("success")
                ELSE UNCHANGED RKNN!call
             /\ UNCHANGED <<model, m_input_shape, m_output_num, outputs, runs>>
    <3>1. pc = "outputs" /\ model \in Models /\ m_input_shape = model.in
      BY <1>5 DEF RKNN!GetOutputAttr, RknnInv
    <3>2. m_output_num = Len(model.out)
      BY <3>1, <1>5 DEF RKNN!GetOutputAttr, RknnInv
    <3>3. pc' # "create"
      BY <2>2, <3>1
    <3>4. QED
      BY <2>2, <3>1, <3>2, <3>3
  <2>3. QED
    BY <1>5, <2>1, <2>2 DEF RKNN!GetOutputAttr
<1>6. CASE RKNN!RunContext
  BY <1>6 DEF RKNN!RunContext, RKNN!RunFails
<1>7. CASE RKNN!GetOutputs
  BY <1>7 DEF RKNN!GetOutputs, RKNN!RunFails
<1>8. CASE RKNN!CopyOutputs
  BY <1>8 DEF RKNN!CopyOutputs, RKNN!RunSucceeds
<1>9. CASE RKNN!Release
  BY <1>9 DEF RKNN!Release, RKNN!MayRelease
<1>10. ASSUME NEW img \in RKNN!Images, RKNN!Run(img)
      PROVE  NetInv'
  BY <1>10 DEF RKNN!Run, RKNN!RunRefused, RKNN!Begin
<1>11. CASE RKNN!Destroy
  BY <1>11 DEF RKNN!Destroy, RKNN!DestroyEngine, RKNN!NoShape
<1>12. QED
  BY <1>1, <1>2, <1>3, <1>4, <1>5, <1>6, <1>7, <1>8, <1>9, <1>10, <1>11, Zenon
     DEF RKNN!Next, RKNN!CreateStep, RKNN!RunStep

\* Lemma: the context and the outputs at each stage of init and run.
LEMMA RknnStages ==
    ASSUME Numbers, Net, NetInv, Calls, RknnInv, RKNN!Next, UNCHANGED <<ownNNIE,
           ownTengine>>
    PROVE  RknnInv'
<1> USE DEF RKNN!base, RKNN!setting, RKNN!call, RKNN!net, RKNN!given, RKNN!own,
            ownNNIE, memory, object, inference, ownTengine, RKNN!InitEnds,
            RKNN!InitReturns, RKNN!Return, RKNN!GoesWrong, RknnInv, RKNN!Alive
<1>1. CASE RKNN!ReadModel
  BY <1>1 DEF RKNN!ReadModel, Calls, Creating, NetInv
<1>2. CASE RKNN!InitContext
  BY <1>2 DEF RKNN!InitContext, Calls, Creating
<1>3. CASE RKNN!GetInputAttr
  BY <1>3 DEF RKNN!GetInputAttr, Calls, Creating
<1>4. CASE RKNN!GetOutputNumber
  BY <1>4, ModelParts DEF RKNN!GetOutputNumber, Calls, Creating, Junk
<1>5. CASE RKNN!GetOutputAttr
  <2>0. /\ pc = "outputs" /\ model \in Models /\ m_input_shape = model.in /\ m_ctx = "open"
        /\ UNCHANGED <<m_ctx, careful>> /\ init_code = "none" /\ m_outputs # Junk
        /\ m_output_num = Len(model.out) /\ m_outputs \in Nat /\ m_outputs < m_output_num
    BY <1>5 DEF RKNN!GetOutputAttr, Calls, Creating
  <2>4. m_output_num \in Nat
    BY <2>0, ModelParts
  <2>1. CASE RKNN!InitEnds("output") /\ UNCHANGED m_outputs
    BY <2>0, <2>1
  <2>2. CASE /\ m_outputs' = m_outputs + 1
             /\ m_output_blobs' = Append(m_output_blobs, RKNN!NewBlob(m_outputs'))
             /\ IF m_outputs' = m_output_num THEN RKNN!InitReturns("success")
                ELSE UNCHANGED RKNN!call
             /\ UNCHANGED <<model, m_input_shape, m_output_num, outputs, runs>>
    <3>1. m_outputs' \in Nat /\ m_outputs' # Junk /\ m_outputs' <= m_output_num
      BY <2>0, <2>2, <2>4 DEF Junk
    <3>2. CASE m_outputs' = m_output_num
      BY <2>0, <2>2, <3>1, <3>2
    <3>3. CASE m_outputs' # m_output_num
      <4>1. m_outputs' < m_output_num
        BY <2>4, <3>1, <3>3
      <4>2. QED
        BY <2>0, <2>2, <3>1, <3>3, <4>1
    <3>4. QED BY <3>2, <3>3
  <2>3. QED
    BY <1>5, <2>1, <2>2 DEF RKNN!GetOutputAttr
<1>6. CASE RKNN!RunContext
  BY <1>6 DEF RKNN!RunContext, RKNN!RunFails
<1>7. CASE RKNN!GetOutputs
  <2>1. CASE RKNN!GoesWrong /\ UNCHANGED <<m_ctx, m_outputs, bufs>>
    BY <1>7, <2>1 DEF RKNN!GetOutputs
  <2>2. CASE /\ UNCHANGED <<careful, init_code, model, m_input_shape, m_output_num,
                            m_output_blobs, runs, m_ctx, m_outputs>>
             /\ m_outputs = m_output_num /\ m_outputs # RKNN!Junk
             /\ pc' \in {"idle", "copy"} /\ (pc' = "copy" => bufs' = runs)
    <3>1. m_outputs # Junk
      BY <2>2 DEF RKNN!Junk, Junk
    <3>2. QED
      BY <1>7, <2>2, <3>1 DEF RKNN!GetOutputs
  <2>3. QED
    BY <1>7, <2>1, <2>2 DEF RKNN!GetOutputs, RKNN!RunFails
<1>8. CASE RKNN!CopyOutputs
  BY <1>8 DEF RKNN!CopyOutputs, RKNN!RunSucceeds
<1>9. CASE RKNN!Release
  BY <1>9 DEF RKNN!Release, RKNN!MayRelease
<1>10. ASSUME NEW img \in RKNN!Images, RKNN!Run(img)
      PROVE  RknnInv'
  <2>1. /\ pc = "idle"
        /\ UNCHANGED <<init_code, model, m_input_shape, m_output_num, m_output_blobs, m_ctx,
                       m_outputs, bufs, careful>>
        /\ pc' \in {"idle", "run"}
    BY <1>10 DEF RKNN!Run, RKNN!RunRefused, RKNN!Begin
  <2>2. ASSUME pc' = "run"
        PROVE  m_ctx = "open" /\ runs' > 0 /\ (careful => init_code = "success")
    <3>1. RKNN!Begin(img, RKNN!Alive) /\ RKNN!SetsInputs(img) /\ runs' = runs + 1
      BY <1>10, <2>1, <2>2 DEF RKNN!Run, RKNN!RunRefused
    <3>2. QED BY <3>1, MaxRunsAssumption DEF RKNN!SetsInputs, RKNN!Begin, Numbers
  <2>3. QED
    BY <2>1, <2>2
<1>11. CASE RKNN!Destroy
  BY <1>11 DEF RKNN!Destroy, RKNN!DestroyEngine, RKNN!NoShape, RKNN!Junk, Junk
<1>12. QED
  BY <1>1, <1>2, <1>3, <1>4, <1>5, <1>6, <1>7, <1>8, <1>9, <1>10, <1>11, Zenon
     DEF RKNN!Next, RKNN!CreateStep, RKNN!RunStep

\* Lemma: the blobs it has so far, and those that no result fits into.
LEMMA RknnPlaces ==
    ASSUME Numbers, Net, Calls, RknnInv, PlacesInv, RKNN!Next,
           UNCHANGED <<ownNNIE, ownTengine>>
    PROVE  PlacesInv'
<1> USE DEF RKNN!base, RKNN!setting, RKNN!call, RKNN!net, RKNN!given, RKNN!own,
            ownNNIE, memory, object, inference, ownTengine, RKNN!InitEnds,
            RKNN!InitReturns, RKNN!Return, RKNN!GoesWrong, PlacesInv
<1>1. CASE RKNN!ReadModel
  <2>1. m_output_blobs = <<>> /\ m_outputs = Junk
    BY <1>1 DEF RKNN!ReadModel, RknnInv
  <2>2. UNCHANGED <<m_output_blobs, m_outputs>>
    BY <1>1 DEF RKNN!ReadModel
  <2>3. QED
    BY <2>1, <2>2
<1>2. CASE RKNN!InitContext
  BY <1>2 DEF RKNN!InitContext
<1>3. CASE RKNN!GetInputAttr
  BY <1>3 DEF RKNN!GetInputAttr, RknnInv, Calls, Creating
<1>4. CASE RKNN!GetOutputNumber
  <2>1. m_output_blobs = <<>> /\ m_outputs = Junk
    BY <1>4 DEF RKNN!GetOutputNumber, RknnInv
  <2>2. m_output_blobs' = m_output_blobs /\ m_outputs' \in {m_outputs, 0}
    BY <1>4 DEF RKNN!GetOutputNumber
  <2>3. QED
    BY <2>1, <2>2
<1>5. CASE RKNN!GetOutputAttr
  <2>1. CASE RKNN!InitEnds("output") /\ UNCHANGED m_outputs
    BY <2>1
  <2>2. CASE /\ m_outputs' = m_outputs + 1 /\ model' = model
             /\ m_output_blobs' = Append(m_output_blobs, RKNN!NewBlob(m_outputs'))
    <3>1. m_outputs \in Nat /\ Len(m_output_blobs) = m_outputs
      BY <1>5 DEF RKNN!GetOutputAttr, RknnInv
    <3>2. Len(m_output_blobs') = m_outputs'
      BY <2>2, <3>1 DEF Net
    <3>3. \A i \in DOMAIN m_output_blobs' :
              \/ i \in DOMAIN m_output_blobs /\ m_output_blobs'[i] = m_output_blobs[i]
              \/ m_output_blobs'[i] = RKNN!NewBlob(m_outputs')
      BY <2>2 DEF Net
    <3>4. RKNN!NewBlob(m_outputs').data = 0
      BY DEF RKNN!NewBlob
    <3>5. QED
      BY <2>2, <3>2, <3>3, <3>4
  <2>3. QED
    BY <1>5, <2>1, <2>2 DEF RKNN!GetOutputAttr
<1>6. CASE RKNN!RunContext
  BY <1>6 DEF RKNN!RunContext, RKNN!RunFails
<1>7. CASE RKNN!GetOutputs
  BY <1>7 DEF RKNN!GetOutputs, RKNN!RunFails
<1>8. CASE RKNN!CopyOutputs
  <2>1. CASE RKNN!GoesWrong /\ UNCHANGED RKNN!own
    BY <2>1
  <2>2. CASE RKNN!RunSucceeds(bufs, WholeOutputs) /\ UNCHANGED RKNN!own
    <3>1. /\ Len(m_output_blobs') = Len(m_output_blobs)
          /\ DOMAIN m_output_blobs' = DOMAIN m_output_blobs
          /\ \A i \in DOMAIN m_output_blobs :
                 i \notin WholeOutputs => m_output_blobs'[i] = m_output_blobs[i]
      BY <2>2, Filled DEF RKNN!RunSucceeds, Numbers, Net
    <3>2. UNCHANGED <<m_outputs, model>>
      BY <2>2 DEF RKNN!RunSucceeds
    <3>3. QED
      BY <3>1, <3>2 DEF WholeOutputs
  <2>3. QED
    BY <1>8, <2>1, <2>2 DEF RKNN!CopyOutputs, WholeOutputs
<1>9. CASE RKNN!Release
  BY <1>9 DEF RKNN!Release, RKNN!MayRelease
<1>10. ASSUME NEW img \in RKNN!Images, RKNN!Run(img)
      PROVE  PlacesInv'
  BY <1>10 DEF RKNN!Run, RKNN!RunRefused, RKNN!Begin
<1>11. CASE RKNN!Destroy
  BY <1>11 DEF RKNN!Destroy, RKNN!DestroyEngine, RKNN!Junk, Junk
<1>12. QED
  BY <1>1, <1>2, <1>3, <1>4, <1>5, <1>6, <1>7, <1>8, <1>9, <1>10, <1>11, Zenon
     DEF RKNN!Next, RKNN!CreateStep, RKNN!RunStep

\* Lemma: what goes wrong for a careful caller.
LEMMA RknnDefined ==
    ASSUME Net, NetInv, Calls, RknnInv, Flags, board = "rv", ~undefined,
           RKNN!Next, UNCHANGED <<ownNNIE, ownTengine>>
    PROVE  DefinedForCareful'
<1> USE DEF RKNN!base, RKNN!setting, RKNN!call, RKNN!net, RKNN!given, RKNN!own,
            ownNNIE, memory, object, inference, ownTengine, RKNN!InitEnds,
            RKNN!InitReturns, RKNN!Return, RKNN!GoesWrong, DefinedForCareful,
            RKNN!Trap, RKNN!Alive
<1>1. CASE RKNN!ReadModel
  BY <1>1 DEF RKNN!ReadModel
<1>2. CASE RKNN!InitContext
  BY <1>2 DEF RKNN!InitContext
<1>3. CASE RKNN!GetInputAttr
  BY <1>3 DEF RKNN!GetInputAttr
<1>4. CASE RKNN!GetOutputNumber
  BY <1>4 DEF RKNN!GetOutputNumber
<1>5. CASE RKNN!GetOutputAttr
  BY <1>5 DEF RKNN!GetOutputAttr, RKNN!NewBlob
<1>6. CASE RKNN!RunContext
  BY <1>6 DEF RKNN!RunContext, RKNN!RunFails
<1>7. CASE RKNN!GetOutputs
  <2>1. CASE RKNN!GoesWrong /\ (m_outputs # m_output_num \/ m_outputs = RKNN!Junk)
    BY <1>7, <2>1 DEF RKNN!GetOutputs, RknnInv, RKNN!Junk, Junk
  <2>2. CASE undefined' = undefined
    BY <2>2
  <2>3. QED
    BY <1>7, <2>1, <2>2 DEF RKNN!GetOutputs, RKNN!RunFails
<1>8. CASE RKNN!CopyOutputs
  <2>1. CASE RKNN!GoesWrong /\ \E i \in DOMAIN model.out : RKNN!Overflows(model.out[i])
    <3>1. pc = "copy"
      BY <1>8 DEF RKNN!CopyOutputs
    <3>2. UNCHANGED <<board, normalise, pc, model, m_input_shape>>
      BY <2>1
    <3>3. QED
      BY <2>1, <3>1, <3>2
  <2>2. CASE undefined' = undefined
    BY <2>2
  <2>3. QED
    BY <1>8, <2>1, <2>2 DEF RKNN!CopyOutputs, RKNN!RunSucceeds
<1>9. CASE RKNN!Release
  <2>1. CASE /\ RKNN!GoesWrong
             /\ ~RKNN!Alive \/ m_outputs # m_output_num \/ m_outputs = RKNN!Junk
    BY <1>9, <2>1 DEF RKNN!Release, RKNN!MayRelease, RknnInv, RKNN!Junk, Junk
  <2>2. CASE undefined' = undefined
    BY <2>2
  <2>3. QED
    BY <1>9, <2>1, <2>2 DEF RKNN!Release
<1>10. ASSUME NEW img \in RKNN!Images, RKNN!Run(img)
      PROVE  DefinedForCareful'
  <2>1. CASE RKNN!GoesWrong /\ ~RKNN!SetsInputs(img) /\ RKNN!Begin(img, RKNN!Alive)
             /\ RKNN!Preprocess(img) = "fine"
    <3>1. ASSUME careful PROVE RKNN!Trap
      <4>1. pc = "idle" /\ img = m_input_shape.c /\ RKNN!Alive
        BY <2>1, <3>1 DEF RKNN!Begin
      <4>2. CASE RKNN!WritesPastBlob(img)
        BY <4>1, <4>2 DEF RKNN!WritesPastBlob
      <4>3. RKNN!BlobHolds(img) >= RKNN!InputNeeds(RKNN!ElemSize)
        BY <4>1, <1>10 DEF RKNN!BlobHolds, RKNN!InputNeeds, RKNN!Images, RKNN!ElemSize
      <4>4. QED
        BY <2>1, <4>1, <4>2, <4>3 DEF RKNN!SetsInputs
    <3>2. RKNN!Trap => RKNN!Trap'
      BY <2>1 DEF RKNN!Normalises
    <3>3. QED BY <2>1, <3>1, <3>2
  <2>2. CASE undefined' = undefined
    BY <2>2
  <2>3. QED
    BY <1>10, <2>1, <2>2 DEF RKNN!Run, RKNN!RunRefused
<1>11. CASE RKNN!Destroy
  BY <1>11 DEF RKNN!Destroy, RKNN!DestroyEngine
<1>12. QED
  BY <1>1, <1>2, <1>3, <1>4, <1>5, <1>6, <1>7, <1>8, <1>9, <1>10, <1>11, Zenon
     DEF RKNN!Next, RKNN!CreateStep, RKNN!RunStep

\* Lemma: the engine of this platform can answer while its context is open.
LEMMA RknnAlive ==
    ASSUME board = "rv", board' = board
    PROVE  (AliveEngine <=> m_ctx = "open") /\ (AliveEngine' <=> m_ctx' = "open")
BY DEF AliveEngine, RKNN!Alive

\* Lemma: each step of EngineRKNN is one of the contract, or none.
LEMMA RknnContract ==
    ASSUME Numbers, Net, NetInv, Calls, RknnInv, PlacesInv, board = "rv",
           ~undefined, RKNN!Next, UNCHANGED <<ownNNIE, ownTengine>>
    PROVE  KeepsContract
<1> USE DEF RKNN!base, RKNN!setting, RKNN!call, RKNN!net, RKNN!given, RKNN!own,
            ownNNIE, memory, object, inference, ownTengine, RKNN!InitEnds,
            RKNN!InitReturns, RKNN!Return, RKNN!GoesWrong
<1>1. CASE RKNN!ReadModel
  <2>1. /\ Creating /\ runs' = runs /\ answer' = answer
        /\ InAnyCall' => init_code' # "success" /\ pc' # "gone"
    BY <1>1 DEF RKNN!ReadModel, Creating, InAnyCall, Calls, Places
  <2>2. QED BY <2>1, CreateKeeps
<1>2. CASE RKNN!InitContext
  <2>1. /\ Creating /\ runs' = runs /\ answer' = answer
        /\ InAnyCall' => init_code' # "success" /\ pc' # "gone"
    BY <1>2 DEF RKNN!InitContext, Creating, InAnyCall, Calls, Places
  <2>2. QED BY <2>1, CreateKeeps
<1>3. CASE RKNN!GetInputAttr
  <2>1. /\ Creating /\ runs' = runs /\ answer' = answer
        /\ InAnyCall' => init_code' # "success" /\ pc' # "gone"
    BY <1>3 DEF RKNN!GetInputAttr, Creating, InAnyCall, Calls, Places
  <2>2. QED BY <2>1, CreateKeeps
<1>4. CASE RKNN!GetOutputNumber
  <2>1. /\ Creating /\ runs' = runs /\ answer' = answer
        /\ InAnyCall' => init_code' # "success" /\ pc' # "gone"
    BY <1>4 DEF RKNN!GetOutputNumber, Creating, InAnyCall, Calls, Places
  <2>2. QED BY <2>1, CreateKeeps
<1>5. CASE RKNN!GetOutputAttr
  <2>1. /\ Creating /\ runs' = runs /\ answer' = answer
        /\ InAnyCall' => init_code' # "success" /\ pc' # "gone"
    BY <1>5 DEF RKNN!GetOutputAttr, RKNN!NewBlob, Creating, InAnyCall, Calls, Places
  <2>2. QED BY <2>1, CreateKeeps
<1>6. CASE RKNN!RunContext
  <2>1. /\ pc \notin {"idle", "gone"} /\ runs' = runs /\ answer' = answer
        /\ UNCHANGED <<board, init_code, model, m_ctx>> /\ pc' # "gone"
        /\ pc' = "idle" => code' # "success"
    BY <1>6 DEF RKNN!RunContext, RKNN!RunFails
  <2>2. runs > 0
    BY <1>6 DEF RKNN!RunContext, RknnInv
  <2>3. QED BY <2>1, <2>2, RunKeeps, RknnAlive
<1>7. CASE RKNN!GetOutputs
  <2>1. /\ pc \notin {"idle", "gone"} /\ runs' = runs /\ answer' = answer
        /\ UNCHANGED <<board, init_code, model, m_ctx>> /\ pc' # "gone"
        /\ pc' = "idle" => code' # "success"
    BY <1>7 DEF RKNN!GetOutputs, RKNN!RunFails
  <2>2. runs > 0
    BY <1>7 DEF RKNN!GetOutputs, RknnInv
  <2>3. QED BY <2>1, <2>2, RunKeeps, RknnAlive
<1>8. CASE RKNN!CopyOutputs
  <2>1. pc = "copy" /\ runs > 0 /\ bufs = runs /\ m_ctx = "open" /\ init_code = "success"
    BY <1>8 DEF RKNN!CopyOutputs, RknnInv, RKNN!Alive, Net
  <2>2. CASE RKNN!GoesWrong /\ UNCHANGED RKNN!own
    BY <2>1, <2>2, RunKeeps, RknnAlive
  <2>3. CASE RKNN!RunSucceeds(bufs, WholeOutputs) /\ UNCHANGED RKNN!own
    <3>1. /\ runs' = runs /\ pc' = "idle" /\ code' = "success"
          /\ UNCHANGED <<board, init_code, model, m_ctx>>
      BY <2>1, <2>3 DEF RKNN!RunSucceeds
    <3>2. Can /\ Can'
      BY <2>1, <3>1, RknnAlive DEF Can
    <3>3. Gives <=> \A i \in DOMAIN model.out : RKNN!Whole(model.out[i])
      BY <2>1 DEF Gives, AnswersAtAll
    <3>4. answer' = IF Gives THEN runs ELSE 0
      BY <1>8, <2>1, <2>3, <3>3, RknnAnswers
    <3>5. QED BY <2>1, <3>1, <3>2, <3>4, AnswerKeeps
  <2>4. QED
    BY <1>8, <2>2, <2>3 DEF RKNN!CopyOutputs, WholeOutputs
<1>9. CASE RKNN!Release
  <2>1. /\ pc \in {"idle", "gone"} /\ pc' \in {"idle", "gone"}
        /\ runs' = runs /\ answer' = answer
        /\ UNCHANGED <<board, code, init_code, model>> /\ (m_ctx' = "open" => m_ctx = "open")
    BY <1>9 DEF RKNN!Release, RKNN!MayRelease, RKNN!Alive
  <2>2. QED BY <2>1, IdleKeeps, RknnAlive
<1>10. ASSUME NEW img \in RKNN!Images, RKNN!Run(img)
      PROVE  KeepsContract
  <2>1. pc = "idle" /\ UNCHANGED <<board, init_code, model, answer, m_ctx>>
    BY <1>10 DEF RKNN!Run, RKNN!RunRefused, RKNN!Begin
  <2>2. CASE RKNN!GoesWrong
    BY <2>1, <2>2, IdleKeeps, RknnAlive
  <2>3. CASE runs' = runs + 1 /\ pc' # "gone" /\ (pc' = "idle" => code' # "success")
    BY <2>1, <2>3, AskKeeps, RknnAlive
  <2>4. QED
    BY <1>10, <2>2, <2>3 DEF RKNN!Run, RKNN!RunRefused, RKNN!Preprocess
<1>11. CASE RKNN!Destroy
  <2>1. /\ pc \in {"idle", "gone"} /\ pc' \in {"idle", "gone"}
        /\ runs' = runs /\ answer' = answer
        /\ UNCHANGED <<board, code, init_code, model>> /\ (m_ctx' = "open" => m_ctx = "open")
    BY <1>11 DEF RKNN!Destroy, RKNN!DestroyEngine
  <2>2. QED BY <2>1, IdleKeeps, RknnAlive
<1>12. QED
  BY <1>1, <1>2, <1>3, <1>4, <1>5, <1>6, <1>7, <1>8, <1>9, <1>10, <1>11, Zenon
     DEF RKNN!Next, RKNN!CreateStep, RKNN!RunStep

-----------------------------------------------------------------------------
(* The API *)

\* What the invariant asks of every engine.
Shared == Flags /\ Numbers /\ Net /\ Fields /\ Calls /\ NetInv

\* Lemma: a step of any engine keeps the invariant.
LEMMA ApiStep == ApiInv /\ [NextApi]_varsApi => ApiInv'
<1> SUFFICES ASSUME ApiInv, [NextApi]_varsApi PROVE ApiInv'
  OBVIOUS
<1>0. Shared
  BY DEF ApiInv, Shared
<1>1. CASE board = "hisi" /\ Next /\ UNCHANGED <<ownTengine, ownRKNN>>
  <2>1. MemoryInv /\ FieldsInv /\ DeviceInv /\ EmptyInv /\ m_outputs = Junk
    BY <1>1 DEF ApiInv, NnieInv
  <2>2. ~undefined
    BY <1>1 DEF Next
  <2>3. board' = board /\ m_outputs' = Junk
    BY <1>1, <2>1, NnieBoard DEF ownRKNN
  <2>4. Flags' /\ Numbers' /\ Net'
    BY <1>0, <1>1, <2>1, NnieFlags, NnieNumbers, NnieNet DEF Shared
  <2>5. Fields' /\ Calls' /\ NetInv'
    BY <1>0, <1>1, <2>1, NnieFields, NnieCalls, NnieNetInv DEF Shared, NnieInv
  <2>6. MemoryInv' /\ FieldsInv' /\ DeviceInv' /\ EmptyInv'
    BY <1>0, <1>1, <2>1, NnieMemory, NnieStages, NnieDevice, NnieEmpty DEF Shared
  <2>7. DefinedForCareful'
    BY <1>0, <1>1, <2>1, <2>2, NnieDefined DEF Shared
  <2>8. QED
    BY <1>1, <2>3, <2>4, <2>5, <2>6, <2>7 DEF ApiInv, NnieInv
<1>2. CASE board \in {"x86", "rk"} /\ Tengine!Next /\ UNCHANGED <<ownNNIE, ownRKNN>>
  <2>1. TengineInv /\ NnieAbsent /\ m_outputs = Junk
    BY <1>2 DEF ApiInv
  <2>2. ~undefined
    BY <1>2 DEF Tengine!Next
  <2>3. board' = board /\ m_outputs' = Junk
    BY <1>2, <2>1, TengineBoard DEF ownRKNN
  <2>4. NnieAbsent'
    BY <1>2, <2>1 DEF NnieAbsent, ownNNIE, memory, object, inference
  <2>5. Flags' /\ Numbers' /\ Net'
    BY <1>0, <1>2, <2>1, TengineFlags, TengineNumbers, TengineNet DEF Shared
  <2>6. Fields' /\ Calls' /\ NetInv'
    BY <1>0, <1>2, <2>1, <2>3, TengineFields, TengineCalls, TengineNetInv DEF Shared
  <2>7. TengineInv' /\ DefinedForCareful'
    BY <1>0, <1>2, <2>1, <2>2, TengineStages, TengineDefined DEF Shared
  <2>8. QED
    BY <1>2, <2>3, <2>4, <2>5, <2>6, <2>7 DEF ApiInv
<1>3. CASE board = "rv" /\ RKNN!Next /\ UNCHANGED <<ownNNIE, ownTengine>>
  <2>1. RknnInv /\ PlacesInv /\ NnieAbsent
    BY <1>3 DEF ApiInv
  <2>2. ~undefined
    BY <1>3 DEF RKNN!Next
  <2>3. board' = board
    BY <1>3, RknnBoard
  <2>4. NnieAbsent'
    BY <1>3, <2>1 DEF NnieAbsent, ownNNIE, memory, object, inference
  <2>5. Flags' /\ Numbers' /\ Net'
    BY <1>0, <1>3, <2>1, RknnFlags, RknnNumbers, RknnNet DEF Shared
  <2>6. Fields' /\ Calls' /\ NetInv'
    BY <1>0, <1>3, <2>1, RknnFields, RknnCalls, RknnNetInv DEF Shared
  <2>7. RknnInv' /\ PlacesInv' /\ DefinedForCareful'
    BY <1>0, <1>3, <2>1, <2>2, RknnStages, RknnPlaces, RknnDefined DEF Shared
  <2>8. QED
    BY <1>3, <2>3, <2>4, <2>5, <2>6, <2>7 DEF ApiInv
<1>4. CASE UNCHANGED varsApi
  <2>1. UNCHANGED <<base, ownNNIE, ownTengine, ownRKNN>>
    BY <1>4 DEF varsApi
  <2>2. /\ UNCHANGED <<board, normalise, careful, pc, code, init_code, model>>
        /\ UNCHANGED <<m_input_shape, m_output_num, m_output_blobs, runs, answer, outputs>>
        /\ UNCHANGED <<undefined, g_is_init, m_graph, tensors, m_ctx, m_outputs, bufs>>
    BY <2>1 DEF base, setting, call, net, given, ownTengine, ownRKNN
  <2>3. /\ UNCHANGED <<buf, mmz, m_dst_blobs, loaded, m_fw_ctrl, m_is_tb_added>>
        /\ UNCHANGED <<registered, files, flushed, src, results, nTimeOut, device, corrupt>>
    BY <2>1 DEF ownNNIE, memory, object, inference
  <2>4. (Flags /\ Numbers /\ Net)' = (Flags /\ Numbers /\ Net)
    BY <2>2, <2>3 DEF Flags, Numbers, Net
  <2>5. (Fields /\ Calls /\ NetInv)' = (Fields /\ Calls /\ NetInv)
    BY <2>2, <2>3 DEF Fields, Calls, NetInv, Creating
  <2>6. MemoryInv' = MemoryInv /\ DeviceInv' = DeviceInv
    BY <2>2, <2>3
       DEF MemoryInv, DeviceInv, Owned, Kept, Released, Creating, Alive, InUse
  <2>7. FieldsInv' = FieldsInv /\ NnieAbsent' = NnieAbsent
    BY <2>2, <2>3 DEF FieldsInv, NnieAbsent, Preparing, Alive, HaveMemory, ReleaseReturnsAll
  <2>8. TengineInv' = TengineInv /\ RknnInv' = RknnInv
    BY <2>2, <2>3 DEF TengineInv, RknnInv, Tengine!Alive, RKNN!Alive
  <2>9. DefinedForCareful' = DefinedForCareful
    BY <2>2, <2>3 DEF DefinedForCareful, Trap, Tengine!Trap, RKNN!Trap, Tengine!Normalises,
                     RKNN!Normalises
  <2>10. EmptyInv' = EmptyInv /\ PlacesInv' = PlacesInv
    BY <2>2, <2>3 DEF EmptyInv, PlacesInv
  <2>11. QED
    BY <2>2, <2>4, <2>5, <2>6, <2>7, <2>8, <2>9, <2>10 DEF ApiInv, NnieInv
<1>5. QED
  BY <1>1, <1>2, <1>3, <1>4 DEF NextApi

\* Lemma: the invariant holds whenever the API is used.
LEMMA ApiAlways == SafeSpecApi => []ApiInv
BY ApiInit, ApiStep, PTL DEF SafeSpecApi

\* The fields of all engines have their types (ie_engine.hpp, engine_*.hpp).
THEOREM TypesCorrect == SafeSpecApi => []TypesOK
<1>1. ApiInv => TypesOK
  <2> SUFFICES ASSUME ApiInv PROVE TypesOK
    OBVIOUS
  <2>1. Flags /\ Numbers /\ Net /\ Fields /\ Calls
    BY DEF ApiInv
  <2>2. 0 .. runs \subseteq 0 .. MaxRuns
    BY <2>1, MaxRunsAssumption DEF Numbers
  <2>3. runs \in 0 .. MaxRuns /\ {answer, src, results, tensors, bufs} \subseteq 0 .. MaxRuns
    BY <2>1, <2>2 DEF Numbers
  <2>4. device \in Seq(1 .. MaxRuns) /\ Len(device) <= MaxRuns
    BY <2>1, MaxRunsAssumption DEF Numbers
  <2>5. BaseTypeOK
    BY <2>1, <2>3 DEF BaseTypeOK, Flags, Net, Calls
  <2>6. TypeOK
    <3>1. /\ m_fw_ctrl \in BOOLEAN /\ registered \in BOOLEAN
          /\ flushed \in BOOLEAN /\ corrupt \in BOOLEAN
      BY <2>1 DEF Flags
    <3>2. files \in 0 .. 1 /\ nTimeOut \in 0 .. TimeOutLimit + 1
      BY <2>1 DEF Numbers
    <3>3. QED
      BY <2>1, <2>3, <2>4, <2>5, <3>1, <3>2, Zenon DEF TypeOK, Fields
  <2>7. Tengine!TypeOK
    BY <2>1, <2>3 DEF Tengine!TypeOK, Flags, Fields
  <2>8. RKNN!TypeOK
    BY <2>1, <2>3 DEF RKNN!TypeOK, Fields, Junk, RKNN!Junk
  <2>9. QED BY <2>6, <2>7, <2>8 DEF TypesOK
<1>2. QED BY <1>1, ApiAlways, PTL

\* A caller that heeds return codes meets undefined behaviour in four places
\* only, whatever the model: without memory for the model file (hisi, rv), with a
\* model of several inputs (hisi), with an image that is normalised and has fewer
\* than three channels or is not and must become floats (x86, rk, rv), and with an
\* output whose buffer is larger than its blob (rv).
THEOREM CarefulIsDefined == SafeSpecApi => []DefinedForCareful
<1>1. ApiInv => DefinedForCareful
  BY DEF ApiInv
<1>2. QED BY <1>1, ApiAlways, PTL

\* However far init gets, the address of what it has allocated is in a field that
\* release frees, unless a cache could not be flushed; it is lost if the engine is
\* destroyed before it was released, and only then (engine_nnie.cpp:260-284,
\* 331-387, 428-463, ie_engine.hpp:35-38).
THEOREM MemoryOwned == SafeSpecApi => []Owned
<1>1. ApiInv => Owned
  BY DEF ApiInv, NnieInv, MemoryInv, NnieAbsent, Owned
<1>2. QED BY <1>1, ApiAlways, PTL

\* release after a successful init gives everything back
\* (engine_nnie.cpp:629-643).
THEOREM AllReturned == SafeSpecApi => []ReleaseReturnsAll
<1>1. ApiInv => ReleaseReturnsAll
  BY DEF ApiInv, NnieInv, FieldsInv, NnieAbsent, ReleaseReturnsAll
<1>2. QED BY <1>1, ApiAlways, PTL

\* After a run that ended in IE_SUCCESS the accelerator does not work on memory
\* given back, and if no flush failed the results are those of the image just
\* given (engine_nnie.cpp:572-601, 607, 629-643).
THEOREM SuccessIsSafe == SafeSpecApi => []SafeAfterSuccess
<1>1. ApiInv => SafeAfterSuccess
  BY DEF ApiInv, NnieInv, DeviceInv, NnieAbsent, SafeAfterSuccess
<1>2. QED BY <1>1, ApiAlways, PTL

\* Whatever the input of the model, if its width is a multiple of 16 the image
\* reaches the accelerator (engine_nnie.cpp:327, 572).
THEOREM InputTaken == SafeSpecApi => []AlignedInputExact
<1>1. ApiInv => AlignedInputExact
  <2> SUFFICES ASSUME ApiInv PROVE AlignedInputExact
    OBVIOUS
  <2>1. model.in \in Shapes
    BY ModelParts DEF ApiInv, Net, NoModel, NoShape, Shapes, IE_Shape
  <2>2. QED BY <2>1, InputOfAlignedShape DEF AlignedInputExact
<1>2. QED BY <1>1, ApiAlways, PTL

\* Each engine keeps the safety part of the contract: a success, of an engine whose
\* init succeeded and that nobody has released, hands out the values of the image
\* just given in every output if the engine has places for them, and none if it
\* has not, which is always so of EngineNNIE; a failure leaves the answers alone
\* (engine_nnie.cpp:550-622, engine_tengine.cpp:111-143, engine_rknn.cpp:160-209).
THEOREM ContractKept == SafeSpecApi => Contract!Init /\ [][Contract!Next]_(Contract!vars)
<1>1. InitApi => Contract!Init
  <2> SUFFICES ASSUME InitApi PROVE Contract!Init
    OBVIOUS
  <2>1. /\ pc = "create" /\ init_code = "none" /\ runs = 0 /\ answer = 0
        /\ undefined = FALSE
    BY DEF InitApi, Init, Tengine!Init, RKNN!Init, InitBase, Tengine!InitBase, RKNN!InitBase
  <2>2. QED BY <2>1 DEF Contract!Init, InAnyCall
<1>2. ApiInv /\ [NextApi]_varsApi => KeepsContract
  <2> SUFFICES ASSUME ApiInv, [NextApi]_varsApi PROVE KeepsContract
    OBVIOUS
  <2>0. Shared
    BY DEF ApiInv, Shared
  <2>1. CASE board = "hisi" /\ Next /\ UNCHANGED <<ownTengine, ownRKNN>>
    <3>1. FieldsInv /\ DeviceInv /\ EmptyInv /\ ~undefined
      BY <2>1 DEF ApiInv, NnieInv, Next
    <3>2. QED BY <2>0, <2>1, <3>1, NnieContract DEF Shared
  <2>2. CASE /\ board \in {"x86", "rk"} /\ Tengine!Next
             /\ UNCHANGED <<ownNNIE, ownRKNN>>
    <3>1. TengineInv /\ ~undefined
      BY <2>2 DEF ApiInv, Tengine!Next
    <3>2. QED BY <2>0, <2>2, <3>1, TengineContract DEF Shared
  <2>3. CASE board = "rv" /\ RKNN!Next /\ UNCHANGED <<ownNNIE, ownTengine>>
    <3>1. RknnInv /\ PlacesInv /\ ~undefined
      BY <2>3 DEF ApiInv, RKNN!Next
    <3>2. QED BY <2>0, <2>3, <3>1, RknnContract DEF Shared
  <2>4. CASE UNCHANGED varsApi
    <3>1. UNCHANGED <<base, ownNNIE, ownTengine, ownRKNN>>
      BY <2>4 DEF varsApi
    <3>2. /\ UNCHANGED <<board, pc, code, init_code, model, runs, answer, undefined>>
          /\ UNCHANGED <<loaded, m_graph, m_ctx>>
      BY <3>1 DEF base, setting, call, net, given, ownNNIE, object, ownTengine, ownRKNN
    <3>3. AliveEngine' <=> AliveEngine
      BY <3>2 DEF AliveEngine, Alive, Tengine!Alive, RKNN!Alive
    <3>4. (InAnyCall' <=> InAnyCall) /\ (Told' <=> Told) /\ (Can' <=> Can)
      BY <3>2, <3>3, Zenon DEF InAnyCall, Told, Can
    <3>5. QED BY <3>2, <3>4, GivesStays, Goes
  <2>5. QED
    BY <2>1, <2>2, <2>3, <2>4 DEF NextApi
<1>3. QED
  BY <1>1, <1>2, ApiAlways, PTL DEF SafeSpecApi, KeepsContract

=============================================================================
