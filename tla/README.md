# A TLA+ development of EdgeService

EdgeService is a C++ program for an edge device: it takes images from cameras,
passes them through a pipeline of node threads, and sends the events they give
rise to up to a server, keeping on disk what cannot be sent.  This directory
models the parts of it that are hard to get right and hard to test, checks them
with TLC on small instances, and proves what TLAPS can prove for all instances.

Paths are those of the repository: its headers are under `include/`, its program
under `src/`, the inference library under `modules/infer_engine/`.

## 1. Inventory

| part | state | operations | interacts by |
|---|---|---|---|
| `Queue<T>` (`include/mgr/QueueManager.h`) | `m_queue_ptr`, `m_not_empty`, `m_not_full`, one mutex, one condition variable | `Push`, `Pop` | shared by all node threads |
| node threads (`RtspLoaderNode`, `DetectorNode`, `MonitorNode`, `DispatchNode`) | a frame in hand, the frame's image | `run` | queues of frames, `MetaData`, events; the image of a shared frame |
| `FlowRpcAsynNode` (`src/node/FlowRpcAsynNode.cpp`) | `m_queue`, `m_fail_queue`, `files`, `success_flag`, data files | `SendToFlowServer`, `run`, `MoveData`, `dump` | called from the dispatch thread; two threads of its own; disk |
| start-up (`ServiceDaemon::Loop`, `SolutionPipeline`, `NodeFactory`) | the lists of executors, the nodes and queues by name | building, `init`, detached threads | main thread and the threads it starts; `ObjectManager` |
| `SafeObjectManager` (`include/mgr/ObjectManager.h`) | objects by name, of queues and of feature pipelines | `SafeAdd`, `SafeGet` | called by the start-up |
| process (`src/app/main.cpp`) | `sys_quit` | signal handler, exit | all threads read `sys_quit` |
| `infer_engine` API (`modules/infer_engine`) | the fields of `IE_Engine`: shapes, blobs, counts | `create_engine`, `run_engine`, `destroy_engine`, `ie_preprocess` | one caller's thread; the engine of the platform |
| NNIE engine | accelerator memory, model, tasks | `init`, `run`, `release` | the caller and the accelerator |
| Tengine and RKNN engines | a graph, or a context and buffers | the same | the caller and the platform's library |
| `ConfigureManager`, `EnvironmentInit` | the configuration | read once | main thread |
| `HttpClient`, logging | none that matters | stubs, output | nobody calls the client |

What is hard here:

* **Concurrency.**  One condition variable for both sides of a queue, notified
  after the unlock; two threads of `FlowRpcAsynNode` that look at queues, a
  vector and a flag without a lock and act later, and swap two queues under one of their two
  mutexes; a frame whose image is filled
  by one thread and released by another; detached threads that capture a local
  variable by reference; an accelerator that works on while the caller has given up.
* **Failure.**  Sends that fail, a process that ends between two steps of a file
  operation, a `remove()` or an open that fails, external calls any of which may fail half way
  through `init`, and in `run` without being noticed.
* **Ordering.**  Two paths from the detector to the dispatcher; files that are to be
  replayed oldest first; nodes that look up queues another loop must have made;
  a pipeline registered after its threads run.
* **Time.**  `sleep(1)` as the only thing that keeps a reference valid; a wait that
  gives up after a few attempts.

What makes each part correct:

* a queue delivers what was pushed, once and in order, and no thread sleeps for
  ever on something that is there;
* the uplink holds every message in exactly one place until it is delivered, lets nothing
  but a missing success keep it waiting, keeps its index of files in order and in agreement
  with the disk;
* the pipeline keeps reporting, logs a frame before it reports it, and its queues
  bound how far the stages are apart;
* the start-up gives every node its queues before a frame enters;
* an engine can give back its memory however far `init` got, every call returns, and what a
  run that succeeds hands to the caller are the results of its own image, whichever platform
  it is.

## 2. Plan

| step | modules | state |
|---|---|---|
| 1. the queue | `BoundedQueue`, `FifoChannel`, `BoundedQueueFifo` (refinement), `BoundedQueueProofs` | modelled, checked, safety proved |
| 2. the uplink, and what it promises | `FlowRpc`, `MCFlowRpc`, `Uplink` (abstract), `FlowRpcProofs`, `UplinkProofs` | modelled, checked, safety proved, the refinement included |
| 3. the pipeline, on the channel the queue implements | `Pipeline`, `MCPipeline`, `PipelineProofs` | modelled, checked, safety proved |
| 4. the start-up | `Bootstrap`, `BootstrapProofs` | modelled, checked, safety proved |
| 5. the engines, the API they share and its contract | `IE_Engine`, `EngineNNIE`, `NnieLayout`, `EngineTengine`, `EngineRKNN`, `InferEngineApi`, `InferEngine` (abstract), `NnieLayoutProofs`, `InferEngineApiProofs` | modelled, checked, safety proved, the contract's included |

`Pipeline` composes the node threads over channels; what entitles it to do so is
the refinement of step 1.  `Pipeline` and `FlowRpc` meet in one call: `Dispatch` of
the former is `SendToFlowServer` of the latter.  Both stand alone because that call
never waits for long (it takes a mutex nobody keeps) and returns nothing that is used.

## 3. The modules and the code

**`BoundedQueue`** - one consumer, any number of producers.  Each thread is
`idle`, `waiting` (in the wait set), `waking` (notified, or woken for no reason, and
back to the mutex) or `notify` (has unlocked and not called `notify_one` yet).
`Push`, `Pop` and their blocking forms are the critical sections, `NotifyOne` the
call after the unlock, `SpuriousWake` a wake-up nobody asked for.  `NotEmptyInit`
is the set of values `m_not_empty` may have to begin with: the constructor does
not set it.  Calling `front()` on an empty `std::queue` sets `undefined` and the
model stops there, as in all modules: nothing is claimed of what comes after.

**`FifoChannel`** is what the queue promises: a sequence that went in, and a prefix
of it that came out.  **`BoundedQueueFifo`** adds these histories to the
queue and states the refinement.

**`FlowRpc`** - three threads: the dispatch thread (`SendToFlowServer`), the node's
own (`rpc`), and the mover (`mpc`).  A step is one call on a queue or on the index, one look at
something shared, or one call of the file system; what is done on the strength of a look comes
in a later step, and so does what follows a call.  `front()` and `pop()` are two steps: `run` holds
`m_qmutex` between them and `MoveData`'s swap takes only `m_fqmutex`, so the swap may come between
(`QFree`, `FqFree` and `QFreeOfReplay` say who holds what).  The index has no mutex at all: copying
its first entry, erasing an entry, removing the file, appending an entry and opening the file are steps, and the
other thread's may fall between any two of them.  `remove()` and the opening of a file may fail
(`DiskMayFail`), and then the code goes on as the code does.  `MoveData` reads `files.begin()`
once more after it erased (line 250), also of an index that is empty then: the process goes on, or ends
(`Exit`).  What `dump()` writes for a record is what `front()` returned, and what it pops may be
another.  A file's content is what has reached the disk: the stream's buffer
is in `ofs` until `close`.  A message is a number, the separator is 0: records have
one length, so `Split`'s use of an offset as a length is modelled as what it does to
records of one length.  `ProcessEnds` keeps the disk and nothing else, `Restart`
starts again with `LoadFileNames`.  Three variables are history and guard nothing: `loaded`,
how many files `LoadFileNames` found, `spilled`, that a record was written to a file, and
`torn`, that a `pop()` took another record than the `front()` before it had returned.
**`Uplink`** is what all this is for while nothing is
spilled: a message is in one of five places (not handed over, in memory, on disk, at
the server, dumped), and moves between them in few ways.  `FlowRpc` maps its
queues, records in hand and files to these places; its steps are excused once `torn`, and at
the one step at which a file that was replayed stays because `remove()` failed (`Stays`).
`sendMessage` as shipped never fails
(`MaxFails = 0`); its commented-out body does, and the retry code is written for it.

**`Pipeline`** - the loops of the four kinds of node over three channels.  A
frame is named by its loader, which owns one and pushes it again and again; `image`
says whether it has an image.  All loaders read the one file the code names
(`readable`); nothing in the program writes it, and an action of the environment may
take it away, after which a loader turns in `reopenCamera`, a turn that changes
nothing and is no step of the model.  `ahead` counts the events handled.

**`Bootstrap`** - the main thread goes through its five loops (global nodes,
features, core nodes, inputs, loaders); a started thread is `pending` until it reads
the reference it was given.  `Refers` says what is behind the reference by then.
`global_data_input_executors_` is an `unordered_map`: it keeps one loader for each
address, the last one built, and lists them in any order (`ReplacedBy`, `NextLoader`).
`SolutionPipelineManager` keeps the first pipeline of a name (`Keeps`); a second one is
destroyed at the end of its turn, with the node its thread may be running (`lost`,
`RunsDestroyed`).

**`IE_Engine`** - what every engine has from its base class and from the API: the
fields, `ie_preprocess` and the calls around `init` and `run`.  A model file holds the shape of its
first input, how many inputs there are, and its outputs, each with as many dimensions as it likes
(`Tensor`); the engines read four of them.  An image is its number
of channels; of the pixels the model keeps how many bytes there are per pixel of the
model's input, which depends on the platform and on mean or std values being given
(`ElemSize`), and whether the normalisation writes past them.  A blob holds the number of the
run its values are from, and `answer` is the run whose values are in all blobs that were handed out, if there is
one (`Answered`).  `DestroyEngine` deletes the fields with the engine.  A `careful` caller
checks the code of `create_engine`, calls `release` once, and hands over images with the
model's channels; any other caller does what it likes.

**`EngineNNIE`**, **`EngineTengine`**, **`EngineRKNN`** - one engine object each.  `init` is a step
for each call of the platform's library or allocation, with its failures, whose
traces stay as they are: `create_engine` returns the engine all the same.  Fields the
constructor leaves alone begin as all zero or all junk, the elements of the array `m_dst_blobs`
are junk when it was allocated, and following junk is undefined.  A field of a deleted engine is `lost`;
what it held is still allocated.
The NNIE accelerator finishes its tasks in order, whenever it likes, or never; `run` does not look
whether the flushes before and after it worked, and where one did not (`flushed`) the accelerator
reads an older image, or the CPU older results.  The other two
libraries answer in the call.  What the calls that free return is looked at nowhere, and they
are taken to work.  **`NnieLayout`** - copies as sets of pairs (offset
written, offset read), one operator for each way `IE_HISI_Dequant` takes, and what
they are for.

**`InferEngineApi`** puts the three side by side, of which the platform has one, as the
preprocessor does in `create_engine`.  **`InferEngine`** is their contract: asked one question
after the other, an engine that came up answers each or fails and keeps its earlier answer; an
answer is to the last question and in everything handed out, if the engine `gives` answers at all;
and every call returns.  The
refinement maps questions to the calls of `run_engine`.  `AnswersAtAll` says which engines give answers: none of
the hisi platform, whose blobs handed out are empty (`engine_outputs`), and an `EngineRKNN` if its
outputs fill their blobs.

`PROJECT.json` maps each definition to its lines.

## 4. The runs

| run | what it asks | bounds |
|---|---|---|
| `queue` | does the queue implement the channel, fairly, and lose no wake-up? | 2 producers, 2 places, 4 objects |
| `queue_flag` | what does the uninitialised flag do? | the same, 3 objects |
| `queue_crowded` | (violated) does back-pressure end with more producers than places? | 3 producers, 2 places |
| `flow_retry` | does it implement `Uplink`, is every message in one place, do looks hold until the calls, when is a record torn, what keeps a message waiting, does the backlog start, do the threads end? | 2 messages, a file of 2, 2 failures, `remove()` and opening may fail, `sys_quit` at any time |
| `flow_disk` | spilling, eviction, failing file calls, process end and restart: the index, its agreement with the disk, what is on disk | 1 message, spill at 1, files of the seconds 1 (one message) and 2 (empty), limit 1, 2 failures, clock to 4, 1 restart |
| `flow_glued` | (violated) is a delivered record one message? | a file of 2 messages |
| `flow_spill_loss` | (violated) does a spill lose nothing? | 5 messages, spill at 2, 4 failures, no file to begin with, no `sys_quit` |
| `pipeline` | balance and order of the events | 2 cameras (symmetric), 2 places |
| `pipeline_live` | how far is the log ahead, does it keep reporting, and does it come to rest after `sys_quit` or without the file? | 1 camera, 2 places, file and `sys_quit` at any time |
| `boot` | queues, order of the loops, references, owners | up to 2 features (known and not), up to 3 inputs of 5 addresses, repetitions included |
| `engine` | does each engine keep the contract; ownership, undefined behaviour, layout | 3 runs, 4 platforms, 8 models |
| `engine_outputs` | (violated) do the outputs hold values? | 1 run |

Why the bounds are enough:

* *Queue.*  The hazards need a full queue with a blocked producer, an empty one
  with a sleeping consumer, and a notification still to be made by each side at
  once: 2 producers and 2 places have all of these; 4 objects fill the queue twice.
  The safety half is proved without bounds anyway.
* *Uplink.*  A record in each of the two queues and one in hand is what
  the races need; a record more would only wait behind these.  `flow_retry` has four: with two
  failures `m_fail_queue` holds a record while `run` and `MoveData` look, swap, take and pop, and
  with the file's two the other queue is filled meanwhile.  Its `SpillAt` is that of the code, 5, which too few
  records reach, so what it shows is about the queues alone.  In
  `flow_disk` `SpillAt` and `MaxFiles` are smaller than in the code (5 and 100) so that a spill and an
  eviction take few records.
  There the earlier process leaves files of the seconds 1 and 2, and the
  clock goes to 4: a spill into the file of the same second, one into a new file, and
  one after the restart, with at most two failed uploads between them.  Two failed
  records and no other are a spill in `flow_spill_loss`: `success_flag` still is as it began.
* *Pipeline.*  `pipeline_live` has one camera because its graph has to be searched for
  cycles; the balance and order that depend on two are in `pipeline`.  2 places for 2 producers is the least the queue refinement
  covers; the second camera matters for the order of two frames in the queues.
* *Start-up.*  Two features and three inputs have a first, a next and a last
  element in each loop.
* *Engine.*  The third run follows two that were given up on.  The models cover
  widths on either side of 4 and of a multiple of 4, sizes on either side of 32, inputs
  with and without padding, one channel, three and four, outputs of
  three, four and five dimensions, a first dimension that is not 1, and a model with two inputs.  Every platform is checked with and without mean and std values.

Deadlock is checked where the system cannot stop (`pipeline`, `queue_crowded`); the
other cfgs say why it may.

### What the violated runs show

* `queue_crowded` - with more producers than places all threads may end up asleep:
  the notification meant for the consumer wakes a producer, which finds the queue
  full and sleeps again.  Ten is the capacity in the program, so eleven inputs are needed.
* `flow_glued` - `Split` passes `substr` an offset where a length belongs: from the second record
  of a file on, records come with what follows them.
* `flow_spill_loss` - a file is in the index before it is written; `MoveData`
  may replay and remove it in between, and what `close()` writes goes nowhere.
* `engine_outputs` - `m_output_blobs` is resized and then appended to; the results
  are converted into the empty blobs in front, and the caller gets no value.

### Other things met, which no run is spent on

* `MoveData`'s swap may come between `front()` and `pop()` of `run`, which holds the other mutex: the
  record in hand is sent, and will be again, and the one popped, which had failed before, is lost
  without a spill (`torn`).  `TornBySwap` says that this is the only way to it before `sys_quit`, and what becomes of the
  record in hand; `ExactlyOnce` and `ImplementsUplink` end there.
* A spill between `MoveData`'s look at `m_fail_queue` and its pop leaves it popping from an
  empty queue, or swapping nothing into `m_queue`, from which `run` then pops (`spilled`, one of
  the two exceptions in `NeverPopsEmpty`; until then neither thread does).
* A file may be on the disk and not in the index, and nothing replays or evicts it before the next
  restart.  `WaysToOrphans` names the three ways: `remove()` fails; a thread erases the first
  entry after the other has erased the one it means; `MoveData` erases an entry whose file `run` has not
  opened yet.  A restart finds the file again; a spill evicts one file
  and no more, so the index may then stay over its limit for good (the second case of
  `IndexBounded`).
* When `remove()` fails after a replay, the file's records are in `m_queue` and on the disk: the next
  process sends them again (`Stays`).
* After it erased the last entry `MoveData` reads `files.begin()` of an empty vector, to print it:
  every replay of the only file does.
* `success_flag` cleared after a replay can undo a success; with nothing new to send the
  rest of the backlog waits for ever.  `BacklogStarts` says the flag is the only reason.  A record
  that failed waits in the same way for another to succeed (`WaitsForSuccessOnly`).
* `dump()` holds no mutex: it can miss a record put in late, write one record and pop
  another, and make the other thread pop from an empty queue (the other exception in
  `NeverPopsEmpty`).
* `StopAll` reaches nodes at the top of their loops only: one asleep in `Pop` or
  `Push` stays there.  `ComesToRest` says that this is all that goes wrong.
* The monitor releases an image the loader may be filling.
* Every loader writes `camera_sns` into its frames, which is the first camera's number
  (`init.cpp:124`, `RtspLoaderNode.cpp:76`): the events of all cameras carry it.  The loader's
  assignment races with the monitor's copy (`MonitorNode.cpp:57`), of the same value each time.
* A usb or rtmp input, or a local video, or an unknown feature ends the start-up in
  undefined behaviour (`BuildUnregistered`, `Unusable`); a late thread may run
  another node than its own.  The properties of `boot` say when neither happens.
* `EngineNNIE` frees `m_model_buf` before it was ever set when there is no memory for
  the model (the exception in `DefinedForCareful`); a flush that fails leaks the
  block just allocated, and `destroy_engine` does not reach
  `EngineNNIE::release`, so that an engine deleted before it was released leaks all it has (the two
  in `Owned`); of a model with several inputs, `run` takes the shapes of all and the memory of one
  (the other exception in `DefinedForCareful`); a flush that fails in `run` goes unnoticed, and the
  call returns `IE_SUCCESS` for older results (`flushed` in `SafeAfterSuccess`); images whose width is not a multiple of 16 reach the
  accelerator skewed (the condition of `AlignedInputExact`); three-channel images are
  refused (`channels() != 1 && channels() == 3`), and a one-channel image for a three-channel
  model makes the copy read past its end.
* `EngineTengine` tells the library of floats; on x86 `ie_preprocess` makes floats only of an
  image it normalises, so without mean and std values bytes are read as floats and past
  their end.  On every platform but hisi three channels are normalised even of a
  one-channel image.  `EngineRKNN` does not look whether the memory for the model is
  there, and copies an output whose buffer is larger than its blob past the blob's end: one whose
  first dimension is not 1, or that has not four dimensions; of a blob that is larger the rest
  stays as it was (`Whole`).
  These are the exceptions of `DefinedForCareful` (`Trap` in each module).
* `EngineTengine` and `EngineRKNN` set `m_output_num` before the outputs are there: run
  after an `init` that failed half way, they read or write what is not.  A careful caller does
  not run them.
* A feature named twice destroys a node under its running thread (the exception in
  `NodeOutlivesThread`); an address named twice costs its first loader, which no thread runs.
* What `MoveData` reads from a file is in memory only as soon as the file is gone; a spill
  into the file of the second that is being replayed goes with it (the exception in
  `StoredUntilReplayed`).

## 5. Fairness

* *Queue.*  The consumer, a thread that is about to notify, and (in `Spec`) a producer that was
  woken go on: the code after a wake-up or an unlock is straight-line.  No fairness for
  an idle producer (nobody must push) and none for spurious wake-ups.  `SpecF` drops the
  producers' fairness too.
* *Uplink.*  Both threads loop with bounded sleeps and hold mutexes for
  bounded times; each has weak fairness.  New messages, signals and process ends are not fair.
* *Pipeline.*  Each node thread has weak fairness only: a thread that can go on and
  then cannot again, because another took the place, is promised nothing.
* *Start-up.*  Some thread runs, as long as one can.  `punctual` is chosen at
  the start: either every thread reads its reference within the `sleep(1)`, or none
  is obliged to.
* *Engines.*  The caller's thread goes on inside a call, and the calls of the host's libraries
  return, with an error or without.  The accelerator owes nothing: `run` gives up on it.

## 6. Proofs

Six modules hold the theorems; each extends the module it is about.  They are about the
specification without its fairness (`SafeSpec`, `SafeSpecApi`), which the specification with it
implies, and for every value of the constants the module's assumptions allow.  Every inductive
invariant was an invariant of a run of TLC on the constants of the module's cfg before it was proved.

### The queue: `BoundedQueueProofs`

For any set of producers, any set of items, any capacity, and any bound on what is pushed:

| theorem | assumptions | says |
|---|---|---|
| `TypeCorrect` | those of the module | types, and never more than `Capacity` objects |
| `FlagTruth`, `NoEmptyPop` | `NotEmptyInit = {FALSE}` | the flag says what `Empty()` says; `front()` never meets an empty queue |
| `NoWakeupLost` | the same, and no more producers than places | `NoLostWakeup` |
| `QueueHoldsDifference`, `QueueImplementsChannel` | those of the module | the refinement of `FifoChannel` (safety) |
| `UndefinedIsEarly` | those of the module | an empty `front()` only before the first `Push` |

`FlagTellsTruth` and `NeverPopsEmpty` are inductive together.  `NoLostWakeup` is
not: from a state with a sleeping consumer, a full queue and a producer asleep, a step would
leave it.  Its strengthening `WakeupInv` counts: while the consumer sleeps no producer does,
and there are no more objects in the queue than producers that are about to
notify; while it is awake, either no producer sleeps or the sleeping producers and the
places together are at most the producers and the objects (one more if the consumer is about
to notify).  A producer that blocks finds the queue full, which with no more producers than
places rules out that the consumer sleeps; a consumer that blocks finds it
empty, which rules out that a producer does.  The cardinalities are those of
`FiniteSetTheorems`.  `UndefinedIsEarly` needs no assumption on the flag: once a `Push`
has written it, it is true.

The refinement maps the channel's two histories to `sent` and `got`; every step is a
step of the channel or a stutter because `sent = got \o m_queue`.

### The uplink: `FlowRpcProofs`

For any number of messages, any limits, any number of failing sends and of restarts:

| theorem | says |
|---|---|
| `TypeCorrect` | the types of the fields, queues, files and threads |
| `OldestFirst` | `FilesAscending`: the first entry of the index is the oldest |
| `LimitHolds` | `IndexBounded`: over the limit by the file being written only, or because `LoadFileNames` found more |
| `WaysToOrphansOnly` | `WaysToOrphans`: how a file comes to be on the disk and not in the index |
| `PopsWhatItSaw` | `NeverPopsEmpty`: before a spill and before `sys_quit`, a look without a lock does not mislead |
| `TornBySwapOnly` | `TornBySwap`: before `sys_quit`, a pop takes another record than `front()` returned only after a swap between them, and the record in hand is in a queue or a hand still |
| `OnePlace` | `ExactlyOnce`: before a spill, in the first process, and as long as each pop takes what `front()` returned, an accepted message is in one place |
| `StoredTillRead` | `StoredUntilReplayed`, if each file of `Backlog` is empty or ends in a separator |

`FlowInv` is `TypeOK` with `Dated` and `Staged`.  `IndexBounded` is not inductive alone:
that the file being opened is the only one too many depends on `run` having evicted one, and
`MoveData` may have erased another in the meantime.  `Staged` says for each place of `run`
how long the index can be: `MoveData` erases at most one entry while `run` is on its way to
evict, because it then clears `success_flag`, which only `run` sets, and not before it has sent
something.  `PopInv` has the queues non-empty where a thread has looked and not popped yet;
it holds because, until a spill or `dump`, only `run` empties `m_queue`, the swap does not, and only
`MoveData` takes from `m_fail_queue`.  `TornInv` follows the record `front()` returned to `run`: it is
the first of `m_queue`, or after a swap of `m_fail_queue`, or `MoveData` has taken it from there and cannot
put it back while `run` has `m_qmutex`.
`WaysToOrphansOnly` goes through the steps: an entry leaves the index only by an erase, a file comes only by
an open, and each of them in its place keeps `NoOrphan` but for the ways named.
`OnceInv` counts the places of every message, those not accepted yet too (0), and says that
no file holds a message of this life; what `Split` makes of an old file then adds none.
`StoredInv` says where what `MoveData` has read of the file it is about to remove is now, unless
the record was torn; it needs whole
files because `Split` drops what follows the last separator.  Its hypothesis is about files
earlier programs left; those this program writes are proved to be whole.

### What the uplink promises: `UplinkProofs`

| theorem | assumptions | says |
|---|---|---|
| `KeepsItsPromise` | `MaxRestarts = 0`, `CutCleanly`, always `RoomToFail` | `ImplementsUplink`, whose steps are excused once `torn` and when a replayed file stays |
| `KeepsItWhenFew` | `MaxRestarts = 0`, `CutCleanly`, `FewMessages` | the same |

`Uplink` is the promise for a process that does not end and writes no file; the assumptions say
just that.  `RoomToFail`: until a record is torn, when `run` looks, `m_fail_queue` is shorter than `SpillAt`, so it neither
evicts nor writes a file.  `CutCleanly`: `Split` puts each message of an old file into one record,
and no two files hold the same message.  It is true of files of one or two whole records; of longer ones it
is not, because `Split` glues (`flow_glued`), and then the server is sent messages twice
and the promise is broken.  `FewMessages` does away with the hypothesis on the behaviour: there are
fewer messages than records in a spill, and no old record is empty.  `flow_retry` meets all three
(two new messages, two old ones, `SpillAt` 5).

`UpInv` has, until a record is torn, the files that are left as they were found (`Steady`), and every message
counted: not handed over, in
memory, at the server, dumped, or in a file not read yet, once in all, and nothing that is no
message anywhere (`OneEach`).  A file that was read and could not be removed (`Left`) counts no more; the mapping
still shows it, which is what `Stays` excuses.  That a step moves messages is `RecordsPass`, from record to record;
`HandedOver`, into the queue; and `ReadBack`, from a file, for which `PlacesSum` counts what two
queues hold.  The refinement then needs no more than where each count is not zero
(`Whereabouts`): what a step takes to the server counts 1 there afterwards, hence 0 in memory.  For
`KeepsItWhenFew`, each failed record has a message of its own (`NoneEmpty`, `OneEach`), so
there are no more of them than messages (`FewRecords`).

### The pipeline: `PipelineProofs`

For any set of cameras and any capacity: `TypeCorrect`, `EventsBalanced`, `LoggedFirst` and
`LagIsBounded`.  The last two speak of events that were handled and are not inductive: what
is in the queue of events decides what `ahead` becomes.  `OrderInv` is a forecast: if the
events in the queue are handled in their order, `ahead` goes through values between 0 and
`Capacity + 2` and ends in the number of frames that are logged and not yet reported, which
are in the monitor's queue or in two hands.  A push of an event extends the forecast at
its end, a pop drops its first value.

### The start-up: `BootstrapProofs`

For any list of features and any list of inputs, in any order, with repetitions:
`TypeCorrect`, `QueuesFound`, `FramesFindNodes`, `FramesFindRunners`, `OwnNode`, `NodesOutlive`.
`BootInv` relates the place of the main thread to what is built (`BuiltInv`), to what is in
`QueueManager` (`QueuesInv`), to the pipelines that are kept and the nodes that are lost
(`OwnersInv`), and to the threads (`ThreadsInv`).  `PunctualInv` says that punctual
threads leave no reference unread but the one just handed out.  `FramesFindRunners` and
`OwnNode` have `punctual` for a hypothesis, as the properties have; the others do not.

### The engines: `NnieLayoutProofs`, `InferEngineApiProofs`

`OutputOfAnyShape` and `InputOfAlignedShape` are about the copies for every width, height and
number of channels, where the run has a few.  For an output: the fours and the rest of a row are
exactly its values (`AllTurns`), batches of 32 and the remainder are exactly a blob
without gaps (`Continuous`), and the offset of a value is its row times the width and its
column, in one way (`InRow`, `OfRow`, `FirstRows`).

`InferEngineApiProofs` is about `InferEngineApi`, all four platforms, any set of models and any
number of runs.  `ModelsAssumption` says what a model file holds: shapes of natural numbers, a first
input of some width and height, at least one output, of any number of dimensions.

| theorem | says |
|---|---|
| `TypesCorrect` | types, of each engine's fields and of those of `IE_Engine` |
| `CarefulIsDefined` | `DefinedForCareful`: for a careful caller, undefined behaviour at the known places only |
| `MemoryOwned`, `AllReturned` | `Owned`, `ReleaseReturnsAll`: the memory of the accelerator, and the two ways it leaks |
| `SuccessIsSafe` | `SafeAfterSuccess`: the accelerator and memory given back; the results of the image, unless a flush failed |
| `InputTaken` | `AlignedInputExact`, from `InputOfAlignedShape` |
| `ContractKept` | the safety half of `ImplementsContract`: each step is one of `InferEngine` or a stutter |

`OutputOfAnyShape` stands by itself: it is about the conversion, and says nothing of where `run` lets it write,
which is into empty blobs (`engine_outputs`).

`ApiInv` has a part all engines share (how far `create_engine` is, what it has left in
`IE_Engine`: `NetInv`) and one for each engine.  For NNIE: at each stage of `init`, which fields hold an
address (`FieldsInv`), which is what `Releasable` and `Ready` ask for once `init` succeeded; that
memory is allocated for no field but those of the model loaded, and held by it, lost or
dropped by a failed flush (`MemoryInv`), without
which `release` would not be known to free all of it; that the blobs in front stay
empty, so that nothing converted into them is an answer (`EmptyInv`); and that, while `run` waits, the last
task of the accelerator is this run's and its memory is there (`DeviceInv`).  From that last part follow
both `SafeAfterSuccess` and that the results are of the image just given: when no task
with the run's number is left, no task is left at all.  Both are about runs whose flushes
worked (`flushed`); that `corrupt` does not come about needs no such condition.  For Tengine (`TengineInv`) and RKNN (`RknnInv`): an
`init` that failed at an output has fewer outputs than `m_output_num` says, so a run that
gets as far as to answer is one of an engine whose `init` succeeded.  `PlacesInv` says that the
blobs of RKNN into which no result fits hold none.

`ContractKept` has one lemma for each kind of step (`CreateKeeps`, `AskKeeps`, `RunKeeps`,
`AnswerKeeps`, `IdleKeeps`) and one for each engine that says which of its actions is which.

### Only model-checked

* Liveness: TLAPS has no rule here for fairness and `ENABLED`.  Hence `ImplementsFairChannel`,
  `BackPressureEnds`, `WaitsForSuccessOnly`, `BacklogStarts`, `QuitEnds`, `KeepsReporting`, `ComesToRest`, `ComesUp`,
  and of `ImplementsContract` that every call returns.
* `ExactlyOnce` and `ImplementsUplink` once something was spilled: a spilled message may be lost
  (`flow_spill_loss`) or come back glued to others (`flow_glued`), so neither property speaks of it.
  Nor do they of what follows a `pop()` that took another record than `front()` had returned.
* The violated runs: each is a counterexample.

## 7. What is not modelled

* The pixels: `resize`, the order of the channels and of the rows (`hwc2chw`), and the arithmetic of
  the mean and std values.
* The heap of the RKNN engine: it never frees the model file's bytes nor its output
  buffers, and leaves the file open when reading it fails.  Allocations other than the
  model file's and the accelerator's are taken to succeed, and so are the calls that give back.
* `create_engine` on an unknown platform, which returns no engine, and `run_engine` without one, which returns -1.
* `IE_PostParam`: kept, never read.
* `ConfigureManager`, `EnvironmentInit`: read once, before any thread starts.  What they read is chosen
  in the initial states of `Bootstrap`.
* `HttpClient`: stubs nobody calls; `sendMessage` has its call commented out.
* `Find`, `Replace`, `Remove` and the sequential access of `ObjectManager`: nothing calls them
  (`SafeReplace` could not be instantiated: it calls `FreeObject` of a dependent base unqualified).
* `LocalVideoLoaderNode` beyond its first read, which follows a null pointer.
* Message texts: `getJson` and the base64 of an image are left out; a
  message is a number.
* `init` called a second time on one engine, and more than one engine at a time.
* A clock that goes back: `FilesAscending` assumes it does not.
* Data races proper: an unlocked look, and a call on a container, is one atomic step.
* Writes to a data file that fail, the opening of `dump()`'s files and of the data directory that fails, and a
  file that cannot be read: a full or broken disk.
