------------------------------ MODULE FlowRpc ------------------------------
(* FlowRpcAsynNode (src/node/FlowRpcAsynNode.cpp): the store-and-forward    *)
(* uplink.  Three threads share it: the dispatch thread calls               *)
(* SendToFlowServer, the node's own thread runs run(), and the thread run() *)
(* starts runs MoveData().  m_qmutex guards m_queue and m_fqmutex guards    *)
(* m_fail_queue, but both threads also look at the queues, success_flag and *)
(* files without a lock, and swap() takes only one of the two mutexes.  So  *)
(* a step is one call on a queue or on the index, one look at something     *)
(* shared, or one call of the file system: front() and pop() are two steps, *)
(* and what is done on the strength of a look comes in a later one.         *)
(*                                                                          *)
(* A message is a number and SEPARATION is Sep; what a queue holds, a       *)
(* record, is a sequence of these, and so is what a file holds.  A file is  *)
(* named by the second it was opened in.                                    *)
EXTENDS Naturals, SequencesExt

CONSTANTS
    NumMsgs,        \* messages the dispatch thread hands over: bound
    Backlog,        \* the files an earlier life of the program left behind
    LoopTimes,      \* loop_times
    SpillAt,        \* length of m_fail_queue that goes to disk (5)
    MaxFiles,       \* files beyond which the oldest is evicted (100)
    MaxFails,       \* how often sendMessage fails: bound, 0 as shipped
    MaxTime,        \* the last second of the clock: bound
    MayQuit,        \* whether a signal may set sys_quit
    DiskMayFail,    \* whether remove() and opening a file may fail
    MaxRestarts     \* how often the process ends and starts again: bound

Sep == 0
Times == 1 .. MaxTime

\* The messages in a record or a file.
MsgsIn(tokens) == ToSet(tokens) \ {Sep}

BacklogMsgs == UNION {MsgsIn(Backlog[t]) : t \in DOMAIN Backlog}

ASSUME BoundsAssumption ==
    /\ NumMsgs \in Nat /\ MaxFails \in Nat /\ MaxTime \in Nat
    /\ MaxRestarts \in Nat /\ MayQuit \in BOOLEAN /\ DiskMayFail \in BOOLEAN
ASSUME LimitsAssumption ==
    LoopTimes \in Nat \ {0} /\ SpillAt \in Nat \ {0} /\ MaxFiles \in Nat \ {0}
ASSUME BacklogAssumption ==
    /\ DOMAIN Backlog \subseteq Times
    /\ \A t \in DOMAIN Backlog : Backlog[t] \in Seq(Nat)
    /\ BacklogMsgs \cap (1 .. NumMsgs) = {}

VARIABLES
    m_queue,        \* records to send
    m_fail_queue,   \* records whose sending failed
    files,          \* the index of the data files: their times, oldest first
    success_flag,
    cnt,            \* run: attempts made with the record in hand
    data_info,      \* run: the record front() returned
    evicted,        \* run: the file it copied out of the index (top, line 147)
    ofs,            \* run: the file being written [time, linked, buffer]
    rpc,            \* run: where it is, see TypeOK
    info,           \* MoveData: the record front() returned
    top,            \* MoveData: the file being replayed
    str,            \* MoveData: the records of that file still to be pushed
    mpc,            \* MoveData: where it is, see TypeOK
    sys_quit,
    disk,           \* the content of each data file
    dumped,         \* the records dump() wrote to the working directory
    now,            \* the clock
    accepted,       \* messages handed to SendToFlowServer so far
    fails,          \* sends that failed so far
    delivered,      \* records sendMessage reported as sent, in order
    undefined,      \* front(), pop() or erase() was called on something empty
    restarts,       \* processes started after the first one
    loaded,         \* history: files this process found in the directory
    spilled,        \* history: this process has written a record to a file
    torn            \* history: a pop() took another record than front() returned

queues == <<m_queue, m_fail_queue>>
runner == <<cnt, data_info, evicted, ofs, rpc>>
mover == <<info, top, str, mpc>>
life == <<restarts, loaded, spilled>>
outside == <<sys_quit, dumped, accepted, fails, delivered, undefined, torn, life>>
vars == <<queues, files, success_flag, runner, mover, outside, disk, now>>

NoFile == [time |-> 0, linked |-> FALSE, buffer |-> <<>>]

Init ==
    /\ m_queue = <<>> /\ m_fail_queue = <<>> /\ files = <<>>
    /\ success_flag = TRUE
    /\ cnt = 0 /\ data_info = <<>> /\ evicted = 0 /\ ofs = NoFile /\ rpc = "start"
    /\ info = <<>> /\ top = 0 /\ str = <<>> /\ mpc = "off"
    /\ sys_quit = FALSE
    /\ disk = Backlog /\ dumped = <<>>
    /\ now \in {t \in Times : \A b \in DOMAIN Backlog : b <= t}
    /\ accepted = 0 /\ fails = 0 /\ delivered = <<>>
    /\ undefined = FALSE /\ torn = FALSE
    /\ restarts = 0 /\ loaded = 0 /\ spilled = FALSE

\* Where MoveData has read a file's name, and not yet removed the file.
Replaying == {"read", "split", "erase", "print", "remove"}

\* m_qmutex is held by run between front() and pop(), and by MoveData while it
\* replays a file; m_fqmutex by run while it writes one, and by MoveData between
\* front() and pop().
QFreeOfReplay == mpc \notin Replaying
QFree == rpc # "popped" /\ mpc \notin Replaying
FqFree == rpc \notin {"write", "close"} /\ mpc # "taken"

RunTo(place) == rpc' = place
MoveTo(place) == mpc' = place

\* A look at something shared decides where to go on.
RunSees(place, condition, yes, no) ==
    /\ rpc = place
    /\ RunTo(IF condition THEN yes ELSE no)
MoverSees(place, condition, yes, no) ==
    /\ mpc = place
    /\ MoveTo(IF condition THEN yes ELSE no)

Deaf == FALSE
Stopped == sys_quit

\* What front() returns and what pop() leaves.
FirstOf(q) == IF q = <<>> THEN <<>> ELSE Head(q)
Unpopped(q) == q
Popped(q) == IF q = <<>> THEN <<>> ELSE Tail(q)

\* files.front(), and what erase(begin()) leaves.
Oldest(index) == IF index = <<>> THEN 0 ELSE Head(index)
ErasedLast(index) == IF index = <<>> THEN <<>> ELSE Front(index)
Erased(index) == IF index = <<>> THEN <<>> ELSE Tail(index)

Forget(t, content) == [u \in DOMAIN content \ {t} |-> content[u]]

\* remove() takes the name away, and whoever has the file open writes to no file;
\* or it fails, and the file stays.
RemoveFile(t) ==
    \/ /\ disk' = Forget(t, disk)
       /\ ofs' = [ofs EXCEPT !.linked = @ /\ ofs.time # t]
    \/ DiskMayFail /\ UNCHANGED <<disk, ofs>>

-----------------------------------------------------------------------------
(* SendToFlowServer, on the dispatch thread *)

SendToFlowServer ==
    /\ rpc # "down"
    /\ accepted < NumMsgs
    /\ QFree
    /\ accepted' = accepted + 1
    /\ m_queue' = Append(m_queue, <<accepted + 1>>)
    /\ UNCHANGED <<m_fail_queue, files, success_flag, runner, mover, sys_quit,
                   dumped, fails, delivered, undefined, torn, life, disk, now>>

-----------------------------------------------------------------------------
(* run *)

\* The members of a set of numbers in ascending order, each at its rank.
Rank(t, S) == Cardinality({u \in S : u <= t})
Ascending(S) == [k \in 1 .. Cardinality(S) |-> CHOOSE t \in S : Rank(t, S) = k]

\* LoadFileNames, then the second thread starts.
LoadFileNames ==
    /\ rpc = "start"
    /\ files' = Ascending(DOMAIN disk)
    /\ loaded' = Len(files')
    /\ RunTo("top")
    /\ MoveTo("top")
    /\ UNCHANGED <<queues, success_flag, cnt, data_info, evicted, ofs, info, top,
                   str, sys_quit, dumped, accepted, fails, delivered, undefined,
                   torn, restarts, spilled, disk, now>>

HasRecord == m_queue # <<>>
NeverTooMany == FALSE
TooManyFiles == Len(files) > MaxFiles

\* What run looks at without a mutex: sys_quit and m_queue at the top of its loop,
\* when there is nothing it sleeps and looks again; m_fail_queue and files after
\* each record; the queues in dump().
RunReads ==
    /\ \/ RunSees("top", Stopped, "dump", "look")
       \/ RunSees("look", HasRecord, "pop", "top")
       \/ RunSees("check", Len(m_fail_queue) >= SpillAt, "count", "top")
       \/ RunSees("count", TooManyFiles, "evict", "index")
       \/ RunSees("dump", HasRecord, "dumpfront", "dumpfail")
       \/ RunSees("dumpfail", m_fail_queue # <<>>, "failfront", "done")
    /\ UNCHANGED <<queues, files, success_flag, cnt, data_info, evicted, ofs,
                   mover, outside, disk, now>>

\* front() under m_qmutex ...
FrontRecord ==
    /\ rpc = "pop" /\ QFree
    /\ undefined' = (m_queue = <<>>)
    /\ data_info' = FirstOf(m_queue)
    /\ RunTo("popped")
    /\ UNCHANGED <<queues, files, success_flag, cnt, evicted, ofs, mover, sys_quit,
                   dumped, accepted, fails, delivered, torn, life, disk, now>>

\* ... and pop(), which takes what is first by now.
PopRecord ==
    /\ rpc = "popped"
    /\ undefined' = (m_queue = <<>>)
    /\ torn' = (torn \/ FirstOf(m_queue) # data_info)
    /\ m_queue' = Popped(m_queue)
    /\ RunTo("send")
    /\ UNCHANGED <<m_fail_queue, files, success_flag, cnt, data_info, evicted, ofs,
                   mover, sys_quit, dumped, accepted, fails, delivered, life, disk,
                   now>>

MayTryOnceMore == cnt <= LoopTimes
MayTry == cnt < LoopTimes

SendSucceeds ==
    /\ rpc = "send" /\ MayTry
    /\ delivered' = Append(delivered, data_info)
    /\ cnt' = 0
    /\ success_flag' = TRUE
    /\ data_info' = <<>>
    /\ RunTo("check")
    /\ UNCHANGED <<queues, files, evicted, ofs, mover, sys_quit, dumped, accepted,
                   fails, undefined, torn, life, disk, now>>

SendFails ==
    /\ rpc = "send" /\ MayTry /\ fails < MaxFails
    /\ fails' = fails + 1
    /\ cnt' = cnt + 1
    /\ UNCHANGED <<queues, files, success_flag, data_info, evicted, ofs, rpc, mover,
                   sys_quit, dumped, accepted, delivered, undefined, torn, life,
                   disk, now>>

\* No attempt is left: the flag goes down, without a mutex ...
GiveUp ==
    /\ rpc = "send" /\ ~MayTry
    /\ success_flag' = FALSE
    /\ RunTo("park")
    /\ UNCHANGED <<queues, files, cnt, data_info, evicted, ofs, mover, outside,
                   disk, now>>

\* ... and the record is parked, under m_fqmutex.
Park ==
    /\ rpc = "park" /\ FqFree
    /\ m_fail_queue' = Append(m_fail_queue, data_info)
    /\ cnt' = 0
    /\ data_info' = <<>>
    /\ RunTo("check")
    /\ UNCHANGED <<m_queue, files, success_flag, evicted, ofs, mover, outside, disk,
                   now>>

\* The oldest file goes: its name is copied, its entry erased, itself removed.
CopyOldest ==
    /\ rpc = "evict"
    /\ undefined' = (files = <<>>)
    /\ evicted' = Oldest(files)
    /\ RunTo("erase")
    /\ UNCHANGED <<queues, files, success_flag, cnt, data_info, ofs, mover,
                   sys_quit, dumped, accepted, fails, delivered, torn, life, disk,
                   now>>

EraseOldest ==
    /\ rpc = "erase"
    /\ undefined' = (files = <<>>)
    /\ files' = Erased(files)
    /\ RunTo("remove")
    /\ UNCHANGED <<queues, success_flag, cnt, data_info, evicted, ofs, mover,
                   sys_quit, dumped, accepted, fails, delivered, torn, life, disk,
                   now>>

RemoveOldest ==
    /\ rpc = "remove"
    /\ RemoveFile(evicted)
    /\ evicted' = 0
    /\ RunTo("index")
    /\ UNCHANGED <<queues, files, success_flag, cnt, data_info, mover, outside, now>>

IndexedInFront(t) == <<t>> \o files
Indexed(t) == Append(files, t)

\* The file enters the index before it exists ...
IndexFile ==
    /\ rpc = "index"
    /\ now' \in {t \in Times : t >= now}
    /\ files' = Indexed(now')
    /\ ofs' = [NoFile EXCEPT !.time = now']
    /\ RunTo("open")
    /\ UNCHANGED <<queues, success_flag, cnt, data_info, evicted, mover, outside,
                   disk>>

\* ... is opened for appending, or not, which nobody notices ...
OpenFile ==
    /\ rpc = "open"
    /\ \/ /\ disk' = [t \in DOMAIN disk \cup {ofs.time} |->
                          IF t \in DOMAIN disk THEN disk[t] ELSE <<>>]
          /\ ofs' = [ofs EXCEPT !.linked = TRUE]
       \/ DiskMayFail /\ UNCHANGED <<disk, ofs>>
    /\ RunTo("drain")
    /\ UNCHANGED <<queues, files, success_flag, cnt, data_info, evicted, mover,
                   outside, now>>

\* ... and gets record by record into its buffer, each followed by SEPARATION,
\* until m_fail_queue is empty; m_fqmutex is taken before the first, and everyone
\* else who takes from m_fail_queue takes it too ...
DrainFailQueue ==
    /\ rpc \in {"drain", "write"} /\ (rpc = "drain" => FqFree)
    /\ \/ /\ m_fail_queue # <<>>
          /\ ofs' = [ofs EXCEPT !.buffer = Append(@ \o Head(m_fail_queue), Sep)]
          /\ m_fail_queue' = Popped(m_fail_queue)
          /\ spilled' = TRUE
          /\ RunTo("write")
       \/ m_fail_queue = <<>> /\ RunTo("close") /\ UNCHANGED <<ofs, m_fail_queue, spilled>>
    /\ UNCHANGED <<m_queue, files, success_flag, cnt, data_info, evicted, mover,
                   sys_quit, dumped, accepted, fails, delivered, undefined, torn,
                   restarts, loaded, disk, now>>

\* ... and released here, after close() has written the buffer out.
CloseFile ==
    /\ rpc = "close"
    /\ disk' = IF ofs.linked
               THEN [disk EXCEPT ![ofs.time] = @ \o ofs.buffer]
               ELSE disk
    /\ ofs' = NoFile
    /\ RunTo("top")
    /\ UNCHANGED <<queues, files, success_flag, cnt, data_info, evicted, mover,
                   outside, now>>

\* With sys_quit set, dump() empties both queues, record by record and taking
\* neither mutex, into a file of the working directory, which LoadFileNames
\* never looks at.
FrontDumped ==
    /\ rpc = "dumpfront"
    /\ undefined' = (m_queue = <<>>)
    /\ data_info' = FirstOf(m_queue)
    /\ RunTo("dumppop")
    /\ UNCHANGED <<queues, files, success_flag, cnt, evicted, ofs, mover, sys_quit,
                   dumped, accepted, fails, delivered, torn, life, disk, now>>

PopDumped ==
    /\ rpc = "dumppop"
    /\ undefined' = (m_queue = <<>>)
    /\ torn' = (torn \/ FirstOf(m_queue) # data_info)
    /\ dumped' = Append(dumped, data_info)
    /\ m_queue' = Popped(m_queue)
    /\ data_info' = <<>>
    /\ RunTo("dump")
    /\ UNCHANGED <<m_fail_queue, files, success_flag, cnt, evicted, ofs, mover, sys_quit,
                   accepted, fails, delivered, life, disk, now>>

FrontFailDumped ==
    /\ rpc = "failfront"
    /\ undefined' = (m_fail_queue = <<>>)
    /\ data_info' = FirstOf(m_fail_queue)
    /\ RunTo("failpop")
    /\ UNCHANGED <<queues, files, success_flag, cnt, evicted, ofs, mover, sys_quit,
                   dumped, accepted, fails, delivered, torn, life, disk, now>>

PopFailDumped ==
    /\ rpc = "failpop"
    /\ undefined' = (m_fail_queue = <<>>)
    /\ torn' = (torn \/ FirstOf(m_fail_queue) # data_info)
    /\ dumped' = Append(dumped, data_info)
    /\ m_fail_queue' = Popped(m_fail_queue)
    /\ data_info' = <<>>
    /\ RunTo("dumpfail")
    /\ UNCHANGED <<m_queue, files, success_flag, cnt, evicted, ofs, mover, sys_quit,
                   accepted, fails, delivered, life, disk, now>>

RunStep ==
    \/ LoadFileNames \/ RunReads \/ FrontRecord \/ PopRecord
    \/ SendSucceeds \/ SendFails \/ GiveUp \/ Park
    \/ CopyOldest \/ EraseOldest \/ RemoveOldest
    \/ IndexFile \/ OpenFile \/ DrainFailQueue \/ CloseFile
    \/ FrontDumped \/ PopDumped \/ FrontFailDumped \/ PopFailDumped

-----------------------------------------------------------------------------
(* MoveData *)

HasFailedOrNot == TRUE
HasTwoFailed == Len(m_fail_queue) > 1
HasFailed == m_fail_queue # <<>>
SendingFails == ~success_flag
SendingWorks == success_flag

\* What MoveData looks at without a mutex, in the order it does: sys_quit; for the
\* swap, that there is nothing to send, a record failed and the last send worked;
\* for taking a record back, the last two; for a replay, that both queues are
\* empty, the last send worked and there is a file.  Without a file the flag is
\* cleared at once.  Then, in the replay, the name of what is now the first file: if
\* there is none that is a destroyed string, and reading it may end the process.
MoverReads ==
    /\ \/ MoverSees("top", Stopped, "done", "queueA")
       \/ MoverSees("queueA", m_queue = <<>>, "failA", "failB")
       \/ MoverSees("failA", HasFailed, "flagA", "failB")
       \/ MoverSees("flagA", SendingWorks, "swap", "failB")
       \/ MoverSees("failB", HasFailed, "flagB", "failC")
       \/ MoverSees("flagB", SendingWorks, "take", "failC")
       \/ MoverSees("failC", m_fail_queue = <<>>, "queueC", "top")
       \/ MoverSees("queueC", m_queue = <<>>, "flagC", "top")
       \/ MoverSees("flagC", SendingWorks, "filesC", "top")
       \/ MoverSees("filesC", files # <<>>, "replay", "clear")
       \/ mpc = "print" /\ MoveTo("remove")
    /\ UNCHANGED <<queues, files, success_flag, runner, info, top, str, outside,
                   disk, now>>

\* The queues trade places under m_fqmutex, whatever they hold by now and whatever
\* run does to m_queue.
Swap ==
    /\ mpc = "swap" /\ FqFree
    /\ m_queue' = m_fail_queue
    /\ m_fail_queue' = m_queue
    /\ MoveTo("failB")
    /\ UNCHANGED <<files, success_flag, runner, info, top, str, outside, disk, now>>

\* front() and pop() under m_fqmutex: only dump() can fall between.
FrontFailed ==
    /\ mpc = "take" /\ FqFree
    /\ undefined' = (m_fail_queue = <<>>)
    /\ info' = FirstOf(m_fail_queue)
    /\ MoveTo("taken")
    /\ UNCHANGED <<queues, files, success_flag, runner, top, str, sys_quit, dumped,
                   accepted, fails, delivered, torn, life, disk, now>>

PopFailed ==
    /\ mpc = "taken"
    /\ undefined' = (m_fail_queue = <<>>)
    /\ torn' = (torn \/ FirstOf(m_fail_queue) # info)
    /\ m_fail_queue' = Popped(m_fail_queue)
    /\ MoveTo("put")
    /\ UNCHANGED <<m_queue, files, success_flag, runner, info, top, str, sys_quit,
                   dumped, accepted, fails, delivered, life, disk, now>>

\* The record goes back to m_queue, unless it is the empty string.
PutBack ==
    /\ mpc = "put"
    /\ \/ info = <<>> /\ UNCHANGED m_queue
       \/ info # <<>> /\ QFree /\ m_queue' = Append(m_queue, info)
    /\ info' = <<>>
    /\ MoveTo("failC")
    /\ UNCHANGED <<m_fail_queue, files, success_flag, runner, top, str, outside,
                   disk, now>>

\* m_qmutex is taken here ...
CopyFirst ==
    /\ mpc = "replay" /\ QFree
    /\ undefined' = (files = <<>>)
    /\ top' = Oldest(files)
    /\ MoveTo("read")
    /\ UNCHANGED <<queues, files, success_flag, runner, info, str, sys_quit, dumped,
                   accepted, fails, delivered, torn, life, disk, now>>

\* The positions of SEPARATION, ascending.
Separators(data) == Ascending({i \in DOMAIN data : data[i] = Sep})

SplitSkippingFirst(data) ==
    LET at == Separators(data)
    IN [k \in 1 .. (Len(at) - 1) |-> SubSeq(data, at[k] + 1, at[k + 1] - 1)]

\* Split: one record per SEPARATION, which begins after the one before it.  Its
\* length is substr's second argument, which here is not the distance to the
\* SEPARATION but its offset in the file.
Split(data) ==
    LET at == Separators(data)
        begin(k) == IF k = 1 THEN 1 ELSE at[k - 1] + 1
        length(k) == at[k] - 1
        end(k) == begin(k) + length(k) - 1
    IN [k \in DOMAIN at |-> SubSeq(data, begin(k),
                                IF end(k) > Len(data) THEN Len(data) ELSE end(k))]

\* A name with no file behind it reads as an empty file.
Content(t) == IF t \in DOMAIN disk THEN disk[t] ELSE <<>>

ReadFile ==
    /\ mpc = "read"
    /\ str' = Split(Content(top))
    /\ MoveTo("split")
    /\ UNCHANGED <<queues, files, success_flag, runner, info, top, outside, disk,
                   now>>

PushSplit ==
    /\ mpc = "split"
    /\ \/ /\ str # <<>>
          /\ m_queue' = Append(m_queue, Head(str))
          /\ str' = Tail(str)
          /\ UNCHANGED mpc
       \/ str = <<>> /\ MoveTo("erase") /\ UNCHANGED <<m_queue, str>>
    /\ UNCHANGED <<m_fail_queue, files, success_flag, runner, info, top, outside,
                   disk, now>>

\* The first entry of the index goes, whichever it is by now ...
EraseFirst ==
    /\ mpc = "erase"
    /\ undefined' = (files = <<>>)
    /\ files' = Erased(files)
    /\ MoveTo("print")
    /\ UNCHANGED <<queues, success_flag, runner, info, top, str, sys_quit, dumped,
                   accepted, fails, delivered, torn, life, disk, now>>

FirstOfIndex == Oldest(files)
FileRead == top

\* ... and the file that was read; m_qmutex is released.
RemoveReplayed ==
    /\ mpc = "remove"
    /\ RemoveFile(FileRead)
    /\ top' = 0
    /\ MoveTo("clear")
    /\ UNCHANGED <<queues, files, success_flag, cnt, data_info, evicted, rpc, info,
                   str, outside, now>>

ClearFlag ==
    /\ mpc = "clear"
    /\ success_flag' = FALSE
    /\ MoveTo("top")
    /\ UNCHANGED <<queues, files, runner, info, top, str, outside, disk, now>>

MoverStep ==
    \/ MoverReads \/ Swap \/ FrontFailed \/ PopFailed \/ PutBack
    \/ CopyFirst \/ ReadFile \/ PushSplit \/ EraseFirst \/ RemoveReplayed \/ ClearFlag

-----------------------------------------------------------------------------
(* The process *)

\* A signal handler calls StopAll() ...
Quit ==
    /\ MayQuit /\ rpc # "down" /\ ~sys_quit
    /\ sys_quit' = TRUE
    /\ UNCHANGED <<queues, files, success_flag, runner, mover, dumped, accepted,
                   fails, delivered, undefined, torn, life, disk, now>>

\* The process ends, at whatever point the threads are.  What is left is what
\* the files hold.
ProcessEnds(records) ==
    /\ rpc # "down" /\ restarts < MaxRestarts
    /\ dumped' = records
    /\ m_queue' = <<>> /\ m_fail_queue' = <<>> /\ files' = <<>>
    /\ success_flag' = TRUE
    /\ cnt' = 0 /\ data_info' = <<>> /\ evicted' = 0 /\ ofs' = NoFile
    /\ rpc' = "down"
    /\ info' = <<>> /\ top' = 0 /\ str' = <<>> /\ mpc' = "off"
    /\ loaded' = 0 /\ spilled' = FALSE
    /\ UNCHANGED <<sys_quit, accepted, fails, delivered, undefined, torn, restarts,
                   disk, now>>

\* ... and then _exit(); a signal nobody handles, a power cut or the first entry
\* of an index that is empty (MoveData, "print") does the same without StopAll.
Exit == ProcessEnds(dumped)

\* Should the handler not get that far, the main thread sees sys_quit and calls
\* exit(): the destructor of the node dumps what the queues hold.
ExitOrderly == sys_quit /\ ProcessEnds(dumped \o m_queue \o m_fail_queue)

Restart ==
    /\ rpc = "down"
    /\ restarts' = restarts + 1
    /\ sys_quit' = FALSE
    /\ RunTo("start")
    /\ UNCHANGED <<queues, files, success_flag, cnt, data_info, evicted, ofs, mover,
                   dumped, accepted, fails, delivered, undefined, torn, loaded,
                   spilled, disk, now>>

Next ==
    /\ ~undefined
    /\ \/ SendToFlowServer \/ RunStep \/ MoverStep
       \/ Quit \/ Exit \/ ExitOrderly \/ Restart

SafeSpec == Init /\ [][Next]_vars

\* Both threads loop and sleep for a bounded time, and neither keeps a mutex
\* for ever.  Nothing makes the dispatch thread hand over another message, and
\* nothing makes the process end.
Spec == SafeSpec /\ WF_vars(~undefined /\ RunStep)
                 /\ WF_vars(~undefined /\ MoverStep)

-----------------------------------------------------------------------------
(* Properties *)

TypeOK ==
    /\ m_queue \in Seq(Seq(Nat)) /\ m_fail_queue \in Seq(Seq(Nat))
    /\ files \in Seq(Times)
    /\ success_flag \in BOOLEAN
    /\ cnt \in 0 .. LoopTimes /\ (rpc \notin {"send", "park"} => cnt = 0)
    /\ data_info \in Seq(Nat) /\ info \in Seq(Nat) /\ str \in Seq(Seq(Nat))
    /\ ofs \in [time : 0 .. MaxTime, linked : BOOLEAN, buffer : Seq(Nat)]
    /\ rpc \in {"start", "top", "look", "pop", "popped", "send", "park", "check",
                "count", "evict", "erase", "remove", "index", "open", "drain", "write",
                "close", "dump", "dumpfront", "dumppop", "dumpfail", "failfront",
                "failpop", "done", "down"}
    /\ mpc \in {"off", "top", "queueA", "failA", "flagA", "swap", "failB", "flagB",
                "take", "taken", "put", "failC", "queueC", "flagC", "filesC", "replay",
                "clear", "done"} \cup Replaying
    /\ top \in 0 .. MaxTime /\ evicted \in 0 .. MaxTime
    /\ DOMAIN disk \subseteq Times /\ \A t \in DOMAIN disk : disk[t] \in Seq(Nat)
    /\ dumped \in Seq(Seq(Nat)) /\ delivered \in Seq(Seq(Nat))
    /\ now \in Times
    /\ accepted \in 0 .. NumMsgs /\ fails \in 0 .. MaxFails
    /\ restarts \in 0 .. MaxRestarts /\ loaded \in Nat /\ spilled \in BOOLEAN
    /\ sys_quit \in BOOLEAN /\ undefined \in BOOLEAN /\ torn \in BOOLEAN

Holding(records, m) == {i \in DOMAIN records : m \in MsgsIn(records[i])}

Places(m, records) == Cardinality(Holding(records, m))

InHand(m) == IF rpc \in {"send", "park"} /\ m \in MsgsIn(data_info) THEN 1 ELSE 0
InTransit(m) == IF mpc = "put" /\ m \in MsgsIn(info) THEN 1 ELSE 0
InStream(m) == IF ofs.linked /\ m \in MsgsIn(ofs.buffer) THEN 1 ELSE 0

\* The files, without the one whose records were read and that is about to be
\* removed.
InFiles(m) ==
    Cardinality({t \in DOMAIN disk \ (IF mpc \in Replaying \ {"read"} THEN {top} ELSE {}) :
                     m \in MsgsIn(disk[t])})

\* How many places hold message m, the server included.
Copies(m) ==
    Places(m, m_queue) + Places(m, m_fail_queue) + Places(m, delivered)
        + Places(m, dumped) + Places(m, str) + InHand(m) + InTransit(m) + InStream(m)
        + InFiles(m)

\* While nothing was spilled, the process lives and no pop() took another record than
\* front() had returned, a message that was accepted is in exactly one place: neither
\* lost nor sent twice, for all that MoveData shuffles the queues under run's feet
\* (FlowRpcAsynNode.cpp:114-141, 201-228).
ExactlyOnce ==
    ~spilled /\ ~torn /\ restarts = 0 /\ rpc # "down"
        => \A m \in 1 .. accepted : Copies(m) = 1

\* Before sys_quit that happens in one way only: the queues trade places between
\* front() and pop() of run, which hold different mutexes.  The record run sends is
\* then the first of m_fail_queue, or MoveData just took it from there: it is sent
\* again, and what was popped, which had failed before, is not
\* (FlowRpcAsynNode.cpp:118-121, 203-206).
TornBySwap ==
    [][~sys_quit /\ ~torn /\ torn' /\ data_info # <<>>
           => /\ rpc = "popped"
              /\ \/ FirstOf(m_fail_queue) = data_info
                 \/ mpc = "put" /\ info = data_info]_vars

\* The messages a process has in memory, and those its files hold.
InMemory ==
    {m \in BacklogMsgs \cup 1 .. NumMsgs :
         Places(m, m_queue) + Places(m, m_fail_queue) + Places(m, str) + InHand(m)
             + InTransit(m) + InStream(m) > 0}
InFilesOnly == {m \in BacklogMsgs \cup 1 .. NumMsgs : InFiles(m) > 0}

MsgsOf(records) == UNION {MsgsIn(records[i]) : i \in DOMAIN records}

Abstract == INSTANCE Uplink WITH
    New <- 1 .. NumMsgs,
    Old <- BacklogMsgs,
    unseen <- accepted + 1 .. NumMsgs,
    waiting <- InMemory,
    stored <- InFilesOnly,
    sent <- MsgsOf(delivered),
    dumped <- MsgsOf(dumped)

\* The step at which remove() leaves the file that was replayed where it is: the next
\* process will replay it again.
Stays == mpc = "remove" /\ top \in DOMAIN disk'

\* Without a spill every message, a new one or one an earlier process left in a
\* file, moves from place to place: from disk to memory, and from there to the
\* server or the dump; never back, never out, until a pop() takes another record
\* than front() returned, and but for a file that stays
\* (FlowRpcAsynNode.cpp:114-141, 201-260, 304-328).
ImplementsUplink ==
    Abstract!Init /\ [][Abstract!Next \/ torn' \/ Stays]_(Abstract!vars)

\* No message is lost, neither a new one nor one an earlier process left in a
\* file, but by a pop() that takes another record than front() returned
\* (FlowRpcAsynNode.cpp:144-168, 231-260).
NothingLost == torn \/ \A m \in BacklogMsgs \cup 1 .. accepted : Copies(m) > 0

\* front(), pop() and erase() are never called on something empty: between the
\* unlocked look and the call (FlowRpcAsynNode.cpp:114-120, 145-148, 211-216,
\* 235-249) the other thread leaves something behind.  There are two exceptions:
\* dump(), which takes no mutex, emptying the queue the other is about to pop, and a
\* spill emptying m_fail_queue when MoveData has decided to pop or to swap.
NeverPopsEmpty == undefined => sys_quit \/ spilled

\* A message that was accepted comes to the server, unless the process is told to
\* stop or a pop() takes another record than front() returned; again and again, until
\* it does, it is parked at a time when the last send failed or a replay cleared the
\* flag: nothing else keeps it waiting, and it does not get stuck in a queue, a
\* hand or a mutex (FlowRpcAsynNode.cpp:114-141, 201-228).
WaitsForSuccessOnly ==
    \A m \in 1 .. NumMsgs :
        (accepted >= m)
            ~> \/ sys_quit \/ torn
               \/ Holding(delivered, m) # {}
               \/ Holding(m_fail_queue, m) # {} /\ ~success_flag

\* With nothing else to do, MoveData turns to the files, unless it has one in hand,
\* after which it clears the flag, or another record fails
\* (FlowRpcAsynNode.cpp:231-261): it is only the flag that can keep the backlog
\* waiting.
BacklogStarts ==
    (/\ m_queue = <<>> /\ m_fail_queue = <<>> /\ files # <<>>
     /\ success_flag /\ mpc \notin {"off", "clear"} \cup Replaying)
        ~> (sys_quit \/ m_queue # <<>> \/ m_fail_queue # <<>>)

\* Once sys_quit is set both threads come to their end, wherever they were: none
\* waits for a mutex the other took with it (FlowRpcAsynNode.cpp:100-103,
\* 191-194).
QuitEnds ==
    (sys_quit /\ rpc # "start")
        ~> \/ rpc \in {"done", "down"} /\ mpc \in {"done", "off"}
           \/ undefined

\* The index is in ascending order of time, so that the file replayed or
\* evicted next is the oldest (FlowRpcAsynNode.cpp:147, 158, 234, 292).
FilesAscending ==
    \A i, j \in DOMAIN files : i < j => files[i] <= files[j]

\* In the life of a process the index never exceeds the limit by more than the
\* file being written, unless LoadFileNames already found more: files that an
\* earlier process lost from its index are found again, and a spill evicts one
\* file and no more (FlowRpcAsynNode.cpp:145-158, 263-302).
IndexBounded == Len(files) <= MaxFiles + 1 \/ Len(files) <= loaded

\* Every data file is in the index, so that it will be replayed or evicted, or about
\* to be removed by the thread that erased its entry; none stays on the disk until
\* the next restart.
Doomed == (IF rpc = "remove" THEN {evicted} ELSE {})
              \cup (IF mpc \in {"print", "remove"} THEN {top} ELSE {})
NoOrphan ==
    rpc \notin {"start", "down"} => DOMAIN disk \subseteq ToSet(files) \cup Doomed

\* There are three ways to a file that does, and no others: remove() fails; one thread
\* erases the entry behind the one whose file it removes, because the other erased that
\* one meanwhile (FlowRpcAsynNode.cpp:147-148, 236-249); or MoveData erases the entry
\* of a file that run is still to create (FlowRpcAsynNode.cpp:158-159, 249).
WaysToOrphans ==
    [][NoOrphan /\ ~NoOrphan' =>
           \/ rpc = "remove" /\ evicted \in DOMAIN disk'
           \/ mpc = "remove" /\ top \in DOMAIN disk'
           \/ rpc = "erase" /\ evicted # Oldest(files)
           \/ mpc = "erase" /\ top # Oldest(files)
           \/ rpc = "open" /\ ofs.time \notin ToSet(files)]_vars

\* What is on disk stays there until it is in memory, whatever ends the process
\* (FlowRpcAsynNode.cpp:147-168, 234-259): it goes when the file is the one
\* evicted, or when its records are in m_queue or already dumped.  Only what a
\* spill added to the file of the running second, while that was being replayed,
\* goes unread.
Stored == UNION {MsgsIn(disk[t]) : t \in DOMAIN disk}
StoredUntilReplayed ==
    [][\A m \in Stored \ Stored' :
           \/ rpc = "remove" /\ m \in MsgsIn(Content(evicted))
           \/ /\ mpc = "remove"
              /\ top = now \/ torn \/ Holding(m_queue \o dumped, m) # {}]_vars

\* A record delivered to the server is one message, not several glued together
\* (FlowRpcAsynNode.cpp:173-181).
DeliveredIntact ==
    \A i \in DOMAIN delivered : Sep \notin ToSet(delivered[i])
=============================================================================
