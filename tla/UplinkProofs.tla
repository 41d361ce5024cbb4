---------------------------- MODULE UplinkProofs ----------------------------
(* The uplink of FlowRpc implements Uplink, for any number of messages and of *)
(* failing sends, as long as run never finds enough failed records to write   *)
(* to disk, and for the old files that Split cuts so that each message is in  *)
(* one record; until a pop() takes another record than front() returned, and  *)
(* but for the step at which remove() fails to remove a file.                 *)
EXTENDS FlowRpcProofs

-----------------------------------------------------------------------------
(* What is assumed of the old files and of the failures *)

\* Split puts each message of a file into one record, and no two files hold the
\* same one.  So it is with files of one or two whole records; where there are more,
\* Split glues what follows to the second one, and the server is sent messages
\* twice.
CutCleanly ==
    /\ \A t \in DOMAIN Backlog : \A m \in MsgsIn(Backlog[t]) :
           Places(m, Split(Backlog[t])) = 1
    /\ \A t, u \in DOMAIN Backlog :
           t # u => MsgsIn(Backlog[t]) \cap MsgsIn(Backlog[u]) = {}

\* When run looks at m_fail_queue it is shorter than what goes to disk.
RoomToFail == ~torn /\ rpc = "check" => Len(m_fail_queue) < SpillAt

-----------------------------------------------------------------------------
(* The inductive invariant *)

Known == BacklogMsgs \cup 1 .. NumMsgs

\* The queues, the records still to be pushed, the one in hand and the one in
\* transit.
Waits(m) ==
    Places(m, m_queue) + Places(m, m_fail_queue) + Places(m, str) + InHand(m)
        + InTransit(m)

\* The files whose records are still to be read: those of the index, which is
\* complete; and those that were read and that remove() left.
Found == IF rpc = "start" THEN DOMAIN disk ELSE ToSet(files) \cap DOMAIN disk
Unread == Found \ (IF mpc \in {"split", "erase"} THEN {top} ELSE {})
InReplay == IF mpc \in Replaying \ {"read"} THEN {top} ELSE {}
Left == (DOMAIN disk \ InReplay) \ Unread

OnDisk(m) == IF \E t \in Unread : m \in MsgsIn(disk[t]) THEN 1 ELSE 0
IsLeft(m) == \E t \in Left : m \in MsgsIn(disk[t])
Unseen(m) == IF m \in accepted + 1 .. NumMsgs THEN 1 ELSE 0

\* No file is evicted or written: those there are are as they were found, each is
\* in the index once, and the one being replayed is the first there until its entry
\* is erased.
Writing == {"count", "evict", "erase", "remove", "index", "open", "drain", "write",
            "close", "down"}
Steady ==
    /\ rpc \notin Writing
    /\ ofs = NoFile /\ ~spilled
    /\ DOMAIN disk \subseteq DOMAIN Backlog
    /\ \A t \in DOMAIN disk : disk[t] = Backlog[t]
    /\ \A i, j \in DOMAIN files : i < j => files[i] < files[j]
    /\ mpc \in {"read", "split", "erase"} => top = Oldest(files)
    /\ mpc \in {"print", "remove"} => top \notin ToSet(files)
    /\ mpc # "split" => str = <<>>

\* A message is in one place, and nothing else is a message.
OneEach ==
    \A m \in Nat : Unseen(m) + Held(m) + OnDisk(m) = IF m \in Known THEN 1 ELSE 0

UpInv == torn \/ (Steady /\ OneEach)

\* The places of Uplink, by counting.
Mapped ==
    /\ InMemory = {m \in Nat : Waits(m) > 0}
    /\ InFilesOnly = {m \in Nat : OnDisk(m) > 0 \/ IsLeft(m)}
    /\ MsgsOf(delivered) = {m \in Nat : Places(m, delivered) > 0}
    /\ MsgsOf(dumped) = {m \in Nat : Places(m, dumped) > 0}

Counted ==
    \A m :
        /\ Waits(m) \in Nat /\ Places(m, delivered) \in Nat
        /\ Places(m, dumped) \in Nat /\ Held(m) \in Nat
        /\ Held(m) = Waits(m) + Places(m, delivered) + Places(m, dumped)
        /\ OnDisk(m) \in Nat /\ Unseen(m) \in Nat

-----------------------------------------------------------------------------
(* Counting *)

\* Lemma: queues put one behind the other hold what they held.
LEMMA PlacesSum ==
  ASSUME NEW q \in Seq(Seq(Nat)), NEW p \in Seq(Seq(Nat)), NEW m
  PROVE  Places(m, q \o p) = Places(m, q) + Places(m, p)
<1> DEFINE n == Len(q)
           behind == {i \in Holding(q \o p, m) : i > n}
<1>1. /\ DOMAIN q = 1 .. n /\ n \in Nat
      /\ DOMAIN p = 1 .. Len(p) /\ Len(p) \in Nat
      /\ DOMAIN (q \o p) = 1 .. n + Len(p)
      /\ \A i \in 1 .. n + Len(p) :
             (q \o p)[i] = IF i <= n THEN q[i] ELSE p[i - n]
  BY ConcatProperties, LenProperties
<1>2. /\ IsFiniteSet(Holding(q, m)) /\ IsFiniteSet(Holding(p, m))
      /\ IsFiniteSet(Holding(q \o p, m)) /\ q \o p \in Seq(Seq(Nat))
      /\ Places(m, q) \in Nat /\ Places(m, p) \in Nat
  BY ConcatProperties, PlacesType
<1>3. Holding(q \o p, m) = Holding(q, m) \cup behind /\ Holding(q, m) \cap behind = {}
  BY <1>1 DEF Holding
<1>4. IsFiniteSet(behind)
  BY <1>2, FS_Subset
<1>5. Cardinality(behind) = Cardinality(Holding(p, m))
  <2> DEFINE back == [i \in Holding(p, m) |-> i + n]
  <2>1. \A i \in Holding(p, m) : i \in 1 .. Len(p) /\ m \in MsgsIn(p[i])
    BY <1>1 DEF Holding
  <2>2. \A i \in Holding(p, m) : back[i] \in behind
    <3> SUFFICES ASSUME NEW i \in Holding(p, m) PROVE i + n \in behind
      OBVIOUS
    <3>1. i + n \in 1 .. n + Len(p) /\ i + n > n /\ (i + n) - n = i
      BY <1>1, <2>1
    <3>2. (q \o p)[i + n] = p[i]
      BY <1>1, <2>1, <3>1
    <3>3. QED
      BY <1>1, <2>1, <3>1, <3>2 DEF Holding
  <2>3. \A j \in behind : j - n \in Holding(p, m) /\ back[j - n] = j
    <3> SUFFICES ASSUME NEW j \in behind
                 PROVE  j - n \in Holding(p, m) /\ (j - n) + n = j
      OBVIOUS
    <3>1. j \in 1 .. n + Len(p) /\ j > n /\ m \in MsgsIn((q \o p)[j])
      BY <1>1 DEF Holding
    <3>2. j - n \in 1 .. Len(p) /\ (q \o p)[j] = p[j - n] /\ (j - n) + n = j
      BY <1>1, <3>1
    <3>3. QED
      BY <1>1, <3>1, <3>2 DEF Holding
  <2>4. \A i, j \in Holding(p, m) : back[i] = back[j] => i = j
    BY <1>1, <2>1
  <2>5. back \in Bijection(Holding(p, m), behind)
    <3>1. back \in [Holding(p, m) -> behind]
      BY <2>2
    <3>2. \A j \in behind : \E i \in Holding(p, m) : back[i] = j
      BY <2>3
    <3>3. DOMAIN back = Holding(p, m)
      OBVIOUS
    <3> HIDE DEF back, behind
    <3>4. QED
      BY <3>1, <3>2, <3>3, <2>4, Zenon DEF Bijection, Injection, IsInjective, Surjection
  <2>6. QED
    BY <2>5, <1>2, FS_Bijection DEF ExistsBijection
<1> HIDE DEF behind
<1>6. Cardinality(Holding(q \o p, m)) = Cardinality(Holding(q, m)) + Cardinality(behind)
  <2>1. Cardinality(Holding(q, m) \cup behind)
            = Cardinality(Holding(q, m)) + Cardinality(behind)
                  - Cardinality(Holding(q, m) \cap behind)
    BY <1>2, <1>4, FS_Union
  <2>2. Cardinality(Holding(q, m)) \in Nat /\ Cardinality(behind) \in Nat
    BY <1>2, <1>4, FS_CardinalityType
  <2>3. Cardinality(Holding(q, m) \cap behind) = 0
    BY <1>3, FS_EmptySet
  <2>4. QED
    BY <2>1, <2>2, <2>3, <1>3
<1>7. QED
  BY <1>5, <1>6 DEF Places

\* Lemma: the messages of a record are numbers.
LEMMA MsgsAreNumbers ==
  ASSUME NEW r \in Seq(Nat) PROVE MsgsIn(r) \subseteq Nat
<1> SUFFICES ASSUME NEW m \in MsgsIn(r) PROVE m \in Nat
  OBVIOUS
<1>1. PICK j \in DOMAIN r : m = r[j]
  BY DEF MsgsIn, ToSet
<1>2. QED
  BY <1>1, ElementOfSeq, LenProperties

\* Lemma: a message is in some record exactly if it is in more than no place.
LEMMA PlacesSome ==
  ASSUME NEW q \in Seq(Seq(Nat))
  PROVE  MsgsOf(q) = {m \in Nat : Places(m, q) > 0}
<1>1. \A i \in DOMAIN q : q[i] \in Seq(Nat)
  BY ElementOfSeq, LenProperties
<1>2. MsgsOf(q) \subseteq Nat
  BY <1>1, MsgsAreNumbers DEF MsgsOf
<1>3. ASSUME NEW m PROVE m \in MsgsOf(q) <=> Places(m, q) > 0
  <2>1. m \in MsgsOf(q) <=> Holding(q, m) # {}
    BY DEF MsgsOf, Holding
  <2>2. IsFiniteSet(Holding(q, m)) /\ Places(m, q) \in Nat
    BY PlacesType
  <2>3. Holding(q, m) = {} <=> Cardinality(Holding(q, m)) = 0
    BY <2>2, FS_EmptySet
  <2>4. QED
    BY <2>1, <2>2, <2>3 DEF Places
<1>4. QED
  BY <1>2, <1>3

\* Lemma: what is read puts each of its messages into one of the records.
LEMMA ReplayedOnce ==
  ASSUME CutCleanly, TypeOK, Steady, NEW t, NEW m
  PROVE  /\ Content(t) \in Seq(Nat) /\ Split(Content(t)) \in Seq(Seq(Nat))
         /\ Places(m, Split(Content(t))) = Bit(m, Content(t))
<1>1. Content(t) \in Seq(Nat) /\ Split(Content(t)) \in Seq(Seq(Nat))
  BY EmptySeq, SplitRecords DEF Content, TypeOK
<1>2. CASE m \in MsgsIn(Content(t))
  <2>1. t \in DOMAIN disk /\ Content(t) = disk[t]
    BY <1>2 DEF Content, MsgsIn, ToSet
  <2>2. t \in DOMAIN Backlog /\ Content(t) = Backlog[t]
    BY <2>1 DEF Steady
  <2>3. QED
    BY <1>1, <1>2, <2>2 DEF CutCleanly, Bit
<1>3. CASE m \notin MsgsIn(Content(t))
  <2>1. \A k \in DOMAIN Split(Content(t)) : m \notin MsgsIn(Split(Content(t))[k])
    BY <1>1, <1>3, SplitMsgs
  <2>2. Holding(Split(Content(t)), m) = {}
    BY <2>1 DEF Holding
  <2>3. QED
    BY <1>1, <1>3, <2>2, FS_EmptySet DEF Places, Bit
<1>4. QED
  BY <1>1, <1>2, <1>3

\* Lemma: the counts are numbers.
LEMMA Counts == TypeOK => Counted
<1> SUFFICES ASSUME TypeOK, NEW m
             PROVE  /\ Waits(m) \in Nat /\ Places(m, delivered) \in Nat
                    /\ Places(m, dumped) \in Nat /\ Held(m) \in Nat
                    /\ Held(m) = Waits(m) + Places(m, delivered) + Places(m, dumped)
                    /\ OnDisk(m) \in Nat /\ Unseen(m) \in Nat
  BY DEF Counted
<1>1. /\ Places(m, m_queue) \in Nat /\ Places(m, m_fail_queue) \in Nat
      /\ Places(m, delivered) \in Nat /\ Places(m, dumped) \in Nat
      /\ Places(m, str) \in Nat
  BY PlacesType DEF TypeOK
<1>2. InHand(m) \in Nat /\ InTransit(m) \in Nat
  BY DEF InHand, InTransit
<1>3. OnDisk(m) \in Nat /\ Unseen(m) \in Nat
  BY DEF OnDisk, Unseen
<1>4. Waits(m) \in Nat
  BY <1>1, <1>2 DEF Waits
<1>5. Held(m) = Waits(m) + Places(m, delivered) + Places(m, dumped)
  BY <1>1, <1>2 DEF Held, Waits
<1>6. QED
  BY <1>1, <1>3, <1>4, <1>5

\* Lemma: each place of Uplink is where the count is not zero.
LEMMA Whereabouts == FlowInv /\ Steady /\ OneEach => Mapped
<1> SUFFICES ASSUME FlowInv, Steady, OneEach PROVE Mapped
  OBVIOUS
<1>1. /\ m_queue \in Seq(Seq(Nat)) /\ m_fail_queue \in Seq(Seq(Nat))
      /\ delivered \in Seq(Seq(Nat)) /\ dumped \in Seq(Seq(Nat))
  BY DEF FlowInv, TypeOK
<1>2. Known \subseteq Nat
  BY BacklogAssumption, BoundsAssumption, MsgsAreNumbers DEF Known, BacklogMsgs
<1>3. Counted
  BY Counts DEF FlowInv
<1>4. ASSUME NEW m \in Nat, m \notin Known PROVE Waits(m) = 0
  <2>1. Unseen(m) + Held(m) + OnDisk(m) = 0
    BY <1>4 DEF OneEach
  <2>2. /\ Waits(m) \in Nat /\ Places(m, delivered) \in Nat /\ Places(m, dumped) \in Nat
        /\ Held(m) = Waits(m) + Places(m, delivered) + Places(m, dumped)
        /\ OnDisk(m) \in Nat /\ Unseen(m) \in Nat /\ Held(m) \in Nat
    BY <1>3, Zenon DEF Counted
  <2>3. \A u, h, d \in Nat : u + h + d = 0 => h = 0 /\ d = 0
    OBVIOUS
  <2>4. Held(m) = 0 /\ OnDisk(m) = 0
    BY <2>1, <2>2, <2>3, Zenon
  <2>5. Waits(m) = 0
    BY <2>2, <2>4
  <2>6. QED
    BY <2>4, <2>5
<1>5. InMemory = {m \in Nat : Waits(m) > 0}
  <2>1. \A m : InStream(m) = 0
    BY DEF InStream, Steady, NoFile
  <2>2. InMemory = {m \in Known : Waits(m) > 0}
    <3>1. ASSUME NEW m
          PROVE  Places(m, m_queue) + Places(m, m_fail_queue) + Places(m, str) + InHand(m)
                     + InTransit(m) + InStream(m) = Waits(m)
      <4>1. Waits(m) \in Nat /\ InStream(m) = 0
        BY <1>3, <2>1 DEF Counted
      <4>2. QED
        BY <4>1 DEF Waits
    <3>2. QED
      BY <3>1 DEF InMemory, Known
  <2>3. \A m \in Nat : Waits(m) > 0 => m \in Known
    BY <1>4
  <2>4. QED
    BY <1>2, <2>2, <2>3
<1>6. InFilesOnly = {m \in Nat : OnDisk(m) > 0 \/ IsLeft(m)}
  <2>1. ASSUME NEW m PROVE InFiles(m) > 0 <=> OnDisk(m) > 0 \/ IsLeft(m)
    <3> DEFINE having == {t \in DOMAIN disk \ InReplay : m \in MsgsIn(disk[t])}
    <3>1. IsFiniteSet(having)
      <4>1. IsFiniteSet(DOMAIN disk)
        BY FiniteDisk DEF FlowInv, TypeOK
      <4>2. having \subseteq DOMAIN disk
        OBVIOUS
      <4>3. QED
        BY <4>1, <4>2, FS_Subset
    <3>2. InFiles(m) = Cardinality(having)
      BY DEF InFiles, InReplay
    <3>3. having # {} <=> OnDisk(m) > 0 \/ IsLeft(m)
      <4>1. Unread \subseteq DOMAIN disk \ InReplay
        <5>1. CASE mpc \in {"print", "remove"}
          BY <5>1 DEF Unread, Found, InReplay, Steady, Replaying, FlowInv, FilesInv,
              Staged
        <5>2. CASE mpc \notin {"print", "remove"}
          BY <5>2 DEF Unread, Found, InReplay, Replaying
        <5>3. QED
          BY <5>1, <5>2
      <4>2. DOMAIN disk \ InReplay = Unread \cup Left
        BY <4>1 DEF Left
      <4>3. QED
        BY <4>2 DEF OnDisk, IsLeft
    <3> HIDE DEF having
    <3>4. Cardinality(having) \in Nat /\ (Cardinality(having) = 0 <=> having = {})
      BY <3>1, FS_EmptySet, FS_CardinalityType
    <3>5. QED
      BY <3>2, <3>3, <3>4
  <2>2. \A m : OnDisk(m) > 0 \/ IsLeft(m) => m \in Known
    <3>1. \A t \in DOMAIN disk : MsgsIn(disk[t]) \subseteq Known
      BY DEF Steady, Known, BacklogMsgs
    <3>2. Unread \subseteq DOMAIN disk /\ Left \subseteq DOMAIN disk
      BY DEF Unread, Found, Left
    <3>3. QED
      BY <3>1, <3>2 DEF OnDisk, IsLeft
  <2>3. QED
    BY <1>2, <2>1, <2>2 DEF InFilesOnly, Known
<1>7. QED
  BY <1>1, <1>5, <1>6, PlacesSome DEF Mapped

-----------------------------------------------------------------------------
(* The steps *)

\* The file whose entry or whose records are in hand, and the index, are as they were.
IndexAsItWas ==
    /\ UNCHANGED <<disk, files, top, str, ofs, spilled>>
    /\ rpc' \notin Writing /\ (rpc' = "start" <=> rpc = "start")
    /\ mpc' \in Replaying <=> mpc \in Replaying
    /\ mpc' \in Replaying => mpc' = mpc \/ (mpc = "print" /\ mpc' = "remove")

\* The files whose records are still to be read, and those that were left, are.
FilesAsTheyWere ==
    /\ Unread' = Unread /\ \A t \in Unread : disk'[t] = disk[t]
    /\ Stays \/ (Left' = Left /\ \A t \in Left : disk'[t] = disk[t])

\* Lemma: if the index is, so are the files.
LEMMA IndexThenFiles ==
  ASSUME Steady, IndexAsItWas
  PROVE  Steady' /\ FilesAsTheyWere
<1>1. UNCHANGED <<disk, files, top, str, ofs, spilled>>
  BY DEF IndexAsItWas
<1>2. Steady'
  <2>1. mpc' \in {"read", "split", "erase"} => top' = Oldest(files')
    BY <1>1 DEF IndexAsItWas, Steady, Replaying
  <2>2. mpc' \in {"print", "remove"} => top' \notin ToSet(files')
    BY <1>1 DEF IndexAsItWas, Steady, Replaying
  <2>3. mpc' # "split" => str' = <<>>
    BY <1>1 DEF IndexAsItWas, Steady, Replaying
  <2>4. rpc' \notin Writing
    BY DEF IndexAsItWas
  <2>5. QED
    BY <1>1, <2>1, <2>2, <2>3, <2>4 DEF Steady
<1>3. Found' = Found
  BY <1>1 DEF Found, IndexAsItWas
<1>4. mpc' \in {"split", "erase"} <=> mpc \in {"split", "erase"}
  BY DEF IndexAsItWas, Replaying
<1>5. mpc' \in Replaying \ {"read"} <=> mpc \in Replaying \ {"read"}
  BY DEF IndexAsItWas, Replaying
<1>6. Unread' = Unread /\ InReplay' = InReplay
  BY <1>1, <1>3, <1>4, <1>5 DEF Unread, InReplay
<1>7. QED
  BY <1>1, <1>2, <1>6 DEF FilesAsTheyWere, Left

\* Lemma: as long as there is room for what fails, run leaves the files alone.
LEMMA RunKeepsFiles ==
  ASSUME FlowInv, Steady, RoomToFail, ~torn, RunStep
  PROVE  Steady' /\ FilesAsTheyWere
<1> USE DEF mover, outside, life
<1>1. CASE LoadFileNames
  <2>1. /\ rpc = "start" /\ rpc' = "top" /\ mpc = "off" /\ mpc' = "top"
        /\ files = <<>> /\ files' = Ascending(DOMAIN disk)
        /\ UNCHANGED <<disk, top, str, ofs, spilled>>
    BY <1>1 DEF LoadFileNames, RunTo, MoveTo, FlowInv, FilesInv, Staged
  <2> DEFINE n == Cardinality(DOMAIN disk)
  <2>2. /\ DOMAIN files' = 1 .. n
        /\ \A i, j \in 1 .. n : i < j => files'[i] < files'[j]
        /\ \A t \in DOMAIN disk : \E i \in 1 .. n : files'[i] = t
    <3>1. DOMAIN disk \in SUBSET Nat /\ IsFiniteSet(DOMAIN disk)
      BY FiniteDisk DEF FlowInv, TypeOK
    <3>2. QED
      BY <2>1, <3>1, AscendingLists
  <2>3. DOMAIN disk \subseteq ToSet(files')
    BY <2>2 DEF ToSet
  <2>4. Found = DOMAIN disk /\ Found' = DOMAIN disk
    BY <2>1, <2>3 DEF Found
  <2>5. /\ Unread = DOMAIN disk /\ Unread' = DOMAIN disk
        /\ InReplay = {} /\ InReplay' = {}
    BY <2>1, <2>4 DEF Unread, InReplay, Replaying
  <2>6. FilesAsTheyWere
    BY <2>1, <2>5 DEF FilesAsTheyWere, Left
  <2>7. /\ mpc' \notin {"read", "split", "erase"} /\ mpc' \notin {"print", "remove"}
        /\ rpc' \notin Writing /\ mpc # "split"
    BY <2>1 DEF Writing
  <2>8. \A i, j \in DOMAIN files' : i < j => files'[i] < files'[j]
    BY <2>2
  <2>9. Steady'
    BY <2>1, <2>7, <2>8 DEF Steady
  <2>10. QED
    BY <2>6, <2>9
<1>2. ASSUME ~LoadFileNames PROVE IndexAsItWas
  <2>1. rpc \notin Writing
    BY DEF Steady
  <2>2. ~(CopyOldest \/ EraseOldest \/ RemoveOldest \/ IndexFile \/ OpenFile
              \/ DrainFailQueue \/ CloseFile)
    BY <2>1 DEF CopyOldest, EraseOldest, RemoveOldest, IndexFile, OpenFile,
        DrainFailQueue, CloseFile, Writing
  <2>3. CASE RunReads
    <3>1. rpc' \in {"dump", "look", "pop", "top", "dumpfront", "dumpfail", "failfront", "done"}
          /\ rpc # "start"
      <4>1. ~(rpc = "check" /\ Len(m_fail_queue) >= SpillAt)
        <5>1. Len(m_fail_queue) \in Nat /\ SpillAt \in Nat
          BY LenProperties, LimitsAssumption DEF FlowInv, TypeOK
        <5>2. QED
          BY <5>1 DEF RoomToFail
      <4>2. QED
        BY <2>1, <2>3, <4>1 DEF RunReads, RunSees, RunTo, Writing
    <3>2. UNCHANGED <<disk, files, mover, ofs, spilled>>
      BY <2>3 DEF RunReads
    <3>3. QED
      BY <3>1, <3>2 DEF IndexAsItWas, Writing
  <2>4. CASE \/ FrontRecord \/ PopRecord \/ SendSucceeds \/ SendFails \/ GiveUp \/ Park
             \/ FrontDumped \/ PopDumped \/ FrontFailDumped \/ PopFailDumped
    <3>1. UNCHANGED <<disk, files, mover, ofs, spilled>>
      BY <2>4 DEF FrontRecord, PopRecord, SendSucceeds, SendFails, GiveUp, Park,
          FrontDumped, PopDumped, FrontFailDumped, PopFailDumped
    <3>2. rpc # "start" /\ rpc' \in {"popped", "send", "park", "check", "dumppop", "dump",
                                     "failpop", "dumpfail"}
      BY <2>4 DEF FrontRecord, PopRecord, SendSucceeds, SendFails, GiveUp, Park,
          FrontDumped, PopDumped, FrontFailDumped, PopFailDumped, RunTo
    <3>3. QED
      BY <3>1, <3>2 DEF IndexAsItWas, Writing
  <2>5. QED
    BY <1>2, <2>2, <2>3, <2>4 DEF RunStep
<1>3. QED
  BY <1>1, <1>2, IndexThenFiles

\* Lemma: MoveData takes the records of one file after the other.
LEMMA MoverKeepsFiles ==
  ASSUME FlowInv, Steady, MoverStep
  PROVE  Steady' /\ (ReadFile \/ FilesAsTheyWere)
<1> USE DEF runner, outside, life
<1>0. mpc # "off" /\ rpc # "start"
  BY DEF MoverStep, MoverReads, MoverSees, Swap, FrontFailed, PopFailed, PutBack, CopyFirst,
      ReadFile, PushSplit, EraseFirst, RemoveReplayed, ClearFlag, FlowInv, FilesInv, Staged
<1>1. CASE CopyFirst
  <2>1. /\ mpc = "replay" /\ mpc' = "read" /\ top' = Oldest(files)
        /\ UNCHANGED <<disk, files, rpc, str, ofs, spilled>>
    BY <1>1 DEF CopyFirst, MoveTo
  <2>2. Steady'
    BY <2>1 DEF Steady
  <2>3. Found' = Found
    BY <2>1 DEF Found
  <2>4. Unread' = Unread /\ InReplay' = InReplay
    BY <2>1, <2>3 DEF Unread, InReplay, Replaying
  <2>5. QED
    BY <2>1, <2>2, <2>4 DEF FilesAsTheyWere, Left
<1>2. CASE ReadFile
  <2>1. /\ mpc = "read" /\ mpc' = "split"
        /\ UNCHANGED <<disk, files, rpc, top, ofs, spilled>>
    BY <1>2 DEF ReadFile, MoveTo
  <2>2. QED
    BY <1>2, <2>1 DEF Steady
<1>3. CASE PushSplit
  <2>1. /\ mpc = "split" /\ mpc' \in {"split", "erase"} /\ (mpc' # "split" => str' = <<>>)
        /\ UNCHANGED <<disk, files, rpc, top, ofs, spilled>>
    BY <1>3 DEF PushSplit, MoveTo
  <2>2. Steady'
    BY <2>1 DEF Steady
  <2>3. Found' = Found
    BY <2>1 DEF Found
  <2>4. Unread' = Unread /\ InReplay' = InReplay
    BY <2>1, <2>3 DEF Unread, InReplay, Replaying
  <2>5. QED
    BY <2>1, <2>2, <2>4 DEF FilesAsTheyWere, Left
<1>4. CASE EraseFirst
  <2>1. /\ mpc = "erase" /\ mpc' = "print" /\ files # <<>> /\ files \in Seq(Times)
        /\ files' = Tail(files) /\ top = Head(files)
        /\ UNCHANGED <<disk, rpc, top, str, ofs, spilled>>
    BY <1>4 DEF EraseFirst, MoveTo, Erased, Oldest, Steady, FlowInv, FilesInv, Staged,
        Picking, TypeOK
  <2>2. /\ Head(files) = files[1] /\ Len(files) \in Nat \ {0} /\ DOMAIN files = 1 .. Len(files)
        /\ DOMAIN Tail(files) = 1 .. Len(files) - 1
        /\ \A i \in 1 .. Len(files) - 1 : Tail(files)[i] = files[i + 1]
    BY <2>1, Tails
  <2>3. \A i \in 1 .. Len(files) : files[i] \in Nat
    <3>1. \A i \in DOMAIN files : files[i] \in Times
      BY <2>1, ElementOfSeq, LenProperties
    <3>2. Times \subseteq Nat
      BY DEF Times
    <3>3. QED
      BY <2>2, <3>1, <3>2
  <2>4. \A i, j \in 1 .. Len(files) : i < j => files[i] < files[j]
    BY <2>2 DEF Steady
  <2>5. \A i, j \in DOMAIN files' : i < j => files'[i] < files'[j]
    <3> SUFFICES ASSUME NEW i \in 1 .. Len(files) - 1, NEW j \in 1 .. Len(files) - 1, i < j
                 PROVE  files[i + 1] < files[j + 1]
      BY <2>1, <2>2
    <3>1. i + 1 \in 1 .. Len(files) /\ j + 1 \in 1 .. Len(files) /\ i + 1 < j + 1
      BY <2>2
    <3>2. QED
      BY <2>4, <3>1
  <2>6. top \notin ToSet(files')
    <3> SUFFICES ASSUME NEW i \in 1 .. Len(files) - 1 PROVE files[i + 1] # top
      BY <2>1, <2>2 DEF ToSet
    <3>1. 1 \in 1 .. Len(files) /\ i + 1 \in 1 .. Len(files) /\ 1 < i + 1
      BY <2>2
    <3>2. files[1] < files[i + 1] /\ files[1] \in Nat /\ files[i + 1] \in Nat
      BY <2>3, <2>4, <3>1
    <3>3. QED
      BY <2>1, <2>2, <3>2
  <2>7. ToSet(files) \ {top} = ToSet(files')
    <3>1. \A i \in 1 .. Len(files) : i = 1 \/ i - 1 \in 1 .. Len(files) - 1
      BY <2>2
    <3>2. \A i \in 1 .. Len(files) : files[i] = top \/ files[i] \in ToSet(files')
      <4> SUFFICES ASSUME NEW i \in 1 .. Len(files), i # 1 PROVE files[i] \in ToSet(files')
        BY <2>1, <2>2
      <4>1. i - 1 \in 1 .. Len(files) - 1 /\ (i - 1) + 1 = i
        BY <3>1
      <4>2. files'[i - 1] = files[i]
        BY <2>1, <2>2, <4>1
      <4>3. QED
        BY <2>1, <2>2, <4>1, <4>2 DEF ToSet
    <3>3. \A i \in 1 .. Len(files) - 1 : i + 1 \in 1 .. Len(files)
      BY <2>2
    <3>4. ToSet(files') \subseteq ToSet(files)
      BY <2>1, <2>2, <3>3 DEF ToSet
    <3>5. QED
      BY <2>2, <2>6, <3>2, <3>4 DEF ToSet
  <2>8. Steady'
    BY <2>1, <2>5, <2>6 DEF Steady
  <2>9. Unread' = Unread /\ InReplay' = InReplay
    BY <1>0, <2>1, <2>7 DEF Unread, Found, InReplay, Replaying
  <2>10. QED
    BY <2>1, <2>8, <2>9 DEF FilesAsTheyWere, Left
<1>5. CASE RemoveReplayed
  <2>1. /\ mpc = "remove" /\ mpc' = "clear" /\ top \notin ToSet(files)
        /\ UNCHANGED <<files, rpc, str, spilled>>
    BY <1>5 DEF RemoveReplayed, MoveTo, Steady
  <2>2. /\ DOMAIN disk' \subseteq DOMAIN disk /\ DOMAIN disk \ DOMAIN disk' \subseteq {top}
        /\ \A t \in DOMAIN disk' : disk'[t] = disk[t]
        /\ top \in DOMAIN disk' => Stays
    BY <1>5 DEF RemoveReplayed, RemoveFile, FileRead, Forget, Stays
  <2>3. ofs' = ofs
    <3>1. ofs = NoFile
      BY DEF Steady
    <3>2. ofs' = ofs \/ ofs' = [ofs EXCEPT !.linked = @ /\ ofs.time # top]
      BY <1>5 DEF RemoveReplayed, RemoveFile, FileRead
    <3>3. QED
      BY <3>1, <3>2 DEF NoFile
  <2>4. Steady'
    BY <2>1, <2>2, <2>3 DEF Steady
  <2>5. Unread = ToSet(files) \cap DOMAIN disk /\ Unread' = ToSet(files) \cap DOMAIN disk'
    BY <1>0, <2>1 DEF Unread, Found
  <2>6. Unread' = Unread
    BY <2>1, <2>2, <2>5
  <2>7. InReplay = {top} /\ InReplay' = {}
    BY <2>1 DEF InReplay, Replaying
  <2>8. top \notin DOMAIN disk' => Left' = Left
    BY <2>2, <2>6, <2>7 DEF Left
  <2>9. Left \subseteq DOMAIN disk' /\ Unread \subseteq DOMAIN disk'
    BY <2>2, <2>5, <2>6, <2>7 DEF Left
  <2>10. FilesAsTheyWere
    BY <2>2, <2>6, <2>8, <2>9 DEF FilesAsTheyWere
  <2>11. QED
    BY <2>4, <2>10
<1>6. CASE MoverReads \/ Swap \/ FrontFailed \/ PopFailed \/ PutBack \/ ClearFlag
  <2>1. UNCHANGED <<disk, files, top, str, ofs, spilled, rpc>>
    BY <1>6 DEF MoverReads, Swap, FrontFailed, PopFailed, PutBack, ClearFlag
  <2>2. \/ mpc \notin Replaying /\ mpc' \notin Replaying
        \/ mpc = "print" /\ mpc' = "remove"
    BY <1>6 DEF MoverReads, MoverSees, Swap, FrontFailed, PopFailed, PutBack, ClearFlag,
        MoveTo, Replaying
  <2>3. IndexAsItWas
    BY <2>1, <2>2 DEF IndexAsItWas, Steady, Replaying
  <2>4. QED
    BY <2>3, IndexThenFiles
<1>7. QED
  BY <1>1, <1>2, <1>3, <1>4, <1>5, <1>6 DEF MoverStep

\* Lemma: and so does the process, which does not end.
LEMMA SteadyKept ==
  ASSUME MaxRestarts = 0, FlowInv, Steady, RoomToFail, ~torn, Next
  PROVE  /\ Steady' /\ (SendToFlowServer \/ RunStep \/ MoverStep \/ Quit)
         /\ ReadFile \/ FilesAsTheyWere
<1>1. ~(Exit \/ ExitOrderly) /\ ~Restart
  <2>1. restarts \in 0 .. MaxRestarts /\ rpc # "down"
    BY DEF FlowInv, TypeOK, Steady, Writing
  <2>2. ~(restarts < MaxRestarts)
    BY <2>1
  <2>3. QED
    BY <2>1, <2>2 DEF Exit, ExitOrderly, ProcessEnds, Restart
<1>2. CASE SendToFlowServer \/ Quit
  <2>1. IndexAsItWas
    BY <1>2 DEF SendToFlowServer, Quit, IndexAsItWas, Steady, runner, mover, life
  <2>2. QED
    BY <1>2, <2>1, IndexThenFiles
<1>3. QED
  BY <1>1, <1>2, RunKeepsFiles, MoverKeepsFiles DEF Next

\* Lemma: then a message is on disk, or in a file that was left, where it was.
LEMMA OnDiskKept ==
  ASSUME FilesAsTheyWere, NEW m
  PROVE  OnDisk(m)' = OnDisk(m) /\ (Stays \/ IsLeft(m)' = IsLeft(m))
<1>1. Unread' = Unread /\ \A t \in Unread : disk'[t] = disk[t]
  BY DEF FilesAsTheyWere
<1>2. OnDisk(m)' = OnDisk(m)
  BY <1>1 DEF OnDisk
<1>3. ASSUME ~Stays PROVE IsLeft(m)' = IsLeft(m)
  BY <1>3 DEF FilesAsTheyWere, IsLeft
<1>4. QED
  BY <1>2, <1>3

\* Lemma: a message handed over waits.
LEMMA HandedOver ==
  ASSUME TypeOK, SendToFlowServer, NEW m \in Nat
  PROVE  /\ Waits(m)' = Waits(m) + Bit(m, <<accepted + 1>>)
         /\ Unseen(m) = Unseen(m)' + Bit(m, <<accepted + 1>>)
         /\ MsgsIn(<<accepted + 1>>) = {accepted + 1}
         /\ accepted + 1 \in 1 .. NumMsgs /\ accepted' = accepted + 1
         /\ UNCHANGED <<delivered, dumped>>
<1>1. /\ m_queue' = Append(m_queue, <<accepted + 1>>) /\ accepted' = accepted + 1
      /\ accepted < NumMsgs
      /\ UNCHANGED <<m_fail_queue, str, delivered, dumped, rpc, data_info, mpc, info>>
  BY DEF SendToFlowServer, runner, mover
<1>2. accepted \in Nat /\ accepted + 1 \in 1 .. NumMsgs /\ NumMsgs \in Nat
  BY <1>1, BoundsAssumption DEF TypeOK
<1>3. <<accepted + 1>> \in Seq(Nat) /\ MsgsIn(<<accepted + 1>>) = {accepted + 1}
  BY <1>2 DEF MsgsIn, ToSet, Sep
<1>4. Places(m, m_queue') = Places(m, m_queue) + Bit(m, <<accepted + 1>>)
  BY <1>1, <1>3, PlacesAppend DEF TypeOK
<1>5. /\ Places(m, m_queue) \in Nat /\ Places(m, m_fail_queue) \in Nat
      /\ Places(m, str) \in Nat
      /\ InHand(m) \in Nat /\ InTransit(m) \in Nat
      /\ InHand(m)' = InHand(m) /\ InTransit(m)' = InTransit(m)
  BY <1>1, PlacesType DEF TypeOK, InHand, InTransit
<1>6. Bit(m, <<accepted + 1>>) \in Nat
  BY DEF Bit
<1>7. Waits(m)' = Waits(m) + Bit(m, <<accepted + 1>>)
  BY <1>1, <1>4, <1>5, <1>6 DEF Waits
<1>8. Unseen(m) = Unseen(m)' + Bit(m, <<accepted + 1>>)
  BY <1>1, <1>2, <1>3 DEF Unseen, Bit
<1>9. QED
  BY <1>1, <1>2, <1>3, <1>7, <1>8

\* Lemma: the messages of a file that is read come from disk to memory.
LEMMA ReadBack ==
  ASSUME CutCleanly, FlowInv, Steady, ReadFile, NEW m
  PROVE  /\ Waits(m)' = Waits(m) + Bit(m, Content(top))
         /\ OnDisk(m) = OnDisk(m)' + Bit(m, Content(top))
         /\ IsLeft(m)' = IsLeft(m)
         /\ UNCHANGED <<accepted, delivered, dumped>>
<1>1. /\ str' = Split(Content(top)) /\ str = <<>>
      /\ UNCHANGED <<m_queue, m_fail_queue, rpc, data_info, info, files, top, disk>>
      /\ UNCHANGED <<accepted, delivered, dumped>>
      /\ mpc = "read" /\ mpc' = "split"
  BY DEF ReadFile, MoveTo, Steady, queues, runner, outside
<1>2. Split(Content(top)) \in Seq(Seq(Nat)) /\ Places(m, Split(Content(top))) = Bit(m, Content(top))
  BY ReplayedOnce DEF FlowInv
<1>3. Waits(m)' = Waits(m) + Bit(m, Content(top))
  <2>1. Places(m, str) = 0 /\ Places(m, str') = Bit(m, Content(top))
    BY <1>1, <1>2, PlacesNone
  <2>2. /\ Places(m, m_queue) \in Nat /\ Places(m, m_fail_queue) \in Nat
        /\ InHand(m) \in Nat /\ InHand(m)' = InHand(m)
        /\ InTransit(m) = 0 /\ InTransit(m)' = 0
    BY <1>1, PlacesType DEF FlowInv, TypeOK, InHand, InTransit
  <2>3. Bit(m, Content(top)) \in Nat
    BY DEF Bit
  <2>4. QED
    BY <1>1, <2>1, <2>2, <2>3 DEF Waits
<1>4. top \in ToSet(files) /\ rpc # "start"
  <2>1. files # <<>> /\ files \in Seq(Times) /\ top = Head(files) /\ rpc # "start"
    BY <1>1 DEF Steady, Oldest, FlowInv, FilesInv, Staged, Picking, TypeOK
  <2>2. Head(files) = files[1] /\ 1 \in DOMAIN files
    BY <2>1, Tails
  <2>3. QED
    BY <2>1, <2>2 DEF ToSet
<1>5. Unread = ToSet(files) \cap DOMAIN disk /\ Unread' = Unread \ {top}
  BY <1>1, <1>4 DEF Unread, Found
<1>6. IsLeft(m)' = IsLeft(m)
  <2>1. InReplay = {} /\ InReplay' = {top}
    BY <1>1 DEF InReplay, Replaying
  <2>2. Left' = Left
    BY <1>1, <1>4, <1>5, <2>1 DEF Left
  <2>3. QED
    BY <1>1, <2>2 DEF IsLeft
<1>7. OnDisk(m) = OnDisk(m)' + Bit(m, Content(top))
  <2>1. CASE m \in MsgsIn(Content(top))
    <3>1. top \in DOMAIN disk /\ Content(top) = disk[top]
      BY <2>1 DEF Content, MsgsIn, ToSet
    <3>2. \A u \in DOMAIN disk \ {top} : m \notin MsgsIn(disk[u])
      BY <2>1, <3>1 DEF Steady, CutCleanly
    <3>3. OnDisk(m) = 1
      BY <1>4, <1>5, <2>1, <3>1 DEF OnDisk
    <3>4. OnDisk(m)' = 0
      BY <1>1, <1>5, <3>2 DEF OnDisk
    <3>5. QED
      BY <2>1, <3>3, <3>4 DEF Bit
  <2>2. CASE m \notin MsgsIn(Content(top))
    <3>1. OnDisk(m)' = OnDisk(m)
      BY <1>1, <1>5, <2>2 DEF OnDisk, Content
    <3>2. OnDisk(m) \in Nat
      BY DEF OnDisk
    <3>3. QED
      BY <2>2, <3>1, <3>2 DEF Bit
  <2>3. QED
    BY <2>1, <2>2
<1>8. QED
  BY <1>1, <1>3, <1>6, <1>7

\* Lemma: what was torn stays so.
LEMMA StaysTorn == torn /\ [Next]_vars => torn'
<1> SUFFICES ASSUME torn, [Next]_vars PROVE torn'
  OBVIOUS
<1> USE DEF queues, runner, mover, outside, life
<1>1. CASE RunStep
  BY <1>1 DEF RunStep, LoadFileNames, RunReads, FrontRecord, PopRecord, SendSucceeds,
      SendFails, GiveUp, Park, CopyOldest, EraseOldest, RemoveOldest, IndexFile,
      OpenFile, DrainFailQueue, CloseFile, FrontDumped, PopDumped, FrontFailDumped,
      PopFailDumped
<1>2. CASE MoverStep
  BY <1>2 DEF MoverStep, MoverReads, Swap, FrontFailed, PopFailed, PutBack, CopyFirst,
      ReadFile, PushSplit, EraseFirst, RemoveReplayed, ClearFlag
<1>3. CASE SendToFlowServer \/ Quit \/ Exit \/ ExitOrderly \/ Restart
  BY <1>3 DEF SendToFlowServer, Quit, Exit, ExitOrderly, ProcessEnds, Restart
<1>4. CASE UNCHANGED vars
  BY <1>4 DEF vars
<1>5. QED
  BY <1>1, <1>2, <1>3, <1>4 DEF Next

\* Lemma: at first every message is still to come, or in a file.
LEMMA UplinkInit == CutCleanly /\ Init => UpInv
<1> SUFFICES ASSUME CutCleanly, Init PROVE UpInv
  OBVIOUS
<1>0. files = <<>> /\ DOMAIN files = {} /\ mpc = "off" /\ rpc = "start"
  BY DEF Init
<1>1. Steady
  BY <1>0 DEF Init, Steady, Writing
<1>2. ASSUME NEW m \in Nat
      PROVE  Unseen(m) + Held(m) + OnDisk(m) = IF m \in Known THEN 1 ELSE 0
  <2>1. Held(m) = 0
    <3>1. /\ Places(m, m_queue) = 0 /\ Places(m, m_fail_queue) = 0
          /\ Places(m, delivered) = 0 /\ Places(m, dumped) = 0 /\ Places(m, str) = 0
      BY PlacesNone DEF Init
    <3>2. InHand(m) = 0 /\ InTransit(m) = 0
      BY DEF Init, InHand, InTransit
    <3>3. QED
      BY <3>1, <3>2 DEF Held
  <2>2. Unseen(m) = IF m \in 1 .. NumMsgs THEN 1 ELSE 0
    BY BoundsAssumption DEF Init, Unseen
  <2>3. OnDisk(m) = IF m \in BacklogMsgs THEN 1 ELSE 0
    BY <1>0 DEF Init, OnDisk, Unread, Found, BacklogMsgs
  <2>4. QED
    BY <2>1, <2>2, <2>3, BacklogAssumption DEF Known
<1>3. QED
  BY <1>1, <1>2 DEF UpInv, OneEach

\* Lemma: and from then on it is in one place.
LEMMA UplinkNext ==
  ASSUME MaxRestarts = 0, CutCleanly, FlowInv, UpInv, RoomToFail, [Next]_vars
  PROVE  UpInv'
<1> SUFFICES ASSUME ~torn' PROVE Steady' /\ OneEach'
  BY DEF UpInv
<1>0. ~torn /\ Steady /\ OneEach
  BY StaysTorn DEF UpInv
<1>1. FlowInv' /\ Counted /\ Counted'
  BY FlowNext, Counts, PTL DEF FlowInv
<1>2. CASE Next
  <2>1. /\ Steady' /\ (SendToFlowServer \/ RunStep \/ MoverStep \/ Quit)
        /\ ReadFile \/ FilesAsTheyWere
    BY <1>0, <1>2, SteadyKept
  <2>2. ASSUME NEW m \in Nat
        PROVE  Unseen(m)' + Held(m)' + OnDisk(m)' = IF m \in Known THEN 1 ELSE 0
    <3> DEFINE total == IF m \in Known THEN 1 ELSE 0
    <3>1. Unseen(m) + Held(m) + OnDisk(m) = total
      BY <1>0 DEF OneEach
    <3>2. /\ Unseen(m) \in Nat /\ Waits(m) \in Nat /\ OnDisk(m) \in Nat
          /\ Unseen(m)' \in Nat /\ Waits(m)' \in Nat /\ OnDisk(m)' \in Nat
          /\ Places(m, delivered) \in Nat /\ Places(m, dumped) \in Nat
          /\ Held(m) = Waits(m) + Places(m, delivered) + Places(m, dumped)
          /\ Held(m)' = Waits(m)' + Places(m, delivered)' + Places(m, dumped)'
      BY <1>1, Zenon DEF Counted
    <3> HIDE DEF total
    <3>3. CASE SendToFlowServer
      <4> DEFINE b == Bit(m, <<accepted + 1>>)
      <4>1. /\ Waits(m)' = Waits(m) + b /\ Unseen(m) = Unseen(m)' + b
            /\ UNCHANGED <<delivered, dumped>>
        BY <3>3, HandedOver DEF FlowInv
      <4>2. OnDisk(m)' = OnDisk(m)
        <5>1. ~ReadFile
          BY <3>3 DEF SendToFlowServer, ReadFile, mover, MoveTo
        <5>2. QED
          BY <2>1, <5>1, OnDiskKept
      <4>3. b \in Nat
        BY DEF Bit
      <4> HIDE DEF b
      <4>4. Unseen(m)' + Held(m)' + OnDisk(m)' = Unseen(m) + Held(m) + OnDisk(m)
        <5>1. Held(m)' = Waits(m) + b + Places(m, delivered) + Places(m, dumped)
          BY <3>2, <4>1
        <5>2. QED
          BY <3>2, <4>1, <4>2, <4>3, <5>1
      <4>5. QED
        BY <3>1, <4>4 DEF total
    <3>4. CASE ReadFile
      <4> DEFINE b == Bit(m, Content(top))
      <4>1. /\ Waits(m)' = Waits(m) + b /\ OnDisk(m) = OnDisk(m)' + b
            /\ UNCHANGED <<accepted, delivered, dumped>>
        BY <1>0, <3>4, ReadBack
      <4>2. Unseen(m)' = Unseen(m)
        BY <4>1 DEF Unseen
      <4>3. b \in Nat
        BY DEF Bit
      <4> HIDE DEF b
      <4>4. Unseen(m)' + Held(m)' + OnDisk(m)' = Unseen(m) + Held(m) + OnDisk(m)
        <5>1. Held(m)' = Waits(m) + b + Places(m, delivered) + Places(m, dumped)
          BY <3>2, <4>1
        <5>2. QED
          BY <3>2, <4>1, <4>2, <4>3, <5>1
      <4>5. QED
        BY <3>1, <4>4 DEF total
    <3>5. CASE ~ReadFile /\ ~SendToFlowServer
      <4>1. Held(m)' = Held(m) /\ UNCHANGED accepted
        <5>1. TypeOK /\ Staged /\ TypeOK' /\ ~spilled'
          BY <1>1, <2>1 DEF FlowInv, FilesInv, Steady
        <5>2. QED
          BY <2>1, <3>5, <5>1, RecordsPass
      <4>2. OnDisk(m)' = OnDisk(m) /\ Unseen(m)' = Unseen(m)
        BY <2>1, <3>5, <4>1, OnDiskKept DEF Unseen
      <4>3. QED
        BY <3>1, <4>1, <4>2 DEF total
    <3>6. QED
      BY <3>3, <3>4, <3>5
  <2>3. QED
    BY <2>1, <2>2 DEF OneEach
<1>3. CASE UNCHANGED vars
  <2>1. UNCHANGED <<m_queue, m_fail_queue, files, ofs, data_info, rpc, top, info, str, mpc,
                    dumped, accepted, delivered, spilled, disk>>
    BY <1>3 DEF vars, queues, runner, mover, outside, life
  <2>2. Steady'
    BY <1>0, <2>1 DEF Steady
  <2>3. ASSUME NEW m \in Nat
        PROVE  UNCHANGED <<Unseen(m), Held(m), OnDisk(m)>>
    BY <2>1 DEF Unseen, Held, OnDisk, Unread, Found, InHand, InTransit
  <2>4. QED
    BY <1>0, <2>2, <2>3 DEF OneEach
<1>4. QED
  BY <1>2, <1>3

-----------------------------------------------------------------------------
(* The steps as steps of Uplink *)

Sound == FlowInv /\ Steady /\ OneEach

\* Nothing is taken from disk, and no file is left there.
DiskHolds ==
    \A m \in Nat : UNCHANGED <<Held(m), OnDisk(m), IsLeft(m)>>

\* Lemma: then the places can be counted.
LEMMA SoundCounts == Sound => Mapped /\ Counted
  BY Whereabouts, Counts DEF Sound, FlowInv

\* Lemma: what has left for the server or the dump no longer waits; and a message
\* that has not, and came from nowhere else, waits as it did.
LEMMA Leaving ==
  ASSUME Counted, Counted', OneEach', NEW m \in Nat
  PROVE  /\ Places(m, delivered)' > 0 => Waits(m)' = 0
         /\ Places(m, dumped)' > 0 => Waits(m)' = 0
         /\ Held(m)' = Held(m) /\ Places(m, delivered)' = Places(m, delivered)
                /\ Places(m, dumped)' = Places(m, dumped)
            => Waits(m)' = Waits(m)
<1>1. /\ Waits(m) \in Nat /\ Places(m, delivered) \in Nat /\ Places(m, dumped) \in Nat
      /\ Held(m) = Waits(m) + Places(m, delivered) + Places(m, dumped)
      /\ Waits(m)' \in Nat /\ Places(m, delivered)' \in Nat /\ Places(m, dumped)' \in Nat
      /\ Held(m)' = Waits(m)' + Places(m, delivered)' + Places(m, dumped)'
      /\ Held(m)' \in Nat /\ OnDisk(m)' \in Nat /\ Unseen(m)' \in Nat
  BY Zenon DEF Counted
<1>2. Unseen(m)' + Held(m)' + OnDisk(m)' \in {0, 1}
  BY DEF OneEach
<1>3. Held(m)' <= 1
  BY <1>1, <1>2
<1>4. \A w, s, p \in Nat : w + s + p <= 1 => (s > 0 => w = 0) /\ (p > 0 => w = 0)
  OBVIOUS
<1>5. /\ Places(m, delivered)' > 0 => Waits(m)' = 0
      /\ Places(m, dumped)' > 0 => Waits(m)' = 0
  BY <1>1, <1>3, <1>4, Zenon
<1>6. Held(m)' = Held(m) /\ Places(m, delivered)' = Places(m, delivered)
          /\ Places(m, dumped)' = Places(m, dumped)
      => Waits(m)' = Waits(m)
  BY <1>1
<1>7. QED
  BY <1>5, <1>6

\* Lemma: what is sent was waiting.
LEMMA SendIsSend ==
  ASSUME Sound, Sound', SendSucceeds,
         DiskHolds
  PROVE  /\ MsgsIn(data_info) \in SUBSET InMemory
         /\ Abstract!Send(MsgsIn(data_info))
<1> DEFINE S == MsgsIn(data_info)
<1>1. Mapped /\ Mapped' /\ Counted /\ Counted'
  BY SoundCounts, PTL
<1>2. /\ delivered' = Append(delivered, data_info) /\ rpc = "send"
      /\ UNCHANGED <<dumped, accepted>>
  BY DEF SendSucceeds
<1>3. ASSUME NEW m \in Nat
      PROVE  Places(m, delivered)' = Places(m, delivered) + Bit(m, data_info)
  BY <1>2, PlacesAppend DEF Sound, FlowInv, TypeOK
<1>4. ASSUME NEW m \in S PROVE m \in Nat /\ Waits(m) > 0
  <2>1. m \in Nat
    BY <1>4, MsgsAreNumbers DEF Sound, FlowInv, TypeOK
  <2>2. InHand(m) = 1
    BY <1>2, <1>4 DEF InHand
  <2>3. /\ Places(m, m_queue) \in Nat /\ Places(m, m_fail_queue) \in Nat
        /\ InTransit(m) \in Nat /\ Places(m, str) \in Nat
    BY PlacesType DEF Sound, FlowInv, TypeOK, InTransit
  <2>4. Waits(m) > 0
    BY <2>2, <2>3 DEF Waits
  <2>5. QED
    BY <2>1, <2>4
<1>5. ASSUME NEW m \in Nat
      PROVE  /\ Waits(m)' > 0 <=> Waits(m) > 0 /\ m \notin S
             /\ Places(m, delivered)' > 0 <=> Places(m, delivered) > 0 \/ m \in S
  <2>1. Places(m, delivered) \in Nat /\ Places(m, dumped)' = Places(m, dumped)
    BY <1>1, <1>2 DEF Counted
  <2>2. CASE m \in S
    <3>1. Places(m, delivered)' = Places(m, delivered) + 1
      BY <1>3, <2>2 DEF Bit
    <3>2. Places(m, delivered)' > 0
      BY <2>1, <3>1
    <3>3. Waits(m)' = 0
      BY <1>1, <3>2, Leaving DEF Sound, DiskHolds
    <3>4. QED
      BY <2>2, <3>2, <3>3
  <2>3. CASE m \notin S
    <3>1. Places(m, delivered)' = Places(m, delivered)
      BY <1>3, <2>1, <2>3 DEF Bit
    <3>2. Waits(m)' = Waits(m)
      BY <1>1, <2>1, <3>1, Leaving DEF Sound, DiskHolds
    <3>3. QED
      BY <2>3, <3>1, <3>2
  <2>4. QED
    BY <2>2, <2>3
<1> HIDE DEF S
<1>6. InMemory' = InMemory \ S /\ MsgsOf(delivered)' = MsgsOf(delivered) \cup S
  BY <1>1, <1>4, <1>5 DEF Mapped
<1>7. InFilesOnly' = InFilesOnly
  BY <1>1 DEF Mapped, DiskHolds
<1>8. S \in SUBSET InMemory
  BY <1>1, <1>4 DEF Mapped
<1>9. QED
  BY <1>2, <1>6, <1>7, <1>8 DEF Abstract!Send, S

\* Lemma: a record that was waiting and is written to the dump goes there whole.
LEMMA DumpIsDump ==
  ASSUME Sound, Sound', NEW r \in Seq(Nat),
         dumped' = Append(dumped, r), UNCHANGED <<delivered, accepted>>,
         \A m \in MsgsIn(r) : Waits(m) > 0,
         DiskHolds
  PROVE  MsgsIn(r) \in SUBSET InMemory /\ Abstract!Dump(MsgsIn(r))
<1> DEFINE S == MsgsIn(r)
<1>1. Mapped /\ Mapped' /\ Counted /\ Counted'
  BY SoundCounts, PTL
<1>2. ASSUME NEW m \in Nat
      PROVE  Places(m, dumped)' = Places(m, dumped) + Bit(m, r)
  BY PlacesAppend DEF Sound, FlowInv, TypeOK
<1>3. S \subseteq Nat
  BY MsgsAreNumbers
<1>4. ASSUME NEW m \in Nat
      PROVE  /\ Waits(m)' > 0 <=> Waits(m) > 0 /\ m \notin S
             /\ Places(m, dumped)' > 0 <=> Places(m, dumped) > 0 \/ m \in S
  <2>1. Places(m, dumped) \in Nat /\ Places(m, delivered)' = Places(m, delivered)
    BY <1>1 DEF Counted
  <2>2. CASE m \in S
    <3>1. Places(m, dumped)' = Places(m, dumped) + 1
      BY <1>2, <2>2 DEF Bit
    <3>2. Places(m, dumped)' > 0
      BY <2>1, <3>1
    <3>3. Waits(m)' = 0
      BY <1>1, <3>2, Leaving DEF Sound, DiskHolds
    <3>4. QED
      BY <2>2, <3>2, <3>3
  <2>3. CASE m \notin S
    <3>1. Places(m, dumped)' = Places(m, dumped)
      BY <1>2, <2>1, <2>3 DEF Bit
    <3>2. Waits(m)' = Waits(m)
      BY <1>1, <2>1, <3>1, Leaving DEF Sound, DiskHolds
    <3>3. QED
      BY <2>3, <3>1, <3>2
  <2>4. QED
    BY <2>2, <2>3
<1>5. \A m \in S : Waits(m) > 0
  OBVIOUS
<1> HIDE DEF S
<1>6. InMemory' = InMemory \ S /\ MsgsOf(dumped)' = MsgsOf(dumped) \cup S
  BY <1>1, <1>3, <1>4 DEF Mapped
<1>7. InFilesOnly' = InFilesOnly
  BY <1>1 DEF Mapped, DiskHolds
<1>8. S \in SUBSET InMemory
  BY <1>1, <1>3, <1>5 DEF Mapped
<1>9. QED
  BY <1>6, <1>7, <1>8 DEF Abstract!Dump, S

\* Lemma: the first record of a queue waits.
LEMMA HeadWaits ==
  ASSUME TypeOK, NEW q \in Seq(Seq(Nat)),
         q = m_queue \/ q = m_fail_queue, NEW m \in MsgsIn(FirstOf(q))
  PROVE  Waits(m) > 0
<1>0. q # <<>> /\ FirstOf(q) = Head(q)
  BY DEF FirstOf, MsgsIn, ToSet
<1>1. Places(m, q) = Places(m, Tail(q)) + 1 /\ Places(m, Tail(q)) \in Nat
  BY <1>0, PlacesTail, PlacesType, Tails DEF Bit
<1>2. Places(m, q) > 0
  BY <1>1
<1>3. /\ Places(m, m_queue) \in Nat /\ Places(m, m_fail_queue) \in Nat
      /\ Places(m, str) \in Nat /\ InHand(m) \in Nat /\ InTransit(m) \in Nat
  BY PlacesType DEF TypeOK, InHand, InTransit
<1>4. QED
  BY <1>2, <1>3 DEF Waits

\* Lemma: a message handed over is accepted.
LEMMA HandOverIsAccept ==
  ASSUME Sound, Sound', SendToFlowServer,
         \A m \in Nat : UNCHANGED <<OnDisk(m), IsLeft(m)>>
  PROVE  /\ accepted + 1 \in accepted + 1 .. NumMsgs
         /\ Abstract!Accept(accepted + 1)
<1>1. Mapped /\ Mapped' /\ Counted /\ Counted'
  BY SoundCounts, PTL
<1>2. /\ MsgsIn(<<accepted + 1>>) = {accepted + 1}
      /\ accepted + 1 \in 1 .. NumMsgs /\ accepted' = accepted + 1
      /\ UNCHANGED <<delivered, dumped>>
      /\ accepted \in Nat /\ NumMsgs \in Nat
  <2>1. PICK m \in Nat : m = 0
    OBVIOUS
  <2>2. /\ MsgsIn(<<accepted + 1>>) = {accepted + 1}
        /\ accepted + 1 \in 1 .. NumMsgs /\ accepted' = accepted + 1
        /\ UNCHANGED <<delivered, dumped>>
    BY HandedOver DEF Sound, FlowInv
  <2>3. accepted \in Nat /\ NumMsgs \in Nat
    BY BoundsAssumption DEF Sound, FlowInv, TypeOK
  <2>4. QED
    BY <2>2, <2>3
<1>3. ASSUME NEW m \in Nat
      PROVE  Waits(m)' > 0 <=> Waits(m) > 0 \/ m = accepted + 1
  <2>1. Waits(m)' = Waits(m) + Bit(m, <<accepted + 1>>)
    BY HandedOver DEF Sound, FlowInv
  <2>2. Bit(m, <<accepted + 1>>) = IF m = accepted + 1 THEN 1 ELSE 0
    BY <1>2 DEF Bit
  <2>3. Waits(m) \in Nat
    BY <1>1 DEF Counted
  <2>4. QED
    BY <2>1, <2>2, <2>3
<1>4. InMemory' = InMemory \cup {accepted + 1}
  BY <1>1, <1>2, <1>3 DEF Mapped
<1>5. InFilesOnly' = InFilesOnly
  BY <1>1 DEF Mapped
<1>6. (accepted + 1 .. NumMsgs)' = (accepted + 1 .. NumMsgs) \ {accepted + 1}
  BY <1>2
<1>7. accepted + 1 \in accepted + 1 .. NumMsgs
  BY <1>2
<1>8. QED
  BY <1>2, <1>4, <1>5, <1>6, <1>7 DEF Abstract!Accept

\* Lemma: what is read from a file is recovered from disk.
LEMMA ReadIsRecover ==
  ASSUME CutCleanly, Sound, Sound', ReadFile
  PROVE  /\ MsgsIn(Content(top)) \in SUBSET InFilesOnly
         /\ Abstract!Recover(MsgsIn(Content(top)))
<1> DEFINE S == MsgsIn(Content(top))
<1>1. Mapped /\ Mapped' /\ Counted /\ Counted'
  BY SoundCounts, PTL
<1>2. UNCHANGED <<accepted, delivered, dumped>>
  BY ReadBack DEF Sound
<1>3. S \subseteq Nat
  BY ReplayedOnce, MsgsAreNumbers DEF Sound, FlowInv
<1>4. ASSUME NEW m \in Nat
      PROVE  /\ Waits(m)' > 0 <=> Waits(m) > 0 \/ m \in S
             /\ OnDisk(m)' > 0 <=> OnDisk(m) > 0 /\ m \notin S
             /\ m \in S => OnDisk(m) > 0
             /\ IsLeft(m)' = IsLeft(m)
  <2>1. /\ Waits(m)' = Waits(m) + Bit(m, Content(top))
        /\ OnDisk(m) = OnDisk(m)' + Bit(m, Content(top))
        /\ IsLeft(m)' = IsLeft(m)
    BY ReadBack DEF Sound
  <2>2. Waits(m) \in Nat /\ OnDisk(m) \in {0, 1} /\ OnDisk(m)' \in {0, 1}
    BY <1>1 DEF Counted, OnDisk
  <2>3. Bit(m, Content(top)) = IF m \in S THEN 1 ELSE 0
    BY DEF Bit
  <2> HIDE DEF S
  <2>4. CASE m \in S
    BY <2>1, <2>2, <2>3, <2>4
  <2>5. CASE m \notin S
    BY <2>1, <2>2, <2>3, <2>5
  <2>6. QED
    BY <2>4, <2>5
<1>5. ASSUME NEW m \in S PROVE ~IsLeft(m)
  <2>1. PICK t \in Unread : m \in MsgsIn(disk[t])
    BY <1>3, <1>4, <1>5 DEF OnDisk
  <2>2. t \in DOMAIN disk /\ Left \cap Unread = {} /\ Left \subseteq DOMAIN disk
    BY DEF Unread, Found, Left
  <2>3. \A u \in DOMAIN disk : u # t => m \notin MsgsIn(disk[u])
    BY <2>1, <2>2 DEF Sound, Steady, CutCleanly
  <2>4. QED
    BY <2>1, <2>2, <2>3 DEF IsLeft
<1> HIDE DEF S
<1>6. InMemory' = InMemory \cup S
  BY <1>1, <1>3, <1>4 DEF Mapped
<1>7. InFilesOnly' = InFilesOnly \ S
  <2>1. \A m \in Nat : OnDisk(m)' > 0 \/ IsLeft(m)'
                           <=> (OnDisk(m) > 0 \/ IsLeft(m)) /\ m \notin S
    BY <1>4, <1>5
  <2>2. QED
    BY <1>1, <2>1 DEF Mapped
<1>8. S \in SUBSET InFilesOnly
  BY <1>1, <1>3, <1>4 DEF Mapped
<1>9. QED
  BY <1>2, <1>6, <1>7, <1>8 DEF Abstract!Recover, S

\* Lemma: a step that takes no message to the server, to the dump, or out of a file
\* leaves each where it is.
LEMMA NothingMoves ==
  ASSUME Sound, Sound', UNCHANGED <<accepted, delivered, dumped>>, DiskHolds
  PROVE  UNCHANGED Abstract!vars
<1>1. Mapped /\ Mapped' /\ Counted /\ Counted'
  BY SoundCounts, PTL
<1>2. \A m \in Nat : Waits(m)' = Waits(m)
  <2>1. \A m : /\ Places(m, delivered)' = Places(m, delivered)
               /\ Places(m, dumped)' = Places(m, dumped)
    OBVIOUS
  <2>2. QED
    BY <1>1, <2>1, Leaving DEF Sound, DiskHolds
<1>3. InMemory' = InMemory /\ InFilesOnly' = InFilesOnly
  BY <1>1, <1>2 DEF Mapped, DiskHolds
<1>4. QED
  BY <1>3 DEF Abstract!vars

\* Lemma: every step of the uplink is one of Uplink, or none, or the one at which a
\* file stays.
LEMMA StepsAreSteps ==
  ASSUME MaxRestarts = 0, CutCleanly, RoomToFail, FlowInv, FlowInv', UpInv, UpInv',
         [Next]_vars
  PROVE  [Abstract!Next \/ torn' \/ Stays]_Abstract!vars
<1> SUFFICES ASSUME ~torn', ~Stays PROVE [Abstract!Next]_Abstract!vars
  OBVIOUS
<1> USE DEF mover, outside, life
<1>0. Sound /\ Sound' /\ ~torn
  BY StaysTorn DEF UpInv, Sound
<1>1. CASE ReadFile
  BY <1>0, <1>1, ReadIsRecover DEF Abstract!Next
<1>2. CASE Next /\ ~ReadFile
  <2>1. /\ FilesAsTheyWere /\ (SendToFlowServer \/ RunStep \/ MoverStep \/ Quit)
        /\ TypeOK /\ Staged /\ TypeOK' /\ ~spilled'
    BY <1>0, <1>2, SteadyKept DEF Sound, FlowInv, FilesInv, Steady
  <2>2. \A m \in Nat : UNCHANGED <<OnDisk(m), IsLeft(m)>>
    BY <2>1, OnDiskKept
  <2>3. CASE SendToFlowServer
    BY <1>0, <2>2, <2>3, HandOverIsAccept DEF Abstract!Next
  <2>4. CASE RunStep \/ MoverStep \/ Quit
    <3>1. DiskHolds
      BY <1>2, <2>1, <2>2, <2>4, RecordsPass DEF DiskHolds
    <3>2. UNCHANGED accepted
      <4>1. PICK m \in Nat : m = 0
        OBVIOUS
      <4>2. QED
        BY <1>2, <2>1, <2>4, <4>1, RecordsPass
    <3>3. CASE SendSucceeds
      BY <1>0, <3>1, <3>3, SendIsSend DEF Abstract!Next
    <3>4. CASE PopDumped \/ PopFailDumped
      <4> DEFINE q == IF rpc = "dumppop" THEN m_queue ELSE m_fail_queue
      <4>1. /\ dumped' = Append(dumped, data_info) /\ UNCHANGED delivered
            /\ data_info = FirstOf(q)
        BY <3>4 DEF PopDumped, PopFailDumped
      <4>2. data_info \in Seq(Nat) /\ q \in Seq(Seq(Nat)) /\ (q = m_queue \/ q = m_fail_queue)
        BY <2>1 DEF TypeOK
      <4> HIDE DEF q
      <4>3. \A m \in MsgsIn(data_info) : Waits(m) > 0
        BY <2>1, <4>1, <4>2, HeadWaits
      <4>4. MsgsIn(data_info) \in SUBSET InMemory /\ Abstract!Dump(MsgsIn(data_info))
        BY <1>0, <3>1, <3>2, <4>1, <4>2, <4>3, DumpIsDump
      <4>5. QED
        BY <4>4 DEF Abstract!Next
    <3>5. CASE RunStep /\ ~SendSucceeds /\ ~PopDumped /\ ~PopFailDumped
      <4>1. UNCHANGED <<delivered, dumped>>
        BY <3>5 DEF RunStep, LoadFileNames, RunReads, FrontRecord, PopRecord, SendFails,
            GiveUp, Park, CopyOldest, EraseOldest, RemoveOldest, IndexFile, OpenFile,
            DrainFailQueue, CloseFile, FrontDumped, FrontFailDumped
      <4>2. QED
        BY <1>0, <3>1, <3>2, <4>1, NothingMoves
    <3>6. CASE MoverStep \/ Quit
      <4>1. UNCHANGED <<delivered, dumped>>
        BY <3>6 DEF Quit, MoverStep, MoverReads, Swap, FrontFailed, PopFailed, PutBack,
            CopyFirst, ReadFile, PushSplit, EraseFirst, RemoveReplayed, ClearFlag
      <4>2. QED
        BY <1>0, <3>1, <3>2, <4>1, NothingMoves
    <3>7. QED
      BY <2>4, <3>3, <3>4, <3>5, <3>6
  <2>5. QED
    BY <2>1, <2>3, <2>4
<1>3. CASE UNCHANGED vars
  <2>1. UNCHANGED <<accepted, delivered, dumped, m_queue, m_fail_queue, str, rpc, data_info,
                    mpc, info, disk, files, top>>
    BY <1>3 DEF vars, queues, runner
  <2>2. UNCHANGED <<Unread, Left>>
    BY <2>1 DEF Unread, Found, Left, InReplay
  <2>3. DiskHolds
    BY <2>1, <2>2 DEF DiskHolds, Held, OnDisk, IsLeft, InHand, InTransit
  <2>4. QED
    BY <1>0, <2>1, <2>3, NothingMoves
<1>4. QED
  BY <1>1, <1>2, <1>3

-----------------------------------------------------------------------------
(* The refinement *)

\* Theorem: in a process that nothing ends, on old files that Split cuts cleanly and
\* as long as run never finds enough failed records to write a file, FlowRpcAsynNode
\* implements Uplink: every message, new or from a file, is in one place at a time,
\* and goes from disk to memory and from there, once, to the server or the dump; until
\* a pop() takes another record than front() returned, and but for a file that
\* remove() leaves where it is
\* (FlowRpcAsynNode.cpp:114-141, 201-260, 304-328).
THEOREM KeepsItsPromise ==
  ASSUME MaxRestarts = 0, CutCleanly
  PROVE  SafeSpec /\ []RoomToFail => ImplementsUplink
<1>1. Init => FlowInv /\ UpInv
  BY FlowInit, UplinkInit
<1>2. FlowInv /\ UpInv /\ RoomToFail /\ [Next]_vars => FlowInv' /\ UpInv'
  BY FlowNext, UplinkNext
<1>3. Init => Abstract!Init
  <2> SUFFICES ASSUME Init PROVE Abstract!Init
    OBVIOUS
  <2>1. Mapped
    <3>1. Sound
      BY <1>1 DEF UpInv, Sound, Init
    <3>2. QED
      BY <3>1, SoundCounts
  <2>2. accepted = 0 /\ MsgsOf(delivered) = {} /\ MsgsOf(dumped) = {}
    BY DEF Init, MsgsOf
  <2>3. ASSUME NEW m PROVE Waits(m) = 0
    BY PlacesNone DEF Init, Waits, InHand, InTransit
  <2>4. InMemory = {}
    BY <2>1, <2>3 DEF Mapped
  <2>5. InFilesOnly = BacklogMsgs
    <3>1. Unread = DOMAIN Backlog /\ Left = {}
      BY DEF Init, Unread, Found, Left
    <3>2. \A m : OnDisk(m) = IF m \in BacklogMsgs THEN 1 ELSE 0
      BY <3>1 DEF Init, OnDisk, BacklogMsgs
    <3>3. \A m : ~IsLeft(m)
      BY <3>1 DEF IsLeft
    <3>4. BacklogMsgs \subseteq Nat
      BY BacklogAssumption, MsgsAreNumbers DEF BacklogMsgs
    <3>5. \A m : OnDisk(m) > 0 <=> m \in BacklogMsgs
      BY <3>2
    <3>6. QED
      BY <2>1, <3>3, <3>4, <3>5 DEF Mapped
  <2>6. QED
    BY <2>2, <2>4, <2>5, BoundsAssumption DEF Abstract!Init
<1>4. /\ FlowInv /\ UpInv /\ RoomToFail /\ FlowInv' /\ UpInv' /\ [Next]_vars
      => [Abstract!Next \/ torn' \/ Stays]_Abstract!vars
  BY StepsAreSteps
<1>5. QED
  BY <1>1, <1>2, <1>3, <1>4, PTL DEF SafeSpec, ImplementsUplink

-----------------------------------------------------------------------------
(* When there is always room *)

\* Fewer messages than the records it takes to write a file, and no empty record in
\* the old files.
FewMessages ==
    /\ Cardinality(Known) < SpillAt
    /\ \A t \in DOMAIN Backlog : \A k \in DOMAIN Split(Backlog[t]) :
           MsgsIn(Split(Backlog[t])[k]) # {}

\* Every record in memory has a message.
Filled(q) == \A i \in DOMAIN q : MsgsIn(q[i]) # {}
NoneEmpty ==
    /\ Filled(m_queue) /\ Filled(m_fail_queue) /\ Filled(str)
    /\ rpc \in {"popped", "send", "park"} => undefined \/ MsgsIn(data_info) # {}
    /\ mpc \in {"taken", "put"} => undefined \/ MsgsIn(info) # {}

\* Lemma: queues stay filled by what is done to them.
LEMMA FilledQueues ==
  ASSUME NEW q \in Seq(Seq(Nat)), Filled(q)
  PROVE  /\ q # <<>> => Filled(Tail(q)) /\ MsgsIn(Head(q)) # {}
         /\ \A r \in Seq(Nat) : MsgsIn(r) # {} => Filled(Append(q, r))
         /\ \A p \in Seq(Seq(Nat)) : Filled(p) => Filled(q \o p)
<1>0. \A i \in DOMAIN q : MsgsIn(q[i]) # {}
  BY DEF Filled
<1>1. ASSUME q # <<>> PROVE Filled(Tail(q)) /\ MsgsIn(Head(q)) # {}
  <2>1. /\ Head(q) = q[1] /\ Len(q) \in Nat \ {0} /\ DOMAIN q = 1 .. Len(q)
        /\ DOMAIN Tail(q) = 1 .. Len(q) - 1
        /\ \A i \in 1 .. Len(q) - 1 : Tail(q)[i] = q[i + 1]
    BY <1>1, Tails
  <2>2. ASSUME NEW i \in DOMAIN Tail(q) PROVE MsgsIn(Tail(q)[i]) # {}
    <3>1. i + 1 \in DOMAIN q /\ Tail(q)[i] = q[i + 1]
      BY <2>1
    <3>2. QED
      BY <1>0, <3>1, Zenon
  <2>3. 1 \in DOMAIN q
    BY <2>1
  <2>4. QED
    BY <1>0, <2>1, <2>2, <2>3, Zenon DEF Filled
<1>2. ASSUME NEW r \in Seq(Nat), MsgsIn(r) # {} PROVE Filled(Append(q, r))
  <2>1. /\ Len(q) \in Nat /\ DOMAIN q = 1 .. Len(q)
        /\ DOMAIN Append(q, r) = 1 .. Len(q) + 1
        /\ \A i \in 1 .. Len(q) : Append(q, r)[i] = q[i]
        /\ Append(q, r)[Len(q) + 1] = r
    BY Appends
  <2>2. ASSUME NEW i \in DOMAIN Append(q, r) PROVE MsgsIn(Append(q, r)[i]) # {}
    <3>1. \/ i \in DOMAIN q /\ Append(q, r)[i] = q[i]
          \/ Append(q, r)[i] = r
      BY <2>1
    <3>2. QED
      BY <1>0, <1>2, <3>1, Zenon
  <2>3. QED
    BY <2>2, Zenon DEF Filled
<1>3. ASSUME NEW p \in Seq(Seq(Nat)), Filled(p) PROVE Filled(q \o p)
  <2>1. /\ DOMAIN q = 1 .. Len(q) /\ Len(q) \in Nat
        /\ DOMAIN p = 1 .. Len(p) /\ Len(p) \in Nat
        /\ DOMAIN (q \o p) = 1 .. Len(q) + Len(p)
        /\ \A i \in 1 .. Len(q) + Len(p) :
               (q \o p)[i] = IF i <= Len(q) THEN q[i] ELSE p[i - Len(q)]
    BY ConcatProperties, LenProperties
  <2>2. ASSUME NEW i \in DOMAIN (q \o p) PROVE MsgsIn((q \o p)[i]) # {}
    <3>1. \/ i \in DOMAIN q /\ (q \o p)[i] = q[i]
          \/ i - Len(q) \in DOMAIN p /\ (q \o p)[i] = p[i - Len(q)]
      BY <2>1
    <3>2. QED
      BY <1>0, <1>3, <3>1, Zenon DEF Filled
  <2>3. QED
    BY <2>2, Zenon DEF Filled
<1>4. QED
  BY <1>1, <1>2, <1>3

\* Lemma: an empty file has no records.
LEMMA SplitNothing == DOMAIN Split(<<>>) = {}
<1>1. {i \in DOMAIN <<>> : <<>>[i] = Sep} = {}
  OBVIOUS
<1>2. Cardinality({}) = 0
  BY FS_EmptySet
<1>3. DOMAIN Separators(<<>>) = {}
  BY <1>1, <1>2 DEF Separators, Ascending
<1>4. QED
  BY <1>3 DEF Split

\* Lemma: no step of run makes an empty record.
LEMMA RunNoneEmptied ==
  ASSUME FlowInv, Steady, NoneEmpty, ~undefined, RunStep
  PROVE  NoneEmpty'
<1> USE DEF mover
<1>1. /\ m_queue \in Seq(Seq(Nat)) /\ m_fail_queue \in Seq(Seq(Nat))
      /\ data_info \in Seq(Nat)
      /\ Filled(m_queue) /\ Filled(m_fail_queue) /\ Filled(str)
      /\ rpc \in {"popped", "send", "park"} => MsgsIn(data_info) # {}
      /\ mpc \in {"taken", "put"} => MsgsIn(info) # {}
  BY DEF FlowInv, TypeOK, NoneEmpty
<1>2. ASSUME NEW q \in Seq(Seq(Nat)), Filled(q)
      PROVE  Filled(Popped(q)) /\ (q # <<>> => MsgsIn(FirstOf(q)) # {})
  <2>1. CASE q = <<>>
    BY <2>1, <1>2 DEF Popped
  <2>2. CASE q # <<>>
    BY <2>2, <1>2, FilledQueues DEF Popped, FirstOf
  <2>3. QED
    BY <2>1, <2>2
<1>3. ASSUME UNCHANGED <<m_queue, m_fail_queue, str, info>>,
             mpc' \in {"taken", "put"} => mpc \in {"taken", "put"},
             rpc' \in {"popped", "send", "park"} =>
                 rpc \in {"popped", "send", "park"} /\ UNCHANGED data_info
      PROVE  NoneEmpty'
  BY <1>1, <1>3 DEF NoneEmpty
<1>4. CASE LoadFileNames
  <2>1. UNCHANGED <<m_queue, m_fail_queue, str, info>> /\ rpc' = "top" /\ mpc' = "top"
    BY <1>4 DEF LoadFileNames, queues, RunTo, MoveTo
  <2>2. QED
    BY <2>1, <1>3
<1>5. CASE RunReads
  <2>1. /\ UNCHANGED <<m_queue, m_fail_queue, str, info, mpc>>
        /\ rpc' \notin {"popped", "send", "park"}
    BY <1>5 DEF RunReads, RunSees, RunTo, queues
  <2>2. QED
    BY <2>1, <1>3
<1>6. CASE FrontRecord
  <2>1. /\ UNCHANGED <<m_queue, m_fail_queue, str, info, mpc>>
        /\ data_info' = FirstOf(m_queue) /\ undefined' = (m_queue = <<>>)
    BY <1>6 DEF FrontRecord, queues
  <2>2. undefined' \/ MsgsIn(data_info') # {}
    BY <1>1, <1>2, <2>1
  <2>3. QED
    BY <1>1, <2>1, <2>2 DEF NoneEmpty
<1>7. CASE PopRecord
  <2>1. /\ UNCHANGED <<m_fail_queue, str, info, mpc, data_info>>
        /\ rpc = "popped" /\ m_queue' = Popped(m_queue)
    BY <1>7 DEF PopRecord
  <2>2. Filled(m_queue')
    BY <1>1, <1>2, <2>1
  <2>3. QED
    BY <1>1, <2>1, <2>2 DEF NoneEmpty
<1>8. CASE SendSucceeds \/ SendFails \/ GiveUp
  <2>1. /\ UNCHANGED <<m_queue, m_fail_queue, str, info, mpc>> /\ rpc = "send"
        /\ rpc' \in {"popped", "send", "park"} => UNCHANGED data_info
    BY <1>8 DEF SendSucceeds, SendFails, GiveUp, RunTo, queues
  <2>2. QED
    BY <2>1, <1>3
<1>9. CASE Park
  <2>1. /\ m_fail_queue' = Append(m_fail_queue, data_info) /\ rpc = "park"
        /\ UNCHANGED <<m_queue, str, info, mpc>> /\ rpc' = "check"
    BY <1>9 DEF Park, RunTo
  <2>2. Filled(m_fail_queue')
    BY <1>1, <2>1, FilledQueues
  <2>3. QED
    BY <1>1, <2>1, <2>2 DEF NoneEmpty
<1>10. CASE FrontDumped \/ FrontFailDumped
  <2>1. /\ UNCHANGED <<m_queue, m_fail_queue, str, info, mpc>>
        /\ rpc' \notin {"popped", "send", "park"}
    BY <1>10 DEF FrontDumped, FrontFailDumped, RunTo, queues
  <2>2. QED
    BY <2>1, <1>3
<1>11. CASE PopDumped \/ PopFailDumped
  <2>1. /\ UNCHANGED <<str, info, mpc>> /\ rpc' \notin {"popped", "send", "park"}
        /\ m_queue' \in {m_queue, Popped(m_queue)}
        /\ m_fail_queue' \in {m_fail_queue, Popped(m_fail_queue)}
    BY <1>11 DEF PopDumped, PopFailDumped, RunTo
  <2>2. Filled(m_queue') /\ Filled(m_fail_queue')
    BY <1>1, <1>2, <2>1
  <2>3. QED
    BY <1>1, <2>1, <2>2 DEF NoneEmpty
<1>12. ~(CopyOldest \/ EraseOldest \/ RemoveOldest \/ IndexFile \/ OpenFile
             \/ DrainFailQueue \/ CloseFile)
  BY DEF CopyOldest, EraseOldest, RemoveOldest, IndexFile, OpenFile, DrainFailQueue,
      CloseFile, Steady, Writing
<1>13. QED
  BY <1>4, <1>5, <1>6, <1>7, <1>8, <1>9, <1>10, <1>11, <1>12 DEF RunStep

\* Lemma: nor does one of MoveData.
LEMMA MoverNoneEmptied ==
  ASSUME FewMessages, FlowInv, Steady, NoneEmpty, ~undefined, MoverStep
  PROVE  NoneEmpty'
<1> USE DEF runner
<1>1. /\ m_queue \in Seq(Seq(Nat)) /\ m_fail_queue \in Seq(Seq(Nat)) /\ str \in Seq(Seq(Nat))
      /\ info \in Seq(Nat)
      /\ Filled(m_queue) /\ Filled(m_fail_queue) /\ Filled(str)
      /\ rpc \in {"popped", "send", "park"} => MsgsIn(data_info) # {}
      /\ mpc \in {"taken", "put"} => MsgsIn(info) # {}
  BY DEF FlowInv, TypeOK, NoneEmpty
<1>2. ASSUME UNCHANGED <<m_queue, m_fail_queue, str, rpc, data_info>>,
             mpc' \notin {"taken", "put"}
      PROVE  NoneEmpty'
  BY <1>1, <1>2 DEF NoneEmpty
<1>3. CASE MoverReads
  <2>1. UNCHANGED <<m_queue, m_fail_queue, str, rpc, data_info>>
    BY <1>3 DEF MoverReads, queues
  <2>2. mpc' \notin {"taken", "put"}
    BY <1>3 DEF MoverReads, MoverSees, MoveTo
  <2>3. QED
    BY <2>1, <2>2, <1>2
<1>4. CASE CopyFirst \/ EraseFirst \/ RemoveReplayed \/ ClearFlag
  <2>1. UNCHANGED <<m_queue, m_fail_queue, str, rpc, data_info>>
    BY <1>4 DEF CopyFirst, EraseFirst, RemoveReplayed, ClearFlag, queues
  <2>2. mpc' \notin {"taken", "put"}
    BY <1>4 DEF CopyFirst, EraseFirst, RemoveReplayed, ClearFlag, MoveTo
  <2>3. QED
    BY <2>1, <2>2, <1>2
<1>5. CASE Swap
  <2>1. /\ m_queue' = m_fail_queue /\ m_fail_queue' = m_queue /\ mpc' = "failB"
        /\ UNCHANGED <<str, rpc, data_info>>
    BY <1>5 DEF Swap, MoveTo
  <2>2. QED
    BY <1>1, <2>1 DEF NoneEmpty
<1>6. CASE FrontFailed
  <2>1. /\ UNCHANGED <<m_queue, m_fail_queue, str, rpc, data_info>>
        /\ info' = FirstOf(m_fail_queue) /\ undefined' = (m_fail_queue = <<>>)
    BY <1>6 DEF FrontFailed, queues
  <2>2. undefined' \/ MsgsIn(info') # {}
    BY <1>1, <2>1, FilledQueues DEF FirstOf
  <2>3. QED
    BY <1>1, <2>1, <2>2 DEF NoneEmpty
<1>7. CASE PopFailed
  <2>1. /\ UNCHANGED <<m_queue, str, rpc, data_info, info>> /\ mpc = "taken"
        /\ m_fail_queue' = Popped(m_fail_queue)
    BY <1>7 DEF PopFailed
  <2>2. Filled(m_fail_queue')
    <3>1. CASE m_fail_queue = <<>>
      BY <1>1, <2>1, <3>1 DEF Popped
    <3>2. CASE m_fail_queue # <<>>
      BY <1>1, <2>1, <3>2, FilledQueues DEF Popped
    <3>3. QED
      BY <3>1, <3>2
  <2>3. QED
    BY <1>1, <2>1, <2>2 DEF NoneEmpty
<1>8. CASE PutBack
  <2>1. /\ m_queue' = m_queue \/ m_queue' = Append(m_queue, info)
        /\ mpc = "put" /\ mpc' = "failC"
        /\ UNCHANGED <<m_fail_queue, str, rpc, data_info>>
    BY <1>8 DEF PutBack, MoveTo
  <2>2. Filled(m_queue')
    BY <1>1, <2>1, FilledQueues
  <2>3. QED
    BY <1>1, <2>1, <2>2 DEF NoneEmpty
<1>9. CASE ReadFile
  <2>1. /\ str' = Split(Content(top)) /\ mpc' = "split"
        /\ UNCHANGED <<m_queue, m_fail_queue, rpc, data_info>>
    BY <1>9 DEF ReadFile, MoveTo, queues
  <2>2. Filled(str')
    <3>1. CASE top \in DOMAIN disk
      BY <2>1, <3>1 DEF Content, Steady, FewMessages, Filled
    <3>2. CASE top \notin DOMAIN disk
      <4>1. Content(top) = <<>>
        BY <3>2 DEF Content
      <4>2. QED
        BY <2>1, <4>1, SplitNothing DEF Filled
    <3>3. QED
      BY <3>1, <3>2
  <2>3. QED
    BY <1>1, <2>1, <2>2 DEF NoneEmpty
<1>10. CASE PushSplit
  <2>1. /\ mpc' \in {"split", "erase"} /\ UNCHANGED <<m_fail_queue, rpc, data_info>>
        /\ \/ UNCHANGED <<m_queue, str>>
           \/ str # <<>> /\ m_queue' = Append(m_queue, Head(str)) /\ str' = Tail(str)
    BY <1>10 DEF PushSplit, MoveTo
  <2>2. Filled(m_queue') /\ Filled(str')
    <3>1. CASE UNCHANGED <<m_queue, str>>
      BY <1>1, <3>1
    <3>2. CASE str # <<>> /\ m_queue' = Append(m_queue, Head(str)) /\ str' = Tail(str)
      <4>1. Head(str) \in Seq(Nat) /\ Filled(Tail(str)) /\ MsgsIn(Head(str)) # {}
        BY <1>1, <3>2, FilledQueues, Tails
      <4>2. QED
        BY <1>1, <3>2, <4>1, FilledQueues
    <3>3. QED
      BY <2>1, <3>1, <3>2
  <2>3. QED
    BY <1>1, <2>1, <2>2 DEF NoneEmpty
<1>11. QED
  BY <1>3, <1>4, <1>5, <1>6, <1>7, <1>8, <1>9, <1>10 DEF MoverStep

\* Lemma: nor does any other.
LEMMA NoneEmptied ==
  ASSUME MaxRestarts = 0, FewMessages, FlowInv, Steady, RoomToFail, ~torn, NoneEmpty, Next
  PROVE  NoneEmpty'
<1>0. ~undefined /\ (SendToFlowServer \/ RunStep \/ MoverStep \/ Quit)
  BY SteadyKept DEF Next
<1>1. CASE SendToFlowServer
  <2>1. /\ m_queue' = Append(m_queue, <<accepted + 1>>) /\ m_queue \in Seq(Seq(Nat))
        /\ UNCHANGED <<m_fail_queue, str, rpc, data_info, mpc, info, undefined>>
        /\ accepted \in Nat
    BY <1>1, BoundsAssumption DEF SendToFlowServer, runner, mover, FlowInv, TypeOK
  <2>2. <<accepted + 1>> \in Seq(Nat) /\ MsgsIn(<<accepted + 1>>) # {}
    BY <2>1 DEF MsgsIn, ToSet, Sep
  <2>3. Filled(m_queue')
    BY <2>1, <2>2, FilledQueues DEF NoneEmpty
  <2>4. QED
    BY <2>1, <2>3 DEF NoneEmpty
<1>2. CASE Quit
  BY <1>2 DEF Quit, NoneEmpty, queues, runner, mover
<1>3. QED
  BY <1>0, <1>1, <1>2, RunNoneEmptied, MoverNoneEmptied

\* Lemma: a queue of filled records, none of which shares a message with another,
\* has no more records than there are messages.
LEMMA FewRecords ==
  ASSUME NEW q \in Seq(Seq(Nat)), Filled(q), NEW M, IsFiniteSet(M),
         \A i \in DOMAIN q : MsgsIn(q[i]) \subseteq M,
         \A m \in M : Places(m, q) <= 1
  PROVE  Len(q) <= Cardinality(M)
<1> DEFINE one == [i \in 1 .. Len(q) |-> CHOOSE m \in M : m \in MsgsIn(q[i])]
<1>1. Len(q) \in Nat /\ DOMAIN q = 1 .. Len(q)
  BY LenProperties
<1>2. ASSUME NEW i \in 1 .. Len(q) PROVE one[i] \in M /\ one[i] \in MsgsIn(q[i])
  <2>1. \E m \in M : m \in MsgsIn(q[i])
    BY <1>1 DEF Filled
  <2>2. QED
    BY <2>1
<1> HIDE DEF one
<1>3. ASSUME NEW i \in 1 .. Len(q), NEW j \in 1 .. Len(q), one[i] = one[j] PROVE i = j
  <2> DEFINE m == one[i]
  <2>1. i \in Holding(q, m) /\ j \in Holding(q, m)
    BY <1>1, <1>2, <1>3 DEF Holding
  <2>2. IsFiniteSet(Holding(q, m)) /\ Cardinality(Holding(q, m)) \in Nat
        /\ Cardinality(Holding(q, m)) <= 1
    BY <1>2, PlacesType DEF Places
  <2> HIDE DEF m
  <2>3. Cardinality(Holding(q, m) \ {i}) = 0
    <3>1. Cardinality(Holding(q, m) \ {i}) = Cardinality(Holding(q, m)) - 1
      BY <2>1, <2>2, FS_RemoveElement
    <3>2. Cardinality(Holding(q, m) \ {i}) \in Nat
      BY <2>2, FS_Subset, FS_CardinalityType
    <3>3. QED
      BY <2>2, <3>1, <3>2
  <2>4. Holding(q, m) \ {i} = {}
    BY <2>2, <2>3, FS_Subset, FS_EmptySet
  <2>5. QED
    BY <2>1, <2>4
<1>4. one \in [1 .. Len(q) -> M]
  BY <1>2 DEF one
<1>5. one \in Injection(1 .. Len(q), M)
  BY <1>3, <1>4, Zenon DEF Injection, IsInjective
<1>6. Cardinality(1 .. Len(q)) <= Cardinality(M)
  BY <1>5, FS_Injection
<1>7. Cardinality(1 .. Len(q)) = IF 1 > Len(q) THEN 0 ELSE Len(q) - 1 + 1
  BY <1>1, FS_Interval
<1>8. Cardinality(1 .. Len(q)) = Len(q)
  BY <1>1, <1>7
<1>9. QED
  BY <1>6, <1>8

\* Lemma: there are finitely many messages.
LEMMA KnownFinite == IsFiniteSet(Known)
<1>1. ASSUME NEW r \in Seq(Nat) PROVE IsFiniteSet(MsgsIn(r))
  <2>1. Len(r) \in Nat /\ DOMAIN r = 1 .. Len(r)
    BY LenProperties
  <2>2. IsFiniteSet(DOMAIN r)
    BY <2>1, FS_Interval
  <2>3. r \in Surjection(DOMAIN r, ToSet(r))
    <3>1. r \in [DOMAIN r -> ToSet(r)]
      BY <1>1, <2>1, SeqDef DEF ToSet
    <3>2. \A m \in ToSet(r) : \E i \in DOMAIN r : r[i] = m
      BY DEF ToSet
    <3>3. QED
      BY <3>1, <3>2, Zenon DEF Surjection
  <2>4. IsFiniteSet(ToSet(r))
    BY <2>2, <2>3, FS_Surjection
  <2>5. QED
    BY <2>4, FS_Subset DEF MsgsIn
<1>2. IsFiniteSet(BacklogMsgs)
  <2> DEFINE held == [t \in DOMAIN Backlog |-> MsgsIn(Backlog[t])]
             contents == {MsgsIn(Backlog[t]) : t \in DOMAIN Backlog}
  <2>1. IsFiniteSet(DOMAIN Backlog)
    <3>1. IsFiniteSet(1 .. MaxTime)
      BY BoundsAssumption, FS_Interval
    <3>2. QED
      BY <3>1, BacklogAssumption, FS_Subset DEF Times
  <2>2. held \in Surjection(DOMAIN Backlog, contents)
    <3>1. held \in [DOMAIN Backlog -> contents]
      OBVIOUS
    <3>2. \A c \in contents : \E t \in DOMAIN Backlog : held[t] = c
      OBVIOUS
    <3> HIDE DEF held, contents
    <3>3. QED
      BY <3>1, <3>2, Zenon DEF Surjection
  <2>3. \A c \in contents : IsFiniteSet(c)
    BY <1>1, BacklogAssumption
  <2> HIDE DEF held
  <2>4. IsFiniteSet(contents)
    BY <2>1, <2>2, FS_Surjection
  <2>5. IsFiniteSet(UNION contents)
    BY <2>3, <2>4, FS_UNION
  <2>6. QED
    BY <2>5 DEF BacklogMsgs
<1>3. IsFiniteSet(1 .. NumMsgs)
  BY BoundsAssumption, FS_Interval
<1>4. QED
  BY <1>2, <1>3, FS_Union DEF Known

\* Lemma: then there is room for every record that fails.
LEMMA AlwaysRoom ==
  ASSUME FewMessages, FlowInv, UpInv, torn \/ NoneEmpty
  PROVE  RoomToFail
<1> SUFFICES ASSUME ~torn, Steady, OneEach, NoneEmpty PROVE Len(m_fail_queue) < SpillAt
  BY DEF RoomToFail, UpInv
<1> DEFINE q == m_fail_queue
<1>1. q \in Seq(Seq(Nat)) /\ Filled(q)
  BY DEF FlowInv, TypeOK, NoneEmpty
<1>2. ASSUME NEW m \in Nat
      PROVE  /\ Places(m, q) <= 1
             /\ Places(m, q) > 0 => m \in Known
  <2>1. Counted
    BY Counts DEF FlowInv
  <2>2. /\ Places(m, m_queue) \in Nat /\ Places(m, q) \in Nat
        /\ InHand(m) \in Nat /\ InTransit(m) \in Nat /\ Places(m, str) \in Nat
    BY PlacesType DEF FlowInv, TypeOK, InHand, InTransit
  <2>3. Places(m, q) <= Waits(m)
    BY <2>2 DEF Waits
  <2>4. /\ Waits(m) \in Nat /\ Places(m, delivered) \in Nat /\ Places(m, dumped) \in Nat
        /\ Held(m) = Waits(m) + Places(m, delivered) + Places(m, dumped)
        /\ Held(m) \in Nat /\ OnDisk(m) \in Nat /\ Unseen(m) \in Nat
    BY <2>1, Zenon DEF Counted
  <2>5. Unseen(m) + Held(m) + OnDisk(m) = IF m \in Known THEN 1 ELSE 0
    BY DEF OneEach
  <2>6. Waits(m) <= Unseen(m) + Held(m) + OnDisk(m)
    <3>1. Waits(m) <= Held(m)
      BY <2>4
    <3>2. QED
      BY <2>4, <3>1
  <2> HIDE DEF q
  <2>7. CASE m \in Known
    BY <2>2, <2>3, <2>4, <2>5, <2>6, <2>7
  <2>8. CASE m \notin Known
    <3>1. Waits(m) <= 0
      BY <2>5, <2>6, <2>8
    <3>2. QED
      BY <2>2, <2>3, <2>4, <3>1
  <2>9. QED
    BY <2>7, <2>8
<1> HIDE DEF q
<1>3. MsgsOf(q) = {m \in Nat : Places(m, q) > 0}
  BY <1>1, PlacesSome
<1>4. \A i \in DOMAIN q : MsgsIn(q[i]) \subseteq Known
  BY <1>2, <1>3 DEF MsgsOf
<1>5. Known \subseteq Nat
  BY BacklogAssumption, BoundsAssumption, MsgsAreNumbers DEF Known, BacklogMsgs
<1>6. Len(q) <= Cardinality(Known)
  BY <1>1, <1>2, <1>4, <1>5, KnownFinite, FewRecords
<1>7. /\ Cardinality(Known) < SpillAt /\ Cardinality(Known) \in Nat /\ SpillAt \in Nat
      /\ Len(q) \in Nat
  BY <1>1, KnownFinite, FS_CardinalityType, LenProperties, LimitsAssumption DEF FewMessages
<1>8. QED
  BY <1>6, <1>7 DEF q

\* Theorem: with fewer messages than the records it takes to write a file, nothing
\* need be said of what fails: there is always room, and FlowRpcAsynNode implements
\* Uplink, until a pop() takes another record than front() returned, and but for a
\* file that stays (FlowRpcAsynNode.cpp:114-145, 201-260, 304-328).
THEOREM KeepsItWhenFew ==
  ASSUME MaxRestarts = 0, CutCleanly, FewMessages
  PROVE  SafeSpec => ImplementsUplink
<1> DEFINE Inv == FlowInv /\ UpInv /\ (torn \/ NoneEmpty)
<1>1. Init => Inv
  <2>1. Init => NoneEmpty
    BY DEF Init, NoneEmpty, Filled
  <2>2. QED
    BY <2>1, FlowInit, UplinkInit
<1>2. Inv => RoomToFail
  BY AlwaysRoom
<1>3. Inv /\ [Next]_vars => Inv'
  <2> SUFFICES ASSUME Inv, [Next]_vars PROVE Inv'
    OBVIOUS
  <2>1. FlowInv' /\ UpInv'
    BY <1>2, FlowNext, UplinkNext
  <2>2. CASE torn'
    BY <2>1, <2>2
  <2>3. CASE ~torn'
    <3>1. ~torn /\ NoneEmpty /\ Steady
      BY <2>3, StaysTorn DEF UpInv
    <3>2. CASE Next
      BY <1>2, <2>1, <3>1, <3>2, NoneEmptied
    <3>3. CASE UNCHANGED vars
      BY <2>1, <3>1, <3>3 DEF vars, queues, runner, mover, outside, NoneEmpty
    <3>4. QED
      BY <3>2, <3>3
  <2>4. QED
    BY <2>2, <2>3
<1>4. SafeSpec => []RoomToFail
  BY <1>1, <1>2, <1>3, PTL DEF SafeSpec
<1>5. QED
  BY <1>4, KeepsItsPromise, PTL
=============================================================================
