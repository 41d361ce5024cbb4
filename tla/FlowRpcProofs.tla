--------------------------- MODULE FlowRpcProofs ---------------------------
(* Theorems about FlowRpc: the uplink with any number of messages, any       *)
(* limits, any number of failing sends and of restarts.                      *)
EXTENDS FlowRpc, FiniteSetTheorems, SequenceTheorems, TLAPS

-----------------------------------------------------------------------------
(* Sorting, and splitting a file into records *)

\* Lemma: ranks of the members of a set are the numbers up to its size.
LEMMA Ranks ==
  ASSUME NEW S \in SUBSET Nat, IsFiniteSet(S)
  PROVE  /\ Cardinality(S) \in Nat
         /\ \A t \in S : Rank(t, S) \in 1 .. Cardinality(S)
         /\ \A t, u \in S : t < u => Rank(t, S) < Rank(u, S)
         /\ \A k \in 1 .. Cardinality(S) : \E t \in S : Rank(t, S) = k
<1> DEFINE upto(t) == {u \in S : u <= t}
           n == Cardinality(S)
           rank == [t \in S |-> Rank(t, S)]
<1>1. n \in Nat
  BY FS_CardinalityType
<1>2. ASSUME NEW t \in S
      PROVE IsFiniteSet(upto(t)) /\ Rank(t, S) \in Nat /\ Rank(t, S) \in 1 .. n
  <2>1. IsFiniteSet(upto(t)) /\ Cardinality(upto(t)) <= n
    BY upto(t) \in SUBSET S, FS_Subset
  <2>2. Cardinality(upto(t)) \in Nat
    BY <2>1, FS_CardinalityType
  <2>3. t \in upto(t)
    OBVIOUS
  <2>4. Cardinality(upto(t)) # 0
    BY <2>1, <2>3, FS_EmptySet
  <2>5. QED
    BY <1>1, <2>1, <2>2, <2>4 DEF Rank
<1>3. ASSUME NEW t \in S, NEW u \in S, t < u PROVE Rank(t, S) < Rank(u, S)
  <2>1. upto(t) \in SUBSET upto(u) /\ upto(t) # upto(u)
    <3>1. u \in upto(u) /\ u \notin upto(t)
      BY <1>3
    <3>2. \A v \in upto(t) : v \in upto(u)
      BY <1>3
    <3>3. QED
      BY <3>1, <3>2
  <2>2. Cardinality(upto(t)) <= Cardinality(upto(u))
        /\ Cardinality(upto(t)) # Cardinality(upto(u))
    BY <1>2, <2>1, FS_Subset
  <2>3. QED
    BY <1>2, <2>2 DEF Rank
<1>4. rank \in Surjection(S, 1 .. n)
  <2>1. rank \in [S -> 1 .. n]
    BY <1>2
  <2>2. ASSUME NEW t \in S, NEW u \in S, rank[t] = rank[u] PROVE t = u
    <3>1. Rank(t, S) = Rank(u, S) /\ Rank(t, S) \in Nat
      BY <1>2, <2>2
    <3>2. ~(t < u) /\ ~(u < t)
      BY <1>3, <3>1
    <3>3. t \in Nat /\ u \in Nat
      OBVIOUS
    <3>4. QED
      BY <3>2, <3>3
  <2>3. rank \in Injection(S, 1 .. n)
    BY <2>1, <2>2 DEF Injection, IsInjective
  <2>4. IsFiniteSet(1 .. n) /\ Cardinality(1 .. n) = n
    BY <1>1, FS_Interval
  <2>5. QED
    BY <2>3, <2>4, FS_Injection
<1>5. QED
  BY <1>1, <1>2, <1>3, <1>4 DEF Surjection

\* Lemma: Ascending lists the members of a set, the smaller before the greater.
LEMMA AscendingLists ==
  ASSUME NEW S \in SUBSET Nat, IsFiniteSet(S)
  PROVE  /\ Ascending(S) \in Seq(S) /\ Len(Ascending(S)) = Cardinality(S)
         /\ Cardinality(S) \in Nat /\ DOMAIN Ascending(S) = 1 .. Cardinality(S)
         /\ \A i, j \in 1 .. Cardinality(S) :
                i < j => Ascending(S)[i] < Ascending(S)[j]
         /\ \A t \in S : \E i \in 1 .. Cardinality(S) : Ascending(S)[i] = t
         /\ \A k \in 1 .. Cardinality(S) :
                Ascending(S)[k] \in S /\ Rank(Ascending(S)[k], S) = k
<1> DEFINE n == Cardinality(S)
           a == Ascending(S)
<1>1. ASSUME NEW k \in 1 .. n PROVE a[k] \in S /\ Rank(a[k], S) = k
  <2>1. \E t \in S : Rank(t, S) = k
    BY Ranks
  <2>2. a[k] = CHOOSE t \in S : Rank(t, S) = k
    BY DEF Ascending
  <2>3. QED
    BY <2>1, <2>2
<1>2. n \in Nat /\ a \in [1 .. n -> S]
  BY <1>1, Ranks DEF Ascending
<1>3. a \in Seq(S) /\ Len(a) = n /\ DOMAIN a = 1 .. n
  BY <1>2, SeqDef
<1>4. ASSUME NEW i \in 1 .. n, NEW j \in 1 .. n, i < j PROVE a[i] < a[j]
  <2>1. a[i] \in S /\ a[j] \in S /\ Rank(a[i], S) = i /\ Rank(a[j], S) = j
    BY <1>1
  <2>2. a[i] \in Nat /\ a[j] \in Nat
    BY <2>1
  <2>3. a[i] # a[j]
    BY <1>4, <2>1
  <2>4. a[j] < a[i] => Rank(a[j], S) < Rank(a[i], S)
    BY <2>1, Ranks
  <2>5. ~(a[j] < a[i])
    BY <1>4, <2>1, <2>4
  <2>6. QED
    BY <2>2, <2>3, <2>5
<1>5. ASSUME NEW t \in S PROVE \E i \in 1 .. n : a[i] = t
  <2>1. Rank(t, S) \in 1 .. n
    BY Ranks
  <2>2. a[Rank(t, S)] \in S /\ Rank(a[Rank(t, S)], S) = Rank(t, S)
    BY <1>1, <2>1
  <2>3. a[Rank(t, S)] \in Nat /\ t \in Nat
    BY <2>2
  <2>4. a[Rank(t, S)] = t
    BY <2>2, <2>3, Ranks
  <2>5. QED
    BY <2>1, <2>4
<1>6. QED
  BY <1>1, <1>2, <1>3, <1>4, <1>5

\* Lemma: what Split makes of a file are records of what is in the file.
LEMMA SplitRecords ==
  ASSUME NEW S, NEW data \in Seq(S)
  PROVE  /\ Split(data) \in Seq(Seq(S))
         /\ \A k \in DOMAIN Split(data) :
                \A i \in DOMAIN Split(data)[k] :
                    \E j \in DOMAIN data : Split(data)[k][i] = data[j]
<1> DEFINE places == {i \in DOMAIN data : data[i] = Sep}
           at == Separators(data)
           begin(k) == IF k = 1 THEN 1 ELSE at[k - 1] + 1
           length(k) == at[k] - 1
           end(k) == begin(k) + length(k) - 1
           last(k) == IF end(k) > Len(data) THEN Len(data) ELSE end(k)
<1>1. Len(data) \in Nat /\ DOMAIN data = 1 .. Len(data)
  BY LenProperties
<1>2. places \in SUBSET Nat /\ IsFiniteSet(places)
  <2>1. IsFiniteSet(1 .. Len(data)) /\ places \in SUBSET (1 .. Len(data))
    BY <1>1, FS_Interval
  <2>2. IsFiniteSet(places)
    BY <2>1, FS_Subset
  <2>3. QED
    BY <2>1, <2>2
<1>3. /\ at \in Seq(places) /\ Len(at) \in Nat /\ DOMAIN at = 1 .. Len(at)
      /\ \A k \in 1 .. Len(at) : at[k] \in 1 .. Len(data)
  <2>1. at = Ascending(places)
    BY DEF Separators
  <2> HIDE DEF at
  <2>2. at \in Seq(places)
    BY <1>2, <2>1, AscendingLists
  <2>3. \A k \in 1 .. Len(at) : at[k] \in places
    BY <2>2, ElementOfSeq
  <2>4. QED
    BY <1>1, <2>2, <2>3, LenProperties
<1>4. Split(data) = [k \in DOMAIN at |-> SubSeq(data, begin(k), last(k))]
  BY DEF Split
<1> HIDE DEF at
<1>5. ASSUME NEW k \in 1 .. Len(at), NEW r, r = SubSeq(data, begin(k), last(k))
      PROVE r \in Seq(S) /\ \A i \in DOMAIN r : \E j \in DOMAIN data : r[i] = data[j]
  <2>1. begin(k) \in Nat \ {0} /\ last(k) \in Int /\ last(k) <= Len(data)
    <3>1. CASE k = 1
      BY <3>1, <1>1, <1>3
    <3>2. CASE k # 1
      <4>1. k - 1 \in 1 .. Len(at)
        BY <3>2, <1>3
      <4>2. QED
        BY <3>2, <4>1, <1>1, <1>3
    <3>3. QED
      BY <3>1, <3>2
  <2> HIDE DEF begin, last
  <2> DEFINE b == begin(k)
             l == last(k)
             sub == SubSeq(data, b, l)
  <2>2. \A i \in b .. l : i \in DOMAIN data /\ data[i] \in S
    BY <1>1, <2>1, ElementOfSeq
  <2> HIDE DEF b, l
  <2>3. /\ sub \in Seq(S)
        /\ Len(sub) = IF b <= l THEN l - b + 1 ELSE 0
        /\ \A i \in 1 .. l - b + 1 : sub[i] = data[b + i - 1]
    BY <2>1, <2>2, SubSeqProperties DEF b, l
  <2>4. ASSUME NEW i \in DOMAIN sub
        PROVE  \E j \in DOMAIN data : sub[i] = data[j]
    <3>1. i \in 1 .. Len(sub) /\ Len(sub) \in Nat
      BY <2>3, LenProperties
    <3>2. b \in Int /\ l \in Int
      BY <2>1 DEF b, l
    <3>3. i \in 1 .. l - b + 1 /\ b + i - 1 \in b .. l
      BY <2>3, <3>1, <3>2
    <3>4. QED
      BY <2>2, <2>3, <3>3
  <2>5. r = sub
    BY <1>5 DEF b, l
  <2> HIDE DEF sub
  <2>6. QED
    BY <2>3, <2>4, <2>5
<1> HIDE DEF last
<1>6. Split(data) \in [1 .. Len(at) -> Seq(S)]
  BY <1>3, <1>4, <1>5
<1>7. Split(data) \in Seq(Seq(S)) /\ DOMAIN Split(data) = 1 .. Len(at)
  BY <1>3, <1>6, SeqDef, SMTT(30)
<1>8. \A k \in 1 .. Len(at) : Split(data)[k] = SubSeq(data, begin(k), last(k))
  BY <1>3, <1>4
<1> HIDE DEF begin
<1>9. ASSUME NEW k \in 1 .. Len(at)
      PROVE \A i \in DOMAIN Split(data)[k] :
                \E j \in DOMAIN data : Split(data)[k][i] = data[j]
  BY <1>5, <1>8
<1>10. QED
  BY <1>7, <1>9

-----------------------------------------------------------------------------
(* The inductive invariant of the index and the directory *)

\* Nothing on disk or in the index is newer than the clock.
Dated ==
    /\ FilesAscending /\ IndexBounded
    /\ \A i \in DOMAIN files : files[i] <= now
    /\ \A t \in DOMAIN disk : t <= now

\* MoveData has found a file to replay, and not yet erased an entry.
Picking == {"replay", "read", "split", "erase"}

\* What the index holds wherever the threads are.  The entry run evicts is there,
\* though MoveData may have erased one since the index was found too long: it
\* erases no second one, because success_flag stays cleared until run sends a
\* record.  The entry MoveData is replaying leaves it one to erase, whatever run
\* evicts.
Staged ==
    /\ mpc = "off" <=> rpc \in {"start", "down"}
    /\ rpc \in {"start", "down"} => files = <<>>
    /\ mpc \in Picking => files # <<>>
    /\ rpc \in {"evict", "erase"} =>
           \/ Len(files) > MaxFiles
           \/ Len(files) = MaxFiles /\ mpc \in {"print", "remove", "clear"}
           \/ Len(files) = MaxFiles /\ ~success_flag /\ mpc \notin {"filesC"} \cup Picking
    /\ rpc \in {"remove", "index"} => Len(files) <= MaxFiles \/ Len(files) < loaded
    /\ rpc \in {"open", "drain", "write", "close"} => ofs.time = now
    /\ rpc = "down" => restarts < MaxRestarts

FilesInv == Dated /\ Staged

FlowInv == TypeOK /\ FilesInv

\* Lemma: an appended record or file is a record or file.
LEMMA Appends ==
  ASSUME NEW S, NEW q \in Seq(S), NEW e \in S
  PROVE  /\ Append(q, e) \in Seq(S) /\ Len(Append(q, e)) = Len(q) + 1
         /\ Len(q) \in Nat /\ DOMAIN q = 1 .. Len(q)
         /\ DOMAIN Append(q, e) = 1 .. Len(q) + 1
         /\ \A i \in 1 .. Len(q) : Append(q, e)[i] = q[i]
         /\ Append(q, e)[Len(q) + 1] = e
         /\ Append(q, e) # <<>>
<1>1. Len(Append(q, e)) = Len(q) + 1 /\ Len(q) \in Nat
  BY AppendProperties, LenProperties
<1>2. Append(q, e) # <<>>
  BY <1>1, EmptySeq
<1>3. QED
  BY <1>2, AppendProperties, LenProperties

\* Lemma: what is behind the first.
LEMMA Tails ==
  ASSUME NEW S, NEW q \in Seq(S), q # <<>>
  PROVE  /\ Head(q) \in S /\ Head(q) = q[1] /\ Tail(q) \in Seq(S)
         /\ Len(Tail(q)) = Len(q) - 1 /\ Len(q) \in Nat \ {0}
         /\ DOMAIN q = 1 .. Len(q) /\ DOMAIN Tail(q) = 1 .. Len(q) - 1
         /\ \A i \in 1 .. Len(q) - 1 : Tail(q)[i] = q[i + 1]
  BY HeadTailProperties, LenProperties, EmptySeq

\* Lemma: the first process finds the directory as it was left, and nothing else.
LEMMA FlowInit == Init => FlowInv
<1> SUFFICES ASSUME Init PROVE FlowInv
  OBVIOUS
<1>1. /\ DOMAIN disk \subseteq Times /\ \A t \in DOMAIN disk : disk[t] \in Seq(Nat)
      /\ now \in Times /\ \A t \in DOMAIN disk : t <= now
  BY BacklogAssumption DEF Init
<1>2. ofs \in [time : 0 .. MaxTime, linked : BOOLEAN, buffer : Seq(Nat)]
  BY EmptySeq, BoundsAssumption DEF Init, NoFile
<1>3. /\ m_queue \in Seq(Seq(Nat)) /\ m_fail_queue \in Seq(Seq(Nat))
      /\ files \in Seq(Times) /\ data_info \in Seq(Nat) /\ info \in Seq(Nat)
      /\ str \in Seq(Seq(Nat))
      /\ dumped \in Seq(Seq(Nat)) /\ delivered \in Seq(Seq(Nat))
  BY EmptySeq, Zenon DEF Init
<1>4. /\ cnt \in 0 .. LoopTimes /\ (rpc \notin {"send", "park"} => cnt = 0)
      /\ accepted \in 0 .. NumMsgs /\ fails \in 0 .. MaxFails
      /\ restarts \in 0 .. MaxRestarts /\ loaded \in Nat /\ top \in 0 .. MaxTime
      /\ evicted \in 0 .. MaxTime
  BY BoundsAssumption, LimitsAssumption DEF Init
<1>5. /\ success_flag \in BOOLEAN /\ sys_quit \in BOOLEAN /\ undefined \in BOOLEAN
      /\ spilled \in BOOLEAN /\ torn \in BOOLEAN
  BY Zenon DEF Init
<1>6. TypeOK
  BY <1>1, <1>2, <1>3, <1>4, <1>5, Zenon DEF Init, TypeOK
<1>7. FilesInv
  <2>1. files = <<>> /\ Len(files) = 0 /\ DOMAIN files = {}
    BY DEF Init
  <2>2. QED
    BY <1>1, <2>1, LimitsAssumption
    DEF Init, FilesInv, Dated, Staged, Picking, FilesAscending, IndexBounded
<1>8. QED
  BY <1>6, <1>7 DEF FlowInv


\* Lemma: a sequence over a set is one over a larger set.
LEMMA WiderSeq ==
  ASSUME NEW S, NEW T, S \subseteq T, NEW q \in Seq(S)
  PROVE  q \in Seq(T)
<1>1. PICK n \in Nat : q \in [1 .. n -> S]
  BY SeqDef
<1>2. q \in [1 .. n -> T]
  BY <1>1
<1>3. QED
  BY <1>2, SeqDef

\* Lemma: there are finitely many data files.
LEMMA FiniteDisk ==
  ASSUME DOMAIN disk \subseteq Times
  PROVE  DOMAIN disk \in SUBSET Nat /\ IsFiniteSet(DOMAIN disk)
<1>1. MaxTime \in Nat
  BY BoundsAssumption
<1>2. IsFiniteSet(1 .. MaxTime)
  BY <1>1, FS_Interval
<1>3. IsFiniteSet(Times) /\ DOMAIN disk \in SUBSET Times /\ Times \in SUBSET Nat
  BY <1>1, <1>2 DEF Times
<1>4. QED
  BY <1>3, FS_Subset

\* Lemma: taking from and adding to a queue of records.
LEMMA Records ==
  ASSUME NEW q \in Seq(Seq(Nat))
  PROVE  /\ FirstOf(q) \in Seq(Nat) /\ Popped(q) \in Seq(Seq(Nat))
         /\ \A r \in Seq(Nat) : Append(q, r) \in Seq(Seq(Nat))
         /\ \A p \in Seq(Seq(Nat)) : q \o p \in Seq(Seq(Nat))
         /\ q # <<>> => Head(q) \in Seq(Nat) /\ Tail(q) \in Seq(Seq(Nat))
<1>1. CASE q = <<>>
  BY <1>1, Appends, ConcatProperties, EmptySeq DEF FirstOf, Popped
<1>2. CASE q # <<>>
  BY <1>2, Tails, Appends, ConcatProperties DEF FirstOf, Popped
<1>3. QED
  BY <1>1, <1>2

\* Lemma: the first entry of the index, and the others.
LEMMA Entries ==
  ASSUME files \in Seq(Times)
  PROVE  /\ Oldest(files) \in 0 .. MaxTime /\ Erased(files) \in Seq(Times)
         /\ files # <<>> => Erased(files) = Tail(files) /\ Oldest(files) = Head(files)
<1>1. CASE files = <<>>
  BY <1>1, EmptySeq, BoundsAssumption DEF Oldest, Erased
<1>2. CASE files # <<>>
  <2>1. Head(files) \in Times /\ Tail(files) \in Seq(Times)
    BY <1>2, Tails
  <2>2. Head(files) \in 0 .. MaxTime
    BY <2>1, BoundsAssumption, SMTT(30) DEF Times
  <2>3. QED
    BY <1>2, <2>1, <2>2 DEF Oldest, Erased
<1>3. QED
  BY <1>1, <1>2

\* Lemma: what remove() leaves of the directory and of the stream.
LEMMA Removes ==
  ASSUME TypeOK, NEW t, RemoveFile(t)
  PROVE  /\ DOMAIN disk' \subseteq DOMAIN disk
         /\ \A u \in DOMAIN disk' : disk'[u] = disk[u]
         /\ \A u \in DOMAIN disk : u # t => u \in DOMAIN disk'
         /\ ofs' \in [time : 0 .. MaxTime, linked : BOOLEAN, buffer : Seq(Nat)]
         /\ ofs'.time = ofs.time /\ ofs'.buffer = ofs.buffer
         /\ ofs'.linked => ofs.linked
<1>1. CASE disk' = Forget(t, disk) /\ ofs' = [ofs EXCEPT !.linked = @ /\ ofs.time # t]
  BY <1>1 DEF Forget, TypeOK
<1>2. CASE UNCHANGED <<disk, ofs>>
  BY <1>2 DEF TypeOK
<1>3. QED
  BY <1>1, <1>2 DEF RemoveFile

\* Lemma: run keeps the types at its looks, its pops and its sends.
LEMMA RunTypes ==
  FlowInv /\ RunStep => TypeOK'
<1> SUFFICES ASSUME TypeOK, RunStep,
                    rpc \in {"open", "drain", "write", "close"} => ofs.time = now
             PROVE TypeOK'
  BY DEF FlowInv, FilesInv, Staged
<1> USE DEF TypeOK, queues, runner, mover, outside, life, Replaying
<1>LoadFileNames. CASE LoadFileNames
  <2>1. DOMAIN disk \in SUBSET Nat /\ IsFiniteSet(DOMAIN disk)
    BY FiniteDisk
  <2>2. files' \in Seq(DOMAIN disk)
    BY <1>LoadFileNames, <2>1, AscendingLists DEF LoadFileNames
  <2>3. files' \in Seq(Times) /\ Len(files') \in Nat
    BY <2>2, WiderSeq, LenProperties
  <2>4. QED
    BY <1>LoadFileNames, <2>3 DEF LoadFileNames, RunTo, MoveTo
<1>RunReads. CASE RunReads
  <2>1. /\ rpc \notin {"send", "park"}
        /\ rpc' \in {"dump", "look", "pop", "top", "count", "evict", "index", "dumpfront",
                     "dumpfail", "failfront", "done"}
    BY <1>RunReads DEF RunReads, RunSees, RunTo
  <2>2. QED
    BY <1>RunReads, <2>1 DEF RunReads
<1>FrontRecord. CASE FrontRecord
  BY <1>FrontRecord, Records DEF FrontRecord, RunTo
<1>PopRecord. CASE PopRecord
  BY <1>PopRecord, Records DEF PopRecord, RunTo
<1>SendSucceeds. CASE SendSucceeds
  BY <1>SendSucceeds, Records, EmptySeq, BoundsAssumption, LimitsAssumption
  DEF SendSucceeds, RunTo, MayTry
<1>SendFails. CASE SendFails
  BY <1>SendFails, BoundsAssumption, LimitsAssumption DEF SendFails, MayTry
<1>GiveUp. CASE GiveUp
  BY <1>GiveUp DEF GiveUp, RunTo
<1>Park. CASE Park
  <2>1. m_fail_queue' \in Seq(Seq(Nat)) /\ data_info' \in Seq(Nat)
    BY <1>Park, Records, EmptySeq DEF Park
  <2>2. cnt' \in 0 .. LoopTimes /\ cnt' = 0
    BY <1>Park, LimitsAssumption DEF Park
  <2>3. QED
    BY <1>Park, <2>1, <2>2 DEF Park, RunTo
<1>CopyOldest. CASE CopyOldest
  BY <1>CopyOldest, Entries DEF CopyOldest, RunTo
<1>EraseOldest. CASE EraseOldest
  BY <1>EraseOldest, Entries DEF EraseOldest, RunTo
<1>RemoveOldest. CASE RemoveOldest
  <2>1. /\ DOMAIN disk' \subseteq Times /\ \A t \in DOMAIN disk' : disk'[t] \in Seq(Nat)
        /\ ofs' \in [time : 0 .. MaxTime, linked : BOOLEAN, buffer : Seq(Nat)]
    BY <1>RemoveOldest, Removes DEF RemoveOldest
  <2>2. evicted' \in 0 .. MaxTime
    BY <1>RemoveOldest, BoundsAssumption DEF RemoveOldest
  <2>3. QED
    BY <1>RemoveOldest, <2>1, <2>2 DEF RemoveOldest, RunTo
<1>IndexFile. CASE IndexFile
  <2>1. now' \in Times /\ files' \in Seq(Times)
    BY <1>IndexFile, Appends DEF IndexFile, Indexed
  <2>2. ofs' \in [time : 0 .. MaxTime, linked : BOOLEAN, buffer : Seq(Nat)]
    <3>1. ofs' = [time |-> now', linked |-> FALSE, buffer |-> <<>>]
      BY <1>IndexFile DEF IndexFile, NoFile
    <3>2. now' \in 0 .. MaxTime
      BY <2>1, BoundsAssumption, SMTT(30) DEF Times
    <3>3. QED
      BY <3>1, <3>2, EmptySeq
  <2>3. QED
    BY <1>IndexFile, <2>1, <2>2 DEF IndexFile, RunTo
<1>OpenFile. CASE OpenFile
  <2>1. DOMAIN disk' \subseteq Times /\ \A t \in DOMAIN disk' : disk'[t] \in Seq(Nat)
    <3>1. ofs.time \in Times
      BY <1>OpenFile DEF OpenFile
    <3>2. CASE disk' = [t \in DOMAIN disk \cup {ofs.time} |->
                            IF t \in DOMAIN disk THEN disk[t] ELSE <<>>]
      BY <3>1, <3>2, EmptySeq
    <3>3. QED
      BY <1>OpenFile, <3>2 DEF OpenFile
  <2>2. ofs' \in [time : 0 .. MaxTime, linked : BOOLEAN, buffer : Seq(Nat)]
    BY <1>OpenFile DEF OpenFile
  <2>3. QED
    BY <1>OpenFile, <2>1, <2>2 DEF OpenFile, RunTo
<1>DrainFailQueue. CASE DrainFailQueue
  <2>1. CASE m_fail_queue # <<>>
    <3>1. /\ ofs.buffer \o Head(m_fail_queue) \in Seq(Nat)
          /\ m_fail_queue' \in Seq(Seq(Nat))
      BY <1>DrainFailQueue, <2>1, Records, ConcatProperties
      DEF DrainFailQueue, Popped
    <3>2. Append(ofs.buffer \o Head(m_fail_queue), Sep) \in Seq(Nat)
      BY <3>1, AppendProperties DEF Sep
    <3>3. ofs' \in [time : 0 .. MaxTime, linked : BOOLEAN, buffer : Seq(Nat)]
      BY <1>DrainFailQueue, <2>1, <3>2 DEF DrainFailQueue
    <3>4. QED
      BY <1>DrainFailQueue, <2>1, <3>1, <3>3 DEF DrainFailQueue, RunTo
  <2>2. CASE m_fail_queue = <<>>
    BY <1>DrainFailQueue, <2>2 DEF DrainFailQueue, RunTo
  <2>3. QED
    BY <2>1, <2>2
<1>CloseFile. CASE CloseFile
  <2>1. DOMAIN disk' \subseteq Times /\ \A t \in DOMAIN disk' : disk'[t] \in Seq(Nat)
    <3>1. ofs.time \in DOMAIN disk => disk[ofs.time] \o ofs.buffer \in Seq(Nat)
      BY ConcatProperties
    <3>2. QED
      BY <1>CloseFile, <3>1 DEF CloseFile
  <2>2. ofs' \in [time : 0 .. MaxTime, linked : BOOLEAN, buffer : Seq(Nat)]
    BY <1>CloseFile, EmptySeq, BoundsAssumption DEF CloseFile, NoFile
  <2>3. QED
    BY <1>CloseFile, <2>1, <2>2 DEF CloseFile, RunTo
<1>FrontDumped. CASE FrontDumped
  BY <1>FrontDumped, Records DEF FrontDumped, RunTo
<1>PopDumped. CASE PopDumped
  BY <1>PopDumped, Records, EmptySeq DEF PopDumped, RunTo
<1>FrontFailDumped. CASE FrontFailDumped
  BY <1>FrontFailDumped, Records DEF FrontFailDumped, RunTo
<1>PopFailDumped. CASE PopFailDumped
  BY <1>PopFailDumped, Records, EmptySeq DEF PopFailDumped, RunTo
<1> QED
  BY <1>LoadFileNames, <1>RunReads, <1>FrontRecord, <1>PopRecord, <1>SendSucceeds,
     <1>SendFails, <1>GiveUp, <1>Park, <1>CopyOldest, <1>EraseOldest, <1>RemoveOldest,
     <1>IndexFile, <1>OpenFile, <1>DrainFailQueue, <1>CloseFile, <1>FrontDumped,
     <1>PopDumped, <1>FrontFailDumped, <1>PopFailDumped DEF RunStep

\* Lemma: the steps of MoveData keep the types.
LEMMA MoverTypes == FlowInv /\ MoverStep => TypeOK'
<1> SUFFICES ASSUME TypeOK, MoverStep PROVE TypeOK'
  BY DEF FlowInv
<1> USE DEF TypeOK, queues, runner, mover, outside, life, Replaying
<1>MoverReads. CASE MoverReads
  <2>1. mpc' \in {"done", "queueA", "failA", "failB", "flagA", "swap", "flagB", "failC",
                  "take", "queueC", "top", "flagC", "filesC", "replay", "clear", "remove"}
    BY <1>MoverReads DEF MoverReads, MoverSees, MoveTo
  <2>2. UNCHANGED <<queues, files, success_flag, runner, info, top, str, outside, disk,
                    now>>
    BY <1>MoverReads DEF MoverReads
  <2>3. QED
    BY <2>1, <2>2
<1>Swap. CASE Swap
  BY <1>Swap DEF Swap, MoveTo
<1>FrontFailed. CASE FrontFailed
  BY <1>FrontFailed, Records DEF FrontFailed, MoveTo
<1>PopFailed. CASE PopFailed
  <2>1. m_fail_queue' \in Seq(Seq(Nat)) /\ torn' \in BOOLEAN /\ undefined' \in BOOLEAN
    BY <1>PopFailed, Records DEF PopFailed
  <2>2. QED
    BY <1>PopFailed, <2>1 DEF PopFailed, MoveTo
<1>PutBack. CASE PutBack
  <2>1. m_queue' \in Seq(Seq(Nat)) /\ info' \in Seq(Nat)
    <3>1. m_queue' = m_queue \/ m_queue' = Append(m_queue, info)
      BY <1>PutBack DEF PutBack
    <3>2. m_queue \in Seq(Seq(Nat)) /\ info \in Seq(Nat)
      OBVIOUS
    <3>3. Append(m_queue, info) \in Seq(Seq(Nat))
      BY <3>2, Records
    <3>4. m_queue' \in Seq(Seq(Nat))
      BY <3>1, <3>2, <3>3
    <3>5. info' \in Seq(Nat)
      BY <1>PutBack, EmptySeq DEF PutBack
    <3>6. QED
      BY <3>4, <3>5
  <2>2. QED
    BY <1>PutBack, <2>1 DEF PutBack, MoveTo
<1>CopyFirst. CASE CopyFirst
  BY <1>CopyFirst, Entries DEF CopyFirst, MoveTo
<1>ReadFile. CASE ReadFile
  <2>1. Content(top) \in Seq(Nat)
    BY EmptySeq DEF Content
  <2>2. str' \in Seq(Seq(Nat))
    BY <1>ReadFile, <2>1, SplitRecords DEF ReadFile
  <2>3. QED
    BY <1>ReadFile, <2>2 DEF ReadFile, MoveTo
<1>PushSplit. CASE PushSplit
  <2>1. CASE str # <<>>
    <3>1. m_queue' \in Seq(Seq(Nat)) /\ str' \in Seq(Seq(Nat))
      BY <1>PushSplit, <2>1, Records DEF PushSplit
    <3>2. QED
      BY <1>PushSplit, <2>1, <3>1 DEF PushSplit
  <2>2. CASE str = <<>>
    BY <1>PushSplit, <2>2 DEF PushSplit, MoveTo
  <2>3. QED
    BY <2>1, <2>2
<1>EraseFirst. CASE EraseFirst
  BY <1>EraseFirst, Entries DEF EraseFirst, MoveTo
<1>RemoveReplayed. CASE RemoveReplayed
  <2>1. /\ DOMAIN disk' \subseteq Times /\ \A t \in DOMAIN disk' : disk'[t] \in Seq(Nat)
        /\ ofs' \in [time : 0 .. MaxTime, linked : BOOLEAN, buffer : Seq(Nat)]
    BY <1>RemoveReplayed, Removes DEF RemoveReplayed
  <2>2. top' \in 0 .. MaxTime
    BY <1>RemoveReplayed, BoundsAssumption DEF RemoveReplayed
  <2>3. QED
    BY <1>RemoveReplayed, <2>1, <2>2 DEF RemoveReplayed, MoveTo
<1>ClearFlag. CASE ClearFlag
  BY <1>ClearFlag DEF ClearFlag, MoveTo
<1> QED
  BY <1>MoverReads, <1>Swap, <1>FrontFailed, <1>PopFailed, <1>PutBack, <1>CopyFirst,
     <1>ReadFile, <1>PushSplit, <1>EraseFirst, <1>RemoveReplayed, <1>ClearFlag
  DEF MoverStep

\* Lemma: the steps of the dispatch thread and of the process keep the types.
LEMMA ProcessTypes ==
  /\ FlowInv
  /\ SendToFlowServer \/ Quit \/ Exit \/ ExitOrderly \/ Restart \/ UNCHANGED vars
  => TypeOK'
<1> SUFFICES ASSUME TypeOK, rpc = "down" => restarts < MaxRestarts,
                    SendToFlowServer \/ Quit \/ Exit \/ ExitOrderly \/ Restart
                        \/ UNCHANGED vars
             PROVE TypeOK'
  BY DEF FlowInv, FilesInv, Staged
<1> USE DEF TypeOK, queues, runner, mover, outside, life, Replaying
<1>SendToFlowServer. CASE SendToFlowServer
  <2>1. accepted' \in 0 .. NumMsgs /\ <<accepted + 1>> \in Seq(Nat)
    BY <1>SendToFlowServer, BoundsAssumption DEF SendToFlowServer
  <2>2. m_queue' \in Seq(Seq(Nat))
    BY <1>SendToFlowServer, <2>1, Records DEF SendToFlowServer
  <2>3. QED
    BY <1>SendToFlowServer, <2>1, <2>2 DEF SendToFlowServer
<1>Quit. CASE Quit
  BY <1>Quit DEF Quit
<1>Ends. ASSUME NEW records \in Seq(Seq(Nat)), ProcessEnds(records) PROVE TypeOK'
  <2>1. /\ m_queue' \in Seq(Seq(Nat)) /\ m_fail_queue' \in Seq(Seq(Nat))
        /\ files' \in Seq(Times) /\ data_info' \in Seq(Nat) /\ info' \in Seq(Nat)
        /\ str' \in Seq(Seq(Nat))
    BY <1>Ends, EmptySeq DEF ProcessEnds
  <2>2. /\ cnt' \in 0 .. LoopTimes /\ cnt' = 0 /\ top' \in 0 .. MaxTime
        /\ evicted' \in 0 .. MaxTime /\ loaded' \in Nat
    BY <1>Ends, BoundsAssumption, LimitsAssumption DEF ProcessEnds
  <2>3. ofs' \in [time : 0 .. MaxTime, linked : BOOLEAN, buffer : Seq(Nat)]
    BY <1>Ends, EmptySeq, BoundsAssumption DEF ProcessEnds, NoFile
  <2>4. QED
    BY <1>Ends, <2>1, <2>2, <2>3 DEF ProcessEnds
<1>Exit. CASE Exit
  BY <1>Exit, <1>Ends DEF Exit
<1>ExitOrderly. CASE ExitOrderly
  <2>1. dumped \o m_queue \o m_fail_queue \in Seq(Seq(Nat))
    BY Records
  <2>2. QED
    BY <1>ExitOrderly, <1>Ends, <2>1 DEF ExitOrderly
<1>Restart. CASE Restart
  <2>1. restarts' \in 0 .. MaxRestarts
    BY <1>Restart, BoundsAssumption DEF Restart
  <2>2. QED
    BY <1>Restart, <2>1 DEF Restart, RunTo
<1>Stutter. CASE UNCHANGED vars
  BY <1>Stutter DEF vars
<1> QED
  BY <1>SendToFlowServer, <1>Quit, <1>Exit, <1>ExitOrderly, <1>Restart, <1>Stutter

\* Lemma: a step that touches neither the index nor the clock, and opens no file.
LEMMA IndexKept ==
  ASSUME Dated, UNCHANGED <<files, now, loaded>>, DOMAIN disk' \subseteq DOMAIN disk
  PROVE  Dated'
  BY DEF Dated, FilesAscending, IndexBounded

\* Lemma: the first entry of the index goes.
LEMMA IndexTail ==
  ASSUME TypeOK, Dated, files # <<>>, files' = Tail(files), UNCHANGED <<now, loaded>>,
         DOMAIN disk' \subseteq DOMAIN disk
  PROVE  Dated' /\ Len(files') = Len(files) - 1 /\ Len(files) \in Nat \ {0}
<1>1. /\ Len(files) \in Nat \ {0} /\ DOMAIN files = 1 .. Len(files)
      /\ Len(files') = Len(files) - 1 /\ DOMAIN files' = 1 .. Len(files) - 1
      /\ \A i \in 1 .. Len(files) - 1 : files'[i] = files[i + 1]
  BY Tails DEF TypeOK
<1>2. FilesAscending'
  BY <1>1 DEF Dated, FilesAscending
<1>3. (\A i \in DOMAIN files : files[i] <= now)'
  BY <1>1 DEF Dated
<1>4. IndexBounded'
  BY <1>1, LimitsAssumption DEF Dated, IndexBounded, TypeOK
<1>5. (\A t \in DOMAIN disk : t <= now)'
  BY DEF Dated
<1>6. QED
  BY <1>1, <1>2, <1>3, <1>4, <1>5 DEF Dated

\* Lemma: run keeps the invariant of the index.
LEMMA RunFiles == FlowInv /\ RunStep => FilesInv'
<1> SUFFICES ASSUME TypeOK, FilesInv, RunStep PROVE FilesInv'
  BY DEF FlowInv
<1> USE LimitsAssumption DEF Picking
<1>1. Len(files) \in Nat /\ loaded \in Nat
  BY LenProperties DEF TypeOK
<1>2. Dated /\ Staged
  BY DEF FilesInv
<1>3. ASSUME UNCHANGED <<files, now, loaded, mpc, restarts>>, DOMAIN disk' \subseteq DOMAIN disk,
             rpc \notin {"start", "down"},
             rpc' \notin {"start", "down", "evict", "erase", "remove", "index"},
             rpc' \in {"open", "drain", "write", "close"} => ofs'.time = now
      PROVE  FilesInv'
  <2>1. Dated'
    BY <1>2, <1>3, IndexKept
  <2>2. QED
    BY <1>2, <1>3, <2>1 DEF FilesInv, Staged
<1>LoadFileNames. CASE LoadFileNames
  <2>1. DOMAIN disk \in SUBSET Nat /\ IsFiniteSet(DOMAIN disk)
    BY FiniteDisk DEF TypeOK
  <2>2. /\ DOMAIN files' = 1 .. Cardinality(DOMAIN disk)
        /\ Cardinality(DOMAIN disk) \in Nat
        /\ files' \in Seq(DOMAIN disk) /\ Len(files') = Cardinality(DOMAIN disk)
        /\ \A i, j \in DOMAIN files' : i < j => files'[i] < files'[j]
    BY <1>LoadFileNames, <2>1, AscendingLists DEF LoadFileNames
  <2>3. \A i \in DOMAIN files' : files'[i] \in DOMAIN disk /\ files'[i] \in Nat
    BY <2>1, <2>2, ElementOfSeq
  <2>4. (\A i \in DOMAIN files : files[i] <= now)' /\ (\A t \in DOMAIN disk : t <= now)'
    BY <1>LoadFileNames, <1>2, <2>3 DEF LoadFileNames, Dated
  <2>5. FilesAscending'
    BY <2>2, <2>3 DEF FilesAscending
  <2>6. IndexBounded'
    BY <1>LoadFileNames, <2>2 DEF LoadFileNames, IndexBounded
  <2>7. QED
    BY <1>LoadFileNames, <2>4, <2>5, <2>6
    DEF LoadFileNames, RunTo, MoveTo, FilesInv, Dated, Staged
<1>RunReads. CASE RunReads
  <2>1. /\ UNCHANGED <<files, now, loaded, mpc, restarts, disk, success_flag, ofs>>
        /\ rpc \notin {"start", "down", "open", "drain", "write", "close"}
    BY <1>RunReads DEF RunReads, RunSees, mover, outside, life
  <2>2. CASE rpc = "count"
    <3>1. \/ rpc' = "evict" /\ Len(files) > MaxFiles
          \/ rpc' = "index" /\ ~(Len(files) > MaxFiles)
      BY <1>RunReads, <2>2 DEF RunReads, RunSees, RunTo, TooManyFiles
    <3>2. Dated'
      BY <1>2, <2>1, IndexKept
    <3>3. QED
      BY <1>1, <1>2, <2>1, <3>1, <3>2 DEF FilesInv, Staged
  <2>3. CASE rpc # "count"
    <3>1. rpc' \notin {"start", "down", "evict", "erase", "remove", "index", "open", "drain",
                       "write", "close"}
      BY <1>RunReads, <2>3 DEF RunReads, RunSees, RunTo
    <3>2. QED
      BY <1>3, <2>1, <3>1
  <2>4. QED
    BY <2>2, <2>3
<1>FrontRecord. CASE FrontRecord
  BY <1>FrontRecord, <1>3 DEF FrontRecord, RunTo, mover, life
<1>PopRecord. CASE PopRecord
  BY <1>PopRecord, <1>3 DEF PopRecord, RunTo, mover, life
<1>SendSucceeds. CASE SendSucceeds
  BY <1>SendSucceeds, <1>3 DEF SendSucceeds, RunTo, mover, life
<1>SendFails. CASE SendFails
  BY <1>SendFails, <1>3 DEF SendFails, mover, life
<1>GiveUp. CASE GiveUp
  BY <1>GiveUp, <1>3 DEF GiveUp, RunTo, mover, outside, life
<1>Park. CASE Park
  BY <1>Park, <1>3 DEF Park, RunTo, mover, outside, life
<1>CopyOldest. CASE CopyOldest
  <2>1. /\ UNCHANGED <<files, now, loaded, mpc, restarts, disk, success_flag>>
        /\ rpc = "evict" /\ rpc' = "erase"
    BY <1>CopyOldest DEF CopyOldest, RunTo, mover, life
  <2>2. Dated'
    BY <1>2, <2>1, IndexKept
  <2>3. QED
    BY <1>2, <2>1, <2>2 DEF FilesInv, Staged
<1>EraseOldest. CASE EraseOldest
  <2>1. /\ files # <<>> /\ files' = Tail(files) /\ rpc = "erase" /\ rpc' = "remove"
        /\ UNCHANGED <<now, loaded, mpc, restarts, disk>>
    <3>1. files' = Erased(files) /\ rpc = "erase" /\ rpc' = "remove"
          /\ UNCHANGED <<now, loaded, mpc, restarts, disk>>
      BY <1>EraseOldest DEF EraseOldest, RunTo, mover, life
    <3>2. Len(files) >= MaxFiles
      BY <1>1, <1>2, <3>1 DEF Staged
    <3>3. files # <<>>
      BY <3>2, EmptySeq
    <3>4. QED
      BY <3>1, <3>3 DEF Erased
  <2>2. Dated' /\ Len(files') = Len(files) - 1 /\ Len(files) \in Nat \ {0}
    BY <1>2, <2>1, IndexTail
  <2>3. mpc \in Picking => files' # <<>>
    <3>1. mpc \in Picking => Len(files) > MaxFiles
      BY <1>2, <2>1 DEF Staged
    <3>2. Len(files) > MaxFiles => Len(files') # 0
      BY <2>2
    <3>3. QED
      BY <3>1, <3>2, EmptySeq
  <2>4. Len(files') <= MaxFiles \/ Len(files') < loaded
    BY <1>1, <1>2, <2>2 DEF Dated, IndexBounded
  <2>5. QED
    BY <1>2, <2>1, <2>2, <2>3, <2>4, ZenonT(30) DEF FilesInv, Staged
<1>RemoveOldest. CASE RemoveOldest
  <2>1. /\ UNCHANGED <<files, now, loaded, mpc, restarts>>
        /\ DOMAIN disk' \subseteq DOMAIN disk /\ rpc = "remove" /\ rpc' = "index"
    BY <1>RemoveOldest, Removes DEF RemoveOldest, RunTo, mover, outside, life
  <2>2. Dated'
    BY <1>2, <2>1, IndexKept
  <2>3. QED
    BY <1>2, <2>1, <2>2 DEF FilesInv, Staged
<1>IndexFile. CASE IndexFile
  <2>1. /\ files' = Append(files, now') /\ rpc = "index" /\ rpc' = "open"
        /\ UNCHANGED <<loaded, mpc, restarts, disk>> /\ ofs'.time = now'
        /\ now' \in Times /\ now <= now' /\ now \in Times /\ DOMAIN disk \subseteq Times
    BY <1>IndexFile DEF IndexFile, Indexed, NoFile, RunTo, mover, outside, life, TypeOK
  <2>2. /\ Len(files') = Len(files) + 1
        /\ DOMAIN files = 1 .. Len(files) /\ DOMAIN files' = 1 .. Len(files) + 1
        /\ \A i \in 1 .. Len(files) : files'[i] = files[i] /\ files[i] \in Times
        /\ files'[Len(files) + 1] = now'
    BY <2>1, Appends, ElementOfSeq DEF TypeOK
  <2>3. \A i \in 1 .. Len(files) : files[i] <= now /\ files[i] <= now'
    BY <1>2, <2>1, <2>2 DEF Dated, Times
  <2>4. (\A i \in DOMAIN files : files[i] <= now)'
    BY <1>1, <2>1, <2>2, <2>3 DEF Times
  <2>5. FilesAscending'
    BY <1>1, <1>2, <2>1, <2>2, <2>3 DEF Dated, FilesAscending, Times
  <2>6. (\A t \in DOMAIN disk : t <= now)'
    BY <1>2, <2>1 DEF Dated, Times
  <2>7. IndexBounded'
    BY <1>1, <1>2, <2>1, <2>2 DEF Dated, Staged, IndexBounded
  <2>8. files' # <<>>
    BY <1>1, <2>2
  <2>9. QED
    BY <1>2, <2>1, <2>4, <2>5, <2>6, <2>7, <2>8 DEF FilesInv, Dated, Staged
<1>OpenFile. CASE OpenFile
  <2>1. /\ UNCHANGED <<files, now, loaded, mpc, restarts>>
        /\ rpc = "open" /\ rpc' = "drain" /\ ofs'.time = ofs.time /\ ofs.time = now
        /\ DOMAIN disk' \subseteq DOMAIN disk \cup {now} /\ now \in Times
    <3>1. ofs.time = now /\ rpc = "open"
      BY <1>OpenFile, <1>2 DEF OpenFile, Staged
    <3>2. ofs'.time = ofs.time
      BY <1>OpenFile DEF OpenFile, TypeOK
    <3>3. DOMAIN disk' \subseteq DOMAIN disk \cup {now}
      BY <1>OpenFile, <3>1 DEF OpenFile
    <3>4. QED
      BY <1>OpenFile, <3>1, <3>2, <3>3 DEF OpenFile, RunTo, mover, outside, life, TypeOK
  <2>2. Dated'
    BY <1>2, <2>1 DEF Dated, FilesAscending, IndexBounded, Times
  <2>3. QED
    BY <1>2, <2>1, <2>2 DEF FilesInv, Staged
<1>DrainFailQueue. CASE DrainFailQueue
  <2>1. /\ UNCHANGED <<files, now, loaded, mpc, restarts, disk>>
        /\ rpc \in {"drain", "write"} /\ rpc' \in {"write", "close"}
    BY <1>DrainFailQueue DEF DrainFailQueue, RunTo, mover
  <2>2. ofs'.time = ofs.time
    BY <1>DrainFailQueue DEF DrainFailQueue, TypeOK
  <2>3. ofs'.time = now
    BY <1>2, <2>1, <2>2 DEF Staged
  <2>4. QED
    BY <1>3, <2>1, <2>3
<1>CloseFile. CASE CloseFile
  <2>1. /\ UNCHANGED <<files, now, loaded, mpc, restarts>> /\ DOMAIN disk' = DOMAIN disk
        /\ rpc = "close" /\ rpc' = "top"
    BY <1>CloseFile DEF CloseFile, RunTo, mover, outside, life
  <2>2. QED
    BY <1>3, <2>1
<1>FrontDumped. CASE FrontDumped
  BY <1>FrontDumped, <1>3 DEF FrontDumped, RunTo, mover, life
<1>PopDumped. CASE PopDumped
  BY <1>PopDumped, <1>3 DEF PopDumped, RunTo, mover, life
<1>FrontFailDumped. CASE FrontFailDumped
  BY <1>FrontFailDumped, <1>3 DEF FrontFailDumped, RunTo, mover, life
<1>PopFailDumped. CASE PopFailDumped
  BY <1>PopFailDumped, <1>3 DEF PopFailDumped, RunTo, mover, life
<1> QED
  BY <1>LoadFileNames, <1>RunReads, <1>FrontRecord, <1>PopRecord, <1>SendSucceeds,
     <1>SendFails, <1>GiveUp, <1>Park, <1>CopyOldest, <1>EraseOldest, <1>RemoveOldest,
     <1>IndexFile, <1>OpenFile, <1>DrainFailQueue, <1>CloseFile, <1>FrontDumped,
     <1>PopDumped, <1>FrontFailDumped, <1>PopFailDumped DEF RunStep

\* Lemma: MoveData keeps the invariant of the index.
LEMMA MoverFiles == FlowInv /\ MoverStep => FilesInv'
<1> SUFFICES ASSUME TypeOK, FilesInv, MoverStep PROVE FilesInv'
  BY DEF FlowInv
<1> USE LimitsAssumption DEF Picking
<1>1. Len(files) \in Nat /\ loaded \in Nat
  BY LenProperties DEF TypeOK
<1>2. Dated /\ Staged
  BY DEF FilesInv
<1>3. ASSUME UNCHANGED <<files, now, loaded, rpc, restarts, success_flag>>,
             DOMAIN disk' \subseteq DOMAIN disk, ofs'.time = ofs.time,
             mpc # "off", mpc' # "off",
             mpc' \in Picking => mpc \in Picking,
             mpc' = "filesC" => FALSE,
             mpc \in {"print", "remove", "clear"} => mpc' \in {"remove", "clear"}
      PROVE  FilesInv'
  <2>1. Dated'
    BY <1>2, <1>3, IndexKept
  <2>2. QED
    BY <1>2, <1>3, <2>1 DEF FilesInv, Staged
<1>MoverReads. CASE MoverReads
  <2>1. /\ UNCHANGED <<files, now, loaded, rpc, restarts, disk, ofs, success_flag>>
        /\ mpc \notin {"off", "clear", "remove"} \cup Picking
        /\ mpc' \notin {"off", "read", "split", "erase", "print"}
    BY <1>MoverReads DEF MoverReads, MoverSees, MoveTo, runner, outside, life
  <2>2. CASE mpc = "flagC"
    <3>1. \/ mpc' = "top"
          \/ mpc' = "filesC" /\ success_flag
      BY <1>MoverReads, <2>2 DEF MoverReads, MoverSees, MoveTo, SendingWorks
    <3>2. Dated'
      BY <1>2, <2>1, IndexKept
    <3>3. QED
      BY <1>2, <2>1, <2>2, <3>1, <3>2 DEF FilesInv, Staged
  <2>3. CASE mpc = "filesC"
    <3>1. \/ mpc' = "replay" /\ files # <<>>
          \/ mpc' = "clear"
      BY <1>MoverReads, <2>3 DEF MoverReads, MoverSees, MoveTo
    <3>2. Dated'
      BY <1>2, <2>1, IndexKept
    <3>3. QED
      BY <1>2, <2>1, <2>3, <3>1, <3>2 DEF FilesInv, Staged
  <2>4. CASE mpc \notin {"flagC", "filesC"}
    <3>1. mpc' \notin {"filesC", "replay"} /\ (mpc = "print" => mpc' = "remove")
      BY <1>MoverReads, <2>4 DEF MoverReads, MoverSees, MoveTo
    <3>2. QED
      BY <1>3, <2>1, <3>1
  <2>5. QED
    BY <2>2, <2>3, <2>4
<1>Swap. CASE Swap
  BY <1>Swap, <1>3 DEF Swap, MoveTo, runner, outside, life
<1>FrontFailed. CASE FrontFailed
  BY <1>FrontFailed, <1>3 DEF FrontFailed, MoveTo, runner, life
<1>PopFailed. CASE PopFailed
  BY <1>PopFailed, <1>3 DEF PopFailed, MoveTo, runner, life
<1>PutBack. CASE PutBack
  BY <1>PutBack, <1>3 DEF PutBack, MoveTo, runner, outside, life
<1>CopyFirst. CASE CopyFirst
  BY <1>CopyFirst, <1>3 DEF CopyFirst, MoveTo, runner, life
<1>ReadFile. CASE ReadFile
  BY <1>ReadFile, <1>3 DEF ReadFile, MoveTo, runner, outside, life
<1>PushSplit. CASE PushSplit
  <2>1. /\ UNCHANGED <<files, now, loaded, rpc, restarts, success_flag, disk, ofs>>
        /\ mpc = "split" /\ mpc' \in {"split", "erase"}
    BY <1>PushSplit DEF PushSplit, MoveTo, runner, outside, life
  <2>2. QED
    BY <1>3, <2>1
<1>EraseFirst. CASE EraseFirst
  <2>1. /\ files # <<>> /\ files' = Tail(files) /\ mpc = "erase" /\ mpc' = "print"
        /\ UNCHANGED <<now, loaded, rpc, restarts, disk, ofs>>
    <3>1. files' = Erased(files) /\ mpc = "erase" /\ mpc' = "print"
          /\ UNCHANGED <<now, loaded, rpc, restarts, disk, ofs>>
      BY <1>EraseFirst DEF EraseFirst, MoveTo, runner, life
    <3>2. files # <<>>
      BY <1>2, <3>1 DEF Staged
    <3>3. QED
      BY <3>1, <3>2 DEF Erased
  <2>2. Dated' /\ Len(files') = Len(files) - 1 /\ Len(files) \in Nat \ {0}
    BY <1>2, <2>1, IndexTail
  <2>3. rpc \in {"evict", "erase"} => Len(files') > MaxFiles \/ Len(files') = MaxFiles
    <3>1. rpc \in {"evict", "erase"} => Len(files) > MaxFiles
      BY <1>2, <2>1 DEF Staged
    <3>2. QED
      BY <2>2, <3>1
  <2>4. rpc \in {"remove", "index"} => Len(files') <= MaxFiles \/ Len(files') < loaded
    BY <1>1, <1>2, <2>2 DEF Staged
  <2>5. QED
    BY <1>2, <2>1, <2>2, <2>3, <2>4, ZenonT(30) DEF FilesInv, Staged
<1>RemoveReplayed. CASE RemoveReplayed
  <2>1. /\ UNCHANGED <<files, now, loaded, rpc, restarts, success_flag>>
        /\ DOMAIN disk' \subseteq DOMAIN disk /\ ofs'.time = ofs.time
        /\ mpc = "remove" /\ mpc' = "clear"
    BY <1>RemoveReplayed, Removes DEF RemoveReplayed, MoveTo, outside, life
  <2>2. QED
    BY <1>3, <2>1
<1>ClearFlag. CASE ClearFlag
  <2>1. /\ UNCHANGED <<files, disk, now, loaded, rpc, restarts, ofs>>
        /\ mpc = "clear" /\ mpc' = "top" /\ ~success_flag'
    BY <1>ClearFlag DEF ClearFlag, MoveTo, runner, outside, life
  <2>2. Dated'
    BY <1>2, <2>1, IndexKept
  <2>3. QED
    BY <1>2, <2>1, <2>2 DEF FilesInv, Staged
<1> QED
  BY <1>MoverReads, <1>Swap, <1>FrontFailed, <1>PopFailed, <1>PutBack, <1>CopyFirst,
     <1>ReadFile, <1>PushSplit, <1>EraseFirst, <1>RemoveReplayed, <1>ClearFlag
  DEF MoverStep

\* Lemma: the dispatch thread and the process keep the invariant of the index.
LEMMA ProcessFiles ==
  /\ FlowInv
  /\ SendToFlowServer \/ Quit \/ Exit \/ ExitOrderly \/ Restart \/ UNCHANGED vars
  => FilesInv'
<1> SUFFICES ASSUME TypeOK, FilesInv,
                    SendToFlowServer \/ Quit \/ Exit \/ ExitOrderly \/ Restart
                        \/ UNCHANGED vars
             PROVE FilesInv'
  BY DEF FlowInv
<1>2. Dated
  BY DEF FilesInv
<1>3. ASSUME UNCHANGED <<files, disk, now, loaded, rpc, mpc, restarts, success_flag, ofs>>
      PROVE  FilesInv'
  <2>1. Dated'
    BY <1>2, <1>3, IndexKept
  <2>2. QED
    BY <1>3, <2>1 DEF FilesInv, Staged
<1>SendToFlowServer. CASE SendToFlowServer
  BY <1>SendToFlowServer, <1>3 DEF SendToFlowServer, runner, mover, life
<1>Quit. CASE Quit
  BY <1>Quit, <1>3 DEF Quit, runner, mover, life
<1>Ends. ASSUME NEW records, ProcessEnds(records) PROVE FilesInv'
  <2>1. /\ files' = <<>> /\ Len(files') = 0 /\ DOMAIN files' = {}
        /\ rpc' = "down" /\ mpc' = "off" /\ loaded' = 0 /\ restarts < MaxRestarts
        /\ UNCHANGED <<disk, now, restarts>>
    BY <1>Ends DEF ProcessEnds
  <2>2. QED
    BY <2>1, LimitsAssumption DEF FilesInv, Dated, Staged, Picking, FilesAscending, IndexBounded
<1>Exit. CASE Exit
  BY <1>Exit, <1>Ends DEF Exit
<1>ExitOrderly. CASE ExitOrderly
  BY <1>ExitOrderly, <1>Ends DEF ExitOrderly
<1>Restart. CASE Restart
  <2>1. /\ UNCHANGED <<files, disk, now, loaded, mpc>> /\ rpc = "down" /\ rpc' = "start"
    BY <1>Restart DEF Restart, RunTo, mover
  <2>2. Dated'
    BY <1>2, <2>1, IndexKept
  <2>3. QED
    BY <2>1, <2>2 DEF FilesInv, Staged
<1>Stutter. CASE UNCHANGED vars
  BY <1>Stutter, <1>3 DEF vars, runner, mover, outside, life
<1> QED
  BY <1>SendToFlowServer, <1>Quit, <1>Exit, <1>ExitOrderly, <1>Restart, <1>Stutter

\* Lemma: what the processes are in at any time.
LEMMA FlowNext == FlowInv /\ [Next]_vars => FlowInv'
  BY RunTypes, MoverTypes, ProcessTypes, RunFiles, MoverFiles, ProcessFiles
  DEF Next, FlowInv


-----------------------------------------------------------------------------
(* What follows from it *)

\* Theorem: the types, for any number of messages, limits, failures and restarts.
THEOREM TypeCorrect == SafeSpec => []TypeOK
<1>1. FlowInv => TypeOK
  BY DEF FlowInv
<1>2. QED
  BY <1>1, FlowInit, FlowNext, PTL DEF SafeSpec

\* Theorem: the first entry of the index is the oldest, whatever the two threads
\* erase, append and find (FlowRpcAsynNode.cpp:147, 158, 234, 292).
THEOREM OldestFirst == SafeSpec => []FilesAscending
<1>1. FlowInv => FilesAscending
  BY DEF FlowInv, FilesInv, Dated, Staged
<1>2. QED
  BY <1>1, FlowInit, FlowNext, PTL DEF SafeSpec

\* Theorem: the index is over the limit only by the file being written, or because
\* LoadFileNames found that many (FlowRpcAsynNode.cpp:145-158, 263-302).
THEOREM LimitHolds == SafeSpec => []IndexBounded
<1>1. FlowInv => IndexBounded
  BY DEF FlowInv, FilesInv, Dated, Staged
<1>2. QED
  BY <1>1, FlowInit, FlowNext, PTL DEF SafeSpec

\* The ways to a data file in no index.
OrphanWay ==
    \/ rpc = "remove" /\ evicted \in DOMAIN disk'
    \/ mpc = "remove" /\ top \in DOMAIN disk'
    \/ rpc = "erase" /\ evicted # Oldest(files)
    \/ mpc = "erase" /\ top # Oldest(files)
    \/ rpc = "open" /\ ofs.time \notin ToSet(files)

\* Lemma: erasing the first entry hides the first file only.
LEMMA ErasedCovers ==
  ASSUME files \in Seq(Times), files # <<>>
  PROVE  ToSet(files) \subseteq ToSet(Erased(files)) \cup {Oldest(files)}
<1>1. /\ Oldest(files) = files[1] /\ Len(files) \in Nat \ {0}
      /\ DOMAIN files = 1 .. Len(files) /\ DOMAIN Erased(files) = 1 .. Len(files) - 1
      /\ \A i \in 1 .. Len(files) - 1 : Erased(files)[i] = files[i + 1]
  BY Entries, Tails DEF Oldest
<1>2. ASSUME NEW i \in DOMAIN files, i # 1 PROVE files[i] \in ToSet(Erased(files))
  <2>1. i - 1 \in 1 .. Len(files) - 1 /\ (i - 1) + 1 = i
    BY <1>1, <1>2
  <2>2. Erased(files)[i - 1] = files[i]
    BY <1>1, <2>1
  <2>3. QED
    BY <1>1, <2>1, <2>2 DEF ToSet
<1>3. QED
  BY <1>1, <1>2 DEF ToSet

\* Lemma: there is no other way at any step.
LEMMA NoOrphanKept ==
  ASSUME FlowInv, Next, NoOrphan, ~OrphanWay PROVE NoOrphan'
<1> USE DEF FlowInv
<1> DEFINE Known == DOMAIN disk \subseteq ToSet(files) \cup Doomed
<1>1. rpc \notin {"start", "down"} => Known
  BY DEF NoOrphan
<1>2. ASSUME Known, DOMAIN disk' \subseteq DOMAIN disk, UNCHANGED files,
             Doomed \subseteq Doomed'
      PROVE  NoOrphan'
  BY <1>2 DEF NoOrphan
<1>3. ASSUME UNCHANGED <<files, disk, evicted, top, rpc>>, mpc \notin {"print", "remove"}
      PROVE  NoOrphan'
  BY <1>1, <1>3 DEF NoOrphan, Doomed
<1>4. ASSUME UNCHANGED <<files, disk, evicted, top, mpc>>, rpc \notin {"start", "down", "remove"}
      PROVE  NoOrphan'
  BY <1>1, <1>4 DEF NoOrphan, Doomed
<1>5. files \in Seq(Times)
  BY DEF TypeOK
<1>6. ASSUME RunStep PROVE NoOrphan'
  <2>1. CASE LoadFileNames
    <3>1. DOMAIN disk \in SUBSET Nat /\ IsFiniteSet(DOMAIN disk)
      BY FiniteDisk DEF TypeOK
    <3>2. \A t \in DOMAIN disk : \E i \in DOMAIN files' : files'[i] = t
      BY <2>1, <3>1, AscendingLists DEF LoadFileNames
    <3>3. QED
      BY <2>1, <3>2 DEF LoadFileNames, NoOrphan, ToSet
  <2>2. CASE EraseOldest
    <3>1. /\ rpc = "erase" /\ rpc' = "remove" /\ evicted = Oldest(files)
          /\ files' = Erased(files) /\ UNCHANGED <<disk, evicted, top, mpc>>
      BY <2>2 DEF EraseOldest, RunTo, mover, OrphanWay
    <3>2. CASE files # <<>>
      BY <1>1, <1>5, <3>1, <3>2, ErasedCovers DEF NoOrphan, Doomed
    <3>3. CASE files = <<>>
      BY <1>1, <3>1, <3>3 DEF NoOrphan, Doomed, Erased
    <3>4. QED
      BY <3>2, <3>3
  <2>3. CASE RemoveOldest
    <3>1. /\ rpc = "remove" /\ rpc' = "index" /\ evicted \notin DOMAIN disk'
          /\ UNCHANGED <<files, top, mpc>> /\ DOMAIN disk' \subseteq DOMAIN disk
      BY <2>3, Removes DEF RemoveOldest, RunTo, mover, OrphanWay
    <3>2. QED
      BY <1>1, <3>1 DEF NoOrphan, Doomed
  <2>4. CASE IndexFile
    <3>1. files' = Append(files, now') /\ now' \in Times
      BY <2>4 DEF IndexFile, Indexed
    <3>2. ToSet(files) \subseteq ToSet(files')
      <4>1. /\ DOMAIN files = 1 .. Len(files) /\ DOMAIN files' = 1 .. Len(files) + 1
            /\ Len(files) \in Nat /\ \A i \in 1 .. Len(files) : files'[i] = files[i]
        BY <1>5, <3>1, Appends
      <4>2. QED
        BY <4>1 DEF ToSet
    <3>3. rpc = "index" /\ rpc' = "open" /\ UNCHANGED <<disk, evicted, top, mpc>>
      BY <2>4 DEF IndexFile, RunTo, mover
    <3>4. QED
      BY <1>1, <3>2, <3>3 DEF NoOrphan, Doomed
  <2>5. CASE OpenFile
    <3>1. /\ rpc = "open" /\ rpc' = "drain" /\ UNCHANGED <<files, evicted, top, mpc>>
          /\ ofs.time \in ToSet(files)
      BY <2>5 DEF OpenFile, RunTo, mover, OrphanWay
    <3>2. DOMAIN disk' \subseteq DOMAIN disk \cup {ofs.time}
      BY <2>5 DEF OpenFile
    <3>3. QED
      BY <1>1, <3>1, <3>2 DEF NoOrphan, Doomed
  <2>6. CASE CloseFile
    <3>1. /\ rpc = "close" /\ rpc' = "top" /\ UNCHANGED <<files, evicted, top, mpc>>
          /\ DOMAIN disk' = DOMAIN disk
      BY <2>6 DEF CloseFile, RunTo, mover
    <3>2. QED
      BY <1>1, <3>1 DEF NoOrphan, Doomed
  <2>7. CASE CopyOldest
    BY <1>1, <2>7 DEF CopyOldest, RunTo, mover, NoOrphan, Doomed
  <2>8. CASE RunReads \/ FrontRecord \/ PopRecord
    <3>1. UNCHANGED <<files, disk, evicted, top, mpc>> /\ rpc \notin {"start", "down", "remove"}
      BY <2>8 DEF RunReads, RunSees, FrontRecord, PopRecord, mover
    <3>2. QED
      BY <1>4, <3>1
  <2>9. CASE SendSucceeds \/ SendFails \/ GiveUp \/ Park \/ DrainFailQueue
    <3>1. UNCHANGED <<files, disk, evicted, top, mpc>> /\ rpc \notin {"start", "down", "remove"}
      BY <2>9 DEF SendSucceeds, SendFails, GiveUp, Park, DrainFailQueue, mover
    <3>2. QED
      BY <1>4, <3>1
  <2>10. CASE FrontDumped \/ PopDumped \/ FrontFailDumped \/ PopFailDumped
    <3>1. UNCHANGED <<files, disk, evicted, top, mpc>> /\ rpc \notin {"start", "down", "remove"}
      BY <2>10 DEF FrontDumped, PopDumped, FrontFailDumped, PopFailDumped, mover
    <3>2. QED
      BY <1>4, <3>1
  <2>11. QED
    BY <1>6, <2>1, <2>2, <2>3, <2>4, <2>5, <2>6, <2>7, <2>8, <2>9, <2>10 DEF RunStep
<1>7. ASSUME MoverStep PROVE NoOrphan'
  <2>0. rpc \notin {"start", "down"}
    BY <1>7 DEF FilesInv, Staged, MoverStep, MoverReads, MoverSees, Swap, FrontFailed,
        PopFailed, PutBack, CopyFirst, ReadFile, PushSplit, EraseFirst, RemoveReplayed,
        ClearFlag
  <2>1. CASE EraseFirst
    <3>1. /\ mpc = "erase" /\ mpc' = "print" /\ top = Oldest(files)
          /\ files' = Erased(files) /\ UNCHANGED <<disk, evicted, top, rpc>>
      BY <2>1 DEF EraseFirst, MoveTo, runner, OrphanWay
    <3>2. CASE files # <<>>
      BY <1>1, <1>5, <2>0, <3>1, <3>2, ErasedCovers DEF NoOrphan, Doomed
    <3>3. CASE files = <<>>
      BY <1>1, <2>0, <3>1, <3>3 DEF NoOrphan, Doomed, Erased
    <3>4. QED
      BY <3>2, <3>3
  <2>2. CASE RemoveReplayed
    <3>1. /\ mpc = "remove" /\ mpc' = "clear" /\ top \notin DOMAIN disk'
          /\ UNCHANGED <<files, evicted, rpc>> /\ DOMAIN disk' \subseteq DOMAIN disk
      BY <2>2, Removes DEF RemoveReplayed, MoveTo, FileRead, OrphanWay
    <3>2. QED
      BY <1>1, <2>0, <3>1 DEF NoOrphan, Doomed
  <2>3. CASE MoverReads
    <3>1. UNCHANGED <<files, disk, evicted, top, rpc>>
      BY <2>3 DEF MoverReads, runner
    <3>2. mpc = "print" => mpc' = "remove"
      BY <2>3 DEF MoverReads, MoverSees, MoveTo
    <3>3. mpc # "remove"
      BY <2>3 DEF MoverReads, MoverSees
    <3>4. QED
      BY <1>1, <2>0, <3>1, <3>2, <3>3 DEF NoOrphan, Doomed
  <2>4. CASE CopyFirst
    BY <1>1, <2>0, <2>4 DEF CopyFirst, MoveTo, runner, NoOrphan, Doomed
  <2>5. CASE Swap \/ FrontFailed \/ PopFailed \/ PutBack \/ ReadFile \/ PushSplit \/ ClearFlag
    <3>1. UNCHANGED <<files, disk, evicted, top, rpc>> /\ mpc \notin {"print", "remove"}
      BY <2>5 DEF Swap, FrontFailed, PopFailed, PutBack, ReadFile, PushSplit, ClearFlag,
          runner
    <3>2. QED
      BY <1>3, <3>1
  <2>6. QED
    BY <1>7, <2>1, <2>2, <2>3, <2>4, <2>5 DEF MoverStep
<1>8. ASSUME SendToFlowServer \/ Quit PROVE NoOrphan'
  <2>1. UNCHANGED <<files, disk, evicted, top, rpc, mpc>>
    BY <1>8 DEF SendToFlowServer, Quit, runner, mover
  <2>2. QED
    BY <1>1, <2>1 DEF NoOrphan, Doomed
<1>9. ASSUME Exit \/ ExitOrderly \/ Restart PROVE NoOrphan'
  BY <1>9 DEF Exit, ExitOrderly, ProcessEnds, Restart, RunTo, NoOrphan
<1>10. QED
  BY <1>6, <1>7, <1>8, <1>9 DEF Next

\* Theorem: a data file falls out of the index only when remove() fails, when one
\* thread erases the entry behind the one it removes the file of, or when MoveData
\* erases the entry of a file run has still to create
\* (FlowRpcAsynNode.cpp:147-159, 236-257).
THEOREM WaysToOrphansOnly == SafeSpec => WaysToOrphans
<1>1. FlowInv /\ [Next]_vars => [NoOrphan /\ ~NoOrphan' => OrphanWay]_vars
  BY NoOrphanKept
<1>2. QED
  BY <1>1, FlowInit, FlowNext, PTL DEF SafeSpec, WaysToOrphans, OrphanWay

-----------------------------------------------------------------------------
(* What front() and pop() find *)

Dumping == {"dump", "dumpfront", "dumppop", "dumpfail", "failfront", "failpop", "done"}

\* A record someone is about to take is there, unless the process was told to
\* stop, whose dump takes records from under both threads, or has spilled, which
\* takes them from under MoveData, who may then swap nothing into m_queue.
PopInv ==
    /\ rpc \in Dumping => sys_quit
    /\ rpc \in {"pop", "popped"} => m_queue # <<>> \/ sys_quit \/ spilled
    /\ mpc \in {"flagA", "swap", "flagB", "take", "taken"} =>
           m_fail_queue # <<>> \/ sys_quit \/ spilled
    /\ NeverPopsEmpty

\* Lemma: no step takes away what one of the threads is about to take.
LEMMA PopNext == FlowInv /\ PopInv /\ [Next]_vars => PopInv'
<1> SUFFICES ASSUME TypeOK, Staged, PopInv, [Next]_vars PROVE PopInv'
  BY DEF FlowInv, FilesInv
<1> USE DEF PopInv, NeverPopsEmpty, Dumping, outside, runner, mover, life, queues
<1>1. \A q \in Seq(Seq(Nat)), r \in Seq(Nat) : Append(q, r) # <<>>
  BY Appends
<1>2. /\ m_queue \in Seq(Seq(Nat)) /\ m_fail_queue \in Seq(Seq(Nat)) /\ str \in Seq(Seq(Nat))
      /\ info \in Seq(Nat) /\ data_info \in Seq(Nat) /\ accepted \in Nat
  BY BoundsAssumption DEF TypeOK
<1>3. rpc \in {"evict", "erase"} \/ mpc \in {"replay", "erase"} => files # <<>>
  <2>1. rpc \in {"evict", "erase"} => Len(files) # 0
    BY LimitsAssumption DEF Staged
  <2>2. QED
    BY <2>1, EmptySeq DEF Staged, Picking
<1>4. ASSUME UNCHANGED <<m_queue, m_fail_queue, mpc, sys_quit, spilled>>,
             undefined' => undefined \/ sys_quit \/ spilled,
             rpc' \in {"pop", "popped"} =>
                 rpc \in {"pop", "popped"} \/ m_queue # <<>>,
             rpc' \in Dumping => rpc \in Dumping \/ sys_quit
      PROVE  PopInv'
  BY <1>4
<1>5. ASSUME ~undefined, RunStep PROVE PopInv'
  <2>1. CASE LoadFileNames
    BY <1>5, <2>1 DEF LoadFileNames, RunTo, MoveTo
  <2>2. CASE RunReads
    <3>1. UNCHANGED <<m_queue, m_fail_queue, mpc, sys_quit, spilled, undefined>>
      BY <2>2 DEF RunReads
    <3>2. /\ rpc' \in Dumping => rpc \in Dumping \/ sys_quit
          /\ rpc' \in {"pop", "popped"} => m_queue # <<>>
      BY <2>2 DEF RunReads, RunSees, RunTo, HasRecord, Stopped
    <3>3. QED
      BY <1>4, <3>1, <3>2
  <2>3. CASE FrontRecord
    <3>1. /\ rpc = "pop" /\ rpc' = "popped" /\ undefined' = (m_queue = <<>>)
          /\ UNCHANGED <<m_queue, m_fail_queue, mpc, sys_quit, spilled>>
      BY <2>3 DEF FrontRecord, RunTo
    <3>2. QED
      BY <1>4, <3>1
  <2>4. CASE PopRecord
    <3>1. /\ rpc = "popped" /\ rpc' = "send" /\ undefined' = (m_queue = <<>>)
          /\ UNCHANGED <<m_fail_queue, mpc, sys_quit, spilled>>
      BY <2>4 DEF PopRecord, RunTo
    <3>2. QED
      BY <3>1
  <2>5. CASE SendSucceeds \/ SendFails \/ GiveUp
    <3>1. /\ UNCHANGED <<m_queue, m_fail_queue, mpc, sys_quit, spilled, undefined>>
          /\ rpc' \in {"check", "send", "park"}
      BY <2>5 DEF SendSucceeds, SendFails, GiveUp, RunTo
    <3>2. QED
      BY <1>4, <3>1
  <2>6. CASE Park
    <3>1. /\ UNCHANGED <<m_queue, mpc, sys_quit, spilled, undefined>> /\ rpc' = "check"
          /\ m_fail_queue' = Append(m_fail_queue, data_info)
      BY <2>6 DEF Park, RunTo
    <3>2. m_fail_queue' # <<>>
      BY <1>1, <1>2, <3>1
    <3>3. QED
      BY <3>1, <3>2
  <2>7. CASE CopyOldest \/ EraseOldest
    <3>1. /\ rpc \in {"evict", "erase"} /\ rpc' \in {"erase", "remove"}
          /\ undefined' = (files = <<>>)
          /\ UNCHANGED <<m_queue, m_fail_queue, mpc, sys_quit, spilled>>
      BY <2>7 DEF CopyOldest, EraseOldest, RunTo
    <3>2. ~undefined'
      BY <1>3, <3>1
    <3>3. QED
      BY <1>4, <3>1, <3>2
  <2>8. CASE RemoveOldest \/ IndexFile \/ OpenFile \/ CloseFile
    <3>1. /\ UNCHANGED <<m_queue, m_fail_queue, mpc, sys_quit, spilled, undefined>>
          /\ rpc' \in {"index", "open", "drain", "top"}
      BY <2>8 DEF RemoveOldest, IndexFile, OpenFile, CloseFile, RunTo
    <3>2. QED
      BY <1>4, <3>1
  <2>9. CASE DrainFailQueue
    <3>1. UNCHANGED <<m_queue, mpc, sys_quit, undefined>> /\ rpc' \in {"write", "close"}
      BY <2>9 DEF DrainFailQueue, RunTo
    <3>2. spilled' \/ UNCHANGED <<m_fail_queue, spilled>>
      BY <2>9 DEF DrainFailQueue
    <3>3. QED
      BY <1>5, <3>1, <3>2
  <2>10. CASE FrontDumped \/ PopDumped \/ FrontFailDumped \/ PopFailDumped
    <3>1. rpc \in Dumping /\ rpc' \in Dumping /\ UNCHANGED <<mpc, sys_quit>>
      BY <2>10 DEF FrontDumped, PopDumped, FrontFailDumped, PopFailDumped, RunTo
    <3>2. QED
      BY <3>1
  <2>11. QED
    BY <1>5, <2>1, <2>2, <2>3, <2>4, <2>5, <2>6, <2>7, <2>8, <2>9, <2>10 DEF RunStep
<1>6. ASSUME ~undefined, MoverStep PROVE PopInv'
  <2>1. CASE MoverReads
    <3>1. UNCHANGED <<m_queue, m_fail_queue, rpc, sys_quit, spilled, undefined>>
      BY <2>1 DEF MoverReads
    <3>2. mpc' \in {"flagA", "swap", "flagB", "take", "taken"} =>
              mpc \in {"flagA", "swap", "flagB", "take", "taken"} \/ m_fail_queue # <<>>
      BY <2>1 DEF MoverReads, MoverSees, MoveTo, HasFailed
    <3>3. QED
      BY <3>1, <3>2
  <2>2. CASE Swap
    <3>1. /\ m_queue' = m_fail_queue /\ mpc = "swap" /\ mpc' = "failB"
          /\ UNCHANGED <<rpc, sys_quit, spilled, undefined>>
      BY <2>2 DEF Swap, MoveTo
    <3>2. QED
      BY <3>1
  <2>3. CASE FrontFailed
    <3>1. /\ mpc = "take" /\ mpc' = "taken" /\ undefined' = (m_fail_queue = <<>>)
          /\ UNCHANGED <<m_queue, m_fail_queue, rpc, sys_quit, spilled>>
      BY <2>3 DEF FrontFailed, MoveTo
    <3>2. QED
      BY <3>1
  <2>4. CASE PopFailed
    <3>1. /\ mpc = "taken" /\ mpc' = "put" /\ undefined' = (m_fail_queue = <<>>)
          /\ UNCHANGED <<m_queue, rpc, sys_quit, spilled>>
      BY <2>4 DEF PopFailed, MoveTo
    <3>2. QED
      BY <3>1
  <2>5. CASE PutBack
    <3>1. /\ mpc' = "failC" /\ UNCHANGED <<m_fail_queue, rpc, sys_quit, spilled, undefined>>
          /\ m_queue' = m_queue \/ m_queue' = Append(m_queue, info)
      BY <2>5 DEF PutBack, MoveTo
    <3>2. m_queue # <<>> => m_queue' # <<>>
      BY <1>1, <1>2, <3>1
    <3>3. QED
      BY <3>1, <3>2
  <2>6. CASE CopyFirst \/ EraseFirst
    <3>1. /\ mpc \in {"replay", "erase"} /\ mpc' \in {"read", "print"}
          /\ undefined' = (files = <<>>)
          /\ UNCHANGED <<m_queue, m_fail_queue, rpc, sys_quit, spilled>>
      BY <2>6 DEF CopyFirst, EraseFirst, MoveTo
    <3>2. ~undefined'
      BY <1>3, <3>1
    <3>3. QED
      BY <3>1, <3>2
  <2>7. CASE PushSplit
    <3>1. /\ mpc' \in {"split", "erase"}
          /\ UNCHANGED <<m_fail_queue, rpc, sys_quit, spilled, undefined>>
      BY <2>7 DEF PushSplit, MoveTo
    <3>2. m_queue # <<>> => m_queue' # <<>>
      <4>1. CASE str # <<>>
        BY <1>1, <1>2, <2>7, <4>1, Records DEF PushSplit
      <4>2. CASE str = <<>>
        BY <2>7, <4>2 DEF PushSplit
      <4>3. QED
        BY <4>1, <4>2
    <3>3. QED
      BY <3>1, <3>2
  <2>8. CASE ReadFile \/ RemoveReplayed \/ ClearFlag
    <3>1. /\ mpc' \in {"split", "clear", "top"}
          /\ UNCHANGED <<m_queue, m_fail_queue, rpc, sys_quit, spilled, undefined>>
      BY <2>8 DEF ReadFile, RemoveReplayed, ClearFlag, MoveTo
    <3>2. QED
      BY <3>1
  <2>9. QED
    BY <1>6, <2>1, <2>2, <2>3, <2>4, <2>5, <2>6, <2>7, <2>8 DEF MoverStep
<1>7. ASSUME ~undefined, SendToFlowServer PROVE PopInv'
  <2>1. /\ m_queue' = Append(m_queue, <<accepted + 1>>) /\ <<accepted + 1>> \in Seq(Nat)
        /\ UNCHANGED <<m_fail_queue, rpc, mpc, sys_quit, spilled, undefined>>
    BY <1>2, <1>7 DEF SendToFlowServer
  <2>2. m_queue' # <<>>
    BY <1>1, <1>2, <2>1
  <2>3. QED
    BY <2>1, <2>2
<1>8. ASSUME ~undefined, Quit \/ Exit \/ ExitOrderly PROVE PopInv'
  BY <1>8 DEF Quit, Exit, ExitOrderly, ProcessEnds
<1>9. ASSUME ~undefined, Restart PROVE PopInv'
  BY <1>9 DEF Restart, RunTo, Staged
<1>10. CASE UNCHANGED vars
  BY <1>10 DEF vars
<1>11. QED
  BY <1>5, <1>6, <1>7, <1>8, <1>9, <1>10 DEF Next

\* Lemma: nothing is about to be taken at first.
LEMMA PopInit == Init => PopInv
  BY DEF Init, PopInv, NeverPopsEmpty, Dumping

\* Theorem: before a spill and before sys_quit nothing is taken from an empty
\* queue or an empty index (FlowRpcAsynNode.cpp:114-120, 145-148, 211-216, 235-249).
THEOREM PopsWhatItSaw == SafeSpec => []NeverPopsEmpty
<1>1. PopInv => NeverPopsEmpty
  BY DEF PopInv
<1>2. QED
  BY <1>1, PopInit, PopNext, FlowInit, FlowNext, PTL DEF SafeSpec

\* The mutexes as far as they reach, and what they do not: between front() and
\* pop() of run a swap may come, and then MoveData may take the record from
\* m_fail_queue; it cannot put it back, because run has m_qmutex.
TornInv ==
    /\ rpc = "popped" => mpc \notin Replaying
    /\ mpc = "taken" => rpc \notin {"write", "close"}
    /\ ~sys_quit =>
           /\ mpc = "taken" => FirstOf(m_fail_queue) = info
           /\ rpc = "popped" /\ data_info # <<>> =>
                  \/ FirstOf(m_queue) = data_info
                  \/ FirstOf(m_fail_queue) = data_info
                  \/ mpc = "put" /\ info = data_info

\* Lemma: where the record in run's hand may be.
LEMMA TornNext == FlowInv /\ PopInv /\ TornInv /\ [Next]_vars => TornInv'
<1> SUFFICES ASSUME TypeOK, Staged, PopInv, TornInv, [Next]_vars PROVE TornInv'
  BY DEF FlowInv, FilesInv
<1> USE DEF TornInv, Replaying, outside, runner, mover, life, queues
<1>1. rpc \in Dumping => sys_quit
  BY DEF PopInv
<1>2. ASSUME NEW q \in Seq(Seq(Nat)), NEW r \in Seq(Nat), NEW d, FirstOf(q) = d, d # <<>>
      PROVE  FirstOf(Append(q, r)) = d
  <2>1. q # <<>>
    BY <1>2 DEF FirstOf
  <2>2. /\ Append(q, r) # <<>> /\ Append(q, r) \in Seq(Seq(Nat))
        /\ \A i \in 1 .. Len(q) : Append(q, r)[i] = q[i]
    BY Appends
  <2>3. /\ Head(q) = q[1] /\ Len(q) \in Nat \ {0}
        /\ Head(Append(q, r)) = Append(q, r)[1]
    BY <2>1, <2>2, Tails
  <2>4. QED
    BY <1>2, <2>1, <2>2, <2>3 DEF FirstOf
<1>3. /\ m_queue \in Seq(Seq(Nat)) /\ m_fail_queue \in Seq(Seq(Nat))
      /\ info \in Seq(Nat) /\ data_info \in Seq(Nat)
  BY DEF TypeOK
<1>4. ASSUME UNCHANGED <<m_fail_queue, mpc, info, sys_quit>>, rpc' # "popped",
             rpc' \in {"write", "close"} => mpc # "taken"
      PROVE  TornInv'
  BY <1>4
<1>5. ASSUME RunStep PROVE TornInv'
  <2>1. CASE LoadFileNames
    BY <2>1 DEF LoadFileNames, RunTo, MoveTo
  <2>2. CASE RunReads
    <3>1. UNCHANGED <<m_fail_queue, mpc, info, sys_quit>>
          /\ rpc' \notin {"popped", "write", "close"}
      BY <2>2 DEF RunReads, RunSees, RunTo
    <3>2. QED
      BY <1>4, <3>1
  <2>3. CASE FrontRecord
    <3>1. /\ rpc' = "popped" /\ data_info' = FirstOf(m_queue) /\ mpc \notin Replaying
          /\ UNCHANGED <<m_queue, m_fail_queue, mpc, info, sys_quit>>
      BY <2>3 DEF FrontRecord, QFree, RunTo
    <3>2. QED
      BY <3>1
  <2>4. CASE PopRecord \/ SendSucceeds \/ SendFails \/ GiveUp
    <3>1. /\ rpc' \in {"send", "check", "park"}
          /\ UNCHANGED <<m_fail_queue, mpc, info, sys_quit>>
      BY <2>4 DEF PopRecord, SendSucceeds, SendFails, GiveUp, RunTo
    <3>2. QED
      BY <1>4, <3>1
  <2>5. CASE Park
    <3>1. rpc' = "check" /\ mpc # "taken" /\ UNCHANGED <<mpc, info, sys_quit>>
      BY <2>5 DEF Park, FqFree, RunTo
    <3>2. QED
      BY <3>1
  <2>6. CASE CopyOldest \/ EraseOldest \/ RemoveOldest \/ IndexFile \/ OpenFile \/ CloseFile
    <3>1. /\ rpc' \notin {"popped", "write", "close"}
          /\ UNCHANGED <<m_fail_queue, mpc, info, sys_quit>>
      BY <2>6 DEF CopyOldest, EraseOldest, RemoveOldest, IndexFile, OpenFile, CloseFile, RunTo
    <3>2. QED
      BY <1>4, <3>1
  <2>7. CASE DrainFailQueue
    <3>1. rpc \in {"drain", "write"} /\ rpc' \in {"write", "close"}
          /\ UNCHANGED <<mpc, info, sys_quit>>
      BY <2>7 DEF DrainFailQueue, RunTo
    <3>2. mpc # "taken"
      BY <2>7, <3>1 DEF DrainFailQueue, FqFree
    <3>3. QED
      BY <3>1, <3>2
  <2>8. CASE FrontDumped \/ PopDumped \/ FrontFailDumped \/ PopFailDumped
    <3>1. /\ rpc \in Dumping /\ UNCHANGED <<mpc, sys_quit>>
          /\ rpc' \notin {"popped", "write", "close"}
      BY <2>8 DEF FrontDumped, PopDumped, FrontFailDumped, PopFailDumped, RunTo, Dumping
    <3>2. QED
      BY <1>1, <3>1
  <2>9. QED
    BY <1>5, <2>1, <2>2, <2>3, <2>4, <2>5, <2>6, <2>7, <2>8 DEF RunStep
<1>6. ASSUME MoverStep PROVE TornInv'
  <2>1. CASE MoverReads
    <3>1. /\ UNCHANGED <<m_queue, m_fail_queue, data_info, info, rpc, sys_quit>>
          /\ mpc # "put" /\ mpc' # "taken" /\ (mpc' \in Replaying => mpc \in Replaying)
      BY <2>1 DEF MoverReads, MoverSees, MoveTo
    <3>2. QED
      BY <3>1
  <2>2. CASE Swap
    <3>1. /\ m_queue' = m_fail_queue /\ m_fail_queue' = m_queue
          /\ UNCHANGED <<data_info, info, rpc, sys_quit>> /\ mpc = "swap" /\ mpc' = "failB"
      BY <2>2 DEF Swap, MoveTo
    <3>2. QED
      BY <3>1
  <2>3. CASE FrontFailed
    <3>1. /\ info' = FirstOf(m_fail_queue) /\ mpc = "take" /\ mpc' = "taken"
          /\ rpc \notin {"write", "close"}
          /\ UNCHANGED <<m_queue, m_fail_queue, data_info, rpc, sys_quit>>
      BY <2>3 DEF FrontFailed, FqFree, MoveTo
    <3>2. QED
      BY <3>1
  <2>4. CASE PopFailed
    <3>1. /\ mpc = "taken" /\ mpc' = "put"
          /\ UNCHANGED <<m_queue, data_info, info, rpc, sys_quit>>
      BY <2>4 DEF PopFailed, MoveTo
    <3>2. QED
      BY <3>1
  <2>5. CASE PutBack
    <3>1. /\ mpc = "put" /\ mpc' = "failC"
          /\ UNCHANGED <<m_fail_queue, data_info, rpc, sys_quit>>
          /\ (rpc = "popped" => info = <<>> /\ UNCHANGED m_queue)
      BY <2>5 DEF PutBack, QFree, MoveTo
    <3>2. QED
      BY <3>1
  <2>6. CASE CopyFirst
    <3>1. mpc' = "read" /\ rpc # "popped" /\ UNCHANGED rpc
      BY <2>6 DEF CopyFirst, QFree, MoveTo
    <3>2. QED
      BY <3>1
  <2>7. CASE ReadFile \/ PushSplit \/ EraseFirst \/ RemoveReplayed \/ ClearFlag
    <3>1. /\ mpc \in Replaying \cup {"clear"} /\ UNCHANGED rpc
          /\ mpc' \in {"split", "erase", "print", "clear", "top"}
          /\ (mpc = "clear" => mpc' = "top" /\ UNCHANGED <<m_queue, m_fail_queue, data_info, info,
                                                         sys_quit>>)
      BY <2>7 DEF ReadFile, PushSplit, EraseFirst, RemoveReplayed, ClearFlag, MoveTo
    <3>2. QED
      BY <3>1
  <2>8. QED
    BY <1>6, <2>1, <2>2, <2>3, <2>4, <2>5, <2>6, <2>7 DEF MoverStep
<1>7. CASE SendToFlowServer
  <2>1. rpc # "popped" /\ UNCHANGED <<m_fail_queue, rpc, mpc, info, sys_quit>>
    BY <1>7 DEF SendToFlowServer, QFree
  <2>2. QED
    BY <2>1
<1>8. CASE Quit \/ Exit \/ ExitOrderly
  BY <1>8 DEF Quit, Exit, ExitOrderly, ProcessEnds
<1>9. CASE Restart
  BY <1>9 DEF Restart, RunTo, Staged
<1>10. CASE UNCHANGED vars
  BY <1>10 DEF vars
<1>11. QED
  BY <1>5, <1>6, <1>7, <1>8, <1>9, <1>10 DEF Next

\* Theorem: before sys_quit run pops a record other than the one it will send only
\* when the queues were swapped in between, and then the one it will send is still
\* the first of m_fail_queue, or just taken from there
\* (FlowRpcAsynNode.cpp:118-121, 203-206, 214-217).
THEOREM TornBySwapOnly == SafeSpec => TornBySwap
<1> DEFINE Swapped == /\ rpc = "popped"
                      /\ \/ FirstOf(m_fail_queue) = data_info
                         \/ mpc = "put" /\ info = data_info
<1>1. Init => TornInv
  BY DEF Init, TornInv
<1>2. PopInv /\ TornInv /\ [Next]_vars
          => [~sys_quit /\ ~torn /\ torn' /\ data_info # <<>> => Swapped]_vars
  <2> SUFFICES ASSUME PopInv, TornInv, Next, ~sys_quit, ~torn, torn', data_info # <<>>
               PROVE  Swapped
    OBVIOUS
  <2>1. CASE PopRecord
    BY <2>1 DEF PopRecord, TornInv
  <2>2. ~PopFailed
    BY DEF PopFailed, TornInv
  <2>3. ~PopDumped /\ ~PopFailDumped
    BY DEF PopDumped, PopFailDumped, PopInv, Dumping
  <2>4. PopRecord \/ PopFailed \/ PopDumped \/ PopFailDumped
    BY DEF Next, RunStep, MoverStep, SendToFlowServer, Quit, Exit, ExitOrderly,
        ProcessEnds, Restart, LoadFileNames, RunReads, FrontRecord, SendSucceeds,
        SendFails, GiveUp, Park, CopyOldest, EraseOldest, RemoveOldest, IndexFile,
        OpenFile, DrainFailQueue, CloseFile, FrontDumped, FrontFailDumped, MoverReads,
        Swap, FrontFailed, PutBack, CopyFirst, ReadFile, PushSplit, EraseFirst,
        RemoveReplayed, ClearFlag, outside
  <2>5. QED
    BY <2>1, <2>2, <2>3, <2>4
<1>3. QED
  BY <1>1, <1>2, TornNext, PopInit, PopNext, FlowInit, FlowNext, PTL
  DEF SafeSpec, TornBySwap

-----------------------------------------------------------------------------
(* Where a message is *)

Bit(m, record) == IF m \in MsgsIn(record) THEN 1 ELSE 0

\* Lemma: a queue holds a message in finitely many places.
LEMMA PlacesType ==
  ASSUME NEW q \in Seq(Seq(Nat)), NEW m
  PROVE  IsFiniteSet(Holding(q, m)) /\ Places(m, q) \in Nat
<1>1. Len(q) \in Nat /\ DOMAIN q = 1 .. Len(q)
  BY LenProperties
<1>2. IsFiniteSet(1 .. Len(q)) /\ Holding(q, m) \in SUBSET (1 .. Len(q))
  BY <1>1, FS_Interval DEF Holding
<1>3. QED
  BY <1>2, FS_Subset, FS_CardinalityType DEF Places

\* Lemma: what was appended to is held in one place more, if it is of the record.
LEMMA PlacesAppend ==
  ASSUME NEW q \in Seq(Seq(Nat)), NEW r \in Seq(Nat), NEW m
  PROVE  Places(m, Append(q, r)) = Places(m, q) + Bit(m, r)
<1> DEFINE more == Append(q, r)
           n == Len(q) + 1
<1>1. n \in Nat /\ DOMAIN q = 1 .. n - 1
  BY LenProperties
<1>2. DOMAIN more = 1 .. n /\ more[n] = r /\ \A i \in 1 .. n - 1 : more[i] = q[i]
  BY Appends
<1>3. IsFiniteSet(Holding(q, m)) /\ Places(m, q) \in Nat
  BY PlacesType
<1>4. n \notin Holding(q, m)
  BY <1>1 DEF Holding
<1>5. CASE m \in MsgsIn(r)
  <2>1. Holding(more, m) = Holding(q, m) \cup {n}
    BY <1>1, <1>2, <1>5 DEF Holding
  <2>2. QED
    BY <2>1, <1>3, <1>4, <1>5, FS_AddElement DEF Places, Bit
<1>6. CASE m \notin MsgsIn(r)
  <2>1. Holding(more, m) = Holding(q, m)
    BY <1>1, <1>2, <1>6 DEF Holding
  <2>2. QED
    BY <2>1, <1>3, <1>6 DEF Places, Bit
<1>7. QED
  BY <1>5, <1>6

\* Lemma: the record popped takes with it what it held, the others move up.
LEMMA PlacesTail ==
  ASSUME NEW q \in Seq(Seq(Nat)), q # <<>>, NEW m
  PROVE  Places(m, q) = Places(m, Tail(q)) + Bit(m, Head(q))
<1> DEFINE n == Len(q)
           behind == Holding(q, m) \ {1}
<1>1. n \in Nat \ {0} /\ DOMAIN q = 1 .. n /\ Head(q) = q[1]
  BY Tails
<1>2. /\ Tail(q) \in Seq(Seq(Nat)) /\ DOMAIN Tail(q) = 1 .. n - 1
      /\ \A i \in 1 .. n - 1 : Tail(q)[i] = q[i + 1]
  BY Tails
<1>3. IsFiniteSet(Holding(q, m)) /\ IsFiniteSet(Holding(Tail(q), m))
      /\ Places(m, q) \in Nat /\ Places(m, Tail(q)) \in Nat
  BY <1>2, PlacesType
<1>4. Cardinality(Holding(Tail(q), m)) = Cardinality(behind)
  <2> DEFINE up == [i \in Holding(Tail(q), m) |-> i + 1]
  <2>1. \A i \in Holding(Tail(q), m) : i \in 1 .. n - 1 /\ m \in MsgsIn(q[i + 1])
    BY <1>2 DEF Holding
  <2>2. \A i \in Holding(Tail(q), m) : up[i] \in behind
    BY <2>1, <1>1 DEF Holding
  <2>3. \A j \in behind : j - 1 \in Holding(Tail(q), m) /\ up[j - 1] = j
    BY <1>1, <1>2 DEF Holding
  <2>4. \A i, j \in Holding(Tail(q), m) : up[i] = up[j] => i = j
    BY <2>1
  <2>5. up \in Bijection(Holding(Tail(q), m), behind)
    <3>1. up \in [Holding(Tail(q), m) -> behind]
      BY <2>2
    <3>2. \A j \in behind : \E i \in Holding(Tail(q), m) : up[i] = j
      BY <2>3
    <3>3. DOMAIN up = Holding(Tail(q), m)
      OBVIOUS
    <3> HIDE DEF up, behind
    <3>4. QED
      BY <3>1, <3>2, <3>3, <2>4, Zenon DEF Bijection, Injection, IsInjective, Surjection
  <2>6. QED
    BY <2>5, <1>3, FS_Bijection DEF ExistsBijection
<1>5. Cardinality(behind) = Cardinality(Holding(q, m))
                                - IF 1 \in Holding(q, m) THEN 1 ELSE 0
  <2>1. Cardinality(behind) = IF 1 \in Holding(q, m) THEN Cardinality(Holding(q, m)) - 1
                                                     ELSE Cardinality(Holding(q, m))
    BY <1>3, FS_RemoveElement
  <2>2. Cardinality(Holding(q, m)) \in Nat
    BY <1>3 DEF Places
  <2> HIDE DEF behind
  <2>3. QED
    BY <2>1, <2>2
<1>6. 1 \in Holding(q, m) <=> m \in MsgsIn(Head(q))
  BY <1>1 DEF Holding
<1>7. QED
  BY <1>3, <1>4, <1>5, <1>6 DEF Places, Bit

\* Lemma: records without the message, put behind, change nothing.
LEMMA PlacesConcat ==
  ASSUME NEW q \in Seq(Seq(Nat)), NEW p \in Seq(Seq(Nat)), NEW m,
         \A k \in DOMAIN p : m \notin MsgsIn(p[k])
  PROVE  Places(m, q \o p) = Places(m, q)
<1>1. /\ DOMAIN q = 1 .. Len(q) /\ Len(q) \in Nat
      /\ DOMAIN p = 1 .. Len(p) /\ Len(p) \in Nat
      /\ DOMAIN (q \o p) = 1 .. Len(q) + Len(p)
      /\ \A i \in 1 .. Len(q) + Len(p) :
             (q \o p)[i] = IF i <= Len(q) THEN q[i] ELSE p[i - Len(q)]
  BY ConcatProperties, LenProperties
<1>2. \A i \in DOMAIN (q \o p) : i > Len(q) => i - Len(q) \in DOMAIN p
  BY <1>1
<1>3. Holding(q \o p, m) = Holding(q, m)
  BY <1>1, <1>2 DEF Holding
<1>4. QED
  BY <1>3 DEF Places

\* Lemma: an empty queue holds nothing, and neither does an empty record.
LEMMA PlacesNone ==
  ASSUME NEW m
  PROVE  Places(m, <<>>) = 0 /\ Bit(m, <<>>) = 0
<1>1. Holding(<<>>, m) = {} /\ MsgsIn(<<>>) = {}
  BY DEF Holding, MsgsIn, ToSet
<1>2. QED
  BY <1>1, FS_EmptySet DEF Places, Bit

\* Lemma: the records a file is split into hold what the file held.
LEMMA SplitMsgs ==
  ASSUME NEW data \in Seq(Nat), NEW m, m \notin MsgsIn(data)
  PROVE  \A k \in DOMAIN Split(data) : m \notin MsgsIn(Split(data)[k])
  BY SplitRecords DEF MsgsIn, ToSet

\* Where a message is as long as nothing was spilled.
Held(m) ==
    Places(m, m_queue) + Places(m, m_fail_queue) + Places(m, delivered)
        + Places(m, dumped) + Places(m, str) + InHand(m) + InTransit(m)

\* A first process that has not spilled, and whose pops took what front() had
\* returned: no file, no record read from one, and not the stream either, holds a
\* message of this life, and an accepted message is in one place in memory, at the
\* server or dumped.
Unspilled == ~spilled /\ ~torn /\ restarts = 0 /\ rpc # "down"
OldFiles ==
    /\ ofs.buffer = <<>>
    /\ \A t \in DOMAIN disk : \A m \in 1 .. NumMsgs : m \notin MsgsIn(disk[t])
    /\ \A k \in DOMAIN str : \A m \in 1 .. NumMsgs : m \notin MsgsIn(str[k])
OnceInv ==
    Unspilled => /\ OldFiles
                 /\ \A m \in 1 .. NumMsgs : Held(m) = IF m <= accepted THEN 1 ELSE 0

\* Lemma: no step makes an unspilled first process of another one.
LEMMA UnspilledBefore ==
  ASSUME TypeOK, Next, Unspilled'
  PROVE  Unspilled /\ ~(Exit \/ ExitOrderly \/ Restart)
<1> USE DEF queues, runner, mover, outside, life, Unspilled
<1>1. ASSUME RunStep PROVE Unspilled
  <2>1. CASE DrainFailQueue
    <3>1. spilled' \/ UNCHANGED spilled
      BY <2>1 DEF DrainFailQueue
    <3>2. rpc \in {"drain", "write"} /\ UNCHANGED <<restarts, torn>>
      BY <2>1 DEF DrainFailQueue
    <3>3. ~spilled
      BY <3>1, Zenon
    <3>4. QED
      BY <3>2, <3>3
  <2>2. CASE PopRecord \/ PopDumped \/ PopFailDumped
    <3>1. /\ UNCHANGED <<spilled, restarts>> /\ torn' = (torn \/ torn')
          /\ rpc \in {"popped", "dumppop", "failpop"}
      BY <2>2 DEF PopRecord, PopDumped, PopFailDumped, TypeOK
    <3>2. QED
      BY <3>1
  <2>3. CASE \/ LoadFileNames \/ FrontRecord \/ FrontDumped \/ FrontFailDumped
             \/ IndexFile \/ OpenFile \/ CloseFile
    <3>1. UNCHANGED <<spilled, restarts, torn>> /\ rpc # "down"
      BY <2>3 DEF LoadFileNames, FrontRecord, FrontDumped, FrontFailDumped,
          IndexFile, OpenFile, CloseFile
    <3>2. QED
      BY <3>1
  <2>4. CASE \/ SendSucceeds \/ SendFails \/ GiveUp \/ Park
             \/ CopyOldest \/ EraseOldest \/ RemoveOldest
    <3>1. UNCHANGED <<spilled, restarts, torn>> /\ rpc # "down"
      BY <2>4 DEF SendSucceeds, SendFails, GiveUp, Park, CopyOldest, EraseOldest,
          RemoveOldest
    <3>2. QED
      BY <3>1
  <2>5. CASE RunReads
    BY <2>5 DEF RunReads, RunSees
  <2>6. QED
    BY <1>1, <2>1, <2>2, <2>3, <2>4, <2>5 DEF RunStep
<1>2. ASSUME MoverStep PROVE Unspilled
  <2>1. UNCHANGED <<spilled, restarts, rpc>> /\ torn' = (torn \/ torn')
    BY <1>2 DEF MoverStep, MoverReads, Swap, FrontFailed, PopFailed, PutBack, CopyFirst,
        ReadFile, PushSplit, EraseFirst, RemoveReplayed, ClearFlag, TypeOK
  <2>2. QED
    BY <2>1
<1>3. ASSUME SendToFlowServer \/ Quit PROVE Unspilled
  BY <1>3 DEF SendToFlowServer, Quit
<1>4. ~(Exit \/ ExitOrderly)
  BY DEF Exit, ExitOrderly, ProcessEnds
<1>5. ~Restart
  BY DEF Restart, TypeOK
<1>6. QED
  BY <1>1, <1>2, <1>3, <1>4, <1>5 DEF Next

\* Lemma: in such a process the files, and what is read from them, keep to the
\* messages of earlier ones.
LEMMA FilesStayOld ==
  ASSUME TypeOK, TypeOK', OldFiles, ~spilled',
         RunStep \/ MoverStep \/ Quit \/ SendToFlowServer
  PROVE  OldFiles'
<1> USE DEF queues, runner, mover, outside, life
<1>1. ASSUME UNCHANGED <<disk, str>>, ofs'.buffer = ofs.buffer PROVE OldFiles'
  BY <1>1 DEF OldFiles
<1>2. ASSUME NEW t, RemoveFile(t), UNCHANGED str PROVE OldFiles'
  <2>1. /\ \A u \in DOMAIN disk' : u \in DOMAIN disk /\ disk'[u] = disk[u]
        /\ ofs'.buffer = ofs.buffer
    BY <1>2, Removes
  <2>2. QED
    BY <1>2, <2>1 DEF OldFiles
<1>3. MsgsIn(<<>>) = {}
  BY DEF MsgsIn, ToSet
<1>4. ASSUME RunStep PROVE OldFiles'
  <2>1. CASE \/ LoadFileNames \/ RunReads \/ FrontRecord \/ PopRecord
             \/ SendSucceeds \/ SendFails \/ GiveUp \/ Park \/ CopyOldest \/ EraseOldest
    <3>1. UNCHANGED <<disk, str, ofs>>
      BY <2>1 DEF LoadFileNames, RunReads, FrontRecord, PopRecord, SendSucceeds, SendFails,
          GiveUp, Park, CopyOldest, EraseOldest
    <3>2. QED
      BY <3>1, <1>1
  <2>2. CASE FrontDumped \/ PopDumped \/ FrontFailDumped \/ PopFailDumped
    <3>1. UNCHANGED <<disk, str, ofs>>
      BY <2>2 DEF FrontDumped, PopDumped, FrontFailDumped, PopFailDumped
    <3>2. QED
      BY <3>1, <1>1
  <2>3. CASE RemoveOldest
    BY <2>3, <1>2 DEF RemoveOldest
  <2>4. CASE IndexFile
    <3>1. UNCHANGED <<disk, str>> /\ ofs'.buffer = <<>>
      BY <2>4 DEF IndexFile, NoFile
    <3>2. QED
      BY <3>1, <1>1 DEF OldFiles
  <2>5. CASE OpenFile
    <3>1. ofs'.buffer = ofs.buffer /\ UNCHANGED str
      BY <2>5 DEF OpenFile, TypeOK
    <3>2. \A t \in DOMAIN disk' : \/ t \in DOMAIN disk /\ disk'[t] = disk[t]
                                  \/ disk'[t] = <<>>
      BY <2>5 DEF OpenFile
    <3>3. QED
      BY <1>3, <3>1, <3>2 DEF OldFiles
  <2>6. CASE DrainFailQueue
    <3>1. UNCHANGED <<disk, str>> /\ (spilled' \/ UNCHANGED ofs)
      BY <2>6 DEF DrainFailQueue
    <3>2. QED
      BY <3>1, <1>1
  <2>7. CASE CloseFile
    <3>1. ASSUME NEW t \in DOMAIN disk PROVE disk[t] \o ofs.buffer = disk[t]
      BY <3>1, ConcatEmptySeq DEF OldFiles, TypeOK
    <3>2. disk' = disk \/ disk' = [disk EXCEPT ![ofs.time] = disk[ofs.time] \o ofs.buffer]
      BY <2>7 DEF CloseFile
    <3>3. DOMAIN disk' = DOMAIN disk /\ \A t \in DOMAIN disk : disk'[t] = disk[t]
      BY <3>1, <3>2
    <3>4. ofs'.buffer = <<>> /\ UNCHANGED str
      BY <2>7 DEF CloseFile, NoFile
    <3>5. QED
      BY <3>3, <3>4 DEF OldFiles
  <2>8. QED
    BY <1>4, <2>1, <2>2, <2>3, <2>4, <2>5, <2>6, <2>7 DEF RunStep
<1>5. ASSUME MoverStep PROVE OldFiles'
  <2>1. CASE \/ MoverReads \/ Swap \/ FrontFailed \/ PopFailed \/ PutBack
             \/ CopyFirst \/ EraseFirst \/ ClearFlag
    <3>1. UNCHANGED <<disk, str, ofs>>
      BY <2>1 DEF MoverReads, Swap, FrontFailed, PopFailed, PutBack, CopyFirst,
          EraseFirst, ClearFlag
    <3>2. QED
      BY <3>1, <1>1
  <2>2. CASE ReadFile
    <3>1. str' = Split(Content(top)) /\ UNCHANGED <<disk, ofs>>
      BY <2>2 DEF ReadFile
    <3>2. /\ Content(top) \in Seq(Nat)
          /\ \A m \in 1 .. NumMsgs : m \notin MsgsIn(Content(top))
      BY <1>3, EmptySeq DEF Content, OldFiles, TypeOK
    <3>3. \A m \in 1 .. NumMsgs : \A k \in DOMAIN str' : m \notin MsgsIn(str'[k])
      BY <3>1, <3>2, SplitMsgs
    <3>4. QED
      BY <3>1, <3>3 DEF OldFiles
  <2>3. CASE PushSplit
    <3>1. UNCHANGED <<disk, ofs>>
      BY <2>3 DEF PushSplit
    <3>2. CASE str = <<>>
      BY <2>3, <3>1, <3>2, <1>1 DEF PushSplit
    <3>3. CASE str # <<>>
      <4>1. str' = Tail(str)
        BY <2>3, <3>3 DEF PushSplit
      <4>2. /\ DOMAIN str' = 1 .. Len(str) - 1 /\ Len(str) \in Nat \ {0}
            /\ DOMAIN str = 1 .. Len(str)
            /\ \A i \in 1 .. Len(str) - 1 : str'[i] = str[i + 1]
        BY <4>1, <3>3, Tails DEF TypeOK
      <4>3. \A k \in DOMAIN str' : k + 1 \in DOMAIN str /\ str'[k] = str[k + 1]
        BY <4>2
      <4>4. \A k \in DOMAIN str' : \A m \in 1 .. NumMsgs : m \notin MsgsIn(str'[k])
        BY <4>3 DEF OldFiles
      <4>5. QED
        BY <3>1, <4>4 DEF OldFiles
    <3>4. QED
      BY <3>2, <3>3
  <2>4. CASE RemoveReplayed
    BY <2>4, <1>2 DEF RemoveReplayed
  <2>5. QED
    BY <1>5, <2>1, <2>2, <2>3, <2>4 DEF MoverStep
<1>6. ASSUME SendToFlowServer \/ Quit PROVE OldFiles'
  BY <1>6, <1>1 DEF SendToFlowServer, Quit
<1>7. QED
  BY <1>4, <1>5, <1>6

\* Lemma: where a record passes from one place to another, its messages do.
LEMMA RecordsPass ==
  ASSUME TypeOK, Staged, TypeOK', ~spilled', ~torn', NEW m,
         RunStep \/ MoverStep \/ Quit, ~ReadFile
  PROVE  Held(m)' = Held(m) /\ UNCHANGED accepted
<1> USE DEF queues, runner, mover, outside, life
<1>0. UNCHANGED accepted
  <2>1. RunStep => UNCHANGED accepted
    BY DEF RunStep, LoadFileNames, RunReads, FrontRecord, PopRecord, SendSucceeds,
        SendFails, GiveUp, Park, CopyOldest, EraseOldest, RemoveOldest, IndexFile,
        OpenFile, DrainFailQueue, CloseFile, FrontDumped, PopDumped, FrontFailDumped,
        PopFailDumped
  <2>2. MoverStep => UNCHANGED accepted
    BY DEF MoverStep, MoverReads, Swap, FrontFailed, PopFailed, PutBack, CopyFirst,
        ReadFile, PushSplit, EraseFirst, RemoveReplayed, ClearFlag
  <2>3. QED
    BY <2>1, <2>2 DEF Quit
<1>1. /\ Places(m, m_queue) \in Nat /\ Places(m, m_fail_queue) \in Nat
      /\ Places(m, delivered) \in Nat /\ Places(m, dumped) \in Nat
      /\ Places(m, m_queue') \in Nat /\ Places(m, m_fail_queue') \in Nat
      /\ Places(m, delivered') \in Nat /\ Places(m, dumped') \in Nat
      /\ Places(m, str) \in Nat /\ Places(m, str') \in Nat
  BY PlacesType DEF TypeOK
<1>2. \A r : Bit(m, r) \in {0, 1}
  BY DEF Bit
<1>3. /\ InHand(m) = IF rpc \in {"send", "park"} THEN Bit(m, data_info) ELSE 0
      /\ InTransit(m) = IF mpc = "put" THEN Bit(m, info) ELSE 0
      /\ InHand(m)' = IF rpc' \in {"send", "park"} THEN Bit(m, data_info') ELSE 0
      /\ InTransit(m)' = IF mpc' = "put" THEN Bit(m, info') ELSE 0
  BY DEF InHand, InTransit, Bit
<1>4. ASSUME UNCHANGED <<m_queue, m_fail_queue, delivered, dumped, str>>,
             InHand(m)' = InHand(m), InTransit(m)' = InTransit(m)
      PROVE  Held(m)' = Held(m)
  BY <1>4 DEF Held
<1>5. ASSUME NEW q \in Seq(Seq(Nat))
      PROVE  Places(m, q) = Places(m, Popped(q)) + Bit(m, FirstOf(q))
  <2>1. CASE q = <<>>
    BY <2>1, PlacesNone DEF Popped, FirstOf
  <2>2. CASE q # <<>>
    BY <2>2, PlacesTail DEF Popped, FirstOf
  <2>3. QED
    BY <2>1, <2>2
<1>6. ASSUME NEW q \in Seq(Seq(Nat)), NEW r \in Seq(Nat)
      PROVE  Places(m, Append(q, r)) = Places(m, q) + Bit(m, r)
  BY PlacesAppend
<1>7. /\ m_queue \in Seq(Seq(Nat)) /\ m_fail_queue \in Seq(Seq(Nat))
      /\ delivered \in Seq(Seq(Nat)) /\ dumped \in Seq(Seq(Nat))
      /\ data_info \in Seq(Nat) /\ info \in Seq(Nat) /\ str \in Seq(Seq(Nat))
  BY DEF TypeOK
<1>8. ASSUME RunStep PROVE Held(m)' = Held(m)
  <2>1. CASE LoadFileNames
    <3>1. /\ UNCHANGED <<m_queue, m_fail_queue, delivered, dumped, str>>
          /\ rpc = "start" /\ rpc' = "top" /\ mpc' = "top" /\ mpc = "off"
      BY <2>1 DEF LoadFileNames, RunTo, MoveTo, Staged
    <3>2. QED
      BY <3>1, <1>3, <1>4
  <2>2. CASE \/ FrontRecord \/ FrontDumped \/ FrontFailDumped \/ CopyOldest \/ EraseOldest
             \/ RemoveOldest \/ IndexFile \/ OpenFile \/ CloseFile
    <3>1. rpc' \notin {"send", "park"} /\ rpc \notin {"send", "park"}
      BY <2>2 DEF FrontRecord, FrontDumped, FrontFailDumped, CopyOldest, EraseOldest,
          RemoveOldest, IndexFile, OpenFile, CloseFile, RunTo
    <3>2. UNCHANGED <<m_queue, m_fail_queue, delivered, dumped, str, info, mpc>>
      BY <2>2 DEF FrontRecord, FrontDumped, FrontFailDumped, CopyOldest, EraseOldest,
          RemoveOldest, IndexFile, OpenFile, CloseFile
    <3>3. QED
      BY <3>1, <3>2, <1>3, <1>4
  <2>3. CASE RunReads
    <3>1. rpc' \notin {"send", "park"} /\ rpc \notin {"send", "park"}
      BY <2>3 DEF RunReads, RunSees, RunTo
    <3>2. UNCHANGED <<m_queue, m_fail_queue, delivered, dumped, str, info, mpc>>
      BY <2>3 DEF RunReads
    <3>3. QED
      BY <3>1, <3>2, <1>3, <1>4
  <2>4. CASE DrainFailQueue
    <3>1. rpc' \notin {"send", "park"} /\ rpc \notin {"send", "park"}
      BY <2>4 DEF DrainFailQueue, RunTo
    <3>2. UNCHANGED <<m_queue, m_fail_queue, delivered, dumped, str, info, mpc>>
      BY <2>4 DEF DrainFailQueue
    <3>3. QED
      BY <3>1, <3>2, <1>3, <1>4
  <2>5. CASE PopRecord
    <3>1. Places(m, m_queue) = Places(m, m_queue') + Bit(m, data_info)
      <4>1. FirstOf(m_queue) = data_info /\ m_queue' = Popped(m_queue)
        BY <2>5 DEF PopRecord
      <4>2. QED
        BY <4>1, <1>5, <1>7
    <3>2. /\ UNCHANGED <<m_fail_queue, delivered, dumped, str, mpc, info, data_info>>
          /\ rpc = "popped" /\ rpc' = "send"
      BY <2>5 DEF PopRecord, RunTo
    <3>3. InHand(m) = 0 /\ InHand(m)' = Bit(m, data_info) /\ InTransit(m)' = InTransit(m)
      BY <3>2, <1>3
    <3>4. InTransit(m) \in {0, 1}
      BY <1>2, <1>3
    <3>5. QED
      BY <3>1, <3>2, <3>3, <3>4, <1>1, <1>2 DEF Held
  <2>6. CASE SendSucceeds
    <3>1. Places(m, delivered') = Places(m, delivered) + Bit(m, data_info)
      BY <2>6, <1>6, <1>7 DEF SendSucceeds
    <3>2. /\ UNCHANGED <<m_queue, m_fail_queue, dumped, str, mpc, info>>
          /\ rpc = "send" /\ rpc' = "check"
      BY <2>6 DEF SendSucceeds, RunTo
    <3>3. QED
      BY <3>1, <3>2, <1>1, <1>2, <1>3 DEF Held
  <2>7. CASE SendFails \/ GiveUp
    <3>1. rpc = "send" /\ rpc' \in {"send", "park"}
      BY <2>7 DEF SendFails, GiveUp, RunTo
    <3>2. UNCHANGED <<m_queue, m_fail_queue, delivered, dumped, str, info, mpc, data_info>>
      BY <2>7 DEF SendFails, GiveUp
    <3>3. QED
      BY <3>1, <3>2, <1>3, <1>4
  <2>8. CASE Park
    <3>1. Places(m, m_fail_queue') = Places(m, m_fail_queue) + Bit(m, data_info)
      BY <2>8, <1>6, <1>7 DEF Park
    <3>2. /\ UNCHANGED <<m_queue, delivered, dumped, str, mpc, info>>
          /\ rpc = "park" /\ rpc' = "check"
      BY <2>8 DEF Park, RunTo
    <3>3. QED
      BY <3>1, <3>2, <1>1, <1>2, <1>3 DEF Held
  <2>9. CASE PopDumped
    <3>1. /\ FirstOf(m_queue) = data_info /\ m_queue' = Popped(m_queue)
          /\ dumped' = Append(dumped, data_info)
      BY <2>9 DEF PopDumped
    <3>2. /\ Places(m, m_queue) = Places(m, m_queue') + Bit(m, data_info)
          /\ Places(m, dumped') = Places(m, dumped) + Bit(m, data_info)
      BY <3>1, <1>5, <1>6, <1>7
    <3>3. /\ UNCHANGED <<m_fail_queue, delivered, str, mpc, info>>
          /\ rpc = "dumppop" /\ rpc' = "dump"
      BY <2>9 DEF PopDumped, RunTo
    <3>4. QED
      BY <3>2, <3>3, <1>1, <1>2, <1>3 DEF Held
  <2>10. CASE PopFailDumped
    <3>1. /\ FirstOf(m_fail_queue) = data_info /\ m_fail_queue' = Popped(m_fail_queue)
          /\ dumped' = Append(dumped, data_info)
      BY <2>10 DEF PopFailDumped
    <3>2. /\ Places(m, m_fail_queue) = Places(m, m_fail_queue') + Bit(m, data_info)
          /\ Places(m, dumped') = Places(m, dumped) + Bit(m, data_info)
      BY <3>1, <1>5, <1>6, <1>7
    <3>3. /\ UNCHANGED <<m_queue, delivered, str, mpc, info>>
          /\ rpc = "failpop" /\ rpc' = "dumpfail"
      BY <2>10 DEF PopFailDumped, RunTo
    <3>4. QED
      BY <3>2, <3>3, <1>1, <1>2, <1>3 DEF Held
  <2>11. QED
    BY <1>8, <2>1, <2>2, <2>3, <2>4, <2>5, <2>6, <2>7, <2>8, <2>9, <2>10 DEF RunStep
<1>9. ASSUME MoverStep PROVE Held(m)' = Held(m)
  <2>1. CASE \/ MoverReads \/ FrontFailed \/ CopyFirst \/ EraseFirst
             \/ RemoveReplayed \/ ClearFlag
    <3>1. mpc' # "put" /\ mpc # "put"
      BY <2>1 DEF MoverReads, MoverSees, FrontFailed, CopyFirst, EraseFirst,
          RemoveReplayed, ClearFlag, MoveTo
    <3>2. UNCHANGED <<m_queue, m_fail_queue, delivered, dumped, str, data_info, rpc>>
      BY <2>1 DEF MoverReads, FrontFailed, CopyFirst, EraseFirst,
          RemoveReplayed, ClearFlag
    <3>3. QED
      BY <3>1, <3>2, <1>3, <1>4
  <2>2. CASE Swap
    <3>1. /\ m_queue' = m_fail_queue /\ m_fail_queue' = m_queue
          /\ UNCHANGED <<delivered, dumped, str, rpc, data_info, info>>
          /\ mpc = "swap" /\ mpc' = "failB"
      BY <2>2 DEF Swap, MoveTo
    <3>2. QED
      BY <3>1, <1>1, <1>2, <1>3 DEF Held
  <2>3. CASE PopFailed
    <3>1. Places(m, m_fail_queue) = Places(m, m_fail_queue') + Bit(m, info)
      <4>1. FirstOf(m_fail_queue) = info /\ m_fail_queue' = Popped(m_fail_queue)
        BY <2>3 DEF PopFailed
      <4>2. QED
        BY <4>1, <1>5, <1>7
    <3>2. /\ UNCHANGED <<m_queue, delivered, dumped, str, rpc, data_info, info>>
          /\ mpc = "taken" /\ mpc' = "put"
      BY <2>3 DEF PopFailed, MoveTo
    <3>3. InTransit(m) = 0 /\ InTransit(m)' = Bit(m, info) /\ InHand(m)' = InHand(m)
      BY <3>2, <1>3
    <3>4. InHand(m) \in {0, 1}
      BY <1>2, <1>3
    <3>5. /\ Held(m) = Places(m, m_queue) + Places(m, m_fail_queue) + Places(m, delivered)
                           + Places(m, dumped) + Places(m, str) + InHand(m) + 0
          /\ Held(m)' = Places(m, m_queue) + Places(m, m_fail_queue') + Places(m, delivered)
                            + Places(m, dumped) + Places(m, str) + InHand(m)
                            + Bit(m, info)
      BY <3>2, <3>3 DEF Held
    <3>6. Bit(m, info) \in {0, 1}
      BY <1>2
    <3>7. QED
      BY <3>1, <3>4, <3>5, <3>6, <1>1
  <2>4. CASE PutBack
    <3>1. Bit(m, <<>>) = 0
      BY PlacesNone
    <3>2. Places(m, m_queue') = Places(m, m_queue) + Bit(m, info)
      <4>1. (info = <<>> /\ m_queue' = m_queue) \/ m_queue' = Append(m_queue, info)
        BY <2>4 DEF PutBack
      <4>2. CASE info = <<>> /\ m_queue' = m_queue
        BY <3>1, <4>2, <1>1
      <4>3. CASE m_queue' = Append(m_queue, info)
        BY <4>3, <1>6, <1>7
      <4>4. QED
        BY <4>1, <4>2, <4>3
    <3>3. /\ UNCHANGED <<m_fail_queue, delivered, dumped, str, rpc, data_info>>
          /\ mpc = "put" /\ mpc' = "failC"
      BY <2>4 DEF PutBack, MoveTo
    <3>4. QED
      BY <3>2, <3>3, <1>1, <1>2, <1>3 DEF Held
  <2>5. CASE PushSplit
    <3>1. /\ UNCHANGED <<m_fail_queue, delivered, dumped, rpc, data_info>>
          /\ mpc = "split" /\ mpc' \in {"split", "erase"}
      BY <2>5 DEF PushSplit, MoveTo
    <3>2. Places(m, m_queue') + Places(m, str') = Places(m, m_queue) + Places(m, str)
      <4>1. CASE str = <<>>
        BY <2>5, <4>1 DEF PushSplit
      <4>2. CASE str # <<>>
        <5>1. m_queue' = Append(m_queue, FirstOf(str)) /\ str' = Popped(str)
          BY <2>5, <4>2 DEF PushSplit, FirstOf, Popped
        <5>2. FirstOf(str) \in Seq(Nat)
          BY <1>7, Records
        <5>3. /\ Places(m, m_queue') = Places(m, m_queue) + Bit(m, FirstOf(str))
              /\ Places(m, str) = Places(m, str') + Bit(m, FirstOf(str))
          BY <5>1, <5>2, <1>5, <1>6, <1>7
        <5>4. QED
          BY <5>3, <1>1, <1>2
      <4>3. QED
        BY <4>1, <4>2
    <3>3. /\ InHand(m)' = InHand(m) /\ InTransit(m)' = InTransit(m)
          /\ InHand(m) \in Nat /\ InTransit(m) \in Nat
      BY <3>1, <1>2, <1>3
    <3>4. QED
      <4>1. /\ Held(m) = Places(m, m_queue) + Places(m, m_fail_queue) + Places(m, delivered)
                             + Places(m, dumped) + Places(m, str) + InHand(m) + InTransit(m)
            /\ Held(m)' = Places(m, m_queue') + Places(m, m_fail_queue) + Places(m, delivered)
                              + Places(m, dumped) + Places(m, str') + InHand(m) + InTransit(m)
        BY <3>1, <3>3 DEF Held
      <4>2. QED
        BY <3>2, <3>3, <4>1, <1>1
  <2>6. QED
    BY <1>9, <2>1, <2>2, <2>3, <2>4, <2>5 DEF MoverStep
<1>10. ASSUME Quit PROVE Held(m)' = Held(m)
  <2>1. UNCHANGED <<m_queue, m_fail_queue, delivered, dumped, str, data_info, rpc, mpc, info>>
    BY <1>10 DEF Quit
  <2>2. QED
    BY <2>1 DEF Held, InHand, InTransit
<1>11. QED
  BY <1>0, <1>8, <1>9, <1>10

\* Lemma: and so do the messages of this life when a file is read, for it has none
\* of them.
LEMMA MessagesPass ==
  ASSUME TypeOK, Staged, TypeOK', OldFiles, OldFiles', ~spilled', ~torn',
         NEW m \in 1 .. NumMsgs, RunStep \/ MoverStep \/ Quit
  PROVE  Held(m)' = Held(m) /\ UNCHANGED accepted
<1>1. CASE ReadFile
  <2>1. /\ UNCHANGED <<m_queue, m_fail_queue, delivered, dumped, rpc, data_info, info>>
        /\ UNCHANGED accepted /\ mpc = "read" /\ mpc' = "split"
    BY <1>1 DEF ReadFile, MoveTo, queues, runner, outside
  <2>2. Holding(str, m) = {} /\ Holding(str', m) = {}
    BY DEF OldFiles, Holding
  <2>3. Places(m, str) = 0 /\ Places(m, str') = 0
    BY <2>2, FS_EmptySet DEF Places
  <2>4. InHand(m)' = InHand(m) /\ InTransit(m) = 0 /\ InTransit(m)' = 0
    BY <2>1 DEF InHand, InTransit
  <2>5. QED
    BY <2>1, <2>3, <2>4 DEF Held
<1>2. CASE ~ReadFile
  BY <1>2, RecordsPass
<1>3. QED
  BY <1>1, <1>2

\* Theorem: before a spill, in the first process, and as long as each pop takes what
\* front() returned, an accepted message is in exactly one place, whatever the two
\* threads do to the queues under each other's feet
\* (FlowRpcAsynNode.cpp:114-141, 201-228).
THEOREM OnePlace == SafeSpec => []ExactlyOnce
<1>1. Init => OnceInv
  <2> SUFFICES ASSUME Init PROVE OnceInv
    OBVIOUS
  <2>1. OldFiles
    <3>1. \A t \in DOMAIN Backlog : \A m \in 1 .. NumMsgs : m \notin MsgsIn(Backlog[t])
      BY BacklogAssumption DEF BacklogMsgs
    <3>2. QED
      BY <3>1 DEF Init, NoFile, OldFiles
  <2>2. ASSUME NEW m PROVE Held(m) = 0
    <3>1. /\ Places(m, m_queue) = 0 /\ Places(m, m_fail_queue) = 0
          /\ Places(m, delivered) = 0 /\ Places(m, dumped) = 0 /\ Places(m, str) = 0
      BY PlacesNone DEF Init
    <3>2. InHand(m) = 0 /\ InTransit(m) = 0
      BY DEF Init, InHand, InTransit
    <3>3. QED
      BY <3>1, <3>2 DEF Held
  <2>3. accepted = 0 /\ \A m \in 1 .. NumMsgs : ~(m <= 0)
    BY BoundsAssumption DEF Init
  <2>4. QED
    BY <2>1, <2>2, <2>3 DEF OnceInv
<1>2. FlowInv /\ OnceInv /\ [Next]_vars => OnceInv'
  <2> SUFFICES ASSUME FlowInv, OnceInv, [Next]_vars, Unspilled'
               PROVE  /\ OldFiles'
                      /\ \A m \in 1 .. NumMsgs :
                             Held(m)' = IF m <= accepted' THEN 1 ELSE 0
    BY DEF OnceInv
  <2>1. TypeOK /\ TypeOK' /\ Staged
    BY FlowNext DEF FlowInv, FilesInv
  <2>2. CASE Next
    <3>1. Unspilled /\ ~(Exit \/ ExitOrderly \/ Restart)
      BY <2>1, <2>2, UnspilledBefore
    <3>2. OldFiles /\ \A m \in 1 .. NumMsgs : Held(m) = IF m <= accepted THEN 1 ELSE 0
      BY <3>1 DEF OnceInv
    <3>3. OldFiles'
      BY <2>1, <2>2, <3>1, <3>2, FilesStayOld DEF Next, Unspilled
    <3>4. CASE RunStep \/ MoverStep \/ Quit
      <4>1. \A m \in 1 .. NumMsgs : Held(m)' = Held(m) /\ UNCHANGED accepted
        BY <2>1, <3>2, <3>3, <3>4, MessagesPass DEF Unspilled
      <4>2. QED
        BY <3>2, <3>3, <4>1
    <3>5. CASE SendToFlowServer
      <4>1. /\ m_queue' = Append(m_queue, <<accepted + 1>>) /\ accepted' = accepted + 1
            /\ UNCHANGED <<m_fail_queue, delivered, dumped, str, rpc, data_info, mpc, info>>
        BY <3>5 DEF SendToFlowServer, runner, mover
      <4>2. ASSUME NEW m \in 1 .. NumMsgs
            PROVE  Held(m)' = IF m <= accepted' THEN 1 ELSE 0
        <5>1. accepted \in Nat /\ m \in Nat \ {0} /\ <<accepted + 1>> \in Seq(Nat)
          BY <2>1, SMTT(30) DEF TypeOK
        <5>2. MsgsIn(<<accepted + 1>>) = {accepted + 1}
          BY <5>1 DEF MsgsIn, ToSet, Sep
        <5>3. Places(m, m_queue') = Places(m, m_queue) + IF m = accepted + 1 THEN 1 ELSE 0
          BY <4>1, <5>1, <5>2, <2>1, PlacesAppend DEF TypeOK, Bit
        <5>4. /\ Places(m, m_queue) \in Nat /\ Places(m, m_fail_queue) \in Nat
              /\ Places(m, delivered) \in Nat /\ Places(m, dumped) \in Nat
              /\ Places(m, str) \in Nat
          BY <2>1, PlacesType DEF TypeOK
        <5>5. /\ InHand(m) \in Nat /\ InTransit(m) \in Nat
              /\ InHand(m)' = InHand(m) /\ InTransit(m)' = InTransit(m)
          BY <4>1 DEF InHand, InTransit
        <5>6. Held(m)' = Held(m) + IF m = accepted + 1 THEN 1 ELSE 0
          <6> DEFINE d == IF m = accepted + 1 THEN 1 ELSE 0
          <6>1. Held(m)' = Places(m, m_queue') + Places(m, m_fail_queue)
                               + Places(m, delivered) + Places(m, dumped)
                               + Places(m, str) + InHand(m) + InTransit(m)
            BY <4>1, <5>5 DEF Held
          <6>2. Places(m, m_queue') = Places(m, m_queue) + d /\ d \in Nat
            BY <5>3
          <6> HIDE DEF d
          <6>3. QED
            BY <5>4, <5>5, <6>1, <6>2 DEF Held, d
        <5>7. Held(m) = IF m <= accepted THEN 1 ELSE 0
          BY <3>2
        <5>8. QED
          BY <4>1, <5>1, <5>6, <5>7
      <4>3. QED
        BY <3>3, <4>2
    <3>6. QED
      BY <2>2, <3>1, <3>4, <3>5 DEF Next
  <2>3. CASE UNCHANGED vars
    <3>1. UNCHANGED <<m_queue, m_fail_queue, delivered, dumped, rpc, data_info, mpc, info,
                      accepted, ofs, disk, str, spilled, torn, restarts>>
      BY <2>3 DEF vars, queues, runner, mover, outside, life
    <3>2. OldFiles' = OldFiles /\ Unspilled' = Unspilled
      BY <3>1 DEF OldFiles, Unspilled
    <3>3. \A m : Held(m)' = Held(m)
      BY <3>1 DEF Held, InHand, InTransit
    <3>4. QED
      BY <3>1, <3>2, <3>3 DEF OnceInv
  <2>4. QED
    BY <2>2, <2>3
<1>3. FlowInv /\ OnceInv => ExactlyOnce
  <2> SUFFICES ASSUME FlowInv, OnceInv, Unspilled, NEW m \in 1 .. accepted
               PROVE  Copies(m) = 1
    BY DEF ExactlyOnce, Unspilled
  <2>1. m \in 1 .. NumMsgs /\ m <= accepted
    BY BoundsAssumption DEF FlowInv, TypeOK
  <2>2. OldFiles /\ Held(m) = 1
    BY <2>1 DEF OnceInv
  <2>3. InStream(m) = 0
    BY <2>2 DEF OldFiles, InStream, MsgsIn, ToSet
  <2>4. Places(m, str) = 0
    <3>1. Holding(str, m) = {}
      BY <2>1, <2>2 DEF OldFiles, Holding
    <3>2. QED
      BY <3>1, FS_EmptySet DEF Places
  <2>5. InFiles(m) = 0
    <3>1. {t \in DOMAIN disk \ (IF mpc \in Replaying \ {"read"} THEN {top} ELSE {}) :
               m \in MsgsIn(disk[t])} = {}
      BY <2>1, <2>2 DEF OldFiles
    <3>2. QED
      BY <3>1, FS_EmptySet DEF InFiles
  <2>6. /\ Places(m, m_queue) \in Nat /\ Places(m, m_fail_queue) \in Nat
        /\ Places(m, str) \in Nat /\ Places(m, delivered) \in Nat /\ Places(m, dumped) \in Nat
        /\ InHand(m) \in Nat /\ InTransit(m) \in Nat
    BY PlacesType DEF FlowInv, TypeOK, InHand, InTransit
  <2>7. QED
    BY <2>2, <2>3, <2>4, <2>5, <2>6 DEF Copies, Held
<1>4. QED
  BY <1>1, <1>2, <1>3, FlowInit, FlowNext, PTL DEF SafeSpec

-----------------------------------------------------------------------------
(* What a file holds until it is read *)

\* Every record in the file is complete.
Whole(data) == data = <<>> \/ data[Len(data)] = Sep

\* Lemma: a file and what is added to it, both whole, make a whole file.
LEMMA WholeConcat ==
  ASSUME NEW a \in Seq(Nat), NEW b \in Seq(Nat), Whole(a), Whole(b)
  PROVE  Whole(a \o b)
<1>1. CASE b = <<>>
  BY <1>1, ConcatEmptySeq
<1>2. CASE b # <<>>
  <2>1. Len(a) \in Nat /\ Len(b) \in Nat \ {0}
    BY <1>2, Tails, LenProperties
  <2>2. Len(a \o b) = Len(a) + Len(b) /\ (a \o b)[Len(a) + Len(b)] = b[Len(b)]
    BY <2>1, ConcatProperties
  <2>3. QED
    BY <1>2, <2>2 DEF Whole
<1>3. QED
  BY <1>1, <1>2

\* Lemma: so does a record with its SEPARATION.
LEMMA WholeAppend == ASSUME NEW a \in Seq(Nat) PROVE Whole(Append(a, Sep))
<1>1. Sep \in Nat
  BY DEF Sep
<1>2. Len(Append(a, Sep)) = Len(a) + 1 /\ Append(a, Sep)[Len(a) + 1] = Sep
  BY <1>1, Appends
<1>3. QED
  BY <1>2 DEF Whole

\* Lemma: every message of a whole file is in one of the records Split makes of
\* it, the one up to the first SEPARATION behind it.
LEMMA SplitCovers ==
  ASSUME NEW data \in Seq(Nat), Whole(data), NEW m \in MsgsIn(data)
  PROVE  \E k \in DOMAIN Split(data) : m \in MsgsIn(Split(data)[k])
<1> DEFINE places == {i \in DOMAIN data : data[i] = Sep}
           n == Cardinality(places)
           at == Separators(data)
<1>1. Len(data) \in Nat /\ DOMAIN data = 1 .. Len(data)
  BY LenProperties
<1>2. PICK i \in 1 .. Len(data) : data[i] = m /\ m # Sep
  BY <1>1 DEF MsgsIn, ToSet
<1>3. Len(data) \in places /\ i < Len(data)
  <2>1. data # <<>>
    BY <1>1, <1>2, EmptySeq
  <2>2. QED
    BY <1>1, <1>2, <2>1 DEF Whole
<1>4. places \in SUBSET Nat /\ IsFiniteSet(places) /\ places \subseteq 1 .. Len(data)
  <2>1. IsFiniteSet(1 .. Len(data)) /\ places \in SUBSET (1 .. Len(data))
    BY <1>1, FS_Interval
  <2>2. QED
    BY <2>1, FS_Subset
<1>5. /\ n \in Nat /\ DOMAIN at = 1 .. n
      /\ \A k \in 1 .. n : at[k] \in places /\ Rank(at[k], places) = k
  <2>1. at = Ascending(places)
    BY DEF Separators
  <2> HIDE DEF at, places
  <2>2. QED
    BY <1>4, <2>1, AscendingLists
<1> DEFINE upto(t) == {u \in places : u <= t}
           j == Cardinality(upto(i))
<1>6. \A t : IsFiniteSet(upto(t)) /\ Cardinality(upto(t)) \in Nat
  <2>1. ASSUME NEW t PROVE IsFiniteSet(upto(t))
    BY <1>4, upto(t) \in SUBSET places, FS_Subset
  <2>2. QED
    BY <2>1, FS_CardinalityType
<1>7. \A k \in 1 .. n : Cardinality(upto(at[k])) = k
  BY <1>5 DEF Rank
<1> HIDE DEF at
<1>8. j \in Nat /\ j < n
  <2>1. upto(i) \in SUBSET places /\ upto(i) # places
    BY <1>1, <1>3
  <2>2. Cardinality(upto(i)) <= n /\ Cardinality(upto(i)) # n
    BY <1>4, <2>1, FS_Subset
  <2> HIDE DEF upto, n
  <2>3. QED
    BY <1>5, <1>6, <2>2, SMTT(30)
<1>9. j + 1 \in 1 .. n /\ at[j + 1] \in 1 .. Len(data) /\ at[j + 1] > i
  <2>1. j + 1 \in 1 .. n /\ at[j + 1] \in places /\ at[j + 1] \in 1 .. Len(data)
    BY <1>4, <1>5, <1>8, SMTT(30)
  <2>2. ASSUME at[j + 1] <= i PROVE FALSE
    <3>1. \A v \in upto(at[j + 1]) : v \in upto(i)
      <4>1. at[j + 1] \in Nat /\ i \in Nat
        BY <2>1
      <4> HIDE DEF j
      <4>2. \A v \in places : v \in Nat /\ (v <= at[j + 1] => v <= i)
        BY <1>4, <2>2, <4>1
      <4>3. QED
        BY <4>2
    <3>2. Cardinality(upto(at[j + 1])) <= j
      BY <1>6, <3>1, FS_Subset
    <3>3. QED
      BY <1>7, <1>8, <2>1, <3>2
  <2>3. QED
    BY <2>1, <2>2
<1>10. ASSUME j # 0 PROVE j \in 1 .. n /\ at[j] \in 1 .. Len(data) /\ at[j] < i
  <2>1. j \in 1 .. n /\ at[j] \in places /\ at[j] \in 1 .. Len(data)
    BY <1>4, <1>5, <1>8, <1>10
  <2>2. at[j] # i
    BY <1>2, <2>1
  <2>3. ASSUME at[j] > i PROVE FALSE
    <3>1. \A v \in upto(i) : v \in upto(at[j])
      <4>1. at[j] \in Nat /\ i \in Nat
        BY <2>1
      <4> HIDE DEF j
      <4>2. \A v \in places : v \in Nat /\ (v <= i => v <= at[j])
        BY <1>4, <2>3, <4>1
      <4>3. QED
        BY <4>2
    <3>2. at[j] \in upto(at[j]) /\ at[j] \notin upto(i)
      BY <2>1, <2>3
    <3>3. Cardinality(upto(i)) # Cardinality(upto(at[j]))
      BY <1>6, <3>1, <3>2, FS_Subset
    <3>4. QED
      BY <1>7, <2>1, <3>3
  <2>4. QED
    BY <2>1, <2>2, <2>3
<1> HIDE DEF j
<1> DEFINE begin(k) == IF k = 1 THEN 1 ELSE at[k - 1] + 1
           length(k) == at[k] - 1
           end(k) == begin(k) + length(k) - 1
           last(k) == IF end(k) > Len(data) THEN Len(data) ELSE end(k)
           b == begin(j + 1)
           l == last(j + 1)
<1>11. Split(data)[j + 1] = SubSeq(data, b, l) /\ j + 1 \in DOMAIN Split(data)
  <2>1. Split(data) = [k \in DOMAIN at |-> SubSeq(data, begin(k), last(k))]
    BY DEF Split, at
  <2>2. j + 1 \in DOMAIN at
    BY <1>5, <1>9
  <2> HIDE DEF at, begin, last
  <2>3. QED
    BY <2>1, <2>2
<1>12. b \in Nat \ {0} /\ b <= i
  <2>1. CASE j = 0
    BY <2>1, <1>2
  <2>2. CASE j # 0
    BY <2>2, <1>8, <1>10
  <2>3. QED
    BY <2>1, <2>2
<1> HIDE DEF begin
<1>13. l \in Nat /\ i <= l /\ l <= Len(data)
  <2>1. at[j + 1] \in Nat /\ at[j + 1] > i /\ i \in Nat /\ i <= Len(data)
    BY <1>1, <1>2, <1>9
  <2>2. end(j + 1) = b + at[j + 1] - 2
    BY <1>12, <2>1
  <2>3. end(j + 1) \in Nat /\ end(j + 1) >= i
    BY <1>12, <2>1, <2>2
  <2> HIDE DEF end
  <2>4. QED
    BY <1>1, <2>1, <2>3
<1> HIDE DEF b
<1> HIDE DEF l
<1>14. /\ Len(SubSeq(data, b, l)) = l - b + 1
       /\ \A x \in 1 .. l - b + 1 : SubSeq(data, b, l)[x] = data[b + x - 1]
       /\ SubSeq(data, b, l) \in Seq(Nat)
  <2>1. \A x \in b .. l : x \in DOMAIN data /\ data[x] \in Nat
    BY <1>1, <1>12, <1>13, ElementOfSeq
  <2>2. b \in Int /\ l \in Int /\ b <= l
    BY <1>2, <1>12, <1>13
  <2>3. QED
    BY <2>1, <2>2, SubSeqProperties
<1>15. i - b + 1 \in 1 .. l - b + 1 /\ b + (i - b + 1) - 1 = i
  BY <1>2, <1>12, <1>13
<1>16. SubSeq(data, b, l)[i - b + 1] = m /\ i - b + 1 \in DOMAIN SubSeq(data, b, l)
  <2>1. DOMAIN SubSeq(data, b, l) = 1 .. l - b + 1
    BY <1>14, LenProperties
  <2>2. QED
    BY <1>2, <1>14, <1>15, <2>1
<1>17. m \in MsgsIn(SubSeq(data, b, l))
  BY <1>2, <1>16 DEF MsgsIn, ToSet
<1>18. QED
  BY <1>11, <1>17

\* Some record of the queue holds the message.
HeldIn(q, m) == \E i \in DOMAIN q : m \in MsgsIn(q[i])

\* Lemma: who holds the records of two queues.
LEMMA HoldingConcat ==
  ASSUME NEW q \in Seq(Seq(Nat)), NEW p \in Seq(Seq(Nat)), NEW m
  PROVE  Holding(q \o p, m) # {} <=> HeldIn(q, m) \/ HeldIn(p, m)
<1>1. /\ DOMAIN q = 1 .. Len(q) /\ Len(q) \in Nat
      /\ DOMAIN p = 1 .. Len(p) /\ Len(p) \in Nat
      /\ DOMAIN (q \o p) = 1 .. Len(q) + Len(p)
      /\ \A i \in 1 .. Len(q) + Len(p) :
             (q \o p)[i] = IF i <= Len(q) THEN q[i] ELSE p[i - Len(q)]
  BY ConcatProperties, LenProperties
<1>2. ASSUME NEW i \in DOMAIN q, m \in MsgsIn(q[i]) PROVE i \in Holding(q \o p, m)
  BY <1>1, <1>2 DEF Holding
<1>3. ASSUME NEW i \in DOMAIN p, m \in MsgsIn(p[i])
      PROVE  i + Len(q) \in Holding(q \o p, m)
  <2>1. i + Len(q) \in DOMAIN (q \o p) /\ (q \o p)[i + Len(q)] = p[i]
    BY <1>1
  <2>2. QED
    BY <1>3, <2>1 DEF Holding
<1>4. ASSUME NEW i \in Holding(q \o p, m)
      PROVE  \/ i \in DOMAIN q /\ m \in MsgsIn(q[i])
             \/ i - Len(q) \in DOMAIN p /\ m \in MsgsIn(p[i - Len(q)])
  BY <1>1 DEF Holding
<1>5. QED
  BY <1>2, <1>3, <1>4 DEF HeldIn

\* Lemma: what a queue holds is in its first record or in the others.
LEMMA HeldPopped ==
  ASSUME NEW q \in Seq(Seq(Nat)), NEW m
  PROVE  HeldIn(q, m) => m \in MsgsIn(FirstOf(q)) \/ HeldIn(Popped(q), m)
<1> SUFFICES ASSUME NEW i \in DOMAIN q, m \in MsgsIn(q[i])
             PROVE  m \in MsgsIn(FirstOf(q)) \/ HeldIn(Popped(q), m)
  BY DEF HeldIn
<1>1. q # <<>>
  OBVIOUS
<1>2. /\ FirstOf(q) = q[1] /\ Popped(q) = Tail(q) /\ Len(q) \in Nat \ {0}
      /\ DOMAIN q = 1 .. Len(q) /\ DOMAIN Tail(q) = 1 .. Len(q) - 1
      /\ \A k \in 1 .. Len(q) - 1 : Tail(q)[k] = q[k + 1]
  BY <1>1, Tails DEF FirstOf, Popped
<1>3. CASE i = 1
  BY <1>2, <1>3
<1>4. CASE i # 1
  <2>1. i - 1 \in 1 .. Len(q) - 1 /\ (i - 1) + 1 = i
    BY <1>2, <1>4
  <2>2. Tail(q)[i - 1] = q[i] /\ i - 1 \in DOMAIN Tail(q)
    <3>1. Tail(q)[i - 1] = q[(i - 1) + 1]
      BY <1>2, <2>1
    <3>2. QED
      BY <1>2, <2>1, <3>1
  <2>3. QED
    BY <1>2, <2>2 DEF HeldIn
<1>5. QED
  BY <1>3, <1>4

\* Lemma: appending a record adds what it holds, and takes nothing.
LEMMA HeldAppended ==
  ASSUME NEW q \in Seq(Seq(Nat)), NEW r \in Seq(Nat), NEW m
  PROVE  HeldIn(q, m) \/ m \in MsgsIn(r) => HeldIn(Append(q, r), m)
<1>1. /\ Len(q) \in Nat /\ DOMAIN q = 1 .. Len(q)
      /\ DOMAIN Append(q, r) = 1 .. Len(q) + 1
      /\ \A i \in 1 .. Len(q) : Append(q, r)[i] = q[i]
      /\ Append(q, r)[Len(q) + 1] = r
  BY Appends
<1>2. Len(q) + 1 \in DOMAIN Append(q, r) /\ \A i \in 1 .. Len(q) : i \in DOMAIN Append(q, r)
  BY <1>1
<1>3. QED
  BY <1>1, <1>2 DEF HeldIn

\* The files are whole, so a replay reads all of them.  While MoveData holds
\* m_qmutex, what it read is still to be pushed, in m_queue or dumped, unless a
\* pop() took another record than front() returned.  Only the file of the running
\* second may have grown since it was read, and then run, which closed it, has yet
\* to pop a record, for which it waits for m_qmutex: it opens no further file.
Read ==
    \A m \in MsgsIn(Content(top)) :
        HeldIn(m_queue, m) \/ HeldIn(dumped, m) \/ HeldIn(str, m)
HasRead == {"split", "erase", "print", "remove"}
Early == {"top", "look", "pop"} \cup Dumping
StoredInv ==
    /\ \A t \in DOMAIN disk : Whole(disk[t])
    /\ Whole(ofs.buffer)
    /\ mpc # "split" => str = <<>>
    /\ mpc \in HasRead => torn \/ Read \/ (top = now /\ rpc \in Early)

\* Lemma: no step makes a file that is not whole, or forgets what a replay is for.
LEMMA StoredNext ==
  ASSUME FlowInv, TornInv, StoredInv, TypeOK', Next PROVE StoredInv'
<1> USE DEF queues, runner, mover, outside, life
<1> DEFINE FilesWhole == Whole(ofs.buffer) /\ \A t \in DOMAIN disk : Whole(disk[t])
           Kept == torn \/ Read \/ (top = now /\ rpc \in Early)
<1>0. TypeOK /\ Staged
  BY DEF FlowInv, FilesInv
<1>1. FilesWhole /\ (mpc # "split" => str = <<>>) /\ (mpc \in HasRead => Kept)
  BY DEF StoredInv
<1>2. ASSUME FilesWhole', UNCHANGED <<mpc, str>>, mpc \in HasRead => (Kept => Kept')
      PROVE  StoredInv'
  BY <1>1, <1>2 DEF StoredInv
<1>3. ASSUME UNCHANGED <<disk, ofs>> PROVE FilesWhole'
  BY <1>1, <1>3
<1>4. ASSUME UNCHANGED <<disk, m_queue, dumped, top, str>> PROVE Read => Read'
  BY <1>4 DEF Read, Content
<1>5. ASSUME UNCHANGED <<disk, m_queue, dumped, top, str, torn, now>>,
             rpc \in Early => rpc' \in Early
      PROVE  Kept => Kept'
  BY <1>4, <1>5
<1>6. ASSUME NEW t, RemoveFile(t)
      PROVE  /\ FilesWhole'
             /\ Content(top) = Content(top)' \/ (top' = top => MsgsIn(Content(top)') = {})
  <2>1. /\ \A u \in DOMAIN disk' : u \in DOMAIN disk /\ disk'[u] = disk[u]
        /\ ofs'.buffer = ofs.buffer
    BY <1>0, <1>6, Removes
  <2>2. MsgsIn(<<>>) = {}
    BY DEF MsgsIn, ToSet
  <2>3. top' = top => Content(top)' = Content(top) \/ Content(top)' = <<>>
    BY <2>1 DEF Content
  <2>4. QED
    BY <1>1, <2>1, <2>2, <2>3
<1>7. ASSUME RunStep PROVE StoredInv'
  <2>1. CASE LoadFileNames
    <3>1. mpc = "off" /\ mpc' = "top" /\ UNCHANGED <<disk, ofs, str>>
      BY <1>0, <2>1 DEF LoadFileNames, MoveTo, Staged
    <3>2. QED
      BY <1>1, <1>3, <3>1 DEF StoredInv, HasRead
  <2>2. CASE RunReads
    <3>1. /\ UNCHANGED <<disk, m_queue, dumped, top, str, torn, now, ofs, mpc>>
          /\ rpc \in Early => rpc' \in Early
      BY <2>2 DEF RunReads, RunSees, RunTo, Early, Dumping
    <3>2. QED
      BY <1>2, <1>3, <1>5, <3>1
  <2>3. CASE FrontRecord
    <3>1. mpc \notin HasRead /\ UNCHANGED <<disk, str, ofs, mpc>>
      BY <2>3 DEF FrontRecord, QFree, Replaying, HasRead
    <3>2. QED
      BY <1>2, <1>3, <3>1
  <2>4. CASE PopRecord
    <3>1. mpc \notin HasRead /\ UNCHANGED <<disk, str, ofs, mpc>>
      BY <2>4 DEF PopRecord, TornInv, Replaying, HasRead
    <3>2. QED
      BY <1>2, <1>3, <3>1
  <2>5. CASE \/ SendSucceeds \/ SendFails \/ GiveUp \/ Park \/ CopyOldest \/ EraseOldest
    <3>1. /\ UNCHANGED <<disk, m_queue, dumped, top, str, torn, now, ofs, mpc>>
          /\ rpc \in {"send", "park", "evict", "erase"}
      BY <2>5 DEF SendSucceeds, SendFails, GiveUp, Park, CopyOldest, EraseOldest
    <3>2. rpc \notin Early
      BY <3>1 DEF Early, Dumping
    <3>3. QED
      BY <1>2, <1>3, <1>5, <3>1, <3>2
  <2>6. CASE RemoveOldest
    <3>1. /\ UNCHANGED <<m_queue, dumped, top, str, torn, now, mpc>> /\ rpc = "remove"
          /\ RemoveFile(evicted)
      BY <2>6 DEF RemoveOldest
    <3>2. FilesWhole' /\ (Content(top) = Content(top)' \/ MsgsIn(Content(top)') = {})
      BY <1>6, <3>1
    <3>3. Read => Read'
      BY <3>1, <3>2 DEF Read
    <3>4. rpc \notin Early
      BY <3>1 DEF Early, Dumping
    <3>5. QED
      BY <1>2, <3>1, <3>2, <3>3, <3>4
  <2>7. CASE IndexFile
    <3>1. /\ UNCHANGED <<disk, m_queue, dumped, top, str, torn, mpc>> /\ rpc = "index"
          /\ ofs'.buffer = <<>>
      BY <2>7 DEF IndexFile, NoFile
    <3>2. FilesWhole' /\ rpc \notin Early
      BY <1>1, <3>1 DEF Whole, Early, Dumping
    <3>3. QED
      BY <1>2, <1>4, <3>1, <3>2
  <2>8. CASE OpenFile
    <3>1. /\ UNCHANGED <<m_queue, dumped, top, str, torn, mpc>> /\ rpc = "open"
          /\ ofs'.buffer = ofs.buffer
      BY <1>0, <2>8 DEF OpenFile, TypeOK
    <3>2. /\ \A t \in DOMAIN disk' : disk'[t] = IF t \in DOMAIN disk THEN disk[t] ELSE <<>>
          /\ DOMAIN disk \subseteq DOMAIN disk'
      BY <2>8 DEF OpenFile
    <3>3. FilesWhole'
      BY <1>1, <3>1, <3>2 DEF Whole
    <3>4. Content(top)' = Content(top)
      BY <3>1, <3>2 DEF Content
    <3>5. (Read => Read') /\ rpc \notin Early
      BY <3>1, <3>4 DEF Read, Early, Dumping
    <3>6. QED
      BY <1>2, <3>1, <3>3, <3>5
  <2>9. CASE DrainFailQueue
    <3>1. /\ UNCHANGED <<disk, m_queue, dumped, top, str, torn, mpc>>
          /\ rpc \in {"drain", "write"}
      BY <2>9 DEF DrainFailQueue
    <3>2. Whole(ofs'.buffer)
      <4>1. CASE m_fail_queue = <<>>
        BY <1>1, <2>9, <4>1 DEF DrainFailQueue
      <4>2. CASE m_fail_queue # <<>>
        <5>1. ofs' = [ofs EXCEPT !.buffer = Append(ofs.buffer \o Head(m_fail_queue), Sep)]
          BY <2>9, <4>2 DEF DrainFailQueue
        <5>2. ofs.buffer \o Head(m_fail_queue) \in Seq(Nat)
          <6>1. Head(m_fail_queue) \in Seq(Nat) /\ ofs.buffer \in Seq(Nat)
            BY <1>0, <4>2, Records DEF TypeOK
          <6>2. QED
            BY <6>1, ConcatProperties
        <5>3. Whole(Append(ofs.buffer \o Head(m_fail_queue), Sep))
          BY <5>2, WholeAppend
        <5>4. ofs \in [time : 0 .. MaxTime, linked : BOOLEAN, buffer : Seq(Nat)]
          BY <1>0 DEF TypeOK
        <5>5. QED
          BY <5>1, <5>3, <5>4
      <4>3. QED
        BY <4>1, <4>2
    <3>3. FilesWhole' /\ rpc \notin Early
      BY <1>1, <3>1, <3>2 DEF Early, Dumping
    <3>4. QED
      BY <1>2, <1>4, <3>1, <3>3
  <2>10. CASE CloseFile
    <3>1. /\ UNCHANGED <<m_queue, dumped, top, str, torn, mpc, now>>
          /\ rpc = "close" /\ rpc' = "top" /\ ofs'.buffer = <<>> /\ ofs.time = now
      BY <1>0, <2>10 DEF CloseFile, RunTo, NoFile, Staged
    <3>2. /\ DOMAIN disk' = DOMAIN disk
          /\ \A t \in DOMAIN disk :
                 disk'[t] = disk[t] \/ (t = now /\ disk'[t] = disk[t] \o ofs.buffer)
      <4>1. \/ disk' = disk
            \/ disk' = [disk EXCEPT ![ofs.time] = disk[ofs.time] \o ofs.buffer]
        BY <2>10 DEF CloseFile
      <4>2. QED
        BY <3>1, <4>1
    <3>3. \A t \in DOMAIN disk : Whole(disk[t] \o ofs.buffer)
      BY <1>0, <1>1, WholeConcat DEF TypeOK
    <3>4. FilesWhole'
      BY <1>1, <3>1, <3>2, <3>3 DEF Whole
    <3>5. top # now => Content(top)' = Content(top)
      BY <3>1, <3>2 DEF Content
    <3>6. top # now => (Read => Read')
      BY <3>1, <3>5 DEF Read
    <3>7. rpc' \in Early /\ rpc \notin Early
      BY <3>1 DEF Early, Dumping
    <3>8. QED
      BY <1>2, <3>1, <3>4, <3>6, <3>7
  <2>11. CASE FrontDumped \/ FrontFailDumped
    <3>1. /\ UNCHANGED <<disk, m_queue, dumped, top, str, torn, now, ofs, mpc>>
          /\ rpc' \in Early
      BY <2>11 DEF FrontDumped, FrontFailDumped, RunTo, Early, Dumping
    <3>2. QED
      BY <1>2, <1>3, <1>5, <3>1
  <2>12. CASE PopDumped
    <3>1. /\ UNCHANGED <<disk, top, str, now, ofs, mpc>> /\ rpc' \in Early
          /\ torn' = (torn \/ FirstOf(m_queue) # data_info)
          /\ m_queue' = Popped(m_queue) /\ dumped' = Append(dumped, data_info)
      BY <2>12 DEF PopDumped, RunTo, Early, Dumping
    <3>2. CASE FirstOf(m_queue) = data_info
      <4>1. ASSUME NEW m, HeldIn(m_queue, m) PROVE HeldIn(m_queue', m) \/ HeldIn(dumped', m)
        BY <1>0, <3>1, <3>2, <4>1, HeldPopped, HeldAppended DEF TypeOK
      <4>2. ASSUME NEW m, HeldIn(dumped, m) PROVE HeldIn(dumped', m)
        BY <1>0, <3>1, <4>2, HeldAppended DEF TypeOK
      <4>3. Content(top)' = Content(top)
        BY <3>1 DEF Content
      <4>4. Read => Read'
        BY <3>1, <4>1, <4>2, <4>3 DEF Read
      <4>5. torn' = torn
        BY <1>0, <3>1, <3>2 DEF TypeOK
      <4>6. QED
        BY <1>2, <1>3, <3>1, <4>4, <4>5
    <3>3. CASE FirstOf(m_queue) # data_info
      BY <1>2, <1>3, <3>1, <3>3
    <3>4. QED
      BY <3>2, <3>3
  <2>13. CASE PopFailDumped
    <3>1. /\ UNCHANGED <<disk, top, str, now, ofs, mpc, m_queue>> /\ rpc' \in Early
          /\ (torn => torn') /\ dumped' = Append(dumped, data_info)
      BY <2>13 DEF PopFailDumped, RunTo, Early, Dumping
    <3>2. ASSUME NEW m, HeldIn(dumped, m) PROVE HeldIn(dumped', m)
      BY <1>0, <3>1, <3>2, HeldAppended DEF TypeOK
    <3>3. Content(top)' = Content(top)
      BY <3>1 DEF Content
    <3>4. Read => Read'
      BY <3>1, <3>2, <3>3 DEF Read
    <3>5. QED
      BY <1>2, <1>3, <3>1, <3>4
  <2>14. QED
    BY <1>7, <2>1, <2>2, <2>3, <2>4, <2>5, <2>6, <2>7, <2>8, <2>9, <2>10, <2>11, <2>12,
       <2>13 DEF RunStep
<1>8. ASSUME MoverStep PROVE StoredInv'
  <2>1. CASE \/ Swap \/ FrontFailed \/ PopFailed \/ PutBack \/ CopyFirst \/ ClearFlag
    <3>1. /\ UNCHANGED <<disk, ofs, str>> /\ mpc # "split"
          /\ mpc' \notin {"split", "erase", "print", "remove"}
      BY <2>1 DEF Swap, FrontFailed, PopFailed, PutBack, CopyFirst, ClearFlag, MoveTo
    <3>2. QED
      BY <1>1, <1>3, <3>1 DEF StoredInv, HasRead
  <2>2. CASE MoverReads
    <3>1. /\ UNCHANGED <<disk, ofs, str, m_queue, dumped, top, torn, now, rpc>>
          /\ mpc # "split" /\ mpc' # "split" /\ (mpc' \in HasRead => mpc \in HasRead)
      BY <2>2 DEF MoverReads, MoverSees, MoveTo, HasRead
    <3>2. FilesWhole' /\ (Kept => Kept')
      BY <1>3, <1>5, <3>1
    <3>3. QED
      BY <1>1, <3>1, <3>2 DEF StoredInv
  <2>3. CASE ReadFile
    <3>1. /\ str' = Split(Content(top)) /\ mpc' = "split"
          /\ UNCHANGED <<disk, ofs, m_queue, dumped, top>>
      BY <2>3 DEF ReadFile, MoveTo
    <3>2. Content(top) \in Seq(Nat) /\ Whole(Content(top))
      BY <1>0, <1>1, EmptySeq DEF Content, TypeOK, Whole
    <3>3. \A m \in MsgsIn(Content(top)) : HeldIn(str', m)
      BY <3>1, <3>2, SplitCovers DEF HeldIn
    <3>4. Content(top)' = Content(top)
      BY <3>1 DEF Content
    <3>5. Read'
      BY <3>3, <3>4 DEF Read
    <3>6. QED
      BY <1>3, <3>1, <3>5 DEF StoredInv
  <2>4. CASE PushSplit
    <3>1. /\ UNCHANGED <<disk, ofs, dumped, top, torn, now, rpc>> /\ mpc = "split"
          /\ mpc' \in {"split", "erase"} /\ (mpc' = "erase" => str' = <<>>)
      BY <2>4 DEF PushSplit, MoveTo
    <3>2. Read => Read'
      <4>1. CASE str = <<>>
        BY <1>4, <2>4, <3>1, <4>1 DEF PushSplit
      <4>2. CASE str # <<>>
        <5>1. m_queue' = Append(m_queue, FirstOf(str)) /\ str' = Popped(str)
          BY <2>4, <4>2 DEF PushSplit, FirstOf, Popped
        <5>2. FirstOf(str) \in Seq(Nat)
          BY <1>0, Records DEF TypeOK
        <5>3. ASSUME NEW m, HeldIn(m_queue, m) PROVE HeldIn(m_queue', m)
          BY <1>0, <5>1, <5>2, <5>3, HeldAppended DEF TypeOK
        <5>4. ASSUME NEW m, HeldIn(str, m) PROVE HeldIn(m_queue', m) \/ HeldIn(str', m)
          BY <1>0, <5>1, <5>2, <5>4, HeldAppended, HeldPopped DEF TypeOK
        <5>5. Content(top)' = Content(top)
          BY <3>1 DEF Content
        <5>6. QED
          BY <3>1, <5>3, <5>4, <5>5 DEF Read
      <4>3. QED
        BY <4>1, <4>2
    <3>3. FilesWhole' /\ mpc \in HasRead
      BY <1>3, <3>1 DEF HasRead
    <3>4. QED
      BY <1>1, <3>1, <3>2, <3>3 DEF StoredInv
  <2>5. CASE EraseFirst
    <3>1. /\ UNCHANGED <<disk, ofs, str, m_queue, dumped, top, torn, now, rpc>>
          /\ mpc = "erase" /\ mpc' = "print"
      BY <2>5 DEF EraseFirst, MoveTo
    <3>2. FilesWhole' /\ (Kept => Kept') /\ mpc \in HasRead
      BY <1>3, <1>5, <3>1 DEF HasRead
    <3>3. QED
      BY <1>1, <3>1, <3>2 DEF StoredInv
  <2>6. CASE RemoveReplayed
    <3>1. RemoveFile(FileRead) /\ mpc = "remove" /\ mpc' = "clear" /\ UNCHANGED str
      BY <2>6 DEF RemoveReplayed, MoveTo
    <3>2. FilesWhole'
      BY <1>6, <3>1
    <3>3. QED
      BY <1>1, <3>1, <3>2 DEF StoredInv, HasRead
  <2>7. QED
    BY <1>8, <2>1, <2>2, <2>3, <2>4, <2>5, <2>6 DEF MoverStep
<1>9. CASE SendToFlowServer
  <2>1. mpc \notin HasRead /\ UNCHANGED <<mpc, disk, ofs, str>>
    BY <1>9 DEF SendToFlowServer, QFree, Replaying, HasRead
  <2>2. QED
    BY <1>2, <1>3, <2>1
<1>10. CASE Quit
  <2>1. UNCHANGED <<disk, m_queue, dumped, top, str, torn, now, ofs, mpc, rpc>>
    BY <1>10 DEF Quit
  <2>2. QED
    BY <1>2, <1>3, <1>5, <2>1
<1>11. CASE Exit \/ ExitOrderly
  <2>1. UNCHANGED disk /\ ofs'.buffer = <<>> /\ mpc' = "off" /\ str' = <<>>
    BY <1>11 DEF Exit, ExitOrderly, ProcessEnds, NoFile
  <2>2. QED
    BY <2>1, <1>1 DEF StoredInv, Whole, HasRead
<1>12. CASE Restart
  <2>1. mpc = "off" /\ UNCHANGED <<disk, ofs, str, mpc>>
    BY <1>0, <1>12 DEF Restart, Staged
  <2>2. QED
    BY <1>2, <1>3, <2>1 DEF HasRead
<1>13. QED
  BY <1>7, <1>8, <1>9, <1>10, <1>11, <1>12 DEF Next

\* Theorem: if the files an earlier program left are whole, what is on disk goes
\* only with the file evicted or when it was read into m_queue, whatever ends the
\* process and whenever (FlowRpcAsynNode.cpp:147-168, 234-259).
THEOREM StoredTillRead ==
  ASSUME \A t \in DOMAIN Backlog : Whole(Backlog[t])
  PROVE  SafeSpec => StoredUntilReplayed
<1>1. Init => StoredInv /\ TornInv
  BY DEF Init, StoredInv, TornInv, Whole, NoFile, HasRead
<1>2. FlowInv /\ PopInv /\ TornInv /\ StoredInv /\ [Next]_vars => StoredInv'
  <2> SUFFICES ASSUME FlowInv, TornInv, StoredInv, [Next]_vars PROVE StoredInv'
    OBVIOUS
  <2>1. CASE Next
    BY <2>1, FlowNext, StoredNext DEF FlowInv
  <2>2. CASE UNCHANGED vars
    <3>1. UNCHANGED <<disk, ofs, mpc, str, torn, top, now, rpc, m_queue, dumped>>
      BY <2>2 DEF vars, queues, runner, mover, outside, life
    <3>2. Read' = Read
      BY <3>1 DEF Read, Content
    <3>3. QED
      BY <3>1, <3>2 DEF StoredInv
  <2>3. QED
    BY <2>1, <2>2
<1> DEFINE Goes(m) ==
        \/ rpc = "remove" /\ m \in MsgsIn(Content(evicted))
        \/ /\ mpc = "remove"
           /\ top = now \/ torn \/ Holding(m_queue \o dumped, m) # {}
<1>3. FlowInv /\ StoredInv /\ [Next]_vars => [\A m \in Stored \ Stored' : Goes(m)]_vars
  <2> SUFFICES ASSUME FlowInv, StoredInv, Next, NEW m \in Stored, m \notin Stored'
               PROVE  Goes(m)
    OBVIOUS
  <2>0. TypeOK
    BY DEF FlowInv
  <2>1. PICK t \in DOMAIN disk : m \in MsgsIn(disk[t])
    BY DEF Stored
  <2>2. ~(t \in DOMAIN disk' /\ disk'[t] = disk[t])
    BY <2>1 DEF Stored
  <2>3. CASE RemoveOldest
    <3>1. t = evicted /\ rpc = "remove"
      BY <2>0, <2>1, <2>2, <2>3, Removes DEF RemoveOldest
    <3>2. QED
      BY <2>1, <3>1 DEF Content
  <2>4. CASE RemoveReplayed
    <3>1. t = top /\ mpc = "remove"
      BY <2>0, <2>1, <2>2, <2>4, Removes DEF RemoveReplayed, FileRead
    <3>2. m \in MsgsIn(Content(top)) /\ str = <<>>
      BY <2>1, <3>1 DEF Content, StoredInv
    <3>3. Read => HeldIn(m_queue, m) \/ HeldIn(dumped, m)
      BY <3>2 DEF Read, HeldIn
    <3>4. Read => Holding(m_queue \o dumped, m) # {}
      BY <2>0, <3>3, HoldingConcat DEF TypeOK
    <3>5. QED
      BY <3>1, <3>4 DEF StoredInv, HasRead
  <2>5. ~OpenFile
    BY <2>1, <2>2 DEF OpenFile
  <2>6. ~CloseFile
    <3>1. SUFFICES ASSUME CloseFile PROVE FALSE
      OBVIOUS
    <3>2. t \in DOMAIN disk' /\ disk'[t] = disk[t] \o ofs.buffer
      BY <2>1, <2>2, <3>1 DEF CloseFile
    <3>3. disk[t] \in Seq(Nat) /\ ofs.buffer \in Seq(Nat)
      BY <2>0, <2>1 DEF TypeOK
    <3>4. MsgsIn(disk[t]) \subseteq MsgsIn(disk[t] \o ofs.buffer)
      <4>1. \A i \in DOMAIN disk[t] : i \in DOMAIN (disk[t] \o ofs.buffer)
                                      /\ (disk[t] \o ofs.buffer)[i] = disk[t][i]
        BY <3>3, ConcatProperties, LenProperties
      <4>2. QED
        BY <4>1 DEF MsgsIn, ToSet
    <3>5. QED
      BY <2>1, <3>2, <3>4 DEF Stored
  <2>7. \/ RemoveOldest \/ RemoveReplayed \/ OpenFile \/ CloseFile
        \/ UNCHANGED disk
    BY DEF Next, RunStep, MoverStep, SendToFlowServer, LoadFileNames, RunReads,
        FrontRecord, PopRecord, SendSucceeds, SendFails, GiveUp, Park, CopyOldest,
        EraseOldest, IndexFile, DrainFailQueue, FrontDumped, PopDumped, FrontFailDumped,
        PopFailDumped, MoverReads, Swap, FrontFailed, PopFailed, PutBack, CopyFirst,
        ReadFile, PushSplit, EraseFirst, ClearFlag, Quit, Exit, ExitOrderly, ProcessEnds,
        Restart
  <2>8. QED
    BY <2>2, <2>1, <2>3, <2>4, <2>5, <2>6, <2>7
<1>4. QED
  BY <1>1, <1>2, <1>3, TornNext, PopInit, PopNext, FlowInit, FlowNext, PTL
  DEF SafeSpec, StoredUntilReplayed
=============================================================================
