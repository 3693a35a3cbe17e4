---------------------------- MODULE NoDupeProofs ----------------------------
(***************************************************************************)
(* Proofs about duplicate suppression, with the cache in a file and with the *)
(* cache in Redis, for every finite set of messages, every grouping of them  *)
(* into entries, every nodupe_ttl, every set of instances, and any number of *)
(* ticks of the clock, stops and kills.                                     *)
(***************************************************************************)
EXTENDS NoDupe, ListLemmas

Time == 0 .. MaxClock
Lines == Seq(Entry \X Time)
Gathered == Seq(Message \X BOOLEAN)

-----------------------------------------------------------------------------
(* The lines of the buffer, and what the file holds after they were added to it. *)

(* The lines of b for the entry e. *)
Own(b, e) == {i \in 1 .. Len(b) : b[i][1] = e}

(* The file holds at least the time t for e once the lines b were added to it. *)
HoldsAfter(file, b, e, t) ==
    \/ Own(b, e) = {} /\ file[e] >= t
    \/ \E i \in Own(b, e) : (\A j \in Own(b, e) : j <= i) /\ b[i][2] >= t

LEMMA ConstantFacts ==
    /\ nodupe_ttl \in Nat /\ MaxClock \in Nat /\ Never \in Int /\ Never + nodupe_ttl = -1 /\ Never < 0
    /\ nothing \in [Entry -> Time \cup {Never}]
    /\ \A m \in Message : entry[m] \in Entry
    /\ IsFiniteSet(Message) /\ IsFiniteSet(Entry)
<1>1. nodupe_ttl \in Nat /\ MaxClock \in Nat /\ Never \in Int /\ Never + nodupe_ttl = -1 /\ Never < 0
  BY NoDupeAssumption DEF Never
<1>2. nothing \in [Entry -> Time \cup {Never}]
  BY DEF nothing
<1>3. \A m \in Message : entry[m] \in Entry
  BY DEF Entry
<1>4. IsFiniteSet(Message)
  BY NoDupeAssumption
<1>5. IsFiniteSet(Entry)
  <2> DEFINE f == [m \in Message |-> entry[m]]
  <2>1. f \in Surjection(Message, Entry)
    BY DEF Surjection, Entry
  <2> HIDE DEF f
  <2> QED BY <1>4, <2>1, FS_Surjection
<1> QED BY <1>1, <1>2, <1>3, <1>4, <1>5

(* Where the time that the file holds for an entry comes from. *)
LEMMA TimesFacts ==
    ASSUME NEW file \in [Entry -> Time \cup {Never}], NEW b \in Lines, NEW e \in Entry
    PROVE  /\ Times(file, b) \in [Entry -> Time \cup {Never}]
           /\ Own(b, e) = {} => Times(file, b)[e] = file[e]
           /\ \A i \in Own(b, e) : (\A j \in Own(b, e) : j <= i) => Times(file, b)[e] = b[i][2]
<1>1. Len(b) \in Nat /\ \A i \in 1 .. Len(b) : b[i] \in Entry \X Time
  BY DEF Lines
<1>2. ASSUME NEW x \in Entry, Own(b, x) # {}
      PROVE  \E i \in Own(b, x) : (\A j \in Own(b, x) : j <= i) /\ Times(file, b)[x] = b[i][2]
  <2> DEFINE c == CHOOSE i \in Own(b, x) : \A j \in Own(b, x) : j <= i
  <2>1. Own(b, x) \in SUBSET (1 .. Len(b))
    BY DEF Own
  <2>2. \E i \in Own(b, x) : \A j \in Own(b, x) : j <= i
    BY <1>1, <1>2, <2>1, LastPosition
  <2>3. c \in Own(b, x) /\ \A j \in Own(b, x) : j <= c
    BY <2>2
  <2>4. Times(file, b)[x] = b[c][2]
    BY <1>2 DEF Times, Own
  <2> HIDE DEF c
  <2> QED BY <2>3, <2>4
<1>3. ASSUME NEW x \in Entry, Own(b, x) = {} PROVE Times(file, b)[x] = file[x]
  BY <1>3 DEF Times, Own
<1>4. Times(file, b) \in [Entry -> Time \cup {Never}]
  <2>1. ASSUME NEW x \in Entry PROVE Times(file, b)[x] \in Time \cup {Never}
    <3>1. CASE Own(b, x) = {}
      BY <1>3, <3>1
    <3>2. CASE Own(b, x) # {}
      <4>1. PICK i \in Own(b, x) : Times(file, b)[x] = b[i][2]
        BY <1>2, <3>2
      <4>2. b[i] \in Entry \X Time
        BY <1>1 DEF Own
      <4> QED BY <4>1, <4>2
    <3> QED BY <3>1, <3>2
  <2>2. Times(file, b) = [x \in Entry |-> Times(file, b)[x]]
    BY DEF Times
  <2> HIDE DEF Times
  <2> QED BY <2>1, <2>2
<1>5. ASSUME NEW i \in Own(b, e), \A j \in Own(b, e) : j <= i PROVE Times(file, b)[e] = b[i][2]
  <2>1. PICK k \in Own(b, e) : (\A j \in Own(b, e) : j <= k) /\ Times(file, b)[e] = b[k][2]
    BY <1>2
  <2>2. i = k
    <3>1. i \in Int /\ k \in Int /\ i <= k /\ k <= i
      BY <1>1, <1>5, <2>1 DEF Own
    <3> QED BY <3>1
  <2> QED BY <2>1, <2>2
<1> QED BY <1>3, <1>4, <1>5

(* A flush keeps what was on its way. *)
LEMMA FlushKeeps ==
    ASSUME NEW file \in [Entry -> Time \cup {Never}], NEW b \in Lines, NEW e \in Entry, NEW t,
           HoldsAfter(file, b, e, t)
    PROVE  Times(file, b)[e] >= t /\ HoldsAfter(Times(file, b), <<>>, e, t)
<1>1. Times(file, b)[e] >= t
  BY TimesFacts DEF HoldsAfter
<1>2. Own(<<>>, e) = {}
  BY DEF Own
<1> QED BY <1>1, <1>2 DEF HoldsAfter

(* So does a line more, of another entry or with a time that is enough. *)
LEMMA AppendKeeps ==
    ASSUME NEW file, NEW b \in Lines, NEW e \in Entry, NEW t, NEW x \in Entry, NEW u \in Time,
           IF x = e THEN u >= t ELSE HoldsAfter(file, b, e, t)
    PROVE  HoldsAfter(file, Append(b, <<x, u>>), e, t)
<1> DEFINE c == Append(b, <<x, u>>)
<1>1. Len(b) \in Nat /\ Len(c) = Len(b) + 1 /\ c[Len(b) + 1] = <<x, u>> /\ \A i \in 1 .. Len(b) : c[i] = b[i]
  BY DEF Lines
<1> HIDE DEF c
<1>2. CASE x = e
  <2>1. Len(b) + 1 \in Own(c, e) /\ c[Len(b) + 1][2] = u
    BY <1>1, <1>2 DEF Own
  <2>2. \A j \in Own(c, e) : j <= Len(b) + 1
    BY <1>1 DEF Own
  <2> QED BY <1>2, <2>1, <2>2 DEF HoldsAfter, c
<1>3. CASE x # e
  <2>1. Own(c, e) = Own(b, e)
    <3>1. c[Len(b) + 1][1] # e
      BY <1>1, <1>3
    <3>2. \A i \in 1 .. Len(b) + 1 : i = Len(b) + 1 \/ i \in 1 .. Len(b)
      BY <1>1
    <3>3. \A i \in 1 .. Len(b) : i \in 1 .. Len(b) + 1
      BY <1>1
    <3> QED BY <1>1, <3>1, <3>2, <3>3 DEF Own
  <2>2. \A i \in Own(b, e) : c[i][2] = b[i][2]
    BY <1>1 DEF Own
  <2> QED BY <1>3, <2>1, <2>2 DEF HoldsAfter, c
<1> QED BY <1>2, <1>3

(* So does the buffer's first line when it goes to the file. *)
LEMMA SpillKeeps ==
    ASSUME NEW file \in [Entry -> Time \cup {Never}], NEW b \in Lines, b # <<>>, NEW e \in Entry, NEW t,
           HoldsAfter(file, b, e, t)
    PROVE  HoldsAfter(Times(file, <<Head(b)>>), Tail(b), e, t)
<1> DEFINE h == <<Head(b)>>
           r == Tail(b)
<1>1. Len(b) \in Nat /\ Len(b) >= 1 /\ Len(r) = Len(b) - 1 /\ \A i \in 1 .. Len(b) - 1 : r[i] = b[i + 1]
  BY DEF Lines
<1>2. h \in Lines /\ Len(h) = 1 /\ h[1] = b[1]
  BY RangeFacts DEF Lines
<1> HIDE DEF h, r
<1>3. \A i \in 1 .. Len(b) : i = 1 \/ i - 1 \in 1 .. Len(r)
  BY <1>1
<1>4. \A i \in 1 .. Len(r) : i + 1 \in 1 .. Len(b)
  BY <1>1
<1>5. \A i \in Own(r, e) : i + 1 \in Own(b, e) /\ r[i] = b[i + 1]
  BY <1>1, <1>4 DEF Own
<1>6. \A i \in Own(b, e) : i # 1 => i - 1 \in Own(r, e) /\ r[i - 1] = b[i]
  <2> SUFFICES ASSUME NEW i \in Own(b, e), i # 1 PROVE i - 1 \in Own(r, e) /\ r[i - 1] = b[i]
    OBVIOUS
  <2>1. i \in 1 .. Len(b) /\ b[i][1] = e /\ i - 1 \in 1 .. Len(r) /\ (i - 1) + 1 = i
    BY <1>1, <1>3 DEF Own
  <2>2. r[i - 1] = b[(i - 1) + 1]
    BY <1>1, <2>1
  <2> QED BY <2>1, <2>2 DEF Own
<1>7. CASE Own(b, e) = {} /\ file[e] >= t
  <2>1. Own(r, e) = {}
    BY <1>5, <1>7
  <2>2. Own(h, e) = {}
    <3>1. b[1][1] # e
      BY <1>1, <1>7 DEF Own
    <3> QED BY <1>2, <3>1 DEF Own
  <2>3. Times(file, h)[e] = file[e]
    BY <1>2, <2>2, TimesFacts
  <2> QED BY <1>7, <2>1, <2>3 DEF HoldsAfter, h, r
<1>8. CASE \E i \in Own(b, e) : (\A j \in Own(b, e) : j <= i) /\ b[i][2] >= t
  <2>1. PICK i \in Own(b, e) : (\A j \in Own(b, e) : j <= i) /\ b[i][2] >= t
    BY <1>8
  <2>2. i \in Nat
    BY <1>1 DEF Own
  <2>3. CASE i = 1
    <3>1. Own(r, e) = {}
      <4> SUFFICES ASSUME NEW j \in Own(r, e) PROVE FALSE
        OBVIOUS
      <4>1. j \in Nat /\ j >= 1 /\ j + 1 <= 1
        BY <1>1, <1>5, <2>1, <2>3 DEF Own
      <4> QED BY <4>1
    <3>2. 1 \in Own(h, e) /\ \A j \in Own(h, e) : j <= 1
      BY <1>2, <2>1, <2>3 DEF Own
    <3>3. Times(file, h)[e] = b[1][2]
      BY <1>2, <3>2, TimesFacts
    <3> QED BY <2>1, <2>3, <3>1, <3>3 DEF HoldsAfter, h, r
  <2>4. CASE i # 1
    <3>1. i - 1 \in Own(r, e) /\ r[i - 1] = b[i]
      BY <1>6, <2>4
    <3>2. ASSUME NEW j \in Own(r, e) PROVE j <= i - 1
      <4>1. j \in Nat /\ j + 1 <= i
        BY <1>1, <1>5, <2>1 DEF Own
      <4> QED BY <2>2, <4>1
    <3> QED BY <2>1, <3>1, <3>2 DEF HoldsAfter, h, r
  <2> QED BY <2>3, <2>4
<1> QED BY <1>7, <1>8 DEF HoldsAfter

(* clean writes one line for each entry it keeps. *)
LEMMA CleanKeeps ==
    ASSUME NEW f \in [Entry -> Time \cup {Never}], NEW S \in SUBSET Entry, \A x \in S : f[x] \in Time
    PROVE  /\ SetToSeq({<<x, f[x]>> : x \in S}) \in Lines
           /\ \A x \in Entry : Own(SetToSeq({<<y, f[y]>> : y \in S}), x) # {} => x \in S
           /\ \A file, x, t : x \in S /\ f[x] >= t => HoldsAfter(file, SetToSeq({<<y, f[y]>> : y \in S}), x, t)
<1> DEFINE L == {<<x, f[x]>> : x \in S}
           b == SetToSeq(L)
<1>1. IsFiniteSet(L)
  <2> DEFINE g == [x \in S |-> <<x, f[x]>>]
  <2>1. g \in Surjection(S, L)
    BY DEF Surjection
  <2>2. IsFiniteSet(S)
    BY ConstantFacts, FS_Subset
  <2> HIDE DEF g, L
  <2> QED BY <2>1, <2>2, FS_Surjection
<1>2. b \in Seq(L) /\ Range(b) = L /\ \A i, j \in 1 .. Len(b) : b[i] = b[j] => i = j
  <2> HIDE DEF L
  <2> QED BY <1>1, SetToSeqFacts
<1>3. L \subseteq Entry \X Time
  OBVIOUS
<1>4. Len(b) \in Nat /\ \A i \in 1 .. Len(b) : b[i] \in L
  <2> HIDE DEF b, L
  <2> QED BY <1>2
<1>5. b \in Lines
  <2> HIDE DEF L, b
  <2> QED BY <1>2, <1>3 DEF Lines
<1>6. \A i \in 1 .. Len(b) : b[i][1] \in S /\ b[i][2] = f[b[i][1]]
  BY <1>4
<1>7. Range(b) = {b[i] : i \in 1 .. Len(b)}
  <2> HIDE DEF b
  <2> QED BY <1>2, RangeEquality
<1>8. \A x \in S : \E i \in 1 .. Len(b) : b[i] = <<x, f[x]>>
  <2> SUFFICES ASSUME NEW x \in S PROVE \E i \in 1 .. Len(b) : b[i] = <<x, f[x]>>
    OBVIOUS
  <2>1. <<x, f[x]>> \in Range(b)
    BY <1>2
  <2> HIDE DEF b
  <2> QED BY <1>7, <2>1
<1> HIDE DEF b
<1>9. ASSUME NEW file, NEW x \in S, NEW t, f[x] >= t PROVE HoldsAfter(file, b, x, t)
  <2>1. PICK i \in 1 .. Len(b) : b[i] = <<x, f[x]>>
    BY <1>8
  <2>2. i \in Own(b, x) /\ b[i][2] >= t
    BY <1>9, <2>1 DEF Own
  <2>3. ASSUME NEW j \in Own(b, x) PROVE j <= i
    <3>1. j \in 1 .. Len(b) /\ b[j][1] = x /\ b[j][2] = f[x]
      BY <1>6 DEF Own
    <3>2. b[j] \in L
      BY <1>4, <3>1
    <3>3. b[j] = b[i]
      BY <2>1, <3>1, <3>2
    <3> QED BY <1>2, <1>4, <3>1, <3>3
  <2> QED BY <2>2, <2>3 DEF HoldsAfter
<1>10. \A x \in Entry : Own(b, x) # {} => x \in S
  BY <1>6 DEF Own
<1> QED BY <1>5, <1>9, <1>10 DEF b

-----------------------------------------------------------------------------
(* Type correctness. *)

RedisType ==
    /\ driver \in {"disk", "redis"}
    /\ at \in [Instance -> {"idle", "get", "set", "work"}]
    /\ hand \in [Instance -> (Message \cup {Nothing}) \X BOOLEAN]
    /\ \A i \in Instance : at[i] # "idle" => Ours(i) \in Message
    /\ got \in [Instance -> BOOLEAN]
    /\ store \in [Entry -> Time \cup {Never}]
    /\ seen = store
    /\ raced \subseteq Entry

(* TypeOK by its parts. *)
QueueType == broker \in [Message -> {"ready", "unacked", "acked"}] /\ incoming \in Gathered
SetsType ==
    /\ accepted \subseteq Message /\ rejected \subseteq Message /\ failed \subseteq Message /\ retry \subseteq Message
    /\ done \subseteq Message /\ dropped \subseteq Message /\ tooOld \subseteq Message /\ cut \subseteq Message
CacheType ==
    /\ cache_dict \in [Entry -> Time \cup {Never}] /\ disk \in [Entry -> Time \cup {Never}]
    /\ passed \in [Entry -> Time \cup {Never}] /\ buf \in Lines
RestType ==
    /\ now \in 0 .. clock /\ clock \in 0 .. MaxClock /\ rewritten \in BOOLEAN
    /\ pc \in {"idle", "check", "work", "save", "stop", "stopSave", "close", "down"}
    /\ forgotten \subseteq Entry

Typed == QueueType /\ SetsType /\ CacheType /\ RestType

LEMMA TypedIsTypeOK == TypeOK <=> Typed
  BY DEF TypeOK, Typed, QueueType, SetsType, CacheType, RestType, Gathered, Lines, Time

(* What is kept is a time. *)
LEMMA KeptIsTime ==
    ASSUME clock \in 0 .. MaxClock, NEW t \in Time \cup {Never}, kept(t) PROVE t \in Time
<1>1. clock \in Nat /\ nodupe_ttl \in Nat /\ MaxClock \in Nat
  BY NoDupeAssumption
<1>2. t # Never
  BY <1>1 DEF kept, Never
<1> QED BY <1>2

(* The two parts of what a pass gathers. *)
LEMMA PassLists ==
    ASSUME NEW S \in SUBSET Message, NEW R \in SUBSET Message
    PROVE  /\ SetToSeq(S \X {FALSE}) \in Gathered /\ SetToSeq(R \X {TRUE}) \in Gathered
           /\ Range(SetToSeq(R \X {TRUE})) = R \X {TRUE}
<1>1. IsFiniteSet(S) /\ IsFiniteSet(R)
  BY ConstantFacts, FS_Subset
<1>2. IsFiniteSet(S \X {FALSE}) /\ IsFiniteSet(R \X {TRUE})
  <2>1. IsFiniteSet({FALSE}) /\ IsFiniteSet({TRUE})
    BY FS_Singleton
  <2> QED BY <1>1, <2>1, FS_Product
<1>3. SetToSeq(S \X {FALSE}) \in Seq(S \X {FALSE}) /\ SetToSeq(R \X {TRUE}) \in Seq(R \X {TRUE})
  BY <1>2, SetToSeqFacts
<1>4. S \X {FALSE} \subseteq Message \X BOOLEAN /\ R \X {TRUE} \subseteq Message \X BOOLEAN
  OBVIOUS
<1>5. ASSUME NEW A, NEW B, A \subseteq B, NEW s \in Seq(A) PROVE s \in Seq(B)
  BY <1>5
<1>6. Range(SetToSeq(R \X {TRUE})) = R \X {TRUE}
  BY <1>2, SetToSeqFacts
<1> QED BY <1>3, <1>4, <1>5, <1>6, ZenonT(30) DEF Gathered

LEMMA DiskQueueType == ASSUME Typed, Next PROVE QueueType'
<1> USE DEF Typed, QueueType
<1>1. CASE Gather
  <2>1. PICK S \in SUBSET {m \in Message : broker[m] = "ready"}, R \in SUBSET retry :
          /\ broker' = [m \in Message |-> IF m \in S THEN "unacked" ELSE broker[m]]
          /\ incoming' = SetToSeq(S \X {FALSE}) \o SetToSeq(R \X {TRUE})
    BY <1>1 DEF Gather
  <2>2. SetToSeq(S \X {FALSE}) \in Gathered /\ SetToSeq(R \X {TRUE}) \in Gathered
    BY PassLists DEF SetsType
  <2>3. incoming' \in Gathered
    <3>1. SetToSeq(S \X {FALSE}) \o SetToSeq(R \X {TRUE}) \in Gathered
      BY <2>2 DEF Gathered
    <3> QED BY <2>1, <3>1
  <2> QED BY <2>1, <2>3
<1>2. CASE CheckOne
  <2>1. incoming' = Tail(incoming) /\ incoming # <<>> /\ UNCHANGED broker
    BY <1>2 DEF CheckOne
  <2>2. Tail(incoming) \in Gathered
    BY <2>1, RangeFacts DEF Gathered
  <2> QED BY <2>1, <2>2
<1>3. CASE Kill
  <2>1. incoming' \in Gathered
    BY <1>3 DEF Kill, Gathered
  <2>2. broker' \in [Message -> {"ready", "unacked", "acked"}]
    BY <1>3 DEF Kill
  <2> QED BY <2>1, <2>2
<1>4. CASE AcceptEnd \/ Work
  BY <1>4 DEF AcceptEnd, Work
<1>5. CASE Tick \/ Spill \/ SaveUnlink \/ SaveClean \/ Stop \/ Close \/ Restart
  BY <1>5 DEF Tick, Spill, SaveUnlink, SaveClean, Stop, Close, Restart, lists
<1> QED BY <1>1, <1>2, <1>3, <1>4, <1>5 DEF Next

(* What a pass still has to look at. *)
LEMMA IncomingFacts ==
    ASSUME Typed
    PROVE  /\ {incoming[i][1] : i \in 1 .. Len(incoming)} \subseteq Message
           /\ incoming # <<>> => Head(incoming) = <<Head(incoming)[1], Head(incoming)[2]>>
                                 /\ Head(incoming)[1] \in Message /\ Head(incoming)[2] \in BOOLEAN
                                 /\ Head(incoming) = incoming[1]
<1>1. incoming \in Seq(Message \X BOOLEAN)
  BY DEF Typed, QueueType, Gathered
<1>2. \A i \in 1 .. Len(incoming) : incoming[i] \in Message \X BOOLEAN
  BY <1>1
<1>3. incoming # <<>> => Head(incoming) = incoming[1] /\ Head(incoming) \in Message \X BOOLEAN
  BY <1>1
<1> QED BY <1>2, <1>3

LEMMA DiskSetsType == ASSUME Typed, Next PROVE SetsType'
<1> USE DEF Typed, SetsType
<1>1. CASE Gather
  BY <1>1 DEF Gather, history
<1>2. CASE CheckOne
  <2>1. Head(incoming)[1] \in Message
    BY <1>2, IncomingFacts DEF CheckOne
  <2>2. UNCHANGED <<retry, done, dropped, cut>>
    BY <1>2 DEF CheckOne
  <2>3. /\ accepted' \subseteq accepted \cup {Head(incoming)[1]} /\ rejected' \subseteq rejected \cup {Head(incoming)[1]}
        /\ failed' \subseteq failed \cup {Head(incoming)[1]} /\ tooOld' \subseteq tooOld \cup {Head(incoming)[1]}
    BY <1>2 DEF CheckOne
  <2> QED BY <2>1, <2>2, <2>3
<1>3. CASE Kill
  BY <1>3, IncomingFacts DEF Kill
<1>4. CASE AcceptEnd
  BY <1>4 DEF AcceptEnd
<1>5. CASE Work
  BY <1>5 DEF Work
<1>6. CASE Tick \/ Spill \/ SaveUnlink \/ SaveClean \/ Stop \/ Close \/ Restart
  BY <1>6 DEF Tick, Spill, SaveUnlink, SaveClean, Stop, Close, Restart, lists, history
<1> QED BY <1>1, <1>2, <1>3, <1>4, <1>5, <1>6 DEF Next

LEMMA DiskCacheType == ASSUME Typed, Next PROVE CacheType'
<1> USE DEF Typed, CacheType
<1>1. CASE Tick \/ Gather \/ Work \/ Stop
  BY <1>1 DEF Tick, Gather, Work, Stop, cache, history
<1>2. CASE Spill
  <2>1. buf # <<>> /\ disk' = Times(disk, <<Head(buf)>>) /\ buf' = Tail(buf) /\ UNCHANGED <<cache_dict, passed>>
    BY <1>2 DEF Spill, history
  <2>2. Tail(buf) \in Lines /\ Head(buf) \in Entry \X Time
    BY <2>1, RangeFacts DEF Lines
  <2>3. <<Head(buf)>> \in Lines
    BY <2>2 DEF Lines
  <2>4. Times(disk, <<Head(buf)>>) \in [Entry -> Time \cup {Never}]
    <3>1. CASE Entry = {}
      BY <2>2, <3>1
    <3>2. ASSUME NEW e \in Entry PROVE Times(disk, <<Head(buf)>>) \in [Entry -> Time \cup {Never}]
      BY <2>3, TimesFacts
    <3> QED BY <3>1, <3>2
  <2> QED BY <2>1, <2>2, <2>4
<1>3. CASE CheckOne
  <2>1. Head(incoming)[1] \in Message /\ entry[Head(incoming)[1]] \in Entry
    BY <1>3, IncomingFacts, ConstantFacts DEF CheckOne
  <2>2. now \in Time
    BY NoDupeAssumption DEF RestType, Time
  <2>3. \/ UNCHANGED <<cache_dict, buf>>
        \/ /\ cache_dict' = [cache_dict EXCEPT ![entry[Head(incoming)[1]]] = now]
           /\ buf' = Append(buf, <<entry[Head(incoming)[1]], now>>)
    BY <1>3 DEF CheckOne
  <2>4. Append(buf, <<entry[Head(incoming)[1]], now>>) \in Lines
    BY <2>1, <2>2 DEF Lines
  <2>5. passed' \in [Entry -> Time \cup {Never}]
    <3>1. ASSUME NEW c PROVE [e \in Entry |-> IF e = entry[Head(incoming)[1]] /\ c THEN now ELSE passed[e]]
                               \in [Entry -> Time \cup {Never}]
      BY <2>2
    <3> QED BY <1>3, <3>1 DEF CheckOne
  <2>6. UNCHANGED disk
    BY <1>3 DEF CheckOne
  <2>7. cache_dict' \in [Entry -> Time \cup {Never}]
    BY <2>2, <2>3
  <2>8. buf' \in Lines
    BY <2>3, <2>4
  <2> QED BY <2>5, <2>6, <2>7, <2>8
<1>4. Times(disk, buf) \in [Entry -> Time \cup {Never}]
  <2>1. CASE Entry = {}
    BY <2>1 DEF Times
  <2>2. ASSUME NEW e \in Entry PROVE Times(disk, buf) \in [Entry -> Time \cup {Never}]
    BY TimesFacts
  <2> QED BY <2>1, <2>2
<1>5. <<>> \in Lines
  BY DEF Lines
<1>6. CASE AcceptEnd
  BY <1>4, <1>5, <1>6 DEF AcceptEnd, flush
<1>7. CASE Close
  BY <1>4, <1>5, <1>7, ConstantFacts DEF Close, flush, history
<1>8. CASE SaveUnlink
  BY <1>5, <1>8, ConstantFacts DEF SaveUnlink, history
<1>9. CASE SaveClean
  <2>1. PICK S \in SUBSET Entry : S = {f \in Entry : kept(cache_dict[f])}
    OBVIOUS
  <2>2. buf' = SetToSeq({<<e, cache_dict[e]>> : e \in S})
    BY <1>9, <2>1 DEF SaveClean
  <2>3. \A e \in S : cache_dict[e] \in Time
    BY <2>1, KeptIsTime DEF RestType
  <2>4. SetToSeq({<<e, cache_dict[e]>> : e \in S}) \in Lines
    BY <2>3, CleanKeeps
  <2>5. buf' \in Lines
    BY <2>2, <2>4
  <2>6. cache_dict' \in [Entry -> Time \cup {Never}] /\ UNCHANGED <<disk, passed>>
    BY <1>9 DEF SaveClean, history
  <2> QED BY <2>5, <2>6
<1>10. CASE Kill
  BY <1>5, <1>10, ConstantFacts DEF Kill
<1>11. CASE Restart
  BY <1>11 DEF Restart, history
<1> QED BY <1>1, <1>2, <1>3, <1>6, <1>7, <1>8, <1>9, <1>10, <1>11 DEF Next

LEMMA DiskRestType == ASSUME Typed, Next PROVE RestType'
<1> USE NoDupeAssumption DEF Typed, RestType
<1>1. CASE Tick \/ Spill
  BY <1>1 DEF Tick, Spill, cache, history
<1>4. CASE Gather
  <2>1. now' = clock /\ pc' = "check" /\ UNCHANGED <<clock, rewritten, forgotten>>
    BY <1>4 DEF Gather, cache, history
  <2> QED BY <2>1
<1>2. CASE CheckOne \/ AcceptEnd \/ Work
  BY <1>2 DEF CheckOne, AcceptEnd, Work, flush, cache
<1>3. CASE SaveUnlink \/ SaveClean \/ Stop \/ Close \/ Kill \/ Restart
  BY <1>3 DEF SaveUnlink, SaveClean, Stop, Close, Kill, Restart, flush, cache, history
<1> QED BY <1>1, <1>2, <1>3, <1>4 DEF Next

(* A message of an instance. *)
LEMMA OursFacts ==
    ASSUME RedisType, NEW i \in Instance, at[i] # "idle"
    PROVE  Ours(i) \in Message /\ EntryOf(i) \in Entry
  BY ConstantFacts DEF RedisType, EntryOf

LEMMA RedisStepTyped == ASSUME Typed, RedisType, RNext PROVE Typed'
<1> USE DEF Typed, QueueType, SetsType, CacheType, RestType, untouched, cache
<1>1. CASE RTick
  BY <1>1, NoDupeAssumption DEF RTick
<1>2. ASSUME NEW i \in Instance, RGather(i) PROVE Typed'
  BY <1>2 DEF RGather, Hold
<1>3. ASSUME NEW i \in Instance, RPassBy(i) PROVE Typed'
  <2>1. Ours(i) \in Message
    BY <1>3, OursFacts DEF RPassBy
  <2> QED BY <1>3, <2>1 DEF RPassBy, Acknowledge, Release
<1>4. ASSUME NEW i \in Instance, RGet(i) PROVE Typed'
  BY <1>4 DEF RGet
<1>5. ASSUME NEW i \in Instance, RSet(i) PROVE Typed'
  <2>1. Ours(i) \in Message
    BY <1>5, OursFacts DEF RSet
  <2> QED BY <1>5, <2>1 DEF RSet, Acknowledge, Release
<1>6. ASSUME NEW i \in Instance, RWork(i) PROVE Typed'
  <2>1. Ours(i) \in Message
    BY <1>6, OursFacts DEF RWork
  <2> QED BY <1>6, <2>1 DEF RWork, Acknowledge, Release
<1>7. ASSUME NEW i \in Instance, RKill(i) PROVE Typed'
  <2>1. Ours(i) \in Message
    BY <1>7, OursFacts DEF RKill
  <2> QED BY <1>7, <2>1 DEF RKill, Release
<1> QED BY <1>1, <1>2, <1>3, <1>4, <1>5, <1>6, <1>7 DEF RNext

(* An instance takes hold of a message, goes on with it, or lets go of it. *)
LEMMA HandTypes ==
    ASSUME RedisType, NEW i \in Instance, NEW w \in {"idle", "get", "set", "work"}, To(i, w),
           \/ \E m \in Message, b \in BOOLEAN : Hold(i, m, b)
           \/ w = "idle" /\ Release(i)
           \/ at[i] # "idle" /\ UNCHANGED hand
    PROVE  /\ at' \in [Instance -> {"idle", "get", "set", "work"}]
           /\ hand' \in [Instance -> (Message \cup {Nothing}) \X BOOLEAN]
           /\ \A j \in Instance : at'[j] # "idle" => Ours(j)' \in Message
<1>1. at' \in [Instance -> {"idle", "get", "set", "work"}] /\ at'[i] = w /\ \A j \in Instance \ {i} : at'[j] = at[j]
  BY DEF RedisType, To
<1>2. CASE \E m \in Message, b \in BOOLEAN : Hold(i, m, b)
  <2>1. PICK m \in Message, b \in BOOLEAN : hand' = [hand EXCEPT ![i] = <<m, b>>]
    BY <1>2 DEF Hold
  <2>2. <<m, b>> \in (Message \cup {Nothing}) \X BOOLEAN /\ <<m, b>>[1] = m
    OBVIOUS
  <2>3. hand' \in [Instance -> (Message \cup {Nothing}) \X BOOLEAN]
    BY <2>1, <2>2 DEF RedisType
  <2>4. hand'[i][1] = m /\ \A j \in Instance \ {i} : hand'[j] = hand[j]
    BY <2>1, <2>2 DEF RedisType
  <2> QED BY <1>1, <2>3, <2>4 DEF RedisType, Ours
<1>3. CASE w = "idle" /\ Release(i)
  <2>1. hand' = [hand EXCEPT ![i] = Idle]
    BY <1>3 DEF Release
  <2>2. Idle \in (Message \cup {Nothing}) \X BOOLEAN
    BY DEF Idle
  <2>3. hand' \in [Instance -> (Message \cup {Nothing}) \X BOOLEAN] /\ \A j \in Instance \ {i} : hand'[j] = hand[j]
    BY <2>1, <2>2 DEF RedisType
  <2> QED BY <1>1, <1>3, <2>3 DEF RedisType, Ours
<1>4. CASE at[i] # "idle" /\ UNCHANGED hand
  BY <1>1, <1>4 DEF RedisType, Ours
<1> QED BY <1>2, <1>3, <1>4

LEMMA RedisStepType ==
    ASSUME Typed, RedisType, RNext, UNCHANGED driver PROVE RedisType'
<1> USE DEF RedisType
<1>1. CASE RTick
  BY <1>1 DEF RTick, redisVars, Ours
<1>2. ASSUME NEW i \in Instance, RGather(i) PROVE RedisType'
  <2>1. To(i, "get") /\ \E m \in Message, b \in BOOLEAN : Hold(i, m, b)
    <3>1. retry \subseteq Message
      BY DEF Typed, SetsType
    <3> QED BY <1>2, <3>1 DEF RGather
  <2>2. UNCHANGED <<driver, store, got, seen, raced>>
    BY <1>2 DEF RGather
  <2> QED BY <2>1, <2>2, HandTypes
<1>3. ASSUME NEW i \in Instance, RPassBy(i) PROVE RedisType'
  <2>1. at[i] # "idle"
    BY <1>3 DEF RPassBy
  <2>2. UNCHANGED <<driver, store, got, seen, raced>>
    BY <1>3 DEF RPassBy
  <2>3. CASE To(i, "idle") /\ Release(i)
    BY <2>2, <2>3, HandTypes
  <2>4. CASE To(i, "work") /\ UNCHANGED hand
    BY <2>1, <2>2, <2>4, HandTypes
  <2> QED BY <1>3, <2>3, <2>4 DEF RPassBy
<1>4. ASSUME NEW i \in Instance, RGet(i) PROVE RedisType'
  <2>1. EntryOf(i) \in Entry
    BY <1>4, OursFacts DEF RGet
  <2>2. raced' \subseteq Entry
    BY <1>4, <2>1 DEF RGet
  <2>3. got' = [got EXCEPT ![i] = Live(EntryOf(i))] /\ UNCHANGED <<store, seen, hand>> /\ at[i] = "get" /\ To(i, "set")
    BY <1>4 DEF RGet
  <2>4. got' \in [Instance -> BOOLEAN]
    BY <2>3 DEF Live
  <2> QED BY <2>2, <2>3, <2>4, HandTypes
<1>5. ASSUME NEW i \in Instance, RSet(i) PROVE RedisType'
  <2>1. clock \in Time
    BY DEF Typed, RestType, Time
  <2>2. store' \in [Entry -> Time \cup {Never}] /\ seen' = store'
    BY <1>5, <2>1 DEF RSet, Written
  <2>3. UNCHANGED <<got, raced>>
    BY <1>5 DEF RSet
  <2>4. at[i] # "idle"
    BY <1>5 DEF RSet
  <2>5. CASE To(i, "idle") /\ Release(i)
    BY <2>2, <2>3, <2>5, HandTypes
  <2>6. CASE To(i, "work") /\ UNCHANGED hand
    BY <2>2, <2>3, <2>4, <2>6, HandTypes
  <2> QED BY <1>5, <2>5, <2>6 DEF RSet
<1>6. ASSUME NEW i \in Instance, RWork(i) \/ RKill(i) PROVE RedisType'
  <2>1. To(i, "idle") /\ Release(i) /\ UNCHANGED <<store, got, seen, raced>>
    BY <1>6 DEF RWork, RKill
  <2> QED BY <2>1, HandTypes
<1> QED BY <1>1, <1>2, <1>3, <1>4, <1>5, <1>6 DEF RNext

LEMMA TypeInit == ASSUME RedisInit PROVE Typed /\ RedisType
<1>1. Init
  BY DEF RedisInit
<1>2. Typed
  <2>1. QueueType /\ SetsType
    BY <1>1 DEF Init, QueueType, SetsType, Gathered
  <2>2. CacheType
    BY <1>1, ConstantFacts DEF Init, CacheType, Lines
  <2>3. RestType
    <3>1. now = 0 /\ clock = 0 /\ rewritten = FALSE /\ pc = "idle" /\ forgotten = {}
      BY <1>1 DEF Init
    <3>2. now \in 0 .. clock /\ clock \in 0 .. MaxClock
      BY <3>1, NoDupeAssumption
    <3>3. rewritten \in BOOLEAN /\ forgotten \subseteq Entry
      BY <3>1
    <3> QED BY <3>1, <3>2, <3>3 DEF RestType
  <2> QED BY <2>1, <2>2, <2>3 DEF Typed
<1>3. RedisType
  BY ConstantFacts DEF RedisInit, RedisType, Idle
<1> QED BY <1>2, <1>3

LEMMA TypeStep == ASSUME Typed, RedisType, [SuppressionNext]_allVars PROVE Typed' /\ RedisType'
<1>1. CASE Next /\ UNCHANGED <<driver, redisVars>>
  <2>1. Typed'
    BY <1>1, DiskQueueType, DiskSetsType, DiskCacheType, DiskRestType DEF Typed
  <2>2. RedisType'
    BY <1>1 DEF RedisType, redisVars, Ours
  <2> QED BY <2>1, <2>2
<1>2. CASE RNext /\ UNCHANGED driver
  BY <1>2, RedisStepTyped, RedisStepType
<1>3. CASE UNCHANGED allVars
  <2>1. Typed'
    BY <1>3 DEF allVars, vars, lists, cache, history, Typed, QueueType, SetsType, CacheType, RestType
  <2>2. RedisType'
    BY <1>3 DEF RedisType, allVars, redisVars, Ours
  <2> QED BY <2>1, <2>2
<1> QED BY <1>1, <1>2, <1>3 DEF SuppressionNext

(* Every variable keeps the type that TypeOK states. *)
THEOREM TypeCorrect == SuppressionSpec => [](TypeOK /\ RedisType)
<1>1. RedisInit => Typed /\ RedisType
  BY TypeInit
<1>2. (Typed /\ RedisType) /\ [SuppressionNext]_allVars => (Typed /\ RedisType)'
  BY TypeStep
<1>3. Typed /\ RedisType => TypeOK /\ RedisType
  BY TypedIsTypeOK
<1> QED BY <1>1, <1>2, <1>3, PTL DEF SuppressionSpec

-----------------------------------------------------------------------------
(* The cache in a file. *)

(* The entries that must not be let through again; a pass goes by the time when it began. *)
Due(e) == e \notin forgotten /\ (recent(e) \/ (pc = "check" /\ now - passed[e] <= nodupe_ttl))

PassedBefore == \A e \in Entry : passed[e] <= now

(* Memory has them, ... *)
InMemory == pc # "down" => \A e \in Entry : Due(e) => cache_dict[e] >= passed[e]

(* ... and so has the file, once the buffer is flushed; but while save rewrites it. *)
InFile == pc \notin {"save", "stopSave"} => \A e \in Entry : Due(e) => HoldsAfter(disk, buf, e, passed[e])

(* Between two passes the buffer is empty, but after a housekeeping. *)
Flushed == pc \in {"work", "idle", "down"} /\ ~rewritten => buf = <<>>
DownClean == pc = "down" => ~rewritten

(* While save rewrites the file, it is marked as rewritten. *)
Rewriting == pc \in {"save", "stopSave"} => rewritten

CacheInv == PassedBefore /\ InMemory /\ InFile /\ Flushed /\ DownClean /\ Rewriting

LEMMA Numbers ==
    ASSUME Typed
    PROVE  /\ clock \in Int /\ now \in Int /\ now <= clock /\ nodupe_ttl \in Nat /\ Never \in Int
           /\ \A e \in Entry : passed[e] \in Int /\ cache_dict[e] \in Int /\ disk[e] \in Int
           /\ \A e \in Entry : /\ passed[e] \in Time \cup {Never} /\ cache_dict[e] \in Time \cup {Never}
                               /\ disk[e] \in Time \cup {Never}
<1>1. clock \in Int /\ now \in Int /\ now <= clock /\ nodupe_ttl \in Nat /\ Never \in Int /\ MaxClock \in Nat
  BY NoDupeAssumption DEF Typed, RestType, Never
<1>2. \A e \in Entry : /\ passed[e] \in Time \cup {Never} /\ cache_dict[e] \in Time \cup {Never}
                       /\ disk[e] \in Time \cup {Never}
  BY DEF Typed, CacheType
<1>3. Time \cup {Never} \subseteq Int
  BY <1>1 DEF Time
<1> QED BY <1>1, <1>2, <1>3

(* Time passes, or something else happens that is nothing to the cache. *)
LEMMA CacheSame ==
    ASSUME Typed, Typed', CacheInv, UNCHANGED <<cache, now, passed, forgotten>>, clock' >= clock,
           pc' = pc \/ (pc = "idle" /\ pc' = "stop")
    PROVE  CacheInv'
<1> USE DEF CacheInv, cache
<1>1. \A e \in Entry : Due(e)' => Due(e)
  <2> SUFFICES ASSUME NEW e \in Entry, Due(e)' PROVE Due(e)
    OBVIOUS
  <2>1. e \notin forgotten
    BY DEF Due
  <2>2. CASE recent(e)'
    <3>1. clock' - passed[e] <= nodupe_ttl
      BY <2>2 DEF recent
    <3>2. clock' \in Int /\ clock \in Int /\ passed[e] \in Int /\ nodupe_ttl \in Int
      BY Numbers DEF Typed, RestType
    <3>3. clock - passed[e] <= nodupe_ttl
      BY <3>1, <3>2
    <3> QED BY <2>1, <3>3 DEF Due, recent
  <2>3. CASE pc' = "check" /\ now' - passed'[e] <= nodupe_ttl
    BY <2>1, <2>3 DEF Due
  <2> QED BY <2>2, <2>3 DEF Due
<1>2. PassedBefore'
  BY DEF PassedBefore
<1>3. InMemory'
  BY <1>1 DEF InMemory
<1>4. InFile'
  BY <1>1 DEF InFile
<1> QED BY <1>2, <1>3, <1>4 DEF Flushed, DownClean, Rewriting

LEMMA CacheGather == ASSUME Typed, Typed', CacheInv, Gather PROVE CacheInv'
<1>1. pc = "idle" /\ pc' = "check" /\ now' = clock /\ UNCHANGED <<cache_dict, disk, buf, rewritten, clock, passed, forgotten>>
  BY DEF Gather, cache, history
<1>2. PassedBefore'
  <2> SUFFICES ASSUME NEW e \in Entry PROVE passed[e] <= clock
    BY <1>1 DEF PassedBefore
  <2>1. passed[e] <= now /\ now <= clock /\ passed[e] \in Int /\ now \in Int /\ clock \in Int
    BY Numbers DEF CacheInv, PassedBefore
  <2> QED BY <2>1
<1>3. \A e \in Entry : Due(e)' => Due(e)
  BY <1>1 DEF Due, recent
<1>4. InMemory'
  BY <1>1, <1>3 DEF InMemory, CacheInv
<1>5. InFile'
  BY <1>1, <1>3 DEF InFile, CacheInv
<1> QED BY <1>1, <1>2, <1>4, <1>5 DEF CacheInv, Flushed, DownClean, Rewriting

LEMMA CacheSpill == ASSUME Typed, Typed', CacheInv, Spill PROVE CacheInv'
<1>1. /\ buf # <<>> /\ disk' = Times(disk, <<Head(buf)>>) /\ buf' = Tail(buf)
      /\ UNCHANGED <<cache_dict, rewritten, now, clock, pc, passed, forgotten>>
  BY DEF Spill, history
<1>2. \A e \in Entry : Due(e)' <=> Due(e)
  BY <1>1 DEF Due, recent
<1>3. InFile'
  <2> SUFFICES ASSUME pc \notin {"save", "stopSave"}, NEW e \in Entry, Due(e)
               PROVE HoldsAfter(disk, buf, e, passed[e])'
    BY <1>1, <1>2 DEF InFile
  <2>1. HoldsAfter(disk, buf, e, passed[e])
    BY DEF CacheInv, InFile
  <2>2. HoldsAfter(Times(disk, <<Head(buf)>>), Tail(buf), e, passed[e])
    BY <1>1, <2>1, SpillKeeps DEF Typed, CacheType
  <2> QED BY <1>1, <2>2
<1>4. ~(pc \in {"work", "idle", "down"} /\ ~rewritten)
  BY <1>1 DEF CacheInv, Flushed
<1>5. PassedBefore' /\ DownClean' /\ Flushed' /\ Rewriting'
  BY <1>1, <1>4 DEF CacheInv, PassedBefore, DownClean, Flushed, Rewriting
<1>6. InMemory'
  BY <1>1, <1>2 DEF CacheInv, InMemory
<1> QED BY <1>3, <1>5, <1>6 DEF CacheInv

(* What a look-up does: the entry and its line get the time of the pass. *)
LEMMA CheckOneFacts ==
    ASSUME Typed, CheckOne
    PROVE  \E x \in Entry :
             /\ x = entry[Head(incoming)[1]]
             /\ \/ UNCHANGED <<cache_dict, buf, passed>>
                \/ cache_dict' = [cache_dict EXCEPT ![x] = now] /\ buf' = Append(buf, <<x, now>>)
             /\ \/ UNCHANGED passed
                \/ ~present(x) /\ passed' = [passed EXCEPT ![x] = now]
             /\ pc = "check" /\ UNCHANGED <<disk, rewritten, now, clock, pc, forgotten>>
<1> DEFINE x == entry[Head(incoming)[1]]
<1>1. x \in Entry
  BY IncomingFacts, ConstantFacts DEF CheckOne
<1>2. pc = "check" /\ UNCHANGED <<disk, rewritten, now, clock, pc, forgotten>>
  BY DEF CheckOne
<1>3. passed' = [e \in Entry |-> IF e = x /\ buf' # buf /\ accepted' # accepted THEN now ELSE passed[e]]
  BY DEF CheckOne
<1>4. passed \in [Entry -> Time \cup {Never}]
  BY DEF Typed, CacheType
<1>5. ASSUME buf' = buf \/ accepted' = accepted PROVE UNCHANGED passed
  BY <1>3, <1>4, <1>5
<1>6. CASE UNCHANGED <<cache_dict, buf>>
  BY <1>1, <1>2, <1>5, <1>6
<1>7. CASE /\ cache_dict' = [cache_dict EXCEPT ![x] = now] /\ buf' = Append(buf, <<x, now>>)
           /\ ~present(x) \/ UNCHANGED accepted
  <2>1. UNCHANGED passed \/ passed' = [passed EXCEPT ![x] = now]
    BY <1>3, <1>4
  <2>2. UNCHANGED passed \/ (~present(x) /\ passed' = [passed EXCEPT ![x] = now])
    BY <1>5, <1>7, <2>1
  <2> QED BY <1>1, <1>2, <1>7, <2>2
<1>8. \/ UNCHANGED <<cache_dict, buf>>
      \/ /\ cache_dict' = [cache_dict EXCEPT ![x] = now] /\ buf' = Append(buf, <<x, now>>)
         /\ ~present(x) \/ UNCHANGED accepted
  BY DEF CheckOne
<1> QED BY <1>6, <1>7, <1>8

LEMMA CacheCheckOne == ASSUME Typed, Typed', CacheInv, CheckOne PROVE CacheInv'
<1>1. PICK x \in Entry :
             /\ x = entry[Head(incoming)[1]]
             /\ \/ UNCHANGED <<cache_dict, buf, passed>>
                \/ cache_dict' = [cache_dict EXCEPT ![x] = now] /\ buf' = Append(buf, <<x, now>>)
             /\ \/ UNCHANGED passed
                \/ ~present(x) /\ passed' = [passed EXCEPT ![x] = now]
             /\ pc = "check" /\ UNCHANGED <<disk, rewritten, now, clock, pc, forgotten>>
  BY CheckOneFacts
<1>2. /\ passed \in [Entry -> Time \cup {Never}] /\ cache_dict \in [Entry -> Time \cup {Never}]
      /\ buf \in Lines /\ now \in Time /\ now \in Int
  BY Numbers, NoDupeAssumption DEF Typed, CacheType, RestType, Time
<1>3. \A e \in Entry \ {x} : passed'[e] = passed[e] /\ (Due(e)' <=> Due(e))
  BY <1>1, <1>2 DEF Due, recent
<1>4. PassedBefore'
  <2>1. passed'[x] = now \/ passed'[x] = passed[x]
    BY <1>1, <1>2
  <2> QED BY <1>1, <1>2, <1>3, <2>1 DEF CacheInv, PassedBefore
<1>5. passed'[x] <= now
  BY <1>1, <1>4 DEF PassedBefore
<1>6. CASE UNCHANGED <<cache_dict, buf, passed>>
  <2>1. \A e \in Entry : Due(e)' <=> Due(e)
    BY <1>1, <1>6 DEF Due, recent
  <2> QED BY <1>1, <1>4, <1>6, <2>1 DEF CacheInv, InMemory, InFile, Flushed, DownClean, Rewriting
<1>7. CASE cache_dict' = [cache_dict EXCEPT ![x] = now] /\ buf' = Append(buf, <<x, now>>)
  <2>1. InMemory'
    <3> SUFFICES ASSUME NEW e \in Entry, Due(e)' PROVE cache_dict'[e] >= passed'[e]
      BY DEF InMemory
    <3>1. CASE e = x
      BY <1>2, <1>5, <1>7, <3>1
    <3>2. CASE e # x
      BY <1>1, <1>2, <1>3, <1>7, <3>2 DEF CacheInv, InMemory
    <3> QED BY <3>1, <3>2
  <2>2. InFile'
    <3> SUFFICES ASSUME NEW e \in Entry, Due(e)' PROVE HoldsAfter(disk, Append(buf, <<x, now>>), e, passed'[e])
      BY <1>1, <1>7 DEF InFile
    <3>1. IF x = e THEN now >= passed'[e] ELSE HoldsAfter(disk, buf, e, passed'[e])
      <4>1. CASE e = x
        BY <1>2, <1>5, <4>1
      <4>2. CASE e # x
        BY <1>1, <1>3, <4>2 DEF CacheInv, InFile
      <4> QED BY <4>1, <4>2
    <3> QED BY <1>2, <3>1, AppendKeeps
  <2> QED BY <1>1, <1>4, <2>1, <2>2 DEF CacheInv, Flushed, DownClean, Rewriting
<1> QED BY <1>1, <1>6, <1>7

LEMMA CacheAcceptEnd == ASSUME Typed, Typed', CacheInv, AcceptEnd PROVE CacheInv'
<1>1. /\ pc = "check" /\ pc' = "work" /\ disk' = Times(disk, buf) /\ buf' = <<>>
      /\ UNCHANGED <<cache_dict, now, clock, passed, forgotten>>
  BY DEF AcceptEnd, flush
<1>2. \A e \in Entry : Due(e)' => Due(e)
  BY <1>1 DEF Due, recent
<1>3. InFile'
  <2> SUFFICES ASSUME NEW e \in Entry, Due(e) PROVE HoldsAfter(Times(disk, buf), <<>>, e, passed[e])
    BY <1>1, <1>2 DEF InFile
  <2>1. HoldsAfter(disk, buf, e, passed[e])
    BY <1>1 DEF CacheInv, InFile
  <2> QED BY <2>1, FlushKeeps DEF Typed, CacheType
<1>4. InMemory' /\ PassedBefore'
  BY <1>1, <1>2 DEF CacheInv, InMemory, PassedBefore
<1> QED BY <1>1, <1>3, <1>4 DEF CacheInv, Flushed, DownClean, Rewriting

LEMMA CacheWork == ASSUME Typed, Typed', CacheInv, Work PROVE CacheInv'
<1>1. pc = "work" /\ pc' = "idle" /\ UNCHANGED <<cache_dict, disk, buf, rewritten, now, clock, passed, forgotten>>
  BY DEF Work, cache
<1>2. \A e \in Entry : Due(e)' => Due(e)
  BY <1>1 DEF Due, recent
<1> QED BY <1>1, <1>2 DEF CacheInv, InMemory, InFile, PassedBefore, Flushed, DownClean, Rewriting

LEMMA CacheUnlink == ASSUME Typed, Typed', CacheInv, SaveUnlink PROVE CacheInv'
<1>1. /\ pc \in {"idle", "stop"} /\ pc' \in {"save", "stopSave"} /\ buf' = <<>> /\ rewritten' = TRUE
      /\ UNCHANGED <<cache_dict, now, clock, passed, forgotten>>
  BY DEF SaveUnlink, history
<1>2. \A e \in Entry : Due(e)' => Due(e)
  BY <1>1 DEF Due, recent
<1> QED BY <1>1, <1>2 DEF CacheInv, InMemory, InFile, PassedBefore, Flushed, DownClean, Rewriting

(* Housekeeping keeps what is not expired, and that is more than what is due. *)
LEMMA DueIsKept ==
    ASSUME Typed, NEW e \in Entry, NEW t \in Int, pc # "check", Due(e), t >= passed[e] PROVE kept(t)
<1>1. recent(e)
  BY DEF Due
<1> QED BY <1>1, Numbers DEF recent, kept

LEMMA CacheClean == ASSUME Typed, Typed', CacheInv, SaveClean PROVE CacheInv'
<1>1. PICK S \in SUBSET Entry : S = {f \in Entry : kept(cache_dict[f])}
  OBVIOUS
<1>2. /\ pc \in {"save", "stopSave"} /\ pc' \in {"idle", "close"}
      /\ UNCHANGED <<disk, rewritten, now, clock, passed, forgotten>>
      /\ cache_dict' = [e \in Entry |-> IF kept(cache_dict[e]) THEN cache_dict[e] ELSE Never]
      /\ buf' = SetToSeq({<<e, cache_dict[e]>> : e \in S})
  BY <1>1 DEF SaveClean, history
<1>3. \A e \in Entry : Due(e)' => Due(e)
  BY <1>2 DEF Due, recent
<1>4. ASSUME NEW e \in Entry, Due(e) PROVE cache_dict[e] >= passed[e] /\ e \in S
  <2>1. cache_dict[e] >= passed[e]
    BY <1>2, <1>4 DEF CacheInv, InMemory
  <2> QED BY <1>1, <1>2, <1>4, <2>1, DueIsKept, Numbers
<1>5. \A e \in S : cache_dict[e] \in Time
  BY <1>1, KeptIsTime, Numbers DEF Typed, RestType
<1>6. InMemory'
  BY <1>1, <1>2, <1>3, <1>4 DEF InMemory
<1>7. InFile'
  <2> SUFFICES ASSUME NEW e \in Entry, Due(e) PROVE HoldsAfter(disk, SetToSeq({<<f, cache_dict[f]>> : f \in S}), e, passed[e])
    BY <1>2, <1>3 DEF InFile
  <2>1. e \in S /\ cache_dict[e] >= passed[e]
    BY <1>4
  <2>2. cache_dict \in [Entry -> Time \cup {Never}]
    BY DEF Typed, CacheType
  <2> QED BY <1>5, <2>1, <2>2, CleanKeeps
<1>8. rewritten
  BY <1>2 DEF CacheInv, Rewriting
<1> QED BY <1>2, <1>6, <1>7, <1>8 DEF CacheInv, PassedBefore, Flushed, DownClean, Rewriting

LEMMA CacheClose == ASSUME Typed, Typed', CacheInv, Close PROVE CacheInv'
<1>1. /\ pc = "close" /\ pc' = "down" /\ disk' = Times(disk, buf) /\ buf' = <<>> /\ rewritten' = FALSE
      /\ UNCHANGED <<now, clock, passed, forgotten>>
  BY DEF Close, flush, history
<1>2. \A e \in Entry : Due(e)' => Due(e)
  BY <1>1 DEF Due, recent
<1>3. InFile'
  <2> SUFFICES ASSUME NEW e \in Entry, Due(e) PROVE HoldsAfter(Times(disk, buf), <<>>, e, passed[e])
    BY <1>1, <1>2 DEF InFile
  <2>1. HoldsAfter(disk, buf, e, passed[e])
    BY <1>1 DEF CacheInv, InFile
  <2> QED BY <2>1, FlushKeeps DEF Typed, CacheType
<1> QED BY <1>1, <1>3 DEF CacheInv, InMemory, PassedBefore, Flushed, DownClean, Rewriting

LEMMA CacheKill == ASSUME Typed, Typed', CacheInv, Kill PROVE CacheInv'
<1>1. /\ pc' = "down" /\ buf' = <<>> /\ rewritten' = FALSE /\ UNCHANGED <<disk, now, clock, passed>>
      /\ forgotten' = forgotten \cup {e \in Entry : recent(e) /\ disk[e] < passed[e]}
  BY DEF Kill
<1>2. InFile'
  <2> SUFFICES ASSUME NEW e \in Entry, Due(e)' PROVE HoldsAfter(disk, <<>>, e, passed[e])
    BY <1>1 DEF InFile
  <2>1. e \notin forgotten' /\ recent(e)
    BY <1>1 DEF Due, recent
  <2>2. ~ (disk[e] < passed[e])
    BY <1>1, <2>1
  <2>3. disk[e] >= passed[e]
    BY <2>2, Numbers
  <2> QED BY <2>3 DEF HoldsAfter, Own
<1> QED BY <1>1, <1>2 DEF CacheInv, InMemory, PassedBefore, Flushed, DownClean, Rewriting

LEMMA CacheRestart == ASSUME Typed, Typed', CacheInv, Restart PROVE CacheInv'
<1>1. /\ pc = "down" /\ pc' = "idle" /\ UNCHANGED <<disk, buf, rewritten, now, clock, passed, forgotten>>
      /\ cache_dict' = [e \in Entry |-> IF kept(disk[e]) THEN disk[e] ELSE Never]
  BY DEF Restart, history
<1>2. \A e \in Entry : Due(e)' => Due(e)
  BY <1>1 DEF Due, recent
<1>3. buf = <<>>
  BY <1>1 DEF CacheInv, Flushed, DownClean
<1>4. InMemory'
  <2> SUFFICES ASSUME NEW e \in Entry, Due(e) PROVE cache_dict'[e] >= passed[e]
    BY <1>1, <1>2 DEF InMemory
  <2>1. HoldsAfter(disk, <<>>, e, passed[e])
    BY <1>1, <1>3 DEF CacheInv, InFile
  <2>2. disk[e] >= passed[e]
    BY <2>1 DEF HoldsAfter, Own
  <2>3. kept(disk[e])
    BY <1>1, <2>2, DueIsKept, Numbers
  <2> QED BY <1>1, <2>2, <2>3
<1> QED BY <1>1, <1>2, <1>3, <1>4 DEF CacheInv, InFile, PassedBefore, Flushed, DownClean, Rewriting

LEMMA CacheInit == ASSUME RedisInit PROVE CacheInv
<1>1. /\ passed = nothing /\ now = 0 /\ clock = 0 /\ pc = "idle" /\ buf = <<>> /\ rewritten = FALSE /\ forgotten = {}
  BY DEF RedisInit, Init
<1>2. \A e \in Entry : passed[e] = Never
  BY <1>1 DEF nothing
<1>3. Never <= 0 /\ ~ (0 - Never <= nodupe_ttl)
  BY ConstantFacts
<1>4. \A e \in Entry : ~Due(e)
  BY <1>1, <1>2, <1>3 DEF Due, recent
<1>5. PassedBefore
  BY <1>1, <1>2, <1>3 DEF PassedBefore
<1> QED BY <1>1, <1>4, <1>5 DEF CacheInv, InMemory, InFile, Flushed, DownClean, Rewriting

LEMMA CacheStep == ASSUME Typed, Typed', CacheInv, [SuppressionNext]_allVars PROVE CacheInv'
<1>1. CASE Next
  <2>1. CASE Tick
    <3>1. clock' = clock + 1 /\ UNCHANGED <<cache, now, passed, forgotten, pc>>
      BY <2>1 DEF Tick, history
    <3>2. clock' >= clock
      BY <3>1, Numbers
    <3> QED BY <3>1, <3>2, CacheSame
  <2>2. CASE Stop
    <3>1. UNCHANGED <<cache, now, passed, forgotten, clock>> /\ pc = "idle" /\ pc' = "stop"
      BY <2>2 DEF Stop, history
    <3>2. clock' >= clock
      BY <3>1, Numbers
    <3> QED BY <3>1, <3>2, CacheSame
  <2> QED BY <1>1, <2>1, <2>2, CacheGather, CacheSpill, CacheCheckOne, CacheAcceptEnd, CacheWork, CacheUnlink,
             CacheClean, CacheClose, CacheKill, CacheRestart DEF Next
<1>2. CASE RNext
  <2>1. UNCHANGED untouched
    BY <1>2 DEF RNext, RTick, RGather, RPassBy, RGet, RSet, RWork, RKill
  <2>2. clock' = clock + 1 \/ clock' = clock
    BY <1>2 DEF RNext, RTick, RGather, RPassBy, RGet, RSet, RWork, RKill
  <2>3. clock' >= clock
    BY <2>2, Numbers
  <2> QED BY <2>1, <2>3, CacheSame DEF untouched
<1>3. CASE UNCHANGED allVars
  <2>1. UNCHANGED <<cache, now, passed, forgotten, clock, pc>>
    BY <1>3 DEF allVars, vars, history
  <2>2. clock' >= clock
    BY <2>1, Numbers
  <2> QED BY <2>1, <2>2, CacheSame
<1> QED BY <1>1, <1>2, <1>3 DEF SuppressionNext

(* The theorem of the run: what the flow works on, the file has. *)
THEOREM FileKnows == SuppressionSpec => []DurableBeforeWork
<1>1. RedisInit => Typed /\ RedisType /\ CacheInv
  BY TypeInit, CacheInit
<1>2. (Typed /\ RedisType /\ CacheInv) /\ [SuppressionNext]_allVars => (Typed /\ RedisType /\ CacheInv)'
  BY TypeStep, CacheStep
<1>3. Typed /\ RedisType /\ CacheInv => DurableBeforeWork
  <2> SUFFICES ASSUME Typed, CacheInv, pc \in {"work", "idle", "down"}, ~rewritten,
                      NEW e \in Entry, recent(e), e \notin forgotten
               PROVE disk[e] >= passed[e]
    BY DEF DurableBeforeWork
  <2>1. buf = <<>>
    BY DEF CacheInv, Flushed
  <2>2. HoldsAfter(disk, <<>>, e, passed[e])
    BY <2>1 DEF CacheInv, InFile, Due
  <2> QED BY <2>2 DEF HoldsAfter, Own
<1> QED BY <1>1, <1>2, <1>3, PTL DEF SuppressionSpec

(* No file is let through twice within nodupe_ttl, but after a kill took its entry: whatever
   flushes, housekeepings, stops and starts there are in between. *)
THEOREM OnceWithinTtl == SuppressionSpec => SuppressedWithinTtl
<1> DEFINE Good == \A e \in Entry : passed'[e] # passed[e] /\ e \notin forgotten => now - passed[e] > nodupe_ttl
<1>1. RedisInit => Typed /\ RedisType /\ CacheInv
  BY TypeInit, CacheInit
<1>2. (Typed /\ RedisType /\ CacheInv) /\ [SuppressionNext]_allVars => (Typed /\ RedisType /\ CacheInv)'
  BY TypeStep, CacheStep
<1>3. ASSUME Typed, CacheInv, [SuppressionNext]_allVars PROVE Good
  <2>1. CASE CheckOne
    <3> SUFFICES ASSUME NEW e \in Entry, passed'[e] # passed[e], e \notin forgotten
                 PROVE now - passed[e] > nodupe_ttl
      OBVIOUS
    <3>1. pc = "check" /\ ~present(e)
      <4>1. PICK x \in Entry :
              pc = "check" /\ (UNCHANGED passed \/ (~present(x) /\ passed' = [passed EXCEPT ![x] = now]))
        BY <1>3, <2>1, CheckOneFacts
      <4> QED BY <1>3, <4>1 DEF Typed, CacheType
    <3>2. cache_dict[e] + nodupe_ttl < now
      BY <1>3, <3>1, Numbers DEF present
    <3>3. CASE Due(e)
      <4>1. cache_dict[e] >= passed[e]
        BY <1>3, <3>1, <3>3 DEF CacheInv, InMemory
      <4> QED BY <1>3, <3>2, <4>1, Numbers
    <3>4. CASE ~Due(e)
      <4>1. ~ (now - passed[e] <= nodupe_ttl)
        BY <3>1, <3>4 DEF Due
      <4> QED BY <1>3, <4>1, Numbers
    <3> QED BY <3>3, <3>4
  <2>2. CASE ~CheckOne
    <3>1. UNCHANGED passed
      <4>1. CASE Next
        BY <2>2, <4>1 DEF Next, Tick, Spill, Gather, AcceptEnd, Work, SaveUnlink, SaveClean, Stop, Close,
                         Kill, Restart, history
      <4>2. CASE RNext
        BY <4>2 DEF RNext, RTick, RGather, RPassBy, RGet, RSet, RWork, RKill, untouched
      <4>3. CASE UNCHANGED allVars
        BY <4>3 DEF allVars, vars, history
      <4> QED BY <1>3, <4>1, <4>2, <4>3 DEF SuppressionNext
    <3> QED BY <3>1
  <2> QED BY <2>1, <2>2
<1>4. (Typed /\ RedisType /\ CacheInv) /\ [SuppressionNext]_allVars => [Good]_vars
  BY <1>3
<1> QED BY <1>1, <1>2, <1>4, PTL DEF SuppressionSpec, SuppressedWithinTtl

-----------------------------------------------------------------------------
(* What the instances hold. *)

HeldApart ==
    \A i, j \in Instance : i # j /\ at[i] # "idle" /\ at[j] # "idle" => Ours(i) # Ours(j)
HeldRight ==
    \A i \in Instance : at[i] # "idle" => /\ Ours(i) \in accepted /\ Ours(i) \notin retry
                                          /\ broker[Ours(i)] # "ready"
HandsInv ==
    /\ driver = "disk" => \A i \in Instance : at[i] = "idle"
    /\ HeldApart /\ HeldRight
    /\ driver = "redis" => \A m \in retry : broker[m] = "acked"
    /\ \A i \in Instance : at[i] = "set" => ~hand[i][2]

(* An instance takes a message that no other one holds, ... *)
LEMMA HandsTake ==
    ASSUME Typed, RedisType, HandsInv, NEW i \in Instance, NEW m \in Message, NEW b \in BOOLEAN,
           at[i] = "idle", To(i, "get"), Hold(i, m, b), driver = "redis", UNCHANGED driver,
           \/ broker[m] = "ready" /\ broker' = [broker EXCEPT ![m] = "unacked"] /\ UNCHANGED retry
           \/ m \in retry /\ retry' = retry \ {m} /\ UNCHANGED broker
    PROVE  HandsInv'
<1>1. at'[i] = "get" /\ \A j \in Instance \ {i} : at'[j] = at[j]
  BY DEF RedisType, To
<1>2. hand'[i] = <<m, b>> /\ Ours(i)' = m /\ \A j \in Instance \ {i} : hand'[j] = hand[j] /\ Ours(j)' = Ours(j)
  BY DEF RedisType, Hold, Ours
<1>3. accepted' = accepted \cup {m}
  BY DEF Hold
<1>4. \A j \in Instance \ {i} : at[j] # "idle" => Ours(j) # m
  BY DEF HandsInv, HeldRight
<1>5. broker \in [Message -> {"ready", "unacked", "acked"}]
  BY DEF Typed, QueueType
<1>6. HeldApart'
  BY <1>1, <1>2, <1>4 DEF HandsInv, HeldApart
<1>7. m \notin retry' /\ broker'[m] # "ready" /\ retry' \subseteq retry /\ \A n \in Message \ {m} : broker'[n] = broker[n]
  BY <1>5 DEF HandsInv
<1>8. HeldRight'
  <2> SUFFICES ASSUME NEW j \in Instance, at'[j] # "idle"
               PROVE Ours(j)' \in accepted' /\ Ours(j)' \notin retry' /\ broker'[Ours(j)'] # "ready"
    BY DEF HeldRight
  <2>1. CASE j = i
    BY <1>2, <1>3, <1>7, <2>1
  <2>2. CASE j # i
    <3>1. Ours(j) \in Message \ {m} /\ Ours(j) \in accepted /\ Ours(j) \notin retry /\ broker[Ours(j)] # "ready"
      BY <1>1, <1>4, <2>2, OursFacts DEF HandsInv, HeldRight
    <3> QED BY <1>2, <1>3, <1>7, <2>2, <3>1
  <2> QED BY <2>1, <2>2
<1>9. \A n \in retry' : broker'[n] = "acked"
  <2>1. \A n \in retry : broker[n] = "acked"
    BY DEF HandsInv
  <2>2. retry \subseteq Message
    BY DEF Typed, SetsType
  <2> QED BY <1>7, <2>1, <2>2
<1>10. \A j \in Instance : at'[j] = "set" => ~hand'[j][2]
  BY <1>1, <1>2 DEF HandsInv
<1> QED BY <1>6, <1>8, <1>9, <1>10 DEF HandsInv

(* ... goes on with it, ... *)
LEMMA HandsMove ==
    ASSUME Typed, RedisType, HandsInv, NEW i \in Instance, NEW w \in {"set", "work"},
           at[i] # "idle", To(i, w), w = "set" => ~hand[i][2], UNCHANGED <<driver, hand, accepted, retry, broker>>
    PROVE  HandsInv'
<1>1. at'[i] = w /\ \A j \in Instance \ {i} : at'[j] = at[j]
  BY DEF RedisType, To
<1>2. \A j \in Instance : Ours(j)' = Ours(j) /\ (at'[j] # "idle" <=> at[j] # "idle")
  BY <1>1 DEF Ours
<1>3. HeldApart'
  BY <1>2 DEF HandsInv, HeldApart
<1>4. HeldRight'
  BY <1>2 DEF HandsInv, HeldRight
<1>5. \A j \in Instance : at'[j] = "set" => ~hand'[j][2]
  BY <1>1 DEF HandsInv
<1>6. driver' = "disk" => \A j \in Instance : at'[j] = "idle"
  BY <1>2 DEF HandsInv
<1> QED BY <1>3, <1>4, <1>5, <1>6 DEF HandsInv

(* ... and lets go of it, to its retry queue or for good. *)
LEMMA HandsRelease ==
    ASSUME Typed, RedisType, HandsInv, NEW i \in Instance, at[i] # "idle", To(i, "idle"), Release(i),
           driver = "redis", UNCHANGED driver,
           \A m \in Message \ {Ours(i)} : broker'[m] = broker[m],
           retry' = retry \/ (retry' = retry \cup {Ours(i)} /\ broker'[Ours(i)] = "acked")
    PROVE  HandsInv'
<1>1. at'[i] = "idle" /\ \A j \in Instance \ {i} : at'[j] = at[j]
  BY DEF RedisType, To
<1>2. \A j \in Instance \ {i} : hand'[j] = hand[j] /\ Ours(j)' = Ours(j)
  BY DEF RedisType, Release, Ours
<1>3. accepted' = accepted \ {Ours(i)}
  BY DEF Release
<1>4. HeldApart'
  BY <1>1, <1>2 DEF HandsInv, HeldApart
<1>5. HeldRight'
  <2> SUFFICES ASSUME NEW j \in Instance, at'[j] # "idle"
               PROVE Ours(j)' \in accepted' /\ Ours(j)' \notin retry' /\ broker'[Ours(j)'] # "ready"
    BY DEF HeldRight
  <2>1. j # i /\ at[j] # "idle" /\ Ours(j)' = Ours(j)
    BY <1>1, <1>2
  <2>2. Ours(j) # Ours(i) /\ Ours(j) \in accepted /\ Ours(j) \notin retry /\ broker[Ours(j)] # "ready"
    BY <2>1 DEF HandsInv, HeldApart, HeldRight
  <2>3. Ours(j) \in Message
    BY <2>1, OursFacts
  <2> QED BY <1>3, <2>1, <2>2, <2>3
<1>6. \A n \in retry' : broker'[n] = "acked"
  <2> SUFFICES ASSUME NEW n \in retry' PROVE broker'[n] = "acked"
    OBVIOUS
  <2>1. \A m \in retry : broker[m] = "acked" /\ m \in Message /\ m # Ours(i)
    BY DEF HandsInv, HeldRight, Typed, SetsType
  <2> QED BY <2>1
<1>7. \A j \in Instance : at'[j] = "set" => ~hand'[j][2]
  BY <1>1, <1>2 DEF HandsInv
<1> QED BY <1>4, <1>5, <1>6, <1>7 DEF HandsInv

LEMMA AcknowledgeFacts ==
    ASSUME Typed, RedisType, HandsInv, NEW i \in Instance, at[i] # "idle"
    PROVE  /\ \A m \in Message \ {Ours(i)} : Acknowledge(i)[m] = broker[m]
           /\ Acknowledge(i)[Ours(i)] = "acked"
<1>1. Ours(i) \in Message /\ broker[Ours(i)] # "ready"
  BY OursFacts DEF HandsInv, HeldRight
<1>2. broker[Ours(i)] \in {"ready", "unacked", "acked"}
  BY <1>1 DEF Typed, QueueType
<1> QED BY <1>1, <1>2 DEF Acknowledge

LEMMA HandsStep ==
    ASSUME Typed, RedisType, HandsInv, [SuppressionNext]_allVars PROVE HandsInv'
<1>1. CASE driver = "disk" /\ Next /\ UNCHANGED <<driver, redisVars>>
  <2>1. UNCHANGED <<driver, at, hand>> /\ \A i \in Instance : at[i] = "idle"
    BY <1>1 DEF redisVars, HandsInv
  <2> QED BY <1>1, <2>1 DEF HandsInv, HeldApart, HeldRight
<1>2. CASE UNCHANGED allVars
  BY <1>2 DEF allVars, vars, lists, redisVars, HandsInv, HeldApart, HeldRight, Ours
<1>3. CASE driver = "redis" /\ RNext /\ UNCHANGED driver
  <2> USE <1>3
  <2>1. CASE RTick
    BY <2>1 DEF RTick, redisVars, HandsInv, HeldApart, HeldRight, Ours
  <2>2. ASSUME NEW i \in Instance, RGather(i) PROVE HandsInv'
    <3>1. at[i] = "idle" /\ To(i, "get")
      BY <2>2 DEF RGather
    <3>2. CASE \E m \in Message : broker[m] = "ready" /\ broker' = [broker EXCEPT ![m] = "unacked"]
                                  /\ Hold(i, m, FALSE) /\ UNCHANGED retry
      BY <3>1, <3>2, HandsTake
    <3>3. CASE \E m \in retry : retry' = retry \ {m} /\ Hold(i, m, TRUE) /\ UNCHANGED broker
      <4>1. retry \subseteq Message
        BY DEF Typed, SetsType
      <4> QED BY <3>1, <3>3, <4>1, HandsTake
    <3> QED BY <2>2, <3>2, <3>3 DEF RGather
  <2>3. ASSUME NEW i \in Instance, RPassBy(i) PROVE HandsInv'
    <3>1. at[i] # "idle"
      BY <2>3 DEF RPassBy
    <3>2. CASE To(i, "idle") /\ Release(i) /\ broker' = Acknowledge(i) /\ (retry' = retry \/ retry' = retry \cup {Ours(i)})
      BY <3>1, <3>2, AcknowledgeFacts, HandsRelease
    <3>3. CASE To(i, "work") /\ UNCHANGED <<hand, accepted, retry, broker>>
      BY <3>1, <3>3, HandsMove
    <3> QED BY <2>3, <3>2, <3>3 DEF RPassBy
  <2>4. ASSUME NEW i \in Instance, RGet(i) PROVE HandsInv'
    <3>1. at[i] # "idle" /\ ~hand[i][2] /\ To(i, "set") /\ UNCHANGED <<hand, accepted, retry, broker>>
      BY <2>4 DEF RGet
    <3> QED BY <3>1, HandsMove
  <2>5. ASSUME NEW i \in Instance, RSet(i) PROVE HandsInv'
    <3>1. at[i] # "idle" /\ UNCHANGED retry
      BY <2>5 DEF RSet
    <3>2. CASE To(i, "idle") /\ Release(i) /\ broker' = Acknowledge(i)
      BY <3>1, <3>2, AcknowledgeFacts, HandsRelease
    <3>3. CASE To(i, "work") /\ UNCHANGED <<hand, accepted, broker>>
      BY <3>1, <3>3, HandsMove
    <3> QED BY <2>5, <3>2, <3>3 DEF RSet
  <2>6. ASSUME NEW i \in Instance, RWork(i) PROVE HandsInv'
    <3>1. at[i] # "idle" /\ To(i, "idle") /\ Release(i) /\ broker' = Acknowledge(i)
      BY <2>6 DEF RWork
    <3>2. retry' = retry \/ retry' = retry \cup {Ours(i)}
      BY <2>6 DEF RWork
    <3> QED BY <3>1, <3>2, AcknowledgeFacts, HandsRelease
  <2>7. ASSUME NEW i \in Instance, RKill(i) PROVE HandsInv'
    <3>1. at[i] # "idle" /\ To(i, "idle") /\ Release(i) /\ UNCHANGED retry
      BY <2>7 DEF RKill
    <3>2. \A m \in Message \ {Ours(i)} : broker'[m] = broker[m]
      BY <2>7 DEF RKill, Typed, QueueType
    <3> QED BY <3>1, <3>2, HandsRelease
  <2> QED BY <2>1, <2>2, <2>3, <2>4, <2>5, <2>6, <2>7 DEF RNext
<1> QED BY <1>1, <1>2, <1>3 DEF SuppressionNext

LEMMA HandsInit == ASSUME RedisInit PROVE HandsInv
<1>1. retry = {} /\ \A i \in Instance : at[i] = "idle"
  BY DEF RedisInit, Init
<1> QED BY <1>1 DEF HandsInv, HeldApart, HeldRight

-----------------------------------------------------------------------------
(* The cache in Redis. *)

(* Instances that look up an entry together are known to, and the others have found out
   how long ago it was looked up. *)
RaceInv ==
    /\ \A i, j \in Instance : i # j /\ at[i] = "set" /\ at[j] = "set" /\ EntryOf(i) = EntryOf(j)
                                => EntryOf(i) \in raced
    /\ \A i \in Instance : at[i] = "set" /\ ~got[i] /\ EntryOf(i) \notin raced
                                => clock - seen[EntryOf(i)] >= nodupe_ttl

LEMMA RaceKept ==
    ASSUME Typed, RedisType, RaceInv, clock' = clock + 1 \/ clock' = clock, UNCHANGED <<seen, raced, got>>,
           \A j \in Instance : at'[j] = "set" => at[j] = "set" /\ hand'[j] = hand[j]
    PROVE  RaceInv'
<1>1. \A j \in Instance : at'[j] = "set" => at[j] = "set" /\ EntryOf(j)' = EntryOf(j)
  BY DEF EntryOf, Ours
<1>2. \A i, j \in Instance : i # j /\ at'[i] = "set" /\ at'[j] = "set" /\ EntryOf(i)' = EntryOf(j)'
                                => EntryOf(i)' \in raced'
  BY <1>1 DEF RaceInv
<1>3. ASSUME NEW i \in Instance, at'[i] = "set", ~got'[i], EntryOf(i)' \notin raced'
      PROVE clock' - seen'[EntryOf(i)'] >= nodupe_ttl
  <2>1. at[i] = "set" /\ EntryOf(i)' = EntryOf(i)
    BY <1>1, <1>3
  <2>2. clock - seen[EntryOf(i)] >= nodupe_ttl
    BY <1>3, <2>1 DEF RaceInv
  <2>3. EntryOf(i) \in Entry
    BY <2>1, OursFacts
  <2>4. seen[EntryOf(i)] \in Int
    BY <2>3, NoDupeAssumption, ConstantFacts DEF RedisType, Time
  <2> QED BY <2>1, <2>2, <2>4, Numbers
<1> QED BY <1>2, <1>3 DEF RaceInv

LEMMA RaceStep ==
    ASSUME Typed, RedisType, RaceInv, [SuppressionNext]_allVars PROVE RaceInv'
<1>1. CASE driver = "disk" /\ Next /\ UNCHANGED <<driver, redisVars>>
  <2>1. clock' = clock + 1 \/ clock' = clock
    BY <1>1 DEF Next, Tick, Spill, Gather, CheckOne, AcceptEnd, Work, SaveUnlink, SaveClean, Stop, Close, Kill, Restart
  <2> QED BY <1>1, <2>1, RaceKept DEF redisVars
<1>2. CASE UNCHANGED allVars
  <2>1. UNCHANGED <<clock, seen, raced, got, at, hand>>
    BY <1>2 DEF allVars, vars, redisVars
  <2> QED BY <2>1, RaceKept
<1>3. CASE driver = "redis" /\ RNext /\ UNCHANGED driver
  <2>1. CASE RTick
    <3>1. clock' = clock + 1 /\ UNCHANGED <<seen, raced, got, at, hand>>
      BY <2>1 DEF RTick, redisVars
    <3> QED BY <3>1, RaceKept
  <2>2. ASSUME NEW i \in Instance, RGather(i) \/ RPassBy(i) \/ RWork(i) \/ RKill(i) PROVE RaceInv'
    <3>1. UNCHANGED <<clock, seen, raced, got>>
      BY <2>2 DEF RGather, RPassBy, RWork, RKill
    <3>2. \E w \in {"get", "idle", "work"} : To(i, w)
      BY <2>2 DEF RGather, RPassBy, RWork, RKill
    <3>3. \A j \in Instance \ {i} : hand'[j] = hand[j]
      BY <2>2 DEF RGather, RPassBy, RWork, RKill, Hold, Release, RedisType
    <3>4. at'[i] # "set" /\ \A j \in Instance \ {i} : at'[j] = at[j]
      BY <3>2 DEF To, RedisType
    <3> QED BY <3>1, <3>3, <3>4, RaceKept
  <2>3. ASSUME NEW i \in Instance, RGet(i) PROVE RaceInv'
    <3>1. /\ at[i] = "get" /\ got' = [got EXCEPT ![i] = Live(EntryOf(i))]
          /\ raced' = IF \E j \in Instance \ {i} : at[j] = "set" /\ EntryOf(j) = EntryOf(i)
                      THEN raced \cup {EntryOf(i)} ELSE raced
          /\ UNCHANGED <<clock, seen, hand>>
      BY <2>3 DEF RGet
    <3>2. at'[i] = "set" /\ \A j \in Instance \ {i} : at'[j] = at[j]
      BY <2>3 DEF RGet, To, RedisType
    <3>3. \A j \in Instance : EntryOf(j)' = EntryOf(j)
      BY <3>1 DEF EntryOf, Ours
    <3>4. got'[i] = Live(EntryOf(i)) /\ \A j \in Instance \ {i} : got'[j] = got[j]
      BY <3>1 DEF RedisType
    <3>5. raced \subseteq raced'
      BY <3>1
    <3>6. ASSUME NEW j \in Instance, NEW k \in Instance, j # k, at'[j] = "set", at'[k] = "set", EntryOf(j) = EntryOf(k)
          PROVE EntryOf(j) \in raced'
      <4>1. CASE j # i /\ k # i
        BY <3>2, <3>5, <3>6, <4>1 DEF RaceInv
      <4>2. CASE j = i \/ k = i
        BY <3>1, <3>2, <3>6, <4>2
      <4> QED BY <4>1, <4>2
    <3>7. ASSUME NEW j \in Instance, at'[j] = "set", ~got'[j], EntryOf(j) \notin raced'
          PROVE clock - seen[EntryOf(j)] >= nodupe_ttl
      <4>1. CASE j # i
        BY <3>2, <3>4, <3>5, <3>7, <4>1 DEF RaceInv
      <4>2. CASE j = i
        <5>1. ~ (clock < store[EntryOf(i)] + nodupe_ttl)
          BY <3>4, <3>7, <4>2 DEF Live
        <5>2. store[EntryOf(i)] \in Int /\ seen = store
          BY <3>1, OursFacts, ConstantFacts, NoDupeAssumption DEF RedisType, Time
        <5> QED BY <4>2, <5>1, <5>2, Numbers
      <4> QED BY <4>1, <4>2
    <3> QED BY <3>1, <3>3, <3>6, <3>7 DEF RaceInv
  <2>4. ASSUME NEW i \in Instance, RSet(i) PROVE RaceInv'
    <3>1. at[i] = "set" /\ seen' = [seen EXCEPT ![EntryOf(i)] = clock] /\ UNCHANGED <<clock, got, raced>>
      BY <2>4 DEF RSet
    <3>2. at'[i] # "set" /\ \A j \in Instance \ {i} : at'[j] = at[j] /\ hand'[j] = hand[j]
      BY <2>4 DEF RSet, To, Release, RedisType
    <3>3. \A j \in Instance \ {i} : EntryOf(j)' = EntryOf(j)
      BY <3>2 DEF EntryOf, Ours
    <3>4. \A j, k \in Instance : j # k /\ at'[j] = "set" /\ at'[k] = "set" /\ EntryOf(j)' = EntryOf(k)'
                                   => EntryOf(j)' \in raced'
      BY <3>1, <3>2, <3>3 DEF RaceInv
    <3>5. ASSUME NEW j \in Instance, at'[j] = "set", ~got'[j], EntryOf(j)' \notin raced'
          PROVE clock' - seen'[EntryOf(j)'] >= nodupe_ttl
      <4>1. j # i /\ at[j] = "set" /\ EntryOf(j)' = EntryOf(j)
        BY <3>2, <3>3, <3>5
      <4>2. EntryOf(j) # EntryOf(i)
        BY <3>1, <3>5, <4>1 DEF RaceInv
      <4>3. seen'[EntryOf(j)] = seen[EntryOf(j)]
        BY <3>1, <4>1, <4>2, OursFacts DEF RedisType
      <4> QED BY <3>1, <3>5, <4>1, <4>3 DEF RaceInv
    <3> QED BY <3>4, <3>5 DEF RaceInv
  <2> QED BY <1>3, <2>1, <2>2, <2>3, <2>4 DEF RNext
<1> QED BY <1>1, <1>2, <1>3 DEF SuppressionNext

(* Of files that keep coming within nodupe_ttl of one another the instances let one
   through, if they do not look up the entry together. *)
THEOREM OnceForAll == SuppressionSpec => OnceWhileItKeepsComing
<1> DEFINE Good == \A i \in Instance : at[i] = "set" /\ at'[i] = "work" /\ EntryOf(i) \notin raced
                                         => clock - seen[EntryOf(i)] >= nodupe_ttl
<1>1. RedisInit => Typed /\ RedisType /\ RaceInv
  <2>1. ASSUME RedisInit PROVE RaceInv
    BY <2>1 DEF RedisInit, RaceInv
  <2> QED BY <2>1, TypeInit
<1>2. (Typed /\ RedisType /\ RaceInv) /\ [SuppressionNext]_allVars => (Typed /\ RedisType /\ RaceInv)'
  BY TypeStep, RaceStep
<1>3. ASSUME RedisType, RaceInv, [SuppressionNext]_allVars PROVE Good
  <2> SUFFICES ASSUME NEW i \in Instance, at[i] = "set", at'[i] = "work", EntryOf(i) \notin raced
               PROVE clock - seen[EntryOf(i)] >= nodupe_ttl
    OBVIOUS
  <2>1. at' # at
    OBVIOUS
  <2>2. RNext
    BY <1>3, <2>1 DEF SuppressionNext, allVars, redisVars
  <2>3. PICK j \in Instance : RGather(j) \/ RPassBy(j) \/ RGet(j) \/ RSet(j) \/ RWork(j) \/ RKill(j)
    BY <2>1, <2>2 DEF RNext, RTick, redisVars
  <2>4. \E w : To(j, w)
    BY <2>3 DEF RGather, RPassBy, RGet, RSet, RWork, RKill
  <2>5. j = i
    BY <1>3, <2>4 DEF To, RedisType
  <2>6. RSet(i)
    BY <1>3, <2>3, <2>5 DEF RGather, RPassBy, RGet, RWork, RKill, To, RedisType
  <2>7. ~got[i]
    BY <1>3, <2>6 DEF RSet, To, RedisType
  <2> QED BY <1>3, <2>7 DEF RaceInv
<1>4. (Typed /\ RedisType /\ RaceInv) /\ [SuppressionNext]_allVars => [Good]_allVars
  BY <1>3
<1> QED BY <1>1, <1>2, <1>4, PTL DEF SuppressionSpec, OnceWhileItKeepsComing

-----------------------------------------------------------------------------
(* What stands for a file that is in the cache: a message for it that was worked on or
   given up, or that comes to that without another look-up, or that a kill took away. *)

Looked(i) == at[i] = "work" \/ (at[i] # "idle" /\ hand[i][2])

Stands(m) ==
    \/ m \in done \cup tooOld \cup failed \cup retry \cup cut
    \/ <<m, TRUE>> \in Range(incoming)
    \/ driver = "disk" /\ m \in accepted
    \/ \E i \in Instance : Looked(i) /\ Ours(i) = m

Covered(e) == \E m \in Message : Stands(m) /\ entry[m] = e

(* The entries that are known somewhere. *)
Known(e) == cache_dict[e] # Never \/ disk[e] # Never \/ Own(buf, e) # {} \/ store[e] # Never

CoveredInv ==
    /\ incoming # <<>> => pc = "check"
    /\ \A e \in Entry : Known(e) => Covered(e)
    /\ \A m \in dropped : Covered(entry[m])
    /\ \A m \in rejected \ tooOld : Covered(entry[m])
    /\ \A i \in Instance : at[i] = "set" /\ got[i] => Covered(EntryOf(i))

LEMMA EmptyLines == \A e : Own(<<>>, e) = {}
  BY DEF Own

(* A message that stands for its file goes on to do so, with the cache in a file, ... *)
LEMMA StandsInDisk ==
    ASSUME Typed, driver = "disk", Next, UNCHANGED <<driver, redisVars>>, incoming # <<>> => pc = "check",
           NEW m \in Message, Stands(m)
    PROVE  Stands(m)'
<1>1. UNCHANGED <<driver, at, hand>>
  BY DEF redisVars
<1>2. CASE \E i \in Instance : Looked(i) /\ Ours(i) = m
  BY <1>1, <1>2 DEF Stands, Looked, Ours
<1>3. CASE m \in done \cup tooOld \cup failed \cup retry \cup cut \/ m \in accepted \/ <<m, TRUE>> \in Range(incoming)
  <2>1. CASE Gather
    <3>1. PICK S \in SUBSET {n \in Message : broker[n] = "ready"}, R \in SUBSET retry :
            /\ incoming' = SetToSeq(S \X {FALSE}) \o SetToSeq(R \X {TRUE})
            /\ retry' = retry \ R
      BY <2>1 DEF Gather
    <3>2. pc = "idle" /\ UNCHANGED <<done, tooOld, failed, cut, accepted>>
      BY <2>1 DEF Gather, history
    <3>3. incoming = <<>> /\ Range(incoming) = {}
      BY <3>2 DEF Range
    <3>4. CASE m \in R
      <4>1. SetToSeq(S \X {FALSE}) \in Gathered /\ SetToSeq(R \X {TRUE}) \in Gathered /\ Range(SetToSeq(R \X {TRUE})) = R \X {TRUE}
        BY PassLists DEF Typed, SetsType
      <4>2. Range(SetToSeq(S \X {FALSE}) \o SetToSeq(R \X {TRUE}))
              = Range(SetToSeq(S \X {FALSE})) \cup Range(SetToSeq(R \X {TRUE}))
        BY <4>1, JoinFacts DEF Gathered
      <4>3. <<m, TRUE>> \in Range(incoming')
        BY <3>1, <3>4, <4>1, <4>2
      <4> QED BY <4>3 DEF Stands
    <3>5. CASE m \notin R
      BY <1>1, <1>3, <3>1, <3>2, <3>3, <3>5 DEF Stands
    <3> QED BY <3>4, <3>5
  <2>2. CASE CheckOne
    <3>1. /\ incoming # <<>> /\ incoming' = Tail(incoming) /\ Range(incoming) = {Head(incoming)} \cup Range(Tail(incoming))
          /\ UNCHANGED <<retry, done, cut>>
      BY <2>2, RangeFacts DEF CheckOne, Typed, QueueType, Gathered
    <3>2. accepted \subseteq accepted' /\ failed \subseteq failed' /\ tooOld \subseteq tooOld'
      BY <2>2 DEF CheckOne
    <3>3. CASE Head(incoming) = <<m, TRUE>>
      <4>1. Head(incoming)[1] = m /\ isRetry(Head(incoming))
        <5>1. <<m, TRUE>>[1] = m
          OBVIOUS
        <5>2. isRetry(<<m, TRUE>>)
          BY DEF isRetry
        <5> QED BY <3>3, <5>1, <5>2, Zenon
      <4>2. m \in tooOld' \/ m \in failed' \/ m \in accepted'
        BY <2>2, <4>1 DEF CheckOne
      <4> QED BY <1>1, <4>2 DEF Stands
    <3>4. CASE Head(incoming) # <<m, TRUE>>
      BY <1>1, <1>3, <3>1, <3>2, <3>4 DEF Stands
    <3> QED BY <3>3, <3>4
  <2>3. CASE AcceptEnd
    BY <1>1, <1>3, <2>3 DEF AcceptEnd, Stands
  <2>4. CASE Work
    BY <1>1, <1>3, <2>4 DEF Work, Stands
  <2>5. CASE Kill
    <3>1. ASSUME <<m, TRUE>> \in Range(incoming) PROVE m \in {incoming[i][1] : i \in 1 .. Len(incoming)}
      <4>1. Range(incoming) = {incoming[i] : i \in 1 .. Len(incoming)}
        BY RangeEquality DEF Typed, QueueType, Gathered
      <4>2. PICK i \in 1 .. Len(incoming) : incoming[i] = <<m, TRUE>>
        BY <3>1, <4>1
      <4> QED BY <4>2
    <3>2. /\ cut' = cut \cup accepted \cup rejected \cup failed \cup {incoming[i][1] : i \in 1 .. Len(incoming)}
          /\ UNCHANGED <<retry, done, tooOld>>
      BY <2>5 DEF Kill
    <3> QED BY <1>3, <3>1, <3>2 DEF Stands
  <2>6. CASE Tick \/ Spill \/ SaveUnlink \/ SaveClean \/ Stop \/ Close \/ Restart
    <3>1. UNCHANGED <<incoming, accepted, failed, retry, done, tooOld, cut>>
      BY <2>6 DEF Tick, Spill, SaveUnlink, SaveClean, Stop, Close, Restart, lists, history
    <3> QED BY <1>1, <1>3, <3>1 DEF Stands
  <2> QED BY <2>1, <2>2, <2>3, <2>4, <2>5, <2>6 DEF Next
<1> QED BY <1>2, <1>3 DEF Stands

(* ... and with the cache in Redis. *)
LEMMA StandsInRedis ==
    ASSUME Typed, RedisType, HandsInv, driver = "redis", RNext, UNCHANGED driver, NEW m \in Message, Stands(m)
    PROVE  Stands(m)'
<1>1. UNCHANGED <<failed, incoming>>
  BY DEF RNext, RTick, RGather, RPassBy, RGet, RSet, RWork, RKill, untouched
<1>2. CASE RTick
  BY <1>1, <1>2 DEF RTick, redisVars, Stands, Looked, Ours
<1>3. ASSUME NEW i \in Instance, RGather(i) \/ RPassBy(i) \/ RGet(i) \/ RSet(i) \/ RWork(i) \/ RKill(i)
      PROVE  Stands(m)'
  <2>1. done \subseteq done' /\ tooOld \subseteq tooOld' /\ cut \subseteq cut'
    BY <1>3 DEF RGather, RPassBy, RGet, RSet, RWork, RKill
  <2>2. \E w : To(i, w)
    BY <1>3 DEF RGather, RPassBy, RGet, RSet, RWork, RKill
  <2>3. \A j \in Instance \ {i} : at'[j] = at[j] /\ hand'[j] = hand[j]
    <3>1. \A j \in Instance \ {i} : hand'[j] = hand[j]
      BY <1>3 DEF RGather, RPassBy, RGet, RSet, RWork, RKill, Hold, Release, RedisType
    <3> QED BY <2>2, <3>1 DEF To, RedisType
  <2>4. CASE m \in done \cup tooOld \cup failed \cup cut \/ <<m, TRUE>> \in Range(incoming)
    BY <1>1, <2>1, <2>4 DEF Stands
  <2>5. CASE \E j \in Instance \ {i} : Looked(j) /\ Ours(j) = m
    BY <2>3, <2>5 DEF Stands, Looked, Ours
  <2>6. CASE m \in retry
    <3>1. CASE RGather(i)
      <4>1. CASE UNCHANGED retry
        BY <2>6, <4>1 DEF Stands
      <4>2. CASE \E n \in retry : retry' = retry \ {n} /\ Hold(i, n, TRUE)
        <5>1. PICK n \in retry : retry' = retry \ {n} /\ hand' = [hand EXCEPT ![i] = <<n, TRUE>>]
          BY <4>2 DEF Hold
        <5>2. at'[i] = "get" /\ hand'[i] = <<n, TRUE>>
          BY <3>1, <5>1 DEF RGather, To, RedisType
        <5>3. CASE m = n
          <6>1. Looked(i)' /\ Ours(i)' = m
            BY <5>2, <5>3 DEF Looked, Ours
          <6> QED BY <6>1 DEF Stands
        <5>4. CASE m # n
          BY <2>6, <5>1, <5>4 DEF Stands
        <5> QED BY <5>3, <5>4
      <4> QED BY <3>1, <4>1, <4>2 DEF RGather
    <3>2. CASE ~RGather(i)
      <4>1. retry \subseteq retry'
        BY <1>3, <3>2 DEF RPassBy, RGet, RSet, RWork, RKill
      <4> QED BY <2>6, <4>1 DEF Stands
    <3> QED BY <3>1, <3>2
  <2>7. CASE Looked(i) /\ Ours(i) = m
    <3>1. CASE RPassBy(i)
      <4>1. m \in tooOld' \/ m \in retry' \/ (To(i, "work") /\ UNCHANGED hand)
        BY <2>7, <3>1 DEF RPassBy
      <4>2. CASE To(i, "work") /\ UNCHANGED hand
        <5>1. Looked(i)' /\ Ours(i)' = m
          BY <2>7, <4>2 DEF To, RedisType, Looked, Ours
        <5> QED BY <5>1 DEF Stands
      <4> QED BY <4>1, <4>2 DEF Stands
    <3>2. CASE RWork(i)
      BY <2>7, <3>2 DEF RWork, Stands
    <3>3. CASE RKill(i)
      BY <2>7, <3>3 DEF RKill, Stands
    <3>4. ~RGather(i) /\ ~RGet(i) /\ ~RSet(i)
      BY <2>7 DEF RGather, RGet, RSet, Looked, HandsInv
    <3> QED BY <1>3, <3>1, <3>2, <3>3, <3>4
  <2>8. ~ (driver = "disk")
    OBVIOUS
  <2> QED BY <2>4, <2>5, <2>6, <2>7, <2>8 DEF Stands
<1> QED BY <1>2, <1>3 DEF RNext

LEMMA StandsStep ==
    ASSUME Typed, RedisType, HandsInv, CoveredInv, [SuppressionNext]_allVars, NEW e, Covered(e)
    PROVE  Covered(e)'
<1>1. PICK m \in Message : Stands(m) /\ entry[m] = e
  BY DEF Covered
<1>2. Stands(m)'
  <2>1. CASE driver = "disk" /\ Next /\ UNCHANGED <<driver, redisVars>>
    BY <1>1, <2>1, StandsInDisk DEF CoveredInv
  <2>2. CASE driver = "redis" /\ RNext /\ UNCHANGED driver
    BY <1>1, <2>2, StandsInRedis
  <2>3. CASE UNCHANGED allVars
    BY <1>1, <2>3 DEF allVars, vars, lists, history, redisVars, Stands, Looked, Ours
  <2> QED BY <2>1, <2>2, <2>3 DEF SuppressionNext
<1> QED BY <1>1, <1>2 DEF Covered

(* Nothing becomes known but by a look-up or by what was known. *)
LEMMA KnownFrom ==
    ASSUME Typed, CacheInv, Next, ~CheckOne, UNCHANGED <<driver, redisVars>>, NEW e \in Entry, Known(e)'
    PROVE  Known(e)
<1>0. store' = store
  BY DEF redisVars
<1>1. disk \in [Entry -> Time \cup {Never}] /\ buf \in Lines /\ cache_dict \in [Entry -> Time \cup {Never}]
  BY DEF Typed, CacheType
<1>2. CASE Tick \/ Gather \/ Work \/ Stop
  BY <1>0, <1>2 DEF Tick, Gather, Work, Stop, cache, Known
<1>3. CASE Spill
  <2>1. buf # <<>> /\ disk' = Times(disk, <<Head(buf)>>) /\ buf' = Tail(buf) /\ UNCHANGED cache_dict
    BY <1>3 DEF Spill
  <2>2. /\ Len(buf) \in Nat /\ Len(buf) >= 1 /\ Head(buf) = buf[1] /\ Head(buf) \in Entry \X Time
        /\ Len(Tail(buf)) = Len(buf) - 1 /\ \A i \in 1 .. Len(buf) - 1 : Tail(buf)[i] = buf[i + 1]
    BY <1>1, <2>1 DEF Lines
  <2>3. Own(Tail(buf), e) # {} => Own(buf, e) # {}
    <3> SUFFICES ASSUME NEW i \in Own(Tail(buf), e) PROVE i + 1 \in Own(buf, e)
      OBVIOUS
    <3>1. i \in 1 .. Len(buf) - 1 /\ Tail(buf)[i][1] = e
      BY <2>2 DEF Own
    <3>2. i + 1 \in 1 .. Len(buf) /\ buf[i + 1][1] = e
      BY <2>2, <3>1
    <3> QED BY <3>2 DEF Own
  <2>4. <<Head(buf)>> \in Lines /\ (Own(<<Head(buf)>>, e) # {} => Own(buf, e) # {})
    <3>1. <<Head(buf)>> \in Lines
      <4>1. Head(buf) \in Entry \X Time
        BY <2>2
      <4> QED BY <4>1 DEF Lines
    <3>2. Own(<<Head(buf)>>, e) # {} => buf[1][1] = e
      BY <2>2 DEF Own
    <3>3. 1 \in 1 .. Len(buf)
      BY <2>2
    <3> QED BY <3>1, <3>2, <3>3 DEF Own
  <2>5. Own(<<Head(buf)>>, e) = {} => disk'[e] = disk[e]
    BY <1>1, <2>1, <2>4, TimesFacts
  <2> QED BY <1>0, <2>1, <2>3, <2>4, <2>5 DEF Known
<1>4. CASE AcceptEnd \/ Close
  <2>1. disk' = Times(disk, buf) /\ buf' = <<>> /\ (cache_dict' = cache_dict \/ cache_dict' = nothing)
    BY <1>4 DEF AcceptEnd, Close, flush
  <2>2. Own(buf, e) = {} => disk'[e] = disk[e]
    BY <1>1, <2>1, TimesFacts
  <2>3. nothing[e] = Never
    BY DEF nothing
  <2> QED BY <1>0, <2>1, <2>2, <2>3, EmptyLines DEF Known
<1>5. CASE SaveUnlink
  BY <1>0, <1>5, EmptyLines DEF SaveUnlink, Known, nothing
<1>6. CASE SaveClean
  <2>1. PICK S \in SUBSET Entry : S = {f \in Entry : kept(cache_dict[f])}
    OBVIOUS
  <2>2. /\ cache_dict' = [f \in Entry |-> IF kept(cache_dict[f]) THEN cache_dict[f] ELSE Never]
        /\ buf' = SetToSeq({<<f, cache_dict[f]>> : f \in S}) /\ UNCHANGED disk
    BY <1>6, <2>1 DEF SaveClean
  <2>3. \A x \in S : cache_dict[x] \in Time
    BY <2>1, KeptIsTime, Numbers DEF Typed, RestType
  <2>4. Own(SetToSeq({<<f, cache_dict[f]>> : f \in S}), e) # {} => e \in S
    BY <1>1, <2>3, CleanKeeps
  <2>5. e \in S => cache_dict[e] # Never
    <3>1. Never \notin Time
      BY ConstantFacts DEF Time
    <3> QED BY <2>3, <3>1
  <2>6. cache_dict'[e] # Never => cache_dict[e] # Never
    BY <2>2
  <2> QED BY <1>0, <2>2, <2>4, <2>5, <2>6 DEF Known
<1>7. CASE Kill
  BY <1>0, <1>7, EmptyLines DEF Kill, Known, nothing
<1>8. CASE Restart
  <2>1. cache_dict' = [f \in Entry |-> IF kept(disk[f]) THEN disk[f] ELSE Never] /\ UNCHANGED <<disk, buf>>
    BY <1>8 DEF Restart
  <2>2. cache_dict'[e] # Never => disk[e] # Never
    BY <2>1
  <2> QED BY <1>0, <2>1, <2>2 DEF Known
<1> QED BY <1>2, <1>3, <1>4, <1>5, <1>6, <1>7, <1>8 DEF Next

LEMMA CoveredDisk ==
    ASSUME Typed, RedisType, HandsInv, CacheInv, CoveredInv, driver = "disk", Next, UNCHANGED <<driver, redisVars>>
    PROVE  CoveredInv'
<1>1. \A e : Covered(e) => Covered(e)'
  BY StandsStep DEF SuppressionNext
<1>2. incoming' # <<>> => pc' = "check"
  BY DEF CoveredInv, Next, Tick, Spill, Gather, CheckOne, AcceptEnd, Work, SaveUnlink, SaveClean, Stop, Close,
         Kill, Restart, lists
<1>3. \A i \in Instance : at'[i] = "set" /\ got'[i] => Covered(EntryOf(i))'
  BY DEF HandsInv, redisVars
<1>4. CASE CheckOne
  <2>1. PICK m \in Message, x \in Entry : m = Head(incoming)[1] /\ x = entry[m]
    BY <1>4, IncomingFacts, ConstantFacts DEF CheckOne
  <2>2. dropped' = dropped /\ store' = store /\ disk' = disk
    BY <1>4 DEF CheckOne, redisVars
  <2>3. \/ m \in tooOld' /\ rejected' = rejected \cup {m} /\ UNCHANGED <<cache_dict, buf>>
        \/ UNCHANGED <<rejected, cache_dict, buf>>
        \/ /\ accepted' = accepted \cup {m} /\ UNCHANGED rejected
           /\ cache_dict' = [cache_dict EXCEPT ![x] = now] /\ buf' = Append(buf, <<x, now>>)
        \/ /\ present(x) /\ rejected' = rejected \cup {m}
           /\ cache_dict' = [cache_dict EXCEPT ![x] = now] /\ buf' = Append(buf, <<x, now>>)
    BY <1>4, <2>1 DEF CheckOne
  <2>4. tooOld \subseteq tooOld'
    BY <1>4 DEF CheckOne
  <2>5. \A n \in dropped' : Covered(entry[n])'
    BY <1>1, <2>2 DEF CoveredInv
  <2>6. CASE UNCHANGED <<cache_dict, buf>> /\ rejected' \ tooOld' \subseteq rejected \ tooOld
    BY <1>1, <1>2, <1>3, <2>2, <2>5, <2>6 DEF CoveredInv, Known
  <2>7. CASE /\ cache_dict' = [cache_dict EXCEPT ![x] = now] /\ buf' = Append(buf, <<x, now>>)
             /\ \/ accepted' = accepted \cup {m} /\ UNCHANGED rejected
                \/ present(x) /\ rejected' = rejected \cup {m}
    <3>1. Covered(x)'
      <4>1. CASE accepted' = accepted \cup {m}
        <5>1. Stands(m)'
          BY <4>1 DEF Stands
        <5> QED BY <2>1, <5>1 DEF Covered
      <4>2. CASE present(x)
        <5>1. cache_dict[x] # Never
          <6>1. ~ (-1 >= now)
            BY NoDupeAssumption DEF Typed, RestType
          <6> QED BY <2>1, <4>2, <6>1, ConstantFacts DEF present
        <5>2. Covered(x)
          BY <2>1, <5>1 DEF CoveredInv, Known
        <5> QED BY <1>1, <5>2
      <4> QED BY <2>7, <4>1, <4>2
    <3>2. ASSUME NEW e \in Entry, e # x, Known(e)' PROVE Known(e)
      <4>1. cache_dict'[e] = cache_dict[e]
        BY <2>7, <3>2 DEF Typed, CacheType
      <4>2. Own(buf', e) # {} => Own(buf, e) # {}
        <5> SUFFICES ASSUME NEW i \in Own(Append(buf, <<x, now>>), e) PROVE i \in Own(buf, e)
          BY <2>7
        <5>1. /\ Len(buf) \in Nat /\ Len(Append(buf, <<x, now>>)) = Len(buf) + 1
              /\ Append(buf, <<x, now>>)[Len(buf) + 1] = <<x, now>>
              /\ \A j \in 1 .. Len(buf) : Append(buf, <<x, now>>)[j] = buf[j]
          BY DEF Typed, CacheType, Lines
        <5>2. i \in 1 .. Len(buf) + 1 /\ Append(buf, <<x, now>>)[i][1] = e
          BY <5>1 DEF Own
        <5>3. i # Len(buf) + 1
          BY <3>2, <5>1, <5>2
        <5>4. i \in 1 .. Len(buf)
          BY <5>1, <5>2, <5>3
        <5> QED BY <5>1, <5>2, <5>4 DEF Own
      <4> QED BY <2>2, <3>2, <4>1, <4>2 DEF Known
    <3>3. \A e \in Entry : Known(e)' => Covered(e)'
      BY <1>1, <3>1, <3>2 DEF CoveredInv
    <3>4. \A n \in rejected' \ tooOld' : Covered(entry[n])'
      BY <1>1, <2>1, <2>4, <2>7, <3>1 DEF CoveredInv
    <3> QED BY <1>2, <1>3, <2>5, <3>3, <3>4 DEF CoveredInv
  <2>8. CASE m \in tooOld' /\ rejected' = rejected \cup {m} /\ UNCHANGED <<cache_dict, buf>>
    BY <2>4, <2>6, <2>8
  <2> QED BY <2>3, <2>4, <2>6, <2>7, <2>8
<1>5. CASE ~CheckOne
  <2>1. \A e \in Entry : Known(e)' => Covered(e)'
    BY <1>1, <1>5, KnownFrom DEF CoveredInv
  <2>2. \A n \in dropped' : Covered(entry[n])
    <3>1. dropped' = dropped \/ dropped' = dropped \cup (rejected \ tooOld)
      BY <1>5 DEF Next, Tick, Spill, Gather, AcceptEnd, Work, SaveUnlink, SaveClean, Stop, Close, Kill, Restart, history
    <3> QED BY <3>1 DEF CoveredInv
  <2>3. \A n \in rejected' \ tooOld' : Covered(entry[n])
    <3>1. tooOld' = tooOld /\ (rejected' = rejected \/ rejected' = {})
      BY <1>5 DEF Next, Tick, Spill, Gather, AcceptEnd, Work, SaveUnlink, SaveClean, Stop, Close, Kill, Restart,
                  history, lists
    <3> QED BY <3>1 DEF CoveredInv
  <2> QED BY <1>1, <1>2, <1>3, <2>1, <2>2, <2>3 DEF CoveredInv
<1> QED BY <1>4, <1>5

LEMMA CoveredRedis ==
    ASSUME Typed, RedisType, HandsInv, CoveredInv, driver = "redis", RNext, UNCHANGED driver
    PROVE  CoveredInv'
<1>1. \A e : Covered(e) => Covered(e)'
  BY StandsStep DEF SuppressionNext
<1>2. UNCHANGED <<cache_dict, disk, buf, rejected, incoming, pc>> /\ tooOld \subseteq tooOld'
  BY DEF RNext, RTick, RGather, RPassBy, RGet, RSet, RWork, RKill, untouched, cache
<1>3. \A n \in rejected' \ tooOld' : Covered(entry[n])'
  BY <1>1, <1>2 DEF CoveredInv
<1>4. CASE RTick
  <2>1. UNCHANGED <<dropped, store, at, hand, got>>
    BY <1>4 DEF RTick, redisVars
  <2> QED BY <1>1, <1>2, <1>3, <2>1 DEF CoveredInv, Known, EntryOf, Ours
<1>5. ASSUME NEW i \in Instance, RGather(i) \/ RPassBy(i) \/ RWork(i) \/ RKill(i) PROVE CoveredInv'
  <2>1. UNCHANGED <<dropped, store, got>>
    BY <1>5 DEF RGather, RPassBy, RWork, RKill
  <2>2. \E w \in {"get", "idle", "work"} : To(i, w)
    BY <1>5 DEF RGather, RPassBy, RWork, RKill
  <2>3. \A j \in Instance \ {i} : hand'[j] = hand[j]
    BY <1>5 DEF RGather, RPassBy, RWork, RKill, Hold, Release, RedisType
  <2>4. at'[i] # "set" /\ \A j \in Instance \ {i} : at'[j] = at[j]
    BY <2>2 DEF To, RedisType
  <2>5. \A j \in Instance : at'[j] = "set" => at[j] = "set" /\ EntryOf(j)' = EntryOf(j)
    BY <2>3, <2>4 DEF EntryOf, Ours
  <2> QED BY <1>1, <1>2, <1>3, <2>1, <2>5 DEF CoveredInv, Known
<1>6. ASSUME NEW i \in Instance, RGet(i) PROVE CoveredInv'
  <2>1. /\ at[i] = "get" /\ got' = [got EXCEPT ![i] = Live(EntryOf(i))] /\ UNCHANGED <<dropped, store, hand>>
        /\ at' = [at EXCEPT ![i] = "set"]
    BY <1>6 DEF RGet, To
  <2>2. \A j \in Instance : EntryOf(j)' = EntryOf(j)
    BY <2>1 DEF EntryOf, Ours
  <2>3. EntryOf(i) \in Entry
    BY <2>1, OursFacts
  <2>4. ASSUME Live(EntryOf(i)) PROVE Covered(EntryOf(i))
    <3>1. store[EntryOf(i)] # Never
      <4>1. ~ (clock < -1)
        BY NoDupeAssumption DEF Typed, RestType
      <4> QED BY <2>4, <4>1, ConstantFacts DEF Live
    <3> QED BY <2>3, <3>1 DEF CoveredInv, Known
  <2>5. ASSUME NEW j \in Instance, at'[j] = "set", got'[j] PROVE Covered(EntryOf(j))
    <3>1. CASE j = i
      BY <2>1, <2>4, <2>5, <3>1 DEF RedisType
    <3>2. CASE j # i
      BY <2>1, <2>5, <3>2 DEF RedisType, CoveredInv
    <3> QED BY <3>1, <3>2
  <2> QED BY <1>1, <1>2, <1>3, <2>1, <2>2, <2>5 DEF CoveredInv, Known
<1>7. ASSUME NEW i \in Instance, RSet(i) PROVE CoveredInv'
  <2>1. at[i] = "set" /\ store' = [store EXCEPT ![EntryOf(i)] = clock] /\ UNCHANGED got
    BY <1>7 DEF RSet, Written
  <2>2. PICK m \in Message, x \in Entry : m = Ours(i) /\ x = EntryOf(i) /\ entry[m] = x
    BY <2>1, OursFacts DEF EntryOf
  <2>3. at'[i] # "set" /\ \A j \in Instance \ {i} : at'[j] = at[j] /\ hand'[j] = hand[j]
    BY <1>7 DEF RSet, To, Release, RedisType
  <2>4. \A j \in Instance : at'[j] = "set" => at[j] = "set" /\ EntryOf(j)' = EntryOf(j)
    BY <2>3 DEF EntryOf, Ours
  <2>5. Covered(x)'
    <3>1. CASE got[i]
      BY <1>1, <2>1, <2>2, <3>1 DEF CoveredInv
    <3>2. CASE ~got[i]
      <4>1. at'[i] = "work" /\ hand' = hand
        BY <1>7, <3>2 DEF RSet, To, RedisType
      <4>2. Looked(i)' /\ Ours(i)' = m
        BY <2>2, <4>1 DEF Looked, Ours
      <4>3. Stands(m)'
        BY <4>2 DEF Stands
      <4> QED BY <2>2, <4>3 DEF Covered
    <3> QED BY <3>1, <3>2
  <2>6. \A e \in Entry : Known(e)' => Covered(e)'
    <3> SUFFICES ASSUME NEW e \in Entry, e # x, Known(e)' PROVE Known(e)
      BY <1>1, <2>5 DEF CoveredInv
    <3>1. store'[e] = store[e]
      BY <2>1, <2>2 DEF RedisType
    <3> QED BY <1>2, <3>1 DEF Known
  <2>7. \A n \in dropped' : Covered(entry[n])'
    <3>1. dropped' \subseteq dropped \cup {m}
      BY <1>7, <2>2 DEF RSet
    <3> QED BY <1>1, <2>2, <2>5, <3>1 DEF CoveredInv
  <2> QED BY <1>1, <1>2, <1>3, <2>1, <2>4, <2>6, <2>7 DEF CoveredInv
<1> QED BY <1>4, <1>5, <1>6, <1>7 DEF RNext

LEMMA CoveredInit == ASSUME RedisInit PROVE CoveredInv
<1>1. /\ incoming = <<>> /\ dropped = {} /\ rejected = {} /\ buf = <<>> /\ \A i \in Instance : at[i] = "idle"
      /\ cache_dict = nothing /\ disk = nothing /\ store = nothing
  BY DEF RedisInit, Init
<1>2. \A e \in Entry : ~Known(e)
  BY <1>1, EmptyLines DEF Known, nothing
<1> QED BY <1>1, <1>2 DEF CoveredInv

(* Nothing is rejected as a duplicate of nothing: a message for the same file was worked on,
   or will be, or was too old, or a kill took it away. *)
THEOREM NoDuplicateOfNothing == SuppressionSpec => []DuplicateOfSomething
<1> DEFINE IInv == Typed /\ RedisType /\ CacheInv /\ HandsInv /\ CoveredInv
<1>1. RedisInit => IInv
  BY TypeInit, CacheInit, HandsInit, CoveredInit
<1>2. IInv /\ [SuppressionNext]_allVars => IInv'
  <2> SUFFICES ASSUME IInv, [SuppressionNext]_allVars PROVE IInv'
    OBVIOUS
  <2>1. Typed' /\ RedisType' /\ CacheInv' /\ HandsInv'
    BY TypeStep, CacheStep, HandsStep
  <2>2. CoveredInv'
    <3>1. CASE UNCHANGED allVars
      <4>1. \A e : Covered(e) => Covered(e)'
        BY StandsStep
      <4>2. /\ UNCHANGED <<incoming, pc, dropped, rejected, tooOld, cache_dict, disk, buf>>
            /\ UNCHANGED <<store, at, got, hand>>
        BY <3>1 DEF allVars, vars, lists, cache, history, redisVars
      <4> QED BY <4>1, <4>2 DEF CoveredInv, Known, EntryOf, Ours
    <3> QED BY <3>1, CoveredDisk, CoveredRedis DEF SuppressionNext
  <2> QED BY <2>1, <2>2
<1>3. IInv => DuplicateOfSomething
  <2> SUFFICES ASSUME IInv, NEW m \in dropped PROVE \E d \in inCare \cup cut : entry[d] = entry[m]
    BY DEF DuplicateOfSomething
  <2>1. PICK d \in Message : Stands(d) /\ entry[d] = entry[m]
    BY DEF CoveredInv, Covered
  <2>2. CASE \E i \in Instance : Looked(i) /\ Ours(i) = d
    <3>1. d \in accepted
      BY <2>2 DEF Looked, HandsInv, HeldRight
    <3> QED BY <2>1, <3>1 DEF inCare, inHand
  <2>3. CASE <<d, TRUE>> \in Range(incoming)
    <3>1. Range(incoming) = {incoming[i] : i \in 1 .. Len(incoming)}
      BY RangeEquality DEF Typed, QueueType, Gathered
    <3>2. PICK i \in 1 .. Len(incoming) : incoming[i] = <<d, TRUE>>
      BY <2>3, <3>1
    <3> QED BY <2>1, <3>2 DEF inCare, inHand
  <2>4. CASE d \in done \cup tooOld \cup failed \cup retry \cup cut \/ d \in accepted
    BY <2>1, <2>4 DEF inCare, inHand
  <2> QED BY <2>1, <2>2, <2>3, <2>4 DEF Stands
<1> QED BY <1>1, <1>2, <1>3, PTL DEF SuppressionSpec
=============================================================================
