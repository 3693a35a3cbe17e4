--------------------------- MODULE StateFilesProofs ---------------------------
(***************************************************************************)
(* Proofs about the files of the state directory: the retry queue on disk  *)
(* (DiskQueue), for every set of messages, every key and publication time, *)
(* every time to live and every bound; and, as Management runs them, the   *)
(* names and bindings of the queues (QueueState), for every set of topics  *)
(* and every number of commands, edits and kills, and the processes with   *)
(* their pid files (Processes), for every number of instances, commands    *)
(* and faults.                                                             *)
(***************************************************************************)
EXTENDS DiskQueue, Management, FiniteSetTheorems, SequenceTheorems, TLAPS

(* Lines appended to a file are lines of the file, whether or not the first of
   them is joined to an unterminated one. *)
LEMMA ExtendType ==
    ASSUME NEW f \in Seq(Line), NEW ls \in Seq(Line)
    PROVE  Extend(f, ls) \in Seq(Line)
<1>1. CASE f # <<>> /\ ls # <<>> /\ f[Len(f)] = Frag
  <2>1. SubSeq(f, 1, Len(f) - 1) \in Seq(Line)
    BY <1>1
  <2>2. Tail(ls) \in Seq(Line)
    BY <1>1
  <2>3. <<IF Head(ls) = Frag THEN Frag ELSE Junk>> \in Seq(Line)
    BY DEF Line
  <2> QED BY <1>1, <2>1, <2>2, <2>3 DEF Extend
<1>2. CASE ~ (f # <<>> /\ ls # <<>> /\ f[Len(f)] = Frag)
  BY <1>2 DEF Extend
<1> QED BY <1>1, <1>2

(* queue_fp is only set while no housekeeping is under way: what makes fp a
   position in queue_file when the rename replaces that file. *)
FpWhenOpen == pc \notin {"idle", "get"} => fp = 0

TypeInv == TypeOK /\ FpWhenOpen

(* The argument of put. *)
LEMMA BatchesAreSequences ==
    ASSUME NEW ms \in Batches
    PROVE  ms \in Seq(Message) /\ Len(ms) \in Nat
BY ConstantsAssumption DEF Batches

(* The invariant that makes type correctness inductive. *)
LEMMA TypeInvariant == Spec => []TypeInv
<1>1. Init => TypeInv
  BY DEF Init, TypeInv, TypeOK, FpWhenOpen
<1>2. TypeInv /\ [Next]_vars => TypeInv'
  <2> SUFFICES ASSUME TypeInv, [Next]_vars PROVE TypeInv'
    OBVIOUS
  <2> USE ConstantsAssumption DEF TypeInv, TypeOK, FpWhenOpen, files, counters, hkVars
  <2>1. CASE Tick
    BY <2>1 DEF Tick
  <2>2. ASSUME NEW ms \in Batches, Put(ms) PROVE TypeInv'
    <3>1. ms \in Seq(Message) /\ ms \in Seq(Line) /\ Len(ms) \in Nat
      BY BatchesAreSequences DEF Line
    <3>2. new' \in Seq(Line)
      BY <2>2, <3>1, ExtendType DEF Put
    <3>3. owed' \subseteq Message
      BY <2>2, <3>1, SMTT(40) DEF Put, RangeOf, Unread
    <3> QED BY <2>2, <3>1, <3>2, <3>3, SMTT(30) DEF Put
  <2>3. ASSUME NEW n \in 1 .. MaxBatch, GetCall(n) PROVE TypeInv'
    BY <2>3 DEF GetCall
  <2>4. CASE GetLine
    BY <2>4 DEF GetLine
  <2>5. CASE GetEOF
    BY <2>5 DEF GetEOF, exhausted
  <2>6. CASE GetReturn
    <3>1. CASE msg_count = 0
      BY <2>6, <3>1 DEF GetReturn, exhausted
    <3>2. CASE msg_count # 0
      BY <2>6, <3>2 DEF GetReturn
    <3> QED BY <3>1, <3>2
  <2>7. CASE HkStart
    <3>1. hk' \in Seq(Message) /\ Len(queue) \in Nat
      BY <2>7 DEF HkStart
    <3> QED BY <2>7, <3>1 DEF HkStart, close
  <2>8. CASE HkLine
    <3> DEFINE m == src[pos + 1]
    <3>1. CASE m \notin Message
      <4>1. UNCHANGED <<hk, N, retry_cache, owed>> /\ pos' = pos + 1
        BY <2>8, <3>1 DEF HkLine
      <4> QED BY <2>8, <4>1 DEF HkLine
    <3>2. CASE m \in Message
      <4>1. cacheKey[m] \in STRING
        BY <3>2
      <4>2. /\ pos' = pos + 1
            /\ \/ UNCHANGED <<hk, N>> /\ owed' = owed \ {m}
               \/ hk' = Append(hk, m) /\ N' = N + 1 /\ UNCHANGED owed
        BY <2>8, <3>2 DEF HkLine
      <4>4. Append(hk, m) \in Seq(Message)
        BY <3>2
      <4>3. retry_cache' \subseteq STRING
        BY <2>8, <3>2, <4>1 DEF HkLine, copying
      <4>5. UNCHANGED <<queue, new, queueAge, newAge, hkAge, fp, msg_count, msg_count_new, now, want, pc, clock, ends>>
        BY <2>8 DEF HkLine
      <4> HIDE DEF m
      <4>6. hk' \in Seq(Message)
        BY <4>2, <4>4
      <4>7. N' \in Nat /\ owed' \subseteq Message /\ pos' \in Nat
        BY <4>2
      <4> QED BY <4>3, <4>5, <4>6, <4>7
    <3> QED BY <3>1, <3>2
  <2>9. CASE HkEndOfFile
    BY <2>9 DEF HkEndOfFile, copying
  <2>10. CASE HkException
    <3>1. hk' \in Seq(Message)
      BY <2>10 DEF HkException
    <3> QED BY <2>10, <3>1 DEF HkException, copying
  <2>11. CASE HkRename
    <3>1. hk \in Seq(Line) /\ <<>> \in Seq(Message)
      BY DEF Line
    <3>2. queue' \in Seq(Line) /\ hk' \in Seq(Message)
      BY <2>11, <3>1 DEF HkRename
    <3>3. fp' = 0 /\ Len(queue') \in Nat
      BY <2>11, <3>2 DEF HkRename
    <3> QED BY <2>11, <3>2, <3>3 DEF HkRename
  <2>12. CASE HkUnlink
    BY <2>12 DEF HkUnlink
  <2>13. CASE Stop
    BY <2>13 DEF Stop, close
  <2>14. CASE Crash
    BY <2>14 DEF Crash, Kill, close
  <2>15. ASSUME NEW ms \in Batches, NEW k \in 0 .. MaxBatch - 1, CrashInPut(ms, k) PROVE TypeInv'
    <3>1. ms \in Seq(Message) /\ Len(ms) \in Nat
      BY BatchesAreSequences
    <3>2. SubSeq(ms, 1, k) \in Seq(Line) /\ <<Frag>> \in Seq(Line)
      BY <2>15, <3>1 DEF Line, CrashInPut
    <3>3. SubSeq(ms, 1, k) \o <<Frag>> \in Seq(Line)
      BY <3>2
    <3>4. new' \in Seq(Line)
      BY <2>15, <3>3, ExtendType DEF CrashInPut
    <3> QED BY <2>15, <3>4 DEF CrashInPut, Kill, close
  <2>16. CASE Restart
    BY <2>16 DEF Restart, count_msgs
  <2>17. CASE Cleanup
    BY <2>17 DEF Cleanup
  <2>18. CASE UNCHANGED vars
    BY <2>18 DEF vars
  <2> QED BY <2>1, <2>2, <2>3, <2>4, <2>5, <2>6, <2>7, <2>8, <2>9, <2>10, <2>11, <2>12,
             <2>13, <2>14, <2>15, <2>16, <2>17, <2>18
          DEF Next, Get, on_housekeeping, Process
<1> QED BY <1>1, <1>2, PTL DEF Spec

(* Type correctness of the queue with all faults: in particular queue_fp never
   points beyond the file that a rename has put in place of another. *)
THEOREM TypeCorrect == Spec => []TypeOK
BY TypeInvariant, PTL DEF TypeInv

-----------------------------------------------------------------------------
(* Sets of lines: what appending, concatenating and reading one line do. *)
LEMMA RangeAppend ==
    ASSUME NEW s \in Seq(Message), NEW m \in Message
    PROVE  RangeOf(Append(s, m)) = RangeOf(s) \cup {m}
BY DEF RangeOf, Unread

LEMMA RangeConcat ==
    ASSUME NEW s \in Seq(Message), NEW t \in Seq(Message)
    PROVE  RangeOf(s \o t) = RangeOf(s) \cup RangeOf(t)
<1>1. ASSUME NEW i \in 1 .. Len(s \o t) PROVE (s \o t)[i] \in RangeOf(s) \cup RangeOf(t)
  BY DEF RangeOf, Unread
<1>2. ASSUME NEW i \in 1 .. Len(s) PROVE s[i] \in RangeOf(s \o t)
  <2>1. s[i] = (s \o t)[i] /\ i \in 1 .. Len(s \o t)
    OBVIOUS
  <2> QED BY <2>1 DEF RangeOf, Unread
<1>3. ASSUME NEW i \in 1 .. Len(t) PROVE t[i] \in RangeOf(s \o t)
  <2>1. Len(s) + i \in 1 .. Len(s \o t)
    OBVIOUS
  <2>2. t[i] = (s \o t)[Len(s) + i]
    <3>1. Len(s) + i > Len(s) /\ Len(s) + i - Len(s) = i
      OBVIOUS
    <3> QED BY <3>1
  <2> QED BY <2>1, <2>2 DEF RangeOf, Unread
<1>4. RangeOf(s \o t) \subseteq RangeOf(s) \cup RangeOf(t)
  <2> SUFFICES ASSUME NEW x \in RangeOf(s \o t) PROVE x \in RangeOf(s) \cup RangeOf(t)
    OBVIOUS
  <2>1. PICK i \in 1 .. Len(s \o t) : x = (s \o t)[i]
    BY DEF RangeOf, Unread
  <2> QED BY <1>1, <2>1
<1>5. RangeOf(s) \subseteq RangeOf(s \o t)
  <2> SUFFICES ASSUME NEW x \in RangeOf(s) PROVE x \in RangeOf(s \o t)
    OBVIOUS
  <2>1. PICK i \in 1 .. Len(s) : x = s[i]
    BY DEF RangeOf, Unread
  <2> QED BY <1>2, <2>1
<1>6. RangeOf(t) \subseteq RangeOf(s \o t)
  <2> SUFFICES ASSUME NEW x \in RangeOf(t) PROVE x \in RangeOf(s \o t)
    OBVIOUS
  <2>1. PICK i \in 1 .. Len(t) : x = t[i]
    BY DEF RangeOf, Unread
  <2> QED BY <1>3, <2>1
<1> QED BY <1>4, <1>5, <1>6

LEMMA UnreadStep ==
    ASSUME NEW s \in Seq(Message), NEW n \in Nat, n < Len(s)
    PROVE  /\ s[n + 1] \in Message
           /\ Unread(s, n) = {s[n + 1]} \cup Unread(s, n + 1)
<1>1. n + 1 \in 1 .. Len(s)
  OBVIOUS
<1> QED BY <1>1 DEF Unread

LEMMA UnreadAll ==
    ASSUME NEW s \in Seq(Message), NEW n \in Nat
    PROVE  /\ n >= Len(s) => Unread(s, n) = {}
           /\ RangeOf(<<>>) = {}
           /\ Unread(s, n) \subseteq RangeOf(s)
BY DEF Unread, RangeOf

-----------------------------------------------------------------------------
(* The invariant behind OwedOnDisk and CountAvailable.  Without faults every
   line decodes, the counter is exact, so housekeeping only starts once
   queue_file has been removed; what it owes moves from .new to .hk line by
   line, and .new is never older than queue_file while it is still needed. *)
Copying ==
    /\ pc \in {"copyQueue", "copyNew", "rename"} => queue = <<>> /\ N = Len(hk)
    /\ pc = "copyQueue" => pos = 0 /\ hk = <<>>
    /\ pc = "copyNew" => pos <= Len(new) /\ owed \subseteq RangeOf(hk) \cup Unread(new, pos)
    /\ pc = "rename" => owed \subseteq RangeOf(hk)
    /\ pc = "unlink" => msg_count = Len(queue)

Ages ==
    /\ queueAge <= clock /\ newAge <= clock /\ hkAge <= clock
    /\ pc \notin {"unlink", "down"} /\ newIsOlder => new = <<>>

DurInv ==
    /\ TypeInv
    /\ queue \in Seq(Message) /\ new \in Seq(Message)
    /\ CountAvailable
    /\ Copying
    /\ Ages
    /\ OwedOnDisk

(* put on a .new without unterminated line. *)
LEMMA PutAppends ==
    ASSUME NEW f \in Seq(Message), NEW ms \in Seq(Message)
    PROVE  Extend(f, ms) = f \o ms
<1>1. f # <<>> => f[Len(f)] \in Message
  OBVIOUS
<1> QED BY <1>1, ConstantsAssumption DEF Extend

LEMMA DurableInvariant == ASSUME Faults = {} PROVE Spec => []DurInv
<1>1. Init => DurInv
  BY DEF Init, DurInv, TypeInv, TypeOK, FpWhenOpen, CountAvailable, Copying, Ages, OwedOnDisk, newIsOlder
<1>2. DurInv /\ TypeInv' /\ [Next]_vars => DurInv'
  <2> SUFFICES ASSUME DurInv, TypeInv', [Next]_vars PROVE DurInv'
    OBVIOUS
  <2> USE DEF files, counters, hkVars
  <2>a. /\ TypeOK /\ FpWhenOpen /\ queue \in Seq(Message) /\ new \in Seq(Message)
        /\ CountAvailable /\ Copying /\ Ages /\ OwedOnDisk
    BY DEF DurInv, TypeInv
  <2> DEFINE DurGoal == /\ queue' \in Seq(Message) /\ new' \in Seq(Message)
                        /\ CountAvailable' /\ Copying' /\ Ages' /\ OwedOnDisk'
  <2>b. SUFFICES DurGoal
    BY DEF DurInv
  <2>1. CASE Tick
    BY <2>1, <2>a DEF Tick, TypeOK, CountAvailable, Copying, Ages, OwedOnDisk, Reachable, newIsStale, newIsOlder
  <2>18. CASE UNCHANGED vars
    BY <2>18, <2>a DEF vars, CountAvailable, Copying, Ages, OwedOnDisk, Reachable, newIsStale, newIsOlder
  <2>2. ASSUME NEW ms \in Batches, Put(ms)
        PROVE  DurGoal
    <3>1. ms \in Seq(Message) /\ Len(ms) \in Nat
      BY BatchesAreSequences
    <3>2. new' = new \o ms /\ new' \in Seq(Message)
      <4>1. new' = Extend(new, ms)
        BY <2>2 DEF Put
      <4>2. Extend(new, ms) = new \o ms
        BY <2>a, <3>1, PutAppends
      <4> QED BY <2>a, <3>1, <4>1, <4>2
    <3>3. RangeOf(new') = RangeOf(new) \cup RangeOf(ms)
      BY <2>a, <3>1, <3>2, RangeConcat
    <3>4. UNCHANGED <<queue, hk, queueAge, hkAge, fp, msg_count, pc, clock>> /\ pc = "idle"
      BY <2>2 DEF Put
    <3>5. owed' = owed \cup RangeOf(ms) /\ newAge' = clock
      BY <2>2 DEF Put
    <3>6. OwedOnDisk'
      BY <2>a, <3>3, <3>4, <3>5 DEF OwedOnDisk, Reachable, newIsStale
    <3>7. Ages'
      BY <2>a, <3>4, <3>5 DEF Ages, newIsOlder, TypeOK
    <3>8. CountAvailable' /\ Copying'
      BY <2>a, <3>4 DEF CountAvailable, Copying
    <3> QED BY <2>a, <3>2, <3>4, <3>6, <3>7, <3>8
  <2>3. ASSUME NEW n \in 1 .. MaxBatch, GetCall(n) PROVE DurGoal
    BY <2>3, <2>a DEF GetCall, CountAvailable, Copying, Ages, OwedOnDisk, Reachable, newIsStale, newIsOlder
  <2>4. CASE GetLine
    <3>1. pc = "get" /\ fp \in Nat /\ fp < Len(queue) /\ fp' = fp + 1
      BY <2>4, <2>a DEF GetLine, TypeOK
    <3>2. queue[fp + 1] \in Message /\ Unread(queue, fp) = {queue[fp + 1]} \cup Unread(queue, fp + 1)
      BY <2>a, <3>1, UnreadStep
    <3>3. msg_count' = msg_count - 1 /\ owed' = owed \ {queue[fp + 1]}
      BY <2>4, <3>2 DEF GetLine
    <3>4. UNCHANGED <<queue, new, hk, queueAge, newAge, hkAge, pc, clock>>
      BY <2>4 DEF GetLine
    <3>5. OwedOnDisk'
      BY <2>a, <3>1, <3>2, <3>3, <3>4 DEF OwedOnDisk, Reachable, newIsStale, newIsOlder
    <3>6. CountAvailable'
      BY <2>a, <3>1, <3>3, <3>4 DEF CountAvailable, TypeOK
    <3>7. Copying' /\ Ages'
      BY <2>a, <3>1, <3>4 DEF Copying, Ages, newIsOlder
    <3> QED BY <2>a, <3>4, <3>5, <3>6, <3>7
  <2>5. CASE GetEOF \/ (GetReturn /\ msg_count = 0)
    <3>1. /\ pc = "get" /\ pc' = "idle" /\ queue' = <<>> /\ fp' = 0 /\ msg_count' = 0
          /\ UNCHANGED <<new, hk, queueAge, newAge, hkAge, clock, owed>>
      BY <2>5 DEF GetEOF, GetReturn, exhausted
    <3>2. fp \in Nat /\ fp >= Len(queue)
      BY <2>5, <2>a, <3>1 DEF GetEOF, CountAvailable, TypeOK
    <3>3. Unread(queue, fp) = {}
      BY <2>a, <3>2, UnreadAll
    <3>4. OwedOnDisk'
      BY <2>a, <3>1, <3>3 DEF OwedOnDisk, Reachable, newIsStale
    <3>5. Ages' /\ Copying' /\ CountAvailable'
      BY <2>a, <3>1 DEF Ages, Copying, CountAvailable, newIsOlder
    <3> QED BY <2>a, <3>1, <3>4, <3>5
  <2>6. CASE GetReturn /\ msg_count # 0
    <3>1. pc = "get" /\ pc' = "idle" /\ UNCHANGED <<queue, fp, msg_count, new, hk, queueAge, newAge, hkAge, clock, owed>>
      BY <2>6 DEF GetReturn
    <3> QED BY <2>a, <3>1 DEF CountAvailable, Copying, Ages, OwedOnDisk, Reachable, newIsStale, newIsOlder
  <2>7. CASE HkStart
    <3>1. /\ pc = "idle" /\ pc' = "copyQueue" /\ ~ unfinished
          /\ fp' = 0 /\ pos' = 0 /\ N' = 0 /\ hk' = <<>>
          /\ UNCHANGED <<queue, new, queueAge, newAge, clock, owed>> /\ hkAge' = clock
      BY <2>7 DEF HkStart, close
    <3>2. msg_count = 0 /\ fp = Len(queue)
      BY <2>a, <3>1 DEF unfinished, CountAvailable, TypeOK
    <3>3. queue = <<>> /\ fp = 0
      BY <2>a, <3>1, <3>2 DEF unfinished
    <3>4. OwedOnDisk'
      BY <2>a, <3>1, <3>3 DEF OwedOnDisk, Reachable, newIsStale
    <3>5. Ages' /\ Copying' /\ CountAvailable'
      BY <2>a, <3>1, <3>3 DEF Ages, Copying, CountAvailable, newIsOlder, TypeOK
    <3> QED BY <2>a, <3>1, <3>4, <3>5
  <2>8. CASE HkLine
    <3>1. /\ pc = "copyNew" /\ pos \in Nat /\ pos < Len(new) /\ pos' = pos + 1
      BY <2>8, <2>a DEF HkLine, copying, src, Copying, TypeOK
    <3>2. UNCHANGED <<queue, new, queueAge, newAge, hkAge, fp, msg_count, pc, clock>>
      BY <2>8 DEF HkLine
    <3> DEFINE m == new[pos + 1]
    <3>3. m \in Message /\ Unread(new, pos) = {m} \cup Unread(new, pos + 1)
      BY <2>a, <3>1, UnreadStep
    <3>4. \/ owed' = owed \ {m} /\ UNCHANGED <<hk, N>>
          \/ owed' = owed /\ hk' = Append(hk, m) /\ N' = N + 1
      BY <2>8, <3>1, <3>3 DEF HkLine, src
    <3>5. RangeOf(Append(hk, m)) = RangeOf(hk) \cup {m} /\ Len(Append(hk, m)) = Len(hk) + 1
      BY <2>a, <3>3, RangeAppend DEF TypeOK
    <3> HIDE DEF m
    <3>6. owed' \subseteq RangeOf(hk') \cup Unread(new, pos + 1) /\ N' = Len(hk')
      BY <2>a, <3>1, <3>3, <3>4, <3>5 DEF Copying
    <3>7. Copying'
      BY <2>a, <3>1, <3>2, <3>6 DEF Copying
    <3>8. OwedOnDisk'
      BY <2>a, <3>1, <3>2, <3>4 DEF OwedOnDisk, Reachable, newIsStale, newIsOlder
    <3>9. Ages' /\ CountAvailable'
      BY <2>a, <3>1, <3>2 DEF Ages, CountAvailable, newIsOlder
    <3> QED BY <2>a, <3>2, <3>7, <3>8, <3>9
  <2>9. CASE HkEndOfFile
    <3>1. /\ UNCHANGED <<queue, new, hk, queueAge, newAge, fp, msg_count, N, clock, owed>>
          /\ pos' = 0 /\ copying /\ pos = Len(src) /\ hkAge' \in {hkAge, clock}
          /\ pc' = IF pc = "copyQueue" THEN "copyNew" ELSE "rename"
      BY <2>9 DEF HkEndOfFile
    <3>2. CASE pc = "copyQueue"
      <4>1. owed \subseteq RangeOf(new)
        BY <2>a, <3>2, UnreadAll DEF OwedOnDisk, Reachable, newIsStale, Copying, TypeOK, RangeOf, FpWhenOpen
      <4>2. Copying'
        BY <2>a, <3>1, <3>2, <4>1 DEF Copying, RangeOf
      <4> QED BY <2>a, <3>1, <3>2, <4>2 DEF OwedOnDisk, Reachable, newIsStale, newIsOlder, Ages, CountAvailable,
                 TypeOK
    <3>3. CASE pc = "copyNew"
      <4>1. Unread(new, pos) = {}
        BY <2>a, <3>1, <3>3, UnreadAll DEF src, TypeOK
      <4>2. Copying'
        BY <2>a, <3>1, <3>3, <4>1 DEF Copying
      <4> QED BY <2>a, <3>1, <3>3, <4>2 DEF OwedOnDisk, Reachable, newIsStale, newIsOlder, Ages, CountAvailable,
                 TypeOK
    <3> QED BY <3>1, <3>2, <3>3 DEF copying
  <2>11. CASE HkRename
    <3>1. pc = "rename" /\ pc' = "unlink" /\ fp = 0 /\ queue = <<>> /\ N = Len(hk) /\ owed \subseteq RangeOf(hk)
      BY <2>11, <2>a DEF HkRename, Copying, FpWhenOpen
    <3>2. UNCHANGED <<new, newAge, hkAge, fp, clock, owed>> /\ msg_count' = N
      BY <2>11 DEF HkRename
    <3>3. queue' = hk /\ queueAge' \in {queueAge, hkAge}
      BY <2>11, <2>a, <3>1 DEF HkRename, TypeOK
    <3>4. OwedOnDisk'
      BY <3>1, <3>2, <3>3 DEF OwedOnDisk, Reachable, newIsStale, RangeOf
    <3>5. Ages' /\ Copying' /\ CountAvailable'
      BY <2>a, <3>1, <3>2, <3>3 DEF Ages, Copying, CountAvailable, TypeOK
    <3> QED BY <2>a, <3>2, <3>3, <3>4, <3>5 DEF TypeOK
  <2>12. CASE HkUnlink
    <3>1. /\ pc = "unlink" /\ pc' = "idle" /\ new' = <<>>
          /\ UNCHANGED <<queue, hk, queueAge, newAge, hkAge, fp, msg_count, clock, owed>>
      BY <2>12 DEF HkUnlink
    <3>2. OwedOnDisk' /\ Ages' /\ Copying'
      BY <2>a, <3>1 DEF OwedOnDisk, Reachable, newIsStale, Ages, Copying, newIsOlder
    <3>3. CountAvailable'
      BY <2>a, <3>1 DEF CountAvailable, Copying, FpWhenOpen, TypeOK
    <3> QED BY <2>a, <3>1, <3>2, <3>3
  <2>13. CASE Stop \/ Crash
    <3>1. pc # "down" /\ pc' = "down" /\ fp' = 0 /\ UNCHANGED <<queue, new, hk, queueAge, newAge, hkAge, clock, owed>>
      BY <2>13 DEF Stop, Crash, Kill, close
    <3>2. Unread(queue, fp) \subseteq Unread(queue, 0)
      BY <2>a, UnreadAll DEF TypeOK, RangeOf
    <3>3. pc # "unlink" /\ newIsOlder => RangeOf(new) = {}
      BY <2>a, <3>1, UnreadAll DEF Ages
    <3>4. OwedOnDisk'
      BY <2>a, <3>1, <3>2, <3>3 DEF OwedOnDisk, Reachable, newIsStale, newIsOlder
    <3> QED BY <2>a, <3>1, <3>4 DEF Ages, Copying, CountAvailable
  <2>16. CASE Restart
    <3>1. /\ pc = "down" /\ pc' = "idle" /\ fp = 0 /\ fp' = 0 /\ msg_count' = Len(queue)
          /\ new' = IF newIsOlder THEN <<>> ELSE new
          /\ UNCHANGED <<queue, hk, queueAge, newAge, hkAge, clock, owed>>
      BY <2>16, <2>a DEF Restart, FpWhenOpen, count_msgs
    <3>2. OwedOnDisk'
      BY <2>a, <3>1 DEF OwedOnDisk, Reachable, newIsStale
    <3>3. Ages' /\ Copying' /\ CountAvailable' /\ new' \in Seq(Message)
      BY <2>a, <3>1 DEF Ages, Copying, CountAvailable, newIsOlder, TypeOK
    <3> QED BY <2>a, <3>1, <3>2, <3>3
  <2>17. CASE Cleanup
    <3>1. /\ pc = "down" /\ pc' = "down" /\ queue' = <<>> /\ new' = <<>> /\ owed' = {}
          /\ UNCHANGED <<queueAge, newAge, hkAge, clock>>
      BY <2>17 DEF Cleanup
    <3> QED BY <2>a, <3>1 DEF OwedOnDisk, Ages, Copying, CountAvailable
  <2>19. ~ HkException /\ \A ms, k : ~ CrashInPut(ms, k)
    BY DEF HkException, CrashInPut
  <2> QED BY <2>1, <2>2, <2>3, <2>4, <2>5, <2>6, <2>7, <2>8, <2>9, <2>11, <2>12,
             <2>13, <2>16, <2>17, <2>18, <2>19
          DEF Next, Get, on_housekeeping, Process
<1> QED BY <1>1, <1>2, TypeInvariant, PTL DEF Spec

(* Without torn writes and failing system calls, nothing that put accepted is
   lost between housekeeping, kills and restarts, and the counter that get and
   housekeeping steer by is exact: for every set of messages, every key, age and
   time to live. *)
THEOREM NoLoss == ASSUME Faults = {} PROVE Spec => [](OwedOnDisk /\ CountAvailable)
<1>1. DurInv => OwedOnDisk /\ CountAvailable
  BY DEF DurInv
<1> QED BY <1>1, DurableInvariant, PTL

-----------------------------------------------------------------------------
(* What makes QueueKeysDistinct inductive: queue_file only ever is a list that
   housekeeping has built, whose keys are distinct because each of them is in the
   cache that the next line is compared with. *)
KeysDistinct(s) == \A i, j \in 1 .. Len(s) : i # j => cacheKey[s[i]] # cacheKey[s[j]]

KeysSeen(s) == \A i \in 1 .. Len(s) : cacheKey[s[i]] \in retry_cache

OfferInv ==
    /\ queue \in Seq(Message)
    /\ KeysDistinct(queue)
    /\ copying \/ pc = "rename" => KeysDistinct(hk)
    /\ copying => KeysSeen(hk)

(* A list whose keys are distinct and in the cache takes a message whose key is not. *)
LEMMA AppendDistinct ==
    ASSUME NEW s \in Seq(Message), NEW m \in Message, KeysDistinct(s), KeysSeen(s), ~ in_cache(m)
    PROVE  KeysDistinct(Append(s, m))
<1> DEFINE t == Append(s, m)
<1>1. /\ Len(t) = Len(s) + 1 /\ t[Len(s) + 1] = m /\ Len(s) \in Nat
      /\ \A i \in 1 .. Len(s) : t[i] = s[i]
  OBVIOUS
<1> HIDE DEF t
<1>2. \A i \in 1 .. Len(s) : cacheKey[t[i]] # cacheKey[m]
  BY <1>1 DEF KeysSeen, in_cache
<1>3. SUFFICES ASSUME NEW i \in 1 .. Len(s) + 1, NEW j \in 1 .. Len(s) + 1, i # j
               PROVE  cacheKey[t[i]] # cacheKey[t[j]]
  BY <1>1 DEF KeysDistinct, t
<1>4. i \in 1 .. Len(s) \/ i = Len(s) + 1
  BY <1>1
<1>5. j \in 1 .. Len(s) \/ j = Len(s) + 1
  BY <1>1
<1> QED BY <1>1, <1>2, <1>3, <1>4, <1>5 DEF KeysDistinct

(* A list cut short by a failing write keeps its keys distinct. *)
LEMMA PrefixDistinct ==
    ASSUME NEW s \in Seq(Message), NEW k \in 0 .. Len(s), KeysDistinct(s)
    PROVE  KeysDistinct(SubSeq(s, 1, k))
<1>1. Len(SubSeq(s, 1, k)) = k /\ \A i \in 1 .. k : SubSeq(s, 1, k)[i] = s[i]
  OBVIOUS
<1> QED BY <1>1 DEF KeysDistinct

LEMMA OfferInvariant == Spec => []OfferInv
<1>1. Init => OfferInv
  BY DEF Init, OfferInv, KeysDistinct, copying
<1>2. OfferInv /\ TypeInv /\ [Next]_vars => OfferInv'
  <2> SUFFICES ASSUME OfferInv, TypeInv, [Next]_vars PROVE OfferInv'
    OBVIOUS
  <2> USE DEF files, counters, hkVars
  <2>a. TypeOK /\ queue \in Seq(Message) /\ KeysDistinct(queue)
        /\ (copying \/ pc = "rename" => KeysDistinct(hk)) /\ (copying => KeysSeen(hk))
    BY DEF OfferInv, TypeInv
  <2>1. ASSUME UNCHANGED <<queue, hk, retry_cache, pc>> PROVE OfferInv'
    BY <2>a, <2>1 DEF OfferInv, KeysDistinct, KeysSeen, copying
  <2>2. ASSUME UNCHANGED queue, pc' \notin {"copyQueue", "copyNew", "rename"} PROVE OfferInv'
    BY <2>a, <2>2 DEF OfferInv, KeysDistinct, copying
  <2>3. ASSUME queue' = <<>>, pc' \notin {"copyQueue", "copyNew", "rename"} PROVE OfferInv'
    BY <2>3 DEF OfferInv, KeysDistinct, copying
  <2>4. CASE Tick \/ (\E ms \in Batches : Put(ms)) \/ UNCHANGED vars
    BY <2>1, <2>4 DEF Tick, Put, vars
  <2>5. CASE Get
    BY <2>2, <2>3, <2>5 DEF Get, GetCall, GetLine, GetEOF, GetReturn, exhausted
  <2>6. CASE HkStart
    <3>1. hk' = <<>> /\ UNCHANGED queue
      BY <2>6 DEF HkStart
    <3> QED BY <2>a, <3>1 DEF OfferInv, KeysDistinct, KeysSeen
  <2>7. CASE HkLine
    <3>1. copying /\ UNCHANGED <<queue, pc>>
      BY <2>7 DEF HkLine
    <3> DEFINE m == src[pos + 1]
    <3>2. \/ UNCHANGED <<hk, retry_cache>>
          \/ UNCHANGED hk /\ retry_cache' = retry_cache \cup {cacheKey[m]}
          \/ /\ m \in Message /\ ~ in_cache(m)
             /\ hk' = Append(hk, m) /\ retry_cache' = retry_cache \cup {cacheKey[m]}
      BY <2>7 DEF HkLine
    <3> HIDE DEF m
    <3>3. CASE UNCHANGED <<hk, retry_cache>>
      BY <2>1, <3>1, <3>3
    <3>4. CASE UNCHANGED hk /\ retry_cache' = retry_cache \cup {cacheKey[m]}
      BY <2>a, <3>1, <3>4 DEF OfferInv, KeysDistinct, KeysSeen, copying
    <3>5. CASE /\ m \in Message /\ ~ in_cache(m)
               /\ hk' = Append(hk, m) /\ retry_cache' = retry_cache \cup {cacheKey[m]}
      <4>1. hk \in Seq(Message) /\ KeysDistinct(hk) /\ KeysSeen(hk)
        BY <2>a, <3>1 DEF TypeOK
      <4>2. KeysDistinct(hk)'
        BY <3>5, <4>1, AppendDistinct DEF KeysDistinct
      <4>3. \A i \in 1 .. Len(hk') : hk'[i] = m \/ (i \in 1 .. Len(hk) /\ hk'[i] = hk[i])
        BY <3>5, <4>1
      <4>4. KeysSeen(hk)'
        BY <3>5, <4>1, <4>3 DEF KeysSeen
      <4> QED BY <2>a, <3>1, <4>2, <4>4 DEF OfferInv, KeysDistinct
    <3> QED BY <3>2, <3>3, <3>4, <3>5
  <2>8. CASE HkEndOfFile
    <3>1. copying /\ UNCHANGED <<queue, hk, retry_cache>> /\ pc' \in {"copyNew", "rename"}
      BY <2>8 DEF HkEndOfFile
    <3> QED BY <2>a, <3>1 DEF OfferInv, KeysDistinct, KeysSeen
  <2>9. CASE HkException
    <3>1. copying /\ UNCHANGED queue /\ pc' = "rename"
      BY <2>9 DEF HkException
    <3>2. PICK k \in 0 .. Len(hk) : hk' = SubSeq(hk, 1, k)
      BY <2>9 DEF HkException
    <3>3. KeysDistinct(hk)'
      BY <2>a, <3>1, <3>2, PrefixDistinct DEF TypeOK, KeysDistinct
    <3> QED BY <2>a, <3>1, <3>3 DEF OfferInv, KeysDistinct, copying
  <2>10. CASE HkRename
    <3>1. pc = "rename" /\ pc' = "unlink" /\ (queue' = queue \/ queue' = hk)
      BY <2>10 DEF HkRename
    <3>2. hk \in Seq(Message) /\ KeysDistinct(hk)
      BY <2>a, <3>1 DEF TypeOK
    <3> QED BY <2>a, <3>1, <3>2 DEF OfferInv, KeysDistinct, copying
  <2>11. CASE HkUnlink
    BY <2>2, <2>11 DEF HkUnlink
  <2>12. CASE Process
    BY <2>2, <2>3, <2>12 DEF Process, Stop, Crash, Kill, CrashInPut, Restart, Cleanup
  <2> QED BY <2>4, <2>5, <2>6, <2>7, <2>8, <2>9, <2>10, <2>11, <2>12 DEF Next, on_housekeeping
<1> QED BY <1>1, <1>2, TypeInvariant, PTL DEF Spec

(* Whatever is torn, fails or is killed, queue_file never offers two entries with the
   same key in one interval. *)
THEOREM OfferedOnce == Spec => []QueueKeysDistinct
<1>1. OfferInv => QueueKeysDistinct
  BY DEF OfferInv, QueueKeysDistinct, KeysDistinct
<1> QED BY <1>1, OfferInvariant, PTL

(* Without faults, what get reads between two housekeepings is each file once, and as many
   lines as the counter says. *)
THEOREM QueueFileAsCounted == ASSUME Faults = {} PROVE Spec => []QueueFileRight
<1>1. OfferInv => QueueKeysDistinct
  BY DEF OfferInv, QueueKeysDistinct, KeysDistinct
<1> QED BY <1>1, OfferInvariant, NoLoss, PTL DEF QueueFileRight

-----------------------------------------------------------------------------
(* The counter and the file, with every fault: housekeeping only starts on an exhausted
   queue_file, and N counts at least what .hk holds, also where a failing write has lost
   a part of it. *)
CoverInv ==
    /\ copying \/ pc = "rename" => queue = <<>> /\ N >= Len(hk)
    /\ pc = "unlink" => msg_count >= Len(queue)
    /\ pc \in {"idle", "get"} => msg_count >= Len(queue) - fp

LEMMA CoverInvariant == Spec => []CoverInv
<1>1. Init => CoverInv
  BY DEF Init, CoverInv, copying
<1>2. CoverInv /\ OfferInv /\ TypeInv /\ [Next]_vars => CoverInv'
  <2> SUFFICES ASSUME CoverInv, OfferInv, TypeInv, [Next]_vars PROVE CoverInv'
    OBVIOUS
  <2> USE DEF files, counters, hkVars
  <2>a. TypeOK /\ FpWhenOpen /\ queue \in Seq(Message)
    BY DEF OfferInv, TypeInv
  <2>1. CASE Tick \/ (\E ms \in Batches : Put(ms)) \/ UNCHANGED vars
    BY <2>1 DEF Tick, Put, vars, CoverInv, copying
  <2>2. CASE \E n \in 1 .. MaxBatch : GetCall(n)
    BY <2>2 DEF GetCall, CoverInv, copying
  <2>3. CASE GetLine
    <3>1. pc = "get" /\ fp \in Nat /\ fp < Len(queue) /\ fp' = fp + 1 /\ UNCHANGED <<queue, pc>>
      BY <2>a, <2>3 DEF GetLine, TypeOK
    <3>2. queue[fp + 1] \in Message
      BY <2>a, <3>1, UnreadStep
    <3>3. msg_count' = msg_count - 1 /\ msg_count \in Int
      BY <2>a, <2>3, <3>2 DEF GetLine, TypeOK
    <3> QED BY <2>a, <3>1, <3>3 DEF CoverInv, copying
  <2>4. CASE GetEOF \/ GetReturn
    <3>1. pc = "get" /\ pc' = "idle"
      BY <2>4 DEF GetEOF, GetReturn
    <3>2. \/ queue' = <<>> /\ fp' = 0 /\ msg_count' = 0
          \/ UNCHANGED <<queue, fp, msg_count>>
      BY <2>4 DEF GetEOF, GetReturn, exhausted
    <3> QED BY <3>1, <3>2 DEF CoverInv, copying
  <2>5. CASE HkStart
    <3>1. pc = "idle" /\ ~ unfinished /\ pc' = "copyQueue" /\ hk' = <<>> /\ N' = 0 /\ UNCHANGED queue
      BY <2>5 DEF HkStart
    <3>2. msg_count = 0 /\ fp \in 0 .. Len(queue) /\ fp >= Len(queue)
      BY <2>a, <3>1 DEF unfinished, CoverInv, TypeOK
    <3>3. queue = <<>>
      BY <2>a, <3>1, <3>2 DEF unfinished
    <3> QED BY <3>1, <3>3 DEF CoverInv
  <2>6. CASE HkLine
    <3>1. copying /\ UNCHANGED <<queue, pc>>
      BY <2>6 DEF HkLine
    <3>2. \/ UNCHANGED <<hk, N>>
          \/ src[pos + 1] \in Message /\ hk' = Append(hk, src[pos + 1]) /\ N' = N + 1
      BY <2>6 DEF HkLine
    <3>3. N' >= Len(hk')
      BY <2>a, <3>1, <3>2 DEF CoverInv, TypeOK
    <3> QED BY <3>1, <3>3 DEF CoverInv, copying
  <2>7. CASE HkEndOfFile
    BY <2>7 DEF HkEndOfFile, CoverInv, copying
  <2>8. CASE HkException
    <3>1. copying /\ UNCHANGED <<queue, N>> /\ pc' = "rename"
      BY <2>8 DEF HkException
    <3>2. Len(hk') <= Len(hk) /\ Len(hk') \in Nat /\ Len(hk) \in Nat
      BY <2>a, <2>8 DEF HkException, TypeOK
    <3> QED BY <2>a, <3>1, <3>2 DEF CoverInv, TypeOK
  <2>9. CASE HkRename
    <3>1. pc = "rename" /\ pc' = "unlink" /\ msg_count' = N /\ (queue' = queue \/ queue' = hk)
      BY <2>9 DEF HkRename
    <3> QED BY <2>a, <3>1 DEF CoverInv, copying, TypeOK
  <2>10. CASE HkUnlink
    <3>1. pc = "unlink" /\ pc' = "idle" /\ fp = 0 /\ UNCHANGED <<queue, fp, msg_count>>
      BY <2>a, <2>10 DEF HkUnlink, FpWhenOpen
    <3> QED BY <2>a, <3>1 DEF CoverInv, copying
  <2>11. CASE Restart
    <3>1. pc' = "idle" /\ fp' = 0 /\ UNCHANGED queue /\ msg_count' = Len(queue)
      BY <2>11 DEF Restart, count_msgs
    <3> QED BY <2>a, <3>1 DEF CoverInv, copying
  <2>12. CASE Process /\ ~ Restart
    <3>1. pc' = "down"
      BY <2>12 DEF Process, Stop, Crash, Kill, CrashInPut, Cleanup
    <3> QED BY <3>1 DEF CoverInv, copying
  <2> QED BY <2>1, <2>2, <2>3, <2>4, <2>5, <2>6, <2>7, <2>8, <2>9, <2>10, <2>11, <2>12
          DEF Next, Get, on_housekeeping, Process
<1> QED BY <1>1, <1>2, OfferInvariant, TypeInvariant, PTL DEF Spec

(* With every fault considered, the counter never falls below the number of entries that
   are left: get never removes a queue_file that still holds one. *)
THEOREM CounterCovers == Spec => []CountCovers
<1>1. CoverInv /\ TypeInv => CountCovers
  <2> SUFFICES ASSUME CoverInv, TypeOK, pc \in {"idle", "get"} PROVE
               msg_count >= Cardinality({i \in fp + 1 .. Len(queue) : queue[i] \in Message})
    BY DEF CountCovers, TypeInv
  <2> DEFINE S == {i \in fp + 1 .. Len(queue) : queue[i] \in Message}
  <2>1. fp \in Nat /\ Len(queue) \in Nat /\ fp <= Len(queue) /\ msg_count \in Int
    BY DEF TypeOK
  <2>2. IsFiniteSet(fp + 1 .. Len(queue)) /\ Cardinality(fp + 1 .. Len(queue)) = Len(queue) - fp
    <3> DEFINE first == fp + 1
    <3>1. first \in Int /\ Len(queue) \in Int /\ first <= Len(queue) + 1
      BY <2>1
    <3>2. Len(queue) - first + 1 = Len(queue) - fp
      BY <2>1
    <3>3. IsFiniteSet(first .. Len(queue)) /\ Cardinality(first .. Len(queue)) = IF first > Len(queue) THEN 0 ELSE Len(queue) - first + 1
      BY ONLY <3>1, FS_Interval
    <3> QED BY <2>1, <3>2, <3>3
  <2>3. IsFiniteSet(S) /\ Cardinality(S) <= Len(queue) - fp /\ Cardinality(S) \in Nat
    BY <2>2, FS_Subset, FS_CardinalityType
  <2>4. msg_count >= Len(queue) - fp
    BY DEF CoverInv
  <2> HIDE DEF S
  <2>5. msg_count >= Cardinality(S)
    BY <2>1, <2>3, <2>4
  <2> QED BY <2>5 DEF S
<1> QED BY <1>1, CoverInvariant, TypeInvariant, PTL

-----------------------------------------------------------------------------
(* s is made of entries of the first p lines of t, in their order. *)
Picked(s, t, p) ==
    /\ Len(s) <= p
    /\ \E f \in [1 .. Len(s) -> 1 .. p] :
          /\ \A i, j \in 1 .. Len(s) : i < j => f[i] < f[j]
          /\ \A i \in 1 .. Len(s) : s[i] = t[f[i]]

LEMMA PickedNone == ASSUME NEW t PROVE Picked(<<>>, t, 0)
<1> DEFINE f == [i \in 1 .. 0 |-> 0]
<1>1. Len(<<>>) = 0 /\ \A i \in 1 .. 0 : FALSE
  OBVIOUS
<1>2. f \in [1 .. 0 -> 1 .. 0]
  BY <1>1
<1> HIDE DEF f
<1>3. \E g \in [1 .. 0 -> 1 .. 0] :
        /\ \A i, j \in 1 .. 0 : i < j => g[i] < g[j]
        /\ \A i \in 1 .. 0 : <<>>[i] = t[g[i]]
  BY <1>1, <1>2, Zenon
<1>4. 0 <= 0
  OBVIOUS
<1> QED BY <1>1, <1>3, <1>4, Zenon DEF Picked

(* Housekeeping passes over one more line, or copies it. *)
LEMMA PickedStep ==
    ASSUME NEW s \in Seq(Message), NEW t \in Seq(Message), NEW p \in Nat, p < Len(t), Picked(s, t, p)
    PROVE  Picked(s, t, p + 1) /\ Picked(Append(s, t[p + 1]), t, p + 1)
<1>1. PICK f \in [1 .. Len(s) -> 1 .. p] :
          /\ \A i, j \in 1 .. Len(s) : i < j => f[i] < f[j]
          /\ \A i \in 1 .. Len(s) : s[i] = t[f[i]]
  BY DEF Picked
<1>2. Len(s) \in Nat /\ Len(s) <= p
  BY DEF Picked
<1>3. Picked(s, t, p + 1)
  <2>1. f \in [1 .. Len(s) -> 1 .. p + 1] /\ Len(s) <= p + 1
    BY <1>2
  <2> QED BY <1>1, <2>1 DEF Picked
<1>4. Picked(Append(s, t[p + 1]), t, p + 1)
  <2> DEFINE u == Append(s, t[p + 1])
             g == [i \in 1 .. Len(s) + 1 |-> IF i = Len(s) + 1 THEN p + 1 ELSE f[i]]
  <2>1. /\ Len(u) = Len(s) + 1 /\ u[Len(s) + 1] = t[p + 1]
        /\ \A i \in 1 .. Len(s) : u[i] = s[i]
    OBVIOUS
  <2>2. g[Len(s) + 1] = p + 1 /\ \A i \in 1 .. Len(s) : g[i] = f[i]
    BY <1>2
  <2>3. g \in [1 .. Len(s) + 1 -> 1 .. p + 1]
    BY <1>2
  <2> HIDE DEF u, g
  <2>4. ASSUME NEW i \in 1 .. Len(u) PROVE i \in 1 .. Len(s) \/ i = Len(s) + 1
    BY <1>2, <2>1
  <2>5. \A i \in 1 .. Len(s) : f[i] \in 1 .. p
    OBVIOUS
  <2>6. \A i, j \in 1 .. Len(u) : i < j => g[i] < g[j]
    <3> SUFFICES ASSUME NEW i \in 1 .. Len(u), NEW j \in 1 .. Len(u), i < j PROVE g[i] < g[j]
      OBVIOUS
    <3>1. i \in 1 .. Len(s)
      BY <1>2, <2>1
    <3>2. CASE j \in 1 .. Len(s)
      BY <1>1, <2>2, <3>1, <3>2
    <3>3. CASE j = Len(s) + 1
      BY <2>2, <2>5, <3>1, <3>3
    <3> QED BY <2>4, <3>2, <3>3
  <2>7. \A i \in 1 .. Len(u) : u[i] = t[g[i]]
    BY <1>1, <2>1, <2>2, <2>4
  <2>8. Len(u) <= p + 1 /\ g \in [1 .. Len(u) -> 1 .. p + 1]
    BY <1>2, <2>1, <2>3
  <2>9. Picked(u, t, p + 1)
    BY <2>6, <2>7, <2>8 DEF Picked
  <2> QED BY <2>9 DEF u
<1> QED BY <1>3, <1>4

(* A line of .new is left out only for another entry with its key that is kept, or for one
   that is expired. *)
KeptKey(k) == \E j \in 1 .. Len(hk) : cacheKey[hk[j]] = k
ExpiredKey(k) == \E j \in 1 .. Len(new) : cacheKey[new[j]] = k /\ is_expired(new[j])
Represented(p) == \A n \in 1 .. p : KeptKey(cacheKey[new[n]]) \/ ExpiredKey(cacheKey[new[n]])

CompactInv ==
    /\ pc = "copyQueue" => retry_cache = {}
    /\ pc = "copyNew" => /\ Picked(hk, new, pos) /\ Represented(pos)
                         /\ \A k \in retry_cache : \E n \in 1 .. pos : cacheKey[new[n]] = k
    /\ pc = "rename" => Picked(hk, new, Len(new)) /\ Represented(Len(new))

LEMMA CompactInvariant == ASSUME Faults = {} PROVE Spec => []CompactInv
<1>1. Init => CompactInv
  BY DEF Init, CompactInv
<1>2. CompactInv /\ DurInv /\ TypeInv' /\ [Next]_vars => CompactInv'
  <2> SUFFICES ASSUME CompactInv, DurInv, TypeInv', [Next]_vars PROVE CompactInv'
    OBVIOUS
  <2> USE DEF files, counters, hkVars
  <2>a. /\ TypeOK /\ queue \in Seq(Message) /\ new \in Seq(Message) /\ Copying
    BY DEF DurInv, TypeInv
  <2>1. ASSUME UNCHANGED <<new, hk, pos, retry_cache, now, pc>> PROVE CompactInv'
    <3>1. Picked(hk, new, pos)' <=> Picked(hk, new, pos)
      BY <2>1 DEF Picked
    <3>2. Picked(hk, new, Len(new))' <=> Picked(hk, new, Len(new))
      BY <2>1 DEF Picked
    <3>3. Represented(pos)' <=> Represented(pos)
      BY <2>1 DEF Represented, KeptKey, ExpiredKey, is_expired
    <3>4. Represented(Len(new))' <=> Represented(Len(new))
      BY <2>1 DEF Represented, KeptKey, ExpiredKey, is_expired
    <3> QED BY <2>1, <3>1, <3>2, <3>3, <3>4 DEF CompactInv
  <2>2. CASE Tick \/ UNCHANGED vars
    BY <2>1, <2>2 DEF Tick, vars
  <2>3. ASSUME pc' \notin {"copyQueue", "copyNew", "rename"} PROVE CompactInv'
    BY <2>3 DEF CompactInv
  <2>4. CASE (\E ms \in Batches : Put(ms)) \/ Get \/ HkRename \/ HkUnlink \/ Process
    BY <2>3, <2>4 DEF Put, Get, GetCall, GetLine, GetEOF, GetReturn, HkRename, HkUnlink,
                      Process, Stop, Crash, Kill, CrashInPut, Restart, Cleanup
  <2>5. CASE HkStart
    BY <2>5 DEF HkStart, CompactInv
  <2>6. CASE HkLine
    <3>1. pc = "copyNew" /\ pos \in Nat /\ pos < Len(new) /\ pos' = pos + 1
      BY <2>6, <2>a DEF HkLine, copying, src, Copying, TypeOK
    <3>2. UNCHANGED <<new, pc, now>> /\ hk \in Seq(Message)
      BY <2>6, <2>a DEF HkLine, TypeOK
    <3>3. PICK m \in Message : m = new[pos + 1]
      BY <2>a, <3>1, UnreadStep
    <3>4. /\ retry_cache' = retry_cache \cup {cacheKey[m]}
          /\ \/ (in_cache(m) \/ is_expired(m)) /\ UNCHANGED hk
             \/ hk' = Append(hk, m)
      BY <2>6, <3>1, <3>3 DEF HkLine, src
    <3>5. Picked(hk, new, pos) /\ Represented(pos) /\ \A k \in retry_cache : \E n \in 1 .. pos : cacheKey[new[n]] = k
      BY <3>1 DEF CompactInv
    <3>6. Picked(hk, new, pos + 1) /\ Picked(Append(hk, m), new, pos + 1)
      BY <2>a, <3>1, <3>2, <3>3, <3>5, PickedStep
    <3>7. \A n \in 1 .. pos + 1 : n \in 1 .. pos \/ n = pos + 1
      BY <3>1
    <3>8. pos + 1 \in 1 .. Len(new) /\ 1 .. pos \subseteq 1 .. pos + 1 /\ pos + 1 \in 1 .. pos + 1
      BY <2>a, <3>1
    <3>9. cacheKey[new[pos + 1]] = cacheKey[m]
      BY <3>3
    <3>10. \A k \in retry_cache' : \E n \in 1 .. pos + 1 : cacheKey[new[n]] = k
      BY <3>4, <3>5, <3>8, <3>9
    <3>11. \A k : ExpiredKey(k)' <=> ExpiredKey(k)
      BY <3>2 DEF ExpiredKey, is_expired
    <3>12. CASE (in_cache(m) \/ is_expired(m)) /\ UNCHANGED hk
      <4>1. KeptKey(cacheKey[m]) \/ ExpiredKey(cacheKey[m])
        <5>1. CASE in_cache(m)
          BY <3>5, <5>1 DEF in_cache, Represented
        <5>2. CASE is_expired(m)
          BY <3>3, <3>8, <5>2 DEF ExpiredKey
        <5> QED BY <3>12, <5>1, <5>2
      <4>2. \A k : KeptKey(k)' <=> KeptKey(k)
        BY <3>12 DEF KeptKey
      <4>3. Represented(pos + 1)
        BY <3>5, <3>7, <3>9, <4>1 DEF Represented
      <4>4. Represented(pos)'
        BY <3>1, <3>2, <3>11, <4>2, <4>3 DEF Represented
      <4>5. Picked(hk, new, pos)'
        BY <3>1, <3>2, <3>6, <3>12
      <4> QED BY <3>1, <3>2, <3>10, <4>4, <4>5, ZenonT(40) DEF CompactInv, Represented, Picked
    <3>13. CASE hk' = Append(hk, m)
      <4>1. KeptKey(cacheKey[m])' /\ \A k : KeptKey(k) => KeptKey(k)'
        <5>1. /\ Len(hk') = Len(hk) + 1 /\ Len(hk) \in Nat /\ hk'[Len(hk) + 1] = m
              /\ \A j \in 1 .. Len(hk) : hk'[j] = hk[j]
          BY <3>2, <3>3, <3>13
        <5>2. 1 .. Len(hk) \subseteq 1 .. Len(hk') /\ Len(hk) + 1 \in 1 .. Len(hk')
          BY <5>1
        <5>3. KeptKey(cacheKey[m])'
          BY <5>1, <5>2 DEF KeptKey
        <5>4. ASSUME NEW k, KeptKey(k) PROVE KeptKey(k)'
          <6>1. PICK j \in 1 .. Len(hk) : cacheKey[hk[j]] = k
            BY <5>4 DEF KeptKey
          <6>2. j \in 1 .. Len(hk') /\ cacheKey[hk'[j]] = k
            BY <5>1, <5>2, <6>1
          <6> QED BY <6>2 DEF KeptKey
        <5> QED BY <5>3, <5>4
      <4>2. ASSUME NEW n \in 1 .. pos + 1 PROVE KeptKey(cacheKey[new[n]])' \/ ExpiredKey(cacheKey[new[n]])'
        <5>1. CASE n \in 1 .. pos
          BY <3>5, <3>11, <4>1, <5>1, <3>2 DEF Represented
        <5>2. CASE n = pos + 1
          BY <3>2, <3>9, <4>1, <5>2
        <5> QED BY <3>7, <5>1, <5>2
      <4>4. Represented(pos)'
        BY <3>1, <3>2, <4>2 DEF Represented
      <4>3. Picked(hk, new, pos)'
        BY <3>1, <3>2, <3>6, <3>13
      <4> QED BY <3>1, <3>2, <3>10, <4>3, <4>4 DEF CompactInv, Represented, Picked
    <3> QED BY <3>4, <3>12, <3>13
  <2>7. CASE HkEndOfFile
    <3>1. /\ UNCHANGED <<new, hk, retry_cache, now>> /\ pos' = 0 /\ copying /\ pos = Len(src)
          /\ pc' = IF pc = "copyQueue" THEN "copyNew" ELSE "rename"
      BY <2>7 DEF HkEndOfFile
    <3>2. CASE pc = "copyQueue"
      <4>1. hk' = <<>> /\ retry_cache' = {} /\ pos' = 0 /\ pc' = "copyNew"
        BY <2>a, <3>1, <3>2 DEF Copying, CompactInv
      <4>2. Picked(hk, new, pos)'
        BY <4>1, PickedNone
      <4>3. 1 .. pos' = {}
        BY <4>1
      <4>4. Represented(pos)'
        BY <4>3 DEF Represented
      <4> QED BY <4>1, <4>2, <4>3, <4>4 DEF CompactInv
    <3>3. CASE pc = "copyNew"
      <4>1. pos = Len(new) /\ pc' = "rename"
        BY <3>1, <3>3 DEF src
      <4>2. Picked(hk, new, Len(new)) /\ Represented(Len(new))
        BY <3>3, <4>1 DEF CompactInv
      <4>3. Represented(Len(new))'
        BY <3>1, <4>2 DEF Represented, KeptKey, ExpiredKey, is_expired
      <4>4. Picked(hk, new, Len(new))'
        BY <3>1, <4>2
      <4> QED BY <4>1, <4>3, <4>4 DEF CompactInv, Picked
    <3> QED BY <3>1, <3>2, <3>3 DEF copying
  <2>8. ~ HkException
    BY Zenon DEF HkException
  <2> QED BY <2>2, <2>4, <2>5, <2>6, <2>7, <2>8 DEF Next, on_housekeeping
<1> QED BY <1>1, <1>2, DurableInvariant, TypeInvariant, PTL DEF Spec

-----------------------------------------------------------------------------
(* Sequences cut at a reading position. *)
LEMMA AfterEnds ==
    ASSUME NEW s \in Seq(Message), NEW n \in 0 .. Len(s)
    PROVE  /\ After(s, n) \in Seq(Message)
           /\ After(s, 0) = s
           /\ n = Len(s) => After(s, n) = <<>>
           /\ SubSeq(s, 1, n) \o After(s, n) = s
<1>1. Len(s) \in Nat /\ n \in Nat /\ n <= Len(s)
  OBVIOUS
<1>2. After(s, n) \in Seq(Message)
  BY <1>1 DEF After
<1>3. SubSeq(s, 1, Len(s)) = s
  BY SubSeqFull
<1>4. After(s, 0) = s
  BY <1>1, <1>3 DEF After
<1>5. n = Len(s) => After(s, n) = <<>>
  BY <1>1, SubSeqEmpty DEF After
<1>6. SubSeq(s, 1, n) \o SubSeq(s, n + 1, Len(s)) = SubSeq(s, 1, Len(s))
  <2>1. 1 \in 1 .. Len(s) + 1 /\ n \in 1 - 1 .. Len(s) /\ Len(s) \in n .. Len(s)
    BY <1>1
  <2> QED BY <2>1, ConcatAdjacentSubSeq
<1> QED BY <1>2, <1>3, <1>4, <1>5, <1>6 DEF After

LEMMA AfterStep ==
    ASSUME NEW s \in Seq(Message), NEW n \in Nat, n < Len(s), NEW t \in Seq(Message)
    PROVE  /\ After(s, n) \o t # <<>>
           /\ Head(After(s, n) \o t) = s[n + 1]
           /\ Tail(After(s, n) \o t) = After(s, n + 1) \o t
           /\ SubSeq(s, 1, n + 1) = Append(SubSeq(s, 1, n), s[n + 1])
<1>1. Len(s) \in Nat /\ n + 1 \in 1 .. Len(s) /\ Len(s) \in n + 1 .. Len(s)
  OBVIOUS
<1>2. SubSeq(s, n + 1, Len(s)) = <<s[n + 1]>> \o SubSeq(s, n + 2, Len(s))
  <2> DEFINE k == n + 1
  <2>1. k \in 1 .. Len(s) /\ Len(s) \in k .. Len(s)
    BY <1>1
  <2> HIDE DEF k
  <2>2. SubSeq(s, k, Len(s)) = <<s[k]>> \o SubSeq(s, k + 1, Len(s))
    BY <2>1, SubSeqRecursiveFirst
  <2>3. k = n + 1 /\ k + 1 = n + 2
    BY DEF k
  <2> QED BY <2>2, <2>3
<1>3. s[n + 1] \in Message /\ SubSeq(s, n + 2, Len(s)) \in Seq(Message) /\ SubSeq(s, 1, n) \in Seq(Message)
  BY <1>1
<1> DEFINE e == s[n + 1]
           r == SubSeq(s, n + 2, Len(s))
<1>4. After(s, n) = <<e>> \o r /\ After(s, n + 1) = r
  <2>1. n + 1 + 1 = n + 2
    OBVIOUS
  <2> QED BY <1>2, <2>1 DEF After
<1>5. e \in Message /\ r \in Seq(Message)
  BY <1>3
<1> HIDE DEF e, r
<1>6. After(s, n) \o t = <<e>> \o (r \o t)
  <2>1. <<e>> \in Seq(Message)
    BY <1>5
  <2> QED BY <1>4, <1>5, <2>1, ConcatAssociative
<1>7. r \o t \in Seq(Message)
  BY <1>5
<1>8. \A u \in Seq(Message) : <<e>> \o u # <<>> /\ Head(<<e>> \o u) = e /\ Tail(<<e>> \o u) = u
  <2> SUFFICES ASSUME NEW u \in Seq(Message) PROVE <<e>> \o u # <<>> /\ Head(<<e>> \o u) = e /\ Tail(<<e>> \o u) = u
    OBVIOUS
  <2> DEFINE w == <<e>> \o u
  <2>1. w \in Seq(Message) /\ Len(w) = Len(u) + 1 /\ w[1] = e /\ \A i \in 1 .. Len(u) : w[i + 1] = u[i]
    BY <1>5
  <2>2. w # <<>> /\ Len(u) \in Nat
    BY <2>1
  <2> HIDE DEF w
  <2>3. Tail(w) \in Seq(Message) /\ Len(Tail(w)) = Len(u) /\ \A i \in 1 .. Len(u) : Tail(w)[i] = u[i]
    BY <2>1, <2>2
  <2>4. Tail(w) = u
    BY <2>3, SeqEqual
  <2>5. Head(w) = e
    BY <2>1, <2>2
  <2> QED BY <2>2, <2>4, <2>5 DEF w
<1>9. SubSeq(s, 1, n + 1) = Append(SubSeq(s, 1, n), e)
  <2> DEFINE k == n + 1
  <2>1. 1 \in 1 .. Len(s) /\ k \in 1 .. Len(s) /\ k - 1 = n
    BY <1>1
  <2> HIDE DEF k
  <2>2. SubSeq(s, 1, k) = SubSeq(s, 1, k - 1) \o <<s[k]>>
    BY <2>1, SubSeqRecursiveSecond
  <2>3. Append(SubSeq(s, 1, n), e) = SubSeq(s, 1, n) \o <<e>>
    BY <1>3, <1>5, AppendIsConcat
  <2> QED BY <2>1, <2>2, <2>3 DEF k, e
<1> QED BY <1>4, <1>6, <1>7, <1>8, <1>9 DEF e

LEMMA ConcatAgain ==
    \A s, t, u \in Seq(Message) : s \o t \in Seq(Message) /\ (s \o t) \o u = s \o (t \o u)
<1> SUFFICES ASSUME NEW s \in Seq(Message), NEW t \in Seq(Message), NEW u \in Seq(Message)
             PROVE  s \o t \in Seq(Message) /\ (s \o t) \o u = s \o (t \o u)
  OBVIOUS
<1>1. (s \o t) \o u = s \o (t \o u)
  BY ConcatAssociative
<1>2. s \o t \in Seq(Message)
  OBVIOUS
<1> QED BY <1>1, <1>2

LEMMA ConcatPrefix ==
    ASSUME NEW s \in Seq(Message), NEW t \in Seq(Message)
    PROVE  Abstract!IsPrefixOf(s, s \o t)
<1>1. Len(s) \in Nat /\ Len(s) <= Len(s \o t)
  OBVIOUS
<1>2. SubSeq(s \o t, 1, Len(s)) = s
  <2> DEFINE u == SubSeq(s \o t, 1, Len(s))
  <2>1. u \in Seq(Message) /\ Len(u) = Len(s) /\ \A i \in 1 .. Len(u) : u[i] = s[i]
    BY <1>1
  <2> HIDE DEF u
  <2>2. u = s
    BY <2>1, SeqEqual
  <2> QED BY <2>2 DEF u
<1> QED BY <1>1, <1>2 DEF Abstract!IsPrefixOf

-----------------------------------------------------------------------------
(* The refinement mapping, as in DiskQueue. *)
Waiting == IF newIsStale THEN After(queue, fp) ELSE After(queue, fp) \o new
Repeated == SubSeq(queue, 1, fp)
LeftOut == IF pc = "unlink" THEN new ELSE <<>>
Up == pc # "down"

LEMMA InitRefines == Init => Abstract!QInit
<1>1. After(<<>>, 0) = <<>> /\ <<>> \o <<>> = <<>> /\ SubSeq(<<>>, 1, 0) = <<>>
  BY SubSeqEmpty DEF After
<1> QED BY <1>1 DEF Init, Abstract!QInit, newIsStale

(* A step that changes nothing of what the mapping looks at. *)
LEMMA SameView ==
    ASSUME UNCHANGED <<queue, new, queueAge, newAge, fp>>, ~ newIsStale <=> ~ newIsStale',
           (pc = "unlink") <=> (pc' = "unlink"), (pc = "down") <=> (pc' = "down")
    PROVE  UNCHANGED Abstract!qvars
BY DEF Abstract!qvars

LEMMA StepRefines == ASSUME DurInv, CompactInv, [Next]_vars, Faults = {} PROVE [Abstract!QNext]_(Abstract!qvars)
<1> USE DEF files, counters, hkVars
<1>a. /\ TypeOK /\ FpWhenOpen /\ queue \in Seq(Message) /\ new \in Seq(Message)
      /\ CountAvailable /\ Copying /\ Ages /\ fp \in 0 .. Len(queue) /\ hk \in Seq(Message)
  BY DEF DurInv, TypeInv, TypeOK
<1>b. ASSUME pc \in {"idle", "get", "copyQueue", "copyNew", "rename"} PROVE ~ newIsStale
  BY <1>b DEF newIsStale
<1>1. CASE UNCHANGED vars \/ Tick
  BY <1>1, SameView DEF vars, Tick, newIsStale, newIsOlder
<1>2. ASSUME NEW ms \in Batches, Put(ms) PROVE Abstract!Accept
  <2>1. pc = "idle" /\ UNCHANGED <<queue, fp, pc>> /\ new' = Extend(new, ms)
    BY <1>2 DEF Put
  <2>2. ms \in Seq(Message) /\ Extend(new, ms) = new \o ms
    BY <1>a, BatchesAreSequences, PutAppends
  <2>3. After(queue, fp) \in Seq(Message)
    BY <1>a, AfterEnds
  <2>4. After(queue, fp) \o (new \o ms) = (After(queue, fp) \o new) \o ms /\ After(queue, fp) \o new \in Seq(Message)
    <3> DEFINE unread == After(queue, fp)
    <3>1. unread \in Seq(Message)
      BY <2>3
    <3> HIDE DEF unread
    <3>2. unread \o (new \o ms) = (unread \o new) \o ms /\ unread \o new \in Seq(Message)
      BY <1>a, <2>2, <3>1, ConcatAgain, Zenon
    <3> QED BY <3>2 DEF unread
  <2>5. Waiting = After(queue, fp) \o new /\ Waiting' = After(queue, fp) \o (new \o ms)
    BY <2>1, <2>2 DEF Waiting, newIsStale
  <2>6. Abstract!IsPrefixOf(Waiting, Waiting')
    BY <2>2, <2>4, <2>5, ConcatPrefix
  <2>7. Up /\ UNCHANGED <<Repeated, LeftOut, Up>>
    BY <2>1 DEF Repeated, LeftOut, Up
  <2> QED BY <2>6, <2>7 DEF Abstract!Accept, Abstract!IsPrefixOf, Waiting, Repeated, LeftOut, Up
<1>3. CASE \E n \in 1 .. MaxBatch : GetCall(n)
  BY <1>3, SameView DEF GetCall, newIsStale
<1>4. CASE GetLine
  <2>1. pc = "get" /\ fp \in Nat /\ fp < Len(queue) /\ fp' = fp + 1 /\ UNCHANGED <<queue, new, pc>>
    BY <1>a, <1>4 DEF GetLine
  <2>2. Waiting = After(queue, fp) \o new /\ Waiting' = After(queue, fp + 1) \o new
    BY <2>1 DEF Waiting, newIsStale
  <2>3. Waiting # <<>> /\ Head(Waiting) = queue[fp + 1] /\ Waiting' = Tail(Waiting)
    BY <1>a, <2>1, <2>2, AfterStep
  <2>4. Repeated' = Append(Repeated, Head(Waiting))
    BY <1>a, <2>1, <2>3, AfterStep DEF Repeated
  <2>5. Up /\ UNCHANGED <<LeftOut, Up>>
    BY <2>1 DEF LeftOut, Up
  <2>6. Abstract!HandOut
    BY <2>3, <2>4, <2>5 DEF Abstract!HandOut, Waiting, Repeated, LeftOut, Up
  <2> QED BY <2>6 DEF Abstract!QNext
<1>5. CASE GetEOF \/ (GetReturn /\ msg_count = 0)
  <2>1. pc = "get" /\ pc' = "idle" /\ queue' = <<>> /\ fp' = 0 /\ UNCHANGED new
    BY <1>5 DEF GetEOF, GetReturn, exhausted
  <2>2. fp = Len(queue)
    BY <1>5, <1>a, <2>1 DEF GetEOF, CountAvailable
  <2>3. After(queue, fp) = <<>> /\ After(<<>>, 0) = <<>> /\ SubSeq(<<>>, 1, 0) = <<>>
    BY <1>a, <2>2, AfterEnds, SubSeqEmpty DEF After
  <2>4. Waiting' = Waiting /\ Repeated' = <<>>
    BY <2>1, <2>3 DEF Waiting, Repeated, newIsStale
  <2>5. Up /\ UNCHANGED <<LeftOut, Up>>
    BY <2>1 DEF LeftOut, Up
  <2>6. Abstract!Forget
    BY <2>4, <2>5 DEF Abstract!Forget, Waiting, Repeated, LeftOut, Up
  <2> QED BY <2>6 DEF Abstract!QNext
<1>6. CASE GetReturn /\ msg_count # 0
  BY <1>6, SameView DEF GetReturn, newIsStale
<1>7. CASE HkStart
  <2>1. pc = "idle" /\ ~ unfinished /\ fp' = 0 /\ pc' = "copyQueue" /\ UNCHANGED <<queue, new, queueAge, newAge>>
    BY <1>7 DEF HkStart, close
  <2>2. fp = 0
    BY <1>a, <2>1 DEF unfinished, CountAvailable
  <2> QED BY <2>1, <2>2, SameView DEF newIsStale
<1>8. CASE HkLine \/ HkEndOfFile
  <2>1. pc \in {"copyQueue", "copyNew"} /\ pc' \in {"copyQueue", "copyNew", "rename"} /\ UNCHANGED <<queue, new, queueAge, newAge, fp>>
    BY <1>8 DEF HkLine, HkEndOfFile, copying
  <2> QED BY <2>1, SameView DEF newIsStale
<1>9. CASE HkRename
  <2>1. pc = "rename" /\ pc' = "unlink" /\ fp = 0 /\ fp' = 0 /\ queue = <<>> /\ N = Len(hk) /\ UNCHANGED new
    BY <1>9, <1>a DEF HkRename, Copying, FpWhenOpen
  <2>2. queue' = hk
    BY <1>9, <1>a, <2>1 DEF HkRename
  <2>3. After(<<>>, 0) = <<>> /\ SubSeq(<<>>, 1, 0) = <<>> /\ <<>> \o new = new /\ After(hk, 0) = hk /\ SubSeq(hk, 1, 0) = <<>>
    <3>1. 0 \in 0 .. Len(hk)
      BY <1>a
    <3> QED BY <1>a, <3>1, AfterEnds, SubSeqEmpty, ConcatEmptySeq DEF After
  <2>4. Waiting = new /\ Waiting' = hk /\ Repeated = <<>> /\ Repeated' = <<>>
    BY <2>1, <2>2, <2>3 DEF Waiting, Repeated, newIsStale
  <2>5. LeftOut = <<>> /\ LeftOut' = new /\ Up /\ Up'
    BY <2>1 DEF LeftOut, Up
  <2>6. Picked(hk, new, Len(new)) /\ Represented(Len(new))
    BY <2>1 DEF CompactInv
  <2>7. Abstract!IsSubsequenceOf(Waiting', Waiting)
    BY <2>4, <2>6 DEF Picked, Abstract!IsSubsequenceOf
  <2>8. \A e \in Abstract!Elements(Waiting) :
            \/ \E d \in Abstract!Elements(Waiting') : cacheKey[d] = cacheKey[e]
            \/ \E d \in Abstract!Elements(Waiting) : cacheKey[d] = cacheKey[e] /\ d \in {m \in Message : is_expired(m)}
    <3> SUFFICES ASSUME NEW n \in 1 .. Len(new)
                 PROVE  \/ \E d \in Abstract!Elements(hk) : cacheKey[d] = cacheKey[new[n]]
                        \/ \E d \in Abstract!Elements(new) : cacheKey[d] = cacheKey[new[n]] /\ d \in {m \in Message : is_expired(m)}
      BY <2>4 DEF Abstract!Elements
    <3>1. CASE KeptKey(cacheKey[new[n]])
      BY <3>1 DEF KeptKey, Abstract!Elements
    <3>2. CASE ExpiredKey(cacheKey[new[n]])
      <4>1. PICK j \in 1 .. Len(new) : cacheKey[new[j]] = cacheKey[new[n]] /\ is_expired(new[j])
        BY <3>2 DEF ExpiredKey
      <4>2. new[j] \in Message
        BY <1>a
      <4> QED BY <4>1, <4>2 DEF Abstract!Elements
    <3> QED BY <2>6, <3>1, <3>2 DEF Represented
  <2>9. Abstract!Compact
    BY <2>4, <2>5, <2>7, <2>8 DEF Abstract!Compact, Abstract!Elements, Abstract!IsSubsequenceOf, Waiting,
       Repeated, LeftOut, Up
  <2> QED BY <2>9 DEF Abstract!QNext
<1>10. CASE HkUnlink
  <2>1. pc = "unlink" /\ pc' = "idle" /\ new' = <<>> /\ UNCHANGED <<queue, fp>>
    BY <1>10 DEF HkUnlink
  <2>2. After(queue, fp) \in Seq(Message) /\ After(queue, fp) \o <<>> = After(queue, fp)
    BY <1>a, AfterEnds, ConcatEmptySeq
  <2>3. Waiting' = Waiting /\ LeftOut' = <<>> /\ Up /\ Up' /\ UNCHANGED Repeated
    BY <2>1, <2>2 DEF Waiting, LeftOut, Up, Repeated, newIsStale
  <2>4. Abstract!Dispose
    BY <2>3 DEF Abstract!Dispose, Waiting, Repeated, LeftOut, Up
  <2> QED BY <2>4 DEF Abstract!QNext
<1>11. CASE Stop \/ Crash
  <2>1. pc # "down" /\ pc' = "down" /\ fp' = 0 /\ UNCHANGED <<queue, new, queueAge, newAge>>
    BY <1>11 DEF Stop, Crash, Kill, close
  <2>2. /\ After(queue, fp) \in Seq(Message) /\ After(queue, 0) = queue /\ SubSeq(queue, 1, 0) = <<>>
        /\ SubSeq(queue, 1, fp) \o After(queue, fp) = queue /\ SubSeq(queue, 1, fp) \in Seq(Message)
    BY <1>a, AfterEnds, SubSeqEmpty
  <2>3. SubSeq(queue, 1, fp) \o (After(queue, fp) \o new) = queue \o new
    <3> DEFINE unread == After(queue, fp)
               read == SubSeq(queue, 1, fp)
    <3>1. unread \in Seq(Message) /\ read \in Seq(Message)
      BY <2>2
    <3>3. read \o unread = queue
      BY <2>2
    <3> HIDE DEF unread, read
    <3>2. read \o (unread \o new) = (read \o unread) \o new
      <4>1. new \in Seq(Message)
        BY <1>a
      <4>2. (read \o unread) \o new = read \o (unread \o new)
        BY ONLY <3>1, <4>1, ConcatAgain, ZenonT(40)
      <4> QED BY <4>2
    <3> QED BY <3>2, <3>3 DEF unread, read
  <2>4. Waiting' = (IF newIsOlder THEN queue ELSE queue \o new) /\ Repeated' = <<>> /\ LeftOut' = <<>> /\ Up /\ ~ Up'
    BY <2>1, <2>2 DEF Waiting, Repeated, LeftOut, Up, newIsStale, newIsOlder
  <2>5. Waiting' \in {Repeated \o Waiting, Repeated \o Waiting \o LeftOut}
    <3>1. CASE pc = "unlink"
      <4>1. Repeated \o Waiting = queue /\ LeftOut = new
        BY <2>2, <3>1 DEF Waiting, Repeated, LeftOut, newIsStale
      <4>2. Repeated \o Waiting \o LeftOut = queue \o new
        BY <4>1
      <4> QED BY <2>4, <4>1, <4>2
    <3>2. CASE pc # "unlink"
      <4>1. newIsOlder => new = <<>>
        BY <1>a, <2>1, <3>2 DEF Ages
      <4>2. Repeated \o Waiting = queue \o new
        BY <2>1, <2>3, <3>2 DEF Waiting, Repeated, newIsStale
      <4>3. queue \o <<>> = queue
        BY <1>a, ConcatEmptySeq
      <4> QED BY <2>4, <4>1, <4>2, <4>3
    <3> QED BY <3>1, <3>2
  <2>6. Abstract!Die
    BY <2>4, <2>5 DEF Abstract!Die, Waiting, Repeated, LeftOut, Up
  <2> QED BY <2>6 DEF Abstract!QNext
<1>12. CASE Restart
  <2>1. pc = "down" /\ pc' = "idle" /\ fp = 0 /\ fp' = 0 /\ UNCHANGED queue /\ new' = IF newIsOlder THEN <<>> ELSE new
    BY <1>12, <1>a DEF Restart, FpWhenOpen
  <2>2. After(queue, 0) \o <<>> = After(queue, 0)
    BY <1>a, AfterEnds, ConcatEmptySeq
  <2>3. Waiting' = Waiting /\ UNCHANGED <<Repeated, LeftOut>> /\ ~ Up /\ Up'
    BY <2>1, <2>2 DEF Waiting, LeftOut, Up, Repeated, newIsStale
  <2>4. Abstract!Recover
    BY <2>3 DEF Abstract!Recover, Waiting, Repeated, LeftOut, Up
  <2> QED BY <2>4 DEF Abstract!QNext
<1>13. CASE Cleanup
  <2>1. pc = "down" /\ pc' = "down" /\ queue' = <<>> /\ new' = <<>> /\ fp = 0 /\ fp' = 0
    BY <1>13, <1>a DEF Cleanup, FpWhenOpen
  <2>2. After(<<>>, 0) = <<>> /\ <<>> \o <<>> = <<>> /\ SubSeq(<<>>, 1, 0) = <<>> /\ SubSeq(queue, 1, 0) = <<>>
    BY SubSeqEmpty DEF After
  <2>3. Waiting' = <<>> /\ UNCHANGED <<Repeated, LeftOut>> /\ ~ Up /\ ~ Up'
    BY <2>1, <2>2 DEF Waiting, LeftOut, Up, Repeated, newIsStale, newIsOlder
  <2>4. Abstract!Purge
    BY <2>3 DEF Abstract!Purge, Waiting, Repeated, LeftOut, Up
  <2> QED BY <2>4 DEF Abstract!QNext
<1>14. ~ HkException /\ \A ms, k : ~ CrashInPut(ms, k)
  BY DEF HkException, CrashInPut
<1> QED BY <1>1, <1>2, <1>3, <1>4, <1>5, <1>6, <1>7, <1>8, <1>9, <1>10, <1>11, <1>12, <1>13, <1>14
        DEF Next, Get, on_housekeeping, Process, Abstract!QNext

(* Without torn writes and failing system calls, the three files and two counters implement
   the first-in first-out queue with at-least-once delivery of RetryQueue, through every
   housekeeping, kill and restart. *)
THEOREM Refinement == ASSUME Faults = {} PROVE Spec => ImplementsRetryQueue
BY InitRefines, StepRefines, DurableInvariant, CompactInvariant, PTL DEF Spec, ImplementsRetryQueue,
   Abstract!QSpec

-----------------------------------------------------------------------------
(* The state files of a configuration: the names of its queues, and their bindings. *)

(* A parser (a process or command that parses the configuration) is at work on the queues. *)
On(j) == parser[j].pc \notin {"off", "disabled"}

(* It has resolved all its queue names. *)
Past(j) == On(j) /\ parser[j].pc # "resolve"

(* What it resolves is used: an instance parses twice, a worker goes by the second time only. *)
Counts(j) == On(j) /\ (j = "worker" => parser[j].parse = 2)

(* It has read the state file, and has not yet gone through what it read. *)
Reading(j) == Q!Writes(j) /\ parser[j].pc = "resolve" /\ parser[j].old.state = "whole"

(* It has written the state file (finalize), and so binds, or has, what it says there. *)
Written(j) == Q!Writes(j) /\ (parser[j].pc = "write" \/ (Q!Connects(j) /\ parser[j].pc \in {"qname", "rename", "parsed"}))

(* It is to bind that, and unbind what it found to remove. *)
Pending(j) == Written(j) /\ Q!Connects(j)

(* The broker user of the first subscription, after whom the .qname file is named. *)
FirstUser == qopt.users[1]

(* Names of queues, in the order of the subscriptions. *)
Names == Seq(Nat \ {Q!NoName})

(* Sets of topics, with the one an old file without a subscription would be read as. *)
Topics == SUBSET (Topic \cup {CHOOSE t \in Topic : TRUE})

(* A state file (subscriptions.json): absent, opened for writing or complete. *)
File == [state : {"none", "torn", "whole"}, names : Names, topics : Topics]

(* What a parser has in memory. *)
Parsing ==
    [pc : {"off", "disabled", "resolve", "write", "qname", "rename", "parsed", "running"},
     action : {"none", "start", "declare", "cleanup"}, parse : {1, 2}, old : File, names : Names,
     remove : Topics, topics : Topics]

(* A complete state file has a queue for every subscription: finalize writes it at once. *)
FileRight(file) == file.state = "whole" => Len(file.names) = Q!NSub

(* What a parser has resolved, by how far it is, and what it was started for. *)
ParserRight(j, p) ==
    /\ Len(p.names) <= Q!NSub
    /\ p.old.state # "torn" /\ FileRight(p.old)
    /\ p.pc \notin {"off", "disabled", "resolve"} => Len(p.names) = Q!NSub
    /\ j = "cli" => p.parse = 1 /\ (p.pc \in {"write", "qname", "rename"} => p.action \in {"start", "declare"})
    /\ j # "cli" => (p.pc \notin {"off", "disabled"} => p.action = "start")
    /\ p.pc = "running" => p.parse = 2 /\ j # "cli"
    /\ j = "worker" => p.pc \notin {"write", "qname", "rename"}

(* The types of the state of queues. *)
QueueTypes ==
    /\ qopt \in Q!QueueOptions
    /\ parser \in [Q!Parser -> Parsing]
    /\ subs \in File /\ FileRight(subs)
    /\ qname \in [Q!User -> Nat] /\ qtmp \subseteq Q!User
    /\ kept \in Names /\ conf \in Topics /\ nextName \in Nat \ {0} /\ qkills \in Nat
    /\ {stateDir, leadPid, torn, missed} \subseteq BOOLEAN
    /\ \A j \in Q!Parser : ParserRight(j, parser[j])

(* The subscriptions have one or two queues, with users known (parse_file, Subscriptions.add). *)
LEMMA OptionFacts ==
    ASSUME qopt \in Q!QueueOptions
    PROVE  Q!NSub \in {1, 2} /\ FirstUser \in Q!User /\ Q!LastUser \in Q!User /\ (Q!NSub = 1 => Q!LastUser = FirstUser)
           /\ Q!NoSubs \in File /\ Q!NoSubs.state = "none" /\ <<>> \in Names
<1>1. qopt.users \in {<<"a">>, <<"a", "a">>, <<"a", "b">>}
  BY DEF Q!QueueOptions
<1>2. <<>> \in Names
  BY DEF Names
<1>3. Q!NoSubs \in File /\ Q!NoSubs.state = "none"
  BY <1>2 DEF Q!NoSubs, File, Topics
<1> QED BY <1>1, <1>2, <1>3, SMTT(40) DEF Q!NSub, FirstUser, Q!LastUser, Q!User

(* How a parser begins (Configuration.__init__, finalize): with no name resolved and nothing read. *)
LEMMA BeginFacts ==
    ASSUME qopt \in Q!QueueOptions, NEW action \in {"start", "declare", "cleanup"}
    PROVE  /\ Q!Off \in Parsing /\ Q!Off.pc = "off" /\ Q!Off.parse = 1 /\ Q!Off.old = Q!NoSubs /\ Q!Off.names = <<>>
           /\ Q!Begin(action) \in Parsing
           /\ Q!Begin(action).pc = "resolve" /\ Q!Begin(action).action = action /\ Q!Begin(action).parse = 1
           /\ Q!Begin(action).old = Q!NoSubs /\ Q!Begin(action).names = <<>>
           /\ [Q!Begin(action) EXCEPT !.parse = 2] \in Parsing
           /\ [Q!Begin(action) EXCEPT !.parse = 2].pc = "resolve" /\ [Q!Begin(action) EXCEPT !.parse = 2].action = action
           /\ [Q!Begin(action) EXCEPT !.parse = 2].parse = 2 /\ [Q!Begin(action) EXCEPT !.parse = 2].old = Q!NoSubs
           /\ [Q!Begin(action) EXCEPT !.parse = 2].names = <<>>
<1>1. Q!NoSubs \in File /\ <<>> \in Names /\ {} \in Topics
  BY OptionFacts DEF Topics
<1>2. Q!Off \in Parsing /\ Q!Off.pc = "off" /\ Q!Off.parse = 1 /\ Q!Off.old = Q!NoSubs /\ Q!Off.names = <<>>
  BY <1>1 DEF Parsing, Q!Off
<1>3. /\ Q!Begin(action) \in Parsing
      /\ Q!Begin(action).pc = "resolve" /\ Q!Begin(action).action = action /\ Q!Begin(action).parse = 1
      /\ Q!Begin(action).old = Q!NoSubs /\ Q!Begin(action).names = <<>>
  BY <1>2 DEF Parsing, Q!Begin
<1> DEFINE p == Q!Begin(action)
<1>4. /\ [p EXCEPT !.parse = 2] \in Parsing
      /\ [p EXCEPT !.parse = 2].pc = "resolve" /\ [p EXCEPT !.parse = 2].action = action
      /\ [p EXCEPT !.parse = 2].parse = 2 /\ [p EXCEPT !.parse = 2].old = Q!NoSubs
      /\ [p EXCEPT !.parse = 2].names = <<>>
  <2> p \in Parsing /\ p.pc = "resolve" /\ p.action = action /\ p.parse = 1 /\ p.old = Q!NoSubs /\ p.names = <<>>
    BY <1>3
  <2> HIDE DEF p
  <2> QED BY DEF Parsing
<1> QED BY <1>2, <1>3, <1>4

(* The types of what a step of one parser leaves, from what it becomes. *)
LEMMA ParserTypes ==
    ASSUME QueueTypes, NEW j \in Q!Parser, NEW p, p \in Parsing, ParserRight(j, p),
           parser' = [parser EXCEPT ![j] = p], qopt' = qopt
    PROVE  parser' \in [Q!Parser -> Parsing] /\ (\A k \in Q!Parser : ParserRight(k, parser[k])')
           /\ Q!NSub' = Q!NSub /\ Q!LastUser' = Q!LastUser
<1>1. Q!NSub' = Q!NSub /\ Q!LastUser' = Q!LastUser
  BY DEF Q!NSub, Q!LastUser
<1>2. \A q : \A k \in Q!Parser : ParserRight(k, q)' <=> ParserRight(k, q)
  BY <1>1 DEF ParserRight, FileRight
<1> QED BY <1>1, <1>2 DEF QueueTypes

(* What a subscription is resolved to. *)
LEMMA ResolveFacts ==
    ASSUME QueueTypes, NEW j \in Q!Parser, Q!Resolve(j)
    PROVE  \E name \in Nat \ {Q!NoName}, p \in Parsing :
              /\ parser[j].pc = "resolve" /\ Len(parser[j].names) + 1 \in 1 .. Q!NSub
              /\ Q!Old(j) \in File /\ Q!Old(j).state # "torn" /\ FileRight(Q!Old(j))
              /\ Q!Old(j).state = "whole" => name = Q!Old(j).names[Len(parser[j].names) + 1]
              /\ Q!Old(j).state # "whole" => name = IF Q!FromQname(j) = Q!NoName THEN nextName ELSE Q!FromQname(j)
              /\ parser' = [parser EXCEPT ![j] = p] /\ ParserRight(j, p)
              /\ \/ j = "worker" /\ p = Q!Off
                 \/ /\ p.pc = "resolve" /\ p.old = Q!Old(j) /\ p.names = Append(parser[j].names, name)
                    /\ p.action = parser[j].action /\ p.parse = parser[j].parse
              /\ torn' = (torn \/ (subs.state = "torn" /\ Q!Old(j).state = "none")) /\ nextName' \in Nat \ {0}
              /\ UNCHANGED <<qopt, subs, qname, qtmp, stateDir, leadPid, queues, bound, conf, qcommands, qkills,
                            edits, kept, wanted, missed>>
<1> DEFINE old == Q!Old(j)
           n == Len(parser[j].names) + 1
           found == IF old.state = "whole" THEN old.names[n] ELSE Q!FromQname(j)
           name == IF found = Q!NoName THEN nextName ELSE found
<1>1. n \in 1 .. Q!NSub /\ parser[j].pc = "resolve" /\ Q!NSub \in {1, 2} /\ parser[j] \in Parsing
  BY OptionFacts DEF QueueTypes, Q!Resolve, Parsing, Names
<1>2. old \in File /\ old.state # "torn" /\ FileRight(old)
  BY <1>1, OptionFacts DEF QueueTypes, ParserRight, Q!Old, Parsing, FileRight
<1>3. name \in Nat \ {Q!NoName} /\ (old.state = "whole" => name = old.names[n])
  <2>1. old.state = "whole" => old.names[n] \in Nat \ {Q!NoName}
    BY <1>1, <1>2 DEF FileRight, File, Names
  <2>2. Q!FromQname(j) \in Nat
    BY OptionFacts DEF QueueTypes, Q!FromQname, FirstUser, Q!NoName
  <2> QED BY <2>1, <2>2 DEF QueueTypes, Q!NoName
<1>4. torn' = (torn \/ (subs.state = "torn" /\ old.state = "none")) /\ nextName' \in Nat \ {0}
      /\ UNCHANGED <<qopt, subs, qname, qtmp, stateDir, leadPid, queues, bound, conf, qcommands, qkills,
                    edits, kept, wanted, missed>>
  <2>1. nextName' \in {nextName, nextName + 1}
    BY DEF Q!Resolve
  <2> QED BY <2>1 DEF Q!Resolve, QueueTypes
<1>5. CASE Q!GivesUp(j)
  <2>1. parser' = [parser EXCEPT ![j] = Q!Off] /\ j = "worker"
    BY <1>5 DEF Q!Resolve, Q!GivesUp
  <2>2. Q!Off \in Parsing /\ ParserRight(j, Q!Off)
    BY BeginFacts, OptionFacts DEF QueueTypes, ParserRight, FileRight, Q!Off
  <2> HIDE DEF old, n, name
  <2> QED BY <1>1, <1>2, <1>3, <1>4, <2>1, <2>2 DEF old, n, name
<1>6. CASE ~Q!GivesUp(j)
  <2> DEFINE names == Append(parser[j].names, name)
             p == [parser[j] EXCEPT !.old = old, !.names = names]
  <2>1. parser' = [parser EXCEPT ![j] = p]
    BY <1>6, <1>1 DEF Q!Resolve, QueueTypes
  <2>2. names \in Names /\ Len(names) = n
    BY <1>1, <1>3 DEF Parsing, Names
  <2>3. p \in Parsing /\ p.pc = "resolve" /\ p.old = old /\ p.names = names
        /\ p.action = parser[j].action /\ p.parse = parser[j].parse /\ ParserRight(j, p)
    <3>1. parser[j] \in Parsing /\ old \in File /\ names \in Names
            /\ p = [parser[j] EXCEPT !.old = old, !.names = names]
      BY <1>1, <1>2, <2>2
    <3>2. ParserRight(j, parser[j]) /\ old.state # "torn" /\ FileRight(old) /\ Len(names) <= Q!NSub
            /\ parser[j].pc = "resolve"
      BY <1>1, <1>2, <2>2 DEF QueueTypes
    <3> HIDE DEF names, p, old, n, name
    <3>3. /\ p \in Parsing /\ p.pc = "resolve" /\ p.old = old /\ p.names = names
          /\ p.action = parser[j].action /\ p.parse = parser[j].parse
      BY <3>1, <3>2 DEF Parsing
    <3> QED BY <3>2, <3>3 DEF ParserRight
  <2> HIDE DEF p, names, old, n, name
  <2> QED BY <1>1, <1>2, <1>3, <1>4, <2>1, <2>3 DEF old, n, name, names
<1> QED BY <1>5, <1>6

(* Resolving a queue name (resolve_queueName) keeps the types. *)
LEMMA ResolveTypes == ASSUME QueueTypes, NEW j \in Q!Parser, Q!Resolve(j) PROVE QueueTypes'
<1>1. PICK p \in Parsing : parser' = [parser EXCEPT ![j] = p] /\ ParserRight(j, p)
  BY ResolveFacts
<1>2. nextName' \in Nat \ {0} /\ torn' \in BOOLEAN
        /\ UNCHANGED <<qopt, subs, qname, qtmp, kept, conf, stateDir, leadPid, missed, qkills>>
  BY ResolveFacts DEF QueueTypes
<1>3. FileRight(subs)'
  BY <1>1, <1>2, ParserTypes DEF QueueTypes, FileRight
<1> QED BY <1>1, <1>2, <1>3, ParserTypes DEF QueueTypes

(* The same of the files, the broker and what the commands leave alone. *)
LEMMA FileTypes ==
    ASSUME QueueTypes, qopt' = qopt, subs' = subs \/ subs'.state # "whole" \/ Len(subs'.names) = Q!NSub
    PROVE  FileRight(subs)' /\ Q!NSub' = Q!NSub
<1>1. Q!NSub' = Q!NSub
  BY DEF Q!NSub
<1> QED BY <1>1 DEF QueueTypes, FileRight

(* Comparing the subscriptions with those read (finalize) keeps the types. *)
LEMMA FinalizeTypes == ASSUME QueueTypes, NEW j \in Q!Parser, Q!Finalize(j) PROVE QueueTypes'
<1> DEFINE stage == IF ~Q!Writes(j) THEN "parsed" ELSE IF stateDir THEN "write" ELSE "qname"
           p == [parser[j] EXCEPT !.remove = Q!BindingsToRemove(j), !.topics = conf, !.old = Q!NoSubs, !.pc = stage]
<1>1. parser[j] \in Parsing /\ Q!BindingsToRemove(j) \in Topics /\ conf \in Topics /\ Q!NoSubs \in File
      /\ Q!NoSubs.state = "none" /\ {} \in Topics /\ parser[j].pc = "resolve" /\ Len(parser[j].names) = Q!NSub
  BY OptionFacts DEF QueueTypes, Parsing, Q!BindingsToRemove, File, Topics, Q!Finalize
<1>2. stage \in {"parsed", "write", "qname"} /\ (stage # "parsed" => Q!Writes(j))
  OBVIOUS
<1>3. parser' = [parser EXCEPT ![j] = p]
  BY <1>1 DEF Q!Finalize, QueueTypes
<1>4. subs' = subs \/ subs' = [Q!NoSubs EXCEPT !.state = "torn"]
  BY DEF Q!Finalize
<1>5. subs' = subs \/ (subs' \in File /\ subs'.state # "whole")
  BY <1>1, <1>4 DEF File
<1>6. p \in Parsing /\ ParserRight(j, p)
  <2> DEFINE remove == Q!BindingsToRemove(j)
             q == [parser[j] EXCEPT !.remove = remove, !.topics = conf, !.old = Q!NoSubs, !.pc = stage]
  <2>1. ParserRight(j, parser[j]) /\ (stage # "parsed" => Q!Writes(j))
    BY <1>2 DEF QueueTypes
  <2> HIDE DEF stage, remove
  <2>2. /\ q \in Parsing /\ q.pc = stage /\ q.old = Q!NoSubs /\ q.names = parser[j].names
        /\ q.action = parser[j].action /\ q.parse = parser[j].parse
    BY <1>1, <1>2 DEF Parsing, remove
  <2> HIDE DEF q
  <2>3. ParserRight(j, q)
    BY <1>1, <1>2, <2>1, <2>2 DEF ParserRight, FileRight, Q!Writes, Q!Parser
  <2> QED BY <2>2, <2>3 DEF q, remove
<1> HIDE DEF p, stage
<1>7. torn' \in BOOLEAN /\ missed' \in BOOLEAN
  BY DEF Q!Finalize, QueueTypes
<1>8. UNCHANGED <<qopt, qname, qtmp, stateDir, leadPid, conf, nextName, kept, qkills>>
  BY DEF Q!Finalize
<1> QED BY <1>3, <1>5, <1>6, <1>7, <1>8, ParserTypes, FileTypes DEF QueueTypes

(* A parser that only goes on. *)
LEMMA PcTypes ==
    ASSUME QueueTypes, NEW j \in Q!Parser, NEW stage \in {"qname", "rename", "parsed", "running"},
           On(j), parser[j].pc # "resolve",
           stage \in {"qname", "rename"} => parser[j].pc \in {"write", "qname", "rename"},
           stage = "running" => parser[j].parse = 2 /\ j # "cli",
           parser' = [parser EXCEPT ![j].pc = stage], qopt' = qopt
    PROVE  parser' \in [Q!Parser -> Parsing] /\ (\A k \in Q!Parser : ParserRight(k, parser[k])')
<1> DEFINE p == [parser[j] EXCEPT !.pc = stage]
<1>1. parser' = [parser EXCEPT ![j] = p]
  BY DEF QueueTypes
<1>2. /\ p \in Parsing /\ p.pc = stage /\ p.old = parser[j].old /\ p.names = parser[j].names
      /\ p.action = parser[j].action /\ p.parse = parser[j].parse
  BY DEF QueueTypes, Parsing
<1> HIDE DEF p
<1>3. ParserRight(j, p)
  BY <1>2 DEF QueueTypes, ParserRight, On, FileRight
<1> QED BY <1>1, <1>2, <1>3, ParserTypes

(* Writing the state file and the .qname file (Subscriptions.write, resolve_queueName) keeps the types. *)
LEMMA WriteTypes ==
    ASSUME QueueTypes, NEW j \in Q!Parser, Q!WriteSubs(j) \/ Q!WriteQname(j) \/ Q!RenameQname(j)
    PROVE  QueueTypes'
<1>1. CASE Q!WriteSubs(j)
  <2>1. On(j) /\ parser[j].pc # "resolve" /\ parser[j] \in Parsing /\ Len(parser[j].names) = Q!NSub
    BY <1>1 DEF Q!WriteSubs, On, QueueTypes, ParserRight
  <2>2. subs' \in File /\ Len(subs'.names) = Q!NSub
    BY <1>1, <2>1 DEF Q!WriteSubs, File, Parsing
  <2>3. parser' \in [Q!Parser -> Parsing] /\ (\A k \in Q!Parser : ParserRight(k, parser[k])')
    BY <1>1, <2>1, PcTypes DEF Q!WriteSubs
  <2> QED BY <1>1, <2>2, <2>3, FileTypes DEF Q!WriteSubs, QueueTypes
<1>2. CASE Q!WriteQname(j)
  <2>1. On(j) /\ parser[j].pc = "qname"
    BY <1>2 DEF Q!WriteQname, On
  <2>2. parser' \in [Q!Parser -> Parsing] /\ (\A k \in Q!Parser : ParserRight(k, parser[k])')
    BY <1>2, <2>1, PcTypes DEF Q!WriteQname
  <2>3. qtmp' \subseteq Q!User
    BY <1>2, OptionFacts DEF Q!WriteQname, QueueTypes
  <2> QED BY <1>2, <2>2, <2>3, FileTypes DEF Q!WriteQname, QueueTypes
<1>3. CASE Q!RenameQname(j)
  <2>1. On(j) /\ parser[j].pc = "rename" /\ Len(parser[j].names) = Q!NSub /\ parser[j] \in Parsing
    BY <1>3 DEF Q!RenameQname, On, QueueTypes, ParserRight
  <2>2. parser' \in [Q!Parser -> Parsing] /\ (\A k \in Q!Parser : ParserRight(k, parser[k])')
    BY <1>3, <2>1, PcTypes DEF Q!RenameQname
  <2>3. qname' \in [Q!User -> Nat] /\ qtmp' \subseteq Q!User
    <3>1. parser[j].names[1] \in Nat
      BY <2>1, OptionFacts DEF Parsing, Names, QueueTypes
    <3> QED BY <1>3, <3>1 DEF Q!RenameQname, QueueTypes
  <2> QED BY <1>3, <2>2, <2>3, FileTypes DEF Q!RenameQname, QueueTypes
<1> QED BY <1>1, <1>2, <1>3

(* Waiting for the lead instance, binding, and the death of a parser keep the types. *)
LEMMA InstanceTypes ==
    ASSUME QueueTypes, NEW j \in Q!Parser, Q!WaitForLead(j) \/ Q!Connect(j) \/ Q!KillParser(j)
    PROVE  QueueTypes'
<1>1. CASE Q!WaitForLead(j)
  <2> DEFINE p == [Q!Begin("start") EXCEPT !.parse = 2]
  <2>1. p \in Parsing /\ ParserRight(j, p)
    <3> HIDE DEF p
    <3>1. p \in Parsing /\ p.pc = "resolve" /\ p.action = "start" /\ p.parse = 2 /\ p.old = Q!NoSubs
            /\ p.names = <<>>
      BY BeginFacts DEF QueueTypes, p
    <3> QED BY <1>1, <3>1, OptionFacts DEF Q!WaitForLead, ParserRight, FileRight, QueueTypes
  <2>2. parser' = [parser EXCEPT ![j] = p]
    BY <1>1 DEF Q!WaitForLead
  <2> HIDE DEF p
  <2> QED BY <1>1, <2>1, <2>2, ParserTypes, FileTypes DEF Q!WaitForLead, QueueTypes
<1>2. CASE Q!Connect(j)
  <2>1. parser' \in [Q!Parser -> Parsing] /\ (\A k \in Q!Parser : ParserRight(k, parser[k])')
    BY <1>2, PcTypes DEF Q!Connect, On, Q!Parser
  <2>2. kept' \in Names
    BY <1>2 DEF Q!Connect, QueueTypes, Parsing
  <2> QED BY <1>2, <2>1, <2>2, FileTypes DEF Q!Connect, QueueTypes
<1>3. CASE Q!KillParser(j)
  <2>1. Q!Off \in Parsing /\ ParserRight(j, Q!Off)
    BY BeginFacts, OptionFacts DEF QueueTypes, ParserRight, FileRight, Q!Off
  <2>2. missed' \in BOOLEAN /\ qkills' \in Nat
    BY <1>3 DEF Q!KillParser, QueueTypes
  <2> QED BY <1>3, <2>1, <2>2, ParserTypes, FileTypes DEF Q!KillParser, QueueTypes
<1> QED BY <1>1, <1>2, <1>3

(* Several parsers begin or end. *)
LEMMA ParsersTypes ==
    ASSUME QueueTypes, NEW f, parser' = f, f \in [Q!Parser -> Parsing], qopt' = qopt,
           \A k \in Q!Parser : f[k] = parser[k] \/ ParserRight(k, f[k])
    PROVE  parser' \in [Q!Parser -> Parsing] /\ (\A k \in Q!Parser : ParserRight(k, parser[k])')
<1>1. Q!NSub' = Q!NSub
  BY DEF Q!NSub
<1>2. \A q : \A k \in Q!Parser : ParserRight(k, q)' <=> ParserRight(k, q)
  BY <1>1 DEF ParserRight, FileRight
<1> QED BY <1>2 DEF QueueTypes

(* The sr3 commands, and the operator's edit of the configuration, keep the types. *)
LEMMA CommandTypes ==
    ASSUME QueueTypes,
           \/ \E action \in {"start", "declare", "cleanup"} : Q!QCommand(action)
           \/ Q!QStart \/ Q!QDeclare \/ Q!QCleanup \/ Q!StopInstances \/ Q!EditTopics
    PROVE  QueueTypes'
<1>0. Q!Off \in Parsing /\ \A j \in Q!Parser : ParserRight(j, Q!Off)
  BY BeginFacts, OptionFacts DEF QueueTypes, ParserRight, FileRight, Q!Off
<1>1. ASSUME NEW action \in {"start", "declare", "cleanup"}, Q!QCommand(action) PROVE QueueTypes'
  <2>1. Q!Begin(action) \in Parsing /\ ParserRight("cli", Q!Begin(action)) /\ "cli" \in Q!Parser
    BY BeginFacts, OptionFacts DEF ParserRight, FileRight, QueueTypes, Q!Parser
  <2> QED BY <1>1, <2>1, ParserTypes, FileTypes DEF Q!QCommand, QueueTypes
<1>2. CASE Q!QStart
  <2> DEFINE p == Q!Begin("start")
  <2>1. p \in Parsing /\ \A k \in {"lead", "worker"} : ParserRight(k, p)
    BY BeginFacts, OptionFacts DEF ParserRight, FileRight, QueueTypes, Q!Parser
  <2>2. parser' = [parser EXCEPT !["cli"] = Q!Off, !["lead"] = IF Q!Idle THEN p ELSE @,
                    !["worker"] = IF Q!Idle THEN p ELSE @]
    BY <1>2 DEF Q!QStart
  <2> HIDE DEF p
  <2>3. parser' \in [Q!Parser -> Parsing]
          /\ \A k \in Q!Parser : parser'[k] \in {parser[k], Q!Off} \/ (k \in {"lead", "worker"} /\ parser'[k] = p)
    BY <1>0, <2>1, <2>2 DEF QueueTypes, Q!Parser
  <2>4. qopt' = qopt
    BY <1>2 DEF Q!QStart
  <2>5. parser' \in [Q!Parser -> Parsing] /\ (\A k \in Q!Parser : ParserRight(k, parser[k])')
    BY <1>0, <2>1, <2>3, <2>4, ParsersTypes
  <2> QED BY <1>2, <2>5, FileTypes DEF Q!QStart, QueueTypes
<1>3. CASE Q!QDeclare
  <2>1. "cli" \in Q!Parser /\ kept' \in Names /\ parser' = [parser EXCEPT !["cli"] = Q!Off]
    BY <1>3 DEF Q!QDeclare, QueueTypes, Parsing, Q!Parser
  <2> QED BY <1>0, <1>3, <2>1, ParserTypes, FileTypes DEF Q!QDeclare, QueueTypes
<1>4. CASE Q!QCleanup
  <2>1. "cli" \in Q!Parser /\ kept' \in Names /\ parser' = [parser EXCEPT !["cli"] = Q!Off] /\ qopt' = qopt
    BY <1>4, OptionFacts DEF Q!QCleanup, QueueTypes, Q!Parser
  <2>2. subs' \in {subs, Q!NoSubs} /\ qname' \in {qname, [u \in Q!User |-> Q!NoName]} /\ qtmp' \in {qtmp, {}}
        /\ leadPid' \in {leadPid, FALSE}
    BY <1>4 DEF Q!QCleanup
  <2>3. [u \in Q!User |-> Q!NoName] \in [Q!User -> Nat]
    BY DEF Q!NoName
  <2>4. subs' \in File /\ (subs' = subs \/ subs'.state # "whole")
    BY <2>2, OptionFacts DEF QueueTypes
  <2> QED BY <1>0, <1>4, <2>1, <2>2, <2>3, <2>4, ParserTypes, FileTypes DEF Q!QCleanup, QueueTypes
<1>5. CASE Q!StopInstances
  <2>1. parser' \in [Q!Parser -> Parsing] /\ \A k \in Q!Parser : parser'[k] \in {parser[k], Q!Off}
    BY <1>0, <1>5 DEF Q!StopInstances, QueueTypes, Q!Parser
  <2>2. qopt' = qopt
    BY <1>5 DEF Q!StopInstances
  <2>3. parser' \in [Q!Parser -> Parsing] /\ (\A k \in Q!Parser : ParserRight(k, parser[k])')
    BY <1>0, <2>1, <2>2, ParsersTypes
  <2> QED BY <1>5, <2>3, FileTypes DEF Q!StopInstances, QueueTypes
<1>6. CASE Q!EditTopics
  <2>1. conf' \in Topics /\ parser' = parser /\ qopt' = qopt
    BY <1>6 DEF Q!EditTopics, Topics
  <2>2. parser' \in [Q!Parser -> Parsing] /\ (\A k \in Q!Parser : ParserRight(k, parser[k])')
    BY <2>1, ParsersTypes DEF QueueTypes
  <2> QED BY <1>6, <2>1, <2>2, FileTypes DEF Q!EditTopics, QueueTypes
<1> QED BY <1>1, <1>2, <1>3, <1>4, <1>5, <1>6

-----------------------------------------------------------------------------
(* Instances parse once sr3 has made the state directory and, the second time, once there is
   a pid file; whoever is past the file's opening leaves a file, if not a complete one. *)
InstancesInOrder ==
    /\ \A j \in {"lead", "worker"} : On(j) =>
          stateDir /\ (parser[j].parse = 2 => leadPid) /\ (parser[j].parse = 1 => ~On("cli"))
    /\ leadPid => subs.state # "none"
    /\ Past("lead") => subs.state # "none"
    /\ \A j \in Q!Parser : (parser[j].pc = "write" => subs.state # "none") /\ (parser[j].pc = "rename" => stateDir)

(* Before there is a state file: sr3 declare does not write one for a queue declared first, and
   keeps the name in the .qname file of the last user. *)
DeclaredInOrder ==
    subs.state = "none" =>
        /\ parser["cli"].pc = "qname" => ~stateDir
        /\ parser["cli"].pc = "parsed" /\ Q!Writes("cli") => qname[Q!LastUser] = parser["cli"].names[1]
        /\ Past("cli") /\ parser["cli"].action = "declare" => missed /\ (torn \/ Q!NSub = 1)

(* In a state directory not yet made is no file, and who began without a state file began
   when there was none, or while it was being written. *)
ReadInOrder ==
    /\ ~stateDir => qtmp = {} /\ (\A u \in Q!User : qname[u] = Q!NoName) /\ subs.state = "none"
    /\ \A j \in Q!Parser :
          Counts(j) /\ parser[j].pc = "resolve" /\ parser[j].names # <<>> /\ parser[j].old.state = "none"
             => torn \/ subs.state = "none"

(* The order in which files appear: what start, declare and the instances each wait for. *)
InOrder == InstancesInOrder /\ DeclaredInOrder /\ ReadInOrder

(* While there is no state file, only one at a time can be about to write it. *)
LEMMA Alone ==
    ASSUME QueueTypes, InOrder, subs.state = "none", NEW j \in Q!Parser, Counts(j)
    PROVE  j # "worker" /\ \A k \in Q!Parser : Counts(k) => k = j
BY DEF QueueTypes, InOrder, InstancesInOrder, Counts, Q!Parser, Parsing

(* Resolving a name keeps the order of files. *)
LEMMA ResolveOrder == ASSUME QueueTypes, InOrder, NEW j \in Q!Parser, Q!Resolve(j) PROVE InOrder'
<1> DEFINE old == Q!Old(j)
<1>1. PICK names : \/ parser' = [parser EXCEPT ![j] = Q!Off]
                   \/ parser' = [parser EXCEPT ![j].old = old, ![j].names = names]
  BY DEF Q!Resolve
<1>2. UNCHANGED <<qopt, subs, qname, qtmp, stateDir, leadPid, missed>> /\ parser[j].pc = "resolve"
        /\ (torn => torn')
      /\ (subs.state = "torn" /\ old.state = "none" => torn')
  BY DEF Q!Resolve
<1>3. \A k \in Q!Parser : /\ parser'[k].pc \in {"off", parser[k].pc} /\
                             (parser'[k].pc # "off" =>
                                 parser'[k].parse = parser[k].parse /\ parser'[k].action = parser[k].action)
                          /\ (k # j => parser'[k] = parser[k])
  BY <1>1 DEF QueueTypes, Parsing, Q!Off
<1>4. parser'[j].pc # "off" => parser'[j].old = old
  BY <1>1, <1>2 DEF QueueTypes, Parsing, Q!Off
<1>5. old.state = "none" /\ ~torn' => subs.state = "none"
  BY <1>2 DEF Q!Old, QueueTypes, File, Q!NoSubs
<1> HIDE DEF old
<1>6. InstancesInOrder'
  BY <1>2, <1>3 DEF InOrder, InstancesInOrder, On, Past, Q!Parser
<1>7. DeclaredInOrder'
  BY <1>2, <1>3 DEF InOrder, DeclaredInOrder, On, Past, Q!Parser, Q!Writes, Q!NSub, Q!LastUser
<1>8. ReadInOrder'
  BY <1>2, <1>3, <1>4, <1>5 DEF InOrder, ReadInOrder, On, Counts
<1> QED BY <1>6, <1>7, <1>8 DEF InOrder

(* Opening the state file (finalize) keeps the order of files. *)
LEMMA FinalizeOrder == ASSUME QueueTypes, InOrder, NEW j \in Q!Parser, Q!Finalize(j) PROVE InOrder'
<1>1. UNCHANGED <<qopt, qname, qtmp, stateDir, leadPid>> /\ parser[j].pc = "resolve" /\ (torn => torn')
        /\ (missed => missed') /\ (Q!Connects(j) /\ ~stateDir => missed')
      /\ (parser[j].action = "declare" /\ ~stateDir /\ Q!NSub > 1 => torn') /\ On(j)
      /\ (Q!Writes(j) => Counts(j)) /\ j \in {"cli", "lead", "worker"}
  BY DEF Q!Finalize, On, Q!Writes, Counts, Q!Parser
<1>2. /\ \A k \in Q!Parser : /\ parser'[k].parse = parser[k].parse /\ parser'[k].action = parser[k].action
                             /\ k # j => parser'[k] = parser[k]
                             /\ parser'[k].names = parser[k].names
      /\ parser'[j].pc = IF ~Q!Writes(j) THEN "parsed" ELSE IF stateDir THEN "write" ELSE "qname"
  BY DEF Q!Finalize, QueueTypes, Parsing
<1>3. /\ Q!Writes(j) /\ stateDir => subs'.state = "torn"
      /\ ~(Q!Writes(j) /\ stateDir) => subs' = subs
  BY DEF Q!Finalize, Q!NoSubs
<1>4. Q!NSub \in {1, 2} /\ Q!NSub' = Q!NSub /\ Q!LastUser' = Q!LastUser
  BY <1>1, OptionFacts DEF QueueTypes, Q!NSub, Q!LastUser
<1>5. InstancesInOrder'
  BY <1>1, <1>2, <1>3 DEF InOrder, InstancesInOrder, On, Past, Q!Parser, Q!Writes
<1>6. DeclaredInOrder'
  <2> SUFFICES ASSUME subs'.state = "none" PROVE DeclaredInOrder'
    BY DEF DeclaredInOrder
  <2>1. CASE j = "cli"
    <3>1. ~(Q!Writes(j) /\ stateDir) /\ Q!Writes(j)' = Q!Writes(j)
      BY <1>2, <1>3, <2>1 DEF Q!Writes
    <3>2. parser'["cli"].pc = "qname" => ~stateDir'
      BY <1>1, <1>2, <2>1
    <3>3. ~(parser'["cli"].pc = "parsed" /\ Q!Writes("cli")')
      BY <1>1, <1>2, <2>1, <3>1
    <3>4. parser["cli"].action = "declare" => Q!Writes(j)
      BY <2>1 DEF Q!Writes
    <3>5. parser["cli"].action = "declare" => missed' /\ (torn' \/ Q!NSub = 1)
      BY <1>1, <1>4, <2>1, <3>1, <3>4 DEF Q!Connects
    <3>6. parser'["cli"].action = parser["cli"].action
      BY <1>2, <2>1
    <3> QED BY <1>4, <3>2, <3>3, <3>5, <3>6 DEF DeclaredInOrder
  <2>2. CASE j # "cli"
    BY <1>1, <1>2, <1>3, <2>2 DEF InOrder, DeclaredInOrder, On, Past, Q!Parser, Q!Writes, Q!NSub, Q!LastUser
  <2> QED BY <2>1, <2>2
<1>7. ReadInOrder'
  <2>1. ASSUME NEW k \in Q!Parser, Counts(k)', parser'[k].pc = "resolve", parser'[k].names # <<>>,
               parser'[k].old.state = "none", ~torn'
        PROVE  subs'.state = "none"
    <3>1. k # j
      BY <1>2, <2>1
    <3>2. Counts(k) /\ subs.state = "none"
      BY <1>1, <1>2, <2>1, <3>1 DEF InOrder, ReadInOrder, Counts, On
    <3>3. ~Q!Writes(j)
      BY <1>1, <3>1, <3>2, Alone
    <3> QED BY <1>3, <3>2, <3>3
  <2> QED BY <1>1, <1>3, <2>1 DEF InOrder, ReadInOrder
<1> QED BY <1>5, <1>6, <1>7 DEF InOrder

(* Writing the files (Subscriptions.write, resolve_queueName) keeps the order of files. *)
LEMMA WriteOrder ==
    ASSUME QueueTypes, InOrder, NEW j \in Q!Parser, Q!WriteSubs(j) \/ Q!WriteQname(j) \/ Q!RenameQname(j)
    PROVE  InOrder'
<1>0. j \in {"cli", "lead"} /\ (Q!Writes(j) /\ Counts(j))
  BY DEF QueueTypes, ParserRight, Q!WriteSubs, Q!WriteQname, Q!RenameQname, Q!Writes, Q!Parser, Counts, On
<1>1. UNCHANGED <<qopt, leadPid, torn, missed>> /\ (stateDir => stateDir')
        /\ parser[j].pc \in {"write", "qname", "rename"}
  BY DEF Q!WriteSubs, Q!WriteQname, Q!RenameQname
<1>2. /\ \A k \in Q!Parser : /\ parser'[k].parse = parser[k].parse /\ parser'[k].action = parser[k].action
                             /\ k # j => parser'[k] = parser[k]
                             /\ parser'[k].names = parser[k].names /\ parser'[k].old = parser[k].old
      /\ parser'[j].pc \in {"qname", "rename", "parsed"} /\ (parser'[j].pc = "rename" => stateDir')
  BY DEF QueueTypes, Parsing, Q!WriteSubs, Q!WriteQname, Q!RenameQname
<1>3. (subs' = subs \/ subs'.state = "whole") /\ (subs.state # "none" => subs'.state # "none")
        /\ (subs.state = "none" => subs'.state = "none")
  BY DEF Q!WriteSubs, Q!WriteQname, Q!RenameQname, InOrder, InstancesInOrder
<1>4. InstancesInOrder'
  BY <1>0, <1>1, <1>2, <1>3 DEF InOrder, InstancesInOrder, On, Past, Q!Parser, Q!Writes
<1>5. DeclaredInOrder'
  <2> SUFFICES ASSUME subs'.state = "none" PROVE DeclaredInOrder'
    BY DEF DeclaredInOrder
  <2>1. subs.state = "none" /\ j = "cli" /\ parser[j].pc # "write"
    BY <1>0, <1>1, <1>3, Alone DEF InOrder, InstancesInOrder, Past, On, Q!Parser
  <2>2. parser'["cli"].pc # "qname"
    BY <1>2, <2>1 DEF Q!WriteSubs, Q!WriteQname, Q!RenameQname, QueueTypes, Parsing
  <2>3. CASE Q!WriteQname(j)
    <3>1. parser["cli"].pc = "qname" /\ ~stateDir
      BY <2>1, <2>3 DEF Q!WriteQname, InOrder, DeclaredInOrder
    <3>2. qname[Q!LastUser] = Q!NoName /\ Q!LastUser \notin qtmp
      BY <3>1, OptionFacts DEF InOrder, ReadInOrder, QueueTypes
    <3>3. parser'["cli"].pc = "rename"
      BY <2>1, <2>3, <3>2 DEF Q!WriteQname, QueueTypes, Parsing
    <3> QED BY <1>0, <1>1, <1>2, <2>1, <3>1, <3>3 DEF InOrder, DeclaredInOrder, On, Past, Q!Writes, Q!NSub, Q!LastUser
  <2>4. CASE Q!RenameQname(j)
    <3>1. qname'[Q!LastUser] = parser["cli"].names[1]
      BY <2>1, <2>4, OptionFacts DEF Q!RenameQname, QueueTypes
    <3> QED BY <1>0, <1>1, <1>2, <2>1, <2>2, <3>1 DEF InOrder, DeclaredInOrder, On, Past, Q!Writes, Q!NSub, Q!LastUser
  <2> QED BY <2>1, <2>3, <2>4 DEF Q!WriteSubs
<1>6. ReadInOrder'
  <2>1. ~stateDir' => stateDir' = stateDir /\ subs' = subs /\ qname' = qname /\ qtmp' = qtmp
    <3>1. CASE Q!WriteSubs(j)
      BY <3>1 DEF Q!WriteSubs, InOrder, InstancesInOrder, ReadInOrder
    <3>2. CASE Q!WriteQname(j)
      BY <3>2 DEF Q!WriteQname
    <3>3. CASE Q!RenameQname(j)
      BY <3>3 DEF Q!RenameQname, InOrder, InstancesInOrder
    <3> QED BY <3>1, <3>2, <3>3
  <2> QED BY <1>1, <1>2, <1>3, <2>1 DEF InOrder, ReadInOrder, Counts, On
<1> QED BY <1>4, <1>5, <1>6 DEF InOrder

(* Waiting for the lead, binding and dying keep the order of files. *)
LEMMA InstanceOrder ==
    ASSUME QueueTypes, InOrder, NEW j \in Q!Parser, Q!WaitForLead(j) \/ Q!Connect(j) \/ Q!KillParser(j)
    PROVE  InOrder'
<1>1. UNCHANGED <<qopt, torn, stateDir, subs, qname, qtmp>> /\ (missed => missed')
  <2>1. CASE Q!KillParser(j)
    BY <2>1 DEF Q!KillParser
  <2>2. CASE Q!WaitForLead(j) \/ Q!Connect(j)
    BY <2>2 DEF Q!WaitForLead, Q!Connect
  <2> QED BY <2>1, <2>2
<1>2. CASE Q!WaitForLead(j)
  <2>1. /\ \A k \in Q!Parser \ {j} : parser'[k] = parser[k]
        /\ parser'[j].pc = "resolve" /\ parser'[j].parse = 2 /\ parser'[j].names = <<>>
        /\ leadPid' /\ (leadPid \/ j = "lead") /\ j \in {"lead", "worker"} /\ Past(j) /\ On(j)
    BY <1>2, BeginFacts DEF Q!WaitForLead, QueueTypes, Past, On
  <2>2. InstancesInOrder'
    BY <1>1, <2>1 DEF InOrder, InstancesInOrder, On, Past, Q!Parser
  <2>3. DeclaredInOrder'
    BY <1>1, <2>1 DEF InOrder, DeclaredInOrder, On, Past, Q!Parser, Q!Writes, Q!NSub, Q!LastUser
  <2>4. ReadInOrder'
    BY <1>1, <2>1 DEF InOrder, ReadInOrder, On, Counts
  <2> QED BY <2>2, <2>3, <2>4 DEF InOrder
<1>3. CASE Q!Connect(j)
  <2>1. /\ \A k \in Q!Parser \ {j} : parser'[k] = parser[k]
        /\ parser'[j].pc = "running" /\ parser'[j].parse = parser[j].parse
        /\ leadPid' = leadPid /\ j \in {"lead", "worker"} /\ Past(j) /\ On(j)
    BY <1>3 DEF Q!Connect, QueueTypes, Parsing, Past, On
  <2>2. InstancesInOrder'
    BY <1>1, <2>1 DEF InOrder, InstancesInOrder, On, Past, Q!Parser
  <2>3. DeclaredInOrder'
    BY <1>1, <2>1 DEF InOrder, DeclaredInOrder, On, Past, Q!Parser, Q!Writes, Q!NSub, Q!LastUser
  <2>4. ReadInOrder'
    BY <1>1, <2>1 DEF InOrder, ReadInOrder, On, Counts
  <2> QED BY <2>2, <2>3, <2>4 DEF InOrder
<1>4. CASE Q!KillParser(j)
  <2>1. /\ \A k \in Q!Parser \ {j} : parser'[k] = parser[k]
        /\ parser'[j].pc = "off" /\ leadPid' = leadPid
    BY <1>4, BeginFacts DEF Q!KillParser, QueueTypes
  <2>2. InstancesInOrder'
    BY <1>1, <2>1 DEF InOrder, InstancesInOrder, On, Past, Q!Parser
  <2>3. DeclaredInOrder'
    BY <1>1, <2>1 DEF InOrder, DeclaredInOrder, On, Past, Q!Parser, Q!Writes, Q!NSub, Q!LastUser
  <2>4. ReadInOrder'
    BY <1>1, <2>1 DEF InOrder, ReadInOrder, On, Counts
  <2> QED BY <2>2, <2>3, <2>4 DEF InOrder
<1> QED BY <1>2, <1>3, <1>4

(* start, declare, cleanup, stop and an edit keep the order of files. *)
LEMMA CommandOrder ==
    ASSUME QueueTypes, InOrder,
           \/ \E action \in {"start", "declare", "cleanup"} : Q!QCommand(action)
           \/ Q!QStart \/ Q!QDeclare \/ Q!QCleanup \/ Q!StopInstances \/ Q!EditTopics
    PROVE  InOrder'
<1>0. Q!Off.pc = "off" /\ qopt' = qopt /\ torn' = torn /\ missed' = missed
  BY BeginFacts DEF Q!QCommand, Q!QStart, Q!QDeclare, Q!QCleanup, Q!StopInstances, Q!EditTopics, QueueTypes
<1>1. ASSUME NEW action \in {"start", "declare", "cleanup"}, Q!QCommand(action) PROVE InOrder'
  <2>1. /\ \A k \in Q!Parser \ {"cli"} : parser'[k] = parser[k]
        /\ parser'["cli"].pc = "resolve" /\ parser'["cli"].names = <<>>
        /\ UNCHANGED <<stateDir, subs, qname, qtmp, leadPid>> /\ Q!Started
    BY <1>1, BeginFacts DEF Q!QCommand, QueueTypes, Q!Parser
  <2>2. InstancesInOrder'
    BY <1>0, <2>1 DEF InOrder, InstancesInOrder, On, Past, Q!Parser, Q!Started
  <2>3. DeclaredInOrder'
    BY <1>0, <2>1 DEF InOrder, DeclaredInOrder, On, Past, Q!Parser, Q!Writes, Q!NSub, Q!LastUser
  <2>4. ReadInOrder'
    BY <1>0, <2>1 DEF InOrder, ReadInOrder, On, Counts
  <2> QED BY <2>2, <2>3, <2>4 DEF InOrder
<1>2. CASE Q!QStart
  <2>1. /\ parser'["cli"].pc = "off"
        /\ \A k \in {"lead", "worker"} : 
              parser'[k] = parser[k]
              \/ (Q!Idle /\ parser'[k].pc = "resolve" /\ parser'[k].parse = 1 /\ parser'[k].names = <<>>)
        /\ UNCHANGED <<subs, qname, qtmp, leadPid>> /\ stateDir'
    BY <1>0, <1>2, BeginFacts DEF Q!QStart, QueueTypes, Q!Parser
  <2>2. InstancesInOrder'
    BY <1>0, <2>1 DEF InOrder, InstancesInOrder, On, Past, Q!Parser
  <2>3. DeclaredInOrder'
    BY <1>0, <2>1 DEF InOrder, DeclaredInOrder, On, Past, Q!Parser, Q!Writes, Q!NSub, Q!LastUser
  <2>4. ReadInOrder'
    BY <1>0, <2>1 DEF InOrder, ReadInOrder, On, Counts, Q!Parser
  <2> QED BY <2>2, <2>3, <2>4 DEF InOrder
<1>3. CASE Q!QDeclare
  <2>1. /\ \A k \in Q!Parser \ {"cli"} : parser'[k] = parser[k]
        /\ parser'["cli"].pc = "off"
        /\ UNCHANGED <<stateDir, subs, qname, qtmp, leadPid>>
    BY <1>0, <1>3 DEF Q!QDeclare, QueueTypes, Q!Parser
  <2>2. InstancesInOrder'
    BY <1>0, <2>1 DEF InOrder, InstancesInOrder, On, Past, Q!Parser
  <2>3. DeclaredInOrder'
    BY <1>0, <2>1 DEF InOrder, DeclaredInOrder, On, Past, Q!Parser, Q!Writes, Q!NSub, Q!LastUser
  <2>4. ReadInOrder'
    BY <1>0, <2>1 DEF InOrder, ReadInOrder, On, Counts
  <2> QED BY <2>2, <2>3, <2>4 DEF InOrder
<1>4. CASE Q!QCleanup
  <2>1. /\ \A k \in Q!Parser \ {"cli"} : parser'[k] = parser[k]
        /\ parser'["cli"].pc = "off" /\ stateDir' = stateDir
        /\ \/ UNCHANGED <<subs, qname, qtmp, leadPid>>
           \/ Q!Idle /\ subs' = Q!NoSubs /\ qname' = [u \in Q!User |-> Q!NoName] /\ qtmp' = {} /\ ~leadPid'
    BY <1>0, <1>4 DEF Q!QCleanup, QueueTypes, Q!Parser
  <2>2. InstancesInOrder'
    BY <1>0, <2>1 DEF InOrder, InstancesInOrder, On, Past, Q!Parser, Q!Idle
  <2>3. DeclaredInOrder'
    BY <1>0, <2>1 DEF InOrder, DeclaredInOrder, On, Past, Q!Parser, Q!Writes, Q!NSub, Q!LastUser
  <2>4. ReadInOrder'
    BY <1>0, <2>1, OptionFacts DEF InOrder, ReadInOrder, On, Counts, Q!Idle, QueueTypes
  <2> QED BY <2>2, <2>3, <2>4 DEF InOrder
<1>5. CASE Q!StopInstances
  <2>1. /\ parser'["cli"] = parser["cli"] /\ parser'["lead"].pc = "off" /\ parser'["worker"].pc = "off"
        /\ UNCHANGED <<stateDir, subs, qname, qtmp>> /\ ~leadPid'
    BY <1>0, <1>5 DEF Q!StopInstances, QueueTypes, Q!Parser
  <2>2. InstancesInOrder'
    BY <1>0, <2>1 DEF InOrder, InstancesInOrder, On, Past, Q!Parser
  <2>3. DeclaredInOrder'
    BY <1>0, <2>1 DEF InOrder, DeclaredInOrder, On, Past, Q!Parser, Q!Writes, Q!NSub, Q!LastUser
  <2>4. ReadInOrder'
    BY <1>0, <2>1 DEF InOrder, ReadInOrder, On, Counts, Q!Parser
  <2> QED BY <2>2, <2>3, <2>4 DEF InOrder
<1>6. CASE Q!EditTopics
  BY <1>0, <1>6 DEF Q!EditTopics, InOrder, InstancesInOrder, DeclaredInOrder, ReadInOrder, On, Past,
     Counts, Q!Writes, Q!NSub, Q!LastUser
<1> QED BY <1>1, <1>2, <1>3, <1>4, <1>5, <1>6

-----------------------------------------------------------------------------
(* E are the names all go by: in the state file, on the broker, in what has been read or resolved. *)
AgreedOn(E) ==
    /\ Len(E) = Q!NSub
    /\ subs.state = "whole" => subs.names = E
    /\ kept \in {<<>>, E}
    /\ kept # <<>> /\ subs.state = "none" => Q!NSub = 1 /\ qname[FirstUser] = E[1]
    /\ \A j \in Q!Parser : Counts(j) =>
          /\ \A i \in 1 .. Len(parser[j].names) : parser[j].names[i] = E[i]
          /\ parser[j].pc = "resolve" /\ parser[j].old.state = "whole" => parser[j].old.names = E

(* Unless a file was read while it was written, there are names all go by, and no other queue. *)
Agreed == ~torn => (\E E \in Names : AgreedOn(E)) /\ queues \subseteq Q!Range(kept)

(* Who has resolved all the names has those agreed on. *)
LEMMA NamesAgreed ==
    ASSUME QueueTypes, NEW E \in Names, AgreedOn(E), NEW j \in Q!Parser, Counts(j),
           Len(parser[j].names) = Q!NSub
    PROVE  parser[j].names = E
<1>1. parser[j].names \in Names /\ Len(E) = Len(parser[j].names)
        /\ \A i \in 1 .. Len(E) : parser[j].names[i] = E[i]
  BY DEF QueueTypes, Parsing, AgreedOn
<1> DEFINE names == parser[j].names
<1>2. names \in Seq(Nat \ {Q!NoName}) /\ E \in Seq(Nat \ {Q!NoName}) /\ Len(E) = Len(names)
      /\ \A i \in 1 .. Len(E) : names[i] = E[i]
  BY <1>1 DEF Names
<1> HIDE DEF names
<1>3. names = E
  BY <1>2, SMTT(30)
<1> QED BY <1>3 DEF names

(* Resolving a name, from the file or at random, keeps to the names agreed on (resolve_queueName):
   who makes up a name is alone. *)
LEMMA ResolveAgreed == ASSUME QueueTypes, InOrder, Agreed, NEW j \in Q!Parser, Q!Resolve(j) PROVE Agreed'
<1> SUFFICES ASSUME ~torn' PROVE Agreed'
  BY DEF Agreed
<1> DEFINE n == Len(parser[j].names) + 1
           old == Q!Old(j)
<1>1. PICK name \in Nat \ {Q!NoName}, p \in Parsing :
         /\ parser[j].pc = "resolve" /\ n \in 1 .. Q!NSub
         /\ old \in File /\ old.state # "torn"
         /\ old.state = "whole" => name = old.names[n]
         /\ old.state # "whole" => name = IF Q!FromQname(j) = Q!NoName THEN nextName ELSE Q!FromQname(j)
         /\ parser' = [parser EXCEPT ![j] = p]
         /\ \/ j = "worker" /\ p = Q!Off
            \/ /\ p.pc = "resolve" /\ p.old = old /\ p.names = Append(parser[j].names, name)
               /\ p.parse = parser[j].parse
         /\ torn' = (torn \/ (subs.state = "torn" /\ old.state = "none"))
         /\ UNCHANGED <<qopt, subs, qname, kept, queues>>
  BY ResolveFacts
<1>2. PICK E \in Names : AgreedOn(E) /\ queues \subseteq Q!Range(kept) /\ ~torn
  BY <1>1 DEF Agreed
<1>3. Q!NSub' = Q!NSub /\ FirstUser' = FirstUser /\ Q!NSub \in {1, 2}
  BY <1>1, OptionFacts DEF Q!NSub, FirstUser, QueueTypes
<1>4. \A k \in Q!Parser \ {j} : parser'[k] = parser[k]
  BY <1>1 DEF QueueTypes
<1>5. parser'[j] = p
  BY <1>1 DEF QueueTypes
<1>6. p = Q!Off => ~Counts(j)'
  BY <1>5, BeginFacts DEF Counts, On, QueueTypes
<1>7. CASE ~Counts(j)'
  <2>1. AgreedOn(E)'
    BY <1>1, <1>2, <1>3, <1>4, <1>7 DEF AgreedOn, Counts, On
  <2> QED BY <1>1, <1>2, <2>1 DEF Agreed, Q!Range, Names, Q!NoName
<1>8. CASE Counts(j)'
  <2>1. p.pc = "resolve" /\ p.old = old /\ p.names = Append(parser[j].names, name) /\ Counts(j)
    BY <1>1, <1>5, <1>6, <1>8 DEF Counts, On
  <2>2. parser[j].names \in Seq(Nat \ {Q!NoName}) /\ parser[j] \in Parsing
    BY DEF QueueTypes, Parsing, Names
  <2>3. /\ Len(p.names) = n /\ p.names[n] = name
        /\ \A i \in 1 .. Len(parser[j].names) : p.names[i] = parser[j].names[i]
        /\ \A i \in 1 .. n : i \in 1 .. Len(parser[j].names) \/ i = n
    BY <1>1, <2>1, <2>2
  <2>4. old.state = "whole" => old.names = E
    BY <1>2, <1>1, <2>1 DEF Q!Old, AgreedOn, Q!NoSubs
  <2>5. ASSUME name = E[n] PROVE Agreed'
    <3>1. \A i \in 1 .. Len(p.names) : p.names[i] = E[i]
      BY <1>2, <2>1, <2>3, <2>5 DEF AgreedOn
    <3> HIDE DEF n, old
    <3>2. AgreedOn(E)'
      BY <1>1, <1>2, <1>3, <1>4, <1>5, <2>1, <2>4, <3>1, SMTT(40) DEF AgreedOn, Counts, On
    <3> QED BY <1>1, <1>2, <3>2 DEF Agreed, Q!Range, Names, Q!NoName
  <2>6. CASE old.state = "whole"
    BY <1>1, <2>4, <2>5, <2>6
  <2>7. CASE old.state # "whole"
    <3>1. subs.state = "none"
      BY <1>1, <2>7 DEF Q!Old, QueueTypes, File, Q!NoSubs
    <3>2. CASE kept # <<>>
      <4>1. Q!NSub = 1 /\ qname[FirstUser] = E[1] /\ n = 1 /\ E[1] # Q!NoName
        BY <1>1, <1>2, <1>3, <3>1, <3>2 DEF AgreedOn, Names
      <4>2. parser[j].names = <<>>
        BY <2>2, <4>1
      <4>3. Q!FromQname(j) = E[1]
        BY <4>1, <4>2 DEF Q!FromQname, FirstUser
      <4> QED BY <1>1, <2>5, <2>7, <4>1, <4>3
    <3>3. CASE kept = <<>>
      <4>1. PICK F \in Names : Len(F) = Q!NSub /\ F[n] = name /\ \A i \in 1 .. Q!NSub : i # n => F[i] = E[i]
        <5> DEFINE G == [E EXCEPT ![n] = name]
        <5>1. G \in Names /\ Len(G) = Q!NSub /\ G[n] = name /\ \A i \in 1 .. Q!NSub : i # n => G[i] = E[i]
          BY <1>1, <1>2 DEF AgreedOn, Names
        <5> QED BY <5>1
      <4>2. \A i \in 1 .. Len(p.names) : p.names[i] = F[i]
        <5> SUFFICES ASSUME NEW i \in 1 .. n PROVE p.names[i] = F[i]
          BY <2>3
        <5>1. CASE i = n
          BY <2>3, <4>1, <5>1
        <5>2. CASE i # n
          <6>1. i \in 1 .. Len(parser[j].names) /\ i \in 1 .. Q!NSub
            BY <1>1, <1>3, <2>3, <5>2
          <6> QED BY <1>2, <2>1, <2>3, <4>1, <5>2, <6>1 DEF AgreedOn
        <5> QED BY <5>1, <5>2
      <4>3. \A k \in Q!Parser : Counts(k)' => k = j
        BY <1>4, <2>1, <3>1, Alone DEF Counts, On
      <4> HIDE DEF n, old
      <4>4. subs' = subs /\ kept' = <<>> /\ queues' = queues /\ Q!Range(kept)' = Q!Range(kept)
        BY <1>1, <3>3
      <4>5. AgreedOn(F)'
        <5>1. Len(F) = Q!NSub' /\ subs'.state # "whole"
          BY <1>3, <3>1, <4>1, <4>4
        <5>2. ASSUME NEW k \in Q!Parser, Counts(k)'
              PROVE  /\ \A i \in 1 .. Len(parser'[k].names) : parser'[k].names[i] = F[i]
                     /\ ~(parser'[k].pc = "resolve" /\ parser'[k].old.state = "whole")
          BY <1>5, <2>1, <2>7, <4>2, <4>3, <5>2
        <5> QED BY <4>4, <5>1, <5>2 DEF AgreedOn
      <4>6. queues' \subseteq Q!Range(kept)'
        BY <1>2, <4>4
      <4> QED BY <4>1, <4>5, <4>6 DEF Agreed
    <3> QED BY <3>2, <3>3
  <2> QED BY <2>6, <2>7
<1> QED BY <1>7, <1>8

(* Nobody disturbs what is agreed on who keeps the names resolved, or begins anew. *)
KeepsNames(k) ==
    Counts(k)' =>
        \/ /\ Counts(k) /\ parser'[k].names = parser[k].names
           /\ parser'[k].pc = "resolve" /\ parser'[k].old.state = "whole" => parser[k].pc = "resolve" /\ parser'[k].old = parser[k].old
        \/ parser'[k].names = <<>> /\ parser'[k].old = Q!NoSubs

(* The names agreed on stay, if nobody disturbs them and the files and the broker keep to them. *)
LEMMA StaysAgreed ==
    ASSUME QueueTypes, NEW E \in Names, AgreedOn(E), \A k \in Q!Parser : KeepsNames(k),
           qopt' = qopt, subs'.state = "whole" => subs'.names = E, kept' \in {<<>>, E},
           kept' # <<>> /\ subs'.state = "none" => Q!NSub = 1 /\ qname'[FirstUser] = E[1]
    PROVE  AgreedOn(E)'
<1>1. Q!NSub' = Q!NSub /\ FirstUser' = FirstUser /\ Q!NoSubs.state = "none"
  BY OptionFacts DEF Q!NSub, FirstUser, QueueTypes
<1>2. ASSUME NEW k \in Q!Parser, Counts(k)'
      PROVE  /\ \A i \in 1 .. Len(parser'[k].names) : parser'[k].names[i] = E[i]
             /\ parser'[k].pc = "resolve" /\ parser'[k].old.state = "whole" => parser'[k].old.names = E
  <2>1. CASE parser'[k].names = <<>> /\ parser'[k].old = Q!NoSubs
    BY <1>1, <2>1
  <2>2. CASE ~(parser'[k].names = <<>> /\ parser'[k].old = Q!NoSubs)
    BY <1>2, <2>2 DEF KeepsNames, AgreedOn
  <2> QED BY <2>1, <2>2
<1> QED BY <1>1, <1>2 DEF AgreedOn

(* Opening the state file (finalize) leaves the names agreed on. *)
LEMMA FinalizeAgreed ==
    ASSUME QueueTypes, Agreed, NEW j \in Q!Parser, Q!Finalize(j) PROVE Agreed'
<1> SUFFICES ASSUME ~torn' PROVE Agreed'
  BY DEF Agreed
<1>1. PICK E \in Names : AgreedOn(E) /\ queues \subseteq Q!Range(kept)
  BY DEF Agreed, Q!Finalize
<1>2. \A k \in Q!Parser : KeepsNames(k)
  BY DEF Q!Finalize, KeepsNames, QueueTypes, Parsing, Counts, On
<1>3. UNCHANGED <<qopt, kept, queues, qname>> /\ (subs' = subs \/ subs'.state = "torn")
  BY DEF Q!Finalize, Q!NoSubs
<1>4. AgreedOn(E)'
  BY <1>1, <1>2, <1>3, StaysAgreed DEF AgreedOn
<1> QED BY <1>1, <1>3, <1>4 DEF Agreed

(* Who writes files (Subscriptions.write, resolve_queueName) disturbs no name resolved. *)
LEMMA WriteKeeps ==
    ASSUME QueueTypes, NEW j \in Q!Parser, Q!WriteSubs(j) \/ Q!WriteQname(j) \/ Q!RenameQname(j)
    PROVE  \A k \in Q!Parser : KeepsNames(k)
<1>1. /\ \A k \in Q!Parser \ {j} : parser'[k] = parser[k]
      /\ parser'[j].names = parser[j].names /\ parser'[j].parse = parser[j].parse
      /\ parser'[j].pc # "resolve" /\ On(j)
  BY DEF Q!WriteSubs, Q!WriteQname, Q!RenameQname, QueueTypes, Parsing, On
<1> QED BY <1>1 DEF KeepsNames, Counts, On

(* What is written (Subscriptions.write) are the names agreed on. *)
LEMMA WriteAgreed ==
    ASSUME QueueTypes, Agreed, NEW j \in Q!Parser, Q!WriteSubs(j) \/ Q!WriteQname(j) \/ Q!RenameQname(j)
    PROVE  Agreed'
<1> SUFFICES ASSUME ~torn' PROVE Agreed'
  BY DEF Agreed
<1>1. PICK E \in Names : AgreedOn(E) /\ queues \subseteq Q!Range(kept)
  BY DEF Agreed, Q!WriteSubs, Q!WriteQname, Q!RenameQname
<1>2. \A k \in Q!Parser : KeepsNames(k)
  BY WriteKeeps
<1>3. UNCHANGED <<qopt, kept, queues>>
  BY DEF Q!WriteSubs, Q!WriteQname, Q!RenameQname
<1>4. Counts(j) /\ Len(parser[j].names) = Q!NSub
  BY DEF Q!WriteSubs, Q!WriteQname, Q!RenameQname, QueueTypes, ParserRight, Counts, On, Q!Parser
<1>5. parser[j].names = E
  BY <1>1, <1>4, NamesAgreed
<1>6. CASE Q!WriteSubs(j)
  <2>1. subs'.state = "whole" /\ subs'.names = E
    BY <1>5, <1>6 DEF Q!WriteSubs
  <2>2. AgreedOn(E)'
    BY <1>1, <1>2, <1>3, <2>1, StaysAgreed DEF AgreedOn
  <2> QED BY <1>1, <1>3, <2>2 DEF Agreed
<1>7. CASE Q!WriteQname(j)
  <2>1. UNCHANGED <<subs, qname>>
    BY <1>7 DEF Q!WriteQname
  <2>2. AgreedOn(E)'
    BY <1>1, <1>2, <1>3, <2>1, StaysAgreed DEF AgreedOn
  <2> QED BY <1>1, <1>3, <2>2 DEF Agreed
<1>8. CASE Q!RenameQname(j)
  <2>1. subs' = subs /\ qname' = [qname EXCEPT ![Q!LastUser] = E[1]]
    BY <1>5, <1>8 DEF Q!RenameQname
  <2>2. kept' # <<>> /\ subs'.state = "none" => Q!NSub = 1 /\ qname'[FirstUser] = E[1]
    BY <1>1, <1>3, <2>1, OptionFacts DEF AgreedOn, QueueTypes
  <2>3. subs'.state = "whole" => subs'.names = E
    BY <1>1, <2>1 DEF AgreedOn
  <2>4. AgreedOn(E)'
    BY <1>1, <1>2, <1>3, <2>2, <2>3, StaysAgreed DEF AgreedOn
  <2> QED BY <1>1, <1>3, <2>4 DEF Agreed
<1> QED BY <1>6, <1>7, <1>8

(* What the queues become when those of E are declared. *)
LEMMA DeclaredAgreed ==
    ASSUME QueueTypes, NEW E \in Names, AgreedOn(E), AgreedOn(E)', queues \subseteq Q!Range(kept),
           queues' = queues \cup Q!Range(E), kept' = E
    PROVE  (\E F \in Names : AgreedOn(F)') /\ queues' \subseteq Q!Range(kept)'
<1>1. Q!Range(<<>>) = {}
  BY DEF Q!Range
<1>2. queues \subseteq Q!Range(E)
  BY <1>1 DEF AgreedOn
<1>3. Q!Range(kept)' = Q!Range(E)
  BY DEF Q!Range
<1> QED BY <1>2, <1>3

(* Binding declares the queues agreed on (getSetup), waiting and dying change nothing of them. *)
LEMMA InstanceAgreed ==
    ASSUME QueueTypes, InOrder, Agreed, NEW j \in Q!Parser,
           Q!WaitForLead(j) \/ Q!Connect(j) \/ Q!KillParser(j)
    PROVE  Agreed'
<1> SUFFICES ASSUME ~torn' PROVE Agreed'
  BY DEF Agreed
<1>0. UNCHANGED <<qopt, subs, qname>>
  BY DEF Q!WaitForLead, Q!Connect, Q!KillParser
<1>1. PICK E \in Names : AgreedOn(E) /\ queues \subseteq Q!Range(kept)
  BY DEF Agreed, Q!WaitForLead, Q!Connect, Q!KillParser
<1>2. \A k \in Q!Parser : KeepsNames(k)
  <2>1. CASE Q!WaitForLead(j)
    BY <2>1, BeginFacts DEF Q!WaitForLead, KeepsNames, QueueTypes, Counts, On
  <2>2. CASE Q!Connect(j)
    BY <2>2 DEF Q!Connect, KeepsNames, QueueTypes, Parsing, Counts, On
  <2>3. CASE Q!KillParser(j)
    BY <2>3, BeginFacts DEF Q!KillParser, KeepsNames, QueueTypes, Counts, On
  <2> QED BY <2>1, <2>2, <2>3
<1>3. CASE UNCHANGED <<queues, kept>>
  <2>1. AgreedOn(E)'
    BY <1>0, <1>1, <1>2, <1>3, StaysAgreed DEF AgreedOn
  <2> QED BY <1>1, <1>3, <2>1 DEF Agreed
<1>4. CASE Q!Connect(j) /\ j = "lead"
  <2>1. Counts(j) /\ Len(parser[j].names) = Q!NSub /\ Past("lead")
    BY <1>4 DEF Q!Connect, Counts, On, QueueTypes, ParserRight, Past
  <2>2. parser[j].names = E /\ subs.state # "none"
    BY <1>1, <2>1, NamesAgreed DEF InOrder, InstancesInOrder
  <2>3. queues' = queues \cup Q!Range(E) /\ kept' = E
    BY <1>4, <2>2 DEF Q!Connect
  <2>4. AgreedOn(E)'
    BY <1>0, <1>1, <1>2, <2>2, <2>3, StaysAgreed DEF AgreedOn
  <2> QED BY <1>1, <2>3, <2>4, DeclaredAgreed DEF Agreed
<1> QED BY <1>3, <1>4 DEF Q!WaitForLead, Q!Connect, Q!KillParser

(* The commands keep to the names agreed on; cleanup forgets them with the queues and the files. *)
LEMMA CommandAgreed ==
    ASSUME QueueTypes, InOrder, Agreed,
           \/ \E action \in {"start", "declare", "cleanup"} : Q!QCommand(action)
           \/ Q!QStart \/ Q!QDeclare \/ Q!QCleanup \/ Q!StopInstances \/ Q!EditTopics
    PROVE  Agreed'
<1> SUFFICES ASSUME ~torn' PROVE Agreed'
  BY DEF Agreed
<1>0. Q!Off.pc = "off" /\ qopt' = qopt /\ torn' = torn
  BY BeginFacts DEF Q!QCommand, Q!QStart, Q!QDeclare, Q!QCleanup, Q!StopInstances, Q!EditTopics, QueueTypes
<1>1. PICK E \in Names : AgreedOn(E) /\ queues \subseteq Q!Range(kept) /\ ~torn
  BY <1>0 DEF Agreed
<1>2. \A k \in Q!Parser : KeepsNames(k)
  <2>1. ASSUME NEW action \in {"start", "declare", "cleanup"}, Q!QCommand(action)
               PROVE \A k \in Q!Parser : KeepsNames(k)
    BY <2>1, BeginFacts DEF Q!QCommand, KeepsNames, QueueTypes, Counts, On, Q!Parser
  <2>2. CASE Q!QStart
    BY <2>2, <1>0, BeginFacts DEF Q!QStart, KeepsNames, QueueTypes, Counts, On, Q!Parser
  <2>3. CASE Q!QDeclare \/ Q!QCleanup
    BY <2>3, <1>0 DEF Q!QDeclare, Q!QCleanup, KeepsNames, QueueTypes, Counts, On, Q!Parser
  <2>4. CASE Q!StopInstances
    BY <2>4, <1>0 DEF Q!StopInstances, KeepsNames, QueueTypes, Counts, On, Q!Parser
  <2>5. CASE Q!EditTopics
    BY <2>5 DEF Q!EditTopics, KeepsNames, Counts, On
  <2> QED BY <2>1, <2>2, <2>3, <2>4, <2>5
<1>3. CASE UNCHANGED <<queues, kept, subs, qname>>
  <2>1. AgreedOn(E)'
    BY <1>0, <1>1, <1>2, <1>3, StaysAgreed DEF AgreedOn
  <2> QED BY <1>1, <1>3, <2>1 DEF Agreed
<1>4. CASE Q!QDeclare
  <2>1. Counts("cli") /\ Len(parser["cli"].names) = Q!NSub /\ "cli" \in Q!Parser /\ Past("cli")
        /\ parser["cli"].pc = "parsed" /\ Q!Writes("cli") /\ parser["cli"].action = "declare"
    BY <1>4 DEF Q!QDeclare, Counts, On, QueueTypes, ParserRight, Past, Q!Parser, Q!Writes
  <2>2. parser["cli"].names = E
    BY <1>1, <2>1, NamesAgreed
  <2>3. subs.state = "none" => Q!NSub = 1 /\ qname[FirstUser] = E[1]
    BY <1>1, <2>1, <2>2, OptionFacts DEF InOrder, DeclaredInOrder, QueueTypes
  <2>4. queues' = queues \cup Q!Range(E) /\ kept' = E /\ UNCHANGED <<subs, qname>>
    BY <1>4, <2>2 DEF Q!QDeclare
  <2>5. AgreedOn(E)'
    BY <1>0, <1>1, <1>2, <2>3, <2>4, StaysAgreed DEF AgreedOn
  <2> QED BY <1>1, <2>4, <2>5, DeclaredAgreed DEF Agreed
<1>5. CASE Q!QCleanup /\ Q!Idle
  <2>1. Counts("cli") /\ Len(parser["cli"].names) = Q!NSub /\ "cli" \in Q!Parser
    BY <1>5 DEF Q!QCleanup, Counts, On, QueueTypes, ParserRight, Q!Parser
  <2>2. parser["cli"].names = E
    BY <1>1, <2>1, NamesAgreed
  <2>3. queues' = queues \ Q!Range(E) /\ kept' = <<>> /\ subs' = Q!NoSubs
    BY <1>5, <2>2 DEF Q!QCleanup
  <2>4. Q!Range(<<>>) = {} /\ Q!NoSubs.state = "none"
    BY OptionFacts DEF Q!Range, QueueTypes
  <2>5. queues' = {}
    BY <1>1, <2>3, <2>4 DEF AgreedOn
  <2>6. AgreedOn(E)'
    BY <1>0, <1>1, <1>2, <2>3, <2>4, StaysAgreed DEF AgreedOn
  <2> QED BY <1>1, <2>5, <2>6 DEF Agreed
<1>6. UNCHANGED <<queues, kept, subs, qname>> \/ Q!QDeclare \/ (Q!QCleanup /\ Q!Idle)
  BY DEF Q!QCommand, Q!QStart, Q!QCleanup, Q!StopInstances, Q!EditTopics
<1> QED BY <1>3, <1>4, <1>5, <1>6

-----------------------------------------------------------------------------
(* The first queue's name is n: in either file, and in what has been read or resolved. *)
FirstIs(n) ==
    /\ subs.state = "whole" => subs.names[1] = n
    /\ qname[FirstUser] \in {Q!NoName, n}
    /\ \A j \in Q!Parser : Counts(j) =>
          /\ parser[j].names # <<>> => parser[j].names[1] = n
          /\ parser[j].pc = "resolve" /\ parser[j].old.state = "whole" => parser[j].old.names[1] = n

(* There is a name in the .qname file once the lead has a pid, or its writer is still at it. *)
FirstOnFile ==
    /\ leadPid => qname[FirstUser] # Q!NoName
    /\ subs.state = "torn" => \E j \in Q!Parser : parser[j].pc = "write"
    /\ FirstUser \in qtmp => \E j \in Q!Parser : parser[j].pc = "rename"
    /\ \A j \in Q!Parser : parser[j].pc = "parsed" /\ Q!Writes(j) => qname[FirstUser] # Q!NoName

(* While nothing is killed and the queues are of one user, the .qname file holds the first name. *)
OneUser == qkills = 0 /\ Q!LastUser = FirstUser

(* Then the name of the first queue is known, whichever file is read, torn or not. *)
FirstKnown == OneUser => (\E n \in Nat : FirstIs(n)) /\ FirstOnFile

(* Until there is a .qname file, only one at a time resolves names. *)
LEMMA AloneBefore ==
    ASSUME QueueTypes, InOrder, ~leadPid, NEW j \in Q!Parser, Counts(j)
    PROVE  \A k \in Q!Parser : Counts(k) => k = j
BY DEF QueueTypes, InOrder, InstancesInOrder, Counts, Q!Parser, Parsing

(* It stays so, if nobody disturbs the names and the files keep to it. *)
LEMMA StaysFirst ==
    ASSUME QueueTypes, NEW n \in Nat, FirstIs(n), \A k \in Q!Parser : KeepsNames(k), qopt' = qopt,
           subs'.state = "whole" => subs'.names[1] = n, qname'[FirstUser] \in {Q!NoName, n}
    PROVE  FirstIs(n)'
<1>1. FirstUser' = FirstUser /\ Q!NoSubs.state = "none"
  BY OptionFacts DEF FirstUser, QueueTypes
<1>2. ASSUME NEW k \in Q!Parser, Counts(k)'
      PROVE  /\ parser'[k].names # <<>> => parser'[k].names[1] = n
             /\ parser'[k].pc = "resolve" /\ parser'[k].old.state = "whole" => parser'[k].old.names[1] = n
  <2>1. CASE parser'[k].names = <<>> /\ parser'[k].old = Q!NoSubs
    BY <1>1, <2>1
  <2>2. CASE ~(parser'[k].names = <<>> /\ parser'[k].old = Q!NoSubs)
    BY <1>2, <2>2 DEF KeepsNames, FirstIs
  <2> QED BY <2>1, <2>2
<1> QED BY <1>1, <1>2 DEF FirstIs

(* What one parser does leaves that alone, if it does not take away what it goes by. *)
LEMMA StaysOnFile ==
    ASSUME FirstOnFile, NEW j \in Q!Parser, FirstUser' = FirstUser,
           \A k \in Q!Parser \ {j} : parser'[k] = parser[k],
           leadPid' => qname'[FirstUser] # Q!NoName, qname[FirstUser] # Q!NoName => qname'[FirstUser] # Q!NoName,
           subs'.state = "torn" => parser'[j].pc = "write" \/ (subs.state = "torn" /\ parser[j].pc # "write"),
           FirstUser \in qtmp' => parser'[j].pc = "rename" \/ (FirstUser \in qtmp /\ parser[j].pc # "rename"),
           parser'[j].pc = "parsed" => qname'[FirstUser] # Q!NoName \/ ~Q!Writes(j)'
    PROVE  FirstOnFile'
<1>1. subs'.state = "torn" => \E k \in Q!Parser : parser'[k].pc = "write"
  BY DEF FirstOnFile
<1>2. FirstUser \in qtmp' => \E k \in Q!Parser : parser'[k].pc = "rename"
  BY DEF FirstOnFile
<1>3. ASSUME NEW k \in Q!Parser, parser'[k].pc = "parsed", Q!Writes(k)' PROVE qname'[FirstUser] # Q!NoName
  BY <1>3 DEF FirstOnFile, Q!Writes
<1> QED BY <1>1, <1>2, <1>3 DEF FirstOnFile

(* Resolving a name (resolve_queueName) takes the first name from either file, or makes it up alone. *)
LEMMA ResolveFirst ==
    ASSUME QueueTypes, InOrder, FirstKnown, NEW j \in Q!Parser, Q!Resolve(j) PROVE FirstKnown'
<1> DEFINE n == Len(parser[j].names) + 1
           old == Q!Old(j)
<1>1. PICK name \in Nat \ {Q!NoName}, p \in Parsing :
         /\ parser[j].pc = "resolve" /\ n \in 1 .. Q!NSub
         /\ old \in File /\ old.state # "torn"
         /\ old.state = "whole" => name = old.names[n]
         /\ old.state # "whole" => name = IF Q!FromQname(j) = Q!NoName THEN nextName ELSE Q!FromQname(j)
         /\ parser' = [parser EXCEPT ![j] = p]
         /\ \/ j = "worker" /\ p = Q!Off
            \/ /\ p.pc = "resolve" /\ p.old = old /\ p.names = Append(parser[j].names, name)
               /\ p.parse = parser[j].parse /\ p.action = parser[j].action
         /\ UNCHANGED <<qopt, subs, qname, qtmp, leadPid, qkills>>
  BY ResolveFacts
<1>2. FirstUser' = FirstUser /\ Q!LastUser' = Q!LastUser
  BY <1>1 DEF FirstUser, Q!LastUser, Q!NSub
<1> SUFFICES ASSUME OneUser, OneUser' PROVE ((\E x \in Nat : FirstIs(x)) /\ FirstOnFile)'
  BY <1>1, <1>2 DEF FirstKnown, OneUser
<1>3. PICK f \in Nat : FirstIs(f)
  BY DEF FirstKnown
<1>4. \A k \in Q!Parser \ {j} : parser'[k] = parser[k]
  BY <1>1 DEF QueueTypes
<1>5. parser'[j] = p /\ p.pc \in {"off", "resolve"} /\ (p = Q!Off => ~Counts(j)')
  BY <1>1, BeginFacts DEF Counts, On, QueueTypes
<1>6. FirstOnFile'
  BY <1>1, <1>2, <1>4, <1>5 DEF FirstKnown, FirstOnFile, Q!Writes
<1>7. CASE ~Counts(j)'
  BY <1>1, <1>2, <1>3, <1>4, <1>6, <1>7 DEF FirstIs, Counts, On
<1>8. CASE Counts(j)'
  <2>1. p.pc = "resolve" /\ p.old = old /\ p.names = Append(parser[j].names, name) /\ Counts(j)
    BY <1>1, <1>5, <1>8 DEF Counts, On
  <2>2. parser[j].names \in Seq(Nat \ {Q!NoName}) /\ parser[j] \in Parsing
    BY DEF QueueTypes, Parsing, Names
  <2>3. /\ p.names # <<>> /\ (parser[j].names # <<>> => p.names[1] = parser[j].names[1])
        /\ (parser[j].names = <<>> => p.names[1] = name /\ n = 1)
    <3> DEFINE names == parser[j].names
    <3>1. /\ Append(names, name) # <<>> /\ (names # <<>> => Append(names, name)[1] = names[1])
          /\ (names = <<>> => Append(names, name)[1] = name /\ Len(names) = 0)
      <4>1. names \in Seq(Nat \ {Q!NoName})
        BY <2>2
      <4> HIDE DEF names
      <4>2. Len(names) \in Nat /\ (names = <<>> <=> Len(names) = 0)
        BY <4>1
      <4>3. Len(Append(names, name)) = Len(names) + 1 /\ Append(names, name)[Len(names) + 1] = name
            /\ \A i \in 1 .. Len(names) : Append(names, name)[i] = names[i]
        BY <4>1
      <4>4. Append(names, name) # <<>>
        BY <4>1, <4>2, <4>3
      <4>5. names # <<>> => 1 \in 1 .. Len(names)
        BY <4>2
      <4> QED BY <4>2, <4>3, <4>4, <4>5
    <3> QED BY <2>1, <3>1
  <2>4. old.state = "whole" => old.names[1] = f
    BY <1>3, <1>1, <2>1 DEF Q!Old, FirstIs, Q!NoSubs
  <2>5. ASSUME p.names[1] = f PROVE FirstIs(f)'
    <3> HIDE DEF n, old
    <3> QED BY <1>1, <1>2, <1>3, <1>4, <1>5, <2>1, <2>4, <2>5 DEF FirstIs, Counts, On
  <2>6. CASE parser[j].names # <<>>
    BY <1>3, <1>6, <2>1, <2>3, <2>5, <2>6 DEF FirstIs
  <2>7. CASE parser[j].names = <<>> /\ (old.state = "whole" \/ Q!FromQname(j) # Q!NoName)
    <3>1. name = f
      BY <1>1, <1>3, <2>3, <2>4, <2>7 DEF Q!FromQname, FirstIs, FirstUser
    <3> QED BY <1>6, <2>3, <2>5, <2>7, <3>1
  <2>8. CASE parser[j].names = <<>> /\ old.state # "whole" /\ Q!FromQname(j) = Q!NoName
    <3>1. qname[FirstUser] = Q!NoName /\ ~leadPid
      BY <2>8 DEF Q!FromQname, FirstUser, FirstKnown, FirstOnFile
    <3>2. \A k \in Q!Parser : Counts(k) => k = j
      BY <2>1, <3>1, AloneBefore
    <3>3. subs.state = "none"
      <4>1. subs.state # "whole"
        BY <2>8 DEF Q!Old
      <4>2. ASSUME NEW k \in Q!Parser, parser[k].pc = "write" PROVE FALSE
        <5>1. Counts(k) /\ k # j
          BY <1>1, <4>2 DEF Counts, On, QueueTypes, ParserRight
        <5> QED BY <3>2, <5>1
      <4> QED BY <4>1, <4>2 DEF FirstKnown, FirstOnFile, QueueTypes, File
    <3>4. \A k \in Q!Parser : Counts(k)' => k = j
      BY <1>4, <3>2 DEF Counts, On
    <3>5. p.names[1] = name /\ subs' = subs /\ qname' = qname /\ p.old.state # "whole"
      BY <1>1, <2>1, <2>3, <2>8
    <3> HIDE DEF n, old
    <3>6. FirstIs(name)'
      BY <1>2, <1>5, <3>1, <3>3, <3>4, <3>5 DEF FirstIs
    <3> QED BY <1>6, <3>6
  <2> QED BY <2>6, <2>7, <2>8
<1> QED BY <1>7, <1>8

(* Opening the state file (finalize) leaves the .qname file. *)
LEMMA FinalizeFirst == ASSUME QueueTypes, FirstKnown, NEW j \in Q!Parser, Q!Finalize(j) PROVE FirstKnown'
<1>1. UNCHANGED <<qopt, qname, qtmp, leadPid, qkills>>
        /\ (subs' = subs \/ (subs'.state = "torn" /\ parser'[j].pc = "write"))
      /\ parser[j].pc = "resolve"
  BY DEF Q!Finalize, Q!NoSubs, QueueTypes, Parsing
<1>2. FirstUser' = FirstUser /\ Q!LastUser' = Q!LastUser
  BY <1>1 DEF FirstUser, Q!LastUser, Q!NSub
<1> SUFFICES ASSUME OneUser, OneUser' PROVE ((\E x \in Nat : FirstIs(x)) /\ FirstOnFile)'
  BY <1>1, <1>2 DEF FirstKnown, OneUser
<1>3. PICK f \in Nat : FirstIs(f)
  BY DEF FirstKnown
<1>4. \A k \in Q!Parser : KeepsNames(k)
  BY DEF Q!Finalize, KeepsNames, QueueTypes, Parsing, Counts, On
<1>5. FirstIs(f)'
  BY <1>1, <1>3, <1>4, StaysFirst DEF FirstIs
<1>6. (\A k \in Q!Parser \ {j} : parser'[k] = parser[k]) /\ parser'[j].action = parser[j].action
      /\ (parser'[j].pc = "parsed" => ~Q!Writes(j))
  BY DEF Q!Finalize, QueueTypes, Parsing
<1>7. FirstOnFile'
  BY <1>1, <1>2, <1>6 DEF FirstKnown, FirstOnFile, Q!Writes
<1> QED BY <1>5, <1>7

(* The .qname file is written under another name and renamed (resolve_queueName): it holds the name. *)
LEMMA WriteFirst ==
    ASSUME QueueTypes, InOrder, FirstKnown, NEW j \in Q!Parser,
           Q!WriteSubs(j) \/ Q!WriteQname(j) \/ Q!RenameQname(j)
    PROVE  FirstKnown'
<1>1. UNCHANGED <<qopt, leadPid, qkills>> /\ parser[j].pc \in {"write", "qname", "rename"}
  BY DEF Q!WriteSubs, Q!WriteQname, Q!RenameQname
<1>2. FirstUser' = FirstUser /\ Q!LastUser' = Q!LastUser
  BY <1>1 DEF FirstUser, Q!LastUser, Q!NSub
<1> SUFFICES ASSUME OneUser, OneUser' PROVE ((\E x \in Nat : FirstIs(x)) /\ FirstOnFile)'
  BY <1>1, <1>2 DEF FirstKnown, OneUser
<1>3. PICK f \in Nat : FirstIs(f)
  BY DEF FirstKnown
<1>4. \A k \in Q!Parser : KeepsNames(k)
  BY WriteKeeps
<1>5. Counts(j) /\ Len(parser[j].names) = Q!NSub /\ parser[j].names \in Names /\ Q!NSub \in {1, 2}
        /\ FirstUser \in Q!User
      /\ Q!LastUser = FirstUser
  BY <1>1, OptionFacts DEF QueueTypes, ParserRight, Counts, On, Q!Parser, Parsing, OneUser
<1>6. parser[j].names[1] = f /\ f # Q!NoName
  <2>1. parser[j].names # <<>> /\ parser[j].names[1] \in Nat \ {Q!NoName}
    BY <1>5 DEF Names
  <2> QED BY <1>3, <1>5, <2>1 DEF FirstIs
<1>7. \A k \in Q!Parser \ {j} : parser'[k] = parser[k]
  BY DEF QueueTypes, Q!WriteSubs, Q!WriteQname, Q!RenameQname
<1>8. CASE Q!WriteSubs(j)
  <2>1. subs'.state = "whole" /\ subs'.names[1] = f /\ UNCHANGED <<qname, qtmp>>
          /\ parser'[j].pc = "qname" /\ parser[j].pc = "write"
    BY <1>6, <1>8 DEF Q!WriteSubs, QueueTypes, Parsing
  <2>2. FirstIs(f)'
    BY <1>1, <1>3, <1>4, <2>1, StaysFirst DEF FirstIs
  <2>3. FirstOnFile'
    <3>1. (leadPid' => qname'[FirstUser] # Q!NoName) /\ FirstOnFile
      BY <1>1, <2>1 DEF FirstKnown, FirstOnFile
    <3>3. FirstUser \in qtmp' => FirstUser \in qtmp /\ parser[j].pc # "rename"
      BY <2>1
    <3>4. subs'.state # "torn" /\ parser'[j].pc # "parsed" /\ qname' = qname
      BY <2>1
    <3> QED BY <1>2, <1>7, <3>1, <3>3, <3>4, StaysOnFile
  <2> QED BY <2>2, <2>3
<1>9. CASE Q!WriteQname(j)
  <2>1. UNCHANGED <<subs, qname>> /\ parser[j].pc = "qname"
        /\ \/ qtmp' = qtmp \cup {FirstUser} /\ parser'[j].pc = "rename"
           \/ qtmp' = qtmp /\ parser'[j].pc = "parsed" /\ (qname[FirstUser] # Q!NoName \/ FirstUser \in qtmp)
    BY <1>5, <1>9 DEF Q!WriteQname, QueueTypes, Parsing
  <2>2. FirstIs(f)'
    BY <1>1, <1>3, <1>4, <2>1, StaysFirst DEF FirstIs
  <2>3. ASSUME FirstUser \in qtmp, qname[FirstUser] = Q!NoName PROVE FALSE
    <3>1. PICK k \in Q!Parser : parser[k].pc = "rename"
      BY <2>3 DEF FirstKnown, FirstOnFile
    <3>2. Counts(k) /\ k # j /\ ~leadPid
      BY <2>1, <2>3, <3>1 DEF FirstKnown, FirstOnFile, Counts, On, QueueTypes, ParserRight
    <3> QED BY <1>5, <3>2, AloneBefore
  <2>4. FirstOnFile'
    <3>1. parser'[j].pc = "parsed" => qname'[FirstUser] # Q!NoName
      BY <2>1, <2>3
    <3>2. (leadPid' => qname'[FirstUser] # Q!NoName) /\ FirstOnFile
      BY <1>1, <2>1 DEF FirstKnown, FirstOnFile
    <3>3. FirstUser \in qtmp' => parser'[j].pc = "rename" \/ (FirstUser \in qtmp /\ parser[j].pc # "rename")
      BY <2>1
    <3>5. qname' = qname /\ (subs'.state = "torn" => subs.state = "torn" /\ parser[j].pc # "write")
      BY <2>1
    <3> QED BY <1>2, <1>7, <3>1, <3>2, <3>3, <3>5, StaysOnFile
  <2> QED BY <2>2, <2>4
<1>10. CASE Q!RenameQname(j)
  <2>1. subs' = subs /\ qname'[FirstUser] = f /\ qtmp' = qtmp \ {FirstUser} /\ parser[j].pc = "rename"
          /\ parser'[j].pc = "parsed"
    BY <1>5, <1>6, <1>10 DEF Q!RenameQname, QueueTypes, Parsing
  <2>2. FirstIs(f)'
    BY <1>1, <1>3, <1>4, <2>1, StaysFirst DEF FirstIs
  <2>3. FirstOnFile'
    <3>1. FirstOnFile /\ qname'[FirstUser] # Q!NoName
      BY <1>6, <2>1 DEF FirstKnown
    <3>3. FirstUser \notin qtmp' /\ (subs'.state = "torn" => subs.state = "torn" /\ parser[j].pc # "write")
      BY <2>1
    <3> QED BY <1>2, <1>7, <3>1, <3>3, StaysOnFile
  <2> QED BY <2>2, <2>3
<1> QED BY <1>8, <1>9, <1>10

(* Waiting for the lead, and binding, leave the names; who dies is counted. *)
LEMMA InstanceFirst ==
    ASSUME QueueTypes, FirstKnown, NEW j \in Q!Parser, Q!WaitForLead(j) \/ Q!Connect(j) \/ Q!KillParser(j)
    PROVE  FirstKnown'
<1>1. CASE Q!KillParser(j)
  BY <1>1 DEF Q!KillParser, FirstKnown, OneUser, QueueTypes
<1>2. CASE Q!WaitForLead(j) \/ Q!Connect(j)
  <2>1. UNCHANGED <<qopt, subs, qname, qtmp, qkills>> /\ parser[j].pc = "parsed"
          /\ parser'[j].pc \in {"resolve", "running"}
        /\ (leadPid' = leadPid \/ leadPid \/ j = "lead") /\ \A k \in Q!Parser \ {j} : parser'[k] = parser[k]
    <3>1. CASE Q!WaitForLead(j)
      BY <3>1, BeginFacts DEF Q!WaitForLead, QueueTypes
    <3>2. CASE Q!Connect(j)
      BY <3>2 DEF Q!Connect, QueueTypes, Parsing
    <3> QED BY <1>2, <3>1, <3>2
  <2>2. FirstUser' = FirstUser /\ Q!LastUser' = Q!LastUser
    BY <2>1 DEF FirstUser, Q!LastUser, Q!NSub
  <2> SUFFICES ASSUME OneUser, OneUser' PROVE ((\E x \in Nat : FirstIs(x)) /\ FirstOnFile)'
    BY <2>1, <2>2 DEF FirstKnown, OneUser
  <2>3. PICK f \in Nat : FirstIs(f)
    BY DEF FirstKnown
  <2>4. \A k \in Q!Parser : KeepsNames(k)
    <3>1. CASE Q!WaitForLead(j)
      BY <3>1, BeginFacts DEF Q!WaitForLead, KeepsNames, QueueTypes, Counts, On
    <3>2. CASE Q!Connect(j)
      BY <3>2 DEF Q!Connect, KeepsNames, QueueTypes, Parsing, Counts, On
    <3> QED BY <1>2, <3>1, <3>2
  <2>5. FirstIs(f)'
    BY <2>1, <2>3, <2>4, StaysFirst DEF FirstIs
  <2>6. FirstOnFile'
    <3>1. (leadPid' => qname'[FirstUser] # Q!NoName) /\ FirstOnFile
      BY <2>1 DEF FirstKnown, FirstOnFile, Q!Writes
    <3> QED BY <2>1, <2>2, <3>1, StaysOnFile
  <2> QED BY <2>5, <2>6
<1> QED BY <1>1, <1>2

(* The commands leave the names, or remove them all (cleanup). *)
LEMMA CommandFirst ==
    ASSUME QueueTypes, FirstKnown,
           \/ \E action \in {"start", "declare", "cleanup"} : Q!QCommand(action)
           \/ Q!QStart \/ Q!QDeclare \/ Q!QCleanup \/ Q!StopInstances \/ Q!EditTopics
    PROVE  FirstKnown'
<1>0. Q!Off.pc = "off" /\ qopt' = qopt /\ qkills' = qkills
  BY BeginFacts DEF Q!QCommand, Q!QStart, Q!QDeclare, Q!QCleanup, Q!StopInstances, Q!EditTopics, QueueTypes
<1>1. FirstUser' = FirstUser /\ Q!LastUser' = Q!LastUser /\ FirstUser \in Q!User /\ Q!NoSubs.state = "none"
  BY <1>0, OptionFacts DEF FirstUser, Q!LastUser, Q!NSub, QueueTypes
<1> SUFFICES ASSUME OneUser, OneUser' PROVE ((\E x \in Nat : FirstIs(x)) /\ FirstOnFile)'
  BY <1>0, <1>1 DEF FirstKnown, OneUser
<1>2. PICK f \in Nat : FirstIs(f)
  BY DEF FirstKnown
<1>3. \A k \in Q!Parser : KeepsNames(k) /\ (parser'[k] = parser[k] \/ parser'[k].pc \in {"off", "resolve"})
                       /\ (parser'[k] = parser[k] \/ parser[k].pc \in {"off", "parsed", "running"})
  <2>1. ASSUME NEW action \in {"start", "declare", "cleanup"}, Q!QCommand(action)
        PROVE  \A k \in Q!Parser : KeepsNames(k) /\ (parser'[k] = parser[k] \/ parser'[k].pc \in {"off", "resolve"})
                       /\ (parser'[k] = parser[k] \/ parser[k].pc \in {"off", "parsed", "running"})
    BY <2>1, BeginFacts DEF Q!QCommand, KeepsNames, QueueTypes, Counts, On, Q!Parser
  <2>2. CASE Q!QStart
    BY <2>2, <1>0, BeginFacts DEF Q!QStart, Q!Idle, KeepsNames, QueueTypes, Counts, On, Q!Parser
  <2>3. CASE Q!QDeclare \/ Q!QCleanup
    BY <2>3, <1>0 DEF Q!QDeclare, Q!QCleanup, KeepsNames, QueueTypes, Counts, On, Q!Parser
  <2>4. CASE Q!StopInstances
    BY <2>4, <1>0 DEF Q!StopInstances, KeepsNames, QueueTypes, Counts, On, Q!Parser
  <2>5. CASE Q!EditTopics
    BY <2>5 DEF Q!EditTopics, KeepsNames, Counts, On
  <2> QED BY <2>1, <2>2, <2>3, <2>4, <2>5
<1>4. CASE UNCHANGED <<subs, qname, qtmp>> /\ leadPid' \in {leadPid, FALSE}
  <2>1. FirstIs(f)'
    BY <1>0, <1>2, <1>3, <1>4, StaysFirst DEF FirstIs
  <2>2. FirstOnFile'
    <3>1. \A k \in Q!Parser : (parser'[k].pc = "parsed" \/ parser[k].pc \in {"write", "rename"}) => parser'[k] = parser[k]
      BY <1>3
    <3>2. subs'.state = "torn" => \E k \in Q!Parser : parser'[k].pc = "write"
      BY <1>4, <3>1 DEF FirstKnown, FirstOnFile
    <3>3. FirstUser \in qtmp' => \E k \in Q!Parser : parser'[k].pc = "rename"
      BY <1>4, <3>1 DEF FirstKnown, FirstOnFile
    <3>4. ASSUME NEW k \in Q!Parser, parser'[k].pc = "parsed", Q!Writes(k)' PROVE qname'[FirstUser] # Q!NoName
      BY <1>4, <3>1, <3>4 DEF FirstKnown, FirstOnFile, Q!Writes
    <3>5. leadPid' => qname'[FirstUser] # Q!NoName
      BY <1>4 DEF FirstKnown, FirstOnFile
    <3> QED BY <1>1, <3>2, <3>3, <3>4, <3>5 DEF FirstOnFile
  <2> QED BY <2>1, <2>2
<1>5. CASE Q!QCleanup /\ Q!Idle
  <2>1. subs' = Q!NoSubs /\ qname'[FirstUser] = Q!NoName /\ qtmp' = {} /\ ~leadPid'
          /\ \A k \in Q!Parser : parser'[k].pc = "off"
    BY <1>0, <1>1, <1>5 DEF Q!QCleanup, Q!Idle, QueueTypes, Q!Parser
  <2>2. FirstIs(f)'
    BY <1>0, <1>1, <1>2, <1>3, <2>1, StaysFirst
  <2>3. FirstOnFile'
    BY <1>1, <2>1 DEF FirstOnFile
  <2> QED BY <2>2, <2>3
<1>6. (UNCHANGED <<subs, qname, qtmp>> /\ leadPid' \in {leadPid, FALSE}) \/ (Q!QCleanup /\ Q!Idle)
  BY DEF Q!QCommand, Q!QStart, Q!QDeclare, Q!QCleanup, Q!StopInstances, Q!EditTopics
<1> QED BY <1>4, <1>5, <1>6

-----------------------------------------------------------------------------
(* Bound is, to each queue declared, what was last wanted. *)
BoundRight ==
    /\ bound = Q!Range(kept) \X wanted
    /\ kept = <<>> => wanted = {}
    /\ subs.state = "none" => wanted = {}

(* Those who have written what they know, and have bindings to make or undo: that covers what is
   bound, and all of them, and the file, say the same. *)
WrittenRight ==
    \A j \in Q!Parser : Written(j) =>
        /\ wanted \subseteq parser[j].topics \cup parser[j].remove
        /\ parser[j].remove \cap parser[j].topics = {}
        /\ ~Q!Connects(j) => parser[j].remove = {}
        /\ \A k \in Q!Parser : (Written(k) => parser[k].topics = parser[j].topics)
                            /\ (Reading(k) => parser[k].old.topics = parser[j].topics)
        /\ subs.state = "whole" => subs.topics = parser[j].topics

(* What is bound is in the file, and in what was read of it, unless someone is about to undo it. *)
FileCovers ==
    /\ subs.state = "whole" => wanted \subseteq subs.topics \/ \E k \in Q!Parser : Pending(k)
    /\ \A j \in Q!Parser : Reading(j) => wanted \subseteq parser[j].old.topics \/ \E k \in Q!Parser : Pending(k)

(* Unless a change was missed or a file read torn, bindings are as wanted, and on file. *)
BindingsKnown == ~missed /\ ~torn => BoundRight /\ WrittenRight /\ FileCovers

(* Nobody disturbs that who neither reads, writes nor binds. *)
KeepsBindings(k) ==
    /\ Written(k)' => /\ Written(k) /\ parser'[k].topics = parser[k].topics /\ parser'[k].remove = parser[k].remove
                      /\ (Q!Connects(k)' <=> Q!Connects(k))
    /\ Pending(k) => Pending(k)'
    /\ Reading(k)' => Reading(k) /\ parser'[k].old = parser[k].old

(* It stays so, if nobody writes, binds or reads the file anew. *)
LEMMA StaysKnown ==
    ASSUME BindingsKnown, \A k \in Q!Parser : KeepsBindings(k), UNCHANGED <<subs, bound, kept, wanted>>,
           missed => missed', torn => torn'
    PROVE  BindingsKnown'
<1> SUFFICES ASSUME ~missed', ~torn' PROVE (BoundRight /\ WrittenRight /\ FileCovers)'
  BY DEF BindingsKnown
<1>1. BoundRight /\ WrittenRight /\ FileCovers
  BY DEF BindingsKnown
<1>2. BoundRight'
  BY <1>1 DEF BoundRight, Q!Range
<1>3. WrittenRight'
  <2> SUFFICES ASSUME NEW j \in Q!Parser, Written(j)'
               PROVE  /\ wanted' \subseteq parser'[j].topics \cup parser'[j].remove
                      /\ parser'[j].remove \cap parser'[j].topics = {}
                      /\ ~Q!Connects(j)' => parser'[j].remove = {}
                      /\ \A k \in Q!Parser : (Written(k)' => parser'[k].topics = parser'[j].topics)
                                          /\ (Reading(k)' => parser'[k].old.topics = parser'[j].topics)
                      /\ subs'.state = "whole" => subs'.topics = parser'[j].topics
    BY DEF WrittenRight
  <2>1. Written(j) /\ parser'[j].topics = parser[j].topics /\ parser'[j].remove = parser[j].remove
        /\ (Q!Connects(j)' <=> Q!Connects(j))
    BY DEF KeepsBindings
  <2>2. \A k \in Q!Parser : (Written(k)' => Written(k) /\ parser'[k].topics = parser[k].topics)
                         /\ (Reading(k)' => Reading(k) /\ parser'[k].old = parser[k].old)
    BY DEF KeepsBindings
  <2> QED BY <1>1, <2>1, <2>2 DEF WrittenRight
<1>4. FileCovers'
  BY <1>1 DEF FileCovers, KeepsBindings
<1> QED BY <1>2, <1>3, <1>4

(* Reading the state file (Subscriptions.read, at the first name) covers what is bound. *)
LEMMA ResolveBindings ==
    ASSUME QueueTypes, BindingsKnown, NEW j \in Q!Parser, Q!Resolve(j) PROVE BindingsKnown'
<1> SUFFICES ASSUME ~missed', ~torn' PROVE (BoundRight /\ WrittenRight /\ FileCovers)'
  BY DEF BindingsKnown
<1> DEFINE old == Q!Old(j)
<1>1. PICK p \in Parsing :
         /\ parser[j].pc = "resolve" /\ parser' = [parser EXCEPT ![j] = p]
         /\ \/ j = "worker" /\ p = Q!Off
            \/ p.pc = "resolve" /\ p.old = old /\ p.action = parser[j].action
         /\ torn' = (torn \/ (subs.state = "torn" /\ old.state = "none"))
         /\ UNCHANGED <<subs, bound, kept, wanted, missed>>
  BY ResolveFacts
<1>2. BoundRight /\ WrittenRight /\ FileCovers
  BY <1>1 DEF BindingsKnown
<1>3. parser'[j] = p /\ p.pc \in {"off", "resolve"} /\ \A k \in Q!Parser \ {j} : parser'[k] = parser[k]
  BY <1>1, BeginFacts DEF QueueTypes
<1>4. \A k \in Q!Parser : /\ Written(k)' => Written(k) /\ k # j
                          /\ Written(k) => Written(k)' /\ k # j
                          /\ k # j => (Q!Connects(k)' <=> Q!Connects(k)) /\ (Reading(k)' <=> Reading(k)) /\ (Pending(k)' <=> Pending(k))
  BY <1>1, <1>3 DEF Written, Reading, Pending, Q!Connects, Q!Writes
<1>5. Reading(j)' => parser'[j].old = old /\ old.state = "whole"
        /\ ((Reading(j) /\ old = parser[j].old) \/ (subs.state = "whole" /\ old = subs))
  BY <1>1, <1>3, BeginFacts DEF Reading, Q!Writes, Q!Old, Q!NoSubs, QueueTypes
<1>6. BoundRight'
  BY <1>1, <1>2 DEF BoundRight, Q!Range
<1> HIDE DEF old
<1>7. WrittenRight'
  <2> SUFFICES ASSUME NEW i \in Q!Parser, Written(i)'
               PROVE  /\ wanted' \subseteq parser'[i].topics \cup parser'[i].remove
                      /\ parser'[i].remove \cap parser'[i].topics = {}
                      /\ ~Q!Connects(i)' => parser'[i].remove = {}
                      /\ \A k \in Q!Parser : (Written(k)' => parser'[k].topics = parser'[i].topics)
                                          /\ (Reading(k)' => parser'[k].old.topics = parser'[i].topics)
                      /\ subs'.state = "whole" => subs'.topics = parser'[i].topics
    BY DEF WrittenRight
  <2>1. Written(i) /\ i # j /\ parser'[i] = parser[i] /\ (Q!Connects(i)' <=> Q!Connects(i))
          /\ UNCHANGED <<subs, wanted>>
    BY <1>1, <1>3, <1>4
  <2>2. \A k \in Q!Parser : Written(k)' => parser'[k].topics = parser'[i].topics
    BY <1>2, <1>3, <1>4, <2>1 DEF WrittenRight
  <2>3. ASSUME NEW k \in Q!Parser, Reading(k)' PROVE parser'[k].old.topics = parser'[i].topics
    <3>1. CASE k # j
      BY <1>2, <1>3, <1>4, <2>1, <2>3, <3>1 DEF WrittenRight
    <3>2. CASE k = j
      BY <1>2, <1>5, <2>1, <2>3, <3>2 DEF WrittenRight
    <3> QED BY <3>1, <3>2
  <2> QED BY <1>2, <2>1, <2>2, <2>3 DEF WrittenRight
<1>8. FileCovers'
  <2>1. (\E k \in Q!Parser : Pending(k)) => \E k \in Q!Parser : Pending(k)'
    BY <1>4 DEF Pending
  <2>2. ASSUME NEW k \in Q!Parser, Reading(k)'
               PROVE wanted \subseteq parser'[k].old.topics \/ \E i \in Q!Parser : Pending(i)
    <3>1. CASE k # j
      BY <1>2, <1>3, <1>4, <2>2, <3>1 DEF FileCovers
    <3>2. CASE k = j
      BY <1>2, <1>5, <2>2, <3>2 DEF FileCovers
    <3> QED BY <3>1, <3>2
  <2> QED BY <1>1, <1>2, <2>1, <2>2 DEF FileCovers
<1> QED BY <1>6, <1>7, <1>8

(* Who finds bindings to remove (finalize) writes the rest and has those in mind until it unbinds. *)
LEMMA FinalizeBindings ==
    ASSUME QueueTypes, InOrder, BindingsKnown, NEW j \in Q!Parser, Q!Finalize(j) PROVE BindingsKnown'
<1>1. UNCHANGED <<bound, kept, wanted>> /\ parser[j].pc = "resolve" /\ (torn => torn') /\ (missed => missed')
      /\ (~missed' /\ Q!Writes(j) => (Q!Connects(j) => stateDir) /\ (~Q!Connects(j) => Q!BindingsToRemove(j) = {})
                                     /\ \A k \in Q!Parser \ {j} : ~Q!Outdated(k))
  BY DEF Q!Finalize
<1>2. /\ \A k \in Q!Parser \ {j} : parser'[k] = parser[k]
      /\ parser'[j].pc = IF ~Q!Writes(j) THEN "parsed" ELSE IF stateDir THEN "write" ELSE "qname"
      /\ parser'[j].action = parser[j].action /\ parser'[j].parse = parser[j].parse
      /\ parser'[j].topics = conf /\ parser'[j].remove = parser[j].old.topics \ conf
  BY DEF Q!Finalize, QueueTypes, Parsing, Q!BindingsToRemove
<1>3. \A k \in Q!Parser : /\ (Q!Connects(k)' <=> Q!Connects(k)) /\ (Q!Writes(k)' <=> Q!Writes(k))
                          /\ k # j => (Written(k)' <=> Written(k)) /\ (Pending(k)' <=> Pending(k)) /\ (Reading(k)' <=> Reading(k))
  BY <1>2 DEF Q!Connects, Q!Writes, Written, Pending, Reading
<1>4. ~Reading(j)' /\ ~Written(j) /\ ~Pending(j)
  BY <1>1, <1>2 DEF Reading, Written, Pending
<1>5. CASE missed'
  BY <1>5 DEF BindingsKnown
<1>6. CASE ~(Q!Writes(j) /\ stateDir) /\ ~missed'
  <2>1. ~Written(j)'
    BY <1>1, <1>2, <1>3, <1>6 DEF Written
  <2>2. subs' = subs
    BY <1>6 DEF Q!Finalize
  <2>3. \A k \in Q!Parser : KeepsBindings(k)
    BY <1>2, <1>3, <1>4, <2>1 DEF KeepsBindings
  <2> QED BY <1>1, <2>2, <2>3, StaysKnown
<1>7. CASE Q!Writes(j) /\ stateDir /\ ~missed'
  <2> SUFFICES ASSUME ~torn' PROVE (BoundRight /\ WrittenRight /\ FileCovers)'
    BY DEF BindingsKnown
  <2>1. BoundRight /\ WrittenRight /\ FileCovers /\ ~torn
    BY <1>1, <1>7 DEF BindingsKnown
  <2>2. subs'.state = "torn" /\ parser'[j].pc = "write" /\ Written(j)'
    BY <1>2, <1>3, <1>7 DEF Q!Finalize, Q!NoSubs, Written
  <2>3. \A k \in Q!Parser \ {j} : /\ Reading(k) => parser[k].old.topics = conf
                                  /\ Written(k) => parser[k].topics = conf /\ parser[k].remove = {}
    BY <1>1, <1>7 DEF Q!Outdated, Q!Between, Reading, Written
  <2>4. wanted \subseteq parser'[j].topics \cup parser'[j].remove
    <3>1. CASE Reading(j) /\ wanted \subseteq parser[j].old.topics
      BY <1>2, <3>1
    <3>2. CASE \E k \in Q!Parser : Pending(k)
      <4>1. PICK k \in Q!Parser : Pending(k)
        BY <3>2
      <4> QED BY <1>2, <1>4, <2>1, <2>3, <4>1 DEF WrittenRight, Pending
    <3>3. CASE ~Reading(j)
      <4>1. Counts(j) /\ parser[j].names # <<>> /\ parser[j].old.state = "none"
        BY <1>1, <1>7, <3>3, OptionFacts DEF Q!Finalize, Reading, Counts, On, Q!Writes, QueueTypes,
           Parsing, File, ParserRight
      <4> QED BY <1>1, <2>1, <4>1 DEF InOrder, ReadInOrder, BoundRight
    <3> QED BY <2>1, <3>1, <3>2, <3>3 DEF FileCovers
  <2>5. BoundRight'
    BY <1>1, <2>1, <2>2 DEF BoundRight, Q!Range
  <2>6. WrittenRight'
    <3> SUFFICES ASSUME NEW i \in Q!Parser, Written(i)'
               PROVE  /\ wanted' \subseteq parser'[i].topics \cup parser'[i].remove
                      /\ parser'[i].remove \cap parser'[i].topics = {}
                      /\ ~Q!Connects(i)' => parser'[i].remove = {}
                      /\ \A k \in Q!Parser : (Written(k)' => parser'[k].topics = parser'[i].topics)
                                          /\ (Reading(k)' => parser'[k].old.topics = parser'[i].topics)
      BY <2>2 DEF WrittenRight
    <3>1. \A k \in Q!Parser : (Written(k)' => parser'[k].topics = conf) /\ (Reading(k)' => parser'[k].old.topics = conf)
      BY <1>2, <1>3, <1>4, <2>3
    <3>2. CASE i = j
      BY <1>1, <1>2, <1>3, <1>7, <2>4, <3>1, <3>2 DEF Q!BindingsToRemove
    <3>3. CASE i # j
      BY <1>1, <1>2, <1>3, <2>1, <3>1, <3>3 DEF WrittenRight
    <3> QED BY <3>2, <3>3
  <2>7. FileCovers'
    <3>1. \A k \in Q!Parser : Pending(k) => Pending(k)'
      BY <1>3, <1>4
    <3> QED BY <1>1, <1>2, <1>3, <1>4, <2>1, <2>2, <3>1 DEF FileCovers
  <2> QED BY <2>5, <2>6, <2>7
<1> QED BY <1>5, <1>6, <1>7

(* Writing the state file (Subscriptions.write) puts there what the writer goes by. *)
LEMMA WriteBindings ==
    ASSUME QueueTypes, BindingsKnown, NEW j \in Q!Parser,
           Q!WriteSubs(j) \/ Q!WriteQname(j) \/ Q!RenameQname(j)
    PROVE  BindingsKnown'
<1>1. UNCHANGED <<bound, kept, wanted, missed, torn>> /\ \A k \in Q!Parser \ {j} : parser'[k] = parser[k]
  BY DEF Q!WriteSubs, Q!WriteQname, Q!RenameQname, QueueTypes
<1>2. /\ parser[j].pc \in {"write", "qname", "rename"} /\ parser'[j].pc \in {"qname", "rename", "parsed"}
      /\ parser'[j].topics = parser[j].topics /\ parser'[j].remove = parser[j].remove
      /\ parser'[j].action = parser[j].action /\ parser'[j].parse = parser[j].parse
  BY DEF Q!WriteSubs, Q!WriteQname, Q!RenameQname, QueueTypes, Parsing
<1>3. \A k \in Q!Parser : KeepsBindings(k)
  BY <1>1, <1>2 DEF KeepsBindings, Written, Reading, Pending, Q!Connects, Q!Writes
<1>4. CASE Q!WriteQname(j) \/ Q!RenameQname(j)
  <2>1. subs' = subs
    BY <1>4 DEF Q!WriteQname, Q!RenameQname
  <2> QED BY <1>1, <1>3, <2>1, StaysKnown
<1>5. CASE Q!WriteSubs(j)
  <2> SUFFICES ASSUME ~missed', ~torn' PROVE (BoundRight /\ WrittenRight /\ FileCovers)'
    BY DEF BindingsKnown
  <2>1. BoundRight /\ WrittenRight /\ FileCovers
    BY <1>1 DEF BindingsKnown
  <2>2. subs'.state = "whole" /\ subs'.topics = parser[j].topics /\ Written(j)
          /\ (Q!Connects(j) => Pending(j)')
    BY <1>1, <1>2, <1>5 DEF Q!WriteSubs, Written, Q!Writes, Q!Connects, Pending, QueueTypes, ParserRight,
       Q!Parser
  <2>3. BoundRight'
    BY <1>1, <2>1, <2>2 DEF BoundRight, Q!Range
  <2>4. WrittenRight'
    <3> SUFFICES ASSUME NEW i \in Q!Parser, Written(i)'
               PROVE  /\ wanted' \subseteq parser'[i].topics \cup parser'[i].remove
                      /\ parser'[i].remove \cap parser'[i].topics = {}
                      /\ ~Q!Connects(i)' => parser'[i].remove = {}
                      /\ \A k \in Q!Parser : (Written(k)' => parser'[k].topics = parser'[i].topics)
                                          /\ (Reading(k)' => parser'[k].old.topics = parser'[i].topics)
                      /\ subs'.state = "whole" => subs'.topics = parser'[i].topics
      BY DEF WrittenRight
    <3>1. Written(i) /\ parser'[i].topics = parser[i].topics /\ parser'[i].remove = parser[i].remove
        /\ (Q!Connects(i)' <=> Q!Connects(i))
      BY <1>3 DEF KeepsBindings
    <3>2. \A k \in Q!Parser : (Written(k)' => Written(k) /\ parser'[k].topics = parser[k].topics)
                         /\ (Reading(k)' => Reading(k) /\ parser'[k].old = parser[k].old)
      BY <1>3 DEF KeepsBindings
    <3> QED BY <1>1, <2>1, <2>2, <3>1, <3>2 DEF WrittenRight
  <2>5. FileCovers'
    <3>1. wanted \subseteq subs'.topics \/ \E k \in Q!Parser : Pending(k)'
      BY <2>1, <2>2 DEF WrittenRight
    <3>2. ASSUME NEW k \in Q!Parser, Reading(k)'
                 PROVE wanted \subseteq parser'[k].old.topics \/ \E i \in Q!Parser : Pending(i)'
      BY <1>3, <2>1, <3>2 DEF FileCovers, KeepsBindings
    <3> QED BY <1>1, <3>1, <3>2 DEF FileCovers
  <2> QED BY <2>3, <2>4, <2>5
<1> QED BY <1>4, <1>5

(* Who declares and binds leaves what it knows, and nothing else. *)
LEMMA DeclareBindings ==
    ASSUME QueueTypes, Agreed, BindingsKnown, NEW j \in Q!Parser, Pending(j), Counts(j),
           Len(parser[j].names) = Q!NSub,
           parser' = [parser EXCEPT ![j] = parser'[j]], parser'[j].pc \in {"off", "running"}, subs' = subs,
           bound' = (bound \cup (Q!Range(parser[j].names) \X parser[j].topics))
                    \ Q!Unbound(parser[j].names, parser[j].remove),
           kept' = parser[j].names, wanted' = parser[j].topics, torn' = torn, missed' = missed,
           subs.state # "none" \/ missed
    PROVE  BindingsKnown'
<1> SUFFICES ASSUME ~missed', ~torn' PROVE (BoundRight /\ WrittenRight /\ FileCovers)'
  BY DEF BindingsKnown
<1>1. BoundRight /\ WrittenRight /\ FileCovers /\ Written(j)
  BY DEF BindingsKnown, Pending
<1>2. PICK E \in Names : AgreedOn(E)
  BY DEF Agreed
<1>3. parser[j].names = E /\ E # <<>>
  <2>1. parser[j].names = E /\ Len(E) \in {1, 2}
    BY <1>2, NamesAgreed, OptionFacts DEF QueueTypes
  <2> QED BY <2>1
<1>4. bound = Q!Range(E) \X wanted
  BY <1>1, <1>2 DEF BoundRight, AgreedOn
<1>5. BoundRight'
  <2>1. wanted \subseteq parser[j].topics \cup parser[j].remove /\ parser[j].remove \cap parser[j].topics = {}
    BY <1>1 DEF WrittenRight
  <2>2. bound' = Q!Range(E) \X parser[j].topics
    BY <1>3, <1>4, <2>1 DEF Q!Unbound
  <2>3. kept' = E /\ wanted' = parser[j].topics /\ Q!Range(kept)' = Q!Range(E)
    BY <1>3 DEF Q!Range
  <2> QED BY <1>3, <2>2, <2>3 DEF BoundRight
<1>6. \A k \in Q!Parser \ {j} : parser'[k] = parser[k]
  BY DEF QueueTypes
<1>7. /\ ~Written(j)' /\ ~Reading(j)'
      /\ \A k \in Q!Parser \ {j} : (Written(k)' <=> Written(k)) /\ (Reading(k)' <=> Reading(k)) /\ (Q!Connects(k)' <=> Q!Connects(k))
  BY <1>6 DEF Written, Reading, Q!Connects, Q!Writes
<1>8. WrittenRight'
  <2> SUFFICES ASSUME NEW i \in Q!Parser, Written(i)'
               PROVE  /\ wanted' \subseteq parser'[i].topics \cup parser'[i].remove
                      /\ parser'[i].remove \cap parser'[i].topics = {}
                      /\ ~Q!Connects(i)' => parser'[i].remove = {}
                      /\ \A k \in Q!Parser : (Written(k)' => parser'[k].topics = parser'[i].topics)
                                          /\ (Reading(k)' => parser'[k].old.topics = parser'[i].topics)
                      /\ subs'.state = "whole" => subs'.topics = parser'[i].topics
    BY DEF WrittenRight
  <2>1. i # j /\ Written(i) /\ parser'[i] = parser[i] /\ (Q!Connects(i)' <=> Q!Connects(i))
    BY <1>6, <1>7
  <2>2. \A k \in Q!Parser : 
           (Written(k)' => Written(k) /\ parser'[k] = parser[k]) /\ (Reading(k)' => Reading(k) /\ parser'[k] = parser[k])
    BY <1>6, <1>7
  <2>3. parser[i].topics = parser[j].topics
    BY <1>1, <2>1 DEF WrittenRight
  <2> QED BY <1>1, <2>1, <2>2, <2>3 DEF WrittenRight
<1>9. FileCovers'
  <2>1. subs'.state = "whole" => subs'.topics = parser[j].topics
    BY <1>1 DEF WrittenRight
  <2>2. ASSUME NEW k \in Q!Parser, Reading(k)' PROVE parser'[k].old.topics = parser[j].topics
    BY <1>1, <1>6, <1>7, <2>2 DEF WrittenRight
  <2> QED BY <2>1, <2>2 DEF FileCovers
<1> QED BY <1>5, <1>8, <1>9

(* The lead binds and unbinds what it found (getSetup), waiting changes nothing, a death is missed. *)
LEMMA InstanceBindings ==
    ASSUME QueueTypes, InOrder, Agreed, BindingsKnown, NEW j \in Q!Parser,
           Q!WaitForLead(j) \/ Q!Connect(j) \/ Q!KillParser(j)
    PROVE  BindingsKnown'
<1>1. UNCHANGED <<subs, torn>> /\ (missed => missed') /\ (\A k \in Q!Parser \ {j} : parser'[k] = parser[k])
  BY DEF Q!WaitForLead, Q!Connect, Q!KillParser, QueueTypes
<1>2. CASE Q!WaitForLead(j)
  <2>1. parser'[j].pc = "resolve" /\ parser'[j].old = Q!NoSubs /\ parser[j].pc = "parsed"
          /\ parser[j].parse = 1 /\ j # "cli"
    BY <1>2, BeginFacts DEF Q!WaitForLead, QueueTypes
  <2>2. ~Q!Connects(j)
    BY <2>1 DEF Q!Connects, QueueTypes, ParserRight
  <2>3. \A k \in Q!Parser : KeepsBindings(k)
    BY <1>1, <2>1, <2>2, OptionFacts DEF KeepsBindings, Written, Reading, Pending, Q!Connects, Q!Writes,
       QueueTypes
  <2> QED BY <1>1, <1>2, <2>3, StaysKnown DEF Q!WaitForLead
<1>3. CASE Q!Connect(j) /\ j # "lead"
  <2>1. parser'[j].pc = "running" /\ j = "worker" /\ UNCHANGED <<bound, kept, wanted>>
    BY <1>3 DEF Q!Connect, QueueTypes, Parsing
  <2>2. \A k \in Q!Parser : KeepsBindings(k)
    BY <1>1, <2>1 DEF KeepsBindings, Written, Reading, Pending, Q!Connects, Q!Writes
  <2> QED BY <1>1, <2>1, <2>2, StaysKnown
<1>4. CASE Q!Connect(j) /\ j = "lead"
  <2>1. Pending(j) /\ Counts(j) /\ Len(parser[j].names) = Q!NSub /\ Past("lead") /\ "lead" \in Q!Parser
    BY <1>4 DEF Q!Connect, Pending, Written, Q!Connects, Q!Writes, Counts, On, Past, QueueTypes,
       ParserRight, Q!Parser
  <2>2. subs.state # "none"
    BY <2>1 DEF InOrder, InstancesInOrder
  <2>3. parser' = [parser EXCEPT ![j] = parser'[j]] /\ parser'[j].pc = "running"
    BY <1>4 DEF Q!Connect, QueueTypes, Parsing
  <2>4. missed' = missed /\ torn' = torn
    BY <1>4 DEF Q!Connect
  <2> QED BY <1>1, <1>4, <2>1, <2>2, <2>3, <2>4, DeclareBindings DEF Q!Connect
<1>5. CASE Q!KillParser(j)
  <2> SUFFICES ASSUME ~missed', ~torn' PROVE (BoundRight /\ WrittenRight /\ FileCovers)'
    BY DEF BindingsKnown
  <2>1. BoundRight /\ WrittenRight /\ FileCovers
    BY <1>1 DEF BindingsKnown
  <2>2. UNCHANGED <<bound, kept, wanted>> /\ parser'[j].pc = "off" /\ (Written(j) => parser[j].remove = {})
    BY <1>5, BeginFacts DEF Q!KillParser, QueueTypes, Written
  <2>3. /\ ~Written(j)' /\ ~Reading(j)'
        /\ \A k \in Q!Parser \ {j} : /\ (Written(k)' <=> Written(k)) /\ (Reading(k)' <=> Reading(k))
                                     /\ (Q!Connects(k)' <=> Q!Connects(k)) /\ (Pending(k)' <=> Pending(k))
    BY <1>1, <2>2 DEF Written, Reading, Q!Connects, Q!Writes, Pending
  <2>4. \A k \in Q!Parser : (Written(k)' => Written(k) /\ parser'[k] = parser[k] /\ (Q!Connects(k)' <=> Q!Connects(k)))
                          /\ (Reading(k)' => Reading(k) /\ parser'[k] = parser[k])
    BY <1>1, <2>3
  <2>5. BoundRight'
    BY <1>1, <2>1, <2>2 DEF BoundRight, Q!Range
  <2>6. WrittenRight'
    BY <1>1, <2>1, <2>2, <2>4 DEF WrittenRight
  <2>7. Pending(j) => wanted \subseteq parser[j].topics /\ Written(j)
    BY <2>1, <2>2 DEF WrittenRight, Pending
  <2>8. FileCovers'
    <3>1. CASE Pending(j)
      <4>1. subs'.state = "whole" => wanted \subseteq subs'.topics
        BY <1>1, <2>1, <2>7, <3>1 DEF WrittenRight
      <4>2. ASSUME NEW k \in Q!Parser, Reading(k)' PROVE wanted \subseteq parser'[k].old.topics
        BY <2>1, <2>4, <2>7, <3>1, <4>2 DEF WrittenRight
      <4> QED BY <2>2, <4>1, <4>2 DEF FileCovers
    <3>2. CASE ~Pending(j)
      <4>1. (\E k \in Q!Parser : Pending(k)) => \E k \in Q!Parser : Pending(k)'
        BY <2>3, <3>2
      <4> QED BY <1>1, <2>1, <2>2, <2>4, <4>1 DEF FileCovers
    <3> QED BY <3>1, <3>2
  <2> QED BY <2>5, <2>6, <2>8
<1> QED BY <1>2, <1>3, <1>4, <1>5

(* declare binds as the lead does; cleanup removes bindings, queues and files together. *)
LEMMA CommandBindings ==
    ASSUME QueueTypes, InOrder, Agreed, BindingsKnown,
           \/ \E action \in {"start", "declare", "cleanup"} : Q!QCommand(action)
           \/ Q!QStart \/ Q!QDeclare \/ Q!QCleanup \/ Q!StopInstances \/ Q!EditTopics
    PROVE  BindingsKnown'
<1>0. Q!Off.pc = "off" /\ qopt' = qopt /\ torn' = torn /\ missed' = missed /\ Q!NoSubs.state = "none"
  BY BeginFacts, OptionFacts DEF Q!QCommand, Q!QStart, Q!QDeclare, Q!QCleanup, Q!StopInstances,
     Q!EditTopics, QueueTypes
<1>1. CASE Q!QDeclare
  <2>1. Pending("cli") /\ Counts("cli") /\ Len(parser["cli"].names) = Q!NSub /\ Past("cli")
          /\ "cli" \in Q!Parser
    BY <1>1 DEF Q!QDeclare, Pending, Written, Q!Connects, Q!Writes, Counts, On, Past, QueueTypes,
       ParserRight, Q!Parser
  <2>2. parser' = [parser EXCEPT !["cli"] = parser'["cli"]] /\ parser'["cli"].pc = "off"
    BY <1>0, <1>1 DEF Q!QDeclare, QueueTypes, Q!Parser
  <2>3. CASE subs.state # "none" \/ missed
    BY <1>0, <1>1, <2>1, <2>2, <2>3, DeclareBindings DEF Q!QDeclare
  <2>4. parser["cli"].action = "declare"
    BY <1>1 DEF Q!QDeclare
  <2> QED BY <2>1, <2>3, <2>4 DEF InOrder, DeclaredInOrder
<1>2. CASE Q!QCleanup /\ Q!Idle
  <2> SUFFICES ASSUME ~missed', ~torn' PROVE (BoundRight /\ WrittenRight /\ FileCovers)'
    BY DEF BindingsKnown
  <2>1. \A k \in Q!Parser : ~Written(k)' /\ ~Reading(k)'
    BY <1>0, <1>2 DEF Q!QCleanup, Q!Idle, Written, Reading, QueueTypes, Q!Parser
  <2>2. PICK E \in Names : AgreedOn(E) /\ queues \subseteq Q!Range(kept)
    BY <1>0 DEF Agreed
  <2>3. Counts("cli") /\ Len(parser["cli"].names) = Q!NSub /\ "cli" \in Q!Parser
    BY <1>2 DEF Q!QCleanup, Counts, On, QueueTypes, ParserRight, Q!Parser
  <2>4. queues' = queues \ Q!Range(E)
    BY <1>2, <2>2, <2>3, NamesAgreed DEF Q!QCleanup
  <2>5. queues' = {} /\ Q!Range(<<>>) = {}
    BY <2>2, <2>4 DEF AgreedOn, Q!Range
  <2>6. BoundRight'
    BY <1>2, <2>5 DEF Q!QCleanup, BoundRight, Q!Range
  <2> QED BY <1>0, <1>2, <2>1, <2>6 DEF Q!QCleanup, WrittenRight, FileCovers
<1>3. CASE ~Q!QDeclare /\ ~(Q!QCleanup /\ Q!Idle)
  <2>1. UNCHANGED <<subs, bound, kept, wanted>>
    BY <1>3 DEF Q!QCommand, Q!QStart, Q!QCleanup, Q!StopInstances, Q!EditTopics
  <2>2. \A k \in Q!Parser : \/ parser'[k] = parser[k]
                            \/ ~Written(k)' /\ ~Reading(k)' /\ ~Pending(k)
    <3>1. ASSUME NEW action \in {"start", "declare", "cleanup"}, Q!QCommand(action)
          PROVE  \A k \in Q!Parser : parser'[k] = parser[k] \/ (~Written(k)' /\ ~Reading(k)' /\ ~Pending(k))
      BY <1>0, <3>1, BeginFacts, ZenonT(40) DEF Q!QCommand, QueueTypes, Q!Parser, Written, Reading, Pending
    <3>2. CASE Q!QStart
      BY <1>0, <3>2, BeginFacts DEF Q!QStart, Q!Idle, QueueTypes, ParserRight, Q!Parser, Written, Reading,
         Pending, Q!Connects
    <3>3. CASE Q!QCleanup
      BY <1>0, <3>3 DEF Q!QCleanup, QueueTypes, Q!Parser, Written, Reading, Pending, Q!Writes
    <3>4. CASE Q!StopInstances
      BY <1>0, <3>4 DEF Q!StopInstances, QueueTypes, Q!Parser, Written, Reading, Pending
    <3>5. CASE Q!EditTopics
      BY <3>5 DEF Q!EditTopics
    <3> QED BY <1>3, <3>1, <3>2, <3>3, <3>4, <3>5
  <2>3. \A k \in Q!Parser : KeepsBindings(k)
    BY <2>2 DEF KeepsBindings, Written, Reading, Pending, Q!Connects, Q!Writes
  <2> QED BY <1>0, <2>1, <2>3, StaysKnown
<1> QED BY <1>1, <1>2, <1>3

-----------------------------------------------------------------------------
(* The inductive invariant of the queues of a configuration. *)
QueueInv == QueueTypes /\ InOrder /\ Agreed /\ FirstKnown /\ BindingsKnown

(* Nothing is declared and no file is there before the first command. *)
LEMMA QueueInitial == ASSUME NEW stage \in {"off", "disabled"}, Q!InitAs(stage) PROVE QueueInv
<1>1. qopt \in Q!QueueOptions
  <2>1. [users |-> <<"a">>, plain |-> TRUE] \in Q!QueueOptions
    BY DEF Q!QueueOptions
  <2>2. (CHOOSE o \in Q!QueueOptions : TRUE) \in Q!QueueOptions
    BY <2>1
  <2> QED BY <2>2 DEF Q!InitAs
<1>2. Q!Off \in Parsing /\ Q!Off.old = Q!NoSubs /\ Q!Off.names = <<>> /\ Q!Off.parse = 1
  BY <1>1, BeginFacts
<1>3. Q!NSub \in {1, 2} /\ FirstUser \in Q!User /\ Q!NoSubs \in File /\ Q!NoSubs.state = "none"
        /\ <<>> \in Names
  BY <1>1, OptionFacts
<1>4. parser \in [Q!Parser -> Parsing]
        /\ \A j \in Q!Parser : parser[j].pc = stage /\ parser[j].old = Q!NoSubs /\ parser[j].names = <<>>
      /\ parser[j].parse = 1
  BY <1>2 DEF Q!InitAs, Parsing
<1>5. \A j \in Q!Parser : ParserRight(j, parser[j])
  BY <1>3, <1>4 DEF ParserRight, FileRight
<1>6. QueueTypes
  <2>1. subs = Q!NoSubs /\ kept = <<>> /\ conf = {CHOOSE t \in Topic : TRUE}
          /\ qname = [u \in Q!User |-> Q!NoName] /\ qtmp = {}
        /\ nextName = 1 /\ qkills = 0 /\ stateDir = FALSE /\ leadPid = FALSE /\ torn = FALSE /\ missed = FALSE
    BY DEF Q!InitAs
  <2>2. conf \in Topics
    BY <2>1 DEF Topics
  <2>3. qname \in [Q!User -> Nat]
    BY <2>1 DEF Q!NoName
  <2>4. subs \in File /\ FileRight(subs)
    BY <1>3, <2>1 DEF FileRight
  <2>5. kept \in Names /\ nextName \in Nat \ {0} /\ qkills \in Nat /\ qtmp \subseteq Q!User
    BY <1>3, <2>1
  <2>6. {stateDir, leadPid, torn, missed} \subseteq BOOLEAN
    BY <2>1, Zenon
  <2> QED BY <1>1, <1>4, <1>5, <2>2, <2>3, <2>4, <2>5, <2>6 DEF QueueTypes
<1>7. \A j \in Q!Parser : ~On(j) /\ parser[j].pc \notin {"resolve", "write", "qname", "rename", "parsed"}
  BY <1>4 DEF On
<1>8. subs.state = "none" /\ ~stateDir /\ ~leadPid /\ qtmp = {}
        /\ (\A u \in Q!User : qname[u] = Q!NoName) /\ kept = <<>> /\ queues = {} /\ bound = {} /\ wanted = {}
  BY <1>3 DEF Q!InitAs
<1>9. InOrder
  BY <1>7, <1>8 DEF InOrder, InstancesInOrder, DeclaredInOrder, ReadInOrder, Past, Counts, Q!Parser
<1>10. Agreed
  <2>1. PICK E \in Names : Len(E) = Q!NSub
    <3>1. <<1>> \in Names /\ Len(<<1>>) = 1 /\ <<1, 1>> \in Names /\ Len(<<1, 1>>) = 2
      BY DEF Names, Q!NoName
    <3> QED BY <1>3, <3>1
  <2>2. AgreedOn(E)
    BY <1>7, <1>8, <2>1 DEF AgreedOn, Counts
  <2> QED BY <1>8, <2>2 DEF Agreed
<1>11. FirstKnown
  BY <1>3, <1>7, <1>8 DEF FirstKnown, FirstIs, FirstOnFile, Counts
<1>12. BindingsKnown
  BY <1>7, <1>8 DEF BindingsKnown, BoundRight, WrittenRight, FileCovers, Written, Reading, Q!Range
<1> QED BY <1>6, <1>9, <1>10, <1>11, <1>12 DEF QueueInv

(* Every step of the commands and the instances keeps the invariant. *)
LEMMA QueueStep == ASSUME QueueInv, Q!Next PROVE QueueInv'
<1> USE DEF QueueInv
<1>1. ASSUME NEW j \in Q!Parser, Q!Resolve(j) PROVE QueueInv'
  BY <1>1, ResolveTypes, ResolveOrder, ResolveAgreed, ResolveFirst, ResolveBindings
<1>2. ASSUME NEW j \in Q!Parser, Q!Finalize(j) PROVE QueueInv'
  BY <1>2, FinalizeTypes, FinalizeOrder, FinalizeAgreed, FinalizeFirst, FinalizeBindings
<1>3. ASSUME NEW j \in Q!Parser, Q!WriteSubs(j) \/ Q!WriteQname(j) \/ Q!RenameQname(j) PROVE QueueInv'
  BY <1>3, WriteTypes, WriteOrder, WriteAgreed, WriteFirst, WriteBindings
<1>4. ASSUME NEW j \in Q!Parser, Q!WaitForLead(j) \/ Q!Connect(j) \/ Q!KillParser(j) PROVE QueueInv'
  BY <1>4, InstanceTypes, InstanceOrder, InstanceAgreed, InstanceFirst, InstanceBindings
<1>5. CASE \/ \E action \in {"start", "declare", "cleanup"} : Q!QCommand(action)
           \/ Q!QStart \/ Q!QDeclare \/ Q!QCleanup \/ Q!StopInstances \/ Q!EditTopics
  BY <1>5, CommandTypes, CommandOrder, CommandAgreed, CommandFirst, CommandBindings, Zenon
<1> QED BY <1>1, <1>2, <1>3, <1>4, <1>5 DEF Q!Next, Q!ParseStep

(* So does a step of anything else. *)
LEMMA QueueStays == ASSUME QueueInv, UNCHANGED Q!qsVars PROVE QueueInv'
BY DEF QueueInv, Q!qsVars, QueueTypes, ParserRight, FileRight, InOrder, InstancesInOrder, DeclaredInOrder,
   ReadInOrder,
   Agreed, AgreedOn, FirstKnown, FirstIs, FirstOnFile, OneUser, BindingsKnown, BoundRight, WrittenRight, FileCovers,
   On, Past, Counts, Written, Reading, Pending, Q!Connects, Q!Writes, Q!NSub, Q!LastUser, FirstUser, Q!Range

(* From the invariant: one set of queues for all, none left behind, bound as configured. *)
LEMMA QueueRight == ASSUME QueueInv PROVE Q!SameQueues /\ Q!QueueKept /\ Q!BoundAsConfigured
<1> USE DEF QueueInv
<1>1. ASSUME parser["lead"].pc = "running", parser["worker"].pc = "running" PROVE Q!SameQueues
  <2>1. \A j \in {"lead", "worker"} : j \in Q!Parser /\ Counts(j) /\ Len(parser[j].names) = Q!NSub
    BY <1>1 DEF QueueTypes, ParserRight, Counts, On, Q!Parser
  <2>2. CASE ~torn
    <3>1. PICK E \in Names : AgreedOn(E)
      BY <2>2 DEF Agreed
    <3>2. parser["lead"].names = E /\ parser["worker"].names = E
      BY <2>1, <3>1, NamesAgreed
    <3> QED BY <3>2 DEF Q!SameQueues
  <2>3. CASE torn /\ qkills = 0 /\ Q!LastUser = FirstUser
    <3>1. PICK n \in Nat : FirstIs(n)
      BY <2>3 DEF FirstKnown, OneUser
    <3>2. parser["lead"].names # <<>> /\ parser["worker"].names # <<>>
      BY <2>1, OptionFacts DEF QueueTypes
    <3> QED BY <2>1, <2>3, <3>1, <3>2 DEF FirstIs, Q!SameQueues
  <2> QED BY <2>2, <2>3 DEF Q!SameQueues, QueueTypes, FirstUser
<1>2. Q!QueueKept
  BY DEF Q!QueueKept, Agreed
<1>3. Q!BoundAsConfigured
  <2> SUFFICES ASSUME ~missed, ~torn PROVE {b \in bound : b[1] \in Q!Range(kept)} = Q!Range(kept) \X wanted
    BY DEF Q!BoundAsConfigured
  <2>1. bound = Q!Range(kept) \X wanted
    BY DEF BindingsKnown, BoundRight
  <2> QED BY <2>1
<1> QED BY <1>1, <1>2, <1>3 DEF Q!SameQueues

-----------------------------------------------------------------------------
(* The instances of a configuration read one queue, which is kept across stops, starts and
   kills, and bound as the configuration says, whatever sr3 commands are given while they parse
   it (finalize, _resolveQueueName, Subscriptions.write, getSetup, declare, cleanup). *)
THEOREM QueuesStayRight == ManagementSpec => []QueuesRight
<1>1. ManagementInit => QueueInv
  <2>1. SUFFICES ASSUME ManagementInit PROVE QueueInv
    OBVIOUS
  <2>2. PICK stage \in {"off", "disabled"} : Q!InitAs(stage)
    BY <2>1 DEF ManagementInit
  <2> QED BY <2>2, QueueInitial
<1>2. QueueInv /\ [ManagementNext]_<<managed, pVars, qVars>> => QueueInv'
  <2>1. SUFFICES ASSUME QueueInv, [ManagementNext]_<<managed, pVars, qVars>> PROVE QueueInv'
    OBVIOUS
  <2>2. CASE ManageQueues
    <3>1. Q!Next
      BY <2>2 DEF ManageQueues
    <3> QED BY <2>1, <3>1, QueueStep
  <2>3. CASE ManageProcesses \/ UNCHANGED <<managed, pVars, qVars>>
    <3>1. UNCHANGED qVars
      BY <2>3 DEF ManageProcesses
    <3>2. UNCHANGED Q!qsVars
      BY <3>1 DEF qVars, Q!qsVars
    <3> QED BY <2>1, <3>2, QueueStays
  <2> QED BY <2>1, <2>2, <2>3 DEF ManagementNext
<1>3. QueueInv => QueuesRight
  BY QueueRight DEF QueuesRight, SameQueues, QueueKept, BoundAsConfigured
<1> QED BY <1>1, <1>2, <1>3, PTL DEF ManagementSpec

-----------------------------------------------------------------------------
(* The processes of a configuration, and the commands that manage them. *)

(* What a command is to do, one thing after the other (Todo). *)
Orders == {<<"start">>, <<"stop">>, <<"stop", "start">>, <<"stop", "cleanup", "start">>, <<"sanity">>,
           <<"disable">>, <<"enable">>, <<"cleanup">>}

(* And what is left of it, once the first is done. *)
Rests == {<<>>, <<"start">>, <<"cleanup", "start">>}

(* How far a command is. *)
Points == {"none", "off", "procs", "states", "stop", "stop wait", "stop kill", "stop last", "start", "start wait",
           "disable", "enable", "cleanup", "sanity", "sanity fix", "sanity strays"}

(* The pid files. *)
Files == [P!Instance -> P!Pid \cup {P!NoFile, P!Blank}]

(* What a command knows and has before it. *)
Command ==
    [pc : Points, todo : Orders \cup Rests, procs : SUBSET P!Pid, pids : [P!Instance -> P!Pid \cup {P!NoFile}],
     status : P!Status, flux : BOOLEAN, hung : SUBSET P!Instance, missing : SUBSET P!Instance, strays : SUBSET P!Pid,
     told : SUBSET P!Pid, attempt : Int]

(* What is left to do, by how far it is; what is run regularly is only ever sanity. *)
InShape(w, c) ==
    /\ c.pc \in {"procs", "states"} => c.todo \in Orders /\ (w = "cron" => c.todo = <<"sanity">>)
    /\ c.pc \in {"stop", "stop wait", "stop kill", "stop last"} => c.todo \in Rests
    /\ c.pc \in {"start", "start wait", "disable", "enable", "sanity", "sanity fix", "sanity strays"} => c.todo = <<>>
    /\ c.pc = "cleanup" => c.todo \in {<<>>, <<"start">>}
    /\ w = "cron" => c.pc \in {"none", "off", "procs", "states", "sanity", "sanity fix", "sanity strays"}

(* The types of the state of processes and commands. *)
ProcTypes ==
    /\ live \in [P!Pid -> [inst : P!Instance, stage : P!Stage]]
    /\ pidfile \in Files
    /\ cmd \in [P!Who -> Command]
    /\ interrupts \in Nat
    /\ \A w \in P!Who : InShape(w, cmd[w])

(* The orders of the commands, one by one (run_command and its action branches). *)
LEMMA TodoFacts ==
    /\ \A rest \in Rests : rest = <<>> \/ Head(rest) \in {"start", "cleanup"}
    /\ Head(<<"start">>) = "start" /\ Tail(<<"start">>) = <<>> /\ <<"start">> # <<>>
    /\ Head(<<"stop">>) = "stop" /\ Tail(<<"stop">>) = <<>> /\ <<"stop">> # <<>>
    /\ Head(<<"sanity">>) = "sanity" /\ Tail(<<"sanity">>) = <<>> /\ <<"sanity">> # <<>>
    /\ Head(<<"disable">>) = "disable" /\ Tail(<<"disable">>) = <<>> /\ <<"disable">> # <<>>
    /\ Head(<<"enable">>) = "enable" /\ Tail(<<"enable">>) = <<>> /\ <<"enable">> # <<>>
    /\ Head(<<"cleanup">>) = "cleanup" /\ Tail(<<"cleanup">>) = <<>> /\ <<"cleanup">> # <<>>
    /\ Head(<<"stop", "start">>) = "stop" /\ Tail(<<"stop", "start">>) = <<"start">> /\ <<"stop", "start">> # <<>>
    /\ Head(<<"cleanup", "start">>) = "cleanup" /\ Tail(<<"cleanup", "start">>) = <<"start">>
       /\ <<"cleanup", "start">> # <<>>
    /\ Head(<<"stop", "cleanup", "start">>) = "stop" /\ <<"stop", "cleanup", "start">> # <<>>
       /\ Tail(<<"stop", "cleanup", "start">>) = <<"cleanup", "start">>
BY DEF Rests

(* Nothing is left to do for who has no command. *)
LEMMA NoCmdFacts ==
    /\ P!NoCmd \in Command /\ P!NoCmd.pc = "none" /\ P!NoCmd.todo = <<>>
    /\ P!NoPids \in [P!Instance -> P!Pid \cup {P!NoFile}]
BY DEF P!NoCmd, P!NoPids, Command, Points, Orders, Rests, P!Status, P!NoFile

(* What a command does next is the first of its orders; start and cleanup forget what was read
   but the status. *)
LEMMA EnterFacts ==
    ASSUME NEW c \in Command
    PROVE  /\ c.todo = <<>> => P!Enter(c) = P!NoCmd
           /\ c.todo # <<>> =>
                 /\ P!Enter(c).pc = Head(c.todo) /\ P!Enter(c).todo = Tail(c.todo) /\ P!Enter(c).status = c.status
                 /\ Head(c.todo) \notin {"start", "cleanup"} =>
                       /\ P!Enter(c).procs = c.procs /\ P!Enter(c).flux = c.flux /\ P!Enter(c).hung = c.hung
                       /\ P!Enter(c).strays = c.strays /\ P!Enter(c).pids = c.pids
           /\ P!Enter(c) \in Command
<1>1. c.todo = <<>> => P!Enter(c) = P!NoCmd
  BY DEF P!Enter
<1>2. (Head(c.todo) \in Points /\ Tail(c.todo) \in Orders \cup Rests) \/ c.todo = <<>>
  BY TodoFacts, ZenonT(30) DEF Command, Orders, Rests, Points
<1>3. ASSUME c.todo # <<>>, Head(c.todo) \in {"start", "cleanup"}
      PROVE  /\ P!Enter(c).pc = Head(c.todo) /\ P!Enter(c).todo = Tail(c.todo) /\ P!Enter(c).status = c.status
             /\ P!Enter(c) \in Command
  <2>1. P!Enter(c) = [[P!NoCmd EXCEPT !.status = c.status] EXCEPT !.pc = Head(c.todo), !.todo = Tail(c.todo)]
    BY <1>3 DEF P!Enter
  <2> QED BY <2>1, <1>2, <1>3, NoCmdFacts DEF Command
<1>4. ASSUME c.todo # <<>>, Head(c.todo) \notin {"start", "cleanup"}
      PROVE  /\ P!Enter(c).pc = Head(c.todo) /\ P!Enter(c).todo = Tail(c.todo) /\ P!Enter(c).status = c.status
             /\ P!Enter(c).procs = c.procs /\ P!Enter(c).flux = c.flux /\ P!Enter(c).hung = c.hung
             /\ P!Enter(c).strays = c.strays /\ P!Enter(c).pids = c.pids
             /\ P!Enter(c) \in Command
  <2>1. P!Enter(c) = [c EXCEPT !.pc = Head(c.todo), !.todo = Tail(c.todo)]
    BY <1>4 DEF P!Enter
  <2> QED BY <2>1, <1>2, <1>4 DEF Command
<1> QED BY <1>1, <1>3, <1>4, NoCmdFacts

(* What a command goes on with, after what it was to do first. *)
LEMMA EnterShape ==
    ASSUME NEW c \in Command, NEW w \in P!Who
    PROVE  /\ c.todo \in Rests => P!Enter(c).pc \in {"none", "start", "cleanup"}
           /\ c.todo \in {<<>>, <<"start">>} => P!Enter(c).pc \in {"none", "start"}
           /\ c.todo = <<>> => P!Enter(c).pc = "none"
           /\ c.todo = <<"sanity">> => P!Enter(c).pc = "sanity"
           /\ c.todo \in Orders => P!Enter(c).pc \in {"start", "stop", "sanity", "disable", "enable", "cleanup"}
           /\ (w = "cron" => c.todo \in {<<>>, <<"sanity">>}) => InShape(w, P!Enter(c))
<1>1. CASE c.todo = <<>>
  <2>1. P!Enter(c) = P!NoCmd
    BY <1>1, EnterFacts
  <2> QED BY <1>1, <2>1, NoCmdFacts, TodoFacts DEF InShape, Orders
<1>2. CASE c.todo # <<>>
  <2>1. P!Enter(c).pc = Head(c.todo) /\ P!Enter(c).todo = Tail(c.todo)
    BY <1>2, EnterFacts
  <2>2. c.todo \in Orders \cup Rests
    BY DEF Command
  <2> QED BY <1>2, <2>1, <2>2, TodoFacts, ZenonT(40) DEF InShape, Orders, Rests
<1> QED BY <1>1, <1>2

(* What is read of the pid files, and what cleaning leaves of them (_read_state_dir,
   _find_missing_instances, _clean_missing_proc_state). *)
LEMMA FilesFacts ==
    ASSUME pidfile \in Files, NEW written \in Files, NEW procs \in SUBSET P!Pid, NEW status
    PROVE  /\ P!InstancePids(written) \in [P!Instance -> P!Pid \cup {P!NoFile}]
           /\ \A i \in P!Instance : P!InstancePids(written)[i] = IF written[i] = P!Blank THEN P!NoFile ELSE written[i]
           /\ P!FindMissing(status, procs) \subseteq P!Instance
           /\ \A gone : /\ P!CleanMissing(gone, procs) \in Files
                        /\ \A i \in P!Instance :
                              P!CleanMissing(gone, procs)[i] = IF gone # {} /\ pidfile[i] \notin procs THEN P!NoFile ELSE pidfile[i]
BY DEF P!InstancePids, P!FindMissing, P!CleanMissing, Files, P!NoFile, P!Blank

(* A pid file that is absent or empty names no process. *)
LEMMA NotPid == P!NoFile \notin P!Pid /\ P!Blank \notin P!Pid
BY DEF P!NoFile, P!Blank, P!Pid

(* Resolve: what is not active has no instance that a pid file names. *)
LEMMA StatusFacts ==
    ASSUME NEW ts, NEW pids \in [P!Instance -> P!Pid \cup {P!NoFile}], NEW procs \in SUBSET P!Pid
    PROVE  /\ P!Resolve(ts, pids, procs) \in P!Status
           /\ P!Resolve(ts, pids, procs) \notin P!Active => P!Observed(pids, procs) = {}
           /\ "shutdown" \in ts /\ "running" \notin ts =>
                 /\ P!Resolve(ts, pids, procs) \in {"hung", "running", "stopped", "shutdown"}
                 /\ P!Resolve(ts, pids, procs) = "stopped" => pids = P!NoPids
           /\ procs = {} => P!HungAmong(pids, procs) = {}
           /\ /\ procs = {} /\ "running" \notin ts /\ ts \cap {"starting", "shutdown", "resources_restart"} = {}
              /\ pids = P!NoPids \/ "disabled" \in ts
              => P!Resolve(ts, pids, procs) \notin {"missing", "partial"}
<1>1. P!Tagged(ts) \in {"running", "shutdown", "resources_restart", "starting", "disabled", "unknown"}
      /\ ("shutdown" \in ts /\ "running" \notin ts => P!Tagged(ts) = "shutdown")
      /\ ("running" \notin ts /\ ts \cap {"starting", "shutdown", "resources_restart"} = {} =>
            P!Tagged(ts) = IF "disabled" \in ts THEN "disabled" ELSE "unknown")
  <2>1. ts \cap {"starting", "shutdown", "resources_restart"} = {} =>
          "shutdown" \notin ts /\ "resources_restart" \notin ts /\ "starting" \notin ts
    OBVIOUS
  <2> QED BY <2>1 DEF P!Tagged
<1>2. pids = P!NoPids => P!Observed(pids, procs) = {}
  BY NotPid DEF P!NoPids, P!Observed
<1>3. procs = {} => P!Observed(pids, procs) = {} /\ P!HungAmong(pids, procs) = {}
  BY DEF P!HungAmong, P!Observed
<1> DEFINE seen == P!Observed(pids, procs)
           hung == P!HungAmong(pids, procs)
           tagged == P!Tagged(ts)
           busy == {"starting", "shutdown", "resources_restart"}
<1>4. P!Resolve(ts, pids, procs) =
        (IF hung # {} THEN "hung" ELSE IF seen = P!Instance THEN "running"
        ELSE IF seen # {} /\ tagged \notin busy THEN "partial"
        ELSE IF tagged = "disabled" THEN "disabled"
        ELSE IF tagged # "running" /\ pids = P!NoPids THEN "stopped"
        ELSE IF tagged \in busy THEN tagged ELSE "missing")
  BY DEF P!Resolve
<1> HIDE DEF seen, hung, tagged
<1>5. pids = P!NoPids => seen = {}
  BY <1>2 DEF seen
<1>6. procs = {} => seen = {} /\ hung = {}
  BY <1>3 DEF seen, hung
<1>7. tagged \in {"running", "shutdown", "resources_restart", "starting", "disabled", "unknown"}
      /\ ("shutdown" \in ts /\ "running" \notin ts => tagged = "shutdown")
      /\ ("running" \notin ts /\ ts \cap busy = {} => tagged = IF "disabled" \in ts THEN "disabled" ELSE "unknown")
  BY <1>1 DEF tagged
<1>8. P!Resolve(ts, pids, procs) \in P!Status
  BY <1>4, <1>7 DEF P!Status
<1>9. P!Resolve(ts, pids, procs) \notin P!Active => seen = {}
  BY <1>4, <1>5, <1>7 DEF P!Active
<1>10. "shutdown" \in ts /\ "running" \notin ts =>
         /\ P!Resolve(ts, pids, procs) \in {"hung", "running", "stopped", "shutdown"}
         /\ P!Resolve(ts, pids, procs) = "stopped" => pids = P!NoPids
  BY <1>4, <1>7
<1>11. /\ procs = {} /\ "running" \notin ts /\ ts \cap busy = {}
       /\ pids = P!NoPids \/ "disabled" \in ts
       => P!Resolve(ts, pids, procs) \notin {"missing", "partial"}
  BY <1>4, <1>6, <1>7
<1> QED BY <1>8, <1>9, <1>10, <1>11, <1>6 DEF seen, hung

(* What a command has read, when it has read everything again. *)
LEMMA ResolvedFacts ==
    ASSUME pidfile \in Files, NEW c \in Command, NEW ts, NEW written \in Files, NEW procs \in SUBSET P!Pid
    PROVE  /\ P!Resolved(c, ts, written, procs) \in Command
           /\ P!Resolved(c, ts, written, procs).procs = procs
           /\ P!Resolved(c, ts, written, procs).pids = P!InstancePids(written)
           /\ P!Resolved(c, ts, written, procs).status = P!Resolve(ts, P!InstancePids(written), procs)
           /\ P!Resolved(c, ts, written, procs).hung = P!HungAmong(P!InstancePids(written), procs)
           /\ P!Resolved(c, ts, written, procs).strays = P!Strays(P!InstancePids(written), procs)
           /\ P!Resolved(c, ts, written, procs).pc = c.pc /\ P!Resolved(c, ts, written, procs).todo = c.todo
           /\ P!Resolved(c, ts, written, procs).told = c.told /\ P!Resolved(c, ts, written, procs).attempt = c.attempt
<1>1. P!InstancePids(written) \in [P!Instance -> P!Pid \cup {P!NoFile}]
  BY FilesFacts
<1>2. P!Resolve(ts, P!InstancePids(written), procs) \in P!Status
  BY <1>1, StatusFacts
<1>3. P!HungAmong(P!InstancePids(written), procs) \subseteq P!Instance /\ P!Strays(P!InstancePids(written), procs) \subseteq P!Pid
  BY DEF P!HungAmong, P!Observed, P!Strays
<1> DEFINE pids == P!InstancePids(written)
           status == P!Resolve(ts, pids, procs)
           hung == P!HungAmong(pids, procs)
           strays == P!Strays(pids, procs)
<1>4. P!Resolved(c, ts, written, procs) = [c EXCEPT !.procs = procs, !.pids = pids, !.status = status, !.hung = hung, !.strays = strays]
  BY DEF P!Resolved
<1>5. pids \in [P!Instance -> P!Pid \cup {P!NoFile}] /\ status \in P!Status /\ hung \in SUBSET P!Instance /\ strays \in SUBSET P!Pid
  BY <1>1, <1>2, <1>3
<1> HIDE DEF pids, status, hung, strays
<1>6. [c EXCEPT !.procs = procs, !.pids = pids, !.status = status, !.hung = hung, !.strays = strays] \in Command
  BY <1>5 DEF Command
<1> QED BY <1>4, <1>5, <1>6 DEF pids, status, hung, strays, Command

(* What stop remembers while it waits. *)
LEMMA WaitingFacts ==
    ASSUME NEW c \in Command, NEW told \in SUBSET P!Pid, NEW attempt \in Int
    PROVE  /\ P!Waiting(c, told, attempt) \in Command /\ P!Waiting(c, told, attempt).pc = "stop wait"
           /\ P!Waiting(c, told, attempt).todo = c.todo /\ P!Waiting(c, told, attempt).told = told
           /\ P!Waiting(c, told, attempt).status = c.status /\ P!Waiting(c, told, attempt).attempt = attempt
BY NoCmdFacts DEF P!Waiting, Command, Points

(* The process table. *)
Live == [P!Pid -> [inst : P!Instance, stage : P!Stage]]

(* Signals and launches leave the table of processes in its form. *)
LEMMA LiveTypes ==
    ASSUME Instances \in Nat \ {0}, live \in Live
    PROVE  /\ P!Gone \in [inst : P!Instance, stage : P!Stage]
           /\ \A ps : P!Term(ps) \in Live /\ P!Kill(ps) \in Live
           /\ \A is \in SUBSET P!Instance : P!Launch(is, live) \in Live
<1>1. P!Gone \in [inst : P!Instance, stage : P!Stage]
  BY DEF P!Gone, P!Instance, P!Stage
<1>2. \A p \in P!Pid : P!Terminated(p) \in [inst : P!Instance, stage : P!Stage]
  BY <1>1 DEF P!Terminated, Live, P!Stage
<1>3. ASSUME NEW is \in SUBSET P!Instance PROVE P!Launch(is, live) \in Live
  <2> DEFINE free == P!Pid \ P!Known
             Rank(i) == P!Cardinality({j \in is : j < i})
             New(i) == CHOOSE p \in free : P!Cardinality({q \in free : q < p}) = Rank(i)
  <2>1. P!Launch(is, live) = [p \in P!Pid |-> IF \E i \in is : New(i) = p
                      THEN LET i == CHOOSE j \in is : New(j) = p
                           IN [inst |-> i, stage |-> IF i = 1 THEN "boot" ELSE "wait"]
                      ELSE live[p]]
    BY DEF P!Launch
  <2> HIDE DEF New
  <2>2. ASSUME NEW p \in P!Pid, \E i \in is : New(i) = p
        PROVE [inst |-> CHOOSE j \in is : New(j) = p,
               stage |-> IF (CHOOSE j \in is : New(j) = p) = 1 THEN "boot" ELSE "wait"] \in [inst : P!Instance, stage : P!Stage]
    BY <2>2 DEF P!Stage
  <2> QED BY <2>1, <2>2 DEF Live
<1>4. \A ps : P!Term(ps) \in Live /\ P!Kill(ps) \in Live
  BY <1>1, <1>2 DEF P!Term, P!Kill, Live
<1> QED BY <1>1, <1>3, <1>4

(* What is launched is new, and is one of those that were to be. *)
LEMMA LaunchFacts ==
    ASSUME NEW is \in SUBSET P!Instance, live \in Live
    PROVE  \E New \in [P!Pid -> BOOLEAN] :
              /\ \A p \in P!Pid : ~New[p] => P!Launch(is, live)[p] = live[p]
              /\ \A p \in P!Pid : New[p] => /\ P!Launch(is, live)[p].inst \in is
                                        /\ P!Launch(is, live)[p].stage \in {"boot", "wait"}
              /\ \A p, q \in P!Pid : New[p] /\ New[q] /\ P!Launch(is, live)[p].inst = P!Launch(is, live)[q].inst => p = q
<1> DEFINE free == P!Pid \ P!Known
           Rank(i) == P!Cardinality({j \in is : j < i})
           New(i) == CHOOSE p \in free : P!Cardinality({q \in free : q < p}) = Rank(i)
           Is(p) == CHOOSE j \in is : New(j) = p
<1>1. P!Launch(is, live) = [p \in P!Pid |-> IF \E i \in is : New(i) = p
                    THEN LET i == Is(p)
                         IN [inst |-> i, stage |-> IF i = 1 THEN "boot" ELSE "wait"]
                    ELSE live[p]]
  BY DEF P!Launch
<1> HIDE DEF New
<1>2. \A p \in P!Pid : (\E i \in is : New(i) = p) => Is(p) \in is /\ New(Is(p)) = p
  OBVIOUS
<1> HIDE DEF Is
<1>3. \A p \in P!Pid : (\E i \in is : New(i) = p) =>
         P!Launch(is, live)[p].inst = Is(p) /\ P!Launch(is, live)[p].stage \in {"boot", "wait"}
  BY <1>1
<1>4. \A p \in P!Pid : ~(\E i \in is : New(i) = p) => P!Launch(is, live)[p] = live[p]
  BY <1>1
<1>5. WITNESS [p \in P!Pid |-> \E i \in is : New(i) = p] \in [P!Pid -> BOOLEAN]
<1> QED BY <1>2, <1>3, <1>4

(* An instance keeps the types, and leaves the commands alone. *)
LEMMA InstanceStepTypes ==
    ASSUME Instances \in Nat \ {0}, ProcTypes, NEW p \in P!Pid,
           P!InstanceStep(p) \/ P!Crash(p) \/ P!Hang(p) \/ P!OutOfMemory(p)
    PROVE  ProcTypes' /\ cmd' = cmd
<1>1. live \in Live /\ pidfile \in Files /\ P!Gone \in [inst : P!Instance, stage : P!Stage]
  BY LiveTypes DEF ProcTypes, Live
<1>2. cmd' = cmd /\ interrupts' = interrupts
  BY DEF P!InstanceStep, P!WaitForLead, P!OpenPidFile, P!WritePid, P!RunFlow, P!EndInstance, P!Exec, P!Crash,
     P!Hang, P!OutOfMemory, P!ProcFault
<1>3. \A stage \in P!Stage : P!Become(p, stage) => live' \in Live
  BY <1>1 DEF P!Become, Live
<1>4. live' \in Live
  BY <1>1, <1>3 DEF P!InstanceStep, P!WaitForLead, P!OpenPidFile, P!WritePid, P!RunFlow, P!EndInstance, P!Exec,
     P!Crash, P!Hang, P!OutOfMemory, P!Stage, Live
<1>5. pidfile' \in Files
  BY <1>1 DEF P!InstanceStep, P!WaitForLead, P!OpenPidFile, P!WritePid, P!RunFlow, P!EndInstance, P!Exec,
     P!Crash, P!Hang, P!OutOfMemory, Files, Live
<1>6. \A w \in P!Who : InShape(w, cmd[w])'
  BY <1>2 DEF ProcTypes, InShape
<1> QED BY <1>2, <1>4, <1>5, <1>6 DEF ProcTypes, Live

(* A command that goes on, and the others. *)
LEMMA Goes ==
    ASSUME ProcTypes, NEW w \in P!Who, NEW c \in Command, cmd' = [cmd EXCEPT ![w] = c], InShape(w, c)
    PROVE  /\ cmd' \in [P!Who -> Command] /\ \A v \in P!Who : InShape(v, cmd'[v])
           /\ cmd'[w] = c /\ \A v \in P!Who \ {w} : cmd'[v] = cmd[v]
BY DEF ProcTypes

(* A command makes a step of its own. *)
Moves(w) == cmd'[w] \in Command /\ cmd' = [cmd EXCEPT ![w] = cmd'[w]] /\ InShape(w, cmd'[w])

(* A command reads the process table (_read_procs). *)
LEMMA Reads ==
    ASSUME ProcTypes, NEW w \in P!Who, P!ReadProcs(w)
    PROVE  /\ Moves(w)
           /\ cmd'[w].pc = "states" /\ cmd'[w].procs = P!Procs
<1> DEFINE c == [cmd[w] EXCEPT !.pc = "states", !.procs = P!Procs]
<1>1. cmd' = [cmd EXCEPT ![w] = c]
  BY DEF P!ReadProcs
<1>2. c \in Command /\ c.pc = "states" /\ c.todo = cmd[w].todo /\ c.procs = P!Procs
  BY ZenonT(30) DEF Command, Points, ProcTypes, P!Procs
<1>3. InShape(w, cmd[w]) /\ cmd[w].pc = "procs"
  BY DEF ProcTypes, P!ReadProcs
<1>4. InShape(w, c)
  BY <1>2, <1>3 DEF InShape
<1> HIDE DEF c
<1>5. cmd'[w] = c
  BY <1>1 DEF ProcTypes
<1> QED BY <1>1, <1>2, <1>4, <1>5 DEF Moves

(* A command is given. *)
LEMMA Given ==
    ASSUME OperatorActions \subseteq P!Actions, ProcTypes, NEW w \in P!Who, NEW action,
           P!Issue(w, action), w = "operator" => action \in OperatorActions
    PROVE  /\ Moves(w)
           /\ cmd'[w].pc = "procs"
<1> DEFINE c == [P!NoCmd EXCEPT !.pc = "procs", !.todo = P!Todo(action)]
<1>1. cmd' = [cmd EXCEPT ![w] = c]
  BY DEF P!Issue
<1>2. action \in P!Actions /\ (w = "cron" => action = "sanity")
  BY DEF P!Issue, P!Who, P!Actions
<1>3. P!Todo(action) \in Orders /\ (w = "cron" => P!Todo(action) = <<"sanity">>)
  BY <1>2 DEF P!Todo, P!Actions, Orders
<1>4. c \in Command /\ c.pc = "procs" /\ c.todo = P!Todo(action)
  BY <1>3, NoCmdFacts DEF Command, Points
<1> HIDE DEF c
<1>5. cmd'[w] = c
  BY <1>1 DEF ProcTypes
<1> QED BY <1>1, <1>3, <1>4, <1>5 DEF InShape, Moves

(* What a command knows once it has read the state files. *)
LEMMA ReadsStates ==
    ASSUME ProcTypes, NEW w \in P!Who, P!ReadStates(w)
    PROVE  /\ Moves(w)
           /\ cmd'[w].pc \in {"start", "stop", "sanity", "disable", "enable", "cleanup"}
           /\ cmd'[w].status = P!Resolve(tags, P!InstancePids(pidfile), cmd[w].procs)
           /\ cmd'[w].pc \notin {"start", "cleanup"} =>
                 /\ cmd'[w].procs = cmd[w].procs
                 /\ cmd'[w].pids = P!InstancePids(pidfile)
                 /\ cmd'[w].hung = P!HungAmong(P!InstancePids(pidfile), cmd[w].procs)
                 /\ cmd'[w].strays = P!Strays(P!InstancePids(pidfile), cmd[w].procs)
                 /\ cmd'[w].flux = (tags \cap {"starting", "shutdown", "resources_restart"} # {})
           /\ w = "cron" => cmd'[w].pc = "sanity"
<1> DEFINE r == P!Resolved(cmd[w], tags, pidfile, cmd[w].procs)
           flux == (tags \cap {"starting", "shutdown", "resources_restart"} # {})
           missing == P!FindMissing(r.status, r.procs)
           c == [r EXCEPT !.flux = flux, !.missing = missing]
<1>1. cmd[w] \in Command /\ pidfile \in Files /\ cmd[w].procs \in SUBSET P!Pid /\ InShape(w, cmd[w])
  BY DEF ProcTypes, Command
<1>2. /\ r \in Command /\ r.procs = cmd[w].procs /\ r.pids = P!InstancePids(pidfile) /\ r.todo = cmd[w].todo
      /\ r.status = P!Resolve(tags, P!InstancePids(pidfile), cmd[w].procs)
      /\ r.hung = P!HungAmong(P!InstancePids(pidfile), cmd[w].procs)
      /\ r.strays = P!Strays(P!InstancePids(pidfile), cmd[w].procs)
  BY <1>1, ResolvedFacts
<1>3. flux \in BOOLEAN
  OBVIOUS
<1>4. missing \in SUBSET P!Instance
  BY <1>1, <1>2, FilesFacts
<1>5. cmd' = [cmd EXCEPT ![w] = P!Enter(c)]
  BY DEF P!ReadStates
<1> HIDE DEF r, flux, missing
<1>6. c \in Command /\ c.procs = r.procs /\ c.pids = r.pids /\ c.todo = r.todo /\ c.status = r.status
      /\ c.hung = r.hung /\ c.strays = r.strays /\ c.flux = flux
  BY <1>2, <1>3, <1>4 DEF Command
<1> HIDE DEF c
<1>7. c.todo \in Orders /\ (w = "cron" => c.todo = <<"sanity">>)
  BY <1>1, <1>2, <1>6 DEF InShape, P!ReadStates
<1>8. c.todo # <<>> /\ (w = "cron" => P!Enter(c).pc = "sanity") /\ InShape(w, P!Enter(c)) /\ P!Enter(c).pc = Head(c.todo)
      /\ P!Enter(c).pc \in {"start", "stop", "sanity", "disable", "enable", "cleanup"} /\ P!Enter(c) \in Command
  BY <1>6, <1>7, EnterShape, EnterFacts, TodoFacts DEF Orders
<1>9. cmd'[w] = P!Enter(c)
  BY <1>5 DEF ProcTypes
<1> DEFINE e == P!Enter(c)
<1>10. /\ e.status = c.status
       /\ e.pc \notin {"start", "cleanup"} =>
             e.procs = c.procs /\ e.flux = c.flux /\ e.hung = c.hung /\ e.strays = c.strays /\ e.pids = c.pids
  BY <1>6, <1>8, EnterFacts
<1>11. cmd' = [cmd EXCEPT ![w] = e] /\ cmd'[w] = e /\ e \in Command /\ InShape(w, e)
       /\ e.pc \in {"start", "stop", "sanity", "disable", "enable", "cleanup"} /\ (w = "cron" => e.pc = "sanity")
  BY <1>5, <1>8, <1>9
<1> HIDE DEF e
<1> QED BY <1>2, <1>6, <1>10, <1>11 DEF flux, Moves

(* Where a command goes that has done the first of its orders. *)
LEMMA Leaves ==
    ASSUME ProcTypes, NEW w \in P!Who, P!Leave(w), cmd[w].pc \notin {"none", "off", "procs", "states"}
    PROVE  /\ Moves(w)
           /\ cmd'[w].pc \in {"none", "start", "cleanup"}
           /\ cmd'[w].pc # "none" => cmd'[w].status = cmd[w].status
           /\ w = "cron" => cmd'[w].pc = "none"
           /\ cmd[w].pc \notin {"stop", "stop wait", "stop kill", "stop last"} => cmd'[w].pc \in {"none", "start"}
           /\ cmd[w].pc \notin {"stop", "stop wait", "stop kill", "stop last", "cleanup"} => cmd'[w].pc = "none"
<1>1. cmd[w] \in Command /\ InShape(w, cmd[w]) /\ cmd[w].pc \in Points
  BY DEF ProcTypes, Command
<1>2. cmd' = [cmd EXCEPT ![w] = P!Enter(cmd[w])]
  BY DEF P!Leave
<1>3. cmd'[w] = P!Enter(cmd[w])
  BY <1>2 DEF ProcTypes
<1>4. cmd[w].todo \in Rests /\ (w = "cron" => cmd[w].todo = <<>>)
      /\ (cmd[w].pc \notin {"stop", "stop wait", "stop kill", "stop last"} => cmd[w].todo \in {<<>>, <<"start">>})
      /\ (cmd[w].pc \notin {"stop", "stop wait", "stop kill", "stop last", "cleanup"} => cmd[w].todo = <<>>)
  BY <1>1 DEF InShape, Points, Rests
<1> DEFINE e == P!Enter(cmd[w])
<1>5. e \in Command /\ InShape(w, e) /\ e.pc \in {"none", "start", "cleanup"}
  BY <1>1, <1>4, EnterFacts, EnterShape
<1>6. /\ w = "cron" => e.pc = "none"
      /\ cmd[w].pc \notin {"stop", "stop wait", "stop kill", "stop last"} => e.pc \in {"none", "start"}
      /\ cmd[w].pc \notin {"stop", "stop wait", "stop kill", "stop last", "cleanup"} => e.pc = "none"
  BY <1>1, <1>4, EnterShape
<1>7. e.pc # "none" => e.status = cmd[w].status
  BY <1>1, EnterFacts, NoCmdFacts
<1>8. cmd' = [cmd EXCEPT ![w] = e] /\ cmd'[w] = e
  BY <1>2, <1>3
<1> HIDE DEF e
<1> QED BY <1>5, <1>6, <1>7, <1>8 DEF Moves

(* start launches the instances, if what it has read says that none is there. *)
LEMMA Launches ==
    ASSUME ProcTypes, NEW w \in P!Who, P!StartLaunch(w)
    PROVE  /\ Moves(w)
           /\ \/ cmd'[w].pc = "none" /\ live' = live /\ tags' = tags
              \/ /\ cmd'[w].pc = "start wait"
                 /\ \/ live' = live /\ tags' = tags
                    \/ cmd[w].status \in P!Startable /\ live' = P!Launch(P!Instance, live) /\ tags' = tags \cup {"starting"}
<1>1. CASE cmd[w].status = "disabled" \/ "disabled" \in tags
  <2>1. P!Leave(w) /\ live' = live /\ tags' = tags /\ cmd[w].pc = "start"
    BY <1>1 DEF P!StartLaunch
  <2> QED BY <2>1, Leaves
<1>2. CASE ~(cmd[w].status = "disabled" \/ "disabled" \in tags)
  <2> DEFINE c == [cmd[w] EXCEPT !.pc = "start wait"]
  <2>1. cmd' = [cmd EXCEPT ![w].pc = "start wait"]
    BY <1>2 DEF P!StartLaunch
  <2>2. cmd[w] \in Command /\ InShape(w, cmd[w]) /\ cmd[w].pc = "start"
    BY DEF ProcTypes, P!StartLaunch
  <2>3. c \in Command /\ c.pc = "start wait" /\ c.todo = cmd[w].todo
    BY <2>2 DEF Command, Points
  <2>4. cmd' = [cmd EXCEPT ![w] = c] /\ cmd'[w] = c
    BY <2>1 DEF ProcTypes
  <2> HIDE DEF c
  <2>5. InShape(w, c)
    BY <2>3, <2>2 DEF InShape
  <2>6. \/ live' = live /\ tags' = tags
        \/ cmd[w].status \in P!Startable /\ live' = P!Launch(P!Instance, live) /\ tags' = tags \cup {"starting"}
    BY <1>2 DEF P!StartLaunch
  <2> QED BY <2>3, <2>4, <2>5, <2>6 DEF Moves
<1> QED BY <1>1, <1>2

(* stop asks processes only. *)
LEMMA ToStopTypes == ASSUME NEW c \in Command PROVE P!ToStop(c) \in SUBSET P!Pid
BY DEF P!ToStop, Command

(* What stop remembers when it begins to wait. *)
LEMMA FirstWait ==
    ASSUME NEW c \in Command, NEW told \in SUBSET P!Pid
    PROVE  /\ P!Waiting(c, told, 0) \in Command /\ P!Waiting(c, told, 0).pc = "stop wait"
           /\ P!Waiting(c, told, 0).todo = c.todo /\ P!Waiting(c, told, 0).told = told
<1>1. \A attempt \in Int :
         /\ P!Waiting(c, told, attempt) \in Command /\ P!Waiting(c, told, attempt).pc = "stop wait"
         /\ P!Waiting(c, told, attempt).todo = c.todo /\ P!Waiting(c, told, attempt).told = told
  <2> TAKE attempt \in Int
  <2> QED BY WaitingFacts, ZenonT(60)
<1>2. 0 \in Int
  OBVIOUS
<1> QED BY <1>1, <1>2, Zenon

(* stop asks the instances and what belongs to none, or has nothing to do. *)
LEMMA AsksToStop ==
    ASSUME ProcTypes, NEW w \in P!Who, P!StopTerm(w)
    PROVE  /\ Moves(w)
           /\ \/ /\ cmd[w].procs = {} /\ cmd'[w].pc \in {"none", "start", "cleanup"}
                 /\ live' = live /\ tags' = tags
              \/ /\ cmd[w].procs # {} /\ cmd'[w].pc = "stop wait" /\ cmd'[w].told = P!ToStop(cmd[w])
                 /\ live' = P!Term(P!ToStop(cmd[w]))
                 /\ tags' = IF cmd[w].status \in P!Active THEN (tags \ {"running"}) \cup {"shutdown"} ELSE tags
<1>1. CASE cmd[w].procs = {}
  <2>1. P!Leave(w) /\ live' = live /\ tags' = tags /\ cmd[w].pc = "stop"
    BY <1>1 DEF P!StopTerm
  <2> QED BY <1>1, <2>1, Leaves
<1>2. CASE cmd[w].procs # {}
  <2> DEFINE asked == P!ToStop(cmd[w])
             c == P!Waiting(cmd[w], asked, 0)
  <2>1. /\ cmd' = [cmd EXCEPT ![w] = c] /\ live' = P!Term(P!ToStop(cmd[w]))
        /\ tags' = IF cmd[w].status \in P!Active THEN (tags \ {"running"}) \cup {"shutdown"} ELSE tags
    BY <1>2 DEF P!StopTerm, P!Told, P!ShuttingDown
  <2>2. cmd[w] \in Command /\ InShape(w, cmd[w]) /\ cmd[w].pc = "stop"
    BY DEF ProcTypes, P!StopTerm
  <2>3. asked \in SUBSET P!Pid
    BY <2>2, ToStopTypes
  <2>4. asked = P!ToStop(cmd[w])
    OBVIOUS
  <2> HIDE DEF asked
  <2>5. cmd[w] \in Command
    BY <2>2
  <2>6. c \in Command /\ c.pc = "stop wait" /\ c.todo = cmd[w].todo /\ c.told = asked
    BY <2>5, <2>3, FirstWait, Zenon
  <2>7. c \in Command /\ c.pc = "stop wait" /\ c.todo = cmd[w].todo /\ c.told = P!ToStop(cmd[w])
    BY <2>4, <2>6
  <2>8. cmd'[w] = c
    BY <2>1 DEF ProcTypes
  <2> HIDE DEF c
  <2>9. InShape(w, c)
    BY <2>2, <2>7 DEF InShape
  <2> QED BY <1>2, <2>1, <2>7, <2>8, <2>9 DEF Moves
<1> QED BY <1>1, <1>2

(* stop looks again: it is done, or waits on, or kills (_stop_signal loop). *)
LEMMA Checks ==
    ASSUME ProcTypes, NEW w \in P!Who, P!StopCheck(w)
    PROVE  /\ Moves(w) /\ pidfile' \in Files
           /\ \A i \in P!Instance : pidfile'[i] = pidfile[i] \/ (pidfile[i] \notin P!Procs /\ pidfile'[i] = P!NoFile)
           /\ \/ /\ P!InstancePids(pidfile') = P!NoPids /\ P!Strays(P!NoPids, P!Procs) = {}
                 /\ cmd'[w].pc \in {"none", "start", "cleanup"} /\ live' = live /\ tags' = tags \ {"shutdown"}
              \/ /\ ~(P!InstancePids(pidfile') = P!NoPids /\ P!Strays(P!NoPids, P!Procs) = {})
                 /\ cmd'[w].pc = "stop kill" /\ cmd'[w].told = cmd[w].told /\ live' = live /\ tags' = tags
                 /\ cmd'[w].procs = P!Procs /\ cmd'[w].pids = P!InstancePids(pidfile')
                 /\ cmd'[w].strays = P!Strays(P!InstancePids(pidfile'), P!Procs)
                 /\ cmd'[w].status = P!Resolve(tags, P!InstancePids(pidfile'), P!Procs)
              \/ /\ cmd'[w].pc = "stop wait" /\ cmd[w].told \subseteq cmd'[w].told
                 /\ cmd'[w].attempt # cmd[w].attempt /\ tags' = tags
                 /\ \E ps : live' = P!Term(ps)
<1> DEFINE gone == P!FindMissing(cmd[w].status, P!Procs)
           written == P!CleanMissing(gone, P!Procs)
           b == [cmd[w] EXCEPT !.missing = gone]
           all == P!Procs
           c == P!Resolved(b, tags, written, all)
           old == {p \in c.strays \ c.told : live[p].stage \notin {"wait", "boot", "pid"}}
<1>1. cmd[w] \in Command /\ InShape(w, cmd[w]) /\ cmd[w].pc = "stop wait" /\ pidfile \in Files
      /\ P!Procs \in SUBSET P!Pid
  BY DEF ProcTypes, P!StopCheck, P!Procs
<1>2. pidfile' = written
  BY DEF P!StopCheck
<1>3. \/ /\ c.pids = P!NoPids /\ c.strays = {} /\ tags' = tags \ {"shutdown"}
         /\ cmd' = [cmd EXCEPT ![w] = P!Enter(c)] /\ live' = live
      \/ /\ ~(c.pids = P!NoPids /\ c.strays = {}) /\ tags' = tags /\ live' = live
         /\ cmd' = [cmd EXCEPT ![w] = [c EXCEPT !.pc = "stop kill"]]
      \/ /\ tags' = tags /\ live' = P!Term(old)
         /\ cmd' = [cmd EXCEPT ![w] = P!Waiting(c, c.told \cup old, c.attempt + 1)]
  BY DEF P!StopCheck
<1>4. gone \in SUBSET P!Instance
  BY <1>1, FilesFacts
<1>5. /\ written \in Files
      /\ \A i \in P!Instance : written[i] = pidfile[i] \/ (pidfile[i] \notin P!Procs /\ written[i] = P!NoFile)
  <2>1. /\ P!CleanMissing(gone, P!Procs) \in Files
        /\ \A i \in P!Instance :
              P!CleanMissing(gone, P!Procs)[i] = IF gone # {} /\ pidfile[i] \notin P!Procs THEN P!NoFile ELSE pidfile[i]
    BY <1>1, FilesFacts
  <2> QED BY <2>1
<1> HIDE DEF gone, written
<1>6. b \in Command /\ b.told = cmd[w].told /\ b.attempt = cmd[w].attempt /\ b.todo = cmd[w].todo /\ b.pc = "stop wait"
  BY <1>1, <1>4 DEF Command
<1> HIDE DEF b
<1>7. all \in SUBSET P!Pid /\ all = P!Procs
  BY <1>1
<1> HIDE DEF all
<1>8. pidfile \in Files /\ written \in Files /\ b \in Command /\ all \in SUBSET P!Pid
  BY <1>1, <1>5, <1>6, <1>7
<1>9. /\ c \in Command /\ c.procs = all /\ c.pids = P!InstancePids(written)
       /\ c.strays = P!Strays(P!InstancePids(written), all) /\ c.status = P!Resolve(tags, P!InstancePids(written), all)
  BY <1>8, ResolvedFacts
<1>10. c.told = b.told /\ c.attempt = b.attempt /\ c.todo = b.todo /\ c.pc = b.pc
  BY <1>8, ResolvedFacts
<1>11. /\ c \in Command /\ c.procs = P!Procs /\ c.pids = P!InstancePids(written)
      /\ c.strays = P!Strays(P!InstancePids(written), P!Procs) /\ c.status = P!Resolve(tags, P!InstancePids(written), P!Procs)
      /\ c.told = cmd[w].told /\ c.attempt = cmd[w].attempt /\ c.todo = cmd[w].todo /\ c.pc = "stop wait"
  BY <1>6, <1>7, <1>9, <1>10
<1> HIDE DEF c
<1>12. c.todo \in Rests /\ w # "cron"
  BY <1>1, <1>11 DEF InShape
<1>13. CASE c.pids = P!NoPids /\ c.strays = {} /\ tags' = tags \ {"shutdown"}
           /\ cmd' = [cmd EXCEPT ![w] = P!Enter(c)] /\ live' = live
  <2>1. cmd'[w] = P!Enter(c)
    BY <1>13 DEF ProcTypes
  <2>2. P!Enter(c) \in Command /\ P!Enter(c).pc \in {"none", "start", "cleanup"} /\ InShape(w, P!Enter(c))
    BY <1>11, <1>12, EnterFacts, EnterShape
  <2> QED BY <1>2, <1>5, <1>11, <1>13, <2>1, <2>2 DEF Moves
<1>14. CASE ~(c.pids = P!NoPids /\ c.strays = {}) /\ tags' = tags /\ live' = live
            /\ cmd' = [cmd EXCEPT ![w] = [c EXCEPT !.pc = "stop kill"]]
  <2> DEFINE d == [c EXCEPT !.pc = "stop kill"]
  <2>1. cmd'[w] = d /\ cmd' = [cmd EXCEPT ![w] = d]
    BY <1>14 DEF ProcTypes
  <2>2. d \in Command /\ d.pc = "stop kill" /\ d.told = c.told /\ d.procs = c.procs /\ d.pids = c.pids
        /\ d.strays = c.strays /\ d.status = c.status /\ d.todo = c.todo
    BY <1>11 DEF Command, Points
  <2> HIDE DEF d
  <2>3. InShape(w, d)
    BY <1>12, <2>2 DEF InShape
  <2>4. Moves(w)
    BY <2>1, <2>2, <2>3 DEF Moves
  <2> QED BY <1>2, <1>5, <1>11, <1>14, <2>1, <2>2, <2>4
<1>15. CASE tags' = tags /\ live' = P!Term(old)
            /\ cmd' = [cmd EXCEPT ![w] = P!Waiting(c, c.told \cup old, c.attempt + 1)]
  <2> DEFINE d == P!Waiting(c, c.told \cup old, c.attempt + 1)
  <2>1. cmd'[w] = d /\ cmd' = [cmd EXCEPT ![w] = d]
    BY <1>15 DEF ProcTypes
  <2>2. c.told \in SUBSET P!Pid /\ c.strays \in SUBSET P!Pid /\ c.attempt \in Int
    BY <1>11 DEF Command
  <2>3. c.told \cup old \in SUBSET P!Pid /\ c.attempt + 1 \in Int /\ c.attempt + 1 # c.attempt
    BY <2>2
  <2> HIDE DEF old
  <2>4. d \in Command /\ d.pc = "stop wait" /\ d.told = c.told \cup old /\ d.todo = c.todo /\ d.attempt = c.attempt + 1
    BY <1>11, <2>3, WaitingFacts
  <2> HIDE DEF d
  <2>5. InShape(w, d)
    BY <1>12, <2>4 DEF InShape
  <2>6. Moves(w)
    BY <2>1, <2>4, <2>5 DEF Moves
  <2> QED BY <1>2, <1>5, <1>11, <1>15, <2>1, <2>3, <2>4, <2>6
<1> QED BY <1>3, <1>13, <1>14, <1>15

(* stop kills what has not ended. *)
LEMMA Kills ==
    ASSUME ProcTypes, NEW w \in P!Who, P!StopKill(w)
    PROVE  Moves(w) /\ cmd'[w].pc = "stop last" /\ cmd'[w].status = cmd[w].status
<1> DEFINE c == [P!NoCmd EXCEPT !.pc = "stop last", !.todo = cmd[w].todo, !.status = cmd[w].status]
<1>1. cmd[w] \in Command /\ InShape(w, cmd[w]) /\ cmd[w].pc = "stop kill"
  BY DEF ProcTypes, P!StopKill
<1>2. cmd' = [cmd EXCEPT ![w] = c]
  BY DEF P!StopKill
<1>3. c \in Command /\ c.pc = "stop last" /\ c.todo = cmd[w].todo /\ c.status = cmd[w].status
  BY <1>1, NoCmdFacts DEF Command, Points
<1> HIDE DEF c
<1>4. cmd'[w] = c /\ InShape(w, c)
  BY <1>1, <1>2, <1>3 DEF ProcTypes, InShape
<1> QED BY <1>2, <1>3, <1>4 DEF Moves

(* stop looks a last time, after it killed. *)
LEMMA StopsLast ==
    ASSUME ProcTypes, NEW w \in P!Who, P!StopLast(w)
    PROVE  /\ Moves(w) /\ pidfile' \in Files /\ cmd'[w].pc \in {"none", "start", "cleanup"}
           /\ pidfile' = P!CleanMissing(P!FindMissing(cmd[w].status, P!Procs), P!Procs)
<1> DEFINE gone == P!FindMissing(cmd[w].status, P!Procs)
           written == P!CleanMissing(gone, P!Procs)
           b == [cmd[w] EXCEPT !.missing = gone]
           all == P!Procs
           c == P!Resolved(b, tags, written, all)
<1>1. cmd[w] \in Command /\ InShape(w, cmd[w]) /\ cmd[w].pc = "stop last" /\ pidfile \in Files
      /\ P!Procs \in SUBSET P!Pid
  BY DEF ProcTypes, P!StopLast, P!Procs
<1>2. pidfile' = written /\ cmd' = [cmd EXCEPT ![w] = P!Enter(c)]
  BY DEF P!StopLast
<1>3. gone \in SUBSET P!Instance /\ written \in Files
  BY <1>1, FilesFacts
<1>4. b \in Command /\ b.todo = cmd[w].todo
  BY <1>1, <1>3 DEF Command
<1> HIDE DEF gone, written, b
<1>5. all \in SUBSET P!Pid
  BY <1>1
<1> HIDE DEF all
<1>6. pidfile \in Files /\ written \in Files /\ b \in Command
  BY <1>1, <1>3, <1>4
<1>7. c \in Command /\ c.todo = b.todo
  BY <1>5, <1>6, ResolvedFacts
<1>8. c \in Command /\ c.todo = cmd[w].todo
  BY <1>4, <1>7
<1> HIDE DEF c
<1>9. c.todo \in Rests /\ w # "cron"
  BY <1>1, <1>8 DEF InShape
<1>10. P!Enter(c) \in Command /\ P!Enter(c).pc \in {"none", "start", "cleanup"} /\ InShape(w, P!Enter(c))
  BY <1>8, <1>9, EnterFacts, EnterShape
<1>11. cmd'[w] = P!Enter(c)
  BY <1>2 DEF ProcTypes
<1>12. Moves(w)
  BY <1>2, <1>10, <1>11 DEF Moves
<1> QED BY <1>2, <1>3, <1>10, <1>11, <1>12 DEF written, gone

(* sanity leaves alone what is in flux, and kills what hangs. *)
LEMMA Gates ==
    ASSUME ProcTypes, NEW w \in P!Who, P!SanityGate(w)
    PROVE  /\ Moves(w)
           /\ \/ cmd[w].flux /\ cmd'[w].pc = "none" /\ live' = live
              \/ /\ ~cmd[w].flux /\ cmd'[w].pc = "sanity fix" /\ cmd'[w].procs = cmd[w].procs
                 /\ cmd'[w].status = cmd[w].status /\ cmd'[w].hung = cmd[w].hung
                 /\ \E ps : live' = P!Kill(ps)
<1>1. cmd[w] \in Command /\ InShape(w, cmd[w]) /\ cmd[w].pc = "sanity"
  BY DEF ProcTypes, P!SanityGate
<1>2. CASE cmd[w].flux
  <2>1. P!Leave(w) /\ live' = live
    BY <1>2 DEF P!SanityGate
  <2> QED BY <1>1, <1>2, <2>1, Leaves
<1>3. CASE ~cmd[w].flux
  <2> DEFINE c == [cmd[w] EXCEPT !.pc = "sanity fix"]
  <2>1. cmd' = [cmd EXCEPT ![w].pc = "sanity fix"] /\ live' = P!Kill({cmd[w].pids[i] : i \in cmd[w].hung})
    BY <1>3 DEF P!SanityGate
  <2>2. c \in Command /\ c.pc = "sanity fix" /\ c.todo = cmd[w].todo /\ c.procs = cmd[w].procs
        /\ c.status = cmd[w].status /\ c.hung = cmd[w].hung
    BY <1>1 DEF Command, Points
  <2>3. cmd' = [cmd EXCEPT ![w] = c] /\ cmd'[w] = c
    BY <2>1 DEF ProcTypes
  <2> HIDE DEF c
  <2>4. InShape(w, c)
    BY <1>1, <2>2 DEF InShape
  <2> QED BY <1>3, <2>1, <2>2, <2>3, <2>4 DEF Moves
<1> QED BY <1>2, <1>3

(* sanity cleans up after what is missing, and launches it. *)
LEMMA Fixes ==
    ASSUME ProcTypes, NEW w \in P!Who, P!SanityFix(w)
    PROVE  /\ Moves(w) /\ pidfile' \in Files /\ cmd'[w].pc = "sanity strays"
           /\ \/ live' = live /\ pidfile' = pidfile /\ revived' = revived
              \/ \E procs, gone :
                 /\ cmd[w].status \in {"missing", "partial"} \/ cmd[w].hung # {}
                 /\ procs = P!SanityProcs(cmd[w]) /\ gone = P!FindMissing(cmd[w].status, procs) /\ gone \subseteq P!Instance
                 /\ pidfile' = P!CleanMissing(gone, procs) /\ live' = P!Launch(gone, live)
                 /\ revived' = IF gone # {} THEN revived \cup {lastDone} ELSE revived
<1>1. cmd[w] \in Command /\ InShape(w, cmd[w]) /\ cmd[w].pc = "sanity fix" /\ pidfile \in Files
  BY DEF ProcTypes, P!SanityFix
<1>2. cmd[w].procs \in SUBSET P!Pid /\ cmd[w].strays \in SUBSET P!Pid
  BY <1>1 DEF Command
<1> DEFINE procs == P!SanityProcs(cmd[w])
           gone == P!FindMissing(cmd[w].status, procs)
           written == P!CleanMissing(gone, procs)
           strays == P!Strays(P!InstancePids(written), procs)
           C(s) == [P!NoCmd EXCEPT !.pc = "sanity strays", !.strays = s]
<1>3. procs \in SUBSET P!Pid
  BY <1>2 DEF P!SanityProcs, P!Procs
<1>4. strays \in SUBSET P!Pid
  BY <1>3 DEF P!Strays
<1>5. gone \subseteq P!Instance /\ written \in Files
  BY <1>1, <1>3, FilesFacts
<1>6. \/ /\ pidfile' = pidfile /\ live' = live /\ revived' = revived
         /\ cmd' = [cmd EXCEPT ![w] = C(cmd[w].strays)]
      \/ /\ cmd[w].status \in {"missing", "partial"} \/ cmd[w].hung # {}
         /\ pidfile' = written /\ live' = P!Launch(gone, live)
         /\ cmd' = [cmd EXCEPT ![w] = C(strays)]
         /\ revived' = IF gone # {} THEN revived \cup {lastDone} ELSE revived
  BY DEF P!SanityFix
<1>7. \A s \in SUBSET P!Pid : C(s) \in Command /\ C(s).pc = "sanity strays" /\ C(s).todo = <<>>
  BY NoCmdFacts DEF Command, Points
<1>8. \A s \in SUBSET P!Pid : InShape(w, C(s))
  BY <1>1, <1>7 DEF InShape
<1>9. \A s \in SUBSET P!Pid : cmd' = [cmd EXCEPT ![w] = C(s)] => cmd'[w] = C(s)
  BY DEF ProcTypes
<1> HIDE DEF strays, C
<1>10. \A s \in SUBSET P!Pid : cmd' = [cmd EXCEPT ![w] = C(s)] => Moves(w) /\ cmd'[w].pc = "sanity strays"
  BY <1>7, <1>8, <1>9 DEF Moves
<1>11. Moves(w) /\ cmd'[w].pc = "sanity strays"
  BY <1>2, <1>4, <1>6, <1>10
<1> QED BY <1>1, <1>5, <1>6, <1>11

(* A command that is interrupted is no more. *)
LEMMA Stops ==
    ASSUME ProcTypes, NEW w \in P!Who, P!Interrupt(w)
    PROVE  Moves(w) /\ cmd'[w].pc = "none" /\ interrupts' = interrupts + 1
<1>1. cmd' = [cmd EXCEPT ![w] = P!NoCmd] /\ interrupts' = interrupts + 1
  BY DEF P!Interrupt
<1>2. cmd'[w] = P!NoCmd
  BY <1>1 DEF ProcTypes
<1> QED BY <1>1, <1>2, NoCmdFacts DEF Moves, InShape

(* Each step of a command is a step of its own. *)
LEMMA AllMove ==
    ASSUME ProcTypes, NEW w \in P!Who, P!CommandStep(w)
    PROVE  Moves(w) /\ interrupts' = interrupts
<1>1. CASE P!ReadProcs(w)
  BY <1>1, Reads DEF P!ReadProcs
<1>2. CASE P!ReadStates(w)
  BY <1>2, ReadsStates DEF P!ReadStates
<1>3. CASE P!StartLaunch(w)
  BY <1>3, Launches DEF P!StartLaunch
<1>4. CASE P!StartDone(w) \/ P!SanityStrays(w) \/ P!Disable(w) \/ P!Enable(w) \/ P!Cleanup(w)
  <2>1. P!Leave(w) /\ cmd[w].pc \in {"start wait", "sanity strays", "disable", "enable", "cleanup"} /\ interrupts' = interrupts
    BY <1>4 DEF P!StartDone, P!SanityStrays, P!Disable, P!Enable, P!Cleanup
  <2> QED BY <2>1, Leaves
<1>5. CASE P!StopTerm(w)
  BY <1>5, AsksToStop DEF P!StopTerm
<1>6. CASE P!StopCheck(w)
  BY <1>6, Checks DEF P!StopCheck
<1>7. CASE P!StopKill(w)
  BY <1>7, Kills DEF P!StopKill
<1>8. CASE P!StopLast(w)
  BY <1>8, StopsLast DEF P!StopLast
<1>9. CASE P!SanityGate(w)
  BY <1>9, Gates, ZenonT(40) DEF P!SanityGate
<1>10. CASE P!SanityFix(w)
  BY <1>10, Fixes DEF P!SanityFix
<1> QED BY <1>1, <1>2, <1>3, <1>4, <1>5, <1>6, <1>7, <1>8, <1>9, <1>10 DEF P!CommandStep

(* A step of a command keeps the types. *)
LEMMA CommandStepTypes ==
    ASSUME Instances \in Nat \ {0}, ProcTypes, NEW w \in P!Who, P!CommandStep(w)
    PROVE  ProcTypes'
<1>1. Moves(w) /\ interrupts' = interrupts
  BY AllMove
<1>2. cmd' \in [P!Who -> Command] /\ \A v \in P!Who : InShape(v, cmd'[v])
  <2>1. PICK c \in Command : c = cmd'[w]
    BY <1>1 DEF Moves
  <2> QED BY <1>1, <2>1, Goes DEF Moves
<1>3. live \in Live /\ pidfile \in Files
  BY DEF ProcTypes, Live
<1>4. (\A ps : P!Term(ps) \in Live /\ P!Kill(ps) \in Live) /\ (\A is \in SUBSET P!Instance : P!Launch(is, live) \in Live)
  BY <1>3, LiveTypes
<1>5. live' \in Live
  <2>1. CASE P!StopCheck(w)
    BY <1>3, <1>4, <2>1, Checks
  <2>2. CASE P!SanityFix(w)
    BY <1>3, <1>4, <2>2, Fixes
  <2>3. CASE P!StartLaunch(w)
    BY <1>3, <1>4, <2>3, Launches
  <2>4. CASE ~P!StopCheck(w) /\ ~P!SanityFix(w) /\ ~P!StartLaunch(w)
    BY <1>3, <1>4, <2>4 DEF P!CommandStep, P!ReadProcs, P!ReadStates, P!StartDone, P!StopTerm, P!StopKill,
       P!StopLast, P!SanityGate,
       P!SanityStrays, P!Disable, P!Enable, P!Cleanup
  <2> QED BY <2>1, <2>2, <2>3, <2>4
<1>6. pidfile' \in Files
  <2>1. CASE P!StopCheck(w)
    BY <2>1, Checks
  <2>2. CASE P!SanityFix(w)
    BY <2>2, Fixes
  <2>3. CASE P!StopLast(w)
    BY <2>3, StopsLast
  <2>4. CASE P!StopTerm(w)
    <3>1. cmd[w].procs \in SUBSET P!Pid /\ pidfile' = P!CleanMissing(cmd[w].missing, cmd[w].procs)
      BY <2>4 DEF P!StopTerm, ProcTypes, Command
    <3> QED BY <1>3, <3>1, FilesFacts
  <2>5. CASE ~P!StopCheck(w) /\ ~P!SanityFix(w) /\ ~P!StopLast(w) /\ ~P!StopTerm(w)
    <3>1. pidfile' \in {pidfile, P!NoPids}
      BY <2>5 DEF P!CommandStep, P!ReadProcs, P!ReadStates, P!StartLaunch, P!StartDone, P!StopKill, P!SanityGate,
         P!SanityStrays, P!Disable, P!Enable, P!Cleanup
    <3> QED BY <1>3, <3>1, NoCmdFacts DEF Files
  <2> QED BY <2>1, <2>2, <2>3, <2>4, <2>5
<1> QED BY <1>1, <1>2, <1>5, <1>6 DEF ProcTypes, Live

(* So does a command that is given, or interrupted. *)
LEMMA OtherStepTypes ==
    ASSUME OperatorActions \subseteq P!Actions, ProcTypes, NEW w \in P!Who,
           P!Interrupt(w) \/ \E action : P!Issue(w, action) /\ (w = "operator" => action \in OperatorActions)
    PROVE  ProcTypes' /\ Moves(w)
<1>1. Moves(w) /\ live' = live /\ pidfile' = pidfile /\ interrupts' \in {interrupts, interrupts + 1}
  <2>1. CASE P!Interrupt(w)
    BY <2>1, Stops DEF P!Interrupt
  <2>2. ASSUME NEW action, P!Issue(w, action), w = "operator" => action \in OperatorActions
        PROVE  Moves(w) /\ live' = live /\ pidfile' = pidfile /\ interrupts' = interrupts
    BY <2>2, Given DEF P!Issue
  <2> QED BY <2>1, <2>2
<1>2. cmd' \in [P!Who -> Command] /\ \A v \in P!Who : InShape(v, cmd'[v])
  <2>1. PICK c \in Command : c = cmd'[w]
    BY <1>1 DEF Moves
  <2> QED BY <1>1, <2>1, Goes DEF Moves
<1> QED BY <1>1, <1>2 DEF ProcTypes

(* A command goes by the processes it has read: it has read them, or is about to act on it. *)
Sees(w) ==
    \/ cmd[w].pc = "states" /\ (w = "cron" => ~P!AtWork("operator"))
    \/ cmd[w].pc \in {"stop", "sanity fix"}
    \/ cmd[w].pc = "sanity" /\ ~cmd[w].flux

(* stop waits for what it asked to end. *)
Stopping == {"stop wait", "stop kill", "stop last"}

(* What a command has read is still true when it acts on it. *)
TrulyInformed(w) ==
    /\ Sees(w) => P!Procs \subseteq cmd[w].procs
    /\ cmd[w].pc \in {"stop", "stop kill"} => P!Procs \subseteq P!ToStop(cmd[w])
    /\ cmd[w].pc \in {"stop", "start", "cleanup"} /\ cmd[w].status \notin P!Active => P!Procs = {}
    /\ cmd[w].pc \in {"stop wait", "stop kill"} => P!Procs \subseteq cmd[w].told
    /\ cmd[w].pc = "stop last" => P!Procs = {}
    /\ cmd[w].pc \in Stopping /\ lastDone # "stopping strays" => "shutdown" \in tags /\ "running" \notin tags
    /\ cmd[w].pc \in {"stop kill", "stop last"} /\ lastDone # "stopping strays" =>
          cmd[w].status \in {"hung", "running", "shutdown"}

(* sanity, as it is run regularly, and what the operator has begun are not at work at once. *)
Apart == ~(P!AtWork("operator") /\ P!AtWork("cron"))

(* No two processes are the same instance. *)
Unique == \A p, q \in P!Procs : live[p].inst = live[q].inst => p = q

(* Who has written its pid file is in it, until it ends (instance.py); who has opened it
   left it empty. *)
InFile ==
    \A p \in P!Procs :
       /\ live[p].stage \in {"init", "run", "hung", "oom", "stop"} => pidfile[live[p].inst] = p
       /\ live[p].stage = "pid" => pidfile[live[p].inst] = P!Blank

(* What the operator did last was to stop what ran. *)
StopDone == {"stop", "stop, strays"}

(* Nothing is left of what was stopped, until sanity starts it. *)
NothingLeft ==
    /\ lastDone \in StopDone => cmd["operator"].pc \in {"none", "off"}
    /\ lastDone \in StopDone \ revived => P!Procs = {}

(* Nothing says that what was stopped is to run: neither the mark, nor a pid file that is left,
   nor what sanity has read. *)
Unmarked ==
    lastDone = "stop" =>
       /\ "running" \notin tags /\ (P!InstancePids(pidfile) = P!NoPids \/ "disabled" \in tags)
       /\ cmd["cron"].pc = "states" => cmd["cron"].procs = {}
       /\ cmd["cron"].pc = "sanity fix" \/ (cmd["cron"].pc = "sanity" /\ ~cmd["cron"].flux) =>
             cmd["cron"].status \notin {"missing", "partial"} /\ cmd["cron"].hung = {}

(* All that holds of the processes as long as no command went by what was not so any more. *)
InGoodOrder ==
    /\ Apart /\ Unique /\ InFile
    /\ TrulyInformed("operator") /\ TrulyInformed("cron")
    /\ NothingLeft /\ Unmarked
    /\ ~untold /\ "stop" \notin revived

(* The inductive invariant. *)
ProcInv == ProcTypes /\ (P!Orderly => InGoodOrder)

(* What every step of a command that it notes can say of it. *)
LEMMA NoteFacts ==
    ASSUME ProcTypes, ProcTypes', P!Note, P!Orderly', interrupts' \in {interrupts, interrupts + 1}
    PROVE  /\ P!Orderly /\ Apart' /\ interrupts' = interrupts
           /\ ~(cmd["cron"].pc = "states" /\ cmd'["operator"].pc = "none" /\ cmd["operator"].pc # "none")
           /\ \A w \in P!Who : cmd[w].pc \in {"procs", "states", "sanity fix", "stop", "stop wait", "stop last"}
                              /\ cmd'[w] # cmd[w] => P!WithoutFile = {}
<1>1. interrupts \in Nat /\ interrupts' = 0
  BY DEF ProcTypes, P!Orderly
<1>2. interrupts = 0 /\ interrupts' = interrupts
  BY <1>1
<1> QED BY <1>2 DEF P!Note, P!Orderly, Apart

(* What the operator did last, as the history notes it when a command comes to its end. *)
LEMMA NoteLast ==
    ASSUME P!Note
    PROVE  /\ cmd["operator"].pc = "none" /\ cmd'["operator"].pc # "none" => lastDone' = "nothing"
           /\ cmd'["operator"] = cmd["operator"] => lastDone' = lastDone
           /\ cmd["operator"].pc \notin {"none", "stop", "start wait", "stop wait", "stop last"} => lastDone' = lastDone
           /\ cmd["operator"].pc # "none" /\ cmd'["operator"].pc \notin {"none", "stop wait"} => lastDone' = lastDone
           /\ cmd["operator"].pc = "stop" /\ cmd'["operator"].pc = "stop wait" =>
                 lastDone' = IF cmd["operator"].status \notin P!Active THEN "stopping strays" ELSE lastDone
           /\ cmd["operator"].pc = "stop wait" /\ cmd'["operator"].pc = "stop wait" => lastDone' = lastDone
           /\ cmd["operator"].pc = "start wait" => lastDone' \in {"start", lastDone}
           /\ cmd["operator"].pc \in {"stop wait", "stop last"} /\ cmd'["operator"].pc = "none" /\ interrupts' = interrupts
                 => lastDone' = IF lastDone = "stopping strays" THEN "stop, strays" ELSE "stop"
           /\ cmd["operator"].pc = "stop" /\ cmd'["operator"].pc = "none" => lastDone' \in {"stop, no procs", lastDone}
<1> DEFINE begins == cmd["operator"].pc = "none" /\ cmd'["operator"].pc # "none"
           strays == P!StopsStrays
           started == P!Ends({"start wait"})
           stopped == P!Ends({"stop wait", "stop last"})
           nothing == P!Ends({"stop"})
<1>1. lastDone' = IF begins THEN "nothing" ELSE IF strays THEN "stopping strays" ELSE IF started THEN "start"
                  ELSE IF stopped THEN (IF lastDone = "stopping strays" THEN "stop, strays" ELSE "stop")
                  ELSE IF nothing THEN "stop, no procs" ELSE lastDone
  <2>1. /\ ~(begins /\ strays) /\ ~(begins /\ started) /\ ~(begins /\ stopped) /\ ~(begins /\ nothing)
        /\ ~(strays /\ started) /\ ~(strays /\ stopped) /\ ~(strays /\ nothing)
        /\ ~(started /\ stopped) /\ ~(started /\ nothing) /\ ~(stopped /\ nothing)
    BY DEF P!StopsStrays, P!Ends
  <2>2. lastDone' = CASE begins -> "nothing"
                      [] strays -> "stopping strays"
                      [] started -> "start"
                      [] stopped -> IF lastDone = "stopping strays" THEN "stop, strays" ELSE "stop"
                      [] nothing -> "stop, no procs"
                      [] OTHER -> lastDone
    BY DEF P!Note
  <2> HIDE DEF begins, strays, started, stopped, nothing
  <2> QED BY <2>1, <2>2
<1>2. /\ strays <=> cmd["operator"].pc = "stop" /\ cmd'["operator"].pc = "stop wait" /\ cmd["operator"].status \notin P!Active
      /\ started <=> cmd["operator"].pc = "start wait" /\ cmd'["operator"].pc = "none" /\ interrupts' = interrupts
      /\ stopped <=> cmd["operator"].pc \in {"stop wait", "stop last"} /\ cmd'["operator"].pc = "none" /\ interrupts' = interrupts
      /\ nothing <=> cmd["operator"].pc = "stop" /\ cmd'["operator"].pc = "none" /\ interrupts' = interrupts
  BY DEF P!StopsStrays, P!Ends
<1> HIDE DEF strays, started, stopped, nothing
<1> QED BY <1>1, <1>2

(* Whoever is in its pid file, unless it has not written it yet. *)
LEMMA AllInFile ==
    ASSUME ProcTypes, InFile, P!WithoutFile = {}
    PROVE  \A p \in P!Procs : pidfile[live[p].inst] = p /\ live[p].inst \in P!Instance /\ p \in P!Pid
BY DEF ProcTypes, InFile, P!WithoutFile, P!Procs, P!Stage

(* Signals end processes, and let those that run come to their end: they make no other. *)
LEMMA Signalled ==
    ASSUME ProcTypes, live' = live \/ \E ps : live' = P!Term(ps) \/ live' = P!Kill(ps)
    PROVE  \A q \in P!Procs' :
              /\ q \in P!Procs /\ q \in P!Pid /\ live'[q].inst = live[q].inst
              /\ live'[q].stage = live[q].stage \/ (live[q].stage = "run" /\ live'[q].stage = "stop")
<1>1. P!Gone.stage = "gone"
  BY DEF P!Gone
<1>2. CASE live' = live
  BY <1>2 DEF P!Procs
<1>3. ASSUME NEW ps, live' = P!Kill(ps)
      PROVE \A q \in P!Procs' : q \in P!Procs /\ q \in P!Pid /\ live'[q].inst = live[q].inst /\ live'[q].stage = live[q].stage
  BY <1>1, <1>3 DEF P!Procs, P!Kill
<1>4. ASSUME NEW ps, live' = P!Term(ps), NEW q \in P!Procs'
      PROVE  /\ q \in P!Procs /\ q \in P!Pid /\ live'[q].inst = live[q].inst
             /\ live'[q].stage = live[q].stage \/ (live[q].stage = "run" /\ live'[q].stage = "stop")
  <2>1. q \in P!Pid /\ live'[q].stage # "gone"
    BY DEF P!Procs
  <2>2. live'[q] = live[q] \/ live'[q] = P!Terminated(q)
    BY <1>4, <2>1 DEF P!Term
  <2>3. P!Terminated(q) = P!Gone \/ P!Terminated(q) = live[q] \/ (live[q].stage = "run" /\ P!Terminated(q) = [live[q] EXCEPT !.stage = "stop"])
    BY DEF P!Terminated
  <2>4. live[q] \in [inst : P!Instance, stage : P!Stage]
    BY <2>1 DEF ProcTypes
  <2> QED BY <1>1, <2>1, <2>2, <2>3, <2>4 DEF P!Procs
<1> QED BY <1>2, <1>3, <1>4

(* Fewer processes are still one for each instance, and in their files if those stay. *)
LEMMA FewerRight ==
    ASSUME ProcTypes, live' = live \/ \E ps : live' = P!Term(ps) \/ live' = P!Kill(ps)
    PROVE  /\ P!Procs' \subseteq P!Procs /\ (Unique => Unique')
           /\ InFile /\ (\A q \in P!Procs : pidfile'[live[q].inst] = pidfile[live[q].inst]) => InFile'
<1>1. \A q \in P!Procs' :
              /\ q \in P!Procs /\ q \in P!Pid /\ live'[q].inst = live[q].inst
              /\ live'[q].stage = live[q].stage \/ (live[q].stage = "run" /\ live'[q].stage = "stop")
  BY Signalled
<1>2. P!Procs' \subseteq P!Procs
  BY <1>1
<1>3. Unique => Unique'
  <2> SUFFICES ASSUME Unique, NEW a \in P!Procs', NEW b \in P!Procs', live'[a].inst = live'[b].inst PROVE a = b
    BY DEF Unique
  <2> QED BY <1>1 DEF Unique
<1>4. ASSUME InFile, \A q \in P!Procs : pidfile'[live[q].inst] = pidfile[live[q].inst] PROVE InFile'
  <2> SUFFICES ASSUME NEW q \in P!Procs'
               PROVE  /\ live'[q].stage \in {"init", "run", "hung", "oom", "stop"} => pidfile'[live'[q].inst] = q
                      /\ live'[q].stage = "pid" => pidfile'[live'[q].inst] = P!Blank
    BY DEF InFile
  <2> QED BY <1>1, <1>4 DEF InFile
<1> QED BY <1>2, <1>3, <1>4

(* A file that is cleaned away names no process. *)
LEMMA CleanedRight ==
    ASSUME ProcTypes, InFile, P!WithoutFile = {}, NEW gone, NEW procs \in SUBSET P!Pid, P!Procs \subseteq procs,
           pidfile' = P!CleanMissing(gone, procs)
    PROVE  \A q \in P!Procs : pidfile'[live[q].inst] = pidfile[live[q].inst]
<1>1. \A q \in P!Procs : pidfile[live[q].inst] = q /\ live[q].inst \in P!Instance
  BY AllInFile
<1> QED BY <1>1 DEF P!CleanMissing

(* A step of the operator's command leaves everything in order if it does so with the
   processes and what it knows itself. *)
LEMMA OperatorStep ==
    ASSUME ProcTypes, ProcTypes', InGoodOrder, P!Note, P!Orderly', interrupts' = interrupts,
           Moves("operator"), cmd["operator"].pc \notin {"none", "off"}, cmd'["operator"].pc \notin {"off", "procs"},
           cmd["operator"].pc = "stop last" => cmd'["operator"].pc # "stop wait",
           P!Procs' \subseteq P!Procs \/ P!AtWork("operator")',
           Unique', InFile', TrulyInformed("operator")', ~untold', "stop" \notin revived',
           cmd["operator"].pc \in {"stop wait", "stop last"} /\ cmd'["operator"].pc = "none" =>
              P!Procs' = {} /\ (lastDone' = "stop" => Unmarked')
    PROVE  InGoodOrder'
<1>1. /\ P!Orderly /\ Apart'
      /\ ~(cmd["cron"].pc = "states" /\ cmd'["operator"].pc = "none")
  BY NoteFacts
<1>2. "operator" \in P!Who /\ "cron" \in P!Who /\ cmd'["cron"] = cmd["cron"]
  BY DEF Moves, P!Who, ProcTypes
<1>3. InShape("cron", cmd'["cron"]) /\ InShape("cron", cmd["cron"])
  BY <1>2 DEF ProcTypes
<1>4. TrulyInformed("cron")'
  <2>1. cmd'["cron"].pc \notin {"stop", "stop kill", "start", "cleanup", "stop wait", "stop last"}
    BY <1>3 DEF InShape
  <2>2. ASSUME Sees("cron")' PROVE P!Procs' \subseteq cmd'["cron"].procs
    <3>1. cmd'["cron"].pc # "states"
      BY <1>1, <1>2, <2>2 DEF Sees, P!AtWork
    <3>2. P!AtWork("cron")' /\ Sees("cron")
      BY <1>2, <2>1, <2>2, <3>1 DEF Sees, P!AtWork
    <3>3. ~P!AtWork("operator")'
      BY <1>1, <3>2 DEF Apart
    <3>4. P!Procs' \subseteq P!Procs
      BY <3>3
    <3> QED BY <1>2, <3>2, <3>4 DEF InGoodOrder, TrulyInformed
  <2> QED BY <2>1, <2>2 DEF TrulyInformed, Stopping
<1>5. lastDone' \in StopDone => cmd["operator"].pc \in {"stop wait", "stop last"} /\ cmd'["operator"].pc = "none"
  <2>1. lastDone \notin StopDone
    BY DEF InGoodOrder, NothingLeft
  <2> QED BY <2>1, NoteLast DEF StopDone
<1>6. NothingLeft'
  BY <1>5 DEF NothingLeft, StopDone
<1>7. Unmarked'
  BY <1>5 DEF Unmarked, StopDone
<1> QED BY <1>1, <1>4, <1>6, <1>7 DEF InGoodOrder

(* So does a step of sanity, as it is run regularly. *)
LEMMA CronStep ==
    ASSUME ProcTypes, ProcTypes', InGoodOrder, P!Note, P!Orderly', interrupts' = interrupts,
           Moves("cron"), tags' = tags, untold' = untold,
           P!Procs' \subseteq P!Procs \/ P!AtWork("cron")',
           Unique', InFile', TrulyInformed("cron")', "stop" \notin revived', revived \subseteq revived',
           lastDone \in StopDone \ revived' => P!Procs' \subseteq P!Procs, lastDone = "stop" => Unmarked'
    PROVE  InGoodOrder'
<1>1. P!Orderly /\ Apart'
  BY NoteFacts
<1>2. "operator" \in P!Who /\ "cron" \in P!Who /\ cmd'["operator"] = cmd["operator"]
  BY DEF Moves, P!Who, ProcTypes
<1>3. lastDone' = lastDone
  BY <1>2, NoteLast
<1>4. TrulyInformed("operator")'
  <2>1. TrulyInformed("operator")
    BY DEF InGoodOrder
  <2>2. CASE P!Procs' \subseteq P!Procs
    <3>1. Sees("operator")' = Sees("operator")
      BY <1>2 DEF Sees
    <3> QED BY <1>2, <1>3, <2>1, <2>2, <3>1 DEF TrulyInformed
  <2>3. CASE P!AtWork("cron")'
    <3>1. ~P!AtWork("operator")'
      BY <1>1, <2>3 DEF Apart
    <3>2. cmd'["operator"].pc \in {"off", "none", "procs"}
      BY <3>1 DEF P!AtWork
    <3> QED BY <3>2 DEF TrulyInformed, Sees, Stopping
  <2> QED BY <2>2, <2>3
<1>5. NothingLeft'
  <2>1. NothingLeft
    BY DEF InGoodOrder
  <2> QED BY <1>2, <1>3, <2>1 DEF NothingLeft
<1>6. Unmarked'
  BY <1>3 DEF Unmarked
<1> QED BY <1>1, <1>4, <1>5, <1>6 DEF InGoodOrder

(* What a command reads leaves everything as it was. *)
LEMMA SameProcs ==
    ASSUME InGoodOrder, live' = live, pidfile' = pidfile
    PROVE  P!Procs' = P!Procs /\ Unique' /\ InFile'
<1>1. P!Procs' = P!Procs
  BY DEF P!Procs
<1> QED BY <1>1 DEF InGoodOrder, Unique, InFile

(* What is read of the process table is so, as long as nothing is launched. *)
LEMMA ReadProcsRight ==
    ASSUME ProcTypes, ProcTypes', InGoodOrder, P!Note, P!Orderly', NEW w \in P!Who, P!ReadProcs(w)
    PROVE  InGoodOrder'
<1>1. /\ live' = live /\ pidfile' = pidfile /\ tags' = tags /\ interrupts' = interrupts /\ untold' = untold
      /\ revived' = revived /\ cmd[w].pc = "procs"
  BY DEF P!ReadProcs
<1>2. Moves(w) /\ cmd'[w].pc = "states" /\ cmd'[w].procs = P!Procs
  BY Reads
<1>3. P!Procs' = P!Procs /\ Unique' /\ InFile'
  BY <1>1, SameProcs
<1>4. TrulyInformed(w)'
  BY <1>2, <1>3 DEF TrulyInformed, Stopping
<1>5. CASE w = "operator"
  BY <1>1, <1>2, <1>3, <1>4, <1>5, OperatorStep DEF InGoodOrder
<1>6. CASE w = "cron"
  <2>1. lastDone = "stop" => P!Procs = {} /\ Unmarked
    BY DEF InGoodOrder, NothingLeft, StopDone
  <2>2. lastDone' = lastDone
    BY <1>2, <1>6, NoteLast DEF Moves, P!Who, ProcTypes
  <2>3. lastDone = "stop" => Unmarked'
    BY <1>1, <1>2, <1>6, <2>1, <2>2 DEF Unmarked, P!InstancePids
  <2> QED BY <1>1, <1>2, <1>3, <1>4, <1>6, <2>3, CronStep DEF InGoodOrder
<1> QED BY <1>5, <1>6 DEF P!Who

(* Who sees the processes knows of every one of them, by its pid file, and that the
   configuration is active. *)
LEMMA Seen ==
    ASSUME ProcTypes, InFile, P!WithoutFile = {}, NEW procs \in SUBSET P!Pid, P!Procs \subseteq procs, NEW written \in Files,
           \A q \in P!Procs : written[live[q].inst] = pidfile[live[q].inst]
    PROVE  /\ \A q \in P!Procs : P!InstancePids(written)[live[q].inst] = q /\ live[q].inst \in P!Instance
           /\ P!Procs # {} => /\ P!Resolve(tags, P!InstancePids(written), procs) \in P!Active
                              /\ P!InstancePids(written) # P!NoPids
<1>1. \A q \in P!Procs : pidfile[live[q].inst] = q /\ live[q].inst \in P!Instance /\ q \in P!Pid
  BY AllInFile
<1>2. P!InstancePids(written) \in [P!Instance -> P!Pid \cup {P!NoFile}]
      /\ \A i \in P!Instance : P!InstancePids(written)[i] = IF written[i] = P!Blank THEN P!NoFile ELSE written[i]
  BY FilesFacts DEF ProcTypes
<1>3. \A q \in P!Procs : P!InstancePids(written)[live[q].inst] = q
  BY <1>1, <1>2, NotPid
<1>4. P!Procs # {} => P!Observed(P!InstancePids(written), procs) # {} /\ P!InstancePids(written) # P!NoPids
  BY <1>1, <1>3, NotPid DEF P!Observed, P!NoPids
<1>5. P!Procs # {} => P!Resolve(tags, P!InstancePids(written), procs) \in P!Active
  BY <1>2, <1>4, StatusFacts
<1> QED BY <1>1, <1>3, <1>4, <1>5

(* What is read of the pid files, with what was read of the processes, tells what runs: a
   configuration whose status is not active has no process. *)
LEMMA ReadStatesRight ==
    ASSUME ProcTypes, ProcTypes', InGoodOrder, P!Note, P!Orderly', NEW w \in P!Who, P!ReadStates(w)
    PROVE  InGoodOrder'
<1>1. /\ live' = live /\ pidfile' = pidfile /\ tags' = tags /\ interrupts' = interrupts /\ untold' = untold
      /\ revived' = revived /\ cmd[w].pc = "states"
  BY DEF P!ReadStates
<1> DEFINE pids == P!InstancePids(pidfile)
           c == cmd'[w]
<1>2. /\ Moves(w) /\ c.pc \in {"start", "stop", "sanity", "disable", "enable", "cleanup"}
      /\ c.status = P!Resolve(tags, pids, cmd[w].procs)
      /\ c.pc \notin {"start", "cleanup"} =>
            /\ c.procs = cmd[w].procs
            /\ c.pids = pids
            /\ c.hung = P!HungAmong(pids, cmd[w].procs)
            /\ c.strays = P!Strays(pids, cmd[w].procs)
            /\ c.flux = (tags \cap {"starting", "shutdown", "resources_restart"} # {})
      /\ w = "cron" => c.pc = "sanity"
  BY ReadsStates
<1>3. P!Procs' = P!Procs /\ Unique' /\ InFile'
  BY <1>1, SameProcs
<1>4. P!WithoutFile = {} /\ P!Orderly /\ Apart'
  BY <1>1, <1>2, NoteFacts
<1>5. cmd[w].procs \in SUBSET P!Pid /\ pidfile \in Files /\ pids \in [P!Instance -> P!Pid \cup {P!NoFile}]
  <2>1. cmd[w].procs \in SUBSET P!Pid /\ pidfile \in Files
    BY DEF ProcTypes, Command
  <2> QED BY <2>1, FilesFacts
<1>6. Sees(w) \/ (w = "cron" /\ c.flux)
  <2>1. CASE w = "operator"
    BY <1>1, <2>1 DEF Sees
  <2>2. CASE w = "cron" /\ ~c.flux
    <3>1. P!AtWork("cron")'
      BY <1>2, <2>2 DEF P!AtWork
    <3>2. ~P!AtWork("operator")'
      BY <1>4, <3>1 DEF Apart
    <3>3. cmd'["operator"] = cmd["operator"]
      BY <1>2, <2>2 DEF Moves, ProcTypes, P!Who
    <3>4. ~P!AtWork("operator")
      BY <3>2, <3>3 DEF P!AtWork
    <3> QED BY <1>1, <2>2, <3>4 DEF Sees
  <2> QED BY <2>1, <2>2 DEF P!Who
<1>7. TrulyInformed(w)'
  <2>1. CASE Sees(w)
    <3>1. P!Procs \subseteq cmd[w].procs /\ InFile
      BY <2>1 DEF InGoodOrder, TrulyInformed, P!Who
    <3>2. /\ \A q \in P!Procs : pids[live[q].inst] = q /\ live[q].inst \in P!Instance
          /\ P!Procs # {} => P!Resolve(tags, pids, cmd[w].procs) \in P!Active
      BY <1>4, <1>5, <3>1, Seen
    <3>3. c.pc = "stop" => P!Procs \subseteq P!ToStop(c)
      BY <1>2, <3>1, <3>2 DEF P!ToStop
    <3> HIDE DEF pids, c
    <3>4. Sees(w)' => P!Procs' \subseteq c.procs
      BY <1>2, <1>3, <3>1 DEF Sees, c
    <3> QED BY <1>2, <1>3, <3>2, <3>3, <3>4 DEF TrulyInformed, Stopping, c
  <2>2. CASE w = "cron" /\ c.flux
    BY <1>2, <2>2 DEF TrulyInformed, Sees, Stopping
  <2> QED BY <1>6, <2>1, <2>2
<1>8. CASE w = "operator"
  BY <1>1, <1>2, <1>3, <1>7, <1>8, OperatorStep DEF InGoodOrder
<1>9. CASE w = "cron"
  <2>1. ASSUME lastDone = "stop" PROVE Unmarked'
    <3>1. P!Procs = {} /\ Unmarked
      BY <2>1 DEF InGoodOrder, NothingLeft, StopDone
    <3>2. cmd[w].procs = {}
      BY <1>1, <1>9, <2>1, <3>1 DEF Unmarked
    <3>3. ASSUME ~c.flux PROVE c.hung = {} /\ c.status \notin {"missing", "partial"}
      <4>1. tags \cap {"starting", "shutdown", "resources_restart"} = {}
        BY <1>2, <1>9, <3>3
      <4>2. "running" \notin tags /\ (pids = P!NoPids \/ "disabled" \in tags)
        BY <2>1, <3>1 DEF Unmarked
      <4>3. c.status = P!Resolve(tags, pids, {}) /\ c.hung = P!HungAmong(pids, {})
        BY <1>2, <1>9, <3>2
      <4> HIDE DEF c, pids
      <4>4. P!HungAmong(pids, {}) = {} /\ P!Resolve(tags, pids, {}) \notin {"missing", "partial"}
        <5>1. {} \in SUBSET P!Pid
          OBVIOUS
        <5> QED BY <1>5, <4>1, <4>2, <5>1, StatusFacts
      <4> QED BY <4>3, <4>4
    <3> QED BY <1>1, <1>2, <1>9, <2>1, <3>1, <3>3 DEF Unmarked, P!InstancePids
  <2> QED BY <1>1, <1>2, <1>3, <1>7, <1>9, <2>1, CronStep DEF InGoodOrder
<1> QED BY <1>8, <1>9 DEF P!Who

(* sanity kills what hangs: whoever else is there stays in its file. *)
LEMMA SanityGateRight ==
    ASSUME ProcTypes, ProcTypes', InGoodOrder, P!Note, P!Orderly', NEW w \in P!Who, P!SanityGate(w)
    PROVE  InGoodOrder'
<1>1. /\ pidfile' = pidfile /\ tags' = tags /\ interrupts' = interrupts /\ untold' = untold
      /\ revived' = revived /\ cmd[w].pc = "sanity"
  BY DEF P!SanityGate
<1>2. /\ Moves(w)
      /\ \/ cmd[w].flux /\ cmd'[w].pc = "none" /\ live' = live
         \/ /\ ~cmd[w].flux /\ cmd'[w].pc = "sanity fix" /\ cmd'[w].procs = cmd[w].procs
            /\ cmd'[w].status = cmd[w].status /\ cmd'[w].hung = cmd[w].hung
            /\ \E ps : live' = P!Kill(ps)
  BY Gates
<1>3. P!Procs' \subseteq P!Procs /\ Unique' /\ InFile'
  BY <1>1, <1>2, FewerRight DEF InGoodOrder
<1>4. TrulyInformed(w)
  BY DEF InGoodOrder, P!Who
<1>5. TrulyInformed(w)'
  BY <1>1, <1>2, <1>3, <1>4 DEF TrulyInformed, Sees, Stopping
<1>6. CASE w = "operator"
  BY <1>1, <1>2, <1>3, <1>5, <1>6, OperatorStep DEF InGoodOrder
<1>7. CASE w = "cron"
  <2>1. ASSUME lastDone = "stop" PROVE Unmarked'
    <3>1. Unmarked
      BY DEF InGoodOrder
    <3> QED BY <1>1, <1>2, <1>7, <2>1, <3>1 DEF Unmarked, P!InstancePids
  <2> QED BY <1>1, <1>2, <1>3, <1>5, <1>7, <2>1, CronStep DEF InGoodOrder
<1> QED BY <1>6, <1>7 DEF P!Who

(* Who is launched is one that did not run. *)
LEMMA LaunchRight ==
    ASSUME ProcTypes, Unique, InFile, NEW is \in SUBSET P!Instance, live' = P!Launch(is, live),
           \A q \in P!Procs : live[q].inst \notin is /\ pidfile'[live[q].inst] = pidfile[live[q].inst]
    PROVE  Unique' /\ InFile' /\ (is = {} => P!Procs' \subseteq P!Procs)
<1>1. live \in Live
  BY DEF ProcTypes, Live
<1>2. PICK New \in [P!Pid -> BOOLEAN] :
              /\ \A p \in P!Pid : ~New[p] => live'[p] = live[p]
              /\ \A p \in P!Pid : New[p] => /\ live'[p].inst \in is
                                        /\ live'[p].stage \in {"boot", "wait"}
              /\ \A p, q \in P!Pid : New[p] /\ New[q] /\ live'[p].inst = live'[q].inst => p = q
  BY <1>1, LaunchFacts
<1>3. \A q \in P!Procs' : q \in P!Pid /\ (New[q] \/ (q \in P!Procs /\ live'[q] = live[q]))
  BY <1>2 DEF P!Procs
<1>4. Unique'
  <2> SUFFICES ASSUME NEW a \in P!Procs', NEW b \in P!Procs', live'[a].inst = live'[b].inst PROVE a = b
    BY DEF Unique
  <2>1. CASE New[a] /\ New[b]
    BY <1>2, <1>3, <2>1
  <2>2. CASE ~New[a] /\ ~New[b]
    BY <1>3, <2>2 DEF Unique
  <2>3. CASE New[a] # New[b]
    BY <1>2, <1>3, <2>3
  <2> QED BY <1>2, <2>1, <2>2, <2>3
<1>5. InFile'
  <2> SUFFICES ASSUME NEW q \in P!Procs'
               PROVE  /\ live'[q].stage \in {"init", "run", "hung", "oom", "stop"} => pidfile'[live'[q].inst] = q
                      /\ live'[q].stage = "pid" => pidfile'[live'[q].inst] = P!Blank
    BY DEF InFile
  <2> QED BY <1>2, <1>3 DEF InFile
<1>6. is = {} => P!Procs' \subseteq P!Procs
  BY <1>2, <1>3
<1> QED BY <1>4, <1>5, <1>6

(* sanity starts no instance that is there already, and nothing of what was stopped. *)
LEMMA SanityFixRight ==
    ASSUME ProcTypes, ProcTypes', InGoodOrder, P!Note, P!Orderly', NEW w \in P!Who, P!SanityFix(w)
    PROVE  InGoodOrder'
<1>1. /\ tags' = tags /\ interrupts' = interrupts /\ untold' = untold /\ cmd[w].pc = "sanity fix"
  BY DEF P!SanityFix
<1>2. /\ Moves(w) /\ cmd'[w].pc = "sanity strays"
      /\ \/ live' = live /\ pidfile' = pidfile /\ revived' = revived
         \/ \E procs, gone :
                 /\ cmd[w].status \in {"missing", "partial"} \/ cmd[w].hung # {}
                 /\ procs = P!SanityProcs(cmd[w]) /\ gone = P!FindMissing(cmd[w].status, procs) /\ gone \subseteq P!Instance
                 /\ pidfile' = P!CleanMissing(gone, procs) /\ live' = P!Launch(gone, live)
                 /\ revived' = IF gone # {} THEN revived \cup {lastDone} ELSE revived
  BY Fixes
<1>3. P!WithoutFile = {} /\ P!Orderly /\ Apart'
  BY <1>1, <1>2, NoteFacts
<1>4. TrulyInformed(w) /\ Unique /\ InFile /\ Unmarked /\ NothingLeft /\ "stop" \notin revived
  BY DEF InGoodOrder, P!Who
<1>5. TrulyInformed(w)'
  BY <1>2 DEF TrulyInformed, Sees, Stopping
<1>6. w = "operator" => lastDone \notin StopDone
  BY <1>1, <1>4 DEF NothingLeft
<1>7. P!AtWork(w)'
  BY <1>2 DEF P!AtWork
<1>8. /\ Unique' /\ InFile' /\ "stop" \notin revived' /\ revived \subseteq revived'
      /\ lastDone \in StopDone \ revived' => P!Procs' \subseteq P!Procs
      /\ lastDone = "stop" /\ w = "cron" => pidfile' = pidfile
  <2>1. CASE live' = live /\ pidfile' = pidfile /\ revived' = revived
    BY <1>4, <2>1, SameProcs
  <2>2. ASSUME NEW procs, NEW gone,
               cmd[w].status \in {"missing", "partial"} \/ cmd[w].hung # {},
               procs = P!SanityProcs(cmd[w]), gone = P!FindMissing(cmd[w].status, procs), gone \subseteq P!Instance,
               pidfile' = P!CleanMissing(gone, procs), live' = P!Launch(gone, live),
               revived' = IF gone # {} THEN revived \cup {lastDone} ELSE revived
        PROVE  /\ Unique' /\ InFile' /\ "stop" \notin revived' /\ revived \subseteq revived'
               /\ lastDone \in StopDone \ revived' => P!Procs' \subseteq P!Procs
               /\ lastDone = "stop" /\ w = "cron" => pidfile' = pidfile
    <3>1. P!Procs \subseteq cmd[w].procs
      BY <1>1, <1>4 DEF TrulyInformed, Sees
    <3>2. procs \in SUBSET P!Pid /\ P!Procs \subseteq procs
      BY <2>2, <3>1 DEF P!SanityProcs, P!Procs, ProcTypes, Command
    <3>3. \A q \in P!Procs : pidfile[live[q].inst] = q /\ live[q].inst \in P!Instance
      BY <1>3, <1>4, AllInFile
    <3>4. \A q \in P!Procs : pidfile'[live[q].inst] = pidfile[live[q].inst]
      BY <1>3, <1>4, <2>2, <3>2, CleanedRight
    <3>5. \A q \in P!Procs : live[q].inst \notin gone
      BY <2>2, <3>2, <3>3 DEF P!FindMissing
    <3>6. Unique' /\ InFile' /\ (gone = {} => P!Procs' \subseteq P!Procs)
      BY <1>4, <2>2, <3>4, <3>5, LaunchRight
    <3>7. lastDone # "stop"
      <4>1. w = "cron" => lastDone # "stop"
        BY <1>1, <1>4, <2>2 DEF Unmarked
      <4> QED BY <1>6, <4>1 DEF P!Who, StopDone
    <3>8. "stop" \notin revived' /\ revived \subseteq revived' /\ (gone # {} => lastDone \in revived')
      BY <1>4, <2>2, <3>7
    <3> QED BY <3>6, <3>7, <3>8
  <2> QED BY <1>2, <2>1, <2>2
<1>9. CASE w = "operator"
  BY <1>1, <1>2, <1>5, <1>7, <1>8, <1>9, OperatorStep DEF InGoodOrder
<1>10. CASE w = "cron"
  <2>1. lastDone = "stop" => Unmarked'
    <3>1. cmd'["cron"].pc = "sanity strays"
      BY <1>2, <1>10
    <3> QED BY <1>1, <1>4, <1>8, <1>10, <3>1 DEF Unmarked, P!InstancePids
  <2> QED BY <1>1, <1>2, <1>5, <1>7, <1>8, <1>10, <2>1, CronStep DEF InGoodOrder
<1> QED BY <1>9, <1>10 DEF P!Who

(* sanity ends what no pid file names. *)
LEMMA SanityStraysRight ==
    ASSUME ProcTypes, ProcTypes', InGoodOrder, P!Note, P!Orderly', NEW w \in P!Who, P!SanityStrays(w)
    PROVE  InGoodOrder'
<1>1. /\ pidfile' = pidfile /\ tags' = tags /\ interrupts' = interrupts /\ untold' = untold
      /\ revived' = revived /\ cmd[w].pc = "sanity strays" /\ P!Leave(w) /\ live' = P!Term(cmd[w].strays)
  BY DEF P!SanityStrays
<1>2. Moves(w) /\ cmd'[w].pc = "none"
  BY <1>1, Leaves
<1>3. P!Procs' \subseteq P!Procs /\ Unique' /\ InFile'
  BY <1>1, FewerRight DEF InGoodOrder
<1>4. TrulyInformed(w)'
  BY <1>2 DEF TrulyInformed, Sees, Stopping
<1>5. CASE w = "operator"
  BY <1>1, <1>2, <1>3, <1>4, <1>5, OperatorStep DEF InGoodOrder
<1>6. CASE w = "cron"
  <2>1. ASSUME lastDone = "stop" PROVE Unmarked'
    <3>1. Unmarked
      BY DEF InGoodOrder
    <3> QED BY <1>1, <1>2, <1>6, <2>1, <3>1 DEF Unmarked, P!InstancePids
  <2> QED BY <1>1, <1>2, <1>3, <1>4, <1>6, <2>1, CronStep DEF InGoodOrder
<1> QED BY <1>5, <1>6 DEF P!Who

(* Only the operator gives other commands than sanity. *)
LEMMA OnlyOperator ==
    ASSUME ProcTypes, NEW w \in P!Who,
           cmd[w].pc \in {"stop", "stop wait", "stop kill", "stop last", "start", "start wait", "disable", "enable", "cleanup"}
    PROVE  w = "operator"
BY DEF ProcTypes, InShape, P!Who

(* start launches when no process is there. *)
LEMMA StartLaunchRight ==
    ASSUME ProcTypes, ProcTypes', InGoodOrder, P!Note, P!Orderly', NEW w \in P!Who, P!StartLaunch(w)
    PROVE  InGoodOrder'
<1>1. /\ pidfile' = pidfile /\ interrupts' = interrupts /\ untold' = untold /\ revived' = revived /\ cmd[w].pc = "start"
  BY DEF P!StartLaunch
<1>2. w = "operator"
  BY <1>1, OnlyOperator
<1>3. /\ Moves(w)
      /\ \/ cmd'[w].pc = "none" /\ live' = live /\ tags' = tags
         \/ /\ cmd'[w].pc = "start wait"
            /\ \/ live' = live /\ tags' = tags
               \/ cmd[w].status \in P!Startable /\ live' = P!Launch(P!Instance, live) /\ tags' = tags \cup {"starting"}
  BY Launches
<1>4. TrulyInformed(w)'
  BY <1>3 DEF TrulyInformed, Sees, Stopping
<1>5. (P!Procs' \subseteq P!Procs \/ P!AtWork("operator")') /\ Unique' /\ InFile'
  <2>1. CASE live' = live
    BY <1>1, <2>1, SameProcs
  <2>2. CASE cmd[w].status \in P!Startable /\ live' = P!Launch(P!Instance, live) /\ cmd'[w].pc = "start wait"
    <3>1. P!Procs = {}
      BY <1>1, <1>2, <2>2 DEF InGoodOrder, TrulyInformed, P!Startable, P!Active
    <3>2. Unique' /\ InFile'
      BY <2>2, <3>1, LaunchRight DEF InGoodOrder
    <3> QED BY <1>2, <2>2, <3>2 DEF P!AtWork
  <2> QED BY <1>3, <2>1, <2>2
<1> QED BY <1>1, <1>2, <1>3, <1>4, <1>5, OperatorStep DEF InGoodOrder

(* start that is done, enable, disable and cleanup touch no process; cleanup removes the pid
   files of a configuration only that has no process. *)
LEMMA PlainRight ==
    ASSUME ProcTypes, ProcTypes', InGoodOrder, P!Note, P!Orderly', NEW w \in P!Who,
           P!StartDone(w) \/ P!Disable(w) \/ P!Enable(w) \/ P!Cleanup(w)
    PROVE  InGoodOrder'
<1>1. /\ live' = live /\ interrupts' = interrupts /\ untold' = untold /\ revived' = revived /\ P!Leave(w)
      /\ cmd[w].pc \in {"start wait", "disable", "enable", "cleanup"}
  BY DEF P!StartDone, P!Disable, P!Enable, P!Cleanup
<1>2. w = "operator"
  BY <1>1, OnlyOperator
<1>3. /\ Moves(w) /\ cmd'[w].pc \in {"none", "start"} /\ (cmd'[w].pc # "none" => cmd'[w].status = cmd[w].status)
      /\ cmd[w].pc # "cleanup" => cmd'[w].pc = "none"
  BY <1>1, Leaves
<1>4. TrulyInformed(w)
  BY <1>2 DEF InGoodOrder
<1>5. P!Procs' = P!Procs
  BY <1>1 DEF P!Procs
<1>6. TrulyInformed(w)'
  BY <1>1, <1>3, <1>4, <1>5 DEF TrulyInformed, Sees, Stopping
<1>7. Unique' /\ InFile'
  <2>1. CASE pidfile' = pidfile
    BY <1>1, <2>1, SameProcs
  <2>2. CASE pidfile' # pidfile
    <3>1. cmd[w].pc = "cleanup" /\ cmd[w].status \notin P!Active
      BY <2>2 DEF P!StartDone, P!Disable, P!Enable, P!Cleanup
    <3>2. P!Procs = {}
      BY <1>4, <3>1 DEF TrulyInformed
    <3> QED BY <1>5, <3>2 DEF Unique, InFile
  <2> QED BY <2>1, <2>2
<1> QED BY <1>1, <1>2, <1>3, <1>5, <1>6, <1>7, OperatorStep DEF InGoodOrder

(* stop asks every process that is there. *)
LEMMA StopTermRight ==
    ASSUME ProcTypes, ProcTypes', InGoodOrder, P!Note, P!Orderly', NEW w \in P!Who, P!StopTerm(w)
    PROVE  InGoodOrder'
<1>1. /\ interrupts' = interrupts /\ untold' = untold /\ revived' = revived /\ cmd[w].pc = "stop"
      /\ pidfile' = P!CleanMissing(cmd[w].missing, cmd[w].procs)
  BY DEF P!StopTerm
<1>2. w = "operator"
  BY <1>1, OnlyOperator
<1>3. /\ Moves(w)
      /\ \/ /\ cmd[w].procs = {} /\ cmd'[w].pc \in {"none", "start", "cleanup"}
            /\ live' = live /\ tags' = tags
         \/ /\ cmd[w].procs # {} /\ cmd'[w].pc = "stop wait" /\ cmd'[w].told = P!ToStop(cmd[w])
            /\ live' = P!Term(P!ToStop(cmd[w]))
            /\ tags' = IF cmd[w].status \in P!Active THEN (tags \ {"running"}) \cup {"shutdown"} ELSE tags
  BY AsksToStop
<1>4. P!WithoutFile = {}
  BY <1>1, <1>3, NoteFacts
<1>5. /\ TrulyInformed(w) /\ P!Procs \subseteq cmd[w].procs /\ P!Procs \subseteq P!ToStop(cmd[w])
      /\ InFile
  BY <1>1, <1>2 DEF InGoodOrder, TrulyInformed, Sees
<1>6. \A q \in P!Procs : pidfile'[live[q].inst] = pidfile[live[q].inst]
  <2>1. cmd[w].procs \in SUBSET P!Pid
    BY DEF ProcTypes, Command
  <2> QED BY <1>1, <1>4, <1>5, <2>1, CleanedRight
<1>7. P!Procs' \subseteq P!Procs /\ Unique' /\ InFile'
  BY <1>3, <1>6, FewerRight DEF InGoodOrder
<1>8. TrulyInformed(w)'
  <2>1. CASE cmd[w].procs = {} /\ cmd'[w].pc \in {"none", "start", "cleanup"}
    BY <1>5, <1>7, <2>1 DEF TrulyInformed, Sees, Stopping
  <2>2. CASE /\ cmd'[w].pc = "stop wait" /\ cmd'[w].told = P!ToStop(cmd[w])
             /\ tags' = IF cmd[w].status \in P!Active THEN (tags \ {"running"}) \cup {"shutdown"} ELSE tags
    <3>1. lastDone' # "stopping strays" => "shutdown" \in tags' /\ "running" \notin tags'
      BY <1>1, <1>2, <2>2, NoteLast
    <3> QED BY <1>5, <1>7, <2>2, <3>1 DEF TrulyInformed, Sees, Stopping
  <2> QED BY <1>3, <2>1, <2>2
<1> QED BY <1>1, <1>2, <1>3, <1>7, <1>8, OperatorStep DEF InGoodOrder

(* When no pid file is left and no process without one, there is no process. *)
LEMMA NoneLeft == ASSUME P!Strays(P!NoPids, P!Procs) = {} PROVE P!Procs = {}
BY NotPid DEF P!Strays, P!NoPids, P!Procs

(* When stop comes to its end, sanity has not yet read what was before. *)
LEMMA UnmarkedAfter ==
    ASSUME ProcTypes, ProcTypes', P!Note, P!Orderly', interrupts' = interrupts,
           cmd["operator"].pc \notin {"none", "off", "procs"}, cmd'["operator"].pc = "none", Moves("operator"),
           "running" \notin tags', P!InstancePids(pidfile') = P!NoPids \/ "disabled" \in tags', InGoodOrder
    PROVE  Unmarked'
<1>1. Apart /\ cmd["cron"].pc # "states" /\ cmd'["cron"] = cmd["cron"]
  BY NoteFacts DEF InGoodOrder, Moves, P!Who, ProcTypes
<1>2. ~P!AtWork("cron")
  BY <1>1 DEF Apart, P!AtWork
<1>3. cmd["cron"].pc \in {"off", "none", "procs"} \/ (cmd["cron"].pc = "sanity" /\ cmd["cron"].flux)
  BY <1>1, <1>2 DEF P!AtWork
<1> QED BY <1>1, <1>3 DEF Unmarked, P!InstancePids

(* stop waits until nothing is left, or knows every process that it is to kill. *)
LEMMA StopCheckRight ==
    ASSUME ProcTypes, ProcTypes', InGoodOrder, P!Note, P!Orderly', NEW w \in P!Who, P!StopCheck(w)
    PROVE  InGoodOrder'
<1>1. /\ interrupts' = interrupts /\ untold' = untold /\ revived' = revived /\ cmd[w].pc = "stop wait"
  BY DEF P!StopCheck
<1>2. w = "operator"
  BY <1>1, OnlyOperator
<1>3. Moves(w) /\ pidfile' \in Files
  BY Checks
<1>4. \A i \in P!Instance : pidfile'[i] = pidfile[i] \/ (pidfile[i] \notin P!Procs /\ pidfile'[i] = P!NoFile)
  BY Checks
<1>5. \/ /\ P!InstancePids(pidfile') = P!NoPids /\ P!Strays(P!NoPids, P!Procs) = {}
         /\ cmd'[w].pc \in {"none", "start", "cleanup"} /\ live' = live /\ tags' = tags \ {"shutdown"}
      \/ /\ ~(P!InstancePids(pidfile') = P!NoPids /\ P!Strays(P!NoPids, P!Procs) = {})
         /\ cmd'[w].pc = "stop kill" /\ cmd'[w].told = cmd[w].told /\ live' = live /\ tags' = tags
         /\ cmd'[w].procs = P!Procs /\ cmd'[w].pids = P!InstancePids(pidfile')
         /\ cmd'[w].strays = P!Strays(P!InstancePids(pidfile'), P!Procs)
         /\ cmd'[w].status = P!Resolve(tags, P!InstancePids(pidfile'), P!Procs)
      \/ /\ cmd'[w].pc = "stop wait" /\ cmd[w].told \subseteq cmd'[w].told
         /\ cmd'[w].attempt # cmd[w].attempt /\ tags' = tags
         /\ \E ps : live' = P!Term(ps)
  BY Checks
<1>6. P!WithoutFile = {}
  <2>1. cmd'[w] # cmd[w]
    BY <1>1, <1>5
  <2> QED BY <1>1, <2>1, NoteFacts
<1>7. /\ TrulyInformed(w) /\ P!Procs \subseteq cmd[w].told /\ InFile
      /\ lastDone # "stopping strays" => "shutdown" \in tags /\ "running" \notin tags
  BY <1>1, <1>2 DEF InGoodOrder, TrulyInformed, Stopping
<1>8. /\ \A q \in P!Procs : pidfile'[live[q].inst] = pidfile[live[q].inst]
      /\ \A q \in P!Procs : pidfile[live[q].inst] = q /\ live[q].inst \in P!Instance
  <2>1. \A q \in P!Procs : pidfile[live[q].inst] = q /\ live[q].inst \in P!Instance
    BY <1>6, <1>7, AllInFile
  <2> QED BY <1>4, <2>1
<1>9. P!Procs' \subseteq P!Procs /\ Unique' /\ InFile'
  BY <1>5, <1>8, FewerRight DEF InGoodOrder
<1>10. CASE /\ P!InstancePids(pidfile') = P!NoPids /\ P!Strays(P!NoPids, P!Procs) = {}
            /\ cmd'[w].pc \in {"none", "start", "cleanup"} /\ live' = live /\ tags' = tags \ {"shutdown"}
  <2>1. P!Procs' = {}
    BY <1>9, <1>10, NoneLeft
  <2>2. TrulyInformed(w)'
    BY <1>10, <2>1 DEF TrulyInformed, Sees, Stopping
  <2>3. ASSUME cmd'[w].pc = "none", lastDone' = "stop" PROVE Unmarked'
    <3>1. lastDone # "stopping strays"
      BY <1>1, <1>2, <2>3, NoteLast
    <3>2. "running" \notin tags'
      BY <1>7, <1>10, <3>1
    <3> QED BY <1>1, <1>2, <1>3, <1>10, <2>3, <3>2, UnmarkedAfter
  <2> QED BY <1>1, <1>2, <1>3, <1>9, <1>10, <2>1, <2>2, <2>3, OperatorStep DEF InGoodOrder
<1>11. CASE /\ ~(P!InstancePids(pidfile') = P!NoPids /\ P!Strays(P!NoPids, P!Procs) = {})
            /\ cmd'[w].pc = "stop kill" /\ cmd'[w].told = cmd[w].told /\ live' = live /\ tags' = tags
            /\ cmd'[w].procs = P!Procs /\ cmd'[w].pids = P!InstancePids(pidfile')
            /\ cmd'[w].strays = P!Strays(P!InstancePids(pidfile'), P!Procs)
            /\ cmd'[w].status = P!Resolve(tags, P!InstancePids(pidfile'), P!Procs)
  <2> DEFINE written == pidfile'
             pids == P!InstancePids(written)
  <2>1. P!Procs \in SUBSET P!Pid /\ written \in Files /\ \A q \in P!Procs : written[live[q].inst] = pidfile[live[q].inst]
    BY <1>3, <1>8 DEF P!Procs
  <2> HIDE DEF written
  <2>2. /\ \A q \in P!Procs : pids[live[q].inst] = q /\ live[q].inst \in P!Instance
        /\ P!Procs # {} => P!Resolve(tags, pids, P!Procs) \in P!Active /\ pids # P!NoPids
    BY <1>6, <1>7, <2>1, Seen
  <2>3. pids \in [P!Instance -> P!Pid \cup {P!NoFile}]
    BY <2>1, FilesFacts DEF ProcTypes
  <2>4. /\ cmd'[w].pids = pids /\ cmd'[w].strays = P!Strays(pids, P!Procs) /\ cmd'[w].status = P!Resolve(tags, pids, P!Procs)
        /\ ~(pids = P!NoPids /\ P!Strays(P!NoPids, P!Procs) = {})
    BY <1>11 DEF written
  <2> HIDE DEF pids
  <2>5. P!Procs \subseteq P!ToStop(cmd'[w])
    BY <1>11, <2>2, <2>4, ZenonT(30) DEF P!ToStop
  <2>6. ASSUME lastDone # "stopping strays" PROVE cmd'[w].status \in {"hung", "running", "shutdown"}
    <3>1. /\ P!Resolve(tags, pids, P!Procs) \in {"hung", "running", "stopped", "shutdown"}
          /\ P!Resolve(tags, pids, P!Procs) = "stopped" => pids = P!NoPids
      BY <1>7, <2>1, <2>3, <2>6, StatusFacts
    <3>2. pids = P!NoPids => P!Procs = {}
      BY <2>2
    <3>3. P!Procs = {} => P!Strays(P!NoPids, P!Procs) = {}
      BY DEF P!Strays
    <3> QED BY <2>4, <3>1, <3>2, <3>3
  <2>7. lastDone' = lastDone
    BY <1>1, <1>2, <1>11, NoteLast
  <2>8. TrulyInformed(w)'
    BY <1>7, <1>9, <1>11, <2>5, <2>6, <2>7 DEF TrulyInformed, Sees, Stopping
  <2> QED BY <1>1, <1>2, <1>3, <1>9, <1>11, <2>8, OperatorStep DEF InGoodOrder
<1>12. CASE /\ cmd'[w].pc = "stop wait" /\ cmd[w].told \subseteq cmd'[w].told /\ tags' = tags
  <2>1. lastDone' = lastDone
    BY <1>1, <1>2, <1>12, NoteLast
  <2>2. TrulyInformed(w)'
    BY <1>7, <1>9, <1>12, <2>1 DEF TrulyInformed, Sees, Stopping
  <2> QED BY <1>1, <1>2, <1>3, <1>9, <1>12, <2>2, OperatorStep DEF InGoodOrder
<1> QED BY <1>5, <1>10, <1>11, <1>12

(* What stop kills it had asked to end, and nothing is left then. *)
LEMMA StopKillRight ==
    ASSUME ProcTypes, ProcTypes', InGoodOrder, P!Note, P!Orderly', NEW w \in P!Who, P!StopKill(w)
    PROVE  InGoodOrder'
<1>1. /\ interrupts' = interrupts /\ revived' = revived /\ cmd[w].pc = "stop kill" /\ pidfile' = pidfile /\ tags' = tags
      /\ live' = P!Kill(P!ToStop(cmd[w])) /\ untold' = (untold \/ ~(P!ToStop(cmd[w]) \cap P!Procs \subseteq cmd[w].told))
  BY DEF P!StopKill
<1>2. w = "operator"
  BY <1>1, OnlyOperator
<1>3. Moves(w) /\ cmd'[w].pc = "stop last" /\ cmd'[w].status = cmd[w].status
  BY Kills
<1>4. TrulyInformed(w) /\ P!Procs \subseteq cmd[w].told /\ P!Procs \subseteq P!ToStop(cmd[w])
  BY <1>1, <1>2 DEF InGoodOrder, TrulyInformed
<1>5. P!Procs' \subseteq P!Procs /\ Unique' /\ InFile'
  BY <1>1, FewerRight DEF InGoodOrder
<1>6. P!Procs' = {}
  BY <1>1, <1>4, <1>5 DEF P!Kill, P!Gone, P!Procs
<1>7. ~untold'
  BY <1>1, <1>4 DEF InGoodOrder
<1>8. lastDone' = lastDone
  BY <1>1, <1>2, NoteLast
<1>9. TrulyInformed(w)'
  BY <1>1, <1>3, <1>4, <1>6, <1>8 DEF TrulyInformed, Sees, Stopping
<1> QED BY <1>1, <1>2, <1>3, <1>5, <1>7, <1>9, OperatorStep DEF InGoodOrder

(* After it killed, stop removes every pid file. *)
LEMMA StopLastRight ==
    ASSUME Instances \in Nat \ {0}, ProcTypes, ProcTypes', InGoodOrder, P!Note, P!Orderly', NEW w \in P!Who, P!StopLast(w)
    PROVE  InGoodOrder'
<1>1. /\ interrupts' = interrupts /\ revived' = revived /\ untold' = untold /\ cmd[w].pc = "stop last"
      /\ tags' = tags \ {"shutdown"} /\ live' = live
  BY DEF P!StopLast
<1>2. w = "operator"
  BY <1>1, OnlyOperator
<1>3. /\ Moves(w) /\ pidfile' \in Files /\ cmd'[w].pc \in {"none", "start", "cleanup"}
      /\ pidfile' = P!CleanMissing(P!FindMissing(cmd[w].status, P!Procs), P!Procs)
  BY StopsLast
<1>4. /\ TrulyInformed(w) /\ P!Procs = {}
      /\ lastDone # "stopping strays" => /\ "running" \notin tags /\ cmd[w].status \in {"hung", "running", "shutdown"}
  BY <1>1, <1>2 DEF InGoodOrder, TrulyInformed, Stopping
<1>5. P!Procs' = {}
  BY <1>1, <1>4 DEF P!Procs
<1>6. Unique' /\ InFile' /\ TrulyInformed(w)'
  BY <1>3, <1>5 DEF Unique, InFile, TrulyInformed, Sees, Stopping
<1>7. ASSUME cmd'[w].pc = "none", lastDone' = "stop" PROVE Unmarked'
  <2>1. lastDone # "stopping strays"
    BY <1>1, <1>2, <1>7, NoteLast
  <2>2. P!InstancePids(pidfile') = P!NoPids \/ "disabled" \in tags'
    <3>1. SUFFICES ASSUME "disabled" \notin tags PROVE P!InstancePids(pidfile') = P!NoPids
      BY <1>1
    <3>2. P!FindMissing(cmd[w].status, P!Procs) = P!Instance
      BY <1>4, <2>1, <3>1 DEF P!FindMissing
    <3>3. P!Instance # {}
      BY DEF P!Instance
    <3>4. \A i \in P!Instance : pidfile'[i] = P!NoFile
      BY <1>3, <1>4, <3>2, <3>3 DEF P!CleanMissing
    <3>5. P!NoFile # P!Blank
      BY DEF P!NoFile, P!Blank
    <3> QED BY <3>4, <3>5 DEF P!InstancePids, P!NoPids
  <2> QED BY <1>1, <1>2, <1>3, <1>4, <1>7, <2>1, <2>2, UnmarkedAfter
<1> QED BY <1>1, <1>2, <1>3, <1>5, <1>6, <1>7, OperatorStep DEF InGoodOrder

(* What an instance does is its own: it becomes something else in the table of processes, or
   is no more there. *)
LEMMA InstanceStepRight ==
    ASSUME Instances \in Nat \ {0}, ProcTypes, InGoodOrder, P!Note, P!Orderly', NEW p \in P!Pid,
           P!InstanceStep(p) \/ P!Crash(p) \/ P!Hang(p) \/ P!OutOfMemory(p)
    PROVE  InGoodOrder'
<1>1. ProcTypes' /\ cmd' = cmd
  BY InstanceStepTypes
<1>2. interrupts' = interrupts /\ untold' = untold /\ revived' = revived
  BY DEF P!InstanceStep, P!WaitForLead, P!OpenPidFile, P!WritePid, P!RunFlow, P!EndInstance, P!Exec, P!Crash,
     P!Hang, P!OutOfMemory, P!ProcFault
<1>3. Apart'
  BY <1>1, <1>2, NoteFacts
<1>4. lastDone' = lastDone
  BY <1>1, NoteLast
<1>5. live[p] \in [inst : P!Instance, stage : P!Stage] /\ live \in Live
  BY DEF ProcTypes, Live
<1>6. p \in P!Procs
  BY DEF P!InstanceStep, P!WaitForLead, P!OpenPidFile, P!WritePid, P!RunFlow, P!EndInstance, P!Exec, P!Crash,
     P!Hang, P!OutOfMemory, P!Procs
<1>7. tags' \ {"resources_restart"} = tags \ {"resources_restart"}
  BY DEF P!InstanceStep, P!WaitForLead, P!OpenPidFile, P!WritePid, P!RunFlow, P!EndInstance, P!Exec, P!Crash,
     P!Hang, P!OutOfMemory
<1>8. \A stage \in P!Stage : P!Become(p, stage) =>
         /\ live'[p].inst = live[p].inst /\ live'[p].stage = stage
         /\ \A q \in P!Pid : q # p => live'[q] = live[q]
  BY <1>5 DEF P!Become, Live
<1>9. /\ \A q \in P!Pid : q # p => live'[q] = live[q]
      /\ live'[p].stage = "gone" \/ live'[p].inst = live[p].inst
  <2>1. CASE P!EndInstance(p) \/ P!Crash(p)
    <3>1. live' = [live EXCEPT ![p] = P!Gone]
      BY <2>1 DEF P!EndInstance, P!Crash
    <3> QED BY <1>5, <3>1 DEF P!Gone, Live
  <2>2. CASE ~(P!EndInstance(p) \/ P!Crash(p))
    <3>1. \E stage \in P!Stage : P!Become(p, stage)
      BY <2>2 DEF P!InstanceStep, P!WaitForLead, P!OpenPidFile, P!WritePid, P!RunFlow, P!Exec, P!Hang,
         P!OutOfMemory, P!Stage
    <3> QED BY <1>8, <3>1
  <2> QED BY <2>1, <2>2
<1>10. \A q \in P!Procs' : q \in P!Procs /\ q \in P!Pid /\ live'[q].inst = live[q].inst
  BY <1>6, <1>9 DEF P!Procs
<1>11. Unique'
  BY <1>10 DEF InGoodOrder, Unique
<1>12. InFile'
  <2>1. Unique /\ InFile
    BY DEF InGoodOrder
  <2>2. \A i \in P!Instance : i # live[p].inst => pidfile'[i] = pidfile[i]
    BY <1>5 DEF P!InstanceStep, P!WaitForLead, P!OpenPidFile, P!WritePid, P!RunFlow, P!EndInstance, P!Exec,
       P!Crash, P!Hang, P!OutOfMemory, ProcTypes, Files
  <2>3. \A q \in P!Procs' \ {p} : live'[q] = live[q] /\ pidfile'[live[q].inst] = pidfile[live[q].inst]
    BY <1>6, <1>9, <1>10, <2>1, <2>2 DEF Unique, ProcTypes
  <2>4. /\ live'[p].stage \in {"init", "run", "hung", "oom", "stop"} => pidfile'[live'[p].inst] = p
        /\ live'[p].stage = "pid" => pidfile'[live'[p].inst] = P!Blank
    <3>1. /\ live[p].stage \in {"init", "run", "hung", "oom", "stop"} => pidfile[live[p].inst] = p
          /\ live[p].stage = "pid" => pidfile[live[p].inst] = P!Blank
      BY <1>6, <2>1 DEF InFile
    <3>2. CASE P!WaitForLead(p)
      BY <1>8, <3>2 DEF P!WaitForLead, P!Stage
    <3>3. CASE P!OpenPidFile(p)
      BY <1>5, <1>8, <3>3 DEF P!OpenPidFile, P!Stage, ProcTypes, Files
    <3>4. CASE P!WritePid(p)
      BY <1>5, <1>8, <3>1, <3>4 DEF P!WritePid, P!Stage, ProcTypes, Files, P!Blank, P!NoFile
    <3>5. CASE P!RunFlow(p)
      BY <1>8, <3>1, <3>5 DEF P!RunFlow, P!Stage
    <3>6. CASE P!EndInstance(p) \/ P!Crash(p)
      <4>1. live' = [live EXCEPT ![p] = P!Gone]
        BY <3>6 DEF P!EndInstance, P!Crash
      <4> QED BY <1>5, <4>1 DEF P!Gone, Live
    <3>7. CASE P!Exec(p)
      BY <1>8, <3>7 DEF P!Exec, P!Stage
    <3>8. CASE P!Hang(p) \/ P!OutOfMemory(p)
      BY <1>8, <3>1, <3>8 DEF P!Hang, P!OutOfMemory, P!Stage
    <3> QED BY <3>2, <3>3, <3>4, <3>5, <3>6, <3>7, <3>8 DEF P!InstanceStep
  <2> SUFFICES ASSUME NEW q \in P!Procs'
               PROVE  /\ live'[q].stage \in {"init", "run", "hung", "oom", "stop"} => pidfile'[live'[q].inst] = q
                      /\ live'[q].stage = "pid" => pidfile'[live'[q].inst] = P!Blank
    BY DEF InFile
  <2>5. CASE q = p
    BY <2>4, <2>5
  <2>6. CASE q # p
    BY <1>10, <2>1, <2>3, <2>6 DEF InFile
  <2> QED BY <2>5, <2>6
<1>13. P!Procs' \subseteq P!Procs
  BY <1>10
<1>14. \A w \in P!Who : TrulyInformed(w) => TrulyInformed(w)'
  <2> SUFFICES ASSUME NEW w \in P!Who, TrulyInformed(w) PROVE TrulyInformed(w)'
    OBVIOUS
  <2>1. Sees(w)' = Sees(w)
    BY <1>1 DEF Sees, P!AtWork
  <2> QED BY <1>1, <1>4, <1>7, <1>13, <2>1 DEF TrulyInformed
<1>15. TrulyInformed("operator")' /\ TrulyInformed("cron")'
  BY <1>14 DEF InGoodOrder, P!Who
<1>16. NothingLeft' /\ Unmarked'
  <2>1. NothingLeft /\ "stop" \notin revived
    BY DEF InGoodOrder
  <2>2. NothingLeft'
    BY <1>1, <1>2, <1>4, <1>13, <2>1 DEF NothingLeft
  <2>3. lastDone # "stop"
    BY <1>6, <2>1 DEF NothingLeft, StopDone
  <2> QED BY <1>4, <2>2, <2>3 DEF Unmarked
<1> QED BY <1>2, <1>3, <1>11, <1>12, <1>15, <1>16 DEF InGoodOrder

(* A command that is given has not done anything yet. *)
LEMMA IssueRight ==
    ASSUME OperatorActions \subseteq P!Actions, ProcTypes, InGoodOrder, P!Note, P!Orderly', NEW w \in P!Who, NEW action,
           P!Issue(w, action), w = "operator" => action \in OperatorActions
    PROVE  InGoodOrder'
<1>1. Moves(w) /\ cmd'[w].pc = "procs" /\ ProcTypes'
  BY Given, OtherStepTypes
<1>2. /\ live' = live /\ pidfile' = pidfile /\ tags' = tags /\ interrupts' = interrupts /\ untold' = untold
      /\ revived' = revived /\ cmd[w].pc = "none"
  BY DEF P!Issue
<1>3. Apart' /\ P!Orderly
  BY <1>1, <1>2, NoteFacts
<1>4. P!Procs' = P!Procs /\ Unique' /\ InFile'
  BY <1>2, SameProcs
<1>5. \A v \in P!Who \ {w} : cmd'[v] = cmd[v]
  BY <1>1 DEF Moves, ProcTypes
<1>6. P!AtWork("operator")' = P!AtWork("operator")
  BY <1>1, <1>2, <1>5 DEF P!AtWork, P!Who
<1>7. w = "operator" => lastDone' = "nothing"
  BY <1>1, <1>2, NoteLast
<1>8. w = "cron" => lastDone' = lastDone
  BY <1>5, NoteLast DEF P!Who
<1>9. TrulyInformed(w)'
  BY <1>1 DEF TrulyInformed, Sees, Stopping
<1>10. \A v \in P!Who : TrulyInformed(v)'
  <2> SUFFICES ASSUME NEW v \in P!Who, v # w PROVE TrulyInformed(v)'
    BY <1>9
  <2>1. TrulyInformed(v) /\ cmd'[v] = cmd[v] /\ InShape(v, cmd[v])
    BY <1>5 DEF InGoodOrder, P!Who, ProcTypes
  <2>2. Sees(v)' = Sees(v)
    BY <1>6, <2>1 DEF Sees
  <2>3. v = "cron" => cmd[v].pc \notin Stopping \cup {"stop", "stop kill", "start", "cleanup"}
    BY <2>1 DEF InShape, Stopping
  <2> QED BY <1>2, <1>4, <1>8, <2>1, <2>2, <2>3 DEF TrulyInformed, Stopping, P!Who
<1>11. NothingLeft' /\ Unmarked'
  <2>1. CASE w = "operator"
    BY <1>7, <2>1 DEF NothingLeft, Unmarked, StopDone
  <2>2. CASE w = "cron"
    BY <1>1, <1>2, <1>4, <1>5, <1>8, <2>2 DEF InGoodOrder, NothingLeft, Unmarked, P!InstancePids, P!Who
  <2> QED BY <2>1, <2>2 DEF P!Who
<1> QED BY <1>2, <1>3, <1>4, <1>10, <1>11 DEF InGoodOrder, P!Who

(* Every step of a command leaves everything in order. *)
LEMMA CommandRight ==
    ASSUME Instances \in Nat \ {0}, ProcTypes, ProcTypes', InGoodOrder, P!Note, P!Orderly', NEW w \in P!Who, P!CommandStep(w)
    PROVE  InGoodOrder'
BY ReadProcsRight, ReadStatesRight, StartLaunchRight, PlainRight, StopTermRight, StopCheckRight, StopKillRight,
   StopLastRight, SanityGateRight, SanityFixRight, SanityStraysRight DEF P!CommandStep

(* Before any command nothing runs (Init). *)
LEMMA ProcInitial ==
    ASSUME Instances \in Nat \ {0}, NEW stage \in {"none", "off"}, P!InitAs(stage)
    PROVE  ProcInv
<1>1. /\ live = [q \in P!Pid |-> P!Gone] /\ pidfile = P!NoPids /\ tags = {} /\ interrupts = 0 /\ lastDone = "nothing"
      /\ cmd = [w \in P!Who |-> [P!NoCmd EXCEPT !.pc = stage]] /\ untold = FALSE /\ revived = {}
  BY DEF P!InitAs
<1>2. live \in Live
  BY <1>1 DEF Live, P!Gone, P!Instance, P!Stage
<1>3. pidfile \in Files
  BY <1>1, NoCmdFacts DEF Files
<1>4. [P!NoCmd EXCEPT !.pc = stage] \in Command /\ [P!NoCmd EXCEPT !.pc = stage].pc = stage
  BY NoCmdFacts DEF Command, Points
<1>5. cmd \in [P!Who -> Command] /\ \A w \in P!Who : cmd[w].pc = stage
  BY <1>1, <1>4
<1>6. \A w \in P!Who : InShape(w, cmd[w])
  BY <1>5 DEF InShape
<1>7. ProcTypes
  BY <1>1, <1>2, <1>3, <1>5, <1>6 DEF ProcTypes, Live
<1>8. P!Procs = {}
  BY <1>1 DEF P!Procs, P!Gone
<1>9. InGoodOrder
  BY <1>1, <1>5, <1>8 DEF InGoodOrder, Apart, P!AtWork, Unique, InFile, TrulyInformed, Sees, Stopping,
     NothingLeft, StopDone, Unmarked, P!Who
<1> QED BY <1>7, <1>9 DEF ProcInv

(* Every step of an instance or a command keeps the invariant. *)
LEMMA ProcStep ==
    ASSUME Instances \in Nat \ {0}, OperatorActions \subseteq P!Actions, ProcInv, P!Next
    PROVE  ProcInv'
<1>1. ProcTypes /\ P!Note
  BY DEF ProcInv, P!Next, P!InstanceSteps, P!Faults, P!Operate, P!Cron, P!Interrupts, P!Steps
<1>2. ASSUME NEW p \in P!Pid, P!InstanceStep(p) \/ P!Crash(p) \/ P!Hang(p) \/ P!OutOfMemory(p)
      PROVE  ProcTypes' /\ (InGoodOrder /\ P!Orderly' => InGoodOrder') /\ interrupts' = interrupts
  <2>1. interrupts' = interrupts
    BY <1>2 DEF P!InstanceStep, P!WaitForLead, P!OpenPidFile, P!WritePid, P!RunFlow, P!EndInstance, P!Exec,
       P!Crash, P!Hang, P!OutOfMemory, P!ProcFault
  <2> QED BY <1>1, <1>2, <2>1, InstanceStepTypes, InstanceStepRight
<1>3. ASSUME NEW w \in P!Who, NEW action, P!Issue(w, action), w = "operator" => action \in OperatorActions
      PROVE  ProcTypes' /\ (InGoodOrder /\ P!Orderly' => InGoodOrder') /\ interrupts' = interrupts
  <2>1. interrupts' = interrupts
    BY <1>3 DEF P!Issue
  <2> QED BY <1>1, <1>3, <2>1, OtherStepTypes, IssueRight
<1>4. ASSUME NEW w \in P!Who, P!CommandStep(w)
      PROVE  ProcTypes' /\ (InGoodOrder /\ P!Orderly' => InGoodOrder') /\ interrupts' = interrupts
  BY <1>1, <1>4, CommandStepTypes, CommandRight, AllMove
<1>5. ASSUME NEW w \in P!Who, P!Interrupt(w)
      PROVE  ProcTypes' /\ interrupts' = interrupts + 1
  BY <1>1, <1>5, OtherStepTypes, Stops
<1>6. \/ ProcTypes' /\ (InGoodOrder /\ P!Orderly' => InGoodOrder') /\ interrupts' = interrupts
      \/ ProcTypes' /\ interrupts' = interrupts + 1
  <2>1. CASE P!InstanceSteps \/ P!Faults
    <3>1. PICK p \in P!Pid : P!InstanceStep(p) \/ P!Crash(p) \/ P!Hang(p) \/ P!OutOfMemory(p)
      BY <2>1 DEF P!InstanceSteps, P!Faults
    <3> QED BY <1>2, <3>1
  <2>2. CASE P!Operate
    <3>1. PICK action \in OperatorActions : P!Issue("operator", action)
      BY <2>2 DEF P!Operate
    <3>2. "operator" \in P!Who
      BY DEF P!Who
    <3> QED BY <1>3, <3>1, <3>2
  <2>3. CASE P!Cron
    <3>1. P!Issue("cron", "sanity") /\ "cron" \in P!Who
      BY <2>3 DEF P!Cron, P!Who
    <3> QED BY <1>3, <3>1
  <2>4. CASE P!Interrupts
    BY <1>5, <2>4 DEF P!Interrupts
  <2>5. CASE \E w \in P!Who : P!Steps(w)
    <3>1. PICK w \in P!Who : P!CommandStep(w)
      BY <2>5 DEF P!Steps
    <3> QED BY <1>4, <3>1
  <2> QED BY <2>1, <2>2, <2>3, <2>4, <2>5 DEF P!Next
<1>7. ASSUME P!Orderly' PROVE InGoodOrder'
  <2>1. interrupts' \in {interrupts, interrupts + 1} /\ ProcTypes'
    BY <1>6
  <2>2. P!Orderly /\ interrupts' = interrupts
    BY <1>1, <1>7, <2>1, NoteFacts
  <2>3. interrupts \in Nat
    BY DEF ProcInv, ProcTypes
  <2>4. interrupts' # interrupts + 1
    BY <2>2, <2>3
  <2> QED BY <1>6, <1>7, <2>2, <2>4 DEF ProcInv
<1> QED BY <1>6, <1>7 DEF ProcInv

(* So does what has nothing to do with processes. *)
LEMMA ProcStays == ASSUME ProcInv, UNCHANGED P!prVars PROVE ProcInv'
<1>1. UNCHANGED <<live, pidfile, tags, sanitizing, cmd, interrupts, lastDone, overlap, early, untold, revived>>
  BY DEF P!prVars
<1>2. ProcTypes'
  BY <1>1 DEF ProcInv, ProcTypes
<1>3. P!Orderly' = P!Orderly /\ P!Procs' = P!Procs
  BY <1>1 DEF P!Orderly, P!Procs
<1>4. P!AtWork("operator")' = P!AtWork("operator") /\ P!AtWork("cron")' = P!AtWork("cron")
  BY <1>1 DEF P!AtWork
<1>5. TrulyInformed("operator")' = TrulyInformed("operator") /\ TrulyInformed("cron")' = TrulyInformed("cron")
  BY <1>1, <1>3, <1>4 DEF TrulyInformed, Sees
<1>6. Apart' = Apart /\ Unique' = Unique /\ InFile' = InFile /\ NothingLeft' = NothingLeft /\ Unmarked' = Unmarked
  BY <1>1, <1>3, <1>4 DEF Apart, Unique, InFile, NothingLeft, Unmarked, P!InstancePids
<1> QED BY <1>1, <1>2, <1>3, <1>5, <1>6 DEF ProcInv, InGoodOrder

(* What is claimed of the processes follows. *)
LEMMA ProcRight ==
    ASSUME ProcInv
    PROVE  P!OnePerInstance /\ P!KnownByPidFile /\ P!StopStops /\ P!AskedFirst /\ P!RevivedIfNothingRan
BY DEF ProcInv, InGoodOrder, P!OnePerInstance, Unique, P!KnownByPidFile, InFile, P!StopStops, NothingLeft, StopDone,
   P!AskedFirst, P!RevivedIfNothingRan

(* However the commands of the operator, a regular sanity, crashes, hangs and restarts for
   memory interleave, the invariant of the processes holds. *)
LEMMA ProcInvariant == ManagementSpec => []ProcInv
<1>1. ManagementInit => ProcInv
  <2>1. SUFFICES ASSUME ManagementInit PROVE ProcInv
    OBVIOUS
  <2>2. PICK stage \in {"none", "off"} : P!InitAs(stage)
    BY <2>1 DEF ManagementInit
  <2> QED BY <2>2, ManagementAssumption, ProcInitial
<1>2. ProcInv /\ [ManagementNext]_<<managed, pVars, qVars>> => ProcInv'
  <2>1. SUFFICES ASSUME ProcInv, [ManagementNext]_<<managed, pVars, qVars>> PROVE ProcInv'
    OBVIOUS
  <2>2. CASE ManageProcesses
    <3>1. P!Next
      BY <2>2 DEF ManageProcesses
    <3> QED BY <2>1, <3>1, ManagementAssumption, ProcStep
  <2>3. CASE ManageQueues \/ UNCHANGED <<managed, pVars, qVars>>
    <3>1. UNCHANGED pVars
      BY <2>3 DEF ManageQueues
    <3>2. UNCHANGED P!prVars
      BY <3>1 DEF pVars, P!prVars
    <3> QED BY <2>1, <3>2, ProcStays
  <2> QED BY <2>1, <2>2, <2>3 DEF ManagementNext
<1> QED BY <1>1, <1>2, PTL DEF ManagementSpec

(* No two processes are the same instance, and each is known by its pid file, whatever
   commands the operator gives beside a regular sanity, and whatever crashes, hangs or restarts
   for memory, as long as no command goes by what is no longer so (run_command, _read_pids,
   _clean_missing_proc_state, sanity). *)
THEOREM InstancesStayKnown == ManagementSpec => []InstancesKnown
<1>1. ProcInv => InstancesKnown
  BY ProcRight DEF InstancesKnown, OnePerInstance, KnownByPidFile
<1> QED BY <1>1, ProcInvariant, PTL

(* Nothing of the configuration runs when stop returns, stop kills nothing it has not asked to
   end, and sanity does not start again what stop has ended, under the same conditions
   (stop, _stop_signal, sanity). *)
THEOREM StopsProperly == ManagementSpec => []StoppedProperly
<1>1. ProcInv => StoppedProperly
  BY ProcRight DEF StoppedProperly, StopStops, AskedFirst, RevivedIfNothingRan
<1> QED BY <1>1, ProcInvariant, PTL

=============================================================================
