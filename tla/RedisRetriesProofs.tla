-------------------------- MODULE RedisRetriesProofs --------------------------
(***************************************************************************)
(* Proofs about the retry queue in Redis and the counting of attempts, for   *)
(* every set of instances and messages, every key, every fault and every     *)
(* retryCountMax.                                                           *)
(***************************************************************************)
EXTENDS RedisQueue, ListLemmas

-----------------------------------------------------------------------------
(* Type correctness, and with it the mutual exclusion of the housekeepings. *)
LEMMA TypeStep == ASSUME TypeOK, [Next]_vars PROVE TypeOK'
<1> USE RedisAssumption DEF TypeOK, lists, own, goto, critical, building
<1>1. CASE UNCHANGED vars
  BY <1>1 DEF vars
<1>2. CASE Elapse \/ Age \/ LockExpire
  BY <1>2, ZenonT(40) DEF Elapse, Age, LockExpire
<1>3. CASE Cleanup
  BY <1>3 DEF Cleanup
<1>4. ASSUME NEW i \in Instance, Put(i) \/ GetCall(i) \/ HkStart(i) PROVE TypeOK'
  <2>1. CASE Put(i)
    <3>1. PICK m \in Message : new' = Append(new, m) /\ owed' = owed \cup {m}
      BY <2>1 DEF Put
    <3>2. new' \in Seq(Message)
      BY <3>1
    <3> QED BY <2>1, <3>1, <3>2 DEF Put
  <2>2. CASE GetCall(i)
    BY <2>2 DEF GetCall
  <2>3. CASE HkStart(i)
    BY <2>3 DEF HkStart
  <2> QED BY <1>4, <2>1, <2>2, <2>3
<1>5. ASSUME NEW i \in Instance, GetPop(i) PROVE TypeOK'
  <2>1. key' \in Seq(Message) /\ owed' \subseteq Message
    <3>1. \/ UNCHANGED <<key, owed>>
          \/ key # <<>> /\ key' = Tail(key) /\ owed' = owed \ {Head(key)}
      BY <1>5 DEF GetPop
    <3>2. key # <<>> => Tail(key) \in Seq(Message)
      BY RangeFacts
    <3> QED BY <3>1, <3>2
  <2>2. pc[i] = "get" /\ (pc' = pc \/ pc' = [pc EXCEPT ![i] = "get"] \/ pc' = [pc EXCEPT ![i] = "idle"])
    BY <1>5 DEF GetPop
  <2>3. UNCHANGED <<new, hk, lock, due, old, own, atRisk, faults>>
    BY <1>5 DEF GetPop
  <2> QED BY <2>1, <2>2, <2>3, ZenonT(30)
<1>6. ASSUME NEW i \in Instance, HkWait(i) \/ HkAcquire(i) \/ HkStamp(i) \/ HkRelease(i) PROVE TypeOK'
  <2>1. CASE HkWait(i)
    BY <2>1 DEF HkWait
  <2>2. CASE HkAcquire(i)
    BY <2>2 DEF HkAcquire
  <2>3. CASE HkStamp(i)
    BY <2>3 DEF HkStamp
  <2>4. CASE HkRelease(i)
    BY <2>4 DEF HkRelease
  <2> QED BY <1>6, <2>1, <2>2, <2>3, <2>4
<1>7. ASSUME NEW i \in Instance, HkTest(i) PROVE TypeOK'
  <2>1. pc[i] = "locked" /\ (pc' = [pc EXCEPT ![i] = "release"] \/ pc' = [pc EXCEPT ![i] = "pop"])
    BY <1>7 DEF HkTest, afterUnfinished
  <2>2. hk' \in Seq(Message) /\ seenOld' \in [Instance -> SUBSET Message]
    <3>1. UNCHANGED <<hk, seenOld>> \/ (seenOld' = [seenOld EXCEPT ![i] = old] /\ hk' = <<>>)
      BY <1>7 DEF HkTest
    <3>2. <<>> \in Seq(Message)
      OBVIOUS
    <3> QED BY <3>1, <3>2
  <2>3. UNCHANGED <<key, new, lock, due, old, hand, N, owed, atRisk>>
    BY <1>7 DEF HkTest
  <2>4. /\ pc' \in [Instance -> critical \cup {"idle", "get", "acquire", "wait", "down"}]
        /\ \A j \in Instance : lock' = j <=> pc'[j] \in critical
        /\ \A j \in Instance : hand'[j] # NoMessage <=> pc'[j] = "push"
    BY <2>1, <2>3, ZenonT(60)
  <2>5. /\ key' \in Seq(Message) /\ new' \in Seq(Message) /\ due' \in BOOLEAN /\ old' \subseteq Message
        /\ hand' \in [Instance -> Message \cup {NoMessage}] /\ N' \in [Instance -> Nat]
        /\ lock' \in Instance \cup {Nobody, Orphan} /\ owed' \subseteq Message /\ atRisk' \subseteq Message
    BY <2>3
  <2> QED BY <2>2, <2>4, <2>5
<1>8. ASSUME NEW i \in Instance, HkPop(i) PROVE TypeOK'
  <2>1. CASE key \o new = <<>>
    BY <1>8, <2>1, ZenonT(40) DEF HkPop
  <2>2. CASE key \o new # <<>>
    <3>1. Head(key \o new) \in Message
      <4>1. key \o new \in Seq(Message)
        OBVIOUS
      <4> QED BY <2>2, <4>1
    <3>2. key = <<>> => new # <<>>
      BY <2>2, ConcatEmptySeq
    <3>3. key' \in Seq(Message) /\ new' \in Seq(Message)
      <4>1. /\ key' = IF key = <<>> THEN key ELSE Tail(key)
            /\ new' = IF key = <<>> THEN Tail(new) ELSE new
        BY <1>8, <2>2 DEF HkPop
      <4> QED BY <3>2, <4>1, RangeFacts
    <3>4. hand' = [hand EXCEPT ![i] = Head(key \o new)] /\ pc' = [pc EXCEPT ![i] = "push"]
      BY <1>8, <2>2 DEF HkPop
    <3> QED BY <1>8, <3>1, <3>3, <3>4 DEF HkPop
  <2> QED BY <2>1, <2>2
<1>9. ASSUME NEW i \in Instance, HkPush(i) PROVE TypeOK'
  <2>1. pc[i] = "push" /\ hand[i] \in Message
    BY <1>9 DEF HkPush
  <2>2. \/ UNCHANGED <<hk, N>> /\ (owed' = owed \/ owed' = owed \ {hand[i]})
        \/ hk' = Append(hk, hand[i]) /\ N' = [N EXCEPT ![i] = @ + 1] /\ UNCHANGED owed
    BY <1>9 DEF HkPush, countPushed
  <2>3. hk' \in Seq(Message) /\ N' \in [Instance -> Nat] /\ owed' \subseteq Message
    <3>1. Append(hk, hand[i]) \in Seq(Message)
      BY <2>1
    <3>2. hk' \in Seq(Message)
      BY <2>2, <3>1
    <3>3. N' \in [Instance -> Nat]
      BY <2>2
    <3>4. owed' \subseteq Message
      BY <2>2
    <3> QED BY <3>2, <3>3, <3>4
  <2>4. hand' = [hand EXCEPT ![i] = NoMessage] /\ pc' = [pc EXCEPT ![i] = "pop"]
    BY <1>9 DEF HkPush
  <2>5. UNCHANGED <<key, new, lock, due, old, seenOld, atRisk>>
    BY <1>9 DEF HkPush
  <2> QED BY <2>1, <2>3, <2>4, <2>5
<1>10. ASSUME NEW i \in Instance, HkException(i) PROVE TypeOK'
  BY <1>10 DEF HkException
<1>11. ASSUME NEW i \in Instance, HkFinish(i) PROVE TypeOK'
  BY <1>11 DEF HkFinish
<1>12. ASSUME NEW i \in Instance, HkRenameFails(i) PROVE TypeOK'
  <2>1. Range(hk) \subseteq Message
    BY RangeOfSeq
  <2> QED BY <1>12, <2>1 DEF HkRenameFails
<1>13. ASSUME NEW i \in Instance, Kill(i) PROVE TypeOK'
  <2>1. Range(hk) \subseteq Message
    BY RangeOfSeq
  <2>2. atRisk' \subseteq Message
    BY <1>13, <2>1 DEF Kill
  <2>3. lock' = (IF lock = i THEN Orphan ELSE lock) /\ pc[i] # "down" /\ pc' = [pc EXCEPT ![i] = "down"]
    BY <1>13 DEF Kill
  <2>4. \A j \in Instance : lock' = j <=> pc'[j] \in critical
    BY <2>3
  <2> QED BY <1>13, <2>2, <2>3, <2>4 DEF Kill
<1>14. ASSUME NEW i \in Instance, Restart(i) PROVE TypeOK'
  BY <1>14 DEF Restart
<1> QED BY <1>1, <1>2, <1>3, <1>4, <1>5, <1>6, <1>7, <1>8, <1>9, <1>10, <1>11, <1>12, <1>13, <1>14
        DEF Next, Continue

-----------------------------------------------------------------------------
(* What a housekeeping under way relies on: key_name stays empty, its list holds each key
   once, and whether it holds any is what N tells. *)
KeysDistinct(s) == \A m, n \in 1 .. Len(s) : m # n => cacheKey[s[m]] # cacheKey[s[n]]

KeysIn(s, C) == \A n \in 1 .. Len(s) : cacheKey[s[n]] \in C

Progress(i) ==
    /\ pc[i] \in building => /\ key = <<>> /\ (N[i] = 0 <=> hk = <<>>)
                             /\ KeysDistinct(hk) /\ KeysIn(hk, retry_cache[i])
    /\ pc[i] \notin building => retry_cache[i] = {} /\ N[i] = 0

BuildInv == retry_cache \in [Instance -> SUBSET {cacheKey[m] : m \in Message}] /\ \A i \in Instance : Progress(i)

(* A list that no housekeeping is building is what a kill or a failing rename left. *)
LeftoversAtRisk == (\A i \in Instance : pc[i] \notin building) => Range(hk) \subseteq atRisk

QInv == TypeOK /\ BuildInv /\ LeftoversAtRisk /\ KeysDistinct(key) /\ LostOnlyInFlight

LEMMA TailDistinct ==
    ASSUME NEW s \in Seq(Message), s # <<>>, KeysDistinct(s)
    PROVE  KeysDistinct(Tail(s))
<1>1. Len(Tail(s)) = Len(s) - 1 /\ Len(s) \in Nat \ {0} /\ \A i \in 1 .. Len(s) - 1 : Tail(s)[i] = s[i + 1]
  OBVIOUS
<1>2. \A i \in 1 .. Len(s) - 1 : i + 1 \in 1 .. Len(s)
  BY <1>1
<1>3. ASSUME NEW m \in 1 .. Len(s) - 1, NEW n \in 1 .. Len(s) - 1, m # n
      PROVE  cacheKey[Tail(s)[m]] # cacheKey[Tail(s)[n]]
  <2>1. m + 1 # n + 1 /\ m + 1 \in 1 .. Len(s) /\ n + 1 \in 1 .. Len(s)
    BY <1>1, <1>3
  <2>2. cacheKey[s[m + 1]] # cacheKey[s[n + 1]]
    BY <2>1 DEF KeysDistinct
  <2> QED BY <1>1, <2>2
<1> QED BY <1>1, <1>3 DEF KeysDistinct

LEMMA AppendDistinct ==
    ASSUME NEW s \in Seq(Message), NEW m \in Message, NEW C, KeysDistinct(s), KeysIn(s, C)
    PROVE  /\ KeysIn(Append(s, m), C \cup {cacheKey[m]})
           /\ cacheKey[m] \notin C => KeysDistinct(Append(s, m))
<1> DEFINE t == Append(s, m)
<1>1. /\ Len(t) = Len(s) + 1 /\ t[Len(s) + 1] = m /\ Len(s) \in Nat
      /\ \A i \in 1 .. Len(s) : t[i] = s[i]
  OBVIOUS
<1> HIDE DEF t
<1>2. \A i \in 1 .. Len(t) : i \in 1 .. Len(s) \/ i = Len(s) + 1
  BY <1>1
<1>3. KeysIn(t, C \cup {cacheKey[m]})
  BY <1>1, <1>2 DEF KeysIn
<1>4. ASSUME cacheKey[m] \notin C, NEW i \in 1 .. Len(t), NEW j \in 1 .. Len(t), i # j
      PROVE  cacheKey[t[i]] # cacheKey[t[j]]
  BY <1>1, <1>2, <1>4 DEF KeysDistinct, KeysIn
<1> QED BY <1>3, <1>4 DEF t, KeysDistinct

(* Only one instance is in its housekeeping. *)
LEMMA OneAtATime ==
    ASSUME TypeOK, NEW i \in Instance, pc[i] \in critical
    PROVE  \A j \in Instance \ {i} : pc[j] \notin building
<1>1. lock = i
  BY DEF TypeOK
<1> QED BY <1>1 DEF TypeOK, critical

LEMMA BuildStep == ASSUME QInv, [Next]_vars PROVE BuildInv'
<1> USE DEF lists, own, goto
<1>a. /\ TypeOK /\ key \in Seq(Message) /\ new \in Seq(Message) /\ hk \in Seq(Message)
      /\ pc \in [Instance -> critical \cup {"idle", "get", "acquire", "wait", "down"}]
      /\ N \in [Instance -> Nat] /\ retry_cache \in [Instance -> SUBSET {cacheKey[m] : m \in Message}]
      /\ \A j \in Instance : Progress(j)
  BY DEF QInv, BuildInv, TypeOK
<1>b. /\ {"idle", "down", "get", "locked", "release", "stamp", "wait", "acquire"} \cap building = {}
      /\ building \subseteq critical /\ "locked" \in critical /\ {"pop", "push", "finish"} = building
  BY DEF building, critical
(* An instance that the step leaves where it is, or outside of the loops, when key_name
   stays empty or is not the concern of any, and the list of housekeeping is the same. *)
<1>1. ASSUME NEW j \in Instance, pc[j] \in building <=> pc'[j] \in building,
             retry_cache'[j] = retry_cache[j], N'[j] = N[j], pc[j] \in building => UNCHANGED <<key, hk>>
      PROVE  Progress(j)'
  <2>1. CASE pc[j] \in building
    BY <1>a, <1>1, <2>1 DEF Progress, KeysDistinct, KeysIn, building
  <2>2. CASE pc[j] \notin building
    BY <1>a, <1>1, <2>2 DEF Progress, building
  <2> QED BY <2>1, <2>2
(* ... and those that are not the owner of the lock. *)
<1>2. ASSUME NEW i \in Instance, pc[i] \in critical, NEW j \in Instance \ {i}, pc'[j] = pc[j],
             retry_cache'[j] = retry_cache[j], N'[j] = N[j]
      PROVE  Progress(j)'
  <2>1. pc[j] \notin building
    BY <1>a, <1>2, OneAtATime
  <2> QED BY <1>1, <1>2, <2>1
<1>3. CASE UNCHANGED vars \/ Elapse \/ Age \/ LockExpire
  <2>1. UNCHANGED <<key, hk, retry_cache, N, pc>>
    BY <1>3 DEF vars, Elapse, Age, LockExpire
  <2> QED BY <1>a, <1>1, <2>1 DEF BuildInv
<1>4. CASE Cleanup
  <2>1. UNCHANGED <<pc, retry_cache, N>> /\ \A j \in Instance : pc[j] = "down"
    BY <1>4 DEF Cleanup
  <2> QED BY <1>a, <1>b, <1>1, <2>1 DEF BuildInv
<1>5. ASSUME NEW i \in Instance, Put(i) \/ GetCall(i) \/ HkStart(i) \/ HkWait(i) \/ HkAcquire(i) \/ HkStamp(i) \/ HkRelease(i) \/ Restart(i)
      PROVE  BuildInv'
  <2>1. UNCHANGED <<key, hk, retry_cache, N>>
    BY <1>5 DEF Put, GetCall, HkStart, HkWait, HkAcquire, HkStamp, HkRelease, Restart
  <2>2. pc[i] \notin building /\ \E to \in {"idle", "get", "acquire", "wait", "locked", "release"} : pc' = pc \/ pc' = [pc EXCEPT ![i] = to]
    BY <1>5, <1>b DEF Put, GetCall, HkStart, HkWait, HkAcquire, HkStamp, HkRelease, Restart
  <2>3. \A j \in Instance : pc[j] \in building <=> pc'[j] \in building
    BY <1>a, <1>b, <2>2
  <2> QED BY <1>a, <1>1, <2>1, <2>3 DEF BuildInv
<1>6. ASSUME NEW i \in Instance, GetPop(i) PROVE BuildInv'
  <2>1. UNCHANGED <<hk, retry_cache, N>>
    BY <1>6 DEF GetPop
  <2>2. pc[i] = "get" /\ \E to \in {"idle", "get"} : pc' = pc \/ pc' = [pc EXCEPT ![i] = to]
    BY <1>6 DEF GetPop
  <2>3. key = <<>> => key' = key
    BY <1>6 DEF GetPop
  <2>4. \A j \in Instance : pc[j] \in building <=> pc'[j] \in building
    BY <1>a, <1>b, <2>2
  <2>5. \A j \in Instance : pc[j] \in building => key = <<>>
    BY <1>a DEF Progress
  <2> QED BY <1>a, <1>1, <2>1, <2>3, <2>4, <2>5 DEF BuildInv
<1>7. ASSUME NEW i \in Instance, HkTest(i) PROVE BuildInv'
  <2>1. pc[i] = "locked" /\ pc[i] \notin building /\ pc[i] \in critical /\ UNCHANGED <<key, retry_cache, N>>
    BY <1>7, <1>b DEF HkTest
  <2>2. \A j \in Instance \ {i} : Progress(j)'
    <3>1. \A j \in Instance \ {i} : pc'[j] = pc[j]
      BY <1>a, <1>7 DEF HkTest
    <3> QED BY <1>2, <2>1, <3>1
  <2>3. retry_cache[i] = {} /\ N[i] = 0
    BY <1>a, <2>1 DEF Progress
  <2>4. Progress(i)'
    <3>1. CASE unfinished
      BY <1>a, <1>b, <1>7, <2>1, <2>3, <3>1 DEF HkTest, afterUnfinished, Progress
    <3>2. CASE ~ unfinished
      <4>1. key' = <<>> /\ hk' = <<>> /\ pc'[i] = "pop" /\ retry_cache'[i] = {} /\ N'[i] = 0
        BY <1>a, <1>7, <2>1, <2>3, <3>2 DEF HkTest, unfinished
      <4>2. KeysDistinct(hk)' /\ KeysIn(hk, retry_cache[i])'
        BY <4>1 DEF KeysDistinct, KeysIn
      <4> QED BY <1>b, <4>1, <4>2 DEF Progress, building
    <3> QED BY <3>1, <3>2
  <2> QED BY <1>a, <2>1, <2>2, <2>4 DEF BuildInv
<1>8. ASSUME NEW i \in Instance, HkPop(i) \/ HkException(i) PROVE BuildInv'
  <2>1. pc[i] \in building /\ UNCHANGED <<hk, retry_cache, N>>
    BY <1>8, <1>b DEF HkPop, HkException
  <2>2. key = <<>> /\ key' = key
    BY <1>8, <1>a, <2>1 DEF Progress, HkPop, HkException
  <2>3. \E to \in building : pc' = [pc EXCEPT ![i] = to]
    BY <1>8, <1>b DEF HkPop, HkException
  <2>4. \A j \in Instance : pc[j] \in building <=> pc'[j] \in building
    BY <1>a, <1>b, <2>1, <2>3
  <2> QED BY <1>a, <1>1, <2>1, <2>2, <2>4 DEF BuildInv
<1>9. ASSUME NEW i \in Instance, HkPush(i) PROVE BuildInv'
  <2>1. pc[i] = "push" /\ pc[i] \in building /\ pc[i] \in critical /\ pc' = [pc EXCEPT ![i] = "pop"] /\ UNCHANGED key
    BY <1>9, <1>b DEF HkPush
  <2>2. hand[i] \in Message
    BY <1>a, <2>1 DEF TypeOK
  <2>3. key = <<>> /\ (N[i] = 0 <=> hk = <<>>) /\ KeysDistinct(hk) /\ KeysIn(hk, retry_cache[i])
    BY <1>a, <2>1 DEF Progress
  <2>4. retry_cache' = [retry_cache EXCEPT ![i] = @ \cup {cacheKey[hand[i]]}]
    BY <1>9 DEF HkPush
  <2>5. \/ UNCHANGED <<hk, N>>
        \/ cacheKey[hand[i]] \notin retry_cache[i] /\ hk' = Append(hk, hand[i]) /\ N' = [N EXCEPT ![i] = @ + 1]
    BY <1>9 DEF HkPush, countPushed, _in_cache
  <2>6. \A j \in Instance \ {i} : Progress(j)'
    <3>1. \A j \in Instance \ {i} : pc'[j] = pc[j] /\ retry_cache'[j] = retry_cache[j] /\ N'[j] = N[j]
      BY <1>a, <2>1, <2>4, <2>5
    <3> QED BY <1>2, <2>1, <3>1
  <2>7. retry_cache'[i] = retry_cache[i] \cup {cacheKey[hand[i]]}
    BY <1>a, <2>4
  <2>8. (N[i] = 0 <=> hk = <<>>)' /\ KeysDistinct(hk)' /\ KeysIn(hk, retry_cache[i])'
    <3>1. CASE UNCHANGED <<hk, N>>
      BY <2>3, <2>7, <3>1 DEF KeysDistinct, KeysIn
    <3>2. CASE cacheKey[hand[i]] \notin retry_cache[i] /\ hk' = Append(hk, hand[i]) /\ N' = [N EXCEPT ![i] = @ + 1]
      <4>1. hk' # <<>>
        <5>1. hk \in Seq(Message)
          BY <1>a DEF TypeOK
        <5>2. Len(Append(hk, hand[i])) = Len(hk) + 1 /\ Len(hk) \in Nat
          BY <2>2, <5>1
        <5> QED BY <3>2, <5>2
      <4>2. N'[i] = N[i] + 1 /\ N[i] \in Nat
        BY <1>a, <3>2
      <4>3. KeysDistinct(Append(hk, hand[i])) /\ KeysIn(Append(hk, hand[i]), retry_cache[i] \cup {cacheKey[hand[i]]})
        BY <1>a, <2>2, <2>3, <3>2, AppendDistinct
      <4>4. KeysDistinct(hk)' /\ KeysIn(hk, retry_cache[i])'
        BY <2>7, <3>2, <4>3 DEF KeysDistinct, KeysIn
      <4>5. (N[i] = 0 <=> hk = <<>>)'
        BY <4>1, <4>2
      <4> QED BY <4>4, <4>5
    <3> QED BY <2>5, <3>1, <3>2
  <2>9. pc'[i] \in building /\ key' = <<>>
    BY <1>a, <1>b, <2>1, <2>3
  <2>10. Progress(i)'
    BY <2>8, <2>9 DEF Progress, building
  <2>11. retry_cache' \in [Instance -> SUBSET {cacheKey[m] : m \in Message}]
    BY <1>a, <2>2, <2>4
  <2> QED BY <2>6, <2>10, <2>11 DEF BuildInv
<1>10. ASSUME NEW i \in Instance, HkFinish(i) \/ HkRenameFails(i) \/ Kill(i) PROVE BuildInv'
  <2>1. /\ retry_cache' = [retry_cache EXCEPT ![i] = {}] /\ N' = [N EXCEPT ![i] = 0]
        /\ pc' = [pc EXCEPT ![i] = "stamp"] \/ pc' = [pc EXCEPT ![i] = "down"]
    BY <1>10 DEF HkFinish, HkRenameFails, Kill
  <2>2. retry_cache' \in [Instance -> SUBSET {cacheKey[m] : m \in Message}]
    BY <1>a, <2>1
  <2>3. Progress(i)'
    <3>1. pc'[i] \notin building /\ retry_cache'[i] = {} /\ N'[i] = 0
      BY <1>a, <1>b, <2>1
    <3> QED BY <3>1 DEF Progress, building
  <2>4. \A j \in Instance \ {i} : pc'[j] = pc[j] /\ retry_cache'[j] = retry_cache[j] /\ N'[j] = N[j]
    BY <1>a, <2>1
  <2>5. \A j \in Instance \ {i} : Progress(j)'
    <3>1. CASE HkFinish(i) \/ HkRenameFails(i)
      <4>1. pc[i] \in critical
        BY <1>b, <3>1 DEF HkFinish, HkRenameFails
      <4> QED BY <1>2, <2>4, <4>1
    <3>2. CASE Kill(i)
      <4>1. UNCHANGED <<key, hk>>
        BY <3>2 DEF Kill
      <4> QED BY <1>1, <2>4, <4>1
    <3> QED BY <1>10, <3>1, <3>2
  <2> QED BY <2>2, <2>3, <2>5 DEF BuildInv
<1> QED BY <1>3, <1>4, <1>5, <1>6, <1>7, <1>8, <1>9, <1>10 DEF Next, Continue

LEMMA LeftoversStep == ASSUME QInv, [Next]_vars PROVE LeftoversAtRisk'
<1> USE DEF lists, own, goto
<1>a. TypeOK /\ LeftoversAtRisk /\ BuildInv /\ hk \in Seq(Message) /\ N \in [Instance -> Nat]
      /\ pc \in [Instance -> critical \cup {"idle", "get", "acquire", "wait", "down"}]
  BY DEF QInv, TypeOK
<1>b. /\ {"idle", "down", "get", "locked", "release", "stamp", "wait", "acquire"} \cap building = {}
      /\ building \subseteq critical /\ "locked" \in critical /\ {"pop", "push", "finish"} = building
  BY DEF building, critical
(* Steps that leave the list alone and end no housekeeping that builds one. *)
<1>1. ASSUME UNCHANGED hk, atRisk \subseteq atRisk', \A j \in Instance : pc[j] \in building => pc'[j] \in building
      PROVE  LeftoversAtRisk'
  BY <1>a, <1>1 DEF LeftoversAtRisk, building
<1>2. ASSUME hk' = <<>> PROVE LeftoversAtRisk'
  BY <1>2, <1>a, RangeFacts DEF LeftoversAtRisk
<1>3. CASE UNCHANGED vars \/ Elapse \/ Age \/ LockExpire
  BY <1>1, <1>3 DEF vars, Elapse, Age, LockExpire
<1>4. CASE Cleanup
  BY <1>2, <1>4 DEF Cleanup
<1>5. ASSUME NEW i \in Instance, Put(i) \/ GetCall(i) \/ GetPop(i) \/ HkStart(i) \/ HkWait(i) \/ HkAcquire(i) \/ HkStamp(i) \/ HkRelease(i) \/ Restart(i)
      PROVE  LeftoversAtRisk'
  <2>1. UNCHANGED <<hk, atRisk>>
    BY <1>5 DEF Put, GetCall, GetPop, HkStart, HkWait, HkAcquire, HkStamp, HkRelease, Restart
  <2>2. pc[i] \notin building
    BY <1>5, <1>b DEF Put, GetCall, GetPop, HkStart, HkWait, HkAcquire, HkStamp, HkRelease, Restart
  <2>3. \E to : pc' = pc \/ pc' = [pc EXCEPT ![i] = to]
    BY <1>5 DEF Put, GetCall, GetPop, HkStart, HkWait, HkAcquire, HkStamp, HkRelease, Restart
  <2>4. \A j \in Instance : pc[j] \in building => pc'[j] \in building
    BY <1>a, <2>2, <2>3
  <2> QED BY <1>1, <2>1, <2>4
<1>6. ASSUME NEW i \in Instance, HkTest(i) PROVE LeftoversAtRisk'
  <2>1. CASE unfinished
    <3>1. UNCHANGED <<hk, atRisk>> /\ pc[i] = "locked" /\ pc' = [pc EXCEPT ![i] = "release"]
      BY <1>6, <2>1 DEF HkTest, afterUnfinished
    <3>2. \A j \in Instance : pc[j] \in building => pc'[j] \in building
      BY <1>a, <1>b, <3>1
    <3> QED BY <1>1, <3>1, <3>2
  <2>2. CASE ~ unfinished
    BY <1>2, <1>6, <2>2 DEF HkTest
  <2> QED BY <2>1, <2>2
<1>7. ASSUME NEW i \in Instance, HkPop(i) \/ HkPush(i) \/ HkException(i) PROVE LeftoversAtRisk'
  <2>1. \E to \in building : pc' = [pc EXCEPT ![i] = to]
    BY <1>7, <1>b DEF HkPop, HkPush, HkException
  <2>2. pc'[i] \in building
    BY <1>a, <2>1
  <2> QED BY <2>2 DEF LeftoversAtRisk, building
<1>8. ASSUME NEW i \in Instance, HkFinish(i) PROVE LeftoversAtRisk'
  BY <1>2, <1>8 DEF HkFinish
<1>9. ASSUME NEW i \in Instance, HkRenameFails(i) PROVE LeftoversAtRisk'
  BY <1>9 DEF HkRenameFails, LeftoversAtRisk
<1>10. ASSUME NEW i \in Instance, Kill(i) PROVE LeftoversAtRisk'
  <2>1. UNCHANGED hk /\ atRisk \subseteq atRisk' /\ pc' = [pc EXCEPT ![i] = "down"]
        /\ (pc[i] \in building => Range(hk) \subseteq atRisk')
    BY <1>10 DEF Kill
  <2>2. CASE pc[i] \in building
    BY <2>1, <2>2 DEF LeftoversAtRisk
  <2>3. CASE pc[i] \notin building
    <3>1. \A j \in Instance : pc[j] \in building => pc'[j] \in building
      BY <1>a, <2>1, <2>3
    <3> QED BY <1>1, <2>1, <3>1
  <2> QED BY <2>2, <2>3
<1> QED BY <1>3, <1>4, <1>5, <1>6, <1>7, <1>8, <1>9, <1>10 DEF Next, Continue

(* Only a pop and the rename that ends a housekeeping change key_name. *)
LEMMA OfferedStep == ASSUME QInv, [Next]_vars PROVE KeysDistinct(key)'
<1> USE DEF lists, own, goto
<1>a. TypeOK /\ BuildInv /\ KeysDistinct(key) /\ key \in Seq(Message)
  BY DEF QInv, TypeOK
<1>1. ASSUME UNCHANGED key PROVE KeysDistinct(key)'
  BY <1>a, <1>1 DEF KeysDistinct
<1>2. ASSUME key' = <<>> PROVE KeysDistinct(key)'
  BY <1>2 DEF KeysDistinct
<1>3. CASE UNCHANGED vars \/ Elapse \/ Age \/ LockExpire
  BY <1>1, <1>3 DEF vars, Elapse, Age, LockExpire
<1>4. CASE Cleanup
  BY <1>2, <1>4 DEF Cleanup
<1>5. ASSUME NEW i \in Instance,
             \/ Put(i) \/ GetCall(i) \/ HkStart(i) \/ HkWait(i) \/ HkAcquire(i) \/ HkTest(i) \/ HkPush(i)
             \/ HkStamp(i) \/ HkRelease(i) \/ HkException(i) \/ HkRenameFails(i) \/ Kill(i) \/ Restart(i)
      PROVE  KeysDistinct(key)'
  <2>1. UNCHANGED key
    BY <1>5 DEF Put, GetCall, HkStart, HkWait, HkAcquire, HkTest, HkPush, HkStamp, HkRelease,
                HkException, HkRenameFails, Kill, Restart
  <2> QED BY <1>1, <2>1
<1>6. ASSUME NEW i \in Instance, GetPop(i) \/ HkPop(i) PROVE KeysDistinct(key)'
  <2>1. UNCHANGED key \/ (key # <<>> /\ key' = Tail(key))
    BY <1>6 DEF GetPop, HkPop
  <2>2. key # <<>> => KeysDistinct(Tail(key))
    BY <1>a, TailDistinct
  <2> QED BY <1>1, <2>1, <2>2 DEF KeysDistinct
<1>7. ASSUME NEW i \in Instance, HkFinish(i) PROVE KeysDistinct(key)'
  <2>1. key' = key \/ key' = hk
    BY <1>7 DEF HkFinish
  <2>2. KeysDistinct(hk)
    BY <1>a, <1>7 DEF HkFinish, BuildInv, Progress, building
  <2> QED BY <1>1, <2>1, <2>2 DEF KeysDistinct
<1> QED BY <1>3, <1>4, <1>5, <1>6, <1>7 DEF Next, Continue

LEMMA InFlightStep == ASSUME QInv, [Next]_vars PROVE LostOnlyInFlight'
<1> USE DEF lists, own, goto
<1>a. /\ TypeOK /\ BuildInv /\ LeftoversAtRisk /\ owed \subseteq Queued \cup atRisk
      /\ key \in Seq(Message) /\ new \in Seq(Message) /\ hk \in Seq(Message)
      /\ hand \in [Instance -> Message \cup {NoMessage}]
  BY DEF QInv, TypeOK, LostOnlyInFlight
<1> DEFINE hands == {hand[i] : i \in Instance} \ {NoMessage}
<1>b. Queued = Range(key) \cup Range(new) \cup Range(hk) \cup hands
  BY DEF Queued
<1>c. Queued' = Range(key') \cup Range(new') \cup Range(hk') \cup hands'
  BY DEF Queued
<1>d. Range(<<>>) = {}
  BY <1>a, RangeFacts
<1> HIDE DEF hands
(* The hands of the others are not touched. *)
<1>e. ASSUME NEW i \in Instance, NEW x, hand' = [hand EXCEPT ![i] = x]
      PROVE  hands \subseteq hands' \cup ({hand[i]} \ {NoMessage}) /\ (x # NoMessage => x \in hands')
  BY <1>a, <1>e DEF hands
<1>1. ASSUME UNCHANGED <<key, new, hk, hand, owed>>, atRisk \subseteq atRisk' PROVE LostOnlyInFlight'
  <2>1. Queued' = Queued
    BY <1>1 DEF Queued
  <2> QED BY <1>a, <1>1, <2>1 DEF LostOnlyInFlight
<1>2. CASE UNCHANGED vars \/ Elapse \/ Age \/ LockExpire
  BY <1>1, <1>2 DEF vars, Elapse, Age, LockExpire
<1>3. CASE Cleanup
  BY <1>3 DEF Cleanup, LostOnlyInFlight
<1>4. ASSUME NEW i \in Instance, GetCall(i) \/ HkStart(i) \/ HkWait(i) \/ HkAcquire(i) \/ HkStamp(i) \/ HkRelease(i) \/ HkRenameFails(i) \/ Restart(i)
      PROVE  LostOnlyInFlight'
  <2>1. UNCHANGED <<key, new, hk, hand, owed>> /\ atRisk \subseteq atRisk'
    BY <1>4 DEF GetCall, HkStart, HkWait, HkAcquire, HkStamp, HkRelease, HkRenameFails, Restart
  <2> QED BY <1>1, <2>1
<1>5. ASSUME NEW i \in Instance, Put(i) PROVE LostOnlyInFlight'
  <2>1. PICK m \in Message : new' = Append(new, m) /\ owed' = owed \cup {m}
    BY <1>5 DEF Put
  <2>2. UNCHANGED <<key, hk, hand, atRisk>>
    BY <1>5 DEF Put
  <2>3. Range(new') = Range(new) \cup {m}
    BY <1>a, <2>1, RangeFacts
  <2>4. hands' = hands
    BY <2>2 DEF hands
  <2> QED BY <1>a, <1>b, <1>c, <2>1, <2>2, <2>3, <2>4 DEF LostOnlyInFlight
<1>6. ASSUME NEW i \in Instance, GetPop(i) PROVE LostOnlyInFlight'
  <2>1. UNCHANGED <<new, hk, hand, atRisk>>
    BY <1>6 DEF GetPop
  <2>2. UNCHANGED <<key, owed>> \/ (key # <<>> /\ key' = Tail(key) /\ owed' = owed \ {Head(key)})
    BY <1>6 DEF GetPop
  <2>3. key # <<>> => Range(key) = {Head(key)} \cup Range(Tail(key))
    BY <1>a, RangeFacts
  <2>4. hands' = hands
    BY <2>1 DEF hands
  <2> QED BY <1>a, <1>b, <1>c, <2>1, <2>2, <2>3, <2>4 DEF LostOnlyInFlight
<1>7. ASSUME NEW i \in Instance, HkTest(i) PROVE LostOnlyInFlight'
  <2>1. UNCHANGED <<key, new, hand, owed, atRisk>> /\ pc[i] = "locked" /\ (hk' = hk \/ hk' = <<>>)
    BY <1>7 DEF HkTest
  <2>2. pc[i] \in critical /\ pc[i] \notin building
    BY <2>1 DEF critical, building
  <2>3. Range(hk) \subseteq atRisk
    BY <1>a, <2>2, OneAtATime DEF LeftoversAtRisk
  <2>4. hands' = hands
    BY <2>1 DEF hands
  <2> QED BY <1>a, <1>b, <1>c, <1>d, <2>1, <2>3, <2>4 DEF LostOnlyInFlight
<1>8. ASSUME NEW i \in Instance, HkPop(i) PROVE LostOnlyInFlight'
  <2>1. UNCHANGED <<hk, owed, atRisk>> /\ pc[i] = "pop"
    BY <1>8 DEF HkPop
  <2>2. key = <<>> /\ hand[i] = NoMessage
    <3>1. key = <<>>
      BY <1>a, <2>1 DEF BuildInv, Progress, building
    <3>2. hand[i] = NoMessage
      BY <1>a, <2>1 DEF TypeOK
    <3> QED BY <3>1, <3>2
  <2>3. key \o new = new
    BY <1>a, <2>2, ConcatEmptySeq
  <2>4. CASE new = <<>>
    BY <1>1, <1>8, <2>1, <2>3, <2>4 DEF HkPop
  <2>5. CASE new # <<>>
    <3>1. hand' = [hand EXCEPT ![i] = Head(new)] /\ key' = key /\ new' = Tail(new)
      BY <1>8, <2>2, <2>3, <2>5 DEF HkPop
    <3>2. Head(new) \in Message /\ Range(new) = {Head(new)} \cup Range(Tail(new))
      BY <1>a, <2>5, RangeFacts
    <3>3. hands \subseteq hands' /\ Head(new) \in hands'
      BY <1>e, <2>2, <3>1, <3>2, RedisAssumption
    <3> QED BY <1>a, <1>b, <1>c, <2>1, <3>1, <3>2, <3>3 DEF LostOnlyInFlight
  <2> QED BY <2>4, <2>5
<1>9. ASSUME NEW i \in Instance, HkPush(i) PROVE LostOnlyInFlight'
  <2>1. UNCHANGED <<key, new, atRisk>> /\ pc[i] = "push" /\ hand' = [hand EXCEPT ![i] = NoMessage]
    BY <1>9 DEF HkPush
  <2>2. hand[i] \in Message
    BY <1>a, <2>1 DEF TypeOK
  <2>3. \/ UNCHANGED hk /\ owed' = IF hand[i] \in Range(hk) THEN owed ELSE owed \ {hand[i]}
        \/ hk' = Append(hk, hand[i]) /\ UNCHANGED owed
    BY <1>9 DEF HkPush
  <2>4. Range(Append(hk, hand[i])) = Range(hk) \cup {hand[i]}
    BY <1>a, <2>2, RangeFacts
  <2>5. hands \subseteq hands' \cup {hand[i]}
    BY <1>e, <2>1
  <2> QED BY <1>a, <1>b, <1>c, <2>1, <2>3, <2>4, <2>5 DEF LostOnlyInFlight
<1>10. ASSUME NEW i \in Instance, HkException(i) PROVE LostOnlyInFlight'
  <2>1. /\ UNCHANGED <<key, new, hk, owed>> /\ hand' = [hand EXCEPT ![i] = NoMessage]
        /\ atRisk' = atRisk \cup ({hand[i]} \ {NoMessage})
    BY <1>10 DEF HkException
  <2>2. hands \subseteq hands' \cup ({hand[i]} \ {NoMessage})
    BY <1>e, <2>1
  <2> QED BY <1>a, <1>b, <1>c, <2>1, <2>2 DEF LostOnlyInFlight
<1>11. ASSUME NEW i \in Instance, HkFinish(i) PROVE LostOnlyInFlight'
  <2>1. UNCHANGED <<new, hand, owed, atRisk>> /\ pc[i] = "finish" /\ hk' = <<>> /\ key' = IF N[i] = 0 THEN key ELSE hk
    BY <1>11 DEF HkFinish
  <2>2. key = <<>> /\ (N[i] = 0 <=> hk = <<>>)
    BY <1>a, <2>1 DEF BuildInv, Progress, building
  <2>3. hands' = hands /\ Range(key') = Range(hk) /\ Range(key) = {}
    BY <1>d, <2>1, <2>2 DEF hands
  <2> QED BY <1>a, <1>b, <1>c, <2>1, <2>3 DEF LostOnlyInFlight
<1>12. ASSUME NEW i \in Instance, Kill(i) PROVE LostOnlyInFlight'
  <2>1. /\ UNCHANGED <<key, new, hk, owed>> /\ hand' = [hand EXCEPT ![i] = NoMessage]
        /\ atRisk \cup ({hand[i]} \ {NoMessage}) \subseteq atRisk'
    BY <1>12 DEF Kill
  <2>2. hands \subseteq hands' \cup ({hand[i]} \ {NoMessage})
    BY <1>e, <2>1
  <2> QED BY <1>a, <1>b, <1>c, <2>1, <2>2 DEF LostOnlyInFlight
<1> QED BY <1>2, <1>3, <1>4, <1>5, <1>6, <1>7, <1>8, <1>9, <1>10, <1>11, <1>12 DEF Next, Continue

LEMMA QueueInit == Init => QInv
<1> SUFFICES ASSUME Init PROVE QInv
  OBVIOUS
<1>1. TypeOK
  <2>1. \A i \in Instance : pc[i] = "idle" /\ hand[i] = NoMessage /\ lock # i
    BY RedisAssumption DEF Init
  <2>2. "idle" \notin critical /\ "idle" # "push"
    BY DEF critical, building
  <2>3. key \in Seq(Message) /\ new \in Seq(Message) /\ hk \in Seq(Message)
    BY DEF Init
  <2>4. /\ seenOld \in [Instance -> SUBSET Message] /\ hand \in [Instance -> Message \cup {NoMessage}]
        /\ N \in [Instance -> Nat] /\ pc \in [Instance -> critical \cup {"idle", "get", "acquire", "wait", "down"}]
    BY DEF Init
  <2>5. due \in BOOLEAN /\ old \subseteq Message /\ owed \subseteq Message /\ atRisk \subseteq Message
        /\ lock \in Instance \cup {Nobody, Orphan}
    BY DEF Init
  <2> QED BY <2>1, <2>2, <2>3, <2>4, <2>5 DEF TypeOK
<1>2. BuildInv
  BY DEF Init, BuildInv, Progress, building
<1>3. LeftoversAtRisk /\ LostOnlyInFlight /\ KeysDistinct(key)
  <2>1. key = <<>> /\ hk = <<>> /\ owed = {}
    BY DEF Init
  <2>2. Range(<<>>) = {}
    BY DEF Range
  <2> QED BY <2>1, <2>2 DEF LeftoversAtRisk, LostOnlyInFlight, KeysDistinct
<1> QED BY <1>1, <1>2, <1>3 DEF QInv

LEMMA QueueStep == ASSUME QInv, [Next]_vars PROVE QInv'
<1>1. TypeOK'
  BY TypeStep DEF QInv
<1> QED BY <1>1, BuildStep, LeftoversStep, OfferedStep, InFlightStep DEF QInv

(* The queue, and the behaviours in which nobody uses it. *)
SharedInv == /\ stage = "off" => QInv
             /\ stage # "off" => owed = {} /\ key = <<>>

LEMMA SharedInvariant == RedisRetriesSpec => []SharedInv
<1>1. RedisRetriesInit => SharedInv
  BY QueueInit DEF RedisRetriesInit, SharedInv, QueueOff, Counting!Off, Counting!Init
<1>2. SharedInv /\ [RedisRetriesNext]_<<vars, counting>> => SharedInv'
  <2> SUFFICES ASSUME SharedInv, [RedisRetriesNext]_<<vars, counting>> PROVE SharedInv'
    OBVIOUS
  <2>1. CASE stage = "off" /\ Next /\ UNCHANGED counting
    BY <2>1, QueueStep DEF SharedInv, counting
  <2>2. CASE stage # "off" /\ Counting!Next /\ UNCHANGED vars
    <3>1. stage' # "off"
      BY <2>2 DEF Counting!Next, Counting!Pass, Counting!Gather, Counting!AfterAccept, Counting!Work,
                  Counting!AfterWork, Counting!Post, Counting!AfterPost, Counting!NextPass, Counting!Housekeeping
    <3> QED BY <2>2, <3>1 DEF SharedInv, vars, lists
  <2>3. CASE UNCHANGED <<vars, counting>>
    <3>1. UNCHANGED <<owed, key, stage>> /\ UNCHANGED vars
      BY <2>3 DEF vars, lists, counting
    <3>2. stage = "off" => QInv'
      BY <3>1, QueueStep DEF SharedInv
    <3> QED BY <3>1, <3>2 DEF SharedInv
  <2> QED BY <2>1, <2>2, <2>3 DEF RedisRetriesNext
<1> QED BY <1>1, <1>2, PTL DEF RedisRetriesSpec

(* However the instances interleave, and whichever of them are killed or fail in the middle
   of a housekeeping, nothing is lost but what that housekeeping had already moved. *)
THEOREM NothingElseLost == RedisRetriesSpec => []LostOnlyInFlight
<1>1. SharedInv => LostOnlyInFlight
  BY DEF SharedInv, QInv, LostOnlyInFlight
<1> QED BY <1>1, SharedInvariant, PTL

(* The list that is offered for retry holds each key once, whatever the instances did
   meanwhile. *)
THEOREM OfferedOnce == RedisRetriesSpec => []OfferedKeysDistinct
<1>1. SharedInv => OfferedKeysDistinct
  BY DEF SharedInv, QInv, OfferedKeysDistinct, KeysDistinct
<1> QED BY <1>1, SharedInvariant, PTL

-----------------------------------------------------------------------------
(* How often a message is tried.  Every attempt is counted twice in _isRetry, or was counted
   before it, and a message whose count exceeds retryCountMax has left the queues. *)
CanBeTried(m) ==
    /\ retries[m] <= o.retryCountMax /\ reposts[m] <= o.retryCountMax
    /\ place[m] \notin Counting!Settled =>
          isRetry[m] <= o.retryCountMax /\ retries[m] + reposts[m] <= isRetry[m]
    /\ place[m] \in Counting!PostQueue => retries[m] + reposts[m] < isRetry[m]

Counts == <<isRetry, retries, reposts>>

TriedInv ==
    /\ o \in RetrySettings
    /\ \A f \in {isRetry, retries, reposts} : f \in [Message -> Nat]
    /\ o.retryCountMax > 0 /\ ~o.retry_refilter => \A m \in Message : CanBeTried(m)

(* With retry_refilter off, gather gets nothing from the queue. *)
LEMMA SameCardinality == \A S : Counting!Cardinality(S) = Cardinality(S)
BY DEF Counting!Cardinality, Cardinality

LEMMA NothingGot ==
    ASSUME NEW p, NEW S \in Counting!Got(p, 0)
    PROVE  S = {}
<1>1. Counting!At(p) \in SUBSET Message /\ IsFiniteSet(Counting!At(p))
  <2>1. Counting!At(p) \in SUBSET Message
    BY DEF Counting!At
  <2> QED BY <2>1, FS_Subset, RetriesAssumption
<1> HIDE DEF Counting!At
<1>2. S \in {T \in SUBSET Counting!At(p) : Cardinality(T) = Counting!UpTo(Cardinality(Counting!At(p)), 0)}
  BY SameCardinality DEF Counting!Got
<1>3. S \in SUBSET Counting!At(p) /\ Cardinality(S) = Counting!UpTo(Cardinality(Counting!At(p)), 0)
  BY <1>2, Zenon
<1>4. Cardinality(Counting!At(p)) \in Nat /\ IsFiniteSet(S)
  BY <1>1, <1>3, FS_CardinalityType, FS_Subset
<1>5. Counting!UpTo(Cardinality(Counting!At(p)), 0) = 0
  BY <1>4 DEF Counting!UpTo
<1>6. Cardinality(S) = 0
  BY <1>3, <1>5
<1> QED BY <1>4, <1>6, FS_EmptySet

(* One more attempt, below the cap of the histories. *)
LEMMA CountOne ==
    ASSUME NEW n \in Nat, o.retryCountMax \in Nat, n <= o.retryCountMax
    PROVE  Counting!UpTo(n + 1, Counting!Enough) = n + 1 /\ Counting!SetIsRetry(n) = n + 1
BY DEF Counting!UpTo, Counting!Enough, Counting!SetIsRetry

LEMMA CountTypes ==
    ASSUME o.retryCountMax \in Nat, NEW f \in [Message -> Nat], isRetry \in [Message -> Nat], NEW S
    PROVE  Counting!MoreOf(f, S) \in [Message -> Nat] /\ Counting!Counted(S) \in [Message -> Nat]
<1>1. \A n \in Nat : Counting!UpTo(n + 1, Counting!Enough) \in Nat
  BY DEF Counting!UpTo, Counting!Enough
<1> QED BY <1>1 DEF Counting!MoreOf, Counting!Counted, Counting!SetIsRetry

(* A message stays what it was for the counts. *)
LEMMA SameCounts ==
    ASSUME NEW m \in Message, CanBeTried(m), o' = o,
           isRetry'[m] = isRetry[m], retries'[m] = retries[m], reposts'[m] = reposts[m],
           \/ place'[m] = place[m]
           \/ place[m] \notin Counting!Settled /\ place'[m] \notin Counting!PostQueue
           \/ place[m] \in Counting!PostQueue /\ place'[m] \in Counting!PostQueue \cup Counting!Settled
           \/ place'[m] \in Counting!Settled
    PROVE  CanBeTried(m)'
BY DEF CanBeTried, Counting!Settled, Counting!PostQueue

(* A message is counted when it is put in a queue, or taken from the queue of failed
   transfers, and is given up if it then counts too much. *)
LEMMA CountedRight ==
    ASSUME NEW m \in Message, NEW S, NEW to, m \in S, CanBeTried(m), place[m] \notin Counting!Settled,
           o.retryCountMax \in Nat, o.retryCountMax > 0, isRetry[m] \in Nat
    PROVE  /\ Counting!Counted(S)[m] = isRetry[m] + 1
           /\ Counting!Kept(place, S, to)[m] = IF isRetry[m] + 1 > o.retryCountMax THEN "gave up" ELSE to
<1>1. isRetry[m] <= o.retryCountMax
  BY DEF CanBeTried
<1>2. Counting!SetIsRetry(isRetry[m]) = isRetry[m] + 1
  BY <1>1, CountOne
<1> QED BY <1>2 DEF Counting!Counted, Counting!Kept, Counting!GivesUp

LEMMA Sums ==
    \A a, b, c, d \in Nat :
        /\ a + b <= c /\ c <= d => a + b < c + 1 /\ a + b <= c + 1
        /\ a + b < c /\ c <= d => b + 1 <= d /\ a + (b + 1) <= c
        /\ ~(c + 1 > d) => c + 1 <= d
BY SMT

LEMMA CountedOnce ==
    ASSUME NEW m \in Message, CanBeTried(m), place[m] \notin Counting!Settled, o' = o,
           o.retryCountMax \in Nat, isRetry[m] \in Nat, retries[m] \in Nat, reposts[m] \in Nat,
           isRetry'[m] = isRetry[m] + 1, reposts'[m] = reposts[m],
           \/ isRetry[m] + 1 > o.retryCountMax /\ place'[m] = "gave up" /\ retries'[m] = retries[m]
           \/ ~(isRetry[m] + 1 > o.retryCountMax) /\ place'[m] = "incoming" /\ retries'[m] = retries[m] + 1
           \/ ~(isRetry[m] + 1 > o.retryCountMax) /\ place'[m] \in {"work new", "post new"} /\ retries'[m] = retries[m]
    PROVE  CanBeTried(m)'
<1>1. isRetry[m] <= o.retryCountMax /\ retries[m] + reposts[m] <= isRetry[m] /\ retries[m] <= o.retryCountMax /\ reposts[m] <= o.retryCountMax
  BY DEF CanBeTried
<1>2. CASE isRetry[m] + 1 > o.retryCountMax /\ place'[m] = "gave up" /\ retries'[m] = retries[m]
  BY <1>1, <1>2 DEF CanBeTried, Counting!Settled, Counting!PostQueue
<1>3. CASE ~(isRetry[m] + 1 > o.retryCountMax) /\ place'[m] = "incoming" /\ retries'[m] = retries[m] + 1
  <2>1. retries'[m] + reposts'[m] <= isRetry'[m] /\ isRetry'[m] <= o.retryCountMax
    BY <1>1, <1>3
  <2>2. retries'[m] <= o.retryCountMax /\ reposts'[m] <= o.retryCountMax
    BY <1>1, <1>3
  <2>3. place'[m] \notin Counting!PostQueue
    BY <1>3 DEF Counting!PostQueue
  <2> QED BY <2>1, <2>2, <2>3 DEF CanBeTried, Counting!Settled, Counting!PostQueue
<1>4. CASE ~(isRetry[m] + 1 > o.retryCountMax) /\ place'[m] \in {"work new", "post new"} /\ retries'[m] = retries[m]
  <2>1. retries'[m] = retries[m]
    BY <1>4
  <2>2. isRetry[m] + 1 <= o.retryCountMax
    BY <1>4, Sums
  <2>3. retries[m] + reposts[m] < isRetry[m] + 1 /\ retries[m] + reposts[m] <= isRetry[m] + 1
    BY <1>1, Sums
  <2>4. CASE place'[m] = "work new"
    BY <1>1, <2>1, <2>2, <2>3, <2>4 DEF CanBeTried, Counting!Settled, Counting!PostQueue
  <2>5. CASE place'[m] = "post new"
    BY <1>1, <2>1, <2>2, <2>3, <2>5 DEF CanBeTried, Counting!Settled, Counting!PostQueue
  <2> QED BY <1>4, <2>4, <2>5
<1> QED BY <1>2, <1>3, <1>4

LEMMA TriedStep == ASSUME TriedInv, Counting!Next PROVE TriedInv'
<1>a. /\ o' = o /\ o \in RetrySettings /\ o.retryCountMax \in Nat /\ o.retry_refilter \in BOOLEAN
      /\ isRetry \in [Message -> Nat] /\ retries \in [Message -> Nat] /\ reposts \in [Message -> Nat]
  <2>1. o' = o
    BY DEF Counting!Next, Counting!Pass, Counting!Gather, Counting!AfterAccept, Counting!Work,
           Counting!AfterWork, Counting!Post, Counting!AfterPost, Counting!NextPass, Counting!Housekeeping
  <2> QED BY <2>1, RetriesAssumption DEF TriedInv
(* Types, for all settings. *)
<1>b. isRetry' \in [Message -> Nat] /\ retries' \in [Message -> Nat] /\ reposts' \in [Message -> Nat]
  <2>1. CASE Counting!Gather
    <3>1. PICK again : retries' = Counting!MoreOf(retries, again) /\ isRetry' = [n \in Message |-> IF n \in again THEN 1 ELSE isRetry[n]]
      BY <2>1 DEF Counting!Gather
    <3>2. reposts' = reposts
      BY <2>1 DEF Counting!Gather
    <3> QED BY <1>a, <3>1, <3>2, CountTypes
  <2>2. CASE Counting!AfterAccept
    <3>1. PICK again, some : retries' = Counting!MoreOf(retries, some) /\ isRetry' = Counting!Counted(again)
      BY <2>2 DEF Counting!AfterAccept
    <3>2. reposts' = reposts
      BY <2>2 DEF Counting!AfterAccept
    <3> QED BY <1>a, <3>1, <3>2, CountTypes
  <2>3. CASE Counting!AfterWork
    BY <1>a, <2>3, CountTypes, ZenonT(60) DEF Counting!AfterWork
  <2>4. CASE Counting!AfterPost
    BY <1>a, <2>4, CountTypes DEF Counting!AfterPost
  <2>5. CASE Counting!Work \/ Counting!Post \/ Counting!NextPass \/ Counting!Housekeeping
    BY <1>a, <2>5 DEF Counting!Work, Counting!Post, Counting!NextPass, Counting!Housekeeping
  <2> QED BY <2>1, <2>2, <2>3, <2>4, <2>5 DEF Counting!Next, Counting!Pass
<1>c. SUFFICES ASSUME o.retryCountMax > 0, ~ o.retry_refilter, NEW m \in Message PROVE CanBeTried(m)'
  BY <1>a, <1>b DEF TriedInv
<1>d. CanBeTried(m) /\ isRetry[m] \in Nat /\ retries[m] \in Nat /\ reposts[m] \in Nat
  BY <1>a, <1>c DEF TriedInv
<1> USE DEF Counting!Settled, Counting!PostQueue
<1>1. CASE Counting!Gather
  <2>1. PICK newer \in SUBSET Counting!At("broker"), again \in Counting!Got("work available", 0) :
            /\ place' = [n \in Message |-> IF n \in newer \cup again THEN "incoming" ELSE place[n]]
            /\ isRetry' = [n \in Message |-> IF n \in again THEN 1 ELSE isRetry[n]]
            /\ retries' = Counting!MoreOf(retries, again)
    BY <1>1, <1>c DEF Counting!Gather
  <2>2. again = {}
    BY NothingGot
  <2>3. isRetry'[m] = isRetry[m] /\ retries'[m] = retries[m] /\ reposts'[m] = reposts[m]
    BY <1>1, <2>1, <2>2 DEF Counting!MoreOf, Counting!Gather
  <2>4. place'[m] = place[m] \/ (place[m] = "broker" /\ place'[m] = "incoming")
    BY <2>1, <2>2 DEF Counting!At
  <2> QED BY <1>a, <1>d, <2>3, <2>4, SameCounts
<1>2. CASE Counting!AfterAccept
  <2>1. PICK n : \E again \in Counting!Got("work available", n) :
            /\ place' = Counting!Kept(place, again, "incoming")
            /\ isRetry' = Counting!Counted(again)
            /\ retries' = Counting!MoreOf(retries, {x \in again : place'[x] = "incoming"})
    BY <1>2 DEF Counting!AfterAccept
  <2>2. PICK again \in Counting!Got("work available", n) :
            /\ place' = Counting!Kept(place, again, "incoming")
            /\ isRetry' = Counting!Counted(again)
            /\ retries' = Counting!MoreOf(retries, {x \in again : place'[x] = "incoming"})
    BY <2>1
  <2>3. reposts'[m] = reposts[m]
    BY <1>2 DEF Counting!AfterAccept
  <2>4. CASE m \in again
    <3>1. place[m] = "work available"
      BY <2>4 DEF Counting!Got, Counting!At
    <3>2. retries[m] <= o.retryCountMax
      BY <1>d DEF CanBeTried
    <3>3. retries'[m] = IF place'[m] = "incoming" THEN retries[m] + 1 ELSE retries[m]
      BY <1>a, <1>d, <2>2, <2>4, <3>2, CountOne DEF Counting!MoreOf
    <3>4. place[m] \notin Counting!Settled
      BY <3>1
    <3>5. isRetry'[m] = isRetry[m] + 1 /\ place'[m] = IF isRetry[m] + 1 > o.retryCountMax THEN "gave up" ELSE "incoming"
      BY <1>a, <1>c, <1>d, <2>2, <2>4, <3>4, CountedRight
    <3> QED BY <1>a, <1>d, <2>3, <3>3, <3>4, <3>5, CountedOnce
  <2>5. CASE m \notin again
    <3>1. place'[m] = place[m] /\ isRetry'[m] = isRetry[m] /\ retries'[m] = retries[m]
      BY <2>2, <2>5 DEF Counting!Kept, Counting!Counted, Counting!MoreOf
    <3> QED BY <1>a, <1>d, <2>3, <3>1, SameCounts
  <2> QED BY <2>4, <2>5
<1>3. CASE Counting!Work \/ Counting!Post
  <2>1. UNCHANGED <<isRetry, retries, reposts>>
    BY <1>3 DEF Counting!Work, Counting!Post
  <2>2. \/ place'[m] = place[m]
        \/ place[m] = "incoming" /\ place'[m] \in {"ok", "failed"}
        \/ place[m] = "ok" /\ place'[m] \in {"posted", "post failed"}
    BY <1>3 DEF Counting!Work, Counting!Post, Counting!At
  <2> QED BY <1>a, <1>d, <2>1, <2>2, SameCounts
<1>4. CASE Counting!AfterWork
  <2>1. PICK n : \E again \in Counting!Got("post available", n) :
            /\ place' = [x \in Message |-> IF x \in again THEN "ok" ELSE Counting!Kept(place, Counting!At("failed"), "work new")[x]]
            /\ reposts' = Counting!MoreOf(reposts, again)
    BY <1>4 DEF Counting!AfterWork
  <2>2. PICK again \in Counting!Got("post available", n) :
            /\ place' = [x \in Message |-> IF x \in again THEN "ok" ELSE Counting!Kept(place, Counting!At("failed"), "work new")[x]]
            /\ reposts' = Counting!MoreOf(reposts, again)
    BY <2>1
  <2>3. isRetry' = Counting!Counted(Counting!At("failed")) /\ retries' = retries
    BY <1>4 DEF Counting!AfterWork
  <2>4. CASE m \in again
    <3>1. place[m] = "post available" /\ m \notin Counting!At("failed")
      BY <2>4 DEF Counting!Got, Counting!At
    <3>2. isRetry'[m] = isRetry[m] /\ place'[m] = "ok"
      BY <2>2, <2>3, <2>4, <3>1 DEF Counting!Counted
    <3>3. /\ reposts[m] <= o.retryCountMax /\ isRetry[m] <= o.retryCountMax
          /\ retries[m] + reposts[m] < isRetry[m] /\ retries[m] <= o.retryCountMax
      BY <1>d, <3>1 DEF CanBeTried
    <3>4. reposts'[m] = reposts[m] + 1
      BY <1>a, <1>d, <2>2, <2>4, <3>3, CountOne DEF Counting!MoreOf
    <3>5. retries'[m] = retries[m]
      BY <2>3
    <3>6. /\ reposts[m] + 1 <= o.retryCountMax /\ retries[m] + (reposts[m] + 1) <= isRetry[m]
      BY <1>a, <1>d, <3>3, Sums
    <3>7. isRetry'[m] <= o'.retryCountMax /\ retries'[m] <= o'.retryCountMax
      BY <1>a, <3>2, <3>3, <3>5
    <3>8. reposts'[m] <= o'.retryCountMax /\ retries'[m] + reposts'[m] <= isRetry'[m] /\ place'[m] \notin Counting!PostQueue
      BY <1>a, <3>2, <3>4, <3>5, <3>6
    <3> QED BY <3>8, <3>7 DEF CanBeTried
  <2>5. CASE m \notin again /\ m \in Counting!At("failed")
    <3>1. place[m] = "failed" /\ reposts'[m] = reposts[m] /\ retries'[m] = retries[m]
      BY <2>2, <2>3, <2>5 DEF Counting!At, Counting!MoreOf
    <3>2. place'[m] = Counting!Kept(place, Counting!At("failed"), "work new")[m]
      BY <2>2, <2>5
    <3>3. place[m] \notin Counting!Settled
      BY <3>1
    <3>4. /\ Counting!Counted(Counting!At("failed"))[m] = isRetry[m] + 1
          /\ Counting!Kept(place, Counting!At("failed"), "work new")[m] =
                 IF isRetry[m] + 1 > o.retryCountMax THEN "gave up" ELSE "work new"
      <4>1. m \in Counting!At("failed") /\ m \in Message
        BY <1>c, <2>5
      <4>2. CanBeTried(m) /\ isRetry[m] \in Nat /\ o.retryCountMax \in Nat /\ o.retryCountMax > 0
        BY <1>a, <1>c, <1>d
      <4> QED BY <3>3, <4>1, <4>2, CountedRight
    <3>5. isRetry'[m] = isRetry[m] + 1 /\ place'[m] = IF isRetry[m] + 1 > o.retryCountMax THEN "gave up" ELSE "work new"
      BY <2>3, <3>2, <3>4
    <3> QED BY <1>a, <1>d, <3>1, <3>3, <3>5, CountedOnce
  <2>6. CASE m \notin again /\ m \notin Counting!At("failed")
    <3>1. place'[m] = place[m] /\ isRetry'[m] = isRetry[m] /\ retries'[m] = retries[m] /\ reposts'[m] = reposts[m]
      BY <2>2, <2>3, <2>6 DEF Counting!Kept, Counting!Counted, Counting!MoreOf
    <3> QED BY <1>a, <1>d, <3>1, SameCounts
  <2> QED BY <2>4, <2>5, <2>6
<1>5. CASE Counting!AfterPost
  <2>1. /\ place' = Counting!Kept(place, Counting!At("post failed"), "post new")
        /\ isRetry' = Counting!Counted(Counting!At("post failed")) /\ UNCHANGED <<retries, reposts>>
    BY <1>5 DEF Counting!AfterPost
  <2>2. CASE m \in Counting!At("post failed")
    <3>1. place[m] = "post failed"
      BY <2>2 DEF Counting!At
    <3>2. place[m] \notin Counting!Settled
      BY <3>1
    <3>3. isRetry'[m] = isRetry[m] + 1 /\ place'[m] = IF isRetry[m] + 1 > o.retryCountMax THEN "gave up" ELSE "post new"
      BY <1>a, <1>c, <1>d, <2>1, <2>2, <3>2, CountedRight
    <3> QED BY <1>a, <1>d, <2>1, <3>2, <3>3, CountedOnce
  <2>3. CASE m \notin Counting!At("post failed")
    <3>1. place'[m] = place[m] /\ isRetry'[m] = isRetry[m]
      BY <2>1, <2>3 DEF Counting!Kept, Counting!Counted
    <3> QED BY <1>a, <1>d, <2>1, <3>1, SameCounts
  <2> QED BY <2>2, <2>3
<1>6. CASE Counting!NextPass
  <2>1. UNCHANGED <<place, isRetry, retries, reposts>>
    BY <1>6 DEF Counting!NextPass
  <2> QED BY <1>a, <1>d, <2>1, SameCounts
<1>7. CASE Counting!Housekeeping
  <2>1. UNCHANGED <<isRetry, retries, reposts>>
    BY <1>7 DEF Counting!Housekeeping
  <2>2. PICK tooOld : place' = Counting!Renewed(Counting!Renewed(place, "work new", "work available", tooOld), "post new", "post available", tooOld)
    BY <1>7 DEF Counting!Housekeeping
  <2> DEFINE between == Counting!Renewed(place, "work new", "work available", tooOld)
  <2>3. between[m] = place[m] \/ (place[m] = "work new" /\ between[m] \in {"expired", "work available"})
    BY DEF Counting!Renewed
  <2>4. place'[m] = between[m] \/ (between[m] = "post new" /\ place'[m] \in {"expired", "post available"})
    BY <2>2 DEF Counting!Renewed
  <2> HIDE DEF between
  <2>5. \/ place'[m] = place[m]
        \/ place[m] = "work new" /\ place'[m] \in {"expired", "work available"}
        \/ place[m] = "post new" /\ place'[m] \in {"expired", "post available"}
    BY <2>3, <2>4
  <2> QED BY <1>a, <1>d, <2>1, <2>5, SameCounts
<1> QED BY <1>1, <1>2, <1>3, <1>4, <1>5, <1>6, <1>7 DEF Counting!Next, Counting!Pass

LEMMA TriedInvariant == RedisRetriesSpec => []TriedInv
<1>1. RedisRetriesInit => TriedInv
  <2> SUFFICES ASSUME RedisRetriesInit PROVE TriedInv
    OBVIOUS
  <2>1. o \in RetrySettings
    BY RetriesAssumption DEF RedisRetriesInit, Counting!Init, Counting!Off
  <2>2. isRetry = [m \in Message |-> 0] /\ retries = isRetry /\ reposts = isRetry /\ place = [m \in Message |-> "broker"]
    BY DEF RedisRetriesInit, Counting!Init, Counting!Off
  <2>3. o.retryCountMax \in Nat
    BY <2>1, RetriesAssumption
  <2>4. \A m \in Message : isRetry[m] = 0 /\ retries[m] = 0 /\ reposts[m] = 0 /\ place[m] = "broker"
    BY <2>2
  <2>5. \A f \in {isRetry, retries, reposts} : f \in [Message -> Nat]
    BY <2>2
  <2>6. \A m \in Message : CanBeTried(m)
    <3> SUFFICES ASSUME NEW m \in Message PROVE CanBeTried(m)
      OBVIOUS
    <3>1. isRetry[m] = 0 /\ retries[m] = 0 /\ reposts[m] = 0 /\ place[m] = "broker"
      BY <2>4
    <3>2. 0 <= o.retryCountMax /\ 0 + 0 <= 0
      BY <2>3
    <3>3. place[m] \notin Counting!PostQueue
      BY <3>1 DEF Counting!PostQueue
    <3> QED BY <3>1, <3>2, <3>3 DEF CanBeTried
  <2> QED BY <2>1, <2>5, <2>6 DEF TriedInv
<1>2. TriedInv /\ [RedisRetriesNext]_<<vars, counting>> => TriedInv'
  <2> SUFFICES ASSUME TriedInv, [RedisRetriesNext]_<<vars, counting>> PROVE TriedInv'
    OBVIOUS
  <2>1. CASE Counting!Next
    BY <2>1, TriedStep
  <2>2. CASE UNCHANGED counting
    BY <2>2 DEF TriedInv, CanBeTried, counting
  <2> QED BY <2>1, <2>2 DEF RedisRetriesNext
<1> QED BY <1>1, <1>2, PTL DEF RedisRetriesSpec

(* With a retryCountMax and without retry_refilter, no message is transferred again, nor
   posted again, more often than that: whatever the batch size, and in whatever order
   transfers and posts fail, come back and expire. *)
THEOREM TriedAtMost == RedisRetriesSpec => []NotMoreOften
<1>1. TriedInv => NotMoreOften
  BY DEF TriedInv, CanBeTried, NotMoreOften, Counting!NotMoreOften
<1> QED BY <1>1, TriedInvariant, PTL
====
