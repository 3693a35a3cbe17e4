------------------------------ MODULE FlowProofs ------------------------------
(***************************************************************************)
(* Proofs about the life of a message in a flow instance, for every number   *)
(* of messages, publishers, kills, lost connections and restarts, and every  *)
(* batch and prefetch.                                                      *)
(***************************************************************************)
EXTENDS Flow, ListLemmas

-----------------------------------------------------------------------------
(* Which worklists a stage may find something in, and that what a pass has rejected is
   settled when the transfers are done. *)
RetryQueueOf(X) == [cur : SUBSET X, behind : SUBSET X, new : SUBSET X]

StagesInv ==
    /\ TypeOK /\ work_retry \in RetryQueueOf(Message) /\ post_retry \in RetryQueueOf(Copy)
    /\ pc \notin {"filter", "work"} => incoming = <<>>
    /\ pc # "filter" => filtered = <<>>
    /\ pc \notin {"filter", "work", "after_work"} => rejected = <<>> /\ failed = <<>>
    /\ pc # "work" => ok = <<>>
    /\ pc \notin {"after_work", "post"} => posting = <<>>
    /\ pc # "post" => postFailed = <<>>
    /\ pc = "after_work" => Msgs(rejected) \subseteq refused

(* What a retry queue offers; what it handed out counts only when it is read again from its
   start, so only while the instance is not running. *)
Offers(q) == IF running THEN q.cur \cup q.new ELSE Entries(q)

Cared(m, p) == \/ Settled(m, p) \/ InMemory(m, p) \/ m \in lost
               \/ m \in Offers(work_retry) \/ <<m, p>> \in Offers(post_retry)

CareInv == \A m \in Message \ RenameAway, p \in Pub : broker[m] = "acked" => Cared(m, p)

(* A message that is not acknowledged is in a list, with its ack_id. *)
Working == Range(incoming) \cup Range(filtered) \cup Range(rejected) \cup Range(failed) \cup Range(ok)
UnackedInv ==
    /\ \A m \in Message \ RenameAway : broker[m] = "unacked" => <<m, TRUE>> \in Working
    /\ pc \in {"loop", "gather", "after_work", "post", "end", "closed", "down"} =>
          \A m \in Message \ RenameAway : broker[m] # "unacked"

Faultless == kills = 0 /\ losses = 0 /\ restarts = 0
Once(l) == \A i, j \in 1 .. Len(l) : l[i][1] = l[j][1] => i = j
Distinct(l) == \A i, j \in 1 .. Len(l) : l[i] = l[j] => i = j

(* Where a message, and a copy, can be that has not been delivered or read again. *)
Home == {"broker", "incoming", "filtered", "rejected", "failed", "ok", "retry", "retry new", "copied"}
Known(c) == c \in Range(posting) \cup Range(postFailed) \cup post_retry.cur \cup post_retry.new \/ posted[c] > 0
MessageAt(m, h) ==
    /\ broker[m] = "ready" /\ pc # "closed" => h = "broker"
    /\ m \in Msgs(incoming) => h = "incoming"
    /\ m \in Msgs(filtered) => h = "filtered"
    /\ m \in Msgs(rejected) => h = "rejected"
    /\ m \in Msgs(failed) => h = "failed"
    /\ m \in Msgs(ok) => h = "ok"
    /\ m \in work_retry.cur => h = "retry"
    /\ m \in work_retry.new => h = "retry new"
    /\ \A p \in Pub : Known(<<m, p>>) => h = "copied"

CopyHome == {"posting", "postFailed", "retry", "retry new", "posted"}
CopyAt(c, h) ==
    /\ c \in Range(posting) => h = "posting"
    /\ c \in Range(postFailed) => h = "postFailed"
    /\ c \in post_retry.cur => h = "retry"
    /\ c \in post_retry.new => h = "retry new"
    /\ posted[c] > 0 => h = "posted"

OneHome ==
    /\ pc # "down"
    /\ \A m \in Message : \E h \in Home : MessageAt(m, h)
    /\ \A c \in Copy : posted[c] <= 1 /\ \E h \in CopyHome : CopyAt(c, h)
    /\ Once(incoming) /\ Once(filtered) /\ Once(ok)
    /\ Distinct(posting)

OnceInv == {kills, losses, restarts} \subseteq Nat /\ (Faultless => OneHome)

-----------------------------------------------------------------------------
(* The messages of a worklist, and after one was put in it, taken from it or a list was joined. *)
LEMMA MsgsFacts ==
    ASSUME NEW l \in Seq(Message \X BOOLEAN)
    PROVE  Msgs(<<>>) = {} /\ Msgs(l) = {e[1] : e \in Range(l)} /\ Msgs(l) \subseteq Message
<1>1. Range(l) = {l[i] : i \in 1 .. Len(l)}
  BY RangeEquality
<1>2. \A i \in 1 .. Len(l) : l[i] \in Message \X BOOLEAN
  OBVIOUS
<1> QED BY <1>1, <1>2 DEF Msgs

LEMMA MsgsAppend ==
    ASSUME NEW l \in Seq(Message \X BOOLEAN), NEW e \in Message \X BOOLEAN
    PROVE  Append(l, e) \in Seq(Message \X BOOLEAN) /\ Msgs(Append(l, e)) = Msgs(l) \cup {e[1]}
<1>1. Append(l, e) \in Seq(Message \X BOOLEAN) /\ Range(Append(l, e)) = Range(l) \cup {e}
  BY RangeFacts
<1>2. Msgs(l) = {x[1] : x \in Range(l)} /\ Msgs(Append(l, e)) = {x[1] : x \in Range(Append(l, e))}
  BY <1>1, MsgsFacts
<1> QED BY <1>1, <1>2

LEMMA MsgsHead ==
    ASSUME NEW l \in Seq(Message \X BOOLEAN), l # <<>>
    PROVE  /\ Head(l) \in Message \X BOOLEAN /\ Head(l)[1] \in Message /\ Tail(l) \in Seq(Message \X BOOLEAN)
           /\ Msgs(l) = {Head(l)[1]} \cup Msgs(Tail(l))
<1>1. Head(l) \in Message \X BOOLEAN /\ Tail(l) \in Seq(Message \X BOOLEAN) /\ Range(l) = {Head(l)} \cup Range(Tail(l))
  BY RangeFacts
<1>2. Msgs(l) = {x[1] : x \in Range(l)} /\ Msgs(Tail(l)) = {x[1] : x \in Range(Tail(l))}
  BY <1>1, MsgsFacts
<1> QED BY <1>1, <1>2

LEMMA MsgsJoin ==
    ASSUME NEW l \in Seq(Message \X BOOLEAN), NEW k \in Seq(Message \X BOOLEAN)
    PROVE  l \o k \in Seq(Message \X BOOLEAN) /\ Msgs(l \o k) = Msgs(l) \cup Msgs(k)
<1>1. l \o k \in Seq(Message \X BOOLEAN) /\ Range(l \o k) = Range(l) \cup Range(k)
  BY JoinFacts
<1>2. /\ Msgs(l) = {x[1] : x \in Range(l)} /\ Msgs(k) = {x[1] : x \in Range(k)}
      /\ Msgs(l \o k) = {x[1] : x \in Range(l \o k)}
  BY <1>1, MsgsFacts
<1> QED BY <1>1, <1>2

(* A set of messages that is gathered. *)
LEMMA GatheredFacts ==
    ASSUME NEW S \in SUBSET Message, NEW b \in BOOLEAN
    PROVE  /\ SetToSeq(S \X {b}) \in Seq(Message \X BOOLEAN) /\ Range(SetToSeq(S \X {b})) = S \X {b}
           /\ Msgs(SetToSeq(S \X {b})) = S /\ Once(SetToSeq(S \X {b}))
<1> DEFINE l == SetToSeq(S \X {b})
<1>1. IsFiniteSet(S \X {b})
  BY FS_Subset, FS_Product, FS_Singleton, FlowAssumption
<1>2. l \in Seq(S \X {b}) /\ Range(l) = S \X {b} /\ \A i, j \in 1 .. Len(l) : l[i] = l[j] => i = j
  BY <1>1, SetToSeqFacts
<1> HIDE DEF l
<1>3. l \in Seq(Message \X BOOLEAN)
  <2>1. \A i \in 1 .. Len(l) : l[i] \in Message \X BOOLEAN
    BY <1>2
  <2> QED BY <1>2, <2>1
<1>4. Msgs(l) = S
  <2>1. Msgs(l) = {e[1] : e \in Range(l)}
    BY <1>3, MsgsFacts
  <2>2. \A e \in S \X {b} : e[1] \in S
    OBVIOUS
  <2>3. \A m \in S : <<m, b>> \in S \X {b} /\ <<m, b>>[1] = m
    OBVIOUS
  <2>4. Msgs(l) \subseteq S
    BY <1>2, <2>1, <2>2
  <2>5. S \subseteq Msgs(l)
    BY <1>2, <2>1, <2>3, ZenonT(30)
  <2> QED BY <2>4, <2>5
<1>5. Once(l)
  <2>1. \A i \in 1 .. Len(l) : l[i] = <<l[i][1], b>>
    BY <1>2
  <2> QED BY <1>2, <2>1 DEF Once
<1> QED BY <1>2, <1>3, <1>4, <1>5 DEF l

(* The arithmetic of the copies. *)
LEMMA DivFacts ==
    ASSUME NEW n \in Nat \ {0}, NEW i \in Nat
    PROVE  /\ i \div n \in Nat /\ i % n \in 0 .. n - 1 /\ i = (i \div n) * n + (i % n)
           /\ \A l \in Nat : i < l * n => i \div n < l
BY SMT

LEMMA DivMod ==
    ASSUME NEW n \in Nat \ {0}, NEW k \in Nat, NEW p \in 0 .. n - 1
    PROVE  /\ k * n + p \in Nat /\ (k * n + p) \div n = k /\ (k * n + p) % n = p
           /\ \A l \in Nat : k < l => k * n + p < l * n
BY SMT

(* work makes of each message one copy for each publisher. *)
LEMMA CopiesFacts ==
    ASSUME NEW l \in Seq(Message \X BOOLEAN)
    PROVE  /\ copies(l) \in Seq(Copy) /\ Range(copies(l)) = Msgs(l) \X Pub
           /\ Once(l) => \A i, j \in 1 .. Len(copies(l)) : copies(l)[i] = copies(l)[j] => i = j
<1>1. NPub \in Nat /\ Len(l) \in Nat /\ \A k \in 1 .. Len(l) : l[k][1] \in Message
  BY FlowAssumption
<1>2. CASE NPub = 0
  <2>1. 1 .. Len(l) * NPub = {} /\ Pub = {}
    BY <1>1, <1>2 DEF Pub
  <2>2. copies(l) = <<>>
    BY <2>1 DEF copies
  <2>3. Range(<<>>) = {}
    BY DEF Range
  <2> QED BY <2>1, <2>2, <2>3
<1>3. CASE NPub # 0
  <2> DEFINE c == copies(l)
             n == Len(l) * NPub
  <2>a. NPub \in Nat \ {0} /\ n \in Nat
    BY <1>1, <1>3
  <2>1. \A i \in 1 .. n : c[i] = <<l[(i - 1) \div NPub + 1][1], (i - 1) % NPub>>
    BY DEF copies
  <2>2. \A i \in 1 .. n : /\ i - 1 \in Nat /\ (i - 1) \div NPub \in Nat /\ (i - 1) \div NPub + 1 \in 1 .. Len(l)
                          /\ (i - 1) % NPub \in 0 .. NPub - 1
                          /\ i - 1 = ((i - 1) \div NPub) * NPub + ((i - 1) % NPub)
    <3> SUFFICES ASSUME NEW i \in 1 .. n
                 PROVE  /\ i - 1 \in Nat /\ (i - 1) \div NPub \in Nat /\ (i - 1) \div NPub + 1 \in 1 .. Len(l)
                        /\ (i - 1) % NPub \in 0 .. NPub - 1
                        /\ i - 1 = ((i - 1) \div NPub) * NPub + ((i - 1) % NPub)
      OBVIOUS
    <3>1. i - 1 \in Nat /\ i - 1 < Len(l) * NPub
      BY <2>a
    <3>2. (i - 1) \div NPub \in Nat /\ (i - 1) \div NPub < Len(l)
      BY <1>1, <2>a, <3>1, DivFacts
    <3>3. (i - 1) \div NPub + 1 \in 1 .. Len(l)
      BY <1>1, <3>2
    <3> QED BY <2>a, <3>1, <3>2, <3>3, DivFacts
  <2>3. c = [i \in 1 .. n |-> c[i]] /\ \A i \in 1 .. n : c[i] \in Copy
    <3>1. c = [i \in 1 .. n |-> c[i]]
      BY DEF copies
    <3>2. ASSUME NEW i \in 1 .. n PROVE c[i] \in Copy
      <4>1. l[(i - 1) \div NPub + 1][1] \in Message /\ (i - 1) % NPub \in Pub
        BY <1>1, <2>2 DEF Pub
      <4>2. <<l[(i - 1) \div NPub + 1][1], (i - 1) % NPub>> \in Copy
        BY <4>1 DEF Copy
      <4> QED BY <2>1, <4>2
    <3> QED BY <3>1, <3>2
  <2> HIDE DEF c, n
  <2>4. c \in Seq(Copy) /\ Len(c) = n
    BY <2>a, <2>3
  <2>5. Range(c) = {c[i] : i \in 1 .. n}
    BY <2>4, RangeEquality
  <2>6. Range(c) \subseteq Msgs(l) \X Pub
    <3> SUFFICES ASSUME NEW i \in 1 .. n PROVE c[i] \in Msgs(l) \X Pub
      BY <2>5
    <3>1. l[(i - 1) \div NPub + 1][1] \in Msgs(l)
      BY <2>2 DEF Msgs
    <3> QED BY <2>1, <2>2, <3>1 DEF Pub
  <2>7. Msgs(l) \X Pub \subseteq Range(c)
    <3> SUFFICES ASSUME NEW k \in 1 .. Len(l), NEW p \in Pub PROVE <<l[k][1], p>> \in Range(c)
      BY DEF Msgs
    <3>1. k - 1 \in Nat /\ k - 1 < Len(l) /\ p \in 0 .. NPub - 1 /\ (k - 1) + 1 = k
      BY <1>1 DEF Pub
    <3>2. PICK j \in Nat : j = (k - 1) * NPub + p
      BY <2>a, <3>1, DivMod
    <3>3. j \div NPub = k - 1 /\ j % NPub = p
      BY <1>1, <2>a, <3>1, <3>2, DivMod
    <3>6. j < n
      BY <1>1, <2>a, <3>1, <3>2, DivMod DEF n
    <3>4. j + 1 \in 1 .. n /\ (j + 1) - 1 = j
      BY <2>a, <3>6
    <3>5. c[j + 1] = <<l[k][1], p>>
      BY <2>1, <3>1, <3>3, <3>4
    <3> QED BY <2>5, <3>4, <3>5
  <2>8. ASSUME Once(l), NEW i \in 1 .. n, NEW j \in 1 .. n, c[i] = c[j] PROVE i = j
    <3>1. l[(i - 1) \div NPub + 1][1] = l[(j - 1) \div NPub + 1][1] /\ (i - 1) % NPub = (j - 1) % NPub
      BY <2>1, <2>8
    <3>2. (i - 1) \div NPub + 1 = (j - 1) \div NPub + 1
      BY <2>2, <2>8, <3>1 DEF Once
    <3>3. (i - 1) \div NPub = (j - 1) \div NPub
      BY <2>2, <3>2
    <3>4. i - 1 = j - 1
      BY <2>2, <3>1, <3>3
    <3> QED BY <2>a, <3>4
  <2> QED BY <2>4, <2>6, <2>7, <2>8 DEF c
<1> QED BY <1>2, <1>3

(* What each operation of a retry queue does to what it offers. *)
LEMMA PutFacts ==
    ASSUME NEW X, NEW q \in RetryQueueOf(X), NEW S \in SUBSET X
    PROVE  /\ PutRetry(q, S) \in RetryQueueOf(X)
           /\ PutRetry(q, S).cur = q.cur /\ PutRetry(q, S).behind = q.behind /\ PutRetry(q, S).new = q.new \cup S
BY DEF RetryQueueOf, PutRetry

LEMMA GetFacts ==
    ASSUME NEW X, NEW q \in RetryQueueOf(X), NEW S \in SUBSET q.cur
    PROVE  /\ GetRetry(q, S) \in RetryQueueOf(X) /\ S \in SUBSET X
           /\ GetRetry(q, S).cur = q.cur \ S /\ GetRetry(q, S).new = q.new
<1> USE DEF RetryQueueOf
<1>1. CASE q.cur = S
  <2>1. GetRetry(q, S) = [q EXCEPT !.cur = {}, !.behind = {}]
    BY <1>1 DEF GetRetry
  <2> QED BY <1>1, <2>1
<1>2. CASE q.cur # S
  <2>1. GetRetry(q, S) = [q EXCEPT !.cur = @ \ S, !.behind = @ \cup S]
    BY <1>2 DEF GetRetry
  <2> QED BY <2>1
<1> QED BY <1>1, <1>2

LEMMA ReopenFacts ==
    ASSUME NEW X, NEW q \in RetryQueueOf(X)
    PROVE  Reopen(q) \in RetryQueueOf(X) /\ Reopen(q).cur = q.cur \cup q.behind /\ Reopen(q).new = q.new
BY DEF RetryQueueOf, Reopen

LEMMA HousekeepingFacts ==
    ASSUME NEW X, NEW q \in RetryQueueOf(X), NEW r
    PROVE  /\ housekeepWork(q) \in RetryQueueOf(X)
           /\ \/ housekeepWork(q) = q
              \/ q.cur = {} /\ housekeepWork(q).cur = q.new /\ housekeepWork(q).new = {}
           /\ HousekeepPost(q, r) =>
                 /\ r \in RetryQueueOf(X)
                 /\ r = q \/ (q.cur = {} /\ r.cur \subseteq q.new /\ r.new = {})
                 /\ \A c \in q.new : \E d \in q.cur \cup r.cur \cup r.new : d = c \/ (q.cur = {} /\ d \in q.new /\ sameKey(c, d))
<1> USE DEF RetryQueueOf
<1>1. ASSUME NEW S \in SUBSET X
      PROVE  /\ [EmptyQueue EXCEPT !.cur = S] \in RetryQueueOf(X)
             /\ [EmptyQueue EXCEPT !.cur = S].cur = S /\ [EmptyQueue EXCEPT !.cur = S].new = {}
  BY DEF EmptyQueue
<1>2. /\ housekeepWork(q) \in RetryQueueOf(X)
      /\ \/ housekeepWork(q) = q
         \/ q.cur = {} /\ housekeepWork(q).cur = q.new /\ housekeepWork(q).new = {}
  <2>1. CASE q.cur # {}
    BY <2>1 DEF housekeepWork
  <2>2. CASE q.cur = {}
    <3>1. housekeepWork(q) = [EmptyQueue EXCEPT !.cur = q.new] /\ q.new \in SUBSET X
      BY <2>2 DEF housekeepWork
    <3> QED BY <1>1, <2>2, <3>1
  <2> QED BY <2>1, <2>2
<1>3. ASSUME HousekeepPost(q, r)
      PROVE  /\ r \in RetryQueueOf(X)
             /\ r = q \/ (q.cur = {} /\ r.cur \subseteq q.new /\ r.new = {})
             /\ \A c \in q.new : \E d \in q.cur \cup r.cur \cup r.new : d = c \/ (q.cur = {} /\ d \in q.new /\ sameKey(c, d))
  <2>1. CASE q.cur # {}
    <3>1. r = q
      BY <1>3, <2>1 DEF HousekeepPost
    <3> QED BY <3>1
  <2>2. CASE q.cur = {}
    <3>1. PICK S \in SUBSET q.new : /\ \A c \in q.new : \E d \in S : sameKey(c, d)
                                    /\ r = [EmptyQueue EXCEPT !.cur = S]
      BY <1>3, <2>2 DEF HousekeepPost
    <3>2. S \in SUBSET X
      OBVIOUS
    <3>3. r \in RetryQueueOf(X) /\ r.cur = S /\ r.new = {}
      BY <1>1, <3>1, <3>2
    <3> QED BY <2>2, <3>1, <3>3
  <2> QED BY <2>1, <2>2
<1> QED BY <1>2, <1>3

(* A set of copies that is taken from the queue of failed posts. *)
LEMMA RetriedFacts ==
    ASSUME NEW R \in SUBSET Copy
    PROVE  /\ SetToSeq(R) \in Seq(Copy) /\ Range(SetToSeq(R)) = R
           /\ \A i, j \in 1 .. Len(SetToSeq(R)) : SetToSeq(R)[i] = SetToSeq(R)[j] => i = j
<1> DEFINE l == SetToSeq(R)
<1>1. IsFiniteSet(R)
  <2>1. IsFiniteSet(Pub)
    BY FS_Interval, FlowAssumption DEF Pub
  <2>2. IsFiniteSet(Copy)
    BY <2>1, FS_Product, FlowAssumption DEF Copy
  <2> QED BY <2>2, FS_Subset
<1>2. l \in Seq(R) /\ Range(l) = R /\ \A i, j \in 1 .. Len(l) : l[i] = l[j] => i = j
  BY <1>1, SetToSeqFacts
<1> HIDE DEF l
<1>3. l \in Seq(Copy)
  BY <1>2
<1> QED BY <1>2, <1>3 DEF l

-----------------------------------------------------------------------------
LEMMA StagesInit == Init => StagesInv
<1> SUFFICES ASSUME Init PROVE StagesInv
  OBVIOUS
<1>1. EmptyQueue \in RetryQueueOf(Message) /\ EmptyQueue \in RetryQueueOf(Copy)
  BY DEF EmptyQueue, RetryQueueOf
<1>2. work_retry \in RetryQueueOf(Message) /\ post_retry \in RetryQueueOf(Copy)
  BY <1>1 DEF Init
<1>3. TypeOK
  <2>1. o \in Options /\ broker \in [Message -> {"ready", "unacked", "acked"}]
    BY DEF Init
  <2>2. \A l \in {incoming, filtered, rejected, failed, ok} : l \in Seq(Message \X BOOLEAN)
    <3>1. incoming = <<>> /\ filtered = <<>> /\ rejected = <<>> /\ failed = <<>> /\ ok = <<>>
      BY DEF Init
    <3>2. <<>> \in Seq(Message \X BOOLEAN)
      OBVIOUS
    <3> QED BY <3>1, <3>2
  <2>3. posting \in Seq(Copy) /\ postFailed \in Seq(Copy)
    BY DEF Init
  <2>4. posted \in [Copy -> 0 .. MaxPosted] /\ refused \subseteq Message /\ lost \subseteq Message
    BY DEF Init, MaxPosted
  <2>5. {stop_requested, stopping, have_vip} \subseteq BOOLEAN /\ pc = "loop"
    BY DEF Init
  <2> QED BY <1>2, <2>1, <2>2, <2>3, <2>4, <2>5 DEF TypeOK, RetryQueueOf
<1> QED BY <1>2, <1>3 DEF Init, StagesInv

(* The steps of a pass between the stages: housekeeping, and what is only control. *)
HousekeepingStep ==
    /\ work_retry' = work_retry \/ work_retry' = housekeepWork(work_retry)
    /\ post_retry' = post_retry \/ HousekeepPost(post_retry, post_retry')

LEMMA HousekeepingType ==
    ASSUME StagesInv, HousekeepingStep
    PROVE  work_retry' \in RetryQueueOf(Message) /\ post_retry' \in RetryQueueOf(Copy)
<1>1. work_retry \in RetryQueueOf(Message) /\ post_retry \in RetryQueueOf(Copy)
  BY DEF StagesInv
<1>2. work_retry' \in RetryQueueOf(Message)
  BY <1>1, HousekeepingFacts DEF HousekeepingStep
<1>3. post_retry' \in RetryQueueOf(Copy)
  BY <1>1, HousekeepingFacts DEF HousekeepingStep
<1> QED BY <1>2, <1>3

LEMMA StagesStep == ASSUME StagesInv, [Next]_vars PROVE StagesInv'
<1>a. /\ TypeOK /\ work_retry \in RetryQueueOf(Message) /\ post_retry \in RetryQueueOf(Copy)
      /\ o \in Options /\ broker \in [Message -> {"ready", "unacked", "acked"}]
      /\ incoming \in Seq(Message \X BOOLEAN) /\ filtered \in Seq(Message \X BOOLEAN)
      /\ rejected \in Seq(Message \X BOOLEAN) /\ failed \in Seq(Message \X BOOLEAN) /\ ok \in Seq(Message \X BOOLEAN)
      /\ posting \in Seq(Copy) /\ postFailed \in Seq(Copy)
      /\ {stop_requested, stopping, have_vip} \subseteq BOOLEAN
      /\ posted \in [Copy -> 0 .. MaxPosted] /\ refused \subseteq Message /\ lost \subseteq Message
  BY DEF StagesInv, TypeOK
(* The types of what a step leaves alone, and those it has to establish. *)
<1> DEFINE Lists == /\ incoming' \in Seq(Message \X BOOLEAN) /\ filtered' \in Seq(Message \X BOOLEAN)
                    /\ rejected' \in Seq(Message \X BOOLEAN) /\ failed' \in Seq(Message \X BOOLEAN)
                    /\ ok' \in Seq(Message \X BOOLEAN) /\ posting' \in Seq(Copy) /\ postFailed' \in Seq(Copy)
           Queues == work_retry' \in RetryQueueOf(Message) /\ post_retry' \in RetryQueueOf(Copy)
           Others == /\ o' \in Options /\ broker' \in [Message -> {"ready", "unacked", "acked"}]
                     /\ stop_requested' \in BOOLEAN /\ stopping' \in BOOLEAN /\ have_vip' \in BOOLEAN
                     /\ posted' \in [Copy -> 0 .. MaxPosted] /\ refused' \subseteq Message /\ lost' \subseteq Message
                     /\ pc' \in {"loop", "gather", "filter", "work", "after_work", "post", "end", "closed", "down"}
           Empty == /\ pc' \notin {"filter", "work"} => incoming' = <<>>
                    /\ pc' # "filter" => filtered' = <<>>
                    /\ pc' \notin {"filter", "work", "after_work"} => rejected' = <<>> /\ failed' = <<>>
                    /\ pc' # "work" => ok' = <<>>
                    /\ pc' \notin {"after_work", "post"} => posting' = <<>>
                    /\ pc' # "post" => postFailed' = <<>>
                    /\ pc' = "after_work" => Msgs(rejected') \subseteq refused'
<1>b. Lists /\ Queues /\ Others /\ Empty => StagesInv'
  <2>1. Msgs(rejected)' = Msgs(rejected')
    BY DEF Msgs
  <2>2. Lists /\ Queues /\ Others => TypeOK'
    BY DEF TypeOK, RetryQueueOf
  <2> QED BY <2>1, <2>2 DEF StagesInv, RetryQueueOf
<1>c. UNCHANGED o \/ UNCHANGED vars
  BY DEF Next
<1> HIDE DEF Lists, Queues, Others, Empty
<1>1. CASE UNCHANGED vars
  <2>1. UNCHANGED <<worklists, queues>> /\ UNCHANGED <<o, broker, stop_requested, stopping, have_vip, posted, refused, lost, pc>>
    BY <1>1 DEF vars, control, history
  <2>2. Lists /\ Empty
    BY <1>a, <2>1 DEF Lists, Empty, StagesInv, worklists
  <2>3. Queues /\ Others
    BY <1>a, <2>1 DEF Queues, Others, queues, TypeOK
  <2> QED BY <1>b, <2>2, <2>3
<1>2. CASE UNCHANGED o /\ BeginPass
  <2>1. /\ pc = "loop" /\ stopping' = stop_requested /\ incoming' = <<>> /\ have_vip' \in Vip
        /\ pc' \in {"end", "filter", "gather"}
        /\ UNCHANGED <<o, broker, filtered, rejected, failed, ok, posting, postFailed, stop_requested, posted, refused, lost>>
    BY <1>2 DEF BeginPass, history
  <2>2. HousekeepingStep
    BY <1>2 DEF BeginPass, HousekeepingStep, _runHousekeeping, queues
  <2>3. Queues
    BY <2>2, HousekeepingType DEF Queues
  <2>4. Lists
    BY <1>a, <2>1 DEF Lists
  <2>5. Others
    BY <1>a, <2>1, FlowAssumption DEF Others
  <2>6. Empty
    BY <2>1 DEF Empty, StagesInv
  <2> QED BY <1>b, <2>3, <2>4, <2>5, <2>6
<1>3. CASE UNCHANGED o /\ Close
  <2>1. /\ pc = "loop" /\ pc' = "closed" /\ UNCHANGED <<worklists, queues>>
        /\ broker' = [m \in Message |-> IF broker[m] = "unacked" THEN "ready" ELSE broker[m]]
        /\ UNCHANGED <<o, stop_requested, stopping, have_vip, posted, refused, lost>>
    BY <1>3 DEF Close, history
  <2>2. Lists /\ Queues
    BY <1>a, <2>1 DEF Lists, Queues, worklists, queues
  <2>3. Others
    BY <1>a, <2>1 DEF Others
  <2>4. Empty
    BY <2>1 DEF Empty, StagesInv, worklists
  <2> QED BY <1>b, <2>2, <2>3, <2>4
<1>4. CASE UNCHANGED o /\ Gather
  <2>1. /\ pc = "gather" /\ pc' = "filter"
        /\ UNCHANGED <<o, filtered, rejected, failed, ok, posting, postFailed, post_retry, stop_requested, stopping, have_vip, posted, refused, lost>>
    BY <1>4 DEF Gather, history
  <2>2. PICK S \in SUBSET Message, R \in SUBSET work_retry.cur :
            /\ broker' = [m \in Message |-> IF m \in S THEN "unacked" ELSE broker[m]]
            /\ incoming' = SetToSeq(S \X {TRUE}) \o SetToSeq(R \X {FALSE})
            /\ work_retry' = GetRetry(work_retry, R)
    BY <1>4 DEF Gather, Got
  <2>3. R \in SUBSET Message
    BY <1>a DEF RetryQueueOf
  <2>4. incoming' \in Seq(Message \X BOOLEAN)
    <3>1. SetToSeq(S \X {TRUE}) \in Seq(Message \X BOOLEAN) /\ SetToSeq(R \X {FALSE}) \in Seq(Message \X BOOLEAN)
      BY <2>3, GatheredFacts
    <3> QED BY <2>2, <3>1, JoinFacts
  <2>5. Lists
    BY <1>a, <2>1, <2>4 DEF Lists
  <2>6. Queues
    BY <1>a, <2>1, <2>2, GetFacts DEF Queues
  <2>7. Others
    BY <1>a, <2>1, <2>2 DEF Others
  <2>8. Empty
    BY <2>1 DEF Empty, StagesInv
  <2> QED BY <1>b, <2>5, <2>6, <2>7, <2>8
<1>5. CASE UNCHANGED o /\ FilterOne
  <2>1. /\ pc = "filter" /\ incoming # <<>> /\ incoming' = Tail(incoming) /\ pc' = pc
        /\ UNCHANGED <<o, broker, ok, posting, postFailed, queues, stop_requested, stopping, have_vip, posted, refused, lost>>
    BY <1>5 DEF FilterOne, control, history
  <2>2. /\ filtered' = filtered \/ filtered' = Append(filtered, Head(incoming))
        /\ rejected' = rejected \/ rejected' = Append(rejected, Head(incoming))
        /\ failed' = failed \/ failed' = Append(failed, Head(incoming))
    BY <1>5 DEF FilterOne
  <2>3. Head(incoming) \in Message \X BOOLEAN /\ Tail(incoming) \in Seq(Message \X BOOLEAN)
    BY <1>a, <2>1, RangeFacts
  <2>4. Lists
    <3>1. \A l \in Seq(Message \X BOOLEAN) : Append(l, Head(incoming)) \in Seq(Message \X BOOLEAN)
      BY <2>3
    <3>2. filtered' \in Seq(Message \X BOOLEAN) /\ rejected' \in Seq(Message \X BOOLEAN) /\ failed' \in Seq(Message \X BOOLEAN)
      BY <1>a, <2>2, <3>1
    <3> QED BY <1>a, <2>1, <2>3, <3>2 DEF Lists
  <2>5. Queues /\ Others
    BY <1>a, <2>1 DEF Queues, Others, queues
  <2>6. Empty
    BY <2>1 DEF Empty, StagesInv
  <2> QED BY <1>b, <2>4, <2>5, <2>6
<1>6. CASE UNCHANGED o /\ AfterAccept
  <2>1. /\ pc = "filter" /\ incoming = <<>> /\ pc' = "work" /\ filtered' = <<>> /\ rejected' = <<>>
        /\ broker' = Acked(Acked(broker, rejected), failed) /\ refused' = refused \cup Msgs(rejected)
        /\ UNCHANGED <<o, failed, ok, posting, postFailed, post_retry, stop_requested, stopping, have_vip, posted, lost>>
    BY <1>6 DEF AfterAccept
  <2>2. PICK R \in SUBSET work_retry.cur :
            incoming' = filtered \o SetToSeq(R \X {FALSE}) /\ work_retry' = GetRetry(work_retry, R)
    BY <1>6 DEF AfterAccept, Got
  <2>3. R \in SUBSET Message
    BY <1>a DEF RetryQueueOf
  <2>4. incoming' \in Seq(Message \X BOOLEAN)
    <3>1. SetToSeq(R \X {FALSE}) \in Seq(Message \X BOOLEAN)
      BY <2>3, GatheredFacts
    <3> QED BY <1>a, <2>2, <3>1, JoinFacts
  <2>5. Lists
    BY <1>a, <2>1, <2>4 DEF Lists
  <2>6. Queues
    BY <1>a, <2>1, <2>2, GetFacts DEF Queues
  <2>7. Msgs(rejected) \subseteq Message
    BY <1>a, MsgsFacts
  <2>8. broker' \in [Message -> {"ready", "unacked", "acked"}]
    BY <1>a, <2>1 DEF Acked
  <2>9. Others
    BY <1>a, <2>1, <2>7, <2>8 DEF Others
  <2>10. Empty
    BY <2>1 DEF Empty, StagesInv
  <2> QED BY <1>b, <2>5, <2>6, <2>9, <2>10
<1>7. CASE UNCHANGED o /\ DoOne
  <2>1. /\ pc = "work" /\ incoming # <<>> /\ incoming' = Tail(incoming) /\ pc' = pc
        /\ UNCHANGED <<o, broker, filtered, posting, postFailed, queues, stop_requested, stopping, have_vip, posted, refused, lost>>
    BY <1>7 DEF DoOne, control, history
  <2>2. \E was \in {ok, Append(ok, Head(incoming))} :
            /\ ok' = was \/ ok' = Append(was, Head(incoming))
            /\ rejected' = rejected \/ rejected' = Append(rejected, Head(incoming))
            /\ failed' = failed \/ failed' = Append(failed, Head(incoming))
    BY <1>7 DEF DoOne
  <2>3. Head(incoming) \in Message \X BOOLEAN /\ Tail(incoming) \in Seq(Message \X BOOLEAN)
    BY <1>a, <2>1, RangeFacts
  <2>4. \A l \in Seq(Message \X BOOLEAN) : Append(l, Head(incoming)) \in Seq(Message \X BOOLEAN)
    BY <2>3
  <2>5. ok' \in Seq(Message \X BOOLEAN) /\ rejected' \in Seq(Message \X BOOLEAN) /\ failed' \in Seq(Message \X BOOLEAN)
    BY <1>a, <2>2, <2>4
  <2>6. Lists
    BY <1>a, <2>1, <2>3, <2>5 DEF Lists
  <2>7. Queues /\ Others
    BY <1>a, <2>1 DEF Queues, Others, queues
  <2>8. Empty
    BY <2>1 DEF Empty, StagesInv
  <2> QED BY <1>b, <2>6, <2>7, <2>8
<1>8. CASE UNCHANGED o /\ WorkAck
  <2>1. /\ pc = "work" /\ incoming = <<>> /\ pc' = "after_work" /\ posting' = copies(ok) /\ ok' = <<>>
        /\ broker' = Acked(Acked(Acked(broker, ok), rejected), failed) /\ refused' = refused \cup Msgs(rejected)
        /\ UNCHANGED <<o, incoming, filtered, rejected, failed, postFailed, queues, stop_requested, stopping, have_vip, posted, lost>>
    BY <1>8 DEF WorkAck
  <2>2. copies(ok) \in Seq(Copy) /\ Msgs(rejected) \subseteq Message
    BY <1>a, CopiesFacts, MsgsFacts
  <2>3. Lists /\ Queues
    BY <1>a, <2>1, <2>2 DEF Lists, Queues, queues
  <2>4. broker' \in [Message -> {"ready", "unacked", "acked"}]
    BY <1>a, <2>1 DEF Acked
  <2>5. Others
    BY <1>a, <2>1, <2>2, <2>4 DEF Others
  <2>6. Empty
    BY <2>1 DEF Empty, StagesInv
  <2> QED BY <1>b, <2>3, <2>5, <2>6
<1>9. CASE UNCHANGED o /\ AfterWork
  <2>1. /\ pc = "after_work" /\ pc' = "post" /\ work_retry' = PutRetry(work_retry, Msgs(failed)) /\ failed' = <<>> /\ rejected' = <<>>
        /\ UNCHANGED <<o, broker, incoming, filtered, ok, postFailed, stop_requested, stopping, have_vip, posted, refused, lost>>
    BY <1>9 DEF AfterWork, putFailed, history
  <2>2. PICK R \in SUBSET post_retry.cur :
            posting' = posting \o SetToSeq(R) /\ post_retry' = GetRetry(post_retry, R)
    BY <1>9 DEF AfterWork, Got
  <2>3. Msgs(failed) \subseteq Message /\ R \in SUBSET Copy
    BY <1>a, MsgsFacts DEF RetryQueueOf
  <2>4. SetToSeq(R) \in Seq(Copy)
    BY <2>3, RetriedFacts
  <2>5. posting' \in Seq(Copy)
    BY <1>a, <2>2, <2>4, JoinFacts
  <2>6. Lists
    BY <1>a, <2>1, <2>5 DEF Lists
  <2>7. work_retry' \in RetryQueueOf(Message)
    BY <1>a, <2>1, <2>3, PutFacts
  <2>8. post_retry' \in RetryQueueOf(Copy)
    BY <1>a, <2>2, GetFacts
  <2>9. Others
    BY <1>a, <2>1 DEF Others
  <2>10. Empty
    BY <2>1 DEF Empty, StagesInv
  <2> QED BY <1>b, <2>6, <2>7, <2>8, <2>9, <2>10 DEF Queues
<1>10. CASE UNCHANGED o /\ PostOne
  <2>1. /\ pc = "post" /\ posting # <<>> /\ posting' = Tail(posting) /\ pc' = pc
        /\ UNCHANGED <<o, broker, incoming, filtered, rejected, failed, ok, queues, stop_requested, stopping, have_vip, refused, lost>>
    BY <1>10 DEF PostOne, control
  <2>2. \/ postFailed' = postFailed /\ posted' = [posted EXCEPT ![Head(posting)] = IF @ < MaxPosted THEN @ + 1 ELSE @]
        \/ postFailed' = Append(postFailed, Head(posting)) /\ posted' = posted
    BY <1>10 DEF PostOne
  <2>3. Head(posting) \in Copy /\ Tail(posting) \in Seq(Copy)
    BY <1>a, <2>1, RangeFacts
  <2>4. posted' \in [Copy -> 0 .. MaxPosted]
    BY <1>a, <2>2, <2>3, SMTT(30) DEF MaxPosted
  <2>5. Lists
    <3>1. Append(postFailed, Head(posting)) \in Seq(Copy)
      BY <1>a, <2>3
    <3>2. postFailed' \in Seq(Copy)
      BY <1>a, <2>2, <3>1
    <3> QED BY <1>a, <2>1, <2>3, <3>2 DEF Lists
  <2>6. Queues /\ Others
    BY <1>a, <2>1, <2>4 DEF Queues, Others, queues
  <2>7. Empty
    BY <2>1 DEF Empty, StagesInv
  <2> QED BY <1>b, <2>5, <2>6, <2>7
<1>11. CASE UNCHANGED o /\ AfterPost
  <2>1. /\ pc = "post" /\ posting = <<>> /\ pc' = "end" /\ postFailed' = <<>> /\ post_retry' = PutRetry(post_retry, Range(postFailed))
        /\ UNCHANGED <<o, broker, incoming, filtered, rejected, failed, ok, posting, work_retry, stop_requested, stopping, have_vip, posted, refused, lost>>
    BY <1>11 DEF AfterPost, emptyWorklists, history
  <2>2. Range(postFailed) \subseteq Copy
    <3>1. Range(postFailed) = {postFailed[i] : i \in 1 .. Len(postFailed)} /\ \A i \in 1 .. Len(postFailed) : postFailed[i] \in Copy
      BY <1>a, RangeEquality
    <3> QED BY <3>1
  <2>3. Queues
    BY <1>a, <2>1, <2>2, PutFacts DEF Queues
  <2>4. Lists /\ Others
    BY <1>a, <2>1 DEF Lists, Others
  <2>5. Empty
    BY <2>1 DEF Empty, StagesInv
  <2> QED BY <1>b, <2>3, <2>4, <2>5
<1>12. CASE UNCHANGED o /\ EndPass
  <2>1. pc = "end" /\ pc' = "loop" /\ UNCHANGED <<o, broker, worklists, stop_requested, stopping, have_vip, posted, refused, lost>>
    BY <1>12 DEF EndPass, history
  <2>2. HousekeepingStep
    BY <1>12 DEF EndPass, HousekeepingStep, _runHousekeeping, queues
  <2>3. Queues
    BY <2>2, HousekeepingType DEF Queues
  <2>4. Lists /\ Others
    BY <1>a, <2>1 DEF Lists, Others, worklists
  <2>5. Empty
    BY <2>1 DEF Empty, StagesInv, worklists
  <2> QED BY <1>b, <2>3, <2>4, <2>5
<1>13. CASE UNCHANGED o /\ (StopRequest \/ Reconnect)
  <2>1. /\ UNCHANGED <<o, worklists, queues, stopping, have_vip, pc, posted, refused, lost>>
        /\ broker' = broker \/ broker' = redelivered
        /\ stop_requested' = stop_requested \/ stop_requested' = TRUE
    BY <1>13 DEF StopRequest, Reconnect, control, history
  <2>2. redelivered \in [Message -> {"ready", "unacked", "acked"}]
    BY <1>a DEF redelivered
  <2>3. Lists /\ Queues
    BY <1>a, <2>1 DEF Lists, Queues, worklists, queues
  <2>4. Others
    BY <1>a, <2>1, <2>2 DEF Others, TypeOK
  <2>5. Empty
    BY <2>1 DEF Empty, StagesInv, worklists
  <2> QED BY <1>b, <2>3, <2>4, <2>5
<1>14. CASE UNCHANGED o /\ Kill
  <2>1. /\ incoming' = <<>> /\ filtered' = <<>> /\ rejected' = <<>> /\ failed' = <<>> /\ ok' = <<>>
        /\ posting' = <<>> /\ postFailed' = <<>> /\ broker' = redelivered /\ pc' = "down"
        /\ UNCHANGED <<o, queues, stop_requested, stopping, have_vip, posted, refused>>
    BY <1>14 DEF Kill
  <2>2. lost' \subseteq Message
    BY <1>a, <1>14 DEF Kill
  <2>3. redelivered \in [Message -> {"ready", "unacked", "acked"}]
    BY <1>a DEF redelivered
  <2>4. Lists
    BY <2>1 DEF Lists
  <2>5. Queues /\ Others
    BY <1>a, <2>1, <2>2, <2>3 DEF Queues, Others, queues
  <2>6. Empty
    BY <2>1 DEF Empty
  <2> QED BY <1>b, <2>4, <2>5, <2>6
<1>15. CASE UNCHANGED o /\ Restart
  <2>1. /\ pc \in {"closed", "down"} /\ pc' = "loop" /\ stop_requested' = FALSE /\ stopping' = FALSE
        /\ work_retry' = Reopen(work_retry) /\ post_retry' = Reopen(post_retry)
        /\ UNCHANGED <<o, broker, worklists, have_vip, posted, refused, lost>>
    BY <1>15 DEF Restart, running, history
  <2>2. Queues
    BY <1>a, <2>1, ReopenFacts DEF Queues
  <2>3. Lists /\ Others
    BY <1>a, <2>1 DEF Lists, Others, worklists
  <2>4. Empty
    BY <2>1 DEF Empty, StagesInv, worklists
  <2> QED BY <1>b, <2>2, <2>3, <2>4
<1> QED BY <1>1, <1>2, <1>3, <1>4, <1>5, <1>6, <1>7, <1>8, <1>9, <1>10, <1>11, <1>12, <1>13, <1>14, <1>15 DEF Next, Stage

LEMMA StagesInvariant == Spec => []StagesInv
<1> QED BY StagesInit, StagesStep, PTL DEF Spec

(* Between passes nothing is left in a worklist that only memory holds. *)
THEOREM NothingLeft == Spec => []NothingLeftInMemory
<1>1. StagesInv => NothingLeftInMemory
  BY DEF StagesInv, NothingLeftInMemory
<1> QED BY <1>1, StagesInvariant, PTL

-----------------------------------------------------------------------------
(* No acknowledged message is dropped. *)
Held == Msgs(incoming) \cup Msgs(filtered) \cup Msgs(rejected) \cup Msgs(failed) \cup Msgs(ok)
Copies == Range(posting) \cup Range(postFailed)

LEMMA NextHeld ==
    /\ Held' = Msgs(incoming') \cup Msgs(filtered') \cup Msgs(rejected') \cup Msgs(failed') \cup Msgs(ok')
    /\ Copies' = Range(posting') \cup Range(postFailed')
BY DEF Held, Copies, Msgs, Range

(* What the steps of a running instance have to keep. *)
LEMMA CareKept ==
    ASSUME NEW m \in Message, NEW p \in Pub, Cared(m, p), running, running',
           posted[<<m, p>>] > 0 => posted'[<<m, p>>] > 0,
           m \in refused => m \in refused', m \in lost => m \in lost',
           m \in Held => m \in Held' \/ m \in refused' \/ m \in work_retry'.new \/ <<m, p>> \in Copies',
           <<m, p>> \in Copies => <<m, p>> \in Copies' \/ <<m, p>> \in post_retry'.new \/ posted'[<<m, p>>] > 0,
           m \in work_retry.cur \cup work_retry.new => m \in work_retry'.cur \cup work_retry'.new \/ m \in Held',
           <<m, p>> \in post_retry.cur \cup post_retry.new =>
               <<m, p>> \in post_retry'.cur \cup post_retry'.new \/ <<m, p>> \in Copies'
    PROVE  Cared(m, p)'
<1>1. \/ posted[<<m, p>>] > 0 \/ m \in refused \/ m \in Held \/ <<m, p>> \in Copies \/ m \in lost
      \/ m \in work_retry.cur \cup work_retry.new \/ <<m, p>> \in post_retry.cur \cup post_retry.new
  BY DEF Cared, Settled, InMemory, Held, Copies, Offers
<1>2. \/ posted'[<<m, p>>] > 0 \/ m \in refused' \/ m \in Held' \/ <<m, p>> \in Copies' \/ m \in lost'
      \/ m \in work_retry'.cur \cup work_retry'.new \/ <<m, p>> \in post_retry'.cur \cup post_retry'.new
  BY <1>1
<1> QED BY <1>2 DEF Cared, Settled, InMemory, Held, Copies, Offers

(* No two publishers announce the same baseUrl: copies for one and the other have other keys. *)
KeysTellPublisher == ~ sameUrl \/ NPub <= 1

(* A housekeeping loses no message, and no copy whose key names its publisher. *)
LEMMA HousekeepingKeeps ==
    ASSUME StagesInv, HousekeepingStep, KeysTellPublisher
    PROVE  /\ work_retry.cur \cup work_retry.new \subseteq work_retry'.cur \cup work_retry'.new
           /\ post_retry.cur \cup post_retry.new \subseteq post_retry'.cur \cup post_retry'.new
<1>1. work_retry \in RetryQueueOf(Message) /\ post_retry \in RetryQueueOf(Copy)
  BY DEF StagesInv
<1>2. work_retry.cur \cup work_retry.new \subseteq work_retry'.cur \cup work_retry'.new
  <2>1. \/ housekeepWork(work_retry) = work_retry
        \/ work_retry.cur = {} /\ housekeepWork(work_retry).cur = work_retry.new
    BY <1>1, HousekeepingFacts
  <2> QED BY <2>1 DEF HousekeepingStep
<1>3. CASE post_retry' = post_retry
  BY <1>2, <1>3
<1>4. CASE HousekeepPost(post_retry, post_retry')
  <2>1. \A c \in post_retry.new : \E d \in post_retry.cur \cup post_retry'.cur \cup post_retry'.new :
            d = c \/ (post_retry.cur = {} /\ d \in post_retry.new /\ sameKey(c, d))
    BY <1>1, <1>4, HousekeepingFacts
  <2>2. \A c, d \in Copy : sameKey(c, d) => c = d
    <3> SUFFICES ASSUME NEW c \in Copy, NEW d \in Copy, sameKey(c, d) PROVE c = d
      OBVIOUS
    <3>1. c[1] = d[1] /\ (sameUrl \/ c[2] = d[2]) /\ c = <<c[1], c[2]>> /\ d = <<d[1], d[2]>> /\ c[2] \in Pub /\ d[2] \in Pub
      BY DEF sameKey, Copy
    <3>2. CASE NPub <= 1
      <4>1. \A q \in Pub : q = 0
        BY <3>2, FlowAssumption DEF Pub
      <4> QED BY <3>1, <4>1
    <3> QED BY <3>1, <3>2 DEF KeysTellPublisher
  <2>3. post_retry' = post_retry \/ (post_retry.cur = {} /\ post_retry'.cur \subseteq post_retry.new)
    BY <1>1, <1>4, HousekeepingFacts
  <2>4. post_retry.new \subseteq Copy
    BY <1>1 DEF RetryQueueOf
  <2>5. post_retry.new \subseteq post_retry'.cur \cup post_retry'.new
    <3> SUFFICES ASSUME NEW c \in post_retry.new, post_retry.cur = {} PROVE c \in post_retry'.cur \cup post_retry'.new
      BY <2>3
    <3>1. PICK d \in post_retry'.cur \cup post_retry'.new : d = c \/ (d \in post_retry.new /\ sameKey(c, d))
      BY <2>1
    <3>2. d = c
      BY <2>2, <2>4, <3>1
    <3> QED BY <3>1, <3>2
  <2> QED BY <1>2, <2>3, <2>5
<1> QED BY <1>3, <1>4 DEF HousekeepingStep

(* What an acknowledgement of a list does. *)
LEMMA AckedFacts ==
    ASSUME NEW b \in [Message -> {"ready", "unacked", "acked"}], NEW l \in Seq(Message \X BOOLEAN)
    PROVE  /\ Acked(b, l) \in [Message -> {"ready", "unacked", "acked"}]
           /\ \A m \in Message : /\ Acked(b, l)[m] = "acked" => b[m] = "acked" \/ m \in Msgs(l)
                                 /\ Acked(b, l)[m] # "acked" => Acked(b, l)[m] = b[m]
                                 /\ <<m, TRUE>> \in Range(l) => Acked(b, l)[m] # "unacked"
<1>1. \A m \in Message : Acked(b, l)[m] = IF b[m] = "unacked" /\ <<m, TRUE>> \in Range(l) THEN "acked" ELSE b[m]
  BY DEF Acked
<1>2. \A m \in Message : <<m, TRUE>> \in Range(l) => m \in Msgs(l)
  <2> SUFFICES ASSUME NEW m \in Message, <<m, TRUE>> \in Range(l) PROVE m \in Msgs(l)
    OBVIOUS
  <2>1. Msgs(l) = {e[1] : e \in Range(l)}
    BY MsgsFacts
  <2>2. <<m, TRUE>>[1] = m
    OBVIOUS
  <2> QED BY <2>1, <2>2
<1>3. Acked(b, l) \in [Message -> {"ready", "unacked", "acked"}]
  BY DEF Acked
<1> QED BY <1>1, <1>2, <1>3

(* What the callbacks do to the two queues. *)
LEMMA WorkGet ==
    ASSUME StagesInv, NEW R \in SUBSET work_retry.cur
    PROVE  /\ GetRetry(work_retry, R) \in RetryQueueOf(Message) /\ R \in SUBSET Message
           /\ GetRetry(work_retry, R).cur = work_retry.cur \ R /\ GetRetry(work_retry, R).new = work_retry.new
<1>1. work_retry \in RetryQueueOf(Message)
  BY DEF StagesInv
<1> QED BY <1>1, GetFacts

LEMMA PostGet ==
    ASSUME StagesInv, NEW R \in SUBSET post_retry.cur
    PROVE  /\ GetRetry(post_retry, R) \in RetryQueueOf(Copy) /\ R \in SUBSET Copy
           /\ GetRetry(post_retry, R).cur = post_retry.cur \ R /\ GetRetry(post_retry, R).new = post_retry.new
<1>1. post_retry \in RetryQueueOf(Copy)
  BY DEF StagesInv
<1> QED BY <1>1, GetFacts

LEMMA WorkPut ==
    ASSUME StagesInv, NEW S \in SUBSET Message
    PROVE  /\ PutRetry(work_retry, S) \in RetryQueueOf(Message)
           /\ PutRetry(work_retry, S).cur = work_retry.cur /\ PutRetry(work_retry, S).new = work_retry.new \cup S
<1>1. work_retry \in RetryQueueOf(Message)
  BY DEF StagesInv
<1> QED BY <1>1, PutFacts

LEMMA PostPut ==
    ASSUME StagesInv, NEW S \in SUBSET Copy
    PROVE  /\ PutRetry(post_retry, S) \in RetryQueueOf(Copy)
           /\ PutRetry(post_retry, S).cur = post_retry.cur /\ PutRetry(post_retry, S).new = post_retry.new \cup S
<1>1. post_retry \in RetryQueueOf(Copy)
  BY DEF StagesInv
<1> QED BY <1>1, PutFacts

LEMMA CareStep ==
    ASSUME StagesInv, CareInv, [Next]_vars, KeysTellPublisher
    PROVE  CareInv'
<1>q. work_retry \in RetryQueueOf(Message) /\ post_retry \in RetryQueueOf(Copy)
  BY DEF StagesInv
<1>t. broker \in [Message -> {"ready", "unacked", "acked"}]
  BY DEF StagesInv, TypeOK
<1>l. /\ incoming \in Seq(Message \X BOOLEAN) /\ filtered \in Seq(Message \X BOOLEAN)
      /\ rejected \in Seq(Message \X BOOLEAN) /\ failed \in Seq(Message \X BOOLEAN) /\ ok \in Seq(Message \X BOOLEAN)
  BY DEF StagesInv, TypeOK
<1>p. posting \in Seq(Copy) /\ postFailed \in Seq(Copy)
  BY DEF StagesInv, TypeOK
<1>n. posted \in [Copy -> 0 .. MaxPosted]
  BY DEF StagesInv, TypeOK
<1>b. Msgs(<<>>) = {} /\ Range(<<>>) = {}
  BY DEF Msgs, Range
<1>c. SUFFICES ASSUME NEW m \in Message \ RenameAway, NEW p \in Pub, broker'[m] = "acked" PROVE Cared(m, p)'
  BY DEF CareInv
<1>d. broker[m] = "acked" => Cared(m, p)
  BY <1>c DEF CareInv
<1>e. <<m, p>> \in Copy
  BY DEF Copy
<1>1. CASE UNCHANGED vars
  <2>1. UNCHANGED <<broker, incoming, filtered, rejected, failed, ok, posting, postFailed, work_retry, post_retry, pc, posted, refused, lost>>
    BY <1>1 DEF vars, worklists, queues, control, history
  <2>2. Cared(m, p)' = Cared(m, p)
    BY <2>1 DEF Cared, Settled, InMemory, Offers, Entries, Msgs, Range, running
  <2> QED BY <1>c, <1>d, <2>1, <2>2
<1>2. CASE UNCHANGED o /\ (BeginPass \/ EndPass)
  <2>1. /\ pc \in {"loop", "end"} /\ pc' \in {"loop", "end", "filter", "gather"} /\ incoming' = incoming
        /\ UNCHANGED <<broker, filtered, rejected, failed, ok, posting, postFailed, posted, refused, lost>>
    BY <1>2 DEF BeginPass, EndPass, worklists, history, StagesInv
  <2>2. HousekeepingStep
    BY <1>2 DEF BeginPass, EndPass, HousekeepingStep, _runHousekeeping, queues
  <2>3. Held' = Held /\ Copies' = Copies
    BY <2>1, NextHeld DEF Held, Copies
  <2>4. running /\ running'
    BY <2>1 DEF running
  <2> QED BY <1>c, <1>d, <2>1, <2>2, <2>3, <2>4, HousekeepingKeeps, CareKept
<1>3. CASE UNCHANGED o /\ Close
  <2>1. /\ pc = "loop" /\ pc' = "closed"
        /\ broker' = [x \in Message |-> IF broker[x] = "unacked" THEN "ready" ELSE broker[x]]
        /\ UNCHANGED <<incoming, filtered, rejected, failed, ok, posting, postFailed, work_retry, post_retry, posted, refused, lost>>
    BY <1>3 DEF Close, worklists, queues, history
  <2>2. Cared(m, p)
    BY <1>t, <1>c, <1>d, <2>1
  <2> QED BY <2>1, <2>2 DEF Cared, Settled, InMemory, Offers, Entries, Msgs, Range, running
<1>4. CASE UNCHANGED o /\ Gather
  <2>1. /\ pc = "gather" /\ pc' = "filter" /\ incoming = <<>>
        /\ UNCHANGED <<filtered, rejected, failed, ok, posting, postFailed, post_retry, posted, refused, lost>>
    BY <1>4 DEF Gather, history, StagesInv
  <2>2. PICK S \in SUBSET Message, R \in SUBSET work_retry.cur :
            /\ broker' = [x \in Message |-> IF x \in S THEN "unacked" ELSE broker[x]]
            /\ incoming' = SetToSeq(S \X {TRUE}) \o SetToSeq(R \X {FALSE})
            /\ work_retry' = GetRetry(work_retry, R)
    BY <1>4 DEF Gather, Got
  <2>3. R \in SUBSET Message
    BY <1>q DEF RetryQueueOf
  <2>4. Msgs(incoming') = S \cup R
    <3>1. /\ SetToSeq(S \X {TRUE}) \in Seq(Message \X BOOLEAN) /\ Msgs(SetToSeq(S \X {TRUE})) = S
          /\ SetToSeq(R \X {FALSE}) \in Seq(Message \X BOOLEAN) /\ Msgs(SetToSeq(R \X {FALSE})) = R
      BY <2>3, GatheredFacts
    <3>2. Msgs(SetToSeq(S \X {TRUE}) \o SetToSeq(R \X {FALSE})) = Msgs(SetToSeq(S \X {TRUE})) \cup Msgs(SetToSeq(R \X {FALSE}))
      BY <3>1, MsgsJoin
    <3> QED BY <2>2, <3>1, <3>2
  <2>5. work_retry'.cur = work_retry.cur \ R /\ work_retry'.new = work_retry.new
    BY <2>2, WorkGet
  <2>6. Held \subseteq Held' /\ R \subseteq Held' /\ Copies' = Copies
    BY <1>b, <2>1, <2>4, NextHeld DEF Held, Copies
  <2>7. Cared(m, p)
    BY <1>c, <1>d, <2>2
  <2>8. running /\ running'
    BY <2>1 DEF running
  <2> QED BY <2>1, <2>5, <2>6, <2>7, <2>8, CareKept
<1>5. CASE UNCHANGED o /\ FilterOne
  <2>1. /\ pc = "filter" /\ pc' = pc /\ incoming # <<>> /\ incoming' = Tail(incoming)
        /\ UNCHANGED <<broker, ok, posting, postFailed, work_retry, post_retry, posted, refused, lost>>
    BY <1>5 DEF FilterOne, control, history, queues
  <2> DEFINE e == Head(incoming)
  <2>2. \/ filtered' = Append(filtered, e) /\ rejected' = rejected /\ failed' = failed
        \/ rejected' = Append(rejected, e) /\ filtered' = filtered /\ failed' = failed
        \/ failed' = Append(failed, e) /\ filtered' = filtered /\ rejected' = rejected
        \/ e[1] \in RenameAway /\ filtered' = filtered /\ rejected' = rejected /\ failed' = failed
    BY <1>5 DEF FilterOne
  <2>3. e \in Message \X BOOLEAN /\ Msgs(incoming) = {e[1]} \cup Msgs(incoming')
    BY <1>l, <2>1, MsgsHead
  <2>4. /\ Msgs(Append(filtered, e)) = Msgs(filtered) \cup {e[1]}
        /\ Msgs(Append(rejected, e)) = Msgs(rejected) \cup {e[1]}
        /\ Msgs(Append(failed, e)) = Msgs(failed) \cup {e[1]}
    BY <1>l, <2>3, MsgsAppend
  <2> HIDE DEF e
  <2>5. m \in Held => m \in Held'
    BY <1>c, <2>1, <2>2, <2>3, <2>4, NextHeld DEF Held
  <2>6. Copies' = Copies
    BY <2>1, NextHeld DEF Copies
  <2>7. running /\ running'
    BY <2>1 DEF running
  <2> QED BY <1>c, <1>d, <2>1, <2>5, <2>6, <2>7, CareKept
<1>6. CASE UNCHANGED o /\ AfterAccept
  <2>1. /\ pc = "filter" /\ pc' = "work" /\ incoming = <<>> /\ filtered' = <<>> /\ rejected' = <<>>
        /\ broker' = Acked(Acked(broker, rejected), failed) /\ refused' = refused \cup Msgs(rejected)
        /\ UNCHANGED <<failed, ok, posting, postFailed, post_retry, posted, lost>>
    BY <1>6 DEF AfterAccept
  <2>2. PICK R \in SUBSET work_retry.cur :
            incoming' = filtered \o SetToSeq(R \X {FALSE}) /\ work_retry' = GetRetry(work_retry, R)
    BY <1>6 DEF AfterAccept, Got
  <2>3. R \in SUBSET Message
    BY <1>q DEF RetryQueueOf
  <2>4. Msgs(incoming') = Msgs(filtered) \cup R
    <3>1. SetToSeq(R \X {FALSE}) \in Seq(Message \X BOOLEAN) /\ Msgs(SetToSeq(R \X {FALSE})) = R
      BY <2>3, GatheredFacts
    <3>2. Msgs(filtered \o SetToSeq(R \X {FALSE})) = Msgs(filtered) \cup Msgs(SetToSeq(R \X {FALSE}))
      BY <1>l, <3>1, MsgsJoin
    <3> QED BY <2>2, <3>1, <3>2
  <2>5. work_retry'.cur = work_retry.cur \ R /\ work_retry'.new = work_retry.new
    BY <2>2, WorkGet
  <2>6. Held \subseteq Held' \cup refused' /\ R \subseteq Held' /\ Msgs(failed) \subseteq Held' /\ Copies' = Copies
    BY <1>b, <2>1, <2>4, NextHeld DEF Held, Copies
  <2>7. running /\ running'
    BY <2>1 DEF running
  <2>8. CASE broker[m] = "acked"
    BY <1>d, <2>1, <2>5, <2>6, <2>7, <2>8, CareKept
  <2>9. CASE broker[m] # "acked"
    <3>1. m \in Msgs(failed) \cup Msgs(rejected)
      BY <1>t, <1>l, <1>c, <2>1, <2>9, AckedFacts
    <3>2. m \in Held' \/ m \in refused'
      BY <2>1, <2>6, <3>1
    <3> QED BY <3>2 DEF Cared, Settled, InMemory, Held
  <2> QED BY <2>8, <2>9
<1>7. CASE UNCHANGED o /\ DoOne
  <2>1. /\ pc = "work" /\ pc' = pc /\ incoming # <<>> /\ incoming' = Tail(incoming)
        /\ UNCHANGED <<broker, filtered, posting, postFailed, work_retry, post_retry, posted, refused, lost>>
    BY <1>7 DEF DoOne, control, history, queues
  <2>2. PICK e : e = Head(incoming)
    OBVIOUS
  <2>3. PICK was \in {ok, Append(ok, e)} :
            \/ ok' = Append(was, e) /\ rejected' = rejected /\ failed' = failed
            \/ ok' = was /\ rejected' = Append(rejected, e) /\ failed' = failed
            \/ ok' = was /\ failed' = Append(failed, e) /\ rejected' = rejected
    BY <1>7, <2>2 DEF DoOne
  <2>4. e \in Message \X BOOLEAN /\ Msgs(incoming) = {e[1]} \cup Msgs(incoming')
    BY <1>l, <2>1, <2>2, MsgsHead
  <2>5. was \in Seq(Message \X BOOLEAN) /\ Msgs(ok) \subseteq Msgs(was)
    <3>1. was = ok \/ was = Append(ok, e)
      BY <2>3
    <3>2. Append(ok, e) \in Seq(Message \X BOOLEAN) /\ Msgs(Append(ok, e)) = Msgs(ok) \cup {e[1]}
      BY <1>l, <2>4, MsgsAppend
    <3> QED BY <1>l, <3>1, <3>2
  <2>6. /\ Msgs(Append(was, e)) = Msgs(was) \cup {e[1]}
        /\ Msgs(Append(rejected, e)) = Msgs(rejected) \cup {e[1]}
        /\ Msgs(Append(failed, e)) = Msgs(failed) \cup {e[1]}
    BY <1>l, <2>4, <2>5, MsgsAppend
  <2>7. Held \subseteq Held'
    BY <2>1, <2>3, <2>4, <2>5, <2>6, NextHeld DEF Held
  <2>8. Copies' = Copies
    BY <2>1, NextHeld DEF Copies
  <2>9. running /\ running'
    BY <2>1 DEF running
  <2> QED BY <1>c, <1>d, <2>1, <2>7, <2>8, <2>9, CareKept
<1>8. CASE UNCHANGED o /\ WorkAck
  <2>1. /\ pc = "work" /\ pc' = "after_work" /\ posting = <<>> /\ posting' = copies(ok) /\ ok' = <<>>
        /\ broker' = Acked(Acked(Acked(broker, ok), rejected), failed) /\ refused' = refused \cup Msgs(rejected)
        /\ UNCHANGED <<incoming, filtered, rejected, failed, postFailed, work_retry, post_retry, posted, lost>>
    BY <1>8 DEF WorkAck, queues, StagesInv
  <2>2. Range(posting') = Msgs(ok) \X Pub
    BY <1>l, <2>1, CopiesFacts
  <2>3. m \in Msgs(ok) => <<m, p>> \in Copies'
    BY <2>2, NextHeld
  <2>4. m \in Held => m \in Held' \/ <<m, p>> \in Copies'
    BY <2>1, <2>3, NextHeld DEF Held
  <2>5. Copies \subseteq Copies' /\ Msgs(failed) \subseteq Held'
    BY <1>b, <2>1, NextHeld DEF Copies
  <2>6. running /\ running'
    BY <2>1 DEF running
  <2>7. CASE broker[m] = "acked"
    BY <1>d, <2>1, <2>4, <2>5, <2>6, <2>7, CareKept
  <2>8. CASE broker[m] # "acked"
    <3>1. m \in Msgs(failed) \cup Msgs(rejected) \cup Msgs(ok)
      <4> DEFINE b1 == Acked(broker, ok)
                 b2 == Acked(b1, rejected)
      <4>1. b1 \in [Message -> {"ready", "unacked", "acked"}] /\ (b1[m] = "acked" => m \in Msgs(ok))
        BY <1>t, <1>l, <2>8, AckedFacts
      <4> HIDE DEF b1
      <4>2. b2 \in [Message -> {"ready", "unacked", "acked"}] /\ (b2[m] = "acked" => b1[m] = "acked" \/ m \in Msgs(rejected))
        BY <1>l, <4>1, AckedFacts
      <4> HIDE DEF b2
      <4>3. Acked(b2, failed)[m] = "acked" => b2[m] = "acked" \/ m \in Msgs(failed)
        BY <1>l, <4>2, AckedFacts
      <4> QED BY <1>c, <2>1, <4>1, <4>2, <4>3 DEF b1, b2
    <3>2. m \in Held' \/ m \in refused' \/ <<m, p>> \in Copies'
      BY <2>1, <2>3, <2>5, <3>1
    <3> QED BY <3>2 DEF Cared, Settled, InMemory, Held, Copies
  <2> QED BY <2>7, <2>8
<1>9. CASE UNCHANGED o /\ AfterWork
  <2>1. /\ pc = "after_work" /\ pc' = "post" /\ work_retry' = PutRetry(work_retry, Msgs(failed)) /\ failed' = <<>> /\ rejected' = <<>>
        /\ Msgs(rejected) \subseteq refused
        /\ UNCHANGED <<broker, incoming, filtered, ok, postFailed, posted, refused, lost>>
    BY <1>9 DEF AfterWork, putFailed, history, StagesInv
  <2>2. PICK R \in SUBSET post_retry.cur :
            posting' = posting \o SetToSeq(R) /\ post_retry' = GetRetry(post_retry, R)
    BY <1>9 DEF AfterWork, Got
  <2>3. R \in SUBSET Copy /\ Msgs(failed) \in SUBSET Message
    BY <1>l, <1>q, MsgsFacts DEF RetryQueueOf
  <2>4. Range(posting') = Range(posting) \cup R
    BY <1>p, <2>2, <2>3, RetriedFacts, JoinFacts
  <2>5. work_retry'.cur = work_retry.cur /\ work_retry'.new = work_retry.new \cup Msgs(failed)
    BY <2>1, <2>3, WorkPut
  <2>6. post_retry'.cur = post_retry.cur \ R /\ post_retry'.new = post_retry.new
    BY <2>2, PostGet
  <2>7. Held \subseteq Held' \cup refused \cup work_retry'.new /\ Copies \subseteq Copies' /\ R \subseteq Copies'
    BY <2>1, <2>4, <2>5, NextHeld DEF Held, Copies
  <2>8. running /\ running'
    BY <2>1 DEF running
  <2> QED BY <1>c, <1>d, <2>1, <2>5, <2>6, <2>7, <2>8, CareKept
<1>10. CASE UNCHANGED o /\ PostOne
  <2>1. /\ pc = "post" /\ pc' = pc /\ posting # <<>> /\ posting' = Tail(posting)
        /\ UNCHANGED <<broker, incoming, filtered, rejected, failed, ok, work_retry, post_retry, refused, lost>>
    BY <1>10 DEF PostOne, control, queues
  <2>2. PICK c : c = Head(posting)
    OBVIOUS
  <2>3. \/ postFailed' = postFailed /\ posted' = [posted EXCEPT ![c] = IF @ < MaxPosted THEN @ + 1 ELSE @]
        \/ postFailed' = Append(postFailed, c) /\ posted' = posted
    BY <1>10, <2>2 DEF PostOne
  <2>4. c \in Copy /\ Range(posting) = {c} \cup Range(posting')
    BY <1>p, <2>1, <2>2, RangeFacts
  <2>5. Range(Append(postFailed, c)) = Range(postFailed) \cup {c}
    BY <1>p, <2>4, RangeFacts
  <2>6. posted[<<m, p>>] \in Nat /\ posted[c] \in Nat
    BY <1>n, <1>e, <2>4 DEF MaxPosted
  <2>7. posted[<<m, p>>] > 0 => posted'[<<m, p>>] > 0
    BY <1>n, <1>e, <2>3, <2>4, <2>6 DEF MaxPosted
  <2>8. <<m, p>> \in Copies => <<m, p>> \in Copies' \/ posted'[<<m, p>>] > 0
    <3>1. CASE postFailed' = postFailed /\ posted' = [posted EXCEPT ![c] = IF @ < MaxPosted THEN @ + 1 ELSE @]
      <4>1. posted'[c] > 0
        BY <1>n, <2>4, <2>6, <3>1 DEF MaxPosted
      <4> QED BY <2>4, <3>1, <4>1, NextHeld DEF Copies
    <3>2. CASE postFailed' = Append(postFailed, c) /\ posted' = posted
      BY <2>4, <2>5, <3>2, NextHeld DEF Copies
    <3> QED BY <2>3, <3>1, <3>2
  <2>9. Held' = Held
    BY <2>1, NextHeld DEF Held
  <2>10. running /\ running'
    BY <2>1 DEF running
  <2> QED BY <1>c, <1>d, <2>1, <2>7, <2>8, <2>9, <2>10, CareKept
<1>11. CASE UNCHANGED o /\ AfterPost
  <2>1. /\ pc = "post" /\ pc' = "end" /\ posting = <<>> /\ postFailed' = <<>> /\ post_retry' = PutRetry(post_retry, Range(postFailed))
        /\ UNCHANGED <<broker, incoming, filtered, rejected, failed, ok, posting, work_retry, posted, refused, lost>>
    BY <1>11 DEF AfterPost, emptyWorklists, history
  <2>2. Range(postFailed) \in SUBSET Copy
    <3>1. Range(postFailed) = {postFailed[i] : i \in 1 .. Len(postFailed)} /\ \A i \in 1 .. Len(postFailed) : postFailed[i] \in Copy
      BY <1>p, RangeEquality
    <3> QED BY <3>1
  <2>3. post_retry'.cur = post_retry.cur /\ post_retry'.new = post_retry.new \cup Range(postFailed)
    BY <2>1, <2>2, PostPut
  <2>4. Held' = Held /\ Copies \subseteq Copies' \cup post_retry'.new
    BY <1>b, <2>1, <2>3, NextHeld DEF Held, Copies
  <2>5. running /\ running'
    BY <2>1 DEF running
  <2> QED BY <1>c, <1>d, <2>1, <2>3, <2>4, <2>5, CareKept
<1>12. CASE UNCHANGED o /\ (StopRequest \/ Reconnect)
  <2>1. /\ UNCHANGED <<incoming, filtered, rejected, failed, ok, posting, postFailed, work_retry, post_retry, pc, posted, refused, lost>>
        /\ broker' = broker \/ broker' = redelivered
    BY <1>12 DEF StopRequest, Reconnect, control, history, worklists, queues
  <2>2. broker[m] = "acked"
    BY <1>t, <1>c, <2>1 DEF redelivered
  <2>3. Cared(m, p)' = Cared(m, p)
    BY <2>1 DEF Cared, Settled, InMemory, Offers, Entries, Msgs, Range, running
  <2> QED BY <1>d, <2>2, <2>3
<1>13. CASE UNCHANGED o /\ Kill
  <2>1. /\ broker' = redelivered /\ pc' = "down" /\ UNCHANGED <<work_retry, post_retry, posted, refused>>
        /\ lost' = lost \cup {x \in Message : broker[x] = "acked" /\ \E q \in Pub : ~ Settled(x, q) /\ ~ OnDisk(x, q)}
    BY <1>13 DEF Kill, queues
  <2>2. broker[m] = "acked"
    BY <1>t, <1>c, <2>1 DEF redelivered
  <2>3. Settled(m, p) \/ OnDisk(m, p) \/ m \in lost'
    BY <2>1, <2>2
  <2>4. ~ running'
    BY <2>1 DEF running
  <2>5. Settled(m, p)' = Settled(m, p)
    BY <2>1 DEF Settled
  <2>6. OnDisk(m, p) => m \in Offers(work_retry)' \/ <<m, p>> \in Offers(post_retry)'
    BY <2>1, <2>4 DEF OnDisk, Offers, Entries
  <2> QED BY <2>3, <2>5, <2>6 DEF Cared
<1>14. CASE UNCHANGED o /\ Restart
  <2>1. /\ pc \in {"closed", "down"} /\ pc' = "loop"
        /\ work_retry' = Reopen(work_retry) /\ post_retry' = Reopen(post_retry)
        /\ UNCHANGED <<broker, incoming, filtered, rejected, failed, ok, posting, postFailed, posted, refused, lost>>
    BY <1>14 DEF Restart, running, history, worklists
  <2>2. /\ work_retry'.cur = work_retry.cur \cup work_retry.behind /\ work_retry'.new = work_retry.new
        /\ post_retry'.cur = post_retry.cur \cup post_retry.behind /\ post_retry'.new = post_retry.new
    BY <1>q, <2>1, ReopenFacts
  <2>3. running' /\ ~ running
    BY <2>1 DEF running
  <2>4. Offers(work_retry)' = Offers(work_retry) /\ Offers(post_retry)' = Offers(post_retry)
    BY <2>2, <2>3 DEF Offers, Entries
  <2>5. Settled(m, p)' = Settled(m, p) /\ InMemory(m, p)' = InMemory(m, p)
    BY <2>1 DEF Settled, InMemory, Msgs, Range
  <2> QED BY <1>c, <1>d, <2>1, <2>4, <2>5 DEF Cared
<1> QED BY <1>1, <1>2, <1>3, <1>4, <1>5, <1>6, <1>7, <1>8, <1>9, <1>10, <1>11, <1>12, <1>13, <1>14 DEF Next, Stage

(* A message the broker was told to forget is posted, rejected, in a worklist or on disk for
   each publisher, or a kill lost it: whatever is interleaved with whatever, unless the key of
   a copy does not tell its publisher (sameUrl). *)
THEOREM NothingDropped == ASSUME KeysTellPublisher PROVE Spec => []Accounted
<1>1. Init => CareInv
  <2> SUFFICES ASSUME Init PROVE CareInv
    OBVIOUS
  <2>1. \A m \in Message : broker[m] = "ready"
    BY DEF Init
  <2> QED BY <2>1 DEF CareInv
<1>2. StagesInv /\ CareInv /\ [Next]_vars => CareInv'
  BY CareStep
<1>3. CareInv => Accounted
  <2> SUFFICES ASSUME NEW m \in Message, NEW p \in Pub, Cared(m, p)
               PROVE  Settled(m, p) \/ InMemory(m, p) \/ OnDisk(m, p) \/ m \in lost
    BY DEF CareInv, Accounted
  <2>1. Offers(work_retry) \subseteq Entries(work_retry) /\ Offers(post_retry) \subseteq Entries(post_retry)
    BY DEF Offers, Entries
  <2> QED BY <2>1 DEF Cared, OnDisk
<1> QED BY <1>1, <1>2, <1>3, StagesInvariant, PTL DEF Spec

-----------------------------------------------------------------------------
(* Whatever a pass has gathered is settled with the broker. *)
LEMMA AckedOne ==
    ASSUME NEW b \in [Message -> {"ready", "unacked", "acked"}], NEW l \in Seq(Message \X BOOLEAN), NEW m \in Message
    PROVE  /\ Acked(b, l) \in [Message -> {"ready", "unacked", "acked"}]
           /\ Acked(b, l)[m] = "unacked" => b[m] = "unacked" /\ <<m, TRUE>> \notin Range(l)
<1>1. Acked(b, l) \in [Message -> {"ready", "unacked", "acked"}]
  BY DEF Acked
<1>2. Acked(b, l)[m] = IF b[m] = "unacked" /\ <<m, TRUE>> \in Range(l) THEN "acked" ELSE b[m]
  BY DEF Acked
<1> QED BY <1>1, <1>2

LEMMA NextWorking ==
    Working' = Range(incoming') \cup Range(filtered') \cup Range(rejected') \cup Range(failed') \cup Range(ok')
BY DEF Working, Range

LEMMA UnackedStep ==
    ASSUME StagesInv, UnackedInv, [Next]_vars
    PROVE  UnackedInv'
<1>t. broker \in [Message -> {"ready", "unacked", "acked"}]
  BY DEF StagesInv, TypeOK
<1>l. /\ incoming \in Seq(Message \X BOOLEAN) /\ filtered \in Seq(Message \X BOOLEAN)
      /\ rejected \in Seq(Message \X BOOLEAN) /\ failed \in Seq(Message \X BOOLEAN) /\ ok \in Seq(Message \X BOOLEAN)
  BY DEF StagesInv, TypeOK
<1>b. Range(<<>>) = {}
  BY DEF Range
<1>u. ASSUME \A m \in Message : broker'[m] # "unacked" PROVE UnackedInv'
  BY <1>u DEF UnackedInv
<1>i. \A m \in Message \ RenameAway : broker[m] = "unacked" => <<m, TRUE>> \in Working
  BY DEF UnackedInv
<1>1. CASE UNCHANGED <<broker, incoming, filtered, rejected, failed, ok, pc>>
  <2>1. Working' = Working
    BY <1>1, NextWorking DEF Working
  <2> QED BY <1>1, <2>1 DEF UnackedInv
<1>2. CASE broker' = broker /\ pc \in {"loop", "gather", "after_work", "post", "end", "closed", "down"}
  BY <1>2 DEF UnackedInv
<1>3. CASE UNCHANGED o /\ Gather
  <2>1. pc = "gather" /\ pc' = "filter"
    BY <1>3 DEF Gather
  <2>2. PICK S \in SUBSET Message, R \in SUBSET work_retry.cur :
            /\ broker' = [x \in Message |-> IF x \in S THEN "unacked" ELSE broker[x]]
            /\ incoming' = SetToSeq(S \X {TRUE}) \o SetToSeq(R \X {FALSE})
    BY <1>3 DEF Gather, Got
  <2>3. R \in SUBSET Message
    BY WorkGet
  <2>4. S \X {TRUE} \subseteq Range(incoming')
    <3>1. /\ SetToSeq(S \X {TRUE}) \in Seq(Message \X BOOLEAN) /\ Range(SetToSeq(S \X {TRUE})) = S \X {TRUE}
          /\ SetToSeq(R \X {FALSE}) \in Seq(Message \X BOOLEAN)
      BY <2>3, GatheredFacts
    <3>2. S \X {TRUE} \subseteq Range(SetToSeq(S \X {TRUE}) \o SetToSeq(R \X {FALSE}))
      <4>1. Range(SetToSeq(S \X {TRUE}) \o SetToSeq(R \X {FALSE})) = Range(SetToSeq(S \X {TRUE})) \cup Range(SetToSeq(R \X {FALSE}))
        BY <3>1, JoinFacts
      <4> QED BY <3>1, <4>1
    <3> QED BY <2>2, <3>2
  <2>5. ASSUME NEW m \in Message \ RenameAway, broker'[m] = "unacked" PROVE <<m, TRUE>> \in Working'
    <3>1. broker[m] # "unacked"
      BY <2>1 DEF UnackedInv
    <3>2. m \in S
      BY <2>2, <2>5, <3>1
    <3> QED BY <2>4, <3>2, NextWorking
  <2> QED BY <2>1, <2>5 DEF UnackedInv
<1>4. CASE /\ broker' = broker /\ pc \in {"filter", "work"} /\ pc' = pc
           /\ \A m \in Message \ RenameAway : <<m, TRUE>> \in Working => <<m, TRUE>> \in Working'
  BY <1>4, <1>i DEF UnackedInv
<1>5. CASE UNCHANGED o /\ FilterOne
  <2>1. /\ pc = "filter" /\ pc' = pc /\ incoming # <<>> /\ incoming' = Tail(incoming)
        /\ UNCHANGED <<broker, ok>>
    BY <1>5 DEF FilterOne, control
  <2>2. PICK e : e = Head(incoming)
    OBVIOUS
  <2>3. \/ filtered' = Append(filtered, e) /\ rejected' = rejected /\ failed' = failed
        \/ rejected' = Append(rejected, e) /\ filtered' = filtered /\ failed' = failed
        \/ failed' = Append(failed, e) /\ filtered' = filtered /\ rejected' = rejected
        \/ e[1] \in RenameAway /\ filtered' = filtered /\ rejected' = rejected /\ failed' = failed
    BY <1>5, <2>2 DEF FilterOne
  <2>4. e \in Message \X BOOLEAN /\ Range(incoming) = {e} \cup Range(incoming')
    BY <1>l, <2>1, <2>2, RangeFacts
  <2>5. Range(Append(filtered, e)) = Range(filtered) \cup {e}
    BY <1>l, <2>4, RangeFacts
  <2>6. Range(Append(rejected, e)) = Range(rejected) \cup {e}
    BY <1>l, <2>4, RangeFacts
  <2>7. Range(Append(failed, e)) = Range(failed) \cup {e}
    BY <1>l, <2>4, RangeFacts
  <2>8. ASSUME NEW m \in Message \ RenameAway, <<m, TRUE>> \in Working PROVE <<m, TRUE>> \in Working'
    <3>1. e[1] \in RenameAway => <<m, TRUE>> # e
      <4>1. <<m, TRUE>>[1] = m
        OBVIOUS
      <4> QED BY <4>1
    <3> QED BY <2>1, <2>3, <2>4, <2>5, <2>6, <2>7, <2>8, <3>1, NextWorking DEF Working
  <2> QED BY <1>4, <2>1, <2>8
<1>6. CASE UNCHANGED o /\ AfterAccept
  <2>1. /\ pc = "filter" /\ pc' = "work" /\ incoming = <<>>
        /\ broker' = Acked(Acked(broker, rejected), failed) /\ ok' = ok
    BY <1>6 DEF AfterAccept
  <2>2. PICK R \in SUBSET work_retry.cur : incoming' = filtered \o SetToSeq(R \X {FALSE})
    BY <1>6 DEF AfterAccept, Got
  <2>3. R \in SUBSET Message
    BY WorkGet
  <2>4. Range(filtered) \subseteq Range(incoming')
    <3>1. SetToSeq(R \X {FALSE}) \in Seq(Message \X BOOLEAN)
      BY <2>3, GatheredFacts
    <3>2. Range(filtered) \subseteq Range(filtered \o SetToSeq(R \X {FALSE}))
      BY <1>l, <3>1, JoinFacts
    <3> QED BY <2>2, <3>2
  <2>5. ASSUME NEW m \in Message \ RenameAway, broker'[m] = "unacked" PROVE <<m, TRUE>> \in Working'
    <3>1. PICK b1 : b1 = Acked(broker, rejected)
      OBVIOUS
    <3>2. /\ b1 \in [Message -> {"ready", "unacked", "acked"}]
          /\ b1[m] = "unacked" => broker[m] = "unacked" /\ <<m, TRUE>> \notin Range(rejected)
      BY <1>t, <1>l, <3>1, AckedOne
    <3>5. Acked(b1, failed)[m] = "unacked" => b1[m] = "unacked" /\ <<m, TRUE>> \notin Range(failed)
      BY <1>l, <3>2, AckedOne
    <3>3. broker[m] = "unacked" /\ <<m, TRUE>> \notin Range(rejected) \cup Range(failed)
      BY <2>1, <2>5, <3>1, <3>2, <3>5
    <3>4. <<m, TRUE>> \in Range(filtered) \cup Range(ok)
      BY <1>b, <1>i, <2>1, <3>3 DEF Working
    <3> QED BY <2>1, <2>4, <3>4, NextWorking
  <2> QED BY <2>1, <2>5 DEF UnackedInv
<1>7. CASE UNCHANGED o /\ DoOne
  <2>1. /\ pc = "work" /\ pc' = pc /\ incoming # <<>> /\ incoming' = Tail(incoming)
        /\ UNCHANGED <<broker, filtered>>
    BY <1>7 DEF DoOne, control
  <2>2. PICK e : e = Head(incoming)
    OBVIOUS
  <2>3. PICK was \in {ok, Append(ok, e)} :
            \/ ok' = Append(was, e) /\ rejected' = rejected /\ failed' = failed
            \/ ok' = was /\ rejected' = Append(rejected, e) /\ failed' = failed
            \/ ok' = was /\ failed' = Append(failed, e) /\ rejected' = rejected
    BY <1>7, <2>2 DEF DoOne
  <2>4. e \in Message \X BOOLEAN /\ Range(incoming) = {e} \cup Range(incoming')
    BY <1>l, <2>1, <2>2, RangeFacts
  <2>5. was \in Seq(Message \X BOOLEAN) /\ Range(ok) \subseteq Range(was)
    <3>1. was = ok \/ was = Append(ok, e)
      BY <2>3
    <3>2. Append(ok, e) \in Seq(Message \X BOOLEAN) /\ Range(Append(ok, e)) = Range(ok) \cup {e}
      BY <1>l, <2>4, RangeFacts
    <3> QED BY <1>l, <3>1, <3>2
  <2>6. Range(Append(was, e)) = Range(was) \cup {e}
    BY <2>4, <2>5, RangeFacts
  <2>7. Range(Append(rejected, e)) = Range(rejected) \cup {e}
    BY <1>l, <2>4, RangeFacts
  <2>8. Range(Append(failed, e)) = Range(failed) \cup {e}
    BY <1>l, <2>4, RangeFacts
  <2>9. Working \subseteq Working'
    BY <2>1, <2>3, <2>4, <2>5, <2>6, <2>7, <2>8, NextWorking DEF Working
  <2> QED BY <1>4, <2>1, <2>9
<1>8. CASE UNCHANGED o /\ WorkAck
  <2>1. /\ pc = "work" /\ incoming = <<>> /\ filtered = <<>>
        /\ broker' = Acked(Acked(Acked(broker, ok), rejected), failed)
    BY <1>8 DEF WorkAck, StagesInv
  <2>2. ASSUME NEW m \in Message \ RenameAway, broker'[m] = "unacked" PROVE FALSE
    <3>1. PICK b1 : b1 = Acked(broker, ok)
      OBVIOUS
    <3>2. /\ b1 \in [Message -> {"ready", "unacked", "acked"}]
          /\ b1[m] = "unacked" => broker[m] = "unacked" /\ <<m, TRUE>> \notin Range(ok)
      BY <1>t, <1>l, <3>1, AckedOne
    <3>3. PICK b2 : b2 = Acked(b1, rejected)
      OBVIOUS
    <3>5. /\ b2 \in [Message -> {"ready", "unacked", "acked"}]
          /\ b2[m] = "unacked" => b1[m] = "unacked" /\ <<m, TRUE>> \notin Range(rejected)
      BY <1>l, <3>2, <3>3, AckedOne
    <3>6. Acked(b2, failed)[m] = "unacked" => b2[m] = "unacked" /\ <<m, TRUE>> \notin Range(failed)
      BY <1>l, <3>5, AckedOne
    <3>4. broker[m] = "unacked" /\ <<m, TRUE>> \notin Range(ok) \cup Range(rejected) \cup Range(failed)
      BY <2>1, <2>2, <3>1, <3>2, <3>3, <3>5, <3>6
    <3> QED BY <1>b, <1>i, <2>1, <3>4 DEF Working
  <2> QED BY <2>2 DEF UnackedInv
<1>9. CASE UNCHANGED o /\ Close
  <2>1. \A m \in Message : broker'[m] # "unacked"
    BY <1>t, <1>9 DEF Close
  <2> QED BY <1>u, <2>1
<1>10. CASE UNCHANGED o /\ (StopRequest \/ Reconnect \/ Kill)
  <2>1. CASE broker' = redelivered
    <3>1. \A m \in Message : broker'[m] # "unacked"
      BY <1>t, <2>1 DEF redelivered
    <3> QED BY <1>u, <3>1
  <2>2. CASE UNCHANGED o /\ StopRequest
    BY <1>1, <2>2 DEF StopRequest, worklists
  <2> QED BY <1>10, <2>1, <2>2 DEF Reconnect, Kill
<1>11. CASE UNCHANGED vars
  BY <1>1, <1>11 DEF vars, worklists, control
<1>12. CASE UNCHANGED o /\ (BeginPass \/ EndPass \/ AfterWork \/ PostOne \/ AfterPost \/ Restart)
  <2>1. broker' = broker
    BY <1>12 DEF BeginPass, EndPass, AfterWork, PostOne, AfterPost, Restart
  <2>2. pc \in {"loop", "end", "after_work", "post", "closed", "down"}
    <3>1. pc \in {"loop", "gather", "filter", "work", "after_work", "post", "end", "closed", "down"}
      BY DEF StagesInv, TypeOK
    <3> QED BY <1>12, <3>1 DEF BeginPass, EndPass, AfterWork, PostOne, AfterPost, Restart, running
  <2> QED BY <1>2, <2>1, <2>2
<1> QED BY <1>3, <1>5, <1>6, <1>7, <1>8, <1>9, <1>10, <1>11, <1>12 DEF Next, Stage

(* Whatever a pass took from the broker is acknowledged by its end, and put where it stays,
   if no rename moves an accepted file to a name the masks reject. *)
THEOREM PassClean == ASSUME RenameAway = {} PROVE Spec => []PassEndsClean
<1>1. Init => UnackedInv
  <2> SUFFICES ASSUME Init PROVE UnackedInv
    OBVIOUS
  <2>1. \A m \in Message : broker[m] = "ready"
    BY DEF Init
  <2> QED BY <2>1 DEF UnackedInv
<1>2. StagesInv /\ UnackedInv /\ [Next]_vars => UnackedInv'
  BY UnackedStep
<1>3. StagesInv /\ UnackedInv => PassEndsClean
  <2> SUFFICES ASSUME StagesInv, UnackedInv PROVE PassEndsClean
    OBVIOUS
  <2>1. ASSUME pc = "end" PROVE unackedCount = 0
    <3>1. {m \in Message : broker[m] = "unacked"} = {}
      BY <2>1 DEF UnackedInv
    <3> QED BY <3>1, FS_EmptySet DEF unackedCount
  <2> QED BY <2>1 DEF PassEndsClean, AckedByEndOfPass, NothingLeftInMemory, StagesInv
<1> QED BY <1>1, <1>2, <1>3, StagesInvariant, PTL DEF Spec

-----------------------------------------------------------------------------
(* Without a fault no publisher is given a message twice: a message, and then a copy, is in
   one place at a time. *)
LEMMA OnceFacts ==
    ASSUME NEW l \in Seq(Message \X BOOLEAN), Once(l)
    PROVE  /\ l # <<>> => Once(Tail(l)) /\ Head(l)[1] \notin Msgs(Tail(l))
           /\ Once(<<>>)
<1>1. Once(<<>>)
  BY DEF Once
<1>2. ASSUME l # <<>> PROVE Once(Tail(l)) /\ Head(l)[1] \notin Msgs(Tail(l))
  <2>1. Len(Tail(l)) = Len(l) - 1 /\ Len(l) \in Nat \ {0} /\ Head(l) = l[1]
    BY <1>2
  <2>2. \A i \in 1 .. Len(l) - 1 : Tail(l)[i] = l[i + 1] /\ i + 1 \in 1 .. Len(l) /\ i + 1 # 1
    BY <1>2
  <2>3. 1 \in 1 .. Len(l)
    BY <2>1
  <2>4. \A i \in 1 .. Len(l) - 1 : Tail(l)[i][1] # Head(l)[1]
    BY <2>1, <2>2, <2>3 DEF Once
  <2>5. Once(Tail(l))
    <3> SUFFICES ASSUME NEW i \in 1 .. Len(l) - 1, NEW j \in 1 .. Len(l) - 1, Tail(l)[i][1] = Tail(l)[j][1] PROVE i = j
      BY <2>1 DEF Once
    <3>1. i + 1 = j + 1
      BY <2>2 DEF Once
    <3> QED BY <2>1, <3>1
  <2> QED BY <2>1, <2>4, <2>5 DEF Msgs
<1> QED BY <1>1, <1>2

LEMMA OnceAppend ==
    ASSUME NEW l \in Seq(Message \X BOOLEAN), Once(l), NEW e \in Message \X BOOLEAN, e[1] \notin Msgs(l)
    PROVE  Once(Append(l, e))
<1> DEFINE k == Append(l, e)
<1>1. Len(k) = Len(l) + 1 /\ Len(l) \in Nat /\ k[Len(l) + 1] = e /\ \A i \in 1 .. Len(l) : k[i] = l[i]
  OBVIOUS
<1> HIDE DEF k
<1>2. \A i \in 1 .. Len(l) : k[i][1] # e[1]
  BY <1>1 DEF Msgs
<1>3. \A i \in 1 .. Len(k) : i \in 1 .. Len(l) \/ i = Len(l) + 1
  BY <1>1
<1>4. Once(k)
  BY <1>1, <1>2, <1>3 DEF Once
<1> QED BY <1>4 DEF k

LEMMA OnceJoin ==
    ASSUME NEW l \in Seq(Message \X BOOLEAN), Once(l), NEW k \in Seq(Message \X BOOLEAN), Once(k),
           Msgs(l) \cap Msgs(k) = {}
    PROVE  Once(l \o k)
<1>1. /\ Len(l \o k) = Len(l) + Len(k)
      /\ \A i \in 1 .. Len(l) : (l \o k)[i] = l[i]
      /\ \A i \in 1 .. Len(l) + Len(k) : i > Len(l) => i - Len(l) \in 1 .. Len(k) /\ (l \o k)[i] = k[i - Len(l)]
  BY JoinFacts
<1>2. PICK u : u = l \o k
  OBVIOUS
<1>3. \A i \in 1 .. Len(u) : \/ i \in 1 .. Len(l) /\ u[i] = l[i]
                             \/ i > Len(l) /\ i - Len(l) \in 1 .. Len(k) /\ u[i] = k[i - Len(l)]
  BY <1>1, <1>2
<1>4. \A i \in 1 .. Len(l), j \in 1 .. Len(k) : l[i][1] # k[j][1]
  BY DEF Msgs
<1>5. ASSUME NEW i \in 1 .. Len(u), NEW j \in 1 .. Len(u), u[i][1] = u[j][1] PROVE i = j
  <2>1. CASE i \in 1 .. Len(l) /\ j \in 1 .. Len(l) /\ u[i] = l[i] /\ u[j] = l[j]
    BY <1>5, <2>1 DEF Once
  <2>2. CASE i - Len(l) \in 1 .. Len(k) /\ u[i] = k[i - Len(l)] /\ j - Len(l) \in 1 .. Len(k) /\ u[j] = k[j - Len(l)]
    <3>1. i - Len(l) = j - Len(l)
      BY <1>5, <2>2 DEF Once
    <3> QED BY <3>1
  <2> QED BY <1>3, <1>4, <1>5, <2>1, <2>2
<1> QED BY <1>2, <1>5 DEF Once

LEMMA DistinctTail ==
    ASSUME NEW l \in Seq(Copy), Distinct(l), l # <<>>
    PROVE  Distinct(Tail(l)) /\ Head(l) \notin Range(Tail(l))
<1>1. Len(Tail(l)) = Len(l) - 1 /\ Len(l) \in Nat \ {0} /\ Head(l) = l[1] /\ Tail(l) \in Seq(Copy)
  OBVIOUS
<1>2. \A i \in 1 .. Len(l) - 1 : Tail(l)[i] = l[i + 1] /\ i + 1 \in 1 .. Len(l) /\ i + 1 # 1
  OBVIOUS
<1>3. 1 \in 1 .. Len(l)
  BY <1>1
<1>4. \A i \in 1 .. Len(l) - 1 : Tail(l)[i] # Head(l)
  BY <1>1, <1>2, <1>3 DEF Distinct
<1>5. Range(Tail(l)) = {Tail(l)[i] : i \in 1 .. Len(l) - 1}
  BY <1>1, RangeEquality
<1>6. Distinct(Tail(l))
  <2> SUFFICES ASSUME NEW i \in 1 .. Len(l) - 1, NEW j \in 1 .. Len(l) - 1, Tail(l)[i] = Tail(l)[j] PROVE i = j
    BY <1>1 DEF Distinct
  <2>1. i + 1 = j + 1
    BY <1>2 DEF Distinct
  <2> QED BY <1>1, <2>1
<1> QED BY <1>4, <1>5, <1>6

LEMMA DistinctJoin ==
    ASSUME NEW l \in Seq(Copy), Distinct(l), NEW k \in Seq(Copy), Distinct(k), Range(l) \cap Range(k) = {}
    PROVE  Distinct(l \o k)
<1>1. /\ Len(l \o k) = Len(l) + Len(k)
      /\ \A i \in 1 .. Len(l) : (l \o k)[i] = l[i]
      /\ \A i \in 1 .. Len(l) + Len(k) : i > Len(l) => i - Len(l) \in 1 .. Len(k) /\ (l \o k)[i] = k[i - Len(l)]
  BY JoinFacts
<1>2. PICK u : u = l \o k
  OBVIOUS
<1>3. \A i \in 1 .. Len(u) : \/ i \in 1 .. Len(l) /\ u[i] = l[i]
                             \/ i > Len(l) /\ i - Len(l) \in 1 .. Len(k) /\ u[i] = k[i - Len(l)]
  BY <1>1, <1>2
<1>4. \A i \in 1 .. Len(l), j \in 1 .. Len(k) : l[i] # k[j]
  <2>1. Range(l) = {l[i] : i \in 1 .. Len(l)} /\ Range(k) = {k[i] : i \in 1 .. Len(k)}
    BY RangeEquality
  <2> QED BY <2>1
<1>5. ASSUME NEW i \in 1 .. Len(u), NEW j \in 1 .. Len(u), u[i] = u[j] PROVE i = j
  <2>1. CASE i \in 1 .. Len(l) /\ j \in 1 .. Len(l) /\ u[i] = l[i] /\ u[j] = l[j]
    BY <1>5, <2>1 DEF Distinct
  <2>2. CASE i - Len(l) \in 1 .. Len(k) /\ u[i] = k[i - Len(l)] /\ j - Len(l) \in 1 .. Len(k) /\ u[j] = k[j - Len(l)]
    <3>1. i - Len(l) = j - Len(l)
      BY <1>5, <2>2 DEF Distinct
    <3> QED BY <3>1
  <2> QED BY <1>3, <1>4, <1>5, <2>1, <2>2
<1> QED BY <1>2, <1>5 DEF Distinct

LEMMA NextKnown ==
    ASSUME NEW c
    PROVE  Known(c)' = (c \in Range(posting') \cup Range(postFailed') \cup post_retry'.cur \cup post_retry'.new \/ posted'[c] > 0)
BY DEF Known, Range

LEMMA NextMessageAt ==
    ASSUME NEW m, NEW h
    PROVE  MessageAt(m, h)' =
              (/\ broker'[m] = "ready" /\ pc' # "closed" => h = "broker"
               /\ m \in Msgs(incoming') => h = "incoming"
               /\ m \in Msgs(filtered') => h = "filtered"
               /\ m \in Msgs(rejected') => h = "rejected"
               /\ m \in Msgs(failed') => h = "failed"
               /\ m \in Msgs(ok') => h = "ok"
               /\ m \in work_retry'.cur => h = "retry"
               /\ m \in work_retry'.new => h = "retry new"
               /\ \A p \in Pub : Known(<<m, p>>)' => h = "copied")
BY DEF MessageAt, Msgs

LEMMA NextCopyAt ==
    ASSUME NEW c, NEW h
    PROVE  CopyAt(c, h)' =
              (/\ c \in Range(posting') => h = "posting"
               /\ c \in Range(postFailed') => h = "postFailed"
               /\ c \in post_retry'.cur => h = "retry"
               /\ c \in post_retry'.new => h = "retry new"
               /\ posted'[c] > 0 => h = "posted")
BY DEF CopyAt, Range

(* The parts of OneHome a step has to establish. *)
MessagesPlaced == \A m \in Message : \E h \in Home : MessageAt(m, h)
CopiesPlaced == /\ \A c \in Copy : posted[c] <= 1 /\ \E h \in CopyHome : CopyAt(c, h)
                /\ Distinct(posting)
ListsOnce == Once(incoming) /\ Once(filtered) /\ Once(ok)

LEMMA OneHomeParts == OneHome <=> pc # "down" /\ MessagesPlaced /\ CopiesPlaced /\ ListsOnce
BY DEF OneHome, MessagesPlaced, CopiesPlaced, ListsOnce

LEMMA NextParts ==
    /\ OneHome' <=> pc' # "down" /\ MessagesPlaced' /\ CopiesPlaced' /\ ListsOnce'
    /\ ListsOnce' <=> Once(incoming') /\ Once(filtered') /\ Once(ok')
    /\ CopiesPlaced' <=> /\ \A c \in Copy : posted'[c] <= 1 /\ \E h \in CopyHome : CopyAt(c, h)'
                         /\ Distinct(posting')
    /\ MessagesPlaced' <=> \A m \in Message : \E h \in Home : MessageAt(m, h)'
BY DEF OneHome, MessagesPlaced, CopiesPlaced, ListsOnce, Once, Distinct

LEMMA MessageStays ==
    ASSUME NEW m \in Message, NEW h \in Home, MessageAt(m, h),
           broker'[m] = "ready" /\ pc' # "closed" => broker[m] = "ready" /\ pc # "closed",
           m \in Msgs(incoming') => m \in Msgs(incoming), m \in Msgs(filtered') => m \in Msgs(filtered),
           m \in Msgs(rejected') => m \in Msgs(rejected), m \in Msgs(failed') => m \in Msgs(failed),
           m \in Msgs(ok') => m \in Msgs(ok),
           m \in work_retry'.cur => m \in work_retry.cur, m \in work_retry'.new => m \in work_retry.new,
           \A p \in Pub : Known(<<m, p>>)' => Known(<<m, p>>)
    PROVE  \E g \in Home : MessageAt(m, g)'
<1>1. MessageAt(m, h)'
  BY NextMessageAt DEF MessageAt
<1> QED BY <1>1

LEMMA CopiesUntouched ==
    ASSUME CopiesPlaced, UNCHANGED <<posting, postFailed, post_retry, posted>>
    PROVE  CopiesPlaced' /\ \A c : Known(c)' = Known(c)
<1>1. ASSUME NEW c PROVE Known(c)' = Known(c)
  BY NextKnown DEF Known
<1>2. ASSUME NEW c, NEW h PROVE CopyAt(c, h)' = CopyAt(c, h)
  BY NextCopyAt DEF CopyAt
<1> QED BY <1>1, <1>2, NextParts DEF CopiesPlaced

(* No file is renamed to a name the masks accept, or nothing is downloaded. *)
NothingRenamed == RenameHere = {} \/ \A x \in Options : ~ x.download

LEMMA OneHomeStep ==
    ASSUME StagesInv, OneHome, [Next]_vars, UNCHANGED faults, NothingRenamed,
           {kills, losses, restarts} \subseteq Nat
    PROVE  OneHome'
<1>q. work_retry \in RetryQueueOf(Message) /\ post_retry \in RetryQueueOf(Copy)
  BY DEF StagesInv
<1>t. broker \in [Message -> {"ready", "unacked", "acked"}]
  BY DEF StagesInv, TypeOK
<1>l. /\ incoming \in Seq(Message \X BOOLEAN) /\ filtered \in Seq(Message \X BOOLEAN)
      /\ rejected \in Seq(Message \X BOOLEAN) /\ failed \in Seq(Message \X BOOLEAN) /\ ok \in Seq(Message \X BOOLEAN)
  BY DEF StagesInv, TypeOK
<1>p. posting \in Seq(Copy) /\ postFailed \in Seq(Copy)
  BY DEF StagesInv, TypeOK
<1>n. posted \in [Copy -> 0 .. MaxPosted]
  BY DEF StagesInv, TypeOK
<1>b. Msgs(<<>>) = {} /\ Range(<<>>) = {} /\ Once(<<>>)
  BY DEF Msgs, Range, Once
<1>h. MessagesPlaced /\ CopiesPlaced /\ ListsOnce /\ pc # "down"
  BY OneHomeParts
<1>o. Once(incoming) /\ Once(filtered) /\ Once(ok)
  BY <1>h DEF ListsOnce
<1>c. \A m \in Message, p \in Pub : <<m, p>> \in Copy
  BY DEF Copy
<1>k. ~ Kill /\ ~ Reconnect /\ ~ Restart
  BY DEF faults, Kill, Reconnect, Restart
<1>1. CASE UNCHANGED <<broker, worklists, queues, posted>> /\ pc' # "down" /\ (pc' = pc \/ pc' = "closed")
  <2>1. UNCHANGED <<broker, incoming, filtered, rejected, failed, ok, posting, postFailed, work_retry, post_retry, posted>>
    BY <1>1 DEF worklists, queues
  <2>2. CopiesPlaced' /\ \A c : Known(c)' = Known(c)
    BY <1>h, <2>1, CopiesUntouched
  <2>3. ASSUME NEW m \in Message PROVE \E g \in Home : MessageAt(m, g)'
    <3>1. PICK h \in Home : MessageAt(m, h)
      BY <1>h DEF MessagesPlaced
    <3> QED BY <1>1, <2>1, <2>2, <3>1, MessageStays
  <2> QED BY <1>1, <1>o, <2>1, <2>2, <2>3, NextParts
<1>2. CASE UNCHANGED o /\ (BeginPass \/ EndPass)
  <2>1. /\ pc' \in {"loop", "end", "filter", "gather"} /\ incoming' = incoming
        /\ UNCHANGED <<broker, filtered, rejected, failed, ok, posting, postFailed, posted>> /\ pc # "closed"
    BY <1>2 DEF BeginPass, EndPass, worklists, history, StagesInv
  <2>2. HousekeepingStep
    BY <1>2 DEF BeginPass, EndPass, HousekeepingStep, _runHousekeeping, queues
  <2>3. \/ work_retry' = work_retry
        \/ work_retry.cur = {} /\ work_retry'.cur = work_retry.new /\ work_retry'.new = {}
    BY <1>q, <2>2, HousekeepingFacts DEF HousekeepingStep
  <2>4. \/ post_retry' = post_retry
        \/ post_retry.cur = {} /\ post_retry'.cur \subseteq post_retry.new /\ post_retry'.new = {}
    <3>1. CASE HousekeepPost(post_retry, post_retry')
      BY <1>q, <3>1, HousekeepingFacts
    <3> QED BY <2>2, <3>1 DEF HousekeepingStep
  <2>5. ASSUME NEW c, Known(c)' PROVE Known(c)
    BY <2>1, <2>4, <2>5, NextKnown DEF Known
  <2>6. ASSUME NEW m \in Message PROVE \E g \in Home : MessageAt(m, g)'
    <3>1. PICK h \in Home : MessageAt(m, h)
      BY <1>h DEF MessagesPlaced
    <3>2. CASE work_retry' = work_retry
      BY <2>1, <2>5, <3>1, <3>2, MessageStays
    <3>3. CASE work_retry.cur = {} /\ work_retry'.cur = work_retry.new /\ work_retry'.new = {}
      <4>1. PICK g \in Home : g = IF h = "retry new" THEN "retry" ELSE h
        BY DEF Home
      <4>2. MessageAt(m, g)'
        BY <2>1, <2>5, <3>1, <3>3, <4>1, NextMessageAt DEF MessageAt
      <4> QED BY <4>2
    <3> QED BY <2>3, <3>2, <3>3
  <2>7. ASSUME NEW c \in Copy PROVE posted'[c] <= 1 /\ \E g \in CopyHome : CopyAt(c, g)'
    <3>1. PICK h \in CopyHome : CopyAt(c, h) /\ posted[c] <= 1
      BY <1>h DEF CopiesPlaced
    <3>2. PICK g \in CopyHome : g = IF h = "retry new" /\ post_retry' # post_retry THEN "retry" ELSE h
      BY DEF CopyHome
    <3>3. CopyAt(c, g)'
      BY <2>1, <2>4, <3>1, <3>2, NextCopyAt DEF CopyAt
    <3> QED BY <2>1, <3>1, <3>3
  <2>8. Distinct(posting')
    BY <1>h, <2>1 DEF CopiesPlaced
  <2> QED BY <1>o, <2>1, <2>6, <2>7, <2>8, NextParts
<1>3. CASE UNCHANGED o /\ Close
  <2>1. /\ pc' = "closed" /\ UNCHANGED <<incoming, filtered, rejected, failed, ok, posting, postFailed, work_retry, post_retry, posted>>
    BY <1>3 DEF Close, worklists, queues, history
  <2>2. CopiesPlaced' /\ \A c : Known(c)' = Known(c)
    BY <1>h, <2>1, CopiesUntouched
  <2>3. ASSUME NEW m \in Message PROVE \E g \in Home : MessageAt(m, g)'
    <3>1. PICK h \in Home : MessageAt(m, h)
      BY <1>h DEF MessagesPlaced
    <3> QED BY <2>1, <2>2, <3>1, MessageStays
  <2> QED BY <1>o, <2>1, <2>2, <2>3, NextParts
<1>4. CASE UNCHANGED o /\ Gather
  <2>1. /\ pc = "gather" /\ pc' = "filter" /\ incoming = <<>>
        /\ UNCHANGED <<filtered, rejected, failed, ok, posting, postFailed, post_retry, posted>>
    BY <1>4 DEF Gather, history, StagesInv
  <2>2. PICK S \in SUBSET {m \in Message : broker[m] = "ready"}, R \in SUBSET work_retry.cur :
            /\ broker' = [x \in Message |-> IF x \in S THEN "unacked" ELSE broker[x]]
            /\ incoming' = SetToSeq(S \X {TRUE}) \o SetToSeq(R \X {FALSE})
            /\ work_retry' = GetRetry(work_retry, R)
    BY <1>4 DEF Gather, Got
  <2>3. R \in SUBSET Message /\ S \in SUBSET Message
    BY <1>q DEF RetryQueueOf
  <2>4. work_retry'.cur = work_retry.cur \ R /\ work_retry'.new = work_retry.new
    BY <2>2, WorkGet
  <2>5. S \cap R = {}
    <3> SUFFICES ASSUME NEW m \in S, m \in R PROVE FALSE
      OBVIOUS
    <3>1. PICK h \in Home : MessageAt(m, h)
      BY <1>h, <2>3 DEF MessagesPlaced
    <3> QED BY <2>1, <2>2, <3>1 DEF MessageAt
  <2>6. Msgs(incoming') = S \cup R /\ Once(incoming')
    <3>1. /\ SetToSeq(S \X {TRUE}) \in Seq(Message \X BOOLEAN) /\ Msgs(SetToSeq(S \X {TRUE})) = S
          /\ Once(SetToSeq(S \X {TRUE}))
      BY <2>3, GatheredFacts
    <3>2. /\ SetToSeq(R \X {FALSE}) \in Seq(Message \X BOOLEAN) /\ Msgs(SetToSeq(R \X {FALSE})) = R
          /\ Once(SetToSeq(R \X {FALSE}))
      BY <2>3, GatheredFacts
    <3>3. Msgs(SetToSeq(S \X {TRUE}) \o SetToSeq(R \X {FALSE})) = Msgs(SetToSeq(S \X {TRUE})) \cup Msgs(SetToSeq(R \X {FALSE}))
      BY <3>1, <3>2, MsgsJoin
    <3>4. Once(SetToSeq(S \X {TRUE}) \o SetToSeq(R \X {FALSE}))
      BY <2>5, <3>1, <3>2, OnceJoin
    <3> QED BY <2>2, <3>1, <3>2, <3>3, <3>4
  <2>7. CopiesPlaced' /\ \A c : Known(c)' = Known(c)
    BY <1>h, <2>1, CopiesUntouched
  <2>8. ASSUME NEW m \in Message PROVE \E g \in Home : MessageAt(m, g)'
    <3>1. PICK h \in Home : MessageAt(m, h)
      BY <1>h DEF MessagesPlaced
    <3>2. PICK g \in Home : g = IF m \in S \cup R THEN "incoming" ELSE h
      BY DEF Home
    <3>3. m \in S => h = "broker"
      BY <2>1, <2>2, <3>1 DEF MessageAt
    <3>4. m \in R => h = "retry"
      BY <2>2, <3>1 DEF MessageAt
    <3>5. broker'[m] = "ready" => broker[m] = "ready" /\ m \notin S
      BY <2>2
    <3>6. MessageAt(m, g)'
      BY <1>b, <2>1, <2>4, <2>6, <2>7, <3>1, <3>2, <3>3, <3>4, <3>5, NextMessageAt DEF MessageAt
    <3> QED BY <3>6
  <2> QED BY <1>o, <2>1, <2>6, <2>7, <2>8, NextParts
<1>5. CASE UNCHANGED o /\ FilterOne
  <2>1. /\ pc = "filter" /\ pc' = pc /\ incoming # <<>> /\ incoming' = Tail(incoming)
        /\ UNCHANGED <<broker, ok, posting, postFailed, work_retry, post_retry, posted>>
    BY <1>5 DEF FilterOne, control, history, queues
  <2>2. PICK e : e = Head(incoming)
    OBVIOUS
  <2>3. \/ filtered' = Append(filtered, e) /\ rejected' = rejected /\ failed' = failed
        \/ rejected' = Append(rejected, e) /\ filtered' = filtered /\ failed' = failed
        \/ failed' = Append(failed, e) /\ filtered' = filtered /\ rejected' = rejected
        \/ filtered' = filtered /\ rejected' = rejected /\ failed' = failed
    BY <1>5, <2>2 DEF FilterOne
  <2>4. e \in Message \X BOOLEAN /\ e[1] \in Message /\ Msgs(incoming) = {e[1]} \cup Msgs(incoming')
    BY <1>l, <2>1, <2>2, MsgsHead
  <2>5. Once(incoming') /\ e[1] \notin Msgs(incoming')
    BY <1>l, <1>o, <2>1, <2>2, OnceFacts
  <2>6. Msgs(Append(filtered, e)) = Msgs(filtered) \cup {e[1]}
    BY <1>l, <2>4, MsgsAppend
  <2>7. Msgs(Append(rejected, e)) = Msgs(rejected) \cup {e[1]}
    BY <1>l, <2>4, MsgsAppend
  <2>8. Msgs(Append(failed, e)) = Msgs(failed) \cup {e[1]}
    BY <1>l, <2>4, MsgsAppend
  <2>9. CopiesPlaced' /\ \A c : Known(c)' = Known(c)
    BY <1>h, <2>1, CopiesUntouched
  <2>10. ASSUME NEW m \in Message PROVE \E g \in Home : MessageAt(m, g)'
    <3>1. PICK h \in Home : MessageAt(m, h)
      BY <1>h DEF MessagesPlaced
    <3>2. PICK g \in Home : g = IF m # e[1] THEN h ELSE IF m \in Msgs(filtered') THEN "filtered"
                                ELSE IF m \in Msgs(rejected') THEN "rejected" ELSE "failed"
      BY DEF Home
    <3>3. m = e[1] => h = "incoming"
      BY <2>4, <3>1 DEF MessageAt
    <3>4. MessageAt(m, g)'
      BY <2>1, <2>3, <2>4, <2>5, <2>6, <2>7, <2>8, <2>9, <3>1, <3>2, <3>3, NextMessageAt DEF MessageAt
    <3> QED BY <3>4
  <2>11. Once(filtered')
    <3>1. e[1] \notin Msgs(filtered)
      <4>1. PICK h \in Home : MessageAt(e[1], h)
        BY <1>h, <2>4 DEF MessagesPlaced
      <4> QED BY <2>4, <4>1 DEF MessageAt
    <3>2. Once(Append(filtered, e))
      BY <1>l, <1>o, <2>4, <3>1, OnceAppend
    <3> QED BY <1>o, <2>3, <3>2
  <2> QED BY <1>o, <2>1, <2>5, <2>9, <2>10, <2>11, NextParts
<1>6. CASE UNCHANGED o /\ AfterAccept
  <2>1. /\ pc = "filter" /\ pc' = "work" /\ incoming = <<>> /\ filtered' = <<>> /\ rejected' = <<>>
        /\ broker' = Acked(Acked(broker, rejected), failed)
        /\ UNCHANGED <<failed, ok, posting, postFailed, post_retry, posted>>
    BY <1>6 DEF AfterAccept
  <2>2. PICK R \in SUBSET work_retry.cur :
            incoming' = filtered \o SetToSeq(R \X {FALSE}) /\ work_retry' = GetRetry(work_retry, R)
    BY <1>6 DEF AfterAccept, Got
  <2>3. R \in SUBSET Message
    BY <1>q DEF RetryQueueOf
  <2>4. work_retry'.cur = work_retry.cur \ R /\ work_retry'.new = work_retry.new
    BY <2>2, WorkGet
  <2>5. Msgs(filtered) \cap R = {}
    <3> SUFFICES ASSUME NEW m \in Msgs(filtered), m \in R PROVE FALSE
      OBVIOUS
    <3>1. PICK h \in Home : MessageAt(m, h)
      BY <1>h, <2>3 DEF MessagesPlaced
    <3> QED BY <2>2, <3>1 DEF MessageAt
  <2>6. Msgs(incoming') = Msgs(filtered) \cup R /\ Once(incoming')
    <3>1. SetToSeq(R \X {FALSE}) \in Seq(Message \X BOOLEAN) /\ Msgs(SetToSeq(R \X {FALSE})) = R
          /\ Once(SetToSeq(R \X {FALSE}))
      BY <2>3, GatheredFacts
    <3>2. Msgs(filtered \o SetToSeq(R \X {FALSE})) = Msgs(filtered) \cup Msgs(SetToSeq(R \X {FALSE}))
      BY <1>l, <3>1, MsgsJoin
    <3>3. Once(filtered \o SetToSeq(R \X {FALSE}))
      BY <1>l, <1>o, <2>5, <3>1, OnceJoin
    <3> QED BY <2>2, <3>1, <3>2, <3>3
  <2>7. CopiesPlaced' /\ \A c : Known(c)' = Known(c)
    BY <1>h, <2>1, CopiesUntouched
  <2>8. ASSUME NEW m \in Message PROVE broker'[m] = "ready" => broker[m] = "ready"
    BY <1>t, <2>1 DEF Acked
  <2>9. ASSUME NEW m \in Message PROVE \E g \in Home : MessageAt(m, g)'
    <3>1. PICK h \in Home : MessageAt(m, h)
      BY <1>h DEF MessagesPlaced
    <3>2. PICK g \in Home : g = IF m \in Msgs(filtered) \cup R THEN "incoming" ELSE h
      BY DEF Home
    <3>3. (m \in Msgs(filtered) => h = "filtered") /\ (m \in R => h = "retry")
      BY <2>2, <3>1 DEF MessageAt
    <3>4. MessageAt(m, g)'
      BY <1>b, <2>1, <2>4, <2>6, <2>7, <2>8, <3>1, <3>2, <3>3, NextMessageAt DEF MessageAt
    <3> QED BY <3>4
  <2> QED BY <1>b, <1>o, <2>1, <2>6, <2>7, <2>9, NextParts
<1>7. CASE UNCHANGED o /\ DoOne
  <2>1. /\ pc = "work" /\ pc' = pc /\ incoming # <<>> /\ incoming' = Tail(incoming)
        /\ UNCHANGED <<broker, filtered, posting, postFailed, work_retry, post_retry, posted>>
    BY <1>7 DEF DoOne, control, history, queues
  <2>2. PICK e : e = Head(incoming)
    OBVIOUS
  <2>3. \/ ok' = Append(ok, e) /\ rejected' = rejected /\ failed' = failed
        \/ ok' = ok /\ rejected' = Append(rejected, e) /\ failed' = failed
        \/ ok' = ok /\ failed' = Append(failed, e) /\ rejected' = rejected
    <3>1. o \in Options
      BY DEF StagesInv, TypeOK
    <3>2. ~ (o.download /\ e[1] \in RenameHere)
      BY <3>1 DEF NothingRenamed
    <3> QED BY <1>7, <2>2, <3>2 DEF DoOne
  <2>4. e \in Message \X BOOLEAN /\ e[1] \in Message /\ Msgs(incoming) = {e[1]} \cup Msgs(incoming')
    BY <1>l, <2>1, <2>2, MsgsHead
  <2>5. Once(incoming') /\ e[1] \notin Msgs(incoming')
    BY <1>l, <1>o, <2>1, <2>2, OnceFacts
  <2>6. Msgs(Append(ok, e)) = Msgs(ok) \cup {e[1]}
    BY <1>l, <2>4, MsgsAppend
  <2>7. Msgs(Append(rejected, e)) = Msgs(rejected) \cup {e[1]}
    BY <1>l, <2>4, MsgsAppend
  <2>8. Msgs(Append(failed, e)) = Msgs(failed) \cup {e[1]}
    BY <1>l, <2>4, MsgsAppend
  <2>9. CopiesPlaced' /\ \A c : Known(c)' = Known(c)
    BY <1>h, <2>1, CopiesUntouched
  <2>10. ASSUME NEW m \in Message PROVE \E g \in Home : MessageAt(m, g)'
    <3>1. PICK h \in Home : MessageAt(m, h)
      BY <1>h DEF MessagesPlaced
    <3>2. PICK g \in Home : g = IF m # e[1] THEN h ELSE IF m \in Msgs(ok') THEN "ok"
                                ELSE IF m \in Msgs(rejected') THEN "rejected" ELSE "failed"
      BY DEF Home
    <3>3. m = e[1] => h = "incoming"
      BY <2>4, <3>1 DEF MessageAt
    <3>4. MessageAt(m, g)'
      BY <2>1, <2>3, <2>4, <2>5, <2>6, <2>7, <2>8, <2>9, <3>1, <3>2, <3>3, NextMessageAt DEF MessageAt
    <3> QED BY <3>4
  <2>11. Once(ok')
    <3>1. e[1] \notin Msgs(ok)
      <4>1. PICK h \in Home : MessageAt(e[1], h)
        BY <1>h, <2>4 DEF MessagesPlaced
      <4> QED BY <2>4, <4>1 DEF MessageAt
    <3>2. Once(Append(ok, e))
      BY <1>l, <1>o, <2>4, <3>1, OnceAppend
    <3> QED BY <1>o, <2>3, <3>2
  <2> QED BY <1>o, <2>1, <2>5, <2>9, <2>10, <2>11, NextParts
<1>8. CASE UNCHANGED o /\ WorkAck
  <2>1. /\ pc = "work" /\ pc' = "after_work" /\ posting = <<>> /\ posting' = copies(ok) /\ ok' = <<>>
        /\ broker' = Acked(Acked(Acked(broker, ok), rejected), failed)
        /\ UNCHANGED <<incoming, filtered, rejected, failed, postFailed, work_retry, post_retry, posted>>
    BY <1>8 DEF WorkAck, queues, StagesInv
  <2>2. Range(posting') = Msgs(ok) \X Pub /\ Distinct(posting')
    BY <1>l, <1>o, <2>1, CopiesFacts DEF Distinct
  <2>3. ASSUME NEW m \in Message PROVE broker'[m] = "ready" => broker[m] = "ready"
    BY <1>t, <2>1 DEF Acked
  <2>4. ASSUME NEW c \in Copy, Known(c)' PROVE Known(c) \/ c[1] \in Msgs(ok)
    BY <2>1, <2>2, <2>4, NextKnown DEF Known
  <2>5. ASSUME NEW m \in Message PROVE \E g \in Home : MessageAt(m, g)'
    <3>1. PICK h \in Home : MessageAt(m, h)
      BY <1>h DEF MessagesPlaced
    <3>2. CASE m \in Msgs(ok)
      <4>1. h = "ok"
        BY <3>1, <3>2 DEF MessageAt
      <4>2. MessageAt(m, "copied")'
        BY <1>b, <2>1, <2>3, <3>1, <4>1, NextMessageAt DEF MessageAt
      <4> QED BY <4>2 DEF Home
    <3>3. CASE m \notin Msgs(ok)
      <4>1. \A p \in Pub : Known(<<m, p>>)' => Known(<<m, p>>)
        BY <1>c, <2>4, <3>3
      <4>2. broker'[m] = "ready" /\ pc' # "closed" => broker[m] = "ready" /\ pc # "closed"
        BY <2>1, <2>3
      <4> QED BY <1>b, <2>1, <3>1, <4>1, <4>2, MessageStays
    <3> QED BY <3>2, <3>3
  <2>6. ASSUME NEW c \in Copy PROVE posted'[c] <= 1 /\ \E g \in CopyHome : CopyAt(c, g)'
    <3>1. PICK h \in CopyHome : CopyAt(c, h) /\ posted[c] <= 1
      BY <1>h DEF CopiesPlaced
    <3>2. CASE c \in Range(posting')
      <4>1. c[1] \in Msgs(ok) /\ c[1] \in Message /\ c[2] \in Pub /\ c = <<c[1], c[2]>>
        BY <2>2, <3>2 DEF Copy
      <4>2. PICK k \in Home : MessageAt(c[1], k)
        BY <1>h, <4>1 DEF MessagesPlaced
      <4>3. ~ Known(c)
        <5>1. k = "ok"
          BY <4>1, <4>2 DEF MessageAt
        <5>2. ~ Known(<<c[1], c[2]>>)
          BY <4>1, <4>2, <5>1 DEF MessageAt
        <5> QED BY <4>1, <5>2
      <4>4. CopyAt(c, "posting")'
        BY <2>1, <4>3, NextCopyAt DEF Known
      <4> QED BY <2>1, <3>1, <4>4 DEF CopyHome
    <3>3. CASE c \notin Range(posting')
      <4>1. CopyAt(c, h)'
        BY <2>1, <3>1, <3>3, NextCopyAt DEF CopyAt
      <4> QED BY <2>1, <3>1, <4>1
    <3> QED BY <3>2, <3>3
  <2> QED BY <1>b, <1>o, <2>1, <2>2, <2>5, <2>6, NextParts
<1>9. CASE UNCHANGED o /\ AfterWork
  <2>1. /\ pc = "after_work" /\ pc' = "post" /\ work_retry' = PutRetry(work_retry, Msgs(failed)) /\ failed' = <<>> /\ rejected' = <<>>
        /\ UNCHANGED <<broker, incoming, filtered, ok, postFailed, posted>>
    BY <1>9 DEF AfterWork, putFailed, history
  <2>2. PICK R \in SUBSET post_retry.cur :
            posting' = posting \o SetToSeq(R) /\ post_retry' = GetRetry(post_retry, R)
    BY <1>9 DEF AfterWork, Got
  <2>3. R \in SUBSET Copy /\ Msgs(failed) \in SUBSET Message
    BY <1>l, <1>q, MsgsFacts DEF RetryQueueOf
  <2>4. work_retry'.cur = work_retry.cur /\ work_retry'.new = work_retry.new \cup Msgs(failed)
    BY <2>1, <2>3, WorkPut
  <2>5. post_retry'.cur = post_retry.cur \ R /\ post_retry'.new = post_retry.new
    BY <2>2, PostGet
  <2>6. Range(posting) \cap R = {}
    <3> SUFFICES ASSUME NEW c \in Range(posting), c \in R PROVE FALSE
      OBVIOUS
    <3>1. PICK h \in CopyHome : CopyAt(c, h)
      BY <1>h, <2>3 DEF CopiesPlaced
    <3> QED BY <2>2, <3>1 DEF CopyAt
  <2>7. Range(posting') = Range(posting) \cup R /\ Distinct(posting')
    <3>1. SetToSeq(R) \in Seq(Copy) /\ Range(SetToSeq(R)) = R /\ Distinct(SetToSeq(R))
      BY <2>3, RetriedFacts DEF Distinct
    <3>2. Range(posting \o SetToSeq(R)) = Range(posting) \cup Range(SetToSeq(R))
      BY <1>p, <3>1, JoinFacts
    <3>3. Distinct(posting)
      BY <1>h DEF CopiesPlaced
    <3>4. Distinct(posting \o SetToSeq(R))
      BY <1>p, <2>6, <3>1, <3>3, DistinctJoin
    <3> QED BY <2>2, <3>1, <3>2, <3>4
  <2>8. ASSUME NEW c, Known(c)' PROVE Known(c)
    BY <2>1, <2>2, <2>5, <2>7, <2>8, NextKnown DEF Known
  <2>9. ASSUME NEW m \in Message PROVE \E g \in Home : MessageAt(m, g)'
    <3>1. PICK h \in Home : MessageAt(m, h)
      BY <1>h DEF MessagesPlaced
    <3>2. PICK g \in Home : g = IF m \in Msgs(failed) THEN "retry new" ELSE h
      BY DEF Home
    <3>3. m \in Msgs(failed) => h = "failed"
      BY <3>1 DEF MessageAt
    <3>4. MessageAt(m, g)'
      BY <1>b, <2>1, <2>4, <2>8, <3>1, <3>2, <3>3, NextMessageAt DEF MessageAt
    <3> QED BY <3>4
  <2>10. ASSUME NEW c \in Copy PROVE posted'[c] <= 1 /\ \E g \in CopyHome : CopyAt(c, g)'
    <3>1. PICK h \in CopyHome : CopyAt(c, h) /\ posted[c] <= 1
      BY <1>h DEF CopiesPlaced
    <3>2. PICK g \in CopyHome : g = IF c \in R THEN "posting" ELSE h
      BY DEF CopyHome
    <3>3. c \in R => h = "retry"
      BY <2>2, <3>1 DEF CopyAt
    <3>4. CopyAt(c, g)'
      BY <2>1, <2>5, <2>7, <3>1, <3>2, <3>3, NextCopyAt DEF CopyAt
    <3> QED BY <2>1, <3>1, <3>4
  <2> QED BY <1>o, <2>1, <2>7, <2>9, <2>10, NextParts
<1>10. CASE UNCHANGED o /\ PostOne
  <2>1. /\ pc = "post" /\ pc' = pc /\ posting # <<>> /\ posting' = Tail(posting)
        /\ UNCHANGED <<broker, incoming, filtered, rejected, failed, ok, work_retry, post_retry>>
    BY <1>10 DEF PostOne, control, queues
  <2>2. PICK e : e = Head(posting)
    OBVIOUS
  <2>3. \/ postFailed' = postFailed /\ posted' = [posted EXCEPT ![e] = IF @ < MaxPosted THEN @ + 1 ELSE @]
        \/ postFailed' = Append(postFailed, e) /\ posted' = posted
    BY <1>10, <2>2 DEF PostOne
  <2>4. e \in Copy /\ Range(posting) = {e} \cup Range(posting')
    BY <1>p, <2>1, <2>2, RangeFacts
  <2>5. Range(Append(postFailed, e)) = Range(postFailed) \cup {e}
    BY <1>p, <2>4, RangeFacts
  <2>6. Distinct(posting') /\ e \notin Range(posting')
    <3>1. Distinct(posting)
      BY <1>h DEF CopiesPlaced
    <3> QED BY <1>p, <2>1, <2>2, <3>1, DistinctTail
  <2>7. posted[e] = 0
    <3>1. PICK h \in CopyHome : CopyAt(e, h)
      BY <1>h, <2>4 DEF CopiesPlaced
    <3>2. h = "posting"
      BY <2>4, <3>1 DEF CopyAt
    <3>3. ~ (posted[e] > 0)
      BY <3>1, <3>2 DEF CopyAt
    <3> QED BY <1>n, <2>4, <3>3 DEF MaxPosted
  <2>8. ASSUME NEW c \in Copy
        PROVE  /\ posted'[c] <= 1 /\ \E g \in CopyHome : CopyAt(c, g)'
               /\ Known(c)' => Known(c)
    <3>1. PICK h \in CopyHome : CopyAt(c, h) /\ posted[c] <= 1
      BY <1>h DEF CopiesPlaced
    <3>2. CASE c # e
      <4>1. posted'[c] = posted[c]
        BY <1>n, <2>3, <2>4, <3>2
      <4>2. (c \in Range(posting') => c \in Range(posting)) /\ (c \in Range(postFailed') => c \in Range(postFailed))
        BY <2>3, <2>4, <2>5, <3>2
      <4>3. CopyAt(c, h)'
        BY <2>1, <3>1, <4>1, <4>2, NextCopyAt DEF CopyAt
      <4>4. Known(c)' => Known(c)
        BY <2>1, <4>1, <4>2, NextKnown DEF Known
      <4> QED BY <3>1, <4>1, <4>3, <4>4
    <3>3. CASE c = e
      <4>1. h = "posting" /\ Known(c)
        BY <2>4, <3>1, <3>3 DEF CopyAt, Known
      <4>2. c \notin Range(postFailed) /\ c \notin post_retry.cur /\ c \notin post_retry.new /\ c \notin Range(posting')
        BY <2>6, <3>1, <3>3, <4>1 DEF CopyAt
      <4>3. CASE postFailed' = postFailed /\ posted' = [posted EXCEPT ![e] = IF @ < MaxPosted THEN @ + 1 ELSE @]
        <5>1. posted'[c] = 1
          BY <1>n, <2>4, <2>7, <3>3, <4>3 DEF MaxPosted
        <5>2. CopyAt(c, "posted")'
          BY <2>1, <4>2, <4>3, NextCopyAt
        <5>3. posted'[c] <= 1
          BY <5>1
        <5>4. "posted" \in CopyHome
          BY DEF CopyHome
        <5> QED BY <4>1, <5>2, <5>3, <5>4
      <4>4. CASE postFailed' = Append(postFailed, e) /\ posted' = posted
        <5>1. CopyAt(c, "postFailed")'
          <6>1. ~ (posted'[c] > 0)
            BY <2>7, <3>3, <4>4
          <6> QED BY <2>1, <4>2, <6>1, NextCopyAt
        <5>2. "postFailed" \in CopyHome
          BY DEF CopyHome
        <5> QED BY <3>1, <4>1, <4>4, <5>1, <5>2
      <4> QED BY <2>3, <4>3, <4>4
    <3> QED BY <3>2, <3>3
  <2>9. ASSUME NEW m \in Message PROVE \E g \in Home : MessageAt(m, g)'
    <3>1. PICK h \in Home : MessageAt(m, h)
      BY <1>h DEF MessagesPlaced
    <3>2. \A p \in Pub : Known(<<m, p>>)' => Known(<<m, p>>)
      BY <1>c, <2>8
    <3> QED BY <2>1, <3>1, <3>2, MessageStays
  <2> QED BY <1>o, <2>1, <2>6, <2>8, <2>9, NextParts
<1>11. CASE UNCHANGED o /\ AfterPost
  <2>1. /\ pc = "post" /\ pc' = "end" /\ postFailed' = <<>> /\ post_retry' = PutRetry(post_retry, Range(postFailed))
        /\ UNCHANGED <<broker, incoming, filtered, rejected, failed, ok, posting, work_retry, posted>>
    BY <1>11 DEF AfterPost, emptyWorklists, history
  <2>2. Range(postFailed) \in SUBSET Copy
    <3>1. Range(postFailed) = {postFailed[i] : i \in 1 .. Len(postFailed)} /\ \A i \in 1 .. Len(postFailed) : postFailed[i] \in Copy
      BY <1>p, RangeEquality
    <3> QED BY <3>1
  <2>3. post_retry'.cur = post_retry.cur /\ post_retry'.new = post_retry.new \cup Range(postFailed)
    BY <2>1, <2>2, PostPut
  <2>4. ASSUME NEW c, Known(c)' PROVE Known(c)
    BY <1>b, <2>1, <2>3, <2>4, NextKnown DEF Known
  <2>5. ASSUME NEW m \in Message PROVE \E g \in Home : MessageAt(m, g)'
    <3>1. PICK h \in Home : MessageAt(m, h)
      BY <1>h DEF MessagesPlaced
    <3> QED BY <2>1, <2>4, <3>1, MessageStays
  <2>6. ASSUME NEW c \in Copy PROVE posted'[c] <= 1 /\ \E g \in CopyHome : CopyAt(c, g)'
    <3>1. PICK h \in CopyHome : CopyAt(c, h) /\ posted[c] <= 1
      BY <1>h DEF CopiesPlaced
    <3>2. PICK g \in CopyHome : g = IF c \in Range(postFailed) THEN "retry new" ELSE h
      BY DEF CopyHome
    <3>3. CopyAt(c, g)'
      BY <1>b, <2>1, <2>3, <3>1, <3>2, NextCopyAt DEF CopyAt
    <3> QED BY <2>1, <3>1, <3>3
  <2>7. Distinct(posting')
    BY <1>h, <2>1 DEF CopiesPlaced
  <2> QED BY <1>o, <2>1, <2>5, <2>6, <2>7, NextParts
<1>12. CASE UNCHANGED vars \/ (UNCHANGED o /\ StopRequest)
  <2>1. UNCHANGED <<broker, worklists, queues, posted, pc>>
    BY <1>12 DEF vars, control, history, StopRequest
  <2> QED BY <1>h, <1>1, <2>1
<1> QED BY <1>k, <1>2, <1>3, <1>4, <1>5, <1>6, <1>7, <1>8, <1>9, <1>10, <1>11, <1>12 DEF Next, Stage

LEMMA FaultCounts ==
    ASSUME {kills, losses, restarts} \subseteq Nat, [Next]_vars
    PROVE  {kills, losses, restarts}' \subseteq Nat /\ (Faultless' => Faultless /\ UNCHANGED faults)
<1>1. CASE UNCHANGED faults
  BY <1>1 DEF faults, Faultless
<1>2. CASE Kill \/ Reconnect \/ Restart
  BY <1>2 DEF Kill, Reconnect, Restart, Faultless
<1>3. CASE Stage \/ StopRequest \/ UNCHANGED vars
  BY <1>1, <1>3 DEF Stage, BeginPass, Close, Gather, FilterOne, AfterAccept, DoOne, WorkAck, AfterWork, PostOne, AfterPost,
      EndPass, StopRequest, vars
<1> QED BY <1>2, <1>3 DEF Next

(* Without a kill, a lost connection or a restart each publisher accepts a message once,
   whatever fails and is retried, unless a rename puts a message in worklist.ok twice. *)
THEOREM GivenOnce == ASSUME NothingRenamed PROVE Spec => []PostedOnce
<1>1. Init => OnceInv
  <2> SUFFICES ASSUME Init PROVE OnceInv
    OBVIOUS
  <2>1. /\ incoming = <<>> /\ filtered = <<>> /\ rejected = <<>> /\ failed = <<>> /\ ok = <<>>
        /\ posting = <<>> /\ postFailed = <<>> /\ pc = "loop" /\ kills = 0 /\ losses = 0 /\ restarts = 0
    BY DEF Init
  <2>2. work_retry.cur = {} /\ work_retry.new = {} /\ post_retry.cur = {} /\ post_retry.new = {}
    BY DEF Init, EmptyQueue
  <2>3. \A c \in Copy : posted[c] = 0
    BY DEF Init
  <2>4. Msgs(<<>>) = {} /\ Range(<<>>) = {} /\ Once(<<>>) /\ Distinct(<<>>)
    BY DEF Msgs, Range, Once, Distinct
  <2>5. \A c \in Copy : ~ Known(c) /\ CopyAt(c, "posting")
    BY <2>1, <2>2, <2>3, <2>4 DEF Known, CopyAt
  <2>6. \A m \in Message : MessageAt(m, "broker")
    BY <2>1, <2>2, <2>4, <2>5 DEF MessageAt, Copy
  <2>7. \A c \in Copy : posted[c] <= 1 /\ \E h \in CopyHome : CopyAt(c, h)
    <3>1. \A c \in Copy : posted[c] <= 1
      BY <2>3
    <3>2. "posting" \in CopyHome
      BY DEF CopyHome
    <3> QED BY <2>5, <3>1, <3>2
  <2>8. \A m \in Message : \E h \in Home : MessageAt(m, h)
    BY <2>6 DEF Home
  <2>9. OneHome
    BY <2>1, <2>4, <2>7, <2>8 DEF OneHome
  <2> QED BY <2>1, <2>9 DEF OnceInv
<1>2. StagesInv /\ OnceInv /\ [Next]_vars => OnceInv'
  BY OneHomeStep, FaultCounts DEF OnceInv
<1>3. OnceInv => PostedOnce
  BY DEF OnceInv, OneHome, PostedOnce, Faultless
<1> QED BY <1>1, <1>2, <1>3, StagesInvariant, PTL DEF Spec

=============================================================================
