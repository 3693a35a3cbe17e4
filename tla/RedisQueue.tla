------------------------------ MODULE RedisQueue -----------------------------
(***************************************************************************)
(* The retry queue that the instances of a configuration share in Redis     *)
(* (sarracenia/redisqueue.py).  Three lists play the parts of the files of   *)
(* DiskQueue; a lock keeps two instances from housekeeping together.         *)
(*                                                                         *)
(* A step is one Redis command, or two that no other instance can tell from  *)
(* one, so that every interleaving of the instances is considered, and an    *)
(* instance can be killed between any two steps.                             *)
(* Time is what the code makes of it: whether the housekeeping interval has  *)
(* passed since last_hk, and which messages are past retry_ttl.              *)
(***************************************************************************)
EXTENDS Naturals, Sequences, FiniteSets, SequencesExt

CONSTANTS
    Instance,    \* the instances that share the queue
    Message,     \* the notification messages that can be put
    cacheKey,    \* cacheKey[m]: the url/identity key _in_cache computes for m
    Ageing,      \* the messages old enough to pass retry_ttl
    Nobody,      \* the owner of a free lock
    Orphan,      \* the owner of a lock whose process has been killed
    NoMessage,   \* what a pop of an empty list returns
    MaxNew,      \* bound on the length of the .new list
    Kinds,       \* the faults considered, a subset of {"kill", "error"}
    MaxFaults    \* bound on the number of kills and failing commands

ASSUME RedisAssumption ==
    /\ DOMAIN cacheKey = Message /\ Ageing \subseteq Message
    /\ Nobody \notin Instance /\ Orphan \notin Instance \cup {Nobody} /\ NoMessage \notin Message
    /\ Kinds \subseteq {"kill", "error"} /\ MaxNew \in Nat /\ MaxFaults \in Nat

VARIABLES
    key,         \* list key_name: the entries offered for retry
    new,         \* list key_name_new: the entries put since
    hk,          \* list key_name_hk: the list housekeeping builds
    lock,        \* owner of redis_lock
    due,         \* whether the interval has passed since key_name_lasthk
    old,         \* the messages past retry_ttl
    seenOld,     \* seenOld[i]: those past it at self.now of instance i
    retry_cache, \* retry_cache[i]: keys seen by the housekeeping of i
    hand,        \* hand[i]: the message i has popped and not yet pushed
    N,           \* N[i]: entries the housekeeping of i has pushed
    pc,          \* pc[i]: where instance i is
    owed,        \* history: messages put, not yet handed out nor discarded
    atRisk,      \* history: what housekeeping held when it was cut short
    faults       \* kills and failing commands so far

lists == <<key, new, hk>>
own == <<seenOld, retry_cache, hand, N>>
vars == <<lists, lock, due, old, own, pc, owed, atRisk, faults>>

Init ==
    /\ key = <<>> /\ new = <<>> /\ hk = <<>>
    /\ lock = Nobody /\ due = FALSE /\ old = {}
    /\ seenOld = [i \in Instance |-> {}] /\ retry_cache = [i \in Instance |-> {}]
    /\ hand = [i \in Instance |-> NoMessage] /\ N = [i \in Instance |-> 0]
    /\ pc = [i \in Instance |-> "idle"]
    /\ owed = {} /\ atRisk = {} /\ faults = 0

goto(i, to) == pc' = [pc EXCEPT ![i] = to]

(* Time passes. *)
Elapse == ~ due /\ due' = TRUE /\ UNCHANGED <<lists, lock, old, own, pc, owed, atRisk, faults>>

Age == \E m \in Ageing \ old :
    /\ old' = old \cup {m}
    /\ UNCHANGED <<lists, lock, due, own, pc, owed, atRisk, faults>>

-----------------------------------------------------------------------------
Put(i) ==
    /\ pc[i] = "idle" /\ Len(new) < MaxNew
    /\ \E m \in Message : new' = Append(new, m) /\ owed' = owed \cup {m}
    /\ UNCHANGED <<key, hk, lock, due, old, own, pc, atRisk, faults>>

(* get: nothing while the lock is held; the lock is not looked at again. *)
GetCall(i) ==
    /\ pc[i] = "idle" /\ lock = Nobody
    /\ goto(i, "get")
    /\ UNCHANGED <<lists, lock, due, old, own, owed, atRisk, faults>>

(* One pop of get.  Expired entries are dropped by the clock of this
   instance, self.now; what is left of the request is chosen freely. *)
GetPop(i) ==
    /\ pc[i] = "get"
    /\ IF key = <<>> THEN goto(i, "idle") /\ UNCHANGED <<key, owed>>
       ELSE /\ key' = Tail(key)
            /\ owed' = owed \ {Head(key)}
            /\ IF Head(key) \in seenOld[i] THEN UNCHANGED pc
               ELSE goto(i, "get") \/ goto(i, "idle")
    /\ UNCHANGED <<new, hk, lock, due, old, own, atRisk, faults>>

-----------------------------------------------------------------------------
(* on_housekeeping: not before the interval has passed; while another instance
   has the lock, wait for its end and leave it at that. *)
HkStart(i) ==
    /\ pc[i] = "idle" /\ due
    /\ goto(i, IF lock = Nobody THEN "acquire" ELSE "wait")
    /\ UNCHANGED <<lists, lock, due, old, own, owed, atRisk, faults>>

HkWait(i) ==
    /\ pc[i] = "wait" /\ lock = Nobody
    /\ goto(i, "idle")
    /\ UNCHANGED <<lists, lock, due, old, own, owed, atRisk, faults>>

HkAcquire(i) ==
    /\ pc[i] = "acquire" /\ lock = Nobody
    /\ lock' = i
    /\ goto(i, "locked")
    /\ UNCHANGED <<lists, due, old, own, owed, atRisk, faults>>

(* "finish retry before reshuffling all retries entries" *)
unfinishedAny == key # <<>> \/ new # <<>>
unfinished == key # <<>>

afterUnfinishedKeepLock == "idle"
afterUnfinished == "release"

(* The test, under the lock, and the start of a new list. *)
HkTest(i) ==
    /\ pc[i] = "locked"
    /\ \/ unfinished /\ goto(i, afterUnfinished) /\ UNCHANGED <<hk, seenOld>>
       \/ /\ ~ unfinished
          /\ seenOld' = [seenOld EXCEPT ![i] = old]
          /\ hk' = <<>>
          /\ goto(i, "pop")
    /\ UNCHANGED <<key, new, lock, due, old, retry_cache, hand, N, owed, atRisk, faults>>

(* One pop of the loops over key_name, then key_name_new. *)
HkPop(i) ==
    /\ pc[i] = "pop"
    /\ IF key \o new = <<>> THEN goto(i, "finish") /\ UNCHANGED <<key, new, hand>>
       ELSE /\ hand' = [hand EXCEPT ![i] = Head(key \o new)]
            /\ key' = IF key = <<>> THEN key ELSE Tail(key)
            /\ new' = IF key = <<>> THEN Tail(new) ELSE new
            /\ goto(i, "push")
    /\ UNCHANGED <<hk, lock, due, old, seenOld, retry_cache, N, owed, atRisk, faults>>

in_cacheNever(i, m) == FALSE
_in_cache(i, m) == cacheKey[m] \in retry_cache[i]
_is_expired(i, m) == m \in seenOld[i]

countPushedNot(i) == N
countPushed(i) == [N EXCEPT ![i] = @ + 1]

(* _needs_requeuing and the push.  A second entry of a message that is in the
   list already leaves it owed. *)
HkPush(i) ==
    /\ pc[i] = "push"
    /\ LET m == hand[i] IN
       IF _in_cache(i, m) \/ _is_expired(i, m)
       THEN /\ owed' = IF m \in Range(hk) THEN owed ELSE owed \ {m}
            /\ UNCHANGED <<hk, N>>
       ELSE hk' = Append(hk, m) /\ N' = countPushed(i) /\ UNCHANGED owed
    /\ retry_cache' = [retry_cache EXCEPT ![i] = @ \cup {cacheKey[hand[i]]}]
    /\ hand' = [hand EXCEPT ![i] = NoMessage]
    /\ goto(i, "pop")
    /\ UNCHANGED <<key, new, lock, due, old, seenOld, atRisk, faults>>

(* "something went wrong": a command of the loops fails, and with it the
   message popped last. *)
HkException(i) ==
    /\ pc[i] \in {"pop", "push"}
    /\ "error" \in Kinds /\ faults < MaxFaults /\ faults' = faults + 1
    /\ atRisk' = atRisk \cup ({hand[i]} \ {NoMessage})
    /\ hand' = [hand EXCEPT ![i] = NoMessage]
    /\ goto(i, "finish")
    /\ UNCHANGED <<lists, lock, due, old, seenOld, retry_cache, N, owed>>

(* Rename the list over key_name, or remove it when nothing was pushed.  The
   variables of this housekeeping are not read again. *)
HkFinish(i) ==
    /\ pc[i] = "finish"
    /\ key' = IF N[i] = 0 THEN key ELSE hk
    /\ hk' = <<>>
    /\ retry_cache' = [retry_cache EXCEPT ![i] = {}] /\ N' = [N EXCEPT ![i] = 0]
    /\ goto(i, "stamp")
    /\ UNCHANGED <<new, lock, due, old, seenOld, hand, owed, atRisk, faults>>

(* "Something went wrong with rename": the list stays where it is, and the next
   housekeeping starts by deleting it. *)
HkRenameFails(i) ==
    /\ pc[i] = "finish" /\ N[i] > 0
    /\ "error" \in Kinds /\ faults < MaxFaults /\ faults' = faults + 1
    /\ atRisk' = atRisk \cup Range(hk)
    /\ retry_cache' = [retry_cache EXCEPT ![i] = {}] /\ N' = [N EXCEPT ![i] = 0]
    /\ goto(i, "stamp")
    /\ UNCHANGED <<lists, lock, due, old, seenOld, hand, owed>>

HkStamp(i) ==
    /\ pc[i] = "stamp"
    /\ due' = FALSE
    /\ goto(i, "release")
    /\ UNCHANGED <<lists, lock, old, own, owed, atRisk, faults>>

HkRelease(i) ==
    /\ pc[i] = "release"
    /\ lock' = Nobody
    /\ goto(i, "idle")
    /\ UNCHANGED <<lists, due, old, own, owed, atRisk, faults>>

-----------------------------------------------------------------------------
building == {"pop", "push", "finish"}

(* The instance is killed, or stopped when it is idle (close). *)
Kill(i) ==
    /\ pc[i] # "down"
    /\ "kill" \in Kinds /\ faults < MaxFaults /\ faults' = faults + 1
    /\ atRisk' = atRisk \cup ({hand[i]} \ {NoMessage})
                        \cup (IF pc[i] \in building THEN Range(hk) ELSE {})
    /\ hand' = [hand EXCEPT ![i] = NoMessage]
    /\ retry_cache' = [retry_cache EXCEPT ![i] = {}] /\ N' = [N EXCEPT ![i] = 0]
    /\ lock' = IF lock = i THEN Orphan ELSE lock
    /\ goto(i, "down")
    /\ UNCHANGED <<lists, due, old, seenOld, owed>>

(* A lock that is no longer renewed expires. *)
LockExpire ==
    /\ lock = Orphan
    /\ lock' = Nobody
    /\ UNCHANGED <<lists, due, old, own, pc, owed, atRisk, faults>>

(* __init__: sets last_hk for all the instances. *)
Restart(i) ==
    /\ pc[i] = "down"
    /\ seenOld' = [seenOld EXCEPT ![i] = old]
    /\ due' = FALSE
    /\ goto(i, "idle")
    /\ UNCHANGED <<lists, lock, old, retry_cache, hand, N, owed, atRisk, faults>>

(* cleanup, when the configuration is stopped. *)
Cleanup ==
    /\ \A i \in Instance : pc[i] = "down"
    /\ key' = <<>> /\ new' = <<>> /\ hk' = <<>> /\ lock' = Nobody
    /\ owed' = {} /\ atRisk' = {}
    /\ UNCHANGED <<due, old, own, pc, faults>>

(* A call of get or of housekeeping that has begun. *)
Continue(i) == \/ GetPop(i) \/ HkWait(i) \/ HkAcquire(i) \/ HkTest(i) \/ HkPop(i)
               \/ HkPush(i) \/ HkFinish(i) \/ HkStamp(i) \/ HkRelease(i)

Next == \/ \E i \in Instance : \/ Put(i) \/ GetCall(i) \/ HkStart(i) \/ Continue(i)
                               \/ HkException(i) \/ HkRenameFails(i) \/ Kill(i) \/ Restart(i)
        \/ Elapse \/ Age \/ LockExpire \/ Cleanup

Spec == Init /\ [][Next]_vars

(* A call that has begun goes on; again and again some instance calls get when
   the lock is free, and housekeeping when it is due, as the loop of Flow.run
   does; the clock runs, Redis expires the locks of the dead, and an instance
   that has ended is started again. *)
RedisFairness ==
    /\ \A i \in Instance : WF_vars(Continue(i))
    /\ SF_vars(\E i \in Instance : GetCall(i)) /\ SF_vars(\E i \in Instance : HkStart(i))
    /\ WF_vars(\E i \in Instance : Restart(i))
    /\ WF_vars(Elapse) /\ WF_vars(LockExpire)

FairSpec == Spec /\ RedisFairness

-----------------------------------------------------------------------------
critical == building \cup {"locked", "stamp", "release"}

TypeOK ==
    /\ key \in Seq(Message) /\ new \in Seq(Message) /\ hk \in Seq(Message)
    /\ due \in BOOLEAN /\ old \subseteq Message
    /\ seenOld \in [Instance -> SUBSET Message]
    /\ hand \in [Instance -> Message \cup {NoMessage}]
    /\ \A i \in Instance : hand[i] # NoMessage <=> pc[i] = "push"
    /\ N \in [Instance -> Nat]
    /\ pc \in [Instance -> critical \cup {"idle", "get", "acquire", "wait", "down"}]
    /\ lock \in Instance \cup {Nobody, Orphan}
    /\ \A i \in Instance : lock = i <=> pc[i] \in critical
    /\ owed \subseteq Message /\ atRisk \subseteq Message

(* Where an accepted message is kept. *)
Queued == Range(key) \cup Range(new) \cup Range(hk) \cup ({hand[i] : i \in Instance} \ {NoMessage})

(* No interleaving of the instances loses a message: one that was put and not
   handed out since is in a list or in the hands of a housekeeping; only a
   kill or a failing command in the middle of housekeeping costs any, and no
   others than those that housekeeping had already moved. *)
LostOnlyInFlight == owed \subseteq Queued \cup atRisk

(* "Persist messages to a Redis List so that processing can be attempted again
   later" (class docstring). *)
Persisted == owed \subseteq Queued

(* Housekeeping offers a file once: get calls that began before it took the
   lock, and other housekeepings, do not bring a second entry of a key. *)
OfferedKeysDistinct ==
    \A m, n \in 1 .. Len(key) : m # n => cacheKey[key[m]] # cacheKey[key[n]]

(* Every accepted message is offered again, expires, or is suppressed as a
   duplicate, unless it was lost as in LostOnlyInFlight: the instances never
   wait for each other, or for a dead one, for ever. *)
EventuallyOffered ==
    \A m \in Message : m \in owed \ atRisk ~> m \notin owed \ atRisk

-----------------------------------------------------------------------------
(* With the counting of the attempts of the callback that uses a queue (Retries): a
   behaviour is of one of the two. *)
CONSTANT RetrySettings

ASSUME RetriesAssumption ==
    /\ RetrySettings \subseteq [retryCountMax : Nat, retry_refilter : BOOLEAN, batch : Nat \ {0}]
    /\ RetrySettings # {} /\ IsFiniteSet(Message)

VARIABLES o, place, isRetry, retries, reposts, stage

Counting == INSTANCE Retries WITH Settings <- RetrySettings

counting == <<o, place, isRetry, retries, reposts, stage>>

(* Nobody uses the queue. *)
QueueOff ==
    /\ key = <<>> /\ new = <<>> /\ hk = <<>> /\ lock = Nobody /\ due = TRUE /\ old = {}
    /\ seenOld = [i \in Instance |-> {}] /\ retry_cache = seenOld /\ N = [i \in Instance |-> 0]
    /\ hand = [i \in Instance |-> NoMessage] /\ pc = [i \in Instance |-> "off"]
    /\ owed = {} /\ atRisk = {} /\ faults = 0

RedisRetriesInit == (Init /\ Counting!Off) \/ (QueueOff /\ Counting!Init)

RedisRetriesNext ==
    \/ stage = "off" /\ Next /\ UNCHANGED counting
    \/ stage # "off" /\ Counting!Next /\ UNCHANGED vars

RedisRetriesSpec ==
    /\ RedisRetriesInit /\ [][RedisRetriesNext]_<<vars, counting>>
    /\ RedisFairness

-----------------------------------------------------------------------------
(* No message is tried more often than retryCountMax (Retries). *)
NotMoreOften == Counting!NotMoreOften

(* A message is only given up after retryCountMax more attempts. *)
NotLessOften == Counting!NotLessOften
=============================================================================
