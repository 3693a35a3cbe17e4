------------------------------ MODULE DiskQueue ------------------------------
(***************************************************************************)
(* The on-disk retry queue of a flow instance (sarracenia/diskqueue.py).    *)
(*                                                                         *)
(* Three files hold the entries, one JSON line each:                       *)
(*   queue_file  the entries offered for retry in this interval,           *)
(*   .new        the entries put during this interval,                     *)
(*   .hk         the file housekeeping builds for the next interval.       *)
(* get reads queue_file from its start without shortening it and removes   *)
(* the file when it is exhausted; housekeeping copies what is still due     *)
(* into .hk, renames .hk over queue_file and removes .new.  The process     *)
(* may be killed between any two system calls and be started again.         *)
(*                                                                         *)
(* A file that does not exist is <<>>: queue_file is only ever created by   *)
(* the rename of a non-empty .hk, and an empty .new is read as no .new.     *)
(***************************************************************************)
EXTENDS Integers, Sequences, FiniteSets

CONSTANTS
    Message,     \* the notification messages that can be put
    cacheKey,    \* cacheKey[m]: the url/identity key in_cache computes for m
    pubTime,     \* pubTime[m]: publication time of m
    retry_ttl,   \* age at which an entry expires; 0 disables expiry
    Frag,        \* an unterminated line: what a kill in the middle of a write leaves
    Junk,        \* a terminated line that does not decode
    Faults,      \* the failures considered, a subset of {"torn", "io"}
    MaxClock,    \* bound on the clock
    MaxBatch,    \* bound on the messages of one put, and on the size of one get
    MaxNew,      \* bound on the lines of .new
    MaxEnds      \* bound on the number of times the process ends

ASSUME ConstantsAssumption ==
    /\ cacheKey \in [Message -> STRING]
    /\ pubTime \in [Message -> Nat]
    /\ retry_ttl \in Nat
    /\ Frag \notin Message /\ Junk \notin Message /\ Frag # Junk
    /\ Faults \subseteq {"torn", "io"}
    /\ MaxClock \in Nat /\ MaxBatch \in Nat /\ MaxNew \in Nat /\ MaxEnds \in Nat

VARIABLES
    queue,         \* lines of queue_file
    new,           \* lines of .new
    hk,            \* lines of .hk
    queueAge,      \* modification time of queue_file
    newAge,        \* modification time of .new
    hkAge,         \* modification time of .hk, which the rename keeps
    fp,            \* lines of queue_file read so far; 0 is queue_fp = None
    msg_count,     \* entries the code believes are left in queue_file
    msg_count_new, \* entries the code believes are in .new
    now,           \* self.now: the time expiry is computed against
    retry_cache,   \* keys seen by the housekeeping in progress
    pos,           \* lines read by housekeeping from the file it is copying
    N,             \* entries housekeeping has written to .hk
    want,          \* entries the get in progress still has to return
    pc,            \* where the process is
    clock,         \* the wall clock
    ends,          \* times the process has ended
    owed           \* history: messages put, not yet handed out nor discarded

files    == <<queue, new, hk, queueAge, newAge, hkAge>>
counters == <<msg_count, msg_count_new>>
hkVars   == <<retry_cache, pos, N>>
vars     == <<files, fp, counters, now, hkVars, want, pc, clock, ends, owed>>

Line == Message \cup {Frag, Junk}

(* The lines of a file that follow its first n: as a set, and in order. *)
Unread(s, n) == {s[i] : i \in n + 1 .. Len(s)}
After(s, n) == SubSeq(s, n + 1, Len(s))
RangeOf(s) == Unread(s, 0)

(* is_expired: the age is taken at self.now, which only __init__ and
   on_housekeeping set. *)
is_expired(m) == retry_ttl > 0 /\ now - pubTime[m] > retry_ttl

(* Variant: duplicates are looked for in queue_file only. *)
in_cacheQueueOnly(m) == pc = "copyQueue" /\ cacheKey[m] \in retry_cache

(* in_cache without its side effect, which is retry_cache' in the actions. *)
in_cache(m) == cacheKey[m] \in retry_cache

(* __len__ *)
len == (IF msg_count > 0 THEN msg_count ELSE 0) + msg_count_new

(* Appending lines to a file whose last line has no newline joins the first
   of them to that line, which then decodes no more. *)
Extend(f, ls) ==
    IF f # <<>> /\ ls # <<>> /\ f[Len(f)] = Frag
    THEN SubSeq(f, 1, Len(f) - 1)
           \o <<IF Head(ls) = Frag THEN Frag ELSE Junk>> \o Tail(ls)
    ELSE f \o ls

(* count_msgs: every line holds a "{", the corrupted ones too. *)
count_msgsShort(f) == Len(f) - 1
count_msgs(f) == Len(f)

(* The end of queue_file: it is removed and queue_fp forgotten. *)
exhaustedFileOpen == queue' = <<>> /\ UNCHANGED fp
exhausted == queue' = <<>> /\ fp' = 0

(* The interval is not over: the guard of on_housekeeping. *)
unfinishedNever == FALSE
unfinished == (queue # <<>> /\ fp # 0) \/ msg_count # 0

(* A .new older than queue_file is what a kill between rename and unlink left
   behind: __init__ removes it. *)
newIsOlderOrSame == queue # <<>> /\ queueAge >= newAge
newIsOlder == queue # <<>> /\ queueAge > newAge

(* close: the files are closed and both counters forgotten. *)
close == /\ fp' = 0
         /\ msg_count' = 0
         /\ msg_count_new' = 0

-----------------------------------------------------------------------------
Init ==
    /\ queue = <<>> /\ new = <<>> /\ hk = <<>>
    /\ queueAge = 0 /\ newAge = 0 /\ hkAge = 0
    /\ fp = 0 /\ msg_count = 0 /\ msg_count_new = 0
    /\ now = 0 /\ retry_cache = {} /\ pos = 0 /\ N = 0 /\ want = 0
    /\ pc = "idle" /\ clock = 0 /\ ends = 0 /\ owed = {}

Tick == /\ clock < MaxClock
        /\ clock' = clock + 1
        /\ UNCHANGED <<files, fp, counters, now, hkVars, want, pc, ends, owed>>

(* put: append to .new and flush. *)
Put(ms) ==
    /\ pc = "idle"
    /\ Len(new) + Len(ms) <= MaxNew
    /\ new' = Extend(new, ms)
    /\ newAge' = clock
    /\ msg_count_new' = msg_count_new + Len(ms)
    /\ owed' = owed \cup RangeOf(ms)
    /\ UNCHANGED <<queue, hk, queueAge, hkAge, fp, msg_count, now, hkVars, want, pc, clock, ends>>

-----------------------------------------------------------------------------
(* get(maximum_messages_to_get): one call is GetCall, then one GetLine for   *)
(* each line read, and ends in GetReturn or at the end of the file in GetEOF. *)
GetCall(maximum) ==
    /\ pc = "idle"
    /\ ~ (msg_count = 0 /\ fp = 0)
    /\ pc' = "get"
    /\ want' = maximum
    /\ UNCHANGED <<files, fp, counters, now, hkVars, clock, ends, owed>>

GetLine ==
    /\ pc = "get" /\ want > 0 /\ fp < Len(queue)
    /\ fp' = fp + 1
    /\ \/ /\ queue[fp + 1] \notin Message             \* corrupted line, skipped
          /\ UNCHANGED <<msg_count, want, owed>>
       \/ /\ queue[fp + 1] \in Message
          /\ msg_count' = msg_count - 1
          /\ want' = IF is_expired(queue[fp + 1]) THEN want ELSE want - 1
          /\ owed' = owed \ {queue[fp + 1]}
    /\ UNCHANGED <<files, msg_count_new, now, hkVars, pc, clock, ends>>

(* Variant: the end of the file leaves the counter alone. *)
GetEOFCountKept ==
    /\ pc = "get" /\ want > 0 /\ fp = Len(queue)
    /\ exhausted
    /\ want' = 0
    /\ pc' = "idle"
    /\ UNCHANGED <<new, hk, queueAge, newAge, hkAge, counters, now, hkVars, clock, ends, owed>>

GetEOF ==
    /\ pc = "get" /\ want > 0 /\ fp = Len(queue)
    /\ exhausted
    /\ msg_count' = 0
    /\ want' = 0
    /\ pc' = "idle"
    /\ UNCHANGED <<new, hk, queueAge, newAge, hkAge, msg_count_new, now, hkVars, clock, ends, owed>>

GetReturn ==
    /\ pc = "get" /\ want = 0
    /\ IF msg_count = 0 THEN exhausted ELSE UNCHANGED <<queue, fp>>
    /\ pc' = "idle"
    /\ UNCHANGED <<new, hk, queueAge, newAge, hkAge, counters, now, hkVars, want, clock, ends, owed>>

-----------------------------------------------------------------------------
(* on_housekeeping: HkStart, then HkLine for each line of queue_file and     *)
(* then of .new, then HkRename and HkUnlink.                                 *)
HkStart ==
    /\ pc = "idle"
    /\ ~ unfinished
    /\ now' = clock
    /\ close
    /\ retry_cache' = {} /\ pos' = 0 /\ N' = 0
    /\ hk' = <<>> /\ hkAge' = clock
    /\ pc' = "copyQueue"
    /\ UNCHANGED <<queue, new, queueAge, newAge, want, clock, ends, owed>>

copying == pc \in {"copyQueue", "copyNew"}
src == IF pc = "copyQueue" THEN queue ELSE new

(* needs_requeuing(message): the key enters the cache before the expiry is
   looked at. *)
HkLine ==
    /\ copying /\ pos < Len(src)
    /\ pos' = pos + 1
    /\ LET m == src[pos + 1] IN
       \/ /\ m \notin Message                         \* corrupted line, skipped
          /\ UNCHANGED <<hk, N, retry_cache, owed>>
       \/ /\ m \in Message /\ (in_cache(m) \/ is_expired(m))
          /\ retry_cache' = retry_cache \cup {cacheKey[m]}
          /\ owed' = owed \ {m}
          /\ UNCHANGED <<hk, N>>
       \/ /\ m \in Message /\ ~ in_cache(m) /\ ~ is_expired(m)
          /\ retry_cache' = retry_cache \cup {cacheKey[m]}
          /\ hk' = Append(hk, m)
          /\ N' = N + 1
          /\ UNCHANGED owed
    /\ UNCHANGED <<queue, new, queueAge, newAge, hkAge, fp, counters, now, want, pc, clock, ends>>

(* The end of a file; after the second one .hk is closed, which writes it. *)
HkEndOfFile ==
    /\ copying /\ pos = Len(src)
    /\ pos' = 0
    /\ pc' = IF pc = "copyQueue" THEN "copyNew" ELSE "rename"
    /\ hkAge' = IF pc = "copyQueue" THEN hkAge ELSE clock
    /\ UNCHANGED <<queue, new, hk, queueAge, newAge, fp, counters, now, retry_cache, N, want, clock, ends, owed>>

(* The exception handler around the copy: the error is logged and the
   housekeeping goes on with what has reached .hk. *)
HkException ==
    /\ "io" \in Faults
    /\ copying
    /\ \E k \in 0 .. Len(hk) : hk' = SubSeq(hk, 1, k)
    /\ hkAge' \in {hkAge, clock}
    /\ pc' = "rename"
    /\ UNCHANGED <<queue, new, queueAge, newAge, fp, counters, now, hkVars, want, clock, ends, owed>>

(* .hk becomes queue_file when it holds an entry; otherwise it is removed and
   queue_file is left as it is.  A rename that fails is only logged. *)
HkRename ==
    /\ pc = "rename"
    /\ msg_count' = N
    /\ \/ N = 0 /\ hk' = <<>> /\ UNCHANGED <<queue, queueAge>>
       \/ N # 0 /\ queue' = hk /\ queueAge' = hkAge /\ hk' = <<>>
       \/ N # 0 /\ "io" \in Faults /\ UNCHANGED <<queue, queueAge, hk>>
    /\ pc' = "unlink"
    /\ UNCHANGED <<new, newAge, hkAge, fp, msg_count_new, now, hkVars, want, clock, ends, owed>>

HkUnlink ==
    /\ pc = "unlink"
    /\ new' = <<>>
    /\ msg_count_new' = 0
    /\ pc' = "idle"
    /\ UNCHANGED <<queue, hk, queueAge, newAge, hkAge, fp, msg_count, now, hkVars, want, clock, ends, owed>>

-----------------------------------------------------------------------------
(* The process ends: what was in memory is gone.  Retry.on_stop closes the
   queue when the flow stops. *)
Stop == /\ pc = "idle" /\ ends < MaxEnds
        /\ ends' = ends + 1
        /\ close
        /\ pc' = "down"
        /\ UNCHANGED <<files, now, hkVars, want, clock, owed>>

Kill == /\ pc # "down" /\ ends < MaxEnds
        /\ ends' = ends + 1
        /\ close /\ want' = 0 /\ retry_cache' = {} /\ pos' = 0 /\ N' = 0
        /\ pc' = "down"

Crash == Kill /\ UNCHANGED <<files, now, clock, owed>>

(* The process is killed inside put: the first k messages and a part of the
   next one have been written. *)
CrashInPut(ms, k) ==
    /\ "torn" \in Faults
    /\ pc = "idle" /\ k < Len(ms)
    /\ Len(new) + k + 1 <= MaxNew
    /\ new' = Extend(new, SubSeq(ms, 1, k) \o <<Frag>>)
    /\ newAge' = clock
    /\ Kill
    /\ UNCHANGED <<queue, hk, queueAge, hkAge, now, clock, owed>>

(* __init__: the counters are taken from the files, unless there is no
   queue_file, when .new is not even looked at. *)
Restart ==
    /\ pc = "down"
    /\ now' = clock
    /\ fp' = 0
    /\ msg_count' = IF queue = <<>> THEN 0 ELSE count_msgs(queue)
    /\ new' = IF newIsOlder THEN <<>> ELSE new
    /\ msg_count_new' = IF queue = <<>> THEN 0 ELSE count_msgs(new')
    /\ pc' = "idle"
    /\ UNCHANGED <<queue, hk, queueAge, newAge, hkAge, hkVars, want, clock, ends, owed>>

(* "sr3 cleanup" of a stopped configuration: cleanup, then every file of the
   state directory. *)
Cleanup ==
    /\ pc = "down"
    /\ queue' = <<>> /\ new' = <<>> /\ hk' = <<>>
    /\ owed' = {}
    /\ UNCHANGED <<queueAge, newAge, hkAge, fp, counters, now, hkVars, want, pc, clock, ends>>

Batches == UNION {[1 .. n -> Message] : n \in 1 .. MaxBatch}

Get  == (\E n \in 1 .. MaxBatch : GetCall(n)) \/ GetLine \/ GetEOF \/ GetReturn
on_housekeeping == HkStart \/ HkLine \/ HkEndOfFile \/ HkException \/ HkRename \/ HkUnlink
Process == Stop \/ Crash \/ Restart \/ Cleanup
               \/ \E ms \in Batches, k \in 0 .. MaxBatch - 1 : CrashInPut(ms, k)

Next == \/ Tick
        \/ \E ms \in Batches : Put(ms)
        \/ Get
        \/ on_housekeeping
        \/ Process

Spec == Init /\ [][Next]_vars

(* Flow.run calls get (through Retry) on every pass and housekeeping on every
   interval, a call that has begun runs to its end, and a stopped instance is
   started again. *)
FairSpec == Spec /\ WF_vars(Get) /\ WF_vars(on_housekeeping) /\ WF_vars(Restart)
-----------------------------------------------------------------------------
TypeOK ==
    /\ queue \in Seq(Line) /\ new \in Seq(Line) /\ hk \in Seq(Message)
    /\ queueAge \in Nat /\ newAge \in Nat /\ hkAge \in Nat /\ clock \in Nat /\ now \in Nat
    /\ fp \in 0 .. Len(queue)
    /\ msg_count \in Int /\ msg_count_new \in Nat
    /\ retry_cache \subseteq STRING
    /\ pos \in Nat /\ N \in Nat /\ want \in Nat
    /\ pc \in {"idle", "get", "copyQueue", "copyNew", "rename", "unlink", "down"}
    /\ ends \in Nat
    /\ owed \subseteq Message

(* The lines a future get can still reach: the unread part of queue_file and
   .new, unless housekeeping, or the next __init__, is about to remove .new. *)
newIsStale == pc = "unlink" \/ (pc = "down" /\ newIsOlder)
Reachable == Unread(queue, fp) \cup (IF newIsStale THEN {} ELSE RangeOf(new))

(* Nothing that put accepted is lost: until it is handed out by get, or
   discarded as expired or as a duplicate, a message stays in a file from which
   it will be read, through every step of housekeeping, at whichever of them the
   process is killed, and through the restart that decides what .new is worth. *)
OwedOnDisk == owed \subseteq Reachable

(* "msg_count is the number of messages available for retry in this interval"
   (comment in __init__): between calls, the counter that get and housekeeping
   steer by is the number of unread lines of queue_file. *)
CountAvailable == pc \in {"idle", "get"} => msg_count = Len(queue) - fp

(* Housekeeping never offers the same file twice in an interval: the entries
   of queue_file have distinct keys, also after a kill and a restart. *)
QueueKeysDistinct ==
    \A i, j \in 1 .. Len(queue) :
        i # j /\ queue[i] \in Message /\ queue[j] \in Message
            => cacheKey[queue[i]] # cacheKey[queue[j]]

(* What get reads between two housekeepings: each file once, and as many lines as the
   counter says. *)
QueueFileRight == CountAvailable /\ QueueKeysDistinct

(* The counter never falls below the number of entries that are left, whatever
   was torn or failed: otherwise get would remove the file too early. *)
CountCovers ==
    pc \in {"idle", "get"} => msg_count >= Cardinality({i \in fp + 1 .. Len(queue) : queue[i] \in Message})

(* No accepted message waits in the files for ever: it is offered again, expires
   or is suppressed as a duplicate, whatever was torn; the one way out besides
   is a housekeeping that fails. *)
EventuallyOffered ==
    \A m \in Message : m \in owed \cap Reachable ~> m \notin owed \cap Reachable

(* An interval ends: whatever queue_file holds (corrupted lines, fewer entries
   than counted), get exhausts it and housekeeping can run again. *)
IntervalEnds == msg_count # 0 ~> msg_count = 0

(* The queue serves: every interval ends, and with them the wait of every message. *)
IntervalsServe == IntervalEnds /\ EventuallyOffered

(* The queue as its user sees it: the unread lines, those a kill would bring
   back, and the .new that housekeeping has copied but not removed yet. *)
Abstract == INSTANCE RetryQueue WITH
    key <- cacheKey,
    expired <- {m \in Message : is_expired(m)},
    q <- IF newIsStale THEN After(queue, fp) ELSE After(queue, fp) \o new,
    behind <- SubSeq(queue, 1, fp),
    trash <- IF pc = "unlink" THEN new ELSE <<>>,
    up <- pc # "down"

(* The three files and two counters implement a first-in first-out queue with
   at-least-once delivery: entries are handed out in the order of the puts
   across intervals, kills and restarts, a kill only repeats, and housekeeping
   leaves out nothing but duplicates and keys with an expired entry. *)
ImplementsRetryQueue == Abstract!QSpec
=============================================================================
