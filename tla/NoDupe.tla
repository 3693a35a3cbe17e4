------------------------------- MODULE NoDupe --------------------------------
(***************************************************************************)
(* Duplicate suppression with its cache file (flowcb/nodupe/disk.py), in the *)
(* flow that calls it: messages are delivered, looked up by after_accept,    *)
(* worked on and acknowledged, and those that fail come back through the     *)
(* retry queue.                                                             *)
(*                                                                         *)
(* A message is known to the cache by its key and path, its entry.  The file *)
(* gets a line for every look-up, through the buffer of the file object:     *)
(* what is not flushed is lost by a kill.  Of the lines of an entry only the *)
(* last one counts when the file is loaded, so disk holds that one's time.   *)
(*                                                                          *)
(* The second part is the driver that keeps its cache in Redis; a behaviour  *)
(* of SuppressionSpec is one of either driver.                               *)
(***************************************************************************)
EXTENDS Integers, Sequences, FiniteSets, SequencesExt

CONSTANTS
    Message,      \* the notification messages
    entry,        \* entry[m]: what check_message derives from m, key and path
    Young,        \* the messages that can arrive before fileAgeMin
    Aged,         \* the messages whose file can pass fileAgeMax
    nodupe_ttl,   \* option nodupe_ttl
    MaxClock,     \* bound on the clock
    MaxEnds       \* bound on the number of times the process ends

Entry == {entry[m] : m \in Message}
Never == -1 - nodupe_ttl

ASSUME NoDupeAssumption ==
    /\ IsFiniteSet(Message)
    /\ DOMAIN entry = Message /\ Young \subseteq Message /\ Aged \subseteq Message
    /\ nodupe_ttl \in Nat /\ MaxClock \in Nat /\ MaxEnds \in Nat

VARIABLES
    broker,       \* state of each message in the subscribed queue
    incoming,     \* the messages after_accept still has to look at
    accepted,     \* new_incoming, then worklist.incoming: the messages to work on
    rejected,     \* worklist.rejected
    failed,       \* worklist.failed
    retry,        \* the messages in the retry queue
    cache_dict,   \* time of each entry in memory; Never when it has none
    disk,         \* time of each entry in cache_file
    buf,          \* lines written and not flushed: <<entry, time>>
    now,          \* self.now
    clock,        \* the wall clock
    pc,           \* where the process is
    rewritten,    \* whether cache_file was removed and not flushed since
    passed,       \* history: when each entry was last let through as new
    done,         \* history: messages worked on to the end
    dropped,      \* history: messages rejected as duplicates
    tooOld,       \* history: messages rejected because their file was too old
    cut,          \* history: messages a kill took out of the flow's hands
    forgotten,    \* history: entries a kill took out of the cache
    ends          \* times the process has ended

lists == <<incoming, accepted, rejected, failed, retry>>
cache == <<cache_dict, disk, buf, rewritten>>
history == <<passed, done, dropped, tooOld, cut, forgotten>>
vars == <<broker, lists, cache, now, clock, pc, history, ends>>

nothing == [e \in Entry |-> Never]

Init ==
    /\ broker = [m \in Message |-> "ready"]
    /\ incoming = <<>> /\ accepted = {} /\ rejected = {} /\ failed = {} /\ retry = {}
    /\ cache_dict = nothing /\ disk = nothing /\ buf = <<>> /\ rewritten = FALSE
    /\ now = 0 /\ clock = 0 /\ pc = "idle"
    /\ passed = nothing /\ done = {} /\ dropped = {} /\ tooOld = {} /\ cut = {} /\ forgotten = {}
    /\ ends = 0

Tick == /\ clock < MaxClock /\ clock' = clock + 1
        /\ UNCHANGED <<broker, lists, cache, now, pc, history, ends>>

(* What a file holds after lines were added to it. *)
Times(file, ls) ==
    [e \in Entry |-> LET own == {i \in 1 .. Len(ls) : ls[i][1] = e}
                     IN IF own = {} THEN file[e] ELSE ls[CHOOSE i \in own : \A j \in own : j <= i][2]]

flushNot == UNCHANGED <<disk, buf, rewritten>>
flush == disk' = Times(disk, buf) /\ buf' = <<>> /\ rewritten' = FALSE

(* The buffer is full: its first lines go to the file. *)
Spill ==
    /\ buf # <<>>
    /\ disk' = Times(disk, <<Head(buf)>>) /\ buf' = Tail(buf)
    /\ UNCHANGED <<broker, lists, cache_dict, rewritten, now, clock, pc, history, ends>>

-----------------------------------------------------------------------------
(* A pass gathers messages and entries of the retry queue; after_accept reads
   the clock once. *)
Gather ==
    /\ pc = "idle"
    /\ \E S \in SUBSET {m \in Message : broker[m] = "ready"}, R \in SUBSET retry :
          /\ S \cup R # {}
          /\ broker' = [m \in Message |-> IF m \in S THEN "unacked" ELSE broker[m]]
          /\ incoming' = SetToSeq(S \X {FALSE}) \o SetToSeq(R \X {TRUE})
          /\ retry' = retry \ R
    /\ now' = clock
    /\ pc' = "check"
    /\ UNCHANGED <<accepted, rejected, failed, cache, clock, history, ends>>

isRetryNever(e) == FALSE
isRetry(e) == e[2]

presentBefore(e) == cache_dict[e] + nodupe_ttl > now
present(e) == cache_dict[e] + nodupe_ttl >= now

(* One turn of the loop of after_accept.  A file that is too old, and will be so
   from then on, is rejected; one that is too young goes to worklist.failed, and from there to the retry queue, without a look-up; so
   does a message that comes from the retry queue.  Every look-up refreshes
   the entry, in memory and by a line of the file. *)
CheckOne ==
    /\ pc = "check" /\ incoming # <<>>
    /\ incoming' = Tail(incoming)
    /\ LET m == Head(incoming)[1]
           e == entry[m]
           lookUp == /\ cache_dict' = [cache_dict EXCEPT ![e] = now]
                     /\ buf' = Append(buf, <<e, now>>)
       IN \/ /\ m \in Aged
             /\ rejected' = rejected \cup {m} /\ tooOld' = tooOld \cup {m}
             /\ UNCHANGED <<accepted, failed, cache_dict, buf>>
          \/ /\ m \in Young \ tooOld
             /\ failed' = failed \cup {m}
             /\ UNCHANGED <<accepted, rejected, tooOld, cache_dict, buf>>
          \/ /\ m \notin tooOld /\ isRetry(Head(incoming))
             /\ accepted' = accepted \cup {m}
             /\ UNCHANGED <<rejected, failed, tooOld, cache_dict, buf>>
          \/ /\ m \notin tooOld /\ ~ isRetry(Head(incoming)) /\ ~ present(e)
             /\ accepted' = accepted \cup {m}
             /\ lookUp /\ UNCHANGED <<rejected, failed, tooOld>>
          \/ /\ m \notin tooOld /\ ~ isRetry(Head(incoming)) /\ present(e)
             /\ rejected' = rejected \cup {m}
             /\ lookUp /\ UNCHANGED <<accepted, failed, tooOld>>
    /\ passed' = [e \in Entry |->
                     IF e = entry[Head(incoming)[1]] /\ buf' # buf /\ accepted' # accepted
                     THEN now ELSE passed[e]]
    /\ UNCHANGED <<broker, retry, disk, rewritten, now, clock, pc, done, dropped, cut, forgotten, ends>>

(* The end of after_accept flushes the file; Flow.filter then acknowledges
   what was rejected, and what failed. *)
AcceptEnd ==
    /\ pc = "check" /\ incoming = <<>>
    /\ flush
    /\ broker' = [m \in Message |-> IF broker[m] = "unacked" /\ m \in rejected \cup failed THEN "acked" ELSE broker[m]]
    /\ dropped' = dropped \cup (rejected \ tooOld)
    /\ rejected' = {}
    /\ pc' = "work"
    /\ UNCHANGED <<incoming, accepted, failed, retry, cache_dict, now, clock, passed, done, tooOld, cut, forgotten, ends>>

(* Flow.work: each message is done with or fails; all are acknowledged, and
   what has failed is put in the retry queue. *)
Work ==
    /\ pc = "work"
    /\ \E F \in SUBSET accepted : retry' = retry \cup failed \cup F /\ done' = done \cup (accepted \ F)
    /\ broker' = [m \in Message |-> IF broker[m] = "unacked" THEN "acked" ELSE broker[m]]
    /\ accepted' = {} /\ failed' = {}
    /\ pc' = "idle"
    /\ UNCHANGED <<incoming, rejected, cache, now, clock, passed, dropped, tooOld, cut, forgotten, ends>>

-----------------------------------------------------------------------------
(* save: cache_file is closed and removed, *)
SaveUnlink ==
    /\ pc \in {"idle", "stop"}
    /\ disk' = nothing /\ buf' = <<>> /\ rewritten' = TRUE
    /\ pc' = IF pc = "idle" THEN "save" ELSE "stopSave"
    /\ UNCHANGED <<broker, lists, cache_dict, now, clock, history, ends>>

keptAlways(t) == TRUE
kept(t) == clock - t <= nodupe_ttl

(* and clean drops the expired entries and writes the others to a new one. *)
SaveClean ==
    /\ pc \in {"save", "stopSave"}
    /\ cache_dict' = [e \in Entry |-> IF kept(cache_dict[e]) THEN cache_dict[e] ELSE Never]
    /\ buf' = SetToSeq({<<e, cache_dict[e]>> : e \in {f \in Entry : kept(cache_dict[f])}})
    /\ pc' = IF pc = "save" THEN "idle" ELSE "close"
    /\ UNCHANGED <<broker, lists, disk, rewritten, now, clock, history, ends>>

(* on_stop, at the end of the flow: save, then close, which flushes. *)
Stop ==
    /\ pc = "idle" /\ ends < MaxEnds
    /\ pc' = "stop"
    /\ UNCHANGED <<broker, lists, cache, now, clock, history, ends>>

Close ==
    /\ pc = "close"
    /\ flush
    /\ cache_dict' = nothing
    /\ ends' = ends + 1 /\ pc' = "down"
    /\ UNCHANGED <<broker, lists, now, clock, history>>

recent(e) == clock - passed[e] <= nodupe_ttl

Kill ==
    /\ pc # "down" /\ ends < MaxEnds /\ ends' = ends + 1
    /\ pc' = "down"
    /\ cache_dict' = nothing /\ buf' = <<>> /\ rewritten' = FALSE
    /\ forgotten' = forgotten \cup {e \in Entry : recent(e) /\ disk[e] < passed[e]}
    /\ cut' = cut \cup accepted \cup rejected \cup failed \cup {incoming[i][1] : i \in 1 .. Len(incoming)}
    /\ incoming' = <<>> /\ accepted' = {} /\ rejected' = {} /\ failed' = {}
    /\ broker' = [m \in Message |-> IF broker[m] = "unacked" THEN "ready" ELSE broker[m]]
    /\ UNCHANGED <<retry, disk, now, clock, passed, done, dropped, tooOld>>

(* on_start: load *)
Restart ==
    /\ pc = "down"
    /\ cache_dict' = [e \in Entry |-> IF kept(disk[e]) THEN disk[e] ELSE Never]
    /\ pc' = "idle"
    /\ UNCHANGED <<broker, lists, disk, buf, rewritten, now, clock, history, ends>>

Next == \/ Tick \/ Spill \/ Gather \/ CheckOne \/ AcceptEnd \/ Work
        \/ SaveUnlink \/ SaveClean \/ Stop \/ Close \/ Kill \/ Restart

Spec == Init /\ [][Next]_vars

-----------------------------------------------------------------------------
TypeOK ==
    /\ broker \in [Message -> {"ready", "unacked", "acked"}]
    /\ incoming \in Seq(Message \X BOOLEAN)
    /\ \A S \in {accepted, rejected, failed, retry, done, dropped, tooOld, cut} : S \subseteq Message
    /\ \A f \in {cache_dict, disk, passed} : f \in [Entry -> (0 .. MaxClock) \cup {Never}]
    /\ buf \in Seq(Entry \X (0 .. MaxClock))
    /\ now \in 0 .. clock /\ clock \in 0 .. MaxClock /\ rewritten \in BOOLEAN
    /\ pc \in {"idle", "check", "work", "save", "stop", "stopSave", "close", "down"}
    /\ forgotten \subseteq Entry

(* When the flow works on a message its entry is in the file: a kill while it
   is worked on, or later, does not let a duplicate through after the restart.
   The exception is the time between a housekeeping, which writes the file
   anew, and the next flush. *)
DurableBeforeWork ==
    pc \in {"work", "idle", "down"} /\ ~ rewritten =>
        \A e \in Entry : recent(e) /\ e \notin forgotten => disk[e] >= passed[e]

(* No file is let through twice within nodupe_ttl, across housekeeping, stops,
   kills and restarts, unless a kill took the entry out of the cache. *)
SuppressedWithinTtl ==
    [][\A e \in Entry : passed'[e] # passed[e] /\ e \notin forgotten
                            => now - passed[e] > nodupe_ttl]_vars

(* Messages that have been worked on, that the flow will still work on, or that
   it has given up for their age. *)
inHand == accepted \cup failed \cup {incoming[i][1] : i \in 1 .. Len(incoming)}
inCare == done \cup tooOld \cup inHand \cup retry \cup {m \in Message : broker[m] # "acked"}

(* What is rejected as a duplicate is the duplicate of something: a message with
   its entry has been, is being or will be worked on or found too old, or a
   kill got in the way of that. *)
DuplicateOfSomething == \A m \in dropped : \E d \in inCare \cup cut : entry[d] = entry[m]

(* "prevents, when activated, identical files (of some kinds) from being
   processed more than once" (class docstring): what is rejected has been
   processed, or still will be. *)
DroppedIsProcessed == \A m \in dropped : \E d \in inCare : entry[d] = entry[m]

-----------------------------------------------------------------------------
(***************************************************************************)
(* Duplicate suppression with a cache in Redis (flowcb/nodupe/redis.py),   *)
(* which the instances of a configuration share: each reads an entry and   *)
(* then writes it, with other instances in between.  The flow around it,   *)
(* its messages, entries and clock are those above, where one instance has *)
(* its cache in a file; a behaviour uses one of the two drivers.           *)
(***************************************************************************)

CONSTANTS
    Instance,
    Nothing         \* no message

VARIABLES
    driver,         \* option nodupe_driver
    store,          \* when each entry was last written; Never when it is not there
    at,             \* at[i]: "idle", "get", "set", "work"
    hand,           \* hand[i]: the message looked at, and whether it comes from the retry queue
    got,            \* got[i]: what get returned
    seen,           \* history: when each entry was last looked up
    raced           \* history: entries that two instances looked up together

redisVars == <<store, at, hand, got, seen, raced>>
allVars == <<vars, driver, redisVars>>

Idle == <<Nothing, FALSE>>

RedisInit ==
    /\ Init
    /\ driver \in {"disk", "redis"}
    /\ store = nothing /\ seen = nothing /\ raced = {}
    /\ at = [i \in Instance |-> "idle"] /\ hand = [i \in Instance |-> Idle]
    /\ got = [i \in Instance |-> FALSE]

(* There is no file and no memory here; accepted is what the instances hold. *)
untouched == <<incoming, rejected, failed, cache, now, pc, passed, forgotten>>

To(i, where) == at' = [at EXCEPT ![i] = where]
Ours(i) == hand[i][1]
EntryOf(i) == entry[Ours(i)]

Hold(i, m, again) == hand' = [hand EXCEPT ![i] = <<m, again>>] /\ accepted' = accepted \cup {m}
Release(i) == hand' = [hand EXCEPT ![i] = Idle] /\ accepted' = accepted \ {Ours(i)}

(* An instance takes a message, delivered or from its retry queue. *)
RGather(i) ==
    /\ at[i] = "idle" /\ To(i, "get")
    /\ \/ \E m \in {m \in Message : broker[m] = "ready"} :
            /\ broker' = [broker EXCEPT ![m] = "unacked"] /\ Hold(i, m, FALSE)
            /\ UNCHANGED retry
       \/ \E m \in retry :
            /\ retry' = retry \ {m} /\ Hold(i, m, TRUE)
            /\ UNCHANGED broker
    /\ UNCHANGED <<untouched, cut, clock, done, dropped, tooOld, ends, store, got, seen, raced>>

Acknowledge(i) == [m \in Message |-> IF m = Ours(i) /\ broker[m] = "unacked" THEN "acked" ELSE broker[m]]

(* after_accept, for a message that is not looked up: too old, too young, or a retry. *)
RPassBy(i) ==
    /\ at[i] = "get"
    /\ \/ /\ Ours(i) \in Aged
          /\ tooOld' = tooOld \cup {Ours(i)} /\ broker' = Acknowledge(i)
          /\ To(i, "idle") /\ Release(i) /\ UNCHANGED retry
       \/ /\ Ours(i) \in Young \ tooOld
          /\ retry' = retry \cup {Ours(i)} /\ broker' = Acknowledge(i)
          /\ To(i, "idle") /\ Release(i) /\ UNCHANGED tooOld
       \/ /\ Ours(i) \notin tooOld /\ hand[i][2]
          /\ To(i, "work") /\ UNCHANGED <<tooOld, broker, retry, hand, accepted>>
    /\ UNCHANGED <<untouched, cut, clock, done, dropped, ends, store, got, seen, raced>>

(* Redis forgets an entry nodupe_ttl after it was written. *)
Live(e) == clock < store[e] + nodupe_ttl

(* _is_new: get, *)
RGet(i) ==
    /\ at[i] = "get" /\ ~hand[i][2] /\ Ours(i) \notin tooOld
    /\ To(i, "set")
    /\ got' = [got EXCEPT ![i] = Live(EntryOf(i))]
    /\ raced' = IF \E j \in Instance \ {i} : at[j] = "set" /\ EntryOf(j) = EntryOf(i)
                THEN raced \cup {EntryOf(i)} ELSE raced
    /\ UNCHANGED <<untouched, broker, retry, clock, done, dropped, tooOld, ends, store, hand, accepted, cut, seen>>

WrittenIfNew(i) == IF got[i] THEN store ELSE [store EXCEPT ![EntryOf(i)] = clock]

(* ... and set, new or not. *)
Written(i) == [store EXCEPT ![EntryOf(i)] = clock]

RSet(i) ==
    /\ at[i] = "set"
    /\ store' = Written(i)
    /\ seen' = [seen EXCEPT ![EntryOf(i)] = clock]
    /\ IF got[i]
       THEN /\ dropped' = dropped \cup {Ours(i)} /\ broker' = Acknowledge(i)
            /\ To(i, "idle") /\ Release(i)
       ELSE To(i, "work") /\ UNCHANGED <<dropped, broker, hand, accepted>>
    /\ UNCHANGED <<untouched, cut, retry, clock, done, tooOld, ends, got, raced>>

RWork(i) ==
    /\ at[i] = "work" /\ To(i, "idle")
    /\ broker' = Acknowledge(i) /\ Release(i)
    /\ \/ done' = done \cup {Ours(i)} /\ UNCHANGED retry
       \/ retry' = retry \cup {Ours(i)} /\ UNCHANGED done
    /\ UNCHANGED <<untouched, cut, clock, dropped, tooOld, ends, store, got, seen, raced>>

(* A kill takes the message out of the hands of the instance, which starts again. *)
RKill(i) ==
    /\ at[i] # "idle" /\ ends < MaxEnds /\ ends' = ends + 1
    /\ To(i, "idle") /\ Release(i)
    /\ broker' = [broker EXCEPT ![Ours(i)] = IF @ = "unacked" THEN "ready" ELSE @]
    /\ cut' = cut \cup {Ours(i)}
    /\ UNCHANGED <<untouched, retry, clock, done, dropped, tooOld, store, got, seen, raced>>

RTick == /\ clock < MaxClock /\ clock' = clock + 1
         /\ UNCHANGED <<untouched, accepted, cut, broker, retry, done, dropped, tooOld, ends, redisVars>>

RNext == \/ RTick
         \/ \E i \in Instance : RGather(i) \/ RPassBy(i) \/ RGet(i) \/ RSet(i) \/ RWork(i) \/ RKill(i)

SuppressionNext ==
    \/ driver = "disk" /\ Next /\ UNCHANGED <<driver, redisVars>>
    \/ driver = "redis" /\ RNext /\ UNCHANGED driver

SuppressionSpec == RedisInit /\ [][SuppressionNext]_allVars

-----------------------------------------------------------------------------
(* Whichever instance gets them, files that keep coming within nodupe_ttl of one another
   are let through once: every look-up prolongs the life of the entry.  Not if two
   instances look up the same entry together, for the get and the set of _is_new are two
   commands. *)
OnceWhileItKeepsComing ==
    [][\A i \in Instance : at[i] = "set" /\ at'[i] = "work" /\ EntryOf(i) \notin raced
                               => clock - seen[EntryOf(i)] >= nodupe_ttl]_allVars
=============================================================================
