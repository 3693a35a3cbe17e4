------------------------------- MODULE Retries -------------------------------
(***************************************************************************)
(* How often a message is tried (flowcb/retry.py).  The callback counts in *)
(* each message, as _isRetry, what became of it: one more when it is put   *)
(* in the queue of failed transfers, and one more when it is taken out; in *)
(* the queue of failed posts only when it is put.  A message that counts   *)
(* more than retryCountMax is dropped, with an error in the log.  Flow has *)
(* the rest of the life of a message, with kills and lost connections.     *)
(***************************************************************************)
EXTENDS Naturals, FiniteSets

CONSTANTS
    Message,
    Settings        \* [retryCountMax, retry_refilter, batch]

VARIABLES
    o,              \* the options
    place,          \* where each message is
    isRetry,        \* its _isRetry
    retries,        \* history: how often each was taken from the queue for another transfer
    reposts,        \* history: ... and for another post
    stage           \* the entry point that comes next

vars == <<o, place, isRetry, retries, reposts, stage>>

(* new: put since housekeeping; available: what get returns. *)
WorkQueue == {"work new", "work available"}
PostQueue == {"post new", "post available"}
Settled == {"posted", "gave up", "expired"}
Place == {"broker", "incoming", "ok", "failed", "post failed"} \cup WorkQueue \cup PostQueue \cup Settled

At(p) == {m \in Message : place[m] = p}

(* The histories stop where they tell no more. *)
Enough == o.retryCountMax + 2
UpTo(n, max) == IF n > max THEN max ELSE n
MoreOf(history, S) == [m \in Message |-> IF m \in S THEN UpTo(history[m] + 1, Enough) ELSE history[m]]

TypeOK ==
    /\ place \in [Message -> Place]
    /\ \A m \in Message : {retries[m], reposts[m]} \subseteq 0 .. Enough

-----------------------------------------------------------------------------
SetIsTrue(n) == 1

(* __set_isRetry *)
SetIsRetry(n) == UpTo(n + 1, Enough)

Counted(S) == [m \in Message |-> IF m \in S THEN SetIsRetry(isRetry[m]) ELSE isRetry[m]]

(* __filter_by_retry_count *)
GivesUp(n) == o.retryCountMax > 0 /\ n > o.retryCountMax

(* Messages that were counted go on to where they were meant to, or are dropped. *)
Kept(from, S, to) ==
    [m \in Message |-> IF m \notin S THEN from[m] ELSE IF GivesUp(SetIsRetry(isRetry[m])) THEN "gave up" ELSE to]

(* get: as many as there are, up to n. *)
Got(p, n) == {S \in SUBSET At(p) : Cardinality(S) = UpTo(Cardinality(At(p)), n)}

Init ==
    /\ o \in Settings
    /\ place = [m \in Message |-> "broker"]
    /\ isRetry = [m \in Message |-> 0] /\ retries = isRetry /\ reposts = isRetry
    /\ stage = "gather"

(* No flow that counts. *)
Off ==
    /\ o = (CHOOSE any \in Settings : TRUE) /\ place = [m \in Message |-> "broker"]
    /\ isRetry = [m \in Message |-> 0] /\ retries = isRetry /\ reposts = isRetry
    /\ stage = "off"

(* gather: to be filtered again, a message loses what was computed, _isRetry too. *)
Gather ==
    /\ stage = "gather" /\ stage' = "after_accept"
    /\ \E new \in SUBSET At("broker") :
        /\ Cardinality(new) <= o.batch
        /\ \E again \in Got("work available", IF o.retry_refilter THEN o.batch - Cardinality(new) ELSE 0) :
            /\ place' = [m \in Message |-> IF m \in new \cup again THEN "incoming" ELSE place[m]]
            /\ isRetry' = [m \in Message |-> IF m \in again THEN 1 ELSE isRetry[m]]
            /\ retries' = MoreOf(retries, again)
    /\ UNCHANGED <<o, reposts>>

HalfRoundedDown(n) == IF o.batch \div 2 > n THEN o.batch \div 2 - n ELSE 0

(* Half a batch less what came in: get goes on while it has less, so half a message more
   is one more. *)
RetryRoom(n) == IF (o.batch + 1) \div 2 > n THEN (o.batch + 1) \div 2 - n ELSE 0

(* after_accept *)
AfterAccept ==
    /\ stage = "after_accept" /\ stage' = "work"
    /\ \E again \in Got("work available", IF o.retry_refilter THEN 0 ELSE RetryRoom(Cardinality(At("incoming")))) :
        /\ place' = Kept(place, again, "incoming")
        /\ isRetry' = Counted(again)
        /\ retries' = MoreOf(retries, {m \in again : place'[m] = "incoming"})
    /\ UNCHANGED <<o, reposts>>

(* The transfers of the batch: each succeeds or fails. *)
Work ==
    /\ stage = "work" /\ stage' = "after_work"
    /\ \E good \in SUBSET At("incoming") :
        place' = [m \in Message |-> IF m \in good THEN "ok" ELSE IF place[m] = "incoming" THEN "failed" ELSE place[m]]
    /\ UNCHANGED <<o, isRetry, retries, reposts>>

PostRoom(n) ==
    IF o.batch > 2 THEN HalfRoundedDown(n) ELSE IF o.batch > n THEN o.batch - n ELSE 0

(* after_work: what failed is put in one queue, what was not posted is got from the other. *)
AfterWork ==
    /\ stage = "after_work" /\ stage' = "post"
    /\ isRetry' = Counted(At("failed"))
    /\ \E again \in Got("post available", PostRoom(Cardinality(At("ok")))) :
        /\ place' = [m \in Message |-> IF m \in again THEN "ok" ELSE Kept(place, At("failed"), "work new")[m]]
        /\ reposts' = MoreOf(reposts, again)
    /\ UNCHANGED <<o, retries>>

Post ==
    /\ stage = "post" /\ stage' = "after_post"
    /\ \E good \in SUBSET At("ok") :
        place' = [m \in Message |-> IF m \in good THEN "posted" ELSE IF place[m] = "ok" THEN "post failed" ELSE place[m]]
    /\ UNCHANGED <<o, isRetry, retries, reposts>>

(* after_post *)
AfterPost ==
    /\ stage = "after_post" /\ stage' = "end"
    /\ place' = Kept(place, At("post failed"), "post new")
    /\ isRetry' = Counted(At("post failed"))
    /\ UNCHANGED <<o, retries, reposts>>

(* on_housekeeping of each queue: nothing while some are available; else what is not too
   old for retry_ttl becomes available. *)
Renewed(from, new, available, old) ==
    [m \in Message |-> IF from[m] # new \/ At(available) # {} THEN from[m] ELSE IF m \in old THEN "expired" ELSE available]

Housekeeping ==
    /\ stage = "end" /\ stage' = "gather"
    /\ \E old \in SUBSET (At("work new") \cup At("post new")) :
        place' = Renewed(Renewed(place, "work new", "work available", old), "post new", "post available", old)
    /\ UNCHANGED <<o, isRetry, retries, reposts>>

(* Housekeeping is not due at every pass. *)
NextPass ==
    /\ stage = "end" /\ stage' = "gather"
    /\ UNCHANGED <<o, place, isRetry, retries, reposts>>

Pass == Gather \/ AfterAccept \/ Work \/ AfterWork \/ Post \/ AfterPost \/ NextPass

Next == Pass \/ Housekeeping

Spec == Init /\ [][Next]_vars

-----------------------------------------------------------------------------
(* With a retryCountMax, no message is tried more often than that after its first failure,
   neither the transfer nor the post (__set_isRetry, __filter_by_retry_count; with
   retry_refilter the count starts again at every turn). *)
NotMoreOften ==
    o.retryCountMax > 0 /\ ~o.retry_refilter =>
        \A m \in Message : retries[m] <= o.retryCountMax /\ reposts[m] <= o.retryCountMax

(* What sr3_options says of retryCountMax: the counter is incremented each time the message
   is retrieved for another attempt, and it is discarded if the attempts exceed it. *)
NotLessOften ==
    \A m \in Message : place[m] = "gave up" => retries[m] + reposts[m] >= o.retryCountMax
=============================================================================
