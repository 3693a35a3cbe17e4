-------------------------------- MODULE Flow ---------------------------------
(***************************************************************************)
(* The life of a notification message in one flow instance: Flow.run and    *)
(* its stages gather, filter, work and post (sarracenia/flow/__init__.py)   *)
(* with the Retry (flowcb/retry.py), gather.message and post.message        *)
(* callbacks that move messages between the broker, the worklists, the two   *)
(* retry queues and the publishers.                                         *)
(*                                                                         *)
(* What happens to a message in a stage (a mask matches, a transfer fails,   *)
(* a broker refuses a post) is chosen freely.  The instance can be killed    *)
(* between any two steps, can lose its connection to the broker, and can be  *)
(* asked to stop at any time.  The retry queues behave as DiskQueue is       *)
(* shown to: entries put become available at housekeeping once the           *)
(* available ones are used up, and a kill repeats the entries that were       *)
(* handed out since.                                                        *)
(***************************************************************************)
EXTENDS Naturals, Sequences, FiniteSets, SequencesExt

CONSTANTS
    Message,       \* the notification messages of the subscribed queue
    RenameAway,    \* those renaming an accepted file to a name a reject mask matches
    RenameHere,    \* those renaming a file to a name the masks accept
    NPub,          \* number of publishers (post_broker options)
    sameUrl,       \* whether the publishers announce the same baseUrl
    Options,       \* the settings of download and retry_refilter to consider
    batch,         \* option batch
    prefetch,      \* option prefetch: unacknowledged messages the broker allows
    Vip,           \* what has_vip can return
    MaxKills,      \* bound on the number of kills
    MaxLosses,     \* bound on the number of lost connections
    MaxRestarts    \* bound on the number of restarts

ASSUME FlowAssumption ==
    /\ RenameAway \subseteq Message /\ RenameHere \subseteq Message
    /\ NPub \in Nat /\ batch \in Nat \ {0} /\ prefetch \in Nat \ {0}
    /\ sameUrl \in BOOLEAN /\ Vip \subseteq BOOLEAN
    /\ Options \subseteq [download : BOOLEAN, retry_refilter : BOOLEAN]
    /\ MaxKills \in Nat /\ MaxLosses \in Nat /\ MaxRestarts \in Nat
    /\ IsFiniteSet(Message)

VARIABLES
    o,             \* the options of this instance
    broker,        \* state of each message in the subscribed queue
    incoming, filtered, rejected, failed, ok,   \* worklists of <<message, has ack_id>>
    posting,       \* worklist.ok once work has made one <<message, publisher>> copy each
    postFailed,    \* worklist.failed after the post plugins
    work_retry,    \* download_retry: messages
    post_retry,    \* post_retry: <<message, publisher>> copies
    stop_requested, stopping, have_vip,
    pc,            \* the stage the instance is in
    posted,        \* history: times each publisher accepted each message, up to MaxPosted
    refused,       \* history: messages rejected for good
    lost,          \* history: messages a kill has lost
    kills, losses, restarts

worklists == <<incoming, filtered, rejected, failed, ok, posting, postFailed>>
queues == <<work_retry, post_retry>>
control == <<stop_requested, stopping, have_vip, pc>>
history == <<posted, refused, lost>>
faults == <<kills, losses, restarts>>
vars == <<o, broker, worklists, queues, control, history, faults>>

(* posted tells never, once and more than once apart. *)
MaxPosted == 2

Pub == 0 .. NPub - 1
Copy == Message \X Pub
Msgs(list) == {list[i][1] : i \in 1 .. Len(list)}

-----------------------------------------------------------------------------
(* A retry queue: available entries, entries handed out since queue_file was
   made, entries put since. *)
EmptyQueue == [cur |-> {}, behind |-> {}, new |-> {}]

PutRetry(q, S) == [q EXCEPT !.new = @ \cup S]

(* get: removing the last available entry removes the file. *)
GetRetryKeeps(q, S) == q
GetRetry(q, S) == IF q.cur = S THEN [q EXCEPT !.cur = {}, !.behind = {}]
                  ELSE [q EXCEPT !.cur = @ \ S, !.behind = @ \cup S]

Got(q, n) == {S \in SUBSET q.cur : Cardinality(S) = IF Cardinality(q.cur) < n THEN Cardinality(q.cur) ELSE n}

(* on_housekeeping, which keeps one entry of each key; the key of a copy has
   no part that names its publisher, only the baseUrl announced to it. *)
sameKeyNoPublisher(c, d) == c[1] = d[1]
sameKey(c, d) == c[1] = d[1] /\ (sameUrl \/ c[2] = d[2])
housekeepWork(q) == IF q.cur # {} THEN q ELSE [EmptyQueue EXCEPT !.cur = q.new]
HousekeepPost(q, r) ==
    IF q.cur # {} THEN r = q
    ELSE \E S \in SUBSET q.new :
            /\ \A c \in q.new : \E d \in S : sameKey(c, d)
            /\ \A c, d \in S : sameKey(c, d) => c = d
            /\ r = [EmptyQueue EXCEPT !.cur = S]

(* __init__ reads queue_file from its start again. *)
Reopen(q) == [q EXCEPT !.cur = @ \cup q.behind, !.behind = {}]

_runHousekeeping == /\ work_retry' = housekeepWork(work_retry)
                    /\ HousekeepPost(post_retry, post_retry')

-----------------------------------------------------------------------------
(* Variant: ack returns after the first message. *)
AckedFirst(b, list) == [m \in Message |-> IF b[m] = "unacked" /\ list # <<>> /\ Head(list) = <<m, TRUE>> THEN "acked" ELSE b[m]]

(* Message.ack: tells the broker of the messages that carry an ack_id. *)
Acked(b, list) == [m \in Message |-> IF b[m] = "unacked" /\ <<m, TRUE>> \in Range(list) THEN "acked" ELSE b[m]]

Init ==
    /\ o \in Options
    /\ broker = [m \in Message |-> "ready"]
    /\ incoming = <<>> /\ filtered = <<>> /\ rejected = <<>> /\ failed = <<>> /\ ok = <<>>
    /\ posting = <<>> /\ postFailed = <<>>
    /\ work_retry = EmptyQueue /\ post_retry = EmptyQueue
    /\ stop_requested = FALSE /\ stopping = FALSE /\ have_vip = TRUE
    /\ pc = "loop"
    /\ posted = [c \in Copy |-> 0] /\ refused = {} /\ lost = {}
    /\ kills = 0 /\ losses = 0 /\ restarts = 0

(* The last pass, without gather, is done. *)
lastPassDoneAndEmpty == stop_requested /\ stopping /\ work_retry.cur = {} /\ post_retry.cur = {}
lastPassDone == stop_requested /\ stopping

(* Top of the loop of run: the last pass, housekeeping when it is due, and the
   has_vip test that lets the pass do its work. *)
BeginPass ==
    /\ pc = "loop" /\ ~ lastPassDone
    /\ stopping' = stop_requested
    /\ have_vip' \in Vip
    /\ \/ _runHousekeeping
       \/ ~ stopping' /\ UNCHANGED queues
    /\ incoming' = <<>>
    /\ pc' = IF ~ have_vip' THEN "end" ELSE IF stopping' THEN "filter" ELSE "gather"
    /\ UNCHANGED <<broker, filtered, rejected, failed, ok, posting, postFailed, stop_requested, history, faults>>

(* close *)
Close ==
    /\ pc = "loop" /\ lastPassDone
    /\ pc' = "closed"
    /\ broker' = [m \in Message |-> IF broker[m] = "unacked" THEN "ready" ELSE broker[m]]
    /\ UNCHANGED <<worklists, queues, stop_requested, stopping, have_vip, history, faults>>

(* gather: what the broker delivers, within prefetch, and with retry_refilter
   the entries of the retry queue. *)
unackedCount == Cardinality({m \in Message : broker[m] = "unacked"})

Gather ==
    /\ pc = "gather"
    /\ \E S \in SUBSET {m \in Message : broker[m] = "ready"} :
          /\ Cardinality(S) <= batch /\ unackedCount + Cardinality(S) <= prefetch
          /\ broker' = [m \in Message |-> IF m \in S THEN "unacked" ELSE broker[m]]
          /\ \E R \in Got(work_retry, IF o.retry_refilter THEN batch - Cardinality(S) ELSE 0) :
                /\ incoming' = SetToSeq(S \X {TRUE}) \o SetToSeq(R \X {FALSE})
                /\ work_retry' = GetRetry(work_retry, R)
    /\ pc' = "filter"
    /\ UNCHANGED <<filtered, rejected, failed, ok, posting, postFailed, post_retry, stop_requested, stopping, have_vip, history, faults>>

(* One turn of the loop of filter.  A message the masks accept is kept, one
   they reject, or that is too old, is rejected, one that is too young fails;
   a rename away from an accepted name is marked renameUnlink, and left out
   of every list. *)
FilterOne ==
    /\ pc = "filter" /\ incoming # <<>>
    /\ incoming' = Tail(incoming)
    /\ LET e == Head(incoming) IN
       \/ /\ e[1] \notin RenameAway
          /\ filtered' = Append(filtered, e) /\ UNCHANGED <<rejected, failed>>
       \/ rejected' = Append(rejected, e) /\ UNCHANGED <<filtered, failed>>
       \/ failed' = Append(failed, e) /\ UNCHANGED <<filtered, rejected>>
       \/ e[1] \in RenameAway /\ UNCHANGED <<filtered, rejected, failed>>
    /\ UNCHANGED <<broker, ok, posting, postFailed, queues, control, history, faults>>

(* Retry.after_accept: half a batch, less what has been accepted; the half is
   not rounded down, so that a batch of one leaves room for one. *)
retryRoomRounded(n) == IF batch \div 2 > n THEN batch \div 2 - n ELSE 0
retryRoom(n) == IF (batch + 1) \div 2 > n THEN (batch + 1) \div 2 - n ELSE 0

(* The end of filter: after_accept adds entries of the retry queue, then the
   messages that go no further are acknowledged, and those that failed. *)
AfterAccept ==
    /\ pc = "filter" /\ incoming = <<>>
    /\ \E R \in Got(work_retry, IF o.retry_refilter THEN 0 ELSE retryRoom(Len(filtered))) :
          /\ incoming' = filtered \o SetToSeq(R \X {FALSE})
          /\ work_retry' = GetRetry(work_retry, R)
    /\ filtered' = <<>>
    /\ broker' = Acked(Acked(broker, rejected), failed)
    /\ refused' = refused \cup Msgs(rejected)
    /\ rejected' = <<>>
    /\ pc' = "work"
    /\ UNCHANGED <<failed, ok, posting, postFailed, post_retry, stop_requested, stopping, have_vip, posted, lost, faults>>

-----------------------------------------------------------------------------
(* One turn of the loop of do_download.  After a successful rename the message
   is in worklist.ok and the file is then compared, and downloaded, like any
   other. *)
DoOne ==
    /\ pc = "work" /\ incoming # <<>>
    /\ incoming' = Tail(incoming)
    /\ LET e == Head(incoming)
           done == IF o.download /\ e[1] \in RenameHere THEN {ok, Append(ok, e)} ELSE {ok}
       IN \E was \in done :
             \/ ok' = Append(was, e) /\ UNCHANGED <<rejected, failed>>
             \/ o.download /\ ok' = was /\ rejected' = Append(rejected, e) /\ UNCHANGED failed
             \/ o.download /\ ok' = was /\ failed' = Append(failed, e) /\ UNCHANGED rejected
    /\ UNCHANGED <<broker, filtered, posting, postFailed, queues, control, history, faults>>

(* The copies work makes of worklist.ok, one for each publisher. *)
copiesFromOne(list) == [i \in 1 .. Len(list) * NPub |-> <<list[(i - 1) \div NPub + 1][1], ((i - 1) % NPub) + 1>>]
copies(list) == [i \in 1 .. Len(list) * NPub |-> <<list[(i - 1) \div NPub + 1][1], (i - 1) % NPub>>]

(* work once the transfers are done: everything is acknowledged here "because
   posting will delete message-id". *)
WorkAck ==
    /\ pc = "work" /\ incoming = <<>>
    /\ broker' = Acked(Acked(Acked(broker, ok), rejected), failed)
    /\ refused' = refused \cup Msgs(rejected)
    /\ posting' = copies(ok)
    /\ ok' = <<>>
    /\ pc' = "after_work"
    /\ UNCHANGED <<incoming, filtered, rejected, failed, postFailed, queues, stop_requested, stopping, have_vip, posted, lost, faults>>

(* Retry.after_work: the failed messages go to the retry queue, and copies that
   could not be posted earlier join the ones to post. *)
postRoom(n) == IF batch > 2 THEN (IF batch \div 2 > n THEN batch \div 2 - n ELSE 0)
               ELSE IF batch > n THEN batch - n ELSE 0

putFailedForgotten(q) == q
putFailed(q) == PutRetry(q, Msgs(failed))

AfterWork ==
    /\ pc = "after_work"
    /\ work_retry' = putFailed(work_retry)
    /\ failed' = <<>>
    /\ \E R \in Got(post_retry, postRoom(Len(posting))) :
          /\ posting' = posting \o SetToSeq(R)
          /\ post_retry' = GetRetry(post_retry, R)
    /\ rejected' = <<>>
    /\ pc' = "post"
    /\ UNCHANGED <<broker, incoming, filtered, ok, postFailed, stop_requested, stopping, have_vip, history, faults>>

(* One turn of the loop of post.message: the copy goes to its own publisher. *)
PostOne ==
    /\ pc = "post" /\ posting # <<>>
    /\ posting' = Tail(posting)
    /\ \/ posted' = [posted EXCEPT ![Head(posting)] = IF @ < MaxPosted THEN @ + 1 ELSE @] /\ UNCHANGED postFailed
       \/ postFailed' = Append(postFailed, Head(posting)) /\ UNCHANGED posted
    /\ UNCHANGED <<broker, incoming, filtered, rejected, failed, ok, queues, control, refused, lost, faults>>

(* The end of post: the worklists are emptied. *)
keepWorklists == UNCHANGED postFailed
emptyWorklists == postFailed' = <<>>

(* Retry.after_post, and the end of post. *)
AfterPost ==
    /\ pc = "post" /\ posting = <<>>
    /\ post_retry' = PutRetry(post_retry, Range(postFailed))
    /\ emptyWorklists
    /\ pc' = "end"
    /\ UNCHANGED <<broker, incoming, filtered, rejected, failed, ok, posting, work_retry, stop_requested, stopping, have_vip, history, faults>>

(* The end of the loop of run: housekeeping when it is due. *)
EndPass ==
    /\ pc = "end"
    /\ \/ _runHousekeeping
       \/ ~ stopping /\ UNCHANGED queues
    /\ pc' = "loop"
    /\ UNCHANGED <<broker, worklists, stop_requested, stopping, have_vip, history, faults>>

-----------------------------------------------------------------------------
running == pc \notin {"closed", "down"}

(* stop_request, from the signal handler, messageCountMax, or a negative sleep. *)
StopRequest ==
    /\ running /\ ~ stop_requested
    /\ stop_requested' = TRUE
    /\ UNCHANGED <<broker, worklists, queues, stopping, have_vip, pc, history, faults>>

redelivered == [m \in Message |-> IF broker[m] = "unacked" THEN "ready" ELSE broker[m]]

(* The connection to the broker is lost and made again: what was not
   acknowledged will be delivered again. *)
Reconnect ==
    /\ running /\ losses < MaxLosses /\ losses' = losses + 1
    /\ broker' = redelivered
    /\ UNCHANGED <<worklists, queues, control, history, kills, restarts>>

(* Where a copy still to be posted is: in memory, or on disk. *)
InMemory(m, p) ==
    \/ m \in Msgs(incoming) \cup Msgs(filtered) \cup Msgs(rejected) \cup Msgs(failed) \cup Msgs(ok)
    \/ <<m, p>> \in Range(posting) \cup Range(postFailed)
Entries(q) == q.cur \cup q.behind \cup q.new
OnDisk(m, p) == m \in Entries(work_retry) \/ <<m, p>> \in Entries(post_retry)
Settled(m, p) == posted[<<m, p>>] > 0 \/ m \in refused

Kill ==
    /\ running /\ kills < MaxKills /\ kills' = kills + 1
    /\ incoming' = <<>> /\ filtered' = <<>> /\ rejected' = <<>> /\ failed' = <<>> /\ ok' = <<>>
    /\ posting' = <<>> /\ postFailed' = <<>>
    /\ broker' = redelivered
    /\ pc' = "down"
    /\ lost' = lost \cup {m \in Message : broker[m] = "acked"
                              /\ \E p \in Pub : ~ Settled(m, p) /\ ~ OnDisk(m, p)}
    /\ UNCHANGED <<queues, stop_requested, stopping, have_vip, posted, refused, losses, restarts>>

Restart ==
    /\ ~ running /\ restarts < MaxRestarts /\ restarts' = restarts + 1
    /\ pc' = "loop"
    /\ stop_requested' = FALSE /\ stopping' = FALSE
    /\ work_retry' = Reopen(work_retry) /\ post_retry' = Reopen(post_retry)
    /\ UNCHANGED <<broker, worklists, have_vip, history, kills, losses>>

Stage == BeginPass \/ Close \/ Gather \/ FilterOne \/ AfterAccept \/ DoOne \/ WorkAck
             \/ AfterWork \/ PostOne \/ AfterPost \/ EndPass

Next == UNCHANGED o /\ (Stage \/ StopRequest \/ Reconnect \/ Kill \/ Restart)

Spec == Init /\ [][Next]_vars

(* The instance keeps running its loop, and the housekeeping interval elapses
   again and again. *)
FairSpec == Spec /\ WF_vars(UNCHANGED o /\ Stage)
                 /\ SF_vars(UNCHANGED o /\ EndPass /\ _runHousekeeping)

-----------------------------------------------------------------------------
TypeOK ==
    /\ o \in Options
    /\ broker \in [Message -> {"ready", "unacked", "acked"}]
    /\ \A l \in {incoming, filtered, rejected, failed, ok} : l \in Seq(Message \X BOOLEAN)
    /\ posting \in Seq(Copy) /\ postFailed \in Seq(Copy)
    /\ \A S \in {work_retry.cur, work_retry.behind, work_retry.new} : S \subseteq Message
    /\ \A S \in {post_retry.cur, post_retry.behind, post_retry.new} : S \subseteq Copy
    /\ {stop_requested, stopping, have_vip} \subseteq BOOLEAN
    /\ pc \in {"loop", "gather", "filter", "work", "after_work", "post", "end", "closed", "down"}
    /\ posted \in [Copy -> 0 .. MaxPosted] /\ refused \subseteq Message /\ lost \subseteq Message

(* A message the broker has been told to forget is never dropped on the way: for
   every publisher it has been posted, or it is still in a worklist or in a
   retry queue, or it was rejected, or a kill has lost it.  The renames that
   filter leaves out of every list are what AckedByEndOfPass is about. *)
Accounted ==
    \A m \in Message \ RenameAway, p \in Pub :
        broker[m] = "acked" => Settled(m, p) \/ InMemory(m, p) \/ OnDisk(m, p) \/ m \in lost

(* By the end of a pass every message it gathered has been acknowledged: none
   stays in the unacknowledged window that prefetch bounds. *)
AckedByEndOfPass == pc = "end" => unackedCount = 0

(* Between passes, and so when the flow closes, nothing is left in a worklist
   that only memory holds. *)
NothingLeftInMemory ==
    pc \in {"loop", "gather", "end", "closed"} =>
        \A l \in {filtered, rejected, failed, ok, posting, postFailed} : l = <<>>

(* Whatever a pass took from the broker is settled with the broker, and put where it stays,
   when the pass is over. *)
PassEndsClean == AckedByEndOfPass /\ NothingLeftInMemory

(* Until something is delivered or read again (a lost connection, a restart),
   no publisher is given a message twice. *)
PostedOnce ==
    kills = 0 /\ losses = 0 /\ restarts = 0 => \A c \in Copy : posted[c] <= 1

(* A stop request ends the instance: one last pass, then close. *)
StopTerminates == stop_requested ~> ~ running

(* A message put aside is tried again, as long as the instance runs and new
   messages leave it room. *)
RetryOffered ==
    \A m \in Message : (m \in work_retry.cur \cup work_retry.new)
                          ~> (m \notin work_retry.cur \cup work_retry.new \/ ~ running)

(* What was put aside and what was asked of the instance are both attended to (run). *)
FlowServes == StopTerminates /\ RetryOffered
=============================================================================
