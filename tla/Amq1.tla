-------------------------------- MODULE Amq1 --------------------------------
(***************************************************************************)
(* The AMQP 1.0 client (moth/amq1.py), one class for both sides.            *)
(*                                                                         *)
(* A consumer: every call of connect makes a new receiver with its own      *)
(* thread, queues and count of tags; the main thread reads the message      *)
(* queue and puts tags to be acknowledged in the other.  A receiver whose   *)
(* transport is lost connects again by itself (proton), also after connect  *)
(* has replaced it.                                                        *)
(*                                                                         *)
(* A publisher: a blocking connection that is found broken only by a send   *)
(* that fails, for a caller that posts again what was refused.              *)
(***************************************************************************)
EXTENDS Naturals, FiniteSets, Sequences, SequencesExt

CONSTANTS
    Amq1Message,   \* what is published
    Unreadable,    \* those _msgRawToDict cannot convert
    amq1Batch,     \* batch
    amq1Prefetch,  \* link credit
    MaxReceiver,   \* bound: receivers made, more than there can be faults
    MaxAmq1Faults  \* bound: lost transports, failing connects, stops and kills

VARIABLES
    qpc,        \* "off", "idle", "get", "connect", "take", "work", "ack", "down"
    qhand,      \* the batch: [tag, msg, of], of is the receiver it came from
    made,       \* receivers made so far
    current,    \* self.client; 0 is None
    receiver,   \* the receivers
    qTooSoon,   \* time.time() < next_connect_time
    qstop,      \* _stop_requested
    ready,      \* broker: messages not delivered
    qfaults,
    qhandled, qdiscarded, settled,  \* histories
    misnamed    \* history: messages settled by a tag another receiver gave out

qVars == <<qpc, qhand, made, current, receiver, qTooSoon, qstop, ready, qfaults,
           qhandled, qdiscarded, settled, misnamed>>
histories == <<qhandled, qdiscarded, settled, misnamed>>

Receiver == 1 .. MaxReceiver

(* A delivery is live until its transport is lost; pending_deliveries keeps it. *)
Pending == [tag : Nat, msg : Amq1Message, live : BOOLEAN]
Handle == [tag : Nat, msg : Amq1Message, of : Receiver]

ConsumerTypeOK ==
    /\ qpc \in {"off", "idle", "get", "connect", "take", "work", "ack", "down"}
    /\ qhand \in Seq(Handle)
    /\ made \in 0 .. MaxReceiver
    /\ current \in 0 .. made
    /\ \A r \in Receiver :
         /\ receiver[r].state \in {"unopened", "up", "lost", "closed"}
         /\ receiver[r].credit \in 0 .. amq1Prefetch
         /\ receiver[r].counter \in Nat
         /\ receiver[r].pending \subseteq Pending
         /\ receiver[r].msgq \in Seq(Handle)
         /\ receiver[r].ackq \in Seq([tag : Nat, of : Receiver])
    /\ {qTooSoon, qstop} \subseteq BOOLEAN
    /\ {ready, qhandled, qdiscarded, settled, misnamed} \subseteq SUBSET Amq1Message
    /\ qfaults \in 0 .. MaxAmq1Faults

QFault == qfaults < MaxAmq1Faults /\ qfaults' = qfaults + 1

Live(r) == {p \in receiver[r].pending : p.live}

NewReceiver == [state |-> "unopened", credit |-> 0, counter |-> 0, pending |-> {},
                msgq |-> <<>>, ackq |-> <<>>]

-----------------------------------------------------------------------------
(* The threads of the receivers. *)

(* on_connection_opened, and on_link_opened, which grants the credit. *)
OnLinkOpened(r) ==
    /\ r <= made
    /\ receiver[r].state \in {"unopened", "lost"}
    /\ receiver' = [receiver EXCEPT ![r].state = "up", ![r].credit = amq1Prefetch]
    /\ UNCHANGED <<qpc, qhand, made, current, qTooSoon, qstop, ready, qfaults, histories>>

OnMessage(r, m) ==
    LET v == receiver[r] IN
    /\ v.state = "up"
    /\ v.credit > 0
    /\ m \in ready
    /\ ready' = ready \ {m}
    /\ receiver' = [receiver EXCEPT ![r] =
         [v EXCEPT !.credit = @ - 1,
                   !.counter = @ + 1,
                   !.pending = @ \cup {[tag |-> v.counter, msg |-> m, live |-> TRUE]},
                   !.msgq = Append(@, [tag |-> v.counter, msg |-> m, of |-> r])]]
    /\ UNCHANGED <<qpc, qhand, made, current, qTooSoon, qstop, qfaults, histories>>

CreditAlways(v) == v.credit + 1

CreditAfter(v) == IF v.credit < amq1Prefetch THEN v.credit + 1 ELSE v.credit

(* on_timer_task: the next tag of ack_q; one the receiver does not know is
   ignored, and a delivery of a lost transport means nothing to the broker. *)
OnTimerTask(r) ==
    LET v == receiver[r]
        a == Head(v.ackq)
        hit == {p \in v.pending : p.tag = a.tag}
        done == {p.msg : p \in {p \in hit : p.live}} IN
    /\ v.state \in {"up", "lost"}
    /\ v.ackq # <<>>
    /\ receiver' = [receiver EXCEPT ![r] =
         [v EXCEPT !.ackq = Tail(@),
                   !.pending = @ \ hit,
                   !.credit = IF hit # {} THEN CreditAfter(v) ELSE @]]
    /\ settled' = settled \cup done
    /\ misnamed' = IF a.of # r THEN misnamed \cup done ELSE misnamed
    /\ UNCHANGED <<qpc, qhand, made, current, qTooSoon, qstop, ready, qfaults,
                   qhandled, qdiscarded>>

(* The transport of r is lost: the broker takes back what is not settled. *)
Lost(r) == ready' = ready \cup {p.msg : p \in Live(r)}

OnDisconnected(r) ==
    /\ receiver[r].state = "up"
    /\ QFault
    /\ Lost(r)
    /\ receiver' = [receiver EXCEPT ![r].state = "lost", ![r].credit = 0,
                      ![r].pending = {[p EXCEPT !.live = FALSE] : p \in @}]
    /\ UNCHANGED <<qpc, qhand, made, current, qTooSoon, qstop, histories>>

-----------------------------------------------------------------------------
(* The main thread. *)

IsConnected == current # 0 /\ receiver[current].state = "up"

(* close of the current client: the reactor stops and its thread ends, with
   the tags that still wait in ack_q. *)
CloseCurrent ==
    /\ current' = 0
    /\ IF current = 0
       THEN UNCHANGED <<receiver, ready>>
       ELSE /\ Lost(current)
            /\ receiver' = [receiver EXCEPT ![current] = [NewReceiver EXCEPT !.state = "closed"]]

(* getNewMessage asks whether it is connected; if not getSetup makes a new
   receiver, without closing the one there was, unless it is too soon or a
   stop is requested. *)
GetNewMessage ==
    /\ qpc = "get"
    /\ \/ IsConnected /\ qpc' = "take" /\ UNCHANGED <<made, current, receiver>>
       \/ /\ ~IsConnected /\ (qTooSoon \/ qstop)
          /\ qpc' = "work"
          /\ UNCHANGED <<made, current, receiver>>
       \/ /\ ~IsConnected /\ ~qTooSoon /\ ~qstop /\ made < MaxReceiver
          /\ made' = made + 1
          /\ current' = made + 1
          /\ receiver' = [receiver EXCEPT ![made + 1] = NewReceiver]
          /\ qpc' = "connect"
    /\ UNCHANGED <<qhand, qTooSoon, qstop, ready, qfaults, histories>>

(* The end of connect, after half a second. *)
Connected ==
    /\ qpc = "connect"
    /\ IsConnected
    /\ qpc' = "take"
    /\ UNCHANGED <<qhand, made, current, receiver, qTooSoon, qstop, ready, qfaults,
                   histories>>

NotConnected ==
    /\ qpc = "connect"
    /\ ~IsConnected
    /\ QFault
    /\ CloseCurrent
    /\ qTooSoon' = TRUE
    /\ qpc' = "work"
    /\ UNCHANGED <<qhand, made, qstop, histories>>

(* _msgRawToDict: a message, or None. *)
MsgRawToDict(m) == IF m \in Unreadable THEN {} ELSE {m}

ForgetUnreadable(h) == <<>>

AckUnreadable(h) == <<[tag |-> h.tag, of |-> h.of]>>

(* get_nowait and what follows.  newMessages stops at the first None. *)
Take ==
    LET v == receiver[current]
        h == Head(v.msgq) IN
    /\ qpc = "take"
    /\ IF v.msgq = <<>>
       THEN qpc' = "work" /\ UNCHANGED <<qhand, receiver, qdiscarded>>
       ELSE IF MsgRawToDict(h.msg) = {}
       THEN /\ receiver' = [receiver EXCEPT ![current].msgq = Tail(@),
                              ![current].ackq = @ \o AckUnreadable(h)]
            /\ qdiscarded' = qdiscarded \cup {h.msg}
            /\ qpc' = "work"
            /\ UNCHANGED qhand
       ELSE /\ receiver' = [receiver EXCEPT ![current].msgq = Tail(@)]
            /\ qhand' = Append(qhand, h)
            /\ qpc' = IF Len(qhand) + 1 < amq1Batch THEN "get" ELSE "work"
            /\ UNCHANGED qdiscarded
    /\ UNCHANGED <<made, current, qTooSoon, qstop, ready, qfaults, qhandled, settled,
                   misnamed>>

Gather ==
    /\ qpc = "idle"
    /\ ~qstop
    /\ qpc' = "get"
    /\ UNCHANGED <<qhand, made, current, receiver, qTooSoon, qstop, ready, qfaults,
                   histories>>

Work ==
    /\ qpc = "work"
    /\ qhandled' = qhandled \cup {qhand[k].msg : k \in DOMAIN qhand}
    /\ qpc' = "ack"
    /\ UNCHANGED <<qhand, made, current, receiver, qTooSoon, qstop, ready, qfaults,
                   qdiscarded, settled, misnamed>>

(* ack puts the tags of the batch in the queue of the current receiver; without
   a reactor that fails. *)
Ack ==
    /\ qpc = "ack"
    /\ qpc' = "idle"
    /\ qhand' = <<>>
    /\ receiver' = IF current = 0 THEN receiver
                   ELSE [receiver EXCEPT ![current].ackq =
                           @ \o [k \in DOMAIN qhand |-> [tag |-> qhand[k].tag,
                                                          of |-> qhand[k].of]]]
    /\ UNCHANGED <<made, current, qTooSoon, qstop, ready, qfaults, histories>>

EboOver ==
    /\ qTooSoon
    /\ qTooSoon' = FALSE
    /\ UNCHANGED <<qpc, qhand, made, current, receiver, qstop, ready, qfaults, histories>>

PleaseStop ==
    /\ qpc \notin {"off", "down"}
    /\ ~qstop
    /\ QFault
    /\ qstop' = TRUE
    /\ UNCHANGED <<qpc, qhand, made, current, receiver, qTooSoon, ready, histories>>

(* on_stop closes the client. *)
OnStop ==
    /\ qpc = "idle"
    /\ qstop
    /\ CloseCurrent
    /\ qpc' = "down"
    /\ UNCHANGED <<qhand, made, qTooSoon, qstop, qfaults, histories>>

(* The end of the process ends every receiver; a new one starts over. *)
Restart ==
    /\ \/ qpc = "down" /\ UNCHANGED qfaults
       \/ qpc \notin {"off", "down"} /\ QFault
    /\ ready' = ready \cup {p.msg : p \in UNION {Live(r) : r \in Receiver}}
    /\ receiver' = [r \in Receiver |-> NewReceiver]
    /\ made' = 0 /\ current' = 0
    /\ qhand' = <<>>
    /\ qTooSoon' = FALSE /\ qstop' = FALSE
    /\ qpc' = "idle"
    /\ UNCHANGED histories

-----------------------------------------------------------------------------
InitAsConsumer(pc) ==
    /\ qpc = pc
    /\ qhand = <<>>
    /\ made = 0 /\ current = 0
    /\ receiver = [r \in Receiver |-> NewReceiver]
    /\ qTooSoon = FALSE /\ qstop = FALSE
    /\ ready = Amq1Message
    /\ qfaults = 0
    /\ qhandled = {} /\ qdiscarded = {} /\ settled = {} /\ misnamed = {}

Main == Gather \/ GetNewMessage \/ Connected \/ NotConnected \/ Take \/ Work \/ Ack
        \/ OnStop

Thread(r) == OnLinkOpened(r) \/ (\E m \in Amq1Message : OnMessage(r, m))
             \/ OnTimerTask(r)

Consumer == Main \/ EboOver \/ PleaseStop \/ Restart
            \/ \E r \in Receiver : Thread(r) \/ OnDisconnected(r)

(* The main thread and the threads of the receivers go on, the back-off ends,
   and a stopped instance is started again. *)
ConsumerFairness ==
    /\ WF_qVars(Main) /\ WF_qVars(EboOver) /\ WF_qVars(qpc = "down" /\ Restart)
    /\ \A r \in Receiver : WF_qVars(Thread(r))

-----------------------------------------------------------------------------
(* The publisher. *)

CONSTANTS
    SendMessage,   \* what is to be posted
    MaxSendFaults  \* bound: broken connections, failing connects, timed-out sends

VARIABLES
    vpc,        \* "off", "idle", "setup", "send"
    vcur,       \* the message of the call in progress
    vclient,    \* self.client: None, or with a connection that is open or broken
    vTooSoon,   \* time.time() < next_connect_time
    arrived,    \* broker: how often a message arrived, up to 2
    vfaults,
    vtodo,      \* the caller: messages not posted yet
    vtrue,      \* history: messages for which putNewMessage returned True
    vunsure     \* history: messages whose send failed

vVars == <<vpc, vcur, vclient, vTooSoon, arrived, vfaults, vtodo, vtrue, vunsure>>

PublisherTypeOK ==
    /\ vpc \in {"off", "idle", "setup", "send"}
    /\ vcur \in SendMessage
    /\ vclient \in {"none", "open", "broken"}
    /\ vTooSoon \in BOOLEAN
    /\ arrived \in [SendMessage -> 0 .. 2]
    /\ vfaults \in 0 .. MaxSendFaults
    /\ {vtodo, vtrue, vunsure} \subseteq SUBSET SendMessage

VFault == vfaults < MaxSendFaults /\ vfaults' = vfaults + 1

(* putNewMessage: is_connected only asks whether there is a connection object. *)
PutNewMessage(m) ==
    /\ vpc = "idle"
    /\ m \in vtodo
    /\ vcur' = m
    /\ vpc' = IF vclient # "none" THEN "send" ELSE "setup"
    /\ UNCHANGED <<vclient, vTooSoon, arrived, vfaults, vtodo, vtrue, vunsure>>

(* putSetup and connect: too soon, refused, or made. *)
PutSetup ==
    /\ vpc = "setup"
    /\ \/ vTooSoon /\ vpc' = "idle" /\ UNCHANGED <<vclient, vTooSoon, vfaults>>
       \/ ~vTooSoon /\ VFault /\ vTooSoon' = TRUE /\ vpc' = "idle" /\ UNCHANGED vclient
       \/ ~vTooSoon /\ vclient' = "open" /\ vpc' = "send" /\ UNCHANGED <<vTooSoon, vfaults>>
    /\ UNCHANGED <<vcur, arrived, vtodo, vtrue, vunsure>>

Arrive(m) == arrived' = [arrived EXCEPT ![m] = IF @ < 2 THEN @ + 1 ELSE 2]

(* publish: send returns when the broker has settled the delivery. *)
Publish ==
    /\ vpc = "send"
    /\ vclient = "open"
    /\ Arrive(vcur)
    /\ vpc' = "idle"
    /\ vtodo' = vtodo \ {vcur}
    /\ vtrue' = vtrue \cup {vcur}
    /\ UNCHANGED <<vcur, vclient, vTooSoon, vfaults, vunsure>>

KeepClient == UNCHANGED vclient

CloseClient == vclient' = "none"

(* publish fails or times out, with or without the broker having the message:
   putNewMessage closes the client and returns False. *)
PublishFails ==
    /\ vpc = "send"
    /\ \/ vclient = "broken" /\ UNCHANGED <<arrived, vfaults>>
       \/ vclient = "open" /\ VFault /\ (Arrive(vcur) \/ UNCHANGED arrived)
    /\ CloseClient
    /\ vpc' = "idle"
    /\ vunsure' = vunsure \cup {vcur}
    /\ UNCHANGED <<vcur, vTooSoon, vtodo, vtrue>>

SendBreak ==
    /\ vclient = "open"
    /\ VFault
    /\ vclient' = "broken"
    /\ UNCHANGED <<vpc, vcur, vTooSoon, arrived, vtodo, vtrue, vunsure>>

SendEboOver ==
    /\ vTooSoon
    /\ vTooSoon' = FALSE
    /\ UNCHANGED <<vpc, vcur, vclient, arrived, vfaults, vtodo, vtrue, vunsure>>

InitAsPublisher(pc) ==
    /\ vpc = pc
    /\ vcur = CHOOSE m \in SendMessage : TRUE
    /\ vclient = "none"
    /\ vTooSoon = FALSE
    /\ arrived = [m \in SendMessage |-> 0]
    /\ vfaults = 0
    /\ vtodo = SendMessage /\ vtrue = {} /\ vunsure = {}

Call == (\E m \in SendMessage : PutNewMessage(m)) \/ PutSetup \/ Publish \/ PublishFails

Publisher == Call \/ SendBreak \/ SendEboOver

(* A call goes on, the caller posts again what it was refused, the back-off ends. *)
PublisherFairness == WF_vVars(Call) /\ WF_vVars(SendEboOver)

-----------------------------------------------------------------------------
(* An instance is one of the two. *)
TypeOK == ConsumerTypeOK /\ PublisherTypeOK

InitAs(consumer, publisher) == InitAsConsumer(consumer) /\ InitAsPublisher(publisher)

Next == \/ Consumer /\ UNCHANGED vVars
        \/ Publisher /\ UNCHANGED qVars

Fairness == ConsumerFairness /\ PublisherFairness

Spec == InitAs("idle", "off") /\ [][Next]_<<qVars, vVars>> /\ Fairness

-----------------------------------------------------------------------------
(* The broker is told of a message only after it was worked on or found
   unreadable, but where ack sent the tag of a receiver that connect had
   replaced in the middle of a batch: it then names another message ("pass the
   ack_id to the AMQP thread and hope it works"). *)
NothingForgotten == settled \subseteq qhandled \cup qdiscarded \cup misnamed

(* While nothing is in hand, every delivery the current receiver holds has its
   tag in ack_q or its message in msg_q: no link credit leaks. *)
NoCreditLeak ==
    (qpc = "idle" /\ current # 0) =>
        LET v == receiver[current] IN
        \A p \in v.pending :
            \/ \E i \in DOMAIN v.ackq : v.ackq[i].tag = p.tag
            \/ \E i \in DOMAIN v.msgq : v.msgq[i].tag = p.tag

(* A receiver that connect replaced holds the message, in a queue that nobody
   reads. *)
Held(m) == \E r \in Receiver \ {current} : \E p \in Live(r) : p.msg = m

(* Every readable message is worked on in the end, unless a replaced receiver
   came back and holds it. *)
Served ==
    \/ qpc = "off"
    \/ \A m \in Amq1Message \ Unreadable : m \in qhandled \cup misnamed \/ Held(m)

Delivered == []<>Served

(* putNewMessage returns True only for a message the broker has, and the broker
   has one twice only where a send of it failed (publish: "Return True when
   successful, False when failed"). *)
TrueMeansArrived ==
    \A m \in SendMessage : /\ m \in vtrue => arrived[m] > 0
                           /\ arrived[m] > 1 => m \in vunsure

(* Every message is posted in the end. *)
Posted == vpc = "off" \/ vtrue = SendMessage

AllPosted == []<>Posted
=============================================================================
