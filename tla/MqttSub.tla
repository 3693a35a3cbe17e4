------------------------------- MODULE MqttSub -------------------------------
(***************************************************************************)
(* The consuming side of the MQTT client (moth/mqtt.py) of one instance:   *)
(* newMessages, ack and getSetup in the main thread, the callbacks of the  *)
(* paho library in its network thread, and a broker that keeps the session *)
(* and sends again what was not acknowledged when the client comes back.   *)
(***************************************************************************)
EXTENDS Naturals, FiniteSets, Sequences, SequencesExt

CONSTANTS
    SubMessage,   \* what is published, in the order in which it is published
    decoding,     \* what _msgDecode makes of each: "good", "malformed", "invalid", "none"
    NBindings,    \* topics subscribed to
    NMid,         \* packet ids of the session (65535)
    receiveMaximum, \* deliveries the broker leaves unacknowledged
    mqttBatch,    \* messages per call of newMessages
    MaxSubFaults  \* bound: lost connections, failing connects, a stop, a kill

VARIABLES
    spc,          \* main: "off", "idle", "wait", "drain", "work", "ack", "down"
    count,        \* turns of the loop in progress
    sconnected,   \* self.connected
    sclient,      \* self.client has its network thread running
    sup,          \* its connection is up
    sconnecting,  \* connect_in_progress
    inProgress,   \* subscribe_in_progress
    cb,           \* network thread inside __sub_on_connect
    rx,           \* rx_msg_q: <<mid, message>>
    batch,        \* messages the flow works on: <<mid, message>>
    sTooSoon,     \* time.time() < next_connect_time
    sstop,        \* _stop_requested
    unanswered,   \* SUBACKs the broker still owes on this connection
    waiting,      \* session: messages not sent yet
    inflight,     \* session: sent and not acknowledged, <<mid, message>>
    resend,       \* session: mids to be sent again on this connection
    sdropped,     \* history: deliveries lost by a newMessages that raised, this connection
    prevMid,      \* session: the last packet id used
    subFaults,
    shandled, sdiscarded, sforgotten  \* histories, as in Amqp

msVars == <<spc, count, sconnected, sclient, sup, sconnecting, inProgress, cb, rx,
            batch, sTooSoon, sstop, unanswered, waiting, inflight, resend, sdropped,
            prevMid, subFaults, shandled, sdiscarded, sforgotten>>
session == <<waiting, inflight, prevMid, sforgotten>>
network == <<sclient, sup, sconnecting, inProgress, cb, unanswered, resend, sdropped>>

Msg == {SubMessage[i] : i \in DOMAIN SubMessage}
Delivery == (1 .. NMid) \X Msg

TypeOK ==
    /\ spc \in {"off", "idle", "wait", "drain", "work", "ack", "down"}
    /\ count \in Nat
    /\ {sconnected, sclient, sup, sconnecting, cb, sTooSoon, sstop} \subseteq BOOLEAN
    /\ inProgress \in 0 .. NBindings * (MaxSubFaults + 1)
    /\ unanswered \in 0 .. NBindings
    /\ {rx, batch} \subseteq Seq(Delivery)
    /\ waiting \in Seq(Msg)
    /\ inflight \subseteq Delivery
    /\ resend \subseteq 1 .. NMid
    /\ sdropped \subseteq Delivery
    /\ prevMid \in 0 .. NMid
    /\ subFaults \in 0 .. MaxSubFaults
    /\ {shandled, sdiscarded, sforgotten} \subseteq SUBSET Msg

SubFault == subFaults < MaxSubFaults /\ subFaults' = subFaults + 1

-----------------------------------------------------------------------------
(* Broker. *)

(* A puback frees the packet id, whatever message it stands for by then; on a
   connection that is down it is lost. *)
PubAck(mids) ==
    LET freed == {d \in inflight : sup /\ d[1] \in mids} IN
    /\ inflight' = inflight \ freed
    /\ resend' = IF sup THEN resend \ mids ELSE resend
    /\ sforgotten' = sforgotten \cup {d[2] : d \in freed}

(* A new message goes out under the next free packet id. *)
Deliver ==
    /\ sup /\ ~cb /\ spc # "off"
    /\ waiting # <<>>
    /\ Cardinality(inflight) < receiveMaximum
    /\ LET mid == (prevMid % NMid) + 1 IN
       /\ \A d \in inflight : d[1] # mid
       /\ prevMid' = mid
       /\ inflight' = inflight \cup {<<mid, Head(waiting)>>}
       /\ rx' = Append(rx, <<mid, Head(waiting)>>)
       /\ waiting' = Tail(waiting)
    /\ UNCHANGED <<spc, count, sconnected, network, batch, sTooSoon, sstop, subFaults,
                   shandled, sdiscarded, sforgotten>>

(* What was not acknowledged is sent again, under the same packet id; rx_msg_q
   may hold it already. *)
Resend(d) ==
    /\ sup /\ ~cb
    /\ d \in inflight
    /\ d[1] \in resend
    /\ resend' = resend \ {d[1]}
    /\ rx' = Append(rx, d)
    /\ UNCHANGED <<spc, count, sconnected, sclient, sup, sconnecting, inProgress, cb,
                   batch, sTooSoon, sstop, unanswered, session, sdropped, subFaults,
                   shandled, sdiscarded>>

-----------------------------------------------------------------------------
(* Network thread. *)

(* __sub_on_connect with reason code 0 clears connect_in_progress first ... *)
OnConnect ==
    /\ sclient /\ ~sup /\ ~cb
    /\ sconnecting' = FALSE
    /\ sup' = TRUE
    /\ cb' = TRUE
    /\ UNCHANGED <<spc, count, sconnected, sclient, inProgress, rx, batch, sTooSoon,
                   sstop, unanswered, session, resend, sdropped, subFaults, shandled,
                   sdiscarded>>

(* ... and then sends the subscriptions and counts them. *)
OnConnectSubscribe ==
    /\ cb
    /\ cb' = FALSE
    /\ sconnected' = TRUE
    /\ inProgress' = inProgress + NBindings
    /\ unanswered' = NBindings
    /\ resend' = {d[1] : d \in inflight}
    /\ sdropped' = {}
    /\ UNCHANGED <<spc, count, sclient, sup, sconnecting, rx, batch, sTooSoon, sstop,
                   session, subFaults, shandled, sdiscarded>>

(* The broker refuses the connection. *)
OnConnectRefused ==
    /\ sclient /\ ~sup /\ ~cb /\ sconnecting
    /\ SubFault
    /\ sconnecting' = FALSE
    /\ UNCHANGED <<spc, count, sconnected, sclient, sup, inProgress, cb, rx, batch,
                   sTooSoon, sstop, unanswered, session, resend, sdropped, shandled,
                   sdiscarded>>

(* __sub_on_subscribe, __sub_on_unsubscribe: one answer. *)
OnSubscribe ==
    /\ sup /\ ~cb
    /\ unanswered > 0
    /\ unanswered' = unanswered - 1
    /\ inProgress' = inProgress - 1
    /\ UNCHANGED <<spc, count, sconnected, sclient, sup, sconnecting, cb, rx, batch,
                   sTooSoon, sstop, session, resend, sdropped, subFaults, shandled,
                   sdiscarded>>

(* __sub_on_disconnect.  The answers still owed will never come; the library
   connects again by itself. *)
OnDisconnect ==
    /\ sup /\ ~cb
    /\ SubFault
    /\ sup' = FALSE
    /\ sconnected' = FALSE
    /\ unanswered' = 0
    /\ resend' = {}
    /\ sdropped' = {}
    /\ UNCHANGED <<spc, count, sclient, sconnecting, inProgress, cb, rx, batch,
                   sTooSoon, sstop, session, shandled, sdiscarded>>

-----------------------------------------------------------------------------
(* Main thread. *)

(* newMessages of a connected client, or of one for which getSetup returns at
   once: after a recent failure, or with a stop requested. *)
NewMessages ==
    /\ spc = "idle"
    /\ ~sstop
    /\ sconnected \/ sTooSoon
    /\ spc' = "drain"
    /\ count' = 0
    /\ UNCHANGED <<sconnected, network, rx, batch, sTooSoon, sstop, session, subFaults,
                   shandled, sdiscarded>>

(* getSetup: the old client is stopped, a new one connects and the thread is
   started; subscribe_in_progress keeps its value. *)
GetSetup ==
    /\ spc = "idle"
    /\ ~sstop /\ ~sconnected /\ ~sTooSoon
    /\ ~cb   \* loop_stop joins the network thread
    /\ sconnected' = FALSE
    /\ sclient' = TRUE /\ sup' = FALSE /\ sconnecting' = TRUE
    /\ unanswered' = 0 /\ resend' = {} /\ sdropped' = {}
    /\ spc' = "wait"
    /\ UNCHANGED <<count, inProgress, cb, rx, batch, sTooSoon, sstop, session, subFaults,
                   shandled, sdiscarded>>

(* client.connect raises: setEbo; newMessages goes on with what rx_msg_q has. *)
GetSetupFails ==
    /\ spc = "idle"
    /\ ~sstop /\ ~sconnected /\ ~sTooSoon /\ ~cb
    /\ SubFault
    /\ sconnected' = FALSE
    /\ sclient' = FALSE /\ sup' = FALSE /\ sconnecting' = TRUE
    /\ unanswered' = 0 /\ resend' = {} /\ sdropped' = {}
    /\ sTooSoon' = TRUE
    /\ spc' = "drain" /\ count' = 0
    /\ UNCHANGED <<inProgress, cb, rx, batch, sstop, session, shandled, sdiscarded>>

(* The wait for the connection and for every subscription ends. *)
GetSetupEnd ==
    /\ spc = "wait"
    /\ (~sconnecting /\ inProgress = 0) \/ sstop
    /\ spc' = "drain" /\ count' = 0
    /\ UNCHANGED <<sconnected, network, rx, batch, sTooSoon, sstop, session, subFaults,
                   shandled, sdiscarded>>

(* A turn of the loop of newMessages with _msgDecode.  A malformed message is
   acknowledged by newMessages; an invalid one by _msgDecode and again by
   newMessages. *)
Drain ==
    LET d == Head(rx) IN
    /\ spc = "drain"
    /\ count < mqttBatch
    /\ rx # <<>>
    /\ decoding[d[2]] # "none"
    /\ rx' = Tail(rx)
    /\ count' = count + 1
    /\ IF decoding[d[2]] = "good"
       THEN /\ batch' = Append(batch, d)
            /\ UNCHANGED <<inflight, resend, sforgotten, sdiscarded>>
       ELSE /\ PubAck({d[1]})
            /\ sdiscarded' = sdiscarded \cup {d[2]}
            /\ UNCHANGED batch
    /\ UNCHANGED <<spc, sconnected, sclient, sup, sconnecting, inProgress, cb, sTooSoon,
                   sstop, unanswered, sdropped, waiting, prevMid, subFaults, shandled>>

(* importAny returns None for a body it cannot take apart, and what _msgDecode
   does with that raises outside its try: neither this message nor the good ones
   of the call reach the flow, which logs and goes on with an empty batch. *)
DrainRaises ==
    /\ spc = "drain"
    /\ count < mqttBatch
    /\ rx # <<>>
    /\ decoding[Head(rx)[2]] = "none"
    /\ rx' = Tail(rx)
    /\ batch' = <<>>
    /\ sdropped' = sdropped \cup {Head(rx)} \cup Range(batch)
    /\ spc' = "work"
    /\ UNCHANGED <<count, sconnected, sclient, sup, sconnecting, inProgress, cb, sTooSoon,
                   sstop, unanswered, resend, session, subFaults, shandled, sdiscarded>>

DrainEnd ==
    /\ spc = "drain"
    /\ count = mqttBatch \/ rx = <<>>
    /\ spc' = "work"
    /\ UNCHANGED <<count, sconnected, network, rx, batch, sTooSoon, sstop, session,
                   subFaults, shandled, sdiscarded>>

Work ==
    /\ spc = "work"
    /\ shandled' = shandled \cup {batch[k][2] : k \in DOMAIN batch}
    /\ spc' = "ack"
    /\ UNCHANGED <<count, sconnected, network, rx, batch, sTooSoon, sstop, session,
                   subFaults, sdiscarded>>

(* ack: the ack_id holds the packet id and the broker, not the connection. *)
Ack ==
    /\ spc = "ack"
    /\ batch # <<>>
    /\ PubAck({Head(batch)[1]})
    /\ batch' = Tail(batch)
    /\ UNCHANGED <<spc, count, sconnected, sclient, sup, sconnecting, inProgress, cb, rx,
                   sTooSoon, sstop, unanswered, sdropped, waiting, prevMid, subFaults,
                   shandled, sdiscarded>>

AckEnd ==
    /\ spc = "ack"
    /\ batch = <<>>
    /\ spc' = "idle"
    /\ UNCHANGED <<count, sconnected, network, rx, batch, sTooSoon, sstop, session,
                   subFaults, shandled, sdiscarded>>

EboOver ==
    /\ sTooSoon
    /\ sTooSoon' = FALSE
    /\ UNCHANGED <<spc, count, sconnected, network, rx, batch, sstop, session, subFaults,
                   shandled, sdiscarded>>

PleaseStop ==
    /\ spc \notin {"off", "down"}
    /\ ~sstop
    /\ SubFault
    /\ sstop' = TRUE
    /\ UNCHANGED <<spc, count, sconnected, network, rx, batch, sTooSoon, session,
                   shandled, sdiscarded>>

(* The process ends, by on_stop and close or by a kill. *)
End ==
    /\ spc' = "down"
    /\ sclient' = FALSE /\ sup' = FALSE /\ cb' = FALSE /\ sconnected' = FALSE
    /\ sconnecting' = FALSE /\ inProgress' = 0 /\ unanswered' = 0 /\ resend' = {} /\ sdropped' = {}
    /\ rx' = <<>> /\ batch' = <<>>
    /\ UNCHANGED <<count, sTooSoon, sstop, session, shandled, sdiscarded>>

OnStop == spc = "idle" /\ sstop /\ ~cb /\ End /\ UNCHANGED subFaults

Kill == spc \notin {"off", "down"} /\ SubFault /\ End

Restart ==
    /\ spc = "down"
    /\ spc' = "idle"
    /\ sstop' = FALSE /\ sTooSoon' = FALSE
    /\ UNCHANGED <<count, sconnected, network, rx, batch, session, subFaults, shandled,
                   sdiscarded>>

-----------------------------------------------------------------------------
InitAs(pc) ==
    /\ spc = pc
    /\ count = 0
    /\ sconnected = FALSE /\ sclient = FALSE /\ sup = FALSE /\ sconnecting = FALSE
    /\ cb = FALSE /\ sTooSoon = FALSE /\ sstop = FALSE
    /\ inProgress = 0 /\ unanswered = 0
    /\ rx = <<>> /\ batch = <<>>
    /\ waiting = SubMessage
    /\ inflight = {} /\ resend = {} /\ sdropped = {} /\ prevMid = 0
    /\ subFaults = 0
    /\ shandled = {} /\ sdiscarded = {} /\ sforgotten = {}

Init == InitAs("idle")

Main == NewMessages \/ GetSetup \/ GetSetupFails \/ GetSetupEnd \/ Drain \/ DrainRaises
        \/ DrainEnd \/ Work \/ Ack \/ AckEnd \/ OnStop

Network == OnConnect \/ OnConnectSubscribe \/ OnSubscribe \/ Deliver
           \/ \E d \in inflight : Resend(d)

Next == Main \/ Network \/ OnConnectRefused \/ OnDisconnect \/ EboOver \/ PleaseStop
        \/ Kill \/ Restart

Spec == Init /\ [][Next]_msVars

(* Both threads go on, the broker answers, the back-off ends, and a stopped
   instance is started again. *)
Fairness == WF_msVars(Main) /\ WF_msVars(Network) /\ WF_msVars(EboOver)
            /\ WF_msVars(Restart)

FairSpec == Spec /\ Fairness

-----------------------------------------------------------------------------
(* The session forgets a message only after it was worked on or found
   unreadable, though rx_msg_q keeps messages of earlier connections and ack
   names no connection ("queued messages have not been ack'd to the sender"). *)
NothingForgotten == sforgotten \subseteq shandled \cup sdiscarded

(* On a live connection a delivery that was not acknowledged waits in rx_msg_q, is in the
   batch, or will be sent again: it keeps its place in the receive window for nothing only
   if newMessages raised (sdropped), until the next connection. *)
WindowAccounted ==
    sup /\ ~cb => \A d \in inflight :
        d \in Range(rx) \cup Range(batch) \cup sdropped \/ d[1] \in resend

(* A connection was lost while the broker owed answers to subscriptions:
   subscribe_in_progress never comes down to zero again. *)
LostSubAck == inProgress > unanswered

(* What newMessages dropped fills the receive window: the broker sends nothing more before
   the connection ends. *)
WindowFull == inflight \subseteq sdropped /\ Cardinality(inflight) = receiveMaximum

(* getSetup ends and every readable message is worked on, unless an answer was
   lost, the message was dropped with one that cannot be imported, or such
   messages fill the window. *)
Served ==
    \/ spc = "off" \/ LostSubAck
    \/ /\ spc # "wait"
       /\ \A m \in Msg : decoding[m] = "good" =>
            \/ m \in shandled
            \/ \E d \in inflight \cap sdropped : d[2] = m
            \/ WindowFull

Delivered == []<>Served
=============================================================================
