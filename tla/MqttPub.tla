------------------------------- MODULE MqttPub -------------------------------
(***************************************************************************)
(* The publishing side of the MQTT client (moth/mqtt.py).  putNewMessage   *)
(* runs in the main thread, __pub_on_connect and __pub_on_publish in the   *)
(* network thread of the paho library; they share pending_publishes and    *)
(* unexpected_publishes without a lock.  A publish is reported as done as  *)
(* soon as the library has it; close waits for the acknowledgements.       *)
(***************************************************************************)
EXTENDS Naturals, FiniteSets

CONSTANTS
    PostMessage,   \* what is to be posted
    Unexportable,  \* those of them for which exportAny raises
    MaxMqttFaults  \* bound: disconnections, refusals, publishes while disconnected, stops

(* Message ids: one for each message and each publish that fails (65535 in
   the library, which starts again at 1). *)
MaxMid == Cardinality(PostMessage) + MaxMqttFaults
Mid == 1 .. MaxMid

VARIABLES
    mpc,         \* main thread: "off", "idle", "setup", "test", "append", "wait", "down"
    posting,     \* the message of the call in progress
    lastMid,     \* info.mid of the last publish
    connected,   \* self.connected
    client,      \* self.client exists and its network thread runs
    up,          \* client.is_connected()
    connecting,  \* connect_in_progress
    mStop,       \* _stop_requested
    pending,     \* pending_publishes
    unexpected,  \* unexpected_publishes
    npc,         \* network thread in on_publish: 0, or the mid, tested and found pending or not
    queued,      \* library: publishes without acknowledgement, [Mid -> message] as pairs
    acks,        \* acknowledgements the broker has sent on this connection
    received,    \* broker: messages it has
    mqttFaults,
    mtodo,       \* the caller: messages not posted yet
    mconfirmed,  \* history: messages for which putNewMessage returned True
    abandoned    \* history: messages in the library when its client was dropped

mpVars == <<mpc, posting, lastMid, connected, client, up, connecting, mStop,
            pending, unexpected, npc, queued, acks, received, mqttFaults, mtodo,
            mconfirmed, abandoned>>

TypeOK ==
    /\ mpc \in {"off", "idle", "setup", "test", "append", "wait", "down"}
    /\ posting \in PostMessage
    /\ lastMid \in 0 .. MaxMid
    /\ {connected, client, up, connecting, mStop} \subseteq BOOLEAN
    /\ {pending, unexpected, acks} \subseteq SUBSET Mid
    /\ npc \in [mid : 0 .. MaxMid, found : BOOLEAN]
    /\ queued \subseteq Mid \X PostMessage
    /\ {received, mtodo, mconfirmed, abandoned} \subseteq SUBSET PostMessage
    /\ mqttFaults \in 0 .. MaxMqttFaults

MqttFault == mqttFaults < MaxMqttFaults /\ mqttFaults' = mqttFaults + 1

InLibrary == {q[2] : q \in queued}
NoCallback == [mid |-> 0, found |-> FALSE]

(* The client is dropped with whatever it still holds. *)
DropClient ==
    /\ client' = FALSE /\ up' = FALSE
    /\ abandoned' = abandoned \cup (InLibrary \ received)
    /\ queued' = {} /\ acks' = {}
    /\ npc' = NoCallback

-----------------------------------------------------------------------------
(* Main thread. *)

OldLists == UNCHANGED <<pending, unexpected>>

NewLists == pending' = {} /\ unexpected' = {}

(* putNewMessage of a client that is not connected: putSetup replaces the
   library's client and both lists, and waits for the connection.  (After a
   stop request it returns at once, and the message stays with the caller.) *)
PutSetup ==
    /\ mpc = "idle"
    /\ mtodo # {} /\ ~connected /\ ~mStop
    /\ mpc' = "setup"
    /\ client' = TRUE /\ up' = FALSE /\ connecting' = TRUE
    /\ abandoned' = abandoned \cup (InLibrary \ received)
    /\ queued' = {} /\ acks' = {} /\ npc' = NoCallback
    /\ NewLists
    /\ UNCHANGED <<posting, lastMid, connected, mStop, received, mqttFaults, mtodo, mconfirmed>>

(* The wait in putSetup ends: answered by the broker, or a stop request.
   The caller then publishes, or keeps the message. *)
PutSetupEnd ==
    /\ mpc = "setup"
    /\ ~connecting \/ mStop
    /\ mpc' = "idle"
    /\ UNCHANGED <<posting, lastMid, connected, client, up, connecting, mStop, pending,
                   unexpected, npc, queued, acks, received, mqttFaults, mtodo,
                   mconfirmed, abandoned>>

(* client.publish: the library takes the message and gives it an id. *)
Publish(m) ==
    /\ mpc = "idle"
    /\ m \in mtodo \ Unexportable
    /\ connected /\ up
    /\ posting' = m
    /\ lastMid' = lastMid + 1
    /\ queued' = queued \cup {<<lastMid + 1, m>>}
    /\ mpc' = "test"
    /\ UNCHANGED <<connected, client, up, connecting, mStop, pending, unexpected, npc,
                   acks, received, mqttFaults, mtodo, mconfirmed, abandoned>>

(* While the link is down (connected is not reset by __pub_on_disconnect) the
   library keeps the message and answers MQTT_ERR_NO_CONN: False. *)
PublishNoConn(m) ==
    /\ mpc = "idle"
    /\ m \in mtodo \ Unexportable
    /\ connected /\ ~up
    /\ MqttFault
    /\ lastMid' = lastMid + 1
    /\ queued' = IF client THEN queued \cup {<<lastMid + 1, m>>} ELSE queued
    /\ UNCHANGED <<mpc, posting, connected, client, up, connecting, mStop, pending,
                   unexpected, npc, acks, received, mtodo, mconfirmed, abandoned>>

AfterClose == IF mStop THEN "down" ELSE "idle"

(* close: a connected client waits for what is pending; of one that is not
   connected only the flag changes, and the network thread goes on. *)
Close ==
    IF up THEN mpc' = "wait" /\ UNCHANGED connected
          ELSE mpc' = AfterClose /\ connected' = FALSE

Posted(m) == mtodo' = mtodo \ {m} /\ mconfirmed' = mconfirmed \cup {m}

NotPosted(m) == UNCHANGED <<mtodo, mconfirmed>>

(* exportAny raises: the handler closes the client. *)
PublishRaises(m) ==
    /\ mpc = "idle"
    /\ m \in mtodo \cap Unexportable
    /\ connected
    /\ MqttFault
    /\ Close
    /\ NotPosted(m)
    /\ UNCHANGED <<posting, lastMid, client, up, connecting, mStop, pending,
                   unexpected, npc, queued, acks, received, abandoned>>

(* if info.mid in self.unexpected_publishes ... *)
TestUnexpected ==
    /\ mpc = "test"
    /\ IF lastMid \in unexpected
       THEN /\ unexpected' = unexpected \ {lastMid}
            /\ mpc' = "idle"
            /\ Posted(posting)
       ELSE mpc' = "append" /\ UNCHANGED <<unexpected, mtodo, mconfirmed>>
    /\ UNCHANGED <<posting, lastMid, connected, client, up, connecting, mStop, pending,
                   npc, queued, acks, received, mqttFaults, abandoned>>

(* ... else self.pending_publishes.append(info.mid); return True *)
AppendPending ==
    /\ mpc = "append"
    /\ pending' = pending \cup {lastMid}
    /\ mpc' = "idle"
    /\ Posted(posting)
    /\ UNCHANGED <<posting, lastMid, connected, client, up, connecting, mStop,
                   unexpected, npc, queued, acks, received, mqttFaults, abandoned>>

(* on_stop calls close. *)
OnStop ==
    /\ mpc = "idle"
    /\ mStop
    /\ Close
    /\ UNCHANGED <<posting, lastMid, client, up, connecting, mStop, pending,
                   unexpected, npc, queued, acks, received, mqttFaults, mtodo,
                   mconfirmed, abandoned>>

NobodyAsked == TRUE

AllAnswered == pending = {}

(* The wait of close is over when nothing is pending, connected or not. *)
CloseDone ==
    /\ mpc = "wait"
    /\ AllAnswered
    /\ DropClient
    /\ connected' = FALSE
    /\ mpc' = AfterClose
    /\ UNCHANGED <<posting, lastMid, connecting, mStop, pending, unexpected, received,
                   mqttFaults, mtodo, mconfirmed>>

(* The process ends, and a new one begins with what the caller has kept. *)
Restart ==
    /\ mpc = "down"
    /\ DropClient
    /\ mpc' = "idle"
    /\ connected' = FALSE /\ connecting' = FALSE /\ mStop' = FALSE
    /\ pending' = {} /\ unexpected' = {}
    /\ UNCHANGED <<posting, lastMid, received, mqttFaults, mtodo, mconfirmed>>

-----------------------------------------------------------------------------
(* Network thread, and the broker. *)

(* __pub_on_connect with reason code 0; the library sends again what has not
   been acknowledged. *)
OnConnect ==
    /\ client /\ ~up /\ mpc # "off"
    /\ up' = TRUE /\ connected' = TRUE /\ connecting' = FALSE
    /\ UNCHANGED <<mpc, posting, lastMid, client, mStop, pending, unexpected, npc, queued,
                   acks, received, mqttFaults, mtodo, mconfirmed, abandoned>>

(* __pub_on_connect with another reason code. *)
OnConnectRefused ==
    /\ client /\ ~up /\ connecting
    /\ MqttFault
    /\ connecting' = FALSE
    /\ UNCHANGED <<mpc, posting, lastMid, connected, client, up, mStop, pending,
                   unexpected, npc, queued, acks, received, mtodo, mconfirmed, abandoned>>

OnDisconnect ==
    /\ up
    /\ npc.mid = 0
    /\ MqttFault
    /\ up' = FALSE
    /\ acks' = {}
    /\ UNCHANGED <<mpc, posting, lastMid, connected, client, connecting, mStop, pending,
                   unexpected, npc, queued, received, mtodo, mconfirmed, abandoned>>

(* The broker takes a message and acknowledges it. *)
BrokerTakes(q) ==
    /\ up
    /\ q \in queued
    /\ q[1] \notin acks
    /\ received' = received \cup {q[2]}
    /\ acks' = acks \cup {q[1]}
    /\ UNCHANGED <<mpc, posting, lastMid, connected, client, up, connecting, mStop,
                   pending, unexpected, npc, queued, mqttFaults, mtodo, mconfirmed,
                   abandoned>>

(* __pub_on_publish: if mid in userdata.pending_publishes ... *)
OnPublishTest(i) ==
    /\ up
    /\ npc.mid = 0
    /\ i \in acks
    /\ acks' = acks \ {i}
    /\ queued' = {q \in queued : q[1] # i}
    /\ npc' = [mid |-> i, found |-> i \in pending]
    /\ UNCHANGED <<mpc, posting, lastMid, connected, client, up, connecting, mStop,
                   pending, unexpected, received, mqttFaults, mtodo, mconfirmed, abandoned>>

(* ... remove it, else put it into unexpected_publishes. *)
OnPublishDo ==
    /\ npc.mid # 0
    /\ IF npc.found
       THEN pending' = pending \ {npc.mid} /\ UNCHANGED unexpected
       ELSE unexpected' = unexpected \cup {npc.mid} /\ UNCHANGED pending
    /\ npc' = NoCallback
    /\ UNCHANGED <<mpc, posting, lastMid, connected, client, up, connecting, mStop,
                   queued, acks, received, mqttFaults, mtodo, mconfirmed, abandoned>>

(* The client is told to stop.  Post never tells it: message.py:131 asks for an attribute
   "poster" that nothing sets.  So this is more than the program does, and the behaviours
   in which it never happens are the program's. *)
PleaseStop ==
    /\ mpc \notin {"off", "down"}
    /\ ~mStop
    /\ MqttFault
    /\ mStop' = TRUE
    /\ UNCHANGED <<mpc, posting, lastMid, connected, client, up, connecting, pending,
                   unexpected, npc, queued, acks, received, mtodo, mconfirmed, abandoned>>

-----------------------------------------------------------------------------
InitAs(pc) ==
    /\ mpc = pc
    /\ posting = CHOOSE m \in PostMessage : TRUE
    /\ lastMid = 0
    /\ connected = FALSE /\ client = FALSE /\ up = FALSE /\ connecting = FALSE
    /\ mStop = FALSE
    /\ pending = {} /\ unexpected = {} /\ npc = NoCallback
    /\ queued = {} /\ acks = {} /\ received = {}
    /\ mqttFaults = 0
    /\ mtodo = PostMessage
    /\ mconfirmed = {} /\ abandoned = {}

Init == InitAs("idle")

Main ==
    \/ PutSetup \/ PutSetupEnd \/ TestUnexpected \/ AppendPending
    \/ CloseDone
    \/ \E m \in PostMessage : Publish(m) \/ PublishNoConn(m) \/ PublishRaises(m)

Network ==
    \/ OnConnect \/ OnPublishDo
    \/ \E q \in queued : BrokerTakes(q)
    \/ \E i \in Mid : OnPublishTest(i)

Next == Main \/ OnStop \/ Restart \/ Network \/ OnConnectRefused \/ OnDisconnect
        \/ PleaseStop

Spec == Init /\ [][Next]_mpVars

(* Both threads go on; the instance stops between two posts once it has been
   asked to, and is started again; the broker answers. *)
Fairness == /\ WF_mpVars(Main) /\ SF_mpVars(OnStop) /\ WF_mpVars(Restart)
            /\ WF_mpVars(Network)

FairSpec == Spec /\ Fairness

-----------------------------------------------------------------------------
(* What putNewMessage has reported as posted is at the broker, still in the
   library, or was in a client that was dropped while disconnected.  A close
   that waits loses nothing: every message it leaves has been acknowledged. *)
PostedOrAbandoned == mconfirmed \subseteq received \cup InLibrary \cup abandoned

CloseLosesNothing ==
    [][CloseDone => mconfirmed \subseteq received \cup abandoned]_mpVars

(* An acknowledgement that was handled between the test of
   unexpected_publishes and the append leaves its mid in both lists. *)
Raced == pending \cap unexpected # {}

(* Every mid in pending_publishes, but for those, is still to be acknowledged. *)
PendingIsUnanswered ==
    \A i \in pending \ unexpected : i = npc.mid \/ \E q \in queued : q[1] = i

(* close ends, unless an acknowledgement was raced. *)
CloseOver == mpc # "wait" \/ Raced

CloseEnds == []<>CloseOver
=============================================================================
