-------------------------------- MODULE Moth --------------------------------
(***************************************************************************)
(* moth/__init__.py: subFactory and pubFactory choose the client for a     *)
(* broker by the scheme of its URL, and the instance then behaves as that  *)
(* client does.  The clients are the modules composed here; the ones       *)
(* that were not chosen are "off".                                         *)
(***************************************************************************)
EXTENDS Naturals, FiniteSets, Sequences, SequencesExt, TLC

CONSTANTS
    Scheme,     \* schemes of broker URLs: [base, suffix]
    Message, NSub, subOf, brokerOf, decode, AmqpOptions, amqpBatch, amqpPrefetch,
    MaxConn, MaxAmqpFaults,
    PubMessage, MaxPubFaults,
    PostMessage, Unexportable, MaxMqttFaults,
    SubMessage, decoding, NBindings, NMid, receiveMaximum, mqttBatch, MaxSubFaults,
    Amq1Message, Unreadable, amq1Batch, amq1Prefetch, MaxReceiver, MaxAmq1Faults,
    SendMessage, MaxSendFaults

(* A uuid4 is never in use: there are more ids than clients, and than connections a batch can
   come from. *)
ASSUME ClientsAssumption ==
    /\ NSub \in Nat \ {0} /\ MaxConn \in Nat /\ MaxConn >= 2 * NSub
    /\ decode \in [Message -> {"good", "discarded", "raises"}]
    /\ subOf \in [Message -> 1 .. NSub]
    /\ SubMessage \in Seq({SubMessage[i] : i \in DOMAIN SubMessage})
    /\ NMid \in Nat /\ MaxReceiver \in Nat /\ amq1Prefetch \in Nat

VARIABLES
    role,       \* [driver, sub]: the class that was chosen, and is_subscriber
    aopt, apc, at, link, connId, tooSoon, rawq, hand, stopping, bqueue, sent, out,
    declared, amqpFaults, handled, discarded, forgotten,
    ppc, cur, plink, chanOpen, pTooSoon, pStopping, exchange, tx, committed, pubFaults,
    todo, confirmed, failed,
    mpc, posting, lastMid, connected, client, up, connecting, mStop, pending, unexpected,
    npc, queued, acks, received, mqttFaults, mtodo, mconfirmed, abandoned,
    spc, count, sconnected, sclient, sup, sconnecting, inProgress, cb, rx, batch,
    sTooSoon, sstop, unanswered, waiting, inflight, resend, sdropped, prevMid, subFaults,
    shandled, sdiscarded, sforgotten,
    qpc, qhand, made, current, receiver, qTooSoon, qstop, ready, qfaults, qhandled,
    qdiscarded, settled, misnamed,
    vpc, vcur, vclient, vTooSoon, arrived, vfaults, vtodo, vtrue, vunsure

AmqpC == INSTANCE Amqp
MqttS == INSTANCE MqttSub
MqttP == INSTANCE MqttPub
Amq1C == INSTANCE Amq1

amqpSubVars == <<aopt, apc, at, link, connId, tooSoon, rawq, hand, stopping, bqueue, sent,
                 out, declared, amqpFaults, handled, discarded, forgotten>>
amqpPubVars == <<ppc, cur, plink, chanOpen, pTooSoon, pStopping, exchange, tx, committed,
                 pubFaults, todo, confirmed, failed>>
mqttSubVars == <<spc, count, sconnected, sclient, sup, sconnecting, inProgress, cb, rx,
                 batch, sTooSoon, sstop, unanswered, waiting, inflight, resend, sdropped,
                 prevMid, subFaults, shandled, sdiscarded, sforgotten>>
mqttPubVars == <<mpc, posting, lastMid, connected, client, up, connecting, mStop, pending,
                 unexpected, npc, queued, acks, received, mqttFaults, mtodo, mconfirmed,
                 abandoned>>
amq1SubVars == <<qpc, qhand, made, current, receiver, qTooSoon, qstop, ready, qfaults,
                 qhandled, qdiscarded, settled, misnamed>>
amq1PubVars == <<vpc, vcur, vclient, vTooSoon, arrived, vfaults, vtodo, vtrue, vunsure>>

clients == <<amqpSubVars, amqpPubVars, mqttSubVars, mqttPubVars, amq1SubVars, amq1PubVars>>

-----------------------------------------------------------------------------
(* The classes: Moth's direct subclasses, and AMQPConsumer below AMQP. *)
DirectSubclass == {"amqp", "mqtt", "amq1"}
AllSubclasses == DirectSubclass \cup {"amqpconsumer"}

(* A scheme names a class with at most one of the letters s and w behind it:
   the test for two, scheme[-2] == 'ws', compares one letter. *)
Names(scheme, driver) == scheme.base = driver /\ scheme.suffix \in {"", "s", "w"}

(* With the option amqp_consumer the class AMQP is passed over and
   AMQPConsumer answers to its name. *)
SubFactory(scheme, consumer) ==
    {sc \in AllSubclasses :
        /\ consumer => sc # "amqp"
        /\ Names(scheme, IF consumer /\ sc = "amqpconsumer" THEN "amqp" ELSE sc)}

PubFactory(scheme) == {sc \in DirectSubclass : Names(scheme, sc)}

(* The factories that find no class return None; there is then no client. *)
Init ==
    \E scheme \in Scheme, consumer, sub \in BOOLEAN :
        LET found == IF sub THEN SubFactory(scheme, consumer) ELSE PubFactory(scheme)
            As(D, s, pc) == IF sub = s /\ found \cap D # {} THEN pc ELSE "off" IN
        /\ role \in [driver : IF found = {} THEN {"none"} ELSE found, sub : {sub}]
        /\ AmqpC!InitAs(As({"amqp", "amqpconsumer"}, TRUE, "idle"), As({"amqp"}, FALSE, "idle"))
        /\ aopt.consumer = (role.driver = "amqpconsumer")
        /\ MqttS!InitAs(As({"mqtt"}, TRUE, "idle"))
        /\ MqttP!InitAs(As({"mqtt"}, FALSE, "idle"))
        /\ Amq1C!InitAs(As({"amq1"}, TRUE, "idle"), As({"amq1"}, FALSE, "idle"))

AmqpClient ==
    AmqpC!Next /\ UNCHANGED <<role, mqttSubVars, mqttPubVars, amq1SubVars, amq1PubVars>>
MqttSubscriber ==
    MqttS!Next /\ UNCHANGED <<role, amqpSubVars, amqpPubVars, mqttPubVars,
                              amq1SubVars, amq1PubVars>>
MqttPublisher ==
    MqttP!Next /\ UNCHANGED <<role, amqpSubVars, amqpPubVars, mqttSubVars,
                              amq1SubVars, amq1PubVars>>

Amq1Client ==
    Amq1C!Next /\ UNCHANGED <<role, amqpSubVars, amqpPubVars, mqttSubVars, mqttPubVars>>

Next == AmqpClient \/ MqttSubscriber \/ MqttPublisher \/ Amq1Client

Fairness == AmqpC!Fairness /\ MqttS!Fairness /\ MqttP!Fairness /\ Amq1C!Fairness

Spec == Init /\ [][Next]_<<role, clients>> /\ Fairness

-----------------------------------------------------------------------------
TypeOK ==
    /\ role \in [driver : AllSubclasses \cup {"none"}, sub : BOOLEAN]
    /\ AmqpC!TypeOK /\ MqttS!TypeOK /\ MqttP!TypeOK
    /\ Amq1C!TypeOK

(* Consumers.  The broker removes a message only after an instance has worked
   on it, or has found it unreadable. *)
NothingForgotten ==
    AmqpC!NothingForgotten /\ MqttS!NothingForgotten /\ Amq1C!NothingForgotten

(* See Amqp: what is delivered on a live connection is acknowledged by the
   end of the pass. *)
AckedUnlessShadowed == AmqpC!AckedUnlessShadowed

(* See Amq1: no link credit leaks. *)
NoCreditLeak == Amq1C!NoCreditLeak

(* See MqttSub: the receive window is used by what is on its way, or was dropped. *)
WindowAccounted == MqttS!WindowAccounted

(* A waiting message is worked on in the end, by each of the consumers; see Served of each
   for what is excepted: subscriptions never answered (H20), and what an MQTT message that
   cannot be imported takes with it. *)
Delivered == []<>(AmqpC!Served /\ MqttS!Served /\ Amq1C!Served)

(* Publishers.  True means that the broker has the message. *)
TrueMeansPosted == AmqpC!TrueMeansCommitted /\ Amq1C!TrueMeansArrived

(* A message is at the broker twice only where a call for it failed. *)
TwiceOnlyAfterFailure == AmqpC!TwiceOnlyAfterFailure

(* Every message is posted in the end, and a close of the MQTT client ends. *)
AllPosted == []<>(AmqpC!Posted /\ Amq1C!Posted /\ MqttP!CloseOver)

(* See MqttPub: what is reported as posted is not lost but with its client. *)
PostedOrAbandoned == MqttP!PostedOrAbandoned

(* See MqttPub: close leaves nothing unacknowledged. *)
CloseLosesNothing == MqttP!CloseLosesNothing

(* See MqttPub: pending_publishes holds what is unanswered, and no more. *)
PendingIsUnanswered == MqttP!PendingIsUnanswered

(* Whatever a consumer loses on the way (its connection, its process, a message it cannot
   read), the broker keeps a message until an instance has worked on it or has found it
   unreadable, and neither messages nor credit stay behind on a connection that lives (ack
   and getNewMessage of the three).  Excepted are the deliveries of an AMQP connection whose
   ack_id another client has deleted (Shadowed), and those of an MQTT connection that a
   newMessages which raised had taken from rx_msg_q (sdropped): they stay unacknowledged. *)
Consumed == NothingForgotten /\ AckedUnlessShadowed /\ NoCreditLeak /\ WindowAccounted

(* What putNewMessage returns can be relied upon, with transactions that are committed or
   not, and acknowledgements that come on another thread. *)
PostingKnown ==
    TrueMeansPosted /\ TwiceOnlyAfterFailure /\ PostedOrAbandoned /\ PendingIsUnanswered

(* A consumer gets what waits for it and a publisher gets rid of what it has, as long as
   the faults end and with the exceptions of Delivered. *)
ClientsServe == Delivered /\ AllPosted
=============================================================================
