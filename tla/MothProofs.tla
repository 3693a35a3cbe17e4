------------------------------ MODULE MothProofs ------------------------------
(***************************************************************************)
(* Proofs about the message clients, for every set of messages, any number  *)
(* of subscriptions and of receivers, every batch and prefetch, and any     *)
(* number of lost connections, failing set-ups, stops and kills.  What is    *)
(* said of the MQTT consumer is said for as long as the packet ids of its   *)
(* session do not start again (NoWrap).                                     *)
(***************************************************************************)
EXTENDS Moth, ListLemmas

-----------------------------------------------------------------------------
(* A step of the instance is one of the side of the client that was chosen. *)
LEMMA ClientSteps ==
    ASSUME [Next]_<<role, clients>>
    PROVE  /\ [AmqpC!Consumer]_amqpSubVars /\ [AmqpC!Publisher]_amqpPubVars
           /\ [MqttS!Next]_mqttSubVars /\ [MqttP!Next]_mqttPubVars
           /\ [Amq1C!Consumer]_amq1SubVars /\ [Amq1C!Publisher]_amq1PubVars
<1>1. CASE UNCHANGED <<role, clients>>
  BY <1>1 DEF clients
<1>2. CASE AmqpClient
  BY <1>2 DEF AmqpClient, AmqpC!Next, amqpSubVars, amqpPubVars, AmqpC!subVars, AmqpC!pubVars
<1>3. CASE MqttSubscriber
  BY <1>3 DEF MqttSubscriber
<1>4. CASE MqttPublisher
  BY <1>4 DEF MqttPublisher
<1>5. CASE Amq1Client
  BY <1>5 DEF Amq1Client, Amq1C!Next, amq1SubVars, amq1PubVars, Amq1C!qVars, Amq1C!vVars
<1> QED BY <1>1, <1>2, <1>3, <1>4, <1>5 DEF Next

-----------------------------------------------------------------------------
(* The publisher of the AMQP client.  What is in a transaction is the message of the call
   that is waiting for the commit; a message that was committed was reported, or its call
   failed, or is about to fail. *)
PubInv ==
    /\ committed \in [PubMessage -> 0 .. 2]
    /\ todo \subseteq PubMessage /\ confirmed \subseteq PubMessage /\ confirmed \cap todo = {}
    /\ plink \in {"none", "open", "broken"}
    /\ ppc \in {"put", "setup", "publish", "commit"} => cur \in todo
    /\ tx # {} => ppc = "commit" /\ plink = "open"
    /\ ppc = "commit" /\ plink = "open" => tx = {cur}
    /\ \A m \in confirmed : committed[m] > 0
    /\ \A m \in PubMessage : committed[m] > 0 =>
          m \in confirmed \cup failed \/ (ppc = "commit" /\ plink # "open" /\ m = cur)
    /\ \A m \in PubMessage : committed[m] > 1 => m \in failed

(* The calls of putNewMessage in transaction mode, and what happens to its connection. *)
LEMMA PubStep == ASSUME PubInv, [AmqpC!Publisher]_amqpPubVars PROVE PubInv'
<1> USE DEF PubInv
<1>1. CASE UNCHANGED amqpPubVars
  BY <1>1 DEF amqpPubVars
<1>2. ASSUME NEW m \in PubMessage, AmqpC!PutNewMessage(m) PROVE PubInv'
  BY <1>2 DEF AmqpC!PutNewMessage
<1>3. CASE AmqpC!PutClose
  BY <1>3 DEF AmqpC!PutClose, AmqpC!PubClose, AmqpC!ReturnFalse
<1>4. CASE AmqpC!PutSetupOK
  BY <1>4 DEF AmqpC!PutSetupOK
<1>5. CASE AmqpC!PutSetupFails
  BY <1>5 DEF AmqpC!PutSetupFails, AmqpC!PubClose, AmqpC!ReturnFalse
<1>6. CASE AmqpC!BasicPublish
  BY <1>6 DEF AmqpC!BasicPublish
<1>7. ASSUME ppc = "commit", plink = "open", committed' = AmqpC!CommitOf(tx)
      PROVE  /\ committed' \in [PubMessage -> 0 .. 2] /\ committed'[cur] > 0 /\ cur \in PubMessage
             /\ \A m \in PubMessage : m # cur => committed'[m] = committed[m]
             /\ committed'[cur] > 1 => cur \in failed
  <2>1. tx = {cur} /\ cur \in todo /\ cur \in PubMessage /\ cur \notin confirmed
    BY <1>7
  <2>2. \A m \in PubMessage : committed'[m] = IF m = cur /\ committed[m] < 2 THEN committed[m] + 1 ELSE committed[m]
    BY <1>7, <2>1 DEF AmqpC!CommitOf
  <2>3. committed[cur] \in 0 .. 2 /\ (committed[cur] > 0 => cur \in failed)
    BY <1>7, <2>1
  <2>4. committed' \in [PubMessage -> 0 .. 2]
    BY <1>7, <2>2 DEF AmqpC!CommitOf
  <2> QED BY <2>1, <2>2, <2>3, <2>4
<1>8. CASE AmqpC!TxCommit
  BY <1>7, <1>8 DEF AmqpC!TxCommit
<1>9. CASE AmqpC!TxCommitUnheard
  BY <1>7, <1>9 DEF AmqpC!TxCommitUnheard, AmqpC!Fault
<1>10. CASE AmqpC!PublishFails
  BY <1>10 DEF AmqpC!PublishFails, AmqpC!PubClose, AmqpC!ReturnFalse
<1>11. CASE AmqpC!PubBreak
  BY <1>11 DEF AmqpC!PubBreak, AmqpC!Fault
<1>12. CASE AmqpC!PubEboOver \/ AmqpC!PubPleaseStop
  BY <1>12 DEF AmqpC!PubEboOver, AmqpC!PubPleaseStop
<1>13. CASE AmqpC!PubRestart
  BY <1>13 DEF AmqpC!PubRestart, AmqpC!PubClose
<1> QED BY <1>1, <1>2, <1>3, <1>4, <1>5, <1>6, <1>8, <1>9, <1>10, <1>11, <1>12, <1>13
        DEF AmqpC!Publisher, AmqpC!PubStep

(* The publisher of the AMQP 1.0 client. *)
SendInv ==
    /\ arrived \in [SendMessage -> 0 .. 2]
    /\ vtodo \subseteq SendMessage /\ vtrue \subseteq SendMessage /\ vtrue \cap vtodo = {}
    /\ vpc \in {"setup", "send"} => vcur \in vtodo
    /\ \A m \in vtrue : arrived[m] > 0
    /\ \A m \in SendMessage : arrived[m] > 0 => m \in vtrue \cup vunsure
    /\ \A m \in SendMessage : arrived[m] > 1 => m \in vunsure

(* The calls of putNewMessage of moth/amq1.py, which send and wait for the outcome. *)
LEMMA SendStep == ASSUME SendInv, [Amq1C!Publisher]_amq1PubVars PROVE SendInv'
<1> USE DEF SendInv
<1>1. CASE UNCHANGED amq1PubVars
  BY <1>1 DEF amq1PubVars
<1>2. ASSUME NEW m \in SendMessage, Amq1C!PutNewMessage(m) PROVE SendInv'
  BY <1>2 DEF Amq1C!PutNewMessage
<1>3. CASE Amq1C!PutSetup
  BY <1>3 DEF Amq1C!PutSetup
<1>4. ASSUME vpc = "send", Amq1C!Arrive(vcur)
      PROVE  /\ arrived' \in [SendMessage -> 0 .. 2] /\ arrived'[vcur] > 0
             /\ \A m \in SendMessage : m # vcur => arrived'[m] = arrived[m]
             /\ arrived'[vcur] > 1 => vcur \in vunsure
  <2>1. vcur \in vtodo /\ vcur \in SendMessage /\ vcur \notin vtrue /\ arrived[vcur] \in 0 .. 2
    BY <1>4
  <2>2. arrived' \in [SendMessage -> 0 .. 2]
    BY <1>4, <2>1 DEF Amq1C!Arrive
  <2> QED BY <1>4, <2>1, <2>2 DEF Amq1C!Arrive
<1>5. CASE Amq1C!Publish
  BY <1>4, <1>5 DEF Amq1C!Publish
<1>6. CASE Amq1C!PublishFails
  <2>1. /\ vpc = "send" /\ vpc' = "idle" /\ UNCHANGED <<vcur, vtodo, vtrue>> /\ vunsure' = vunsure \cup {vcur}
        /\ Amq1C!Arrive(vcur) \/ UNCHANGED arrived
    BY <1>6 DEF Amq1C!PublishFails
  <2> QED BY <1>4, <2>1
<1>7. CASE Amq1C!SendBreak \/ Amq1C!SendEboOver
  BY <1>7 DEF Amq1C!SendBreak, Amq1C!SendEboOver
<1> QED BY <1>1, <1>2, <1>3, <1>5, <1>6, <1>7 DEF Amq1C!Publisher, Amq1C!Call

-----------------------------------------------------------------------------
(* The publisher of the MQTT client.  A message that was reported as posted has reached the
   broker or was abandoned with its client, or it is in the library under an id that
   pending_publishes has.  The library knows an id once, and not after its answer. *)
Kept(m) == m \in received \cup abandoned \/ \E q \in queued : q[2] = m /\ q[1] \in pending

IdsOnce ==
    /\ lastMid \in Nat
    /\ npc.mid \in 0 .. lastMid /\ npc.found \in BOOLEAN
    /\ pending \subseteq 1 .. lastMid /\ unexpected \subseteq 1 .. lastMid
    /\ queued \subseteq (1 .. lastMid) \X PostMessage
    /\ \A q, r \in queued : q[1] = r[1] => q = r
    /\ \A q \in queued : q[1] # npc.mid /\ q[1] \notin unexpected

Answered ==
    /\ acks \subseteq {q[1] : q \in queued}
    /\ \A q \in queued : q[1] \in acks => q[2] \in received

(* Between publish and append: the answer can come, and be handled, at any time. *)
InBetween ==
    mpc \in {"test", "append"} =>
        /\ lastMid > 0 /\ lastMid \notin pending /\ posting \in PostMessage
        /\ <<lastMid, posting>> \in queued \/ posting \in received
        /\ \/ <<lastMid, posting>> \in queued
           \/ lastMid = npc.mid /\ ~ npc.found
           \/ lastMid \in unexpected

PostInv ==
    /\ IdsOnce /\ Answered /\ InBetween
    /\ \A m \in mconfirmed : Kept(m)
    /\ MqttP!PendingIsUnanswered

(* The library's client is dropped, with both lists. *)
LEMMA PostDrop ==
    ASSUME PostInv, queued' = {}, acks' = {}, npc' = [mid |-> 0, found |-> FALSE], lastMid' = lastMid,
           abandoned' = abandoned \cup ({q[2] : q \in queued} \ received), received' = received,
           mconfirmed' = mconfirmed, pending' = {}, unexpected' = {} \/ unexpected' = unexpected,
           mpc' \notin {"test", "append"}
    PROVE  PostInv'
<1>1. \A m \in mconfirmed : m \in received' \cup abandoned'
  BY DEF PostInv, Kept
<1>2. \A m \in mconfirmed' : Kept(m)'
  BY <1>1 DEF Kept
<1>3. Answered' /\ InBetween'
  BY DEF Answered, InBetween
<1>4. IdsOnce'
  <2>1. npc'.mid = 0 /\ npc'.found = FALSE
    OBVIOUS
  <2>2. lastMid \in Nat /\ unexpected \subseteq 1 .. lastMid
    BY DEF PostInv, IdsOnce
  <2>3. unexpected' \subseteq 1 .. lastMid'
    BY <2>2
  <2>4. 0 \in 0 .. lastMid' /\ lastMid' \in Nat
    BY <2>2
  <2>5. queued' = {} /\ pending' = {}
    OBVIOUS
  <2> QED BY <2>1, <2>3, <2>4, <2>5 DEF IdsOnce
<1>5. MqttP!PendingIsUnanswered'
  BY DEF MqttP!PendingIsUnanswered
<1> QED BY <1>2, <1>3, <1>4, <1>5 DEF PostInv

(* putNewMessage on the one thread of the MQTT client, on_publish and the library on the other. *)
LEMMA PostStep == ASSUME PostInv, [MqttP!Next]_mqttPubVars PROVE PostInv'
<1> USE DEF PostInv, MqttP!PendingIsUnanswered
<1>1. CASE UNCHANGED mqttPubVars
  BY <1>1 DEF mqttPubVars, IdsOnce, Answered, InBetween, Kept
<1>2. CASE MqttP!PutSetup
  <2>1. PostInv /\ queued' = {} /\ acks' = {} /\ npc' = [mid |-> 0, found |-> FALSE] /\ lastMid' = lastMid
    BY <1>2 DEF MqttP!PutSetup, MqttP!NoCallback
  <2>2. abandoned' = abandoned \cup ({q[2] : q \in queued} \ received) /\ UNCHANGED <<received, mconfirmed>>
    BY <1>2 DEF MqttP!PutSetup, MqttP!InLibrary
  <2>3. pending' = {} /\ unexpected' = {} /\ mpc' = "setup"
    BY <1>2 DEF MqttP!PutSetup, MqttP!NewLists
  <2> QED BY <2>1, <2>2, <2>3, PostDrop
<1>3. CASE MqttP!Restart \/ MqttP!CloseDone
  <2>1. PostInv /\ queued' = {} /\ acks' = {} /\ npc' = [mid |-> 0, found |-> FALSE] /\ lastMid' = lastMid
    BY <1>3 DEF MqttP!Restart, MqttP!CloseDone, MqttP!DropClient, MqttP!NoCallback
  <2>2. abandoned' = abandoned \cup ({q[2] : q \in queued} \ received) /\ UNCHANGED <<received, mconfirmed>>
    BY <1>3 DEF MqttP!Restart, MqttP!CloseDone, MqttP!DropClient, MqttP!InLibrary
  <2>3. pending' = {} /\ (unexpected' = {} \/ unexpected' = unexpected) /\ mpc' \in {"idle", "down"}
    BY <1>3 DEF MqttP!Restart, MqttP!CloseDone, MqttP!AllAnswered, MqttP!AfterClose
  <2> QED BY <2>1, <2>2, <2>3, PostDrop
(* What touches neither the lists nor the library. *)
<1>4. CASE \/ MqttP!PutSetupEnd \/ MqttP!OnStop \/ MqttP!OnConnect \/ MqttP!OnConnectRefused
           \/ MqttP!PleaseStop \/ \E m \in PostMessage : MqttP!PublishRaises(m)
  <2>1. UNCHANGED <<lastMid, pending, unexpected, npc, queued, acks, received, mconfirmed, abandoned, posting>>
    BY <1>4 DEF MqttP!PutSetupEnd, MqttP!OnStop, MqttP!OnConnect, MqttP!OnConnectRefused, MqttP!PleaseStop,
                MqttP!PublishRaises, MqttP!NotPosted
  <2>2. mpc' \in {"test", "append"} => mpc' = mpc
    BY <1>4 DEF MqttP!PutSetupEnd, MqttP!OnStop, MqttP!OnConnect, MqttP!OnConnectRefused, MqttP!PleaseStop,
                MqttP!PublishRaises, MqttP!Close, MqttP!AfterClose
  <2> QED BY <2>1, <2>2 DEF IdsOnce, Answered, InBetween, Kept
<1>5. CASE MqttP!OnDisconnect
  BY <1>5 DEF MqttP!OnDisconnect, IdsOnce, Answered, InBetween, Kept
<1>6. ASSUME NEW m \in PostMessage, MqttP!Publish(m) \/ MqttP!PublishNoConn(m) PROVE PostInv'
  <2>1. /\ mpc = "idle" /\ lastMid' = lastMid + 1
        /\ queued' = queued \cup {<<lastMid + 1, m>>} \/ (queued' = queued /\ MqttP!PublishNoConn(m))
        /\ UNCHANGED <<pending, unexpected, npc, acks, received, mconfirmed, abandoned>>
    BY <1>6 DEF MqttP!Publish, MqttP!PublishNoConn
  <2>2. IdsOnce'
    BY <2>1 DEF IdsOnce
  <2>3. Answered'
    BY <2>1 DEF IdsOnce, Answered
  <2>4. InBetween'
    BY <1>6, <2>1 DEF MqttP!Publish, MqttP!PublishNoConn, InBetween, IdsOnce
  <2>5. \A x \in mconfirmed' : Kept(x)'
    BY <2>1 DEF Kept
  <2>6. MqttP!PendingIsUnanswered'
    BY <2>1
  <2> QED BY <2>2, <2>3, <2>4, <2>5, <2>6
<1>7. CASE MqttP!TestUnexpected
  <2>1. /\ mpc = "test" /\ UNCHANGED <<lastMid, pending, npc, queued, acks, received, abandoned, posting>>
        /\ \/ /\ lastMid \in unexpected /\ unexpected' = unexpected \ {lastMid} /\ mpc' = "idle"
              /\ mconfirmed' = mconfirmed \cup {posting}
           \/ /\ lastMid \notin unexpected /\ mpc' = "append" /\ UNCHANGED <<unexpected, mconfirmed>>
    BY <1>7 DEF MqttP!TestUnexpected, MqttP!Posted
  <2>2. IdsOnce' /\ Answered'
    BY <2>1 DEF IdsOnce, Answered
  <2>3. InBetween'
    BY <2>1 DEF InBetween
  <2>4. \A x \in mconfirmed' : Kept(x)'
    BY <2>1 DEF Kept, InBetween, IdsOnce
  <2>5. MqttP!PendingIsUnanswered'
    BY <2>1 DEF InBetween
  <2> QED BY <2>2, <2>3, <2>4, <2>5
<1>8. CASE MqttP!AppendPending
  <2>1. /\ mpc = "append" /\ mpc' = "idle" /\ pending' = pending \cup {lastMid}
        /\ mconfirmed' = mconfirmed \cup {posting}
        /\ UNCHANGED <<lastMid, unexpected, npc, queued, acks, received, abandoned>>
    BY <1>8 DEF MqttP!AppendPending, MqttP!Posted
  <2>2. IdsOnce' /\ Answered' /\ InBetween'
    BY <2>1 DEF IdsOnce, Answered, InBetween
  <2>3. \A x \in mconfirmed' : Kept(x)'
    BY <2>1 DEF Kept, InBetween
  <2>4. MqttP!PendingIsUnanswered'
    BY <2>1 DEF InBetween
  <2> QED BY <2>2, <2>3, <2>4
<1>9. ASSUME NEW q \in queued, MqttP!BrokerTakes(q) PROVE PostInv'
  <2>1. /\ received' = received \cup {q[2]} /\ acks' = acks \cup {q[1]}
        /\ UNCHANGED <<mpc, lastMid, pending, unexpected, npc, queued, mconfirmed, abandoned, posting>>
    BY <1>9 DEF MqttP!BrokerTakes
  <2>2. IdsOnce'
    BY <2>1 DEF IdsOnce
  <2>3. Answered'
    BY <2>1 DEF IdsOnce, Answered
  <2>4. InBetween' /\ MqttP!PendingIsUnanswered'
    BY <2>1 DEF InBetween
  <2>5. \A x \in mconfirmed' : Kept(x)'
    BY <2>1 DEF Kept
  <2> QED BY <2>2, <2>3, <2>4, <2>5
<1>10. ASSUME NEW i \in MqttP!Mid, MqttP!OnPublishTest(i) PROVE PostInv'
  <2>1. /\ npc.mid = 0 /\ i \in acks /\ acks' = acks \ {i} /\ queued' = {q \in queued : q[1] # i}
        /\ npc' = [mid |-> i, found |-> i \in pending]
        /\ UNCHANGED <<mpc, lastMid, pending, unexpected, received, mconfirmed, abandoned, posting>>
    BY <1>10 DEF MqttP!OnPublishTest
  <2>2. PICK q0 \in queued : q0[1] = i /\ q0[2] \in received
    BY <2>1 DEF Answered
  <2>3. i \in 1 .. lastMid /\ \A q \in queued : q[1] = i => q = q0
    BY <2>1, <2>2 DEF IdsOnce
  <2>4. IdsOnce'
    BY <2>1, <2>3 DEF IdsOnce
  <2>5. Answered'
    BY <2>1 DEF Answered
  <2>6. InBetween'
    <3>0. SUFFICES ASSUME mpc \in {"test", "append"} PROVE InBetween'
      BY <2>1 DEF InBetween
    <3>1. CASE i = lastMid
      <4>1. npc'.mid = lastMid /\ ~ npc'.found
        <5>1. lastMid \notin pending
          BY <3>0 DEF InBetween
        <5> QED BY <2>1, <3>1, <5>1
      <4>2. posting \in received
        BY <2>2, <2>3, <3>0, <3>1 DEF InBetween
      <4> QED BY <2>1, <3>0, <4>1, <4>2 DEF InBetween
    <3>2. CASE i # lastMid
      <4>1. <<lastMid, posting>> \in queued => <<lastMid, posting>> \in queued'
        BY <2>1, <3>2
      <4>2. npc.mid # lastMid
        BY <2>1, <3>0 DEF InBetween
      <4> QED BY <2>1, <3>0, <4>1, <4>2 DEF InBetween
    <3> QED BY <3>1, <3>2
  <2>7. \A x \in mconfirmed' : Kept(x)'
    <3> SUFFICES ASSUME NEW x \in mconfirmed PROVE Kept(x)'
      BY <2>1
    <3>1. CASE x \in received \cup abandoned
      BY <2>1, <3>1 DEF Kept
    <3>2. CASE x \notin received \cup abandoned
      <4>1. PICK q \in queued : q[2] = x /\ q[1] \in pending
        BY <3>2 DEF Kept
      <4>2. q \in queued'
        BY <2>1, <2>2, <2>3, <3>2, <4>1
      <4> QED BY <2>1, <4>1, <4>2 DEF Kept
    <3> QED BY <3>1, <3>2
  <2>8. MqttP!PendingIsUnanswered'
    BY <2>1 DEF IdsOnce
  <2> QED BY <2>4, <2>5, <2>6, <2>7, <2>8
<1>11. CASE MqttP!OnPublishDo
  <2>1. /\ npc.mid # 0 /\ npc' = [mid |-> 0, found |-> FALSE]
        /\ \/ npc.found /\ pending' = pending \ {npc.mid} /\ unexpected' = unexpected
           \/ ~ npc.found /\ unexpected' = unexpected \cup {npc.mid} /\ pending' = pending
        /\ UNCHANGED <<mpc, lastMid, queued, acks, received, mconfirmed, abandoned, posting>>
    BY <1>11 DEF MqttP!OnPublishDo, MqttP!NoCallback
  <2>2. IdsOnce'
    <3>1. npc.mid \in 1 .. lastMid /\ npc'.mid = 0 /\ npc'.found = FALSE
      BY <2>1 DEF IdsOnce
    <3>2. pending' \subseteq 1 .. lastMid /\ unexpected' \subseteq unexpected \cup {npc.mid}
      BY <2>1 DEF IdsOnce
    <3>3. lastMid' = lastMid /\ queued' = queued
      BY <2>1
    <3>4. unexpected' \subseteq 1 .. lastMid
      BY <3>1, <3>2 DEF IdsOnce
    <3>5. \A q \in queued' : q[1] # npc'.mid /\ q[1] \notin unexpected'
      BY <3>1, <3>2, <3>3 DEF IdsOnce
    <3>6. npc'.mid \in 0 .. lastMid /\ npc'.found \in BOOLEAN
      <4>1. lastMid \in Nat
        BY DEF IdsOnce
      <4>2. npc'.found \in BOOLEAN
        BY <3>1
      <4> QED BY <3>1, <4>1, <4>2
    <3>7. queued \subseteq (1 .. lastMid) \X PostMessage /\ lastMid \in Nat /\ pending' \subseteq 1 .. lastMid
      BY <3>2 DEF IdsOnce
    <3>8. \A q, r \in queued : q[1] = r[1] => q = r
      BY DEF IdsOnce
    <3> QED BY <3>3, <3>4, <3>5, <3>6, <3>7, <3>8 DEF IdsOnce
  <2>3. Answered'
    BY <2>1 DEF Answered
  <2>4. InBetween'
    BY <2>1 DEF InBetween
  <2>5. \A x \in mconfirmed' : Kept(x)'
    BY <2>1 DEF Kept, IdsOnce
  <2>6. MqttP!PendingIsUnanswered'
    BY <2>1
  <2> QED BY <2>2, <2>3, <2>4, <2>5, <2>6
<1> QED BY <1>1, <1>2, <1>3, <1>4, <1>5, <1>6, <1>7, <1>8, <1>9, <1>10, <1>11
        DEF MqttP!Next, MqttP!Main, MqttP!Network

(* What putNewMessage returns can be relied upon, for each of the clients. *)
LEMMA PublishersInvariant == Spec => [](PubInv /\ SendInv /\ PostInv)
<1>1. Init => PubInv /\ SendInv /\ PostInv
  <2>1. ASSUME NEW pc, AmqpC!InitAsPublisher(pc), pc \in {"off", "idle"} PROVE PubInv
    BY <2>1 DEF AmqpC!InitAsPublisher, PubInv
  <2>2. ASSUME NEW pc, Amq1C!InitAsPublisher(pc), pc \in {"off", "idle"} PROVE SendInv
    BY <2>2 DEF Amq1C!InitAsPublisher, SendInv
  <2>3. ASSUME NEW pc, MqttP!InitAs(pc), pc \in {"off", "idle"} PROVE PostInv
    BY <2>3 DEF MqttP!InitAs, MqttP!NoCallback, PostInv, IdsOnce, Answered, InBetween, MqttP!PendingIsUnanswered
  <2> QED BY <2>1, <2>2, <2>3 DEF Init, AmqpC!InitAs, Amq1C!InitAs
<1>2. (PubInv /\ SendInv /\ PostInv) /\ [Next]_<<role, clients>> => (PubInv /\ SendInv /\ PostInv)'
  BY ClientSteps, PubStep, SendStep, PostStep
<1> QED BY <1>1, <1>2, PTL DEF Spec

(* True from putNewMessage means that the broker has the message, or that the MQTT library will
   go on until it has; a message is there twice only where a call for it failed; and
   pending_publishes holds what is unanswered, whatever the order in which putNewMessage and
   on_publish of moth/mqtt.py come to it. *)
THEOREM PostingIsKnown == Spec => []PostingKnown
<1>1. PubInv /\ SendInv /\ PostInv => PostingKnown
  <2> SUFFICES ASSUME PubInv, SendInv, PostInv PROVE PostingKnown
    OBVIOUS
  <2>1. AmqpC!TrueMeansCommitted /\ AmqpC!TwiceOnlyAfterFailure
    BY DEF PubInv, AmqpC!TrueMeansCommitted, AmqpC!TwiceOnlyAfterFailure
  <2>2. Amq1C!TrueMeansArrived
    BY DEF SendInv, Amq1C!TrueMeansArrived
  <2>3. MqttP!PostedOrAbandoned
    BY DEF PostInv, Kept, MqttP!PostedOrAbandoned, MqttP!InLibrary
  <2>4. MqttP!PendingIsUnanswered
    BY DEF PostInv
  <2> QED BY <2>1, <2>2, <2>3, <2>4
          DEF PostingKnown, TrueMeansPosted, TwiceOnlyAfterFailure, PostedOrAbandoned, PendingIsUnanswered
<1> QED BY <1>1, PublishersInvariant, PTL

(* A close of the MQTT client that waits for what is pending leaves nothing behind that was
   reported as posted. *)
THEOREM NothingLostByClose == Spec => CloseLosesNothing
<1> DEFINE Good == MqttP!CloseDone => mconfirmed \subseteq received \cup abandoned
<1>1. PostInv /\ [Next]_<<role, clients>> => [Good]_(MqttP!mpVars)
  BY DEF PostInv, Kept, MqttP!CloseDone, MqttP!AllAnswered
<1> QED BY <1>1, PublishersInvariant, PTL DEF Spec, CloseLosesNothing, MqttP!CloseLosesNothing

-----------------------------------------------------------------------------
(* The consumer of the MQTT client, as long as the packet ids of its session do not start
   again.  An id then stands for one message, in the session, in rx_msg_q and in the batch. *)
NoWrap == Len(SubMessage) <= NMid

Sent == {<<i, SubMessage[i]>> : i \in 1 .. prevMid}

SessInv ==
    /\ prevMid \in Nat /\ prevMid + Len(waiting) = Len(SubMessage)
    /\ waiting \in Seq(MqttS!Msg)
    /\ \A i \in 1 .. Len(waiting) : waiting[i] = SubMessage[prevMid + i]
    /\ inflight \subseteq Sent /\ rx \in Seq(Sent) /\ batch \in Seq(Sent)
    /\ spc = "ack" => \A d \in Range(batch) : d[2] \in shandled
    /\ sforgotten \subseteq shandled \cup sdiscarded

(* What a puback frees is the message it was meant for. *)
LEMMA PubAckFacts ==
    ASSUME SessInv, NEW d \in Sent, MqttS!PubAck({d[1]})
    PROVE  inflight' \subseteq Sent /\ sforgotten' \subseteq sforgotten \cup {d[2]}
<1>1. \A e \in inflight : e[1] = d[1] => e[2] = d[2]
  BY DEF SessInv, Sent
<1> QED BY <1>1 DEF MqttS!PubAck, SessInv

(* The two threads of the MQTT consumer, its session at the broker, and its ends. *)
LEMMA SessStep == ASSUME NoWrap, SessInv, [MqttS!Next]_mqttSubVars PROVE SessInv'
<1>1. /\ Range(<<>>) = {}
      /\ \A s \in Seq(Sent) :
            /\ s # <<>> => Head(s) \in Sent /\ Tail(s) \in Seq(Sent) /\ Range(s) = {Head(s)} \cup Range(Tail(s))
            /\ \A d \in Sent : Append(s, d) \in Seq(Sent) /\ Range(Append(s, d)) = Range(s) \cup {d}
  <2>1. Range(<<>>) = {}
    BY DEF Range
  <2>2. ASSUME NEW s \in Seq(Sent)
        PROVE  /\ s # <<>> => Head(s) \in Sent /\ Tail(s) \in Seq(Sent) /\ Range(s) = {Head(s)} \cup Range(Tail(s))
               /\ \A d \in Sent : Append(s, d) \in Seq(Sent) /\ Range(Append(s, d)) = Range(s) \cup {d}
    BY RangeFacts
  <2> QED BY <2>1, <2>2
<1>2. CASE UNCHANGED mqttSubVars
  BY <1>2 DEF mqttSubVars, SessInv, Sent
(* What touches neither the session nor what was received. *)
<1>3. CASE \/ MqttS!NewMessages \/ MqttS!GetSetup \/ MqttS!GetSetupFails \/ MqttS!GetSetupEnd
           \/ MqttS!DrainEnd \/ MqttS!AckEnd \/ MqttS!OnConnect \/ MqttS!OnConnectSubscribe
           \/ MqttS!OnSubscribe \/ MqttS!OnConnectRefused \/ MqttS!OnDisconnect \/ MqttS!EboOver
           \/ MqttS!PleaseStop \/ MqttS!Restart
  <2>1. /\ UNCHANGED <<prevMid, waiting, inflight, rx, batch, shandled, sdiscarded, sforgotten>>
        /\ spc' = "ack" => spc = "ack"
    BY <1>3 DEF MqttS!NewMessages, MqttS!GetSetup, MqttS!GetSetupFails, MqttS!GetSetupEnd, MqttS!DrainEnd,
                MqttS!AckEnd, MqttS!OnConnect, MqttS!OnConnectSubscribe, MqttS!OnSubscribe,
                MqttS!OnConnectRefused, MqttS!OnDisconnect, MqttS!EboOver, MqttS!PleaseStop, MqttS!Restart,
                MqttS!session
  <2> QED BY <2>1 DEF SessInv, Sent
<1>4. CASE MqttS!OnStop \/ MqttS!Kill
  <2>1. /\ UNCHANGED <<prevMid, waiting, inflight, shandled, sdiscarded, sforgotten>>
        /\ rx' = <<>> /\ batch' = <<>> /\ spc' = "down"
    BY <1>4 DEF MqttS!OnStop, MqttS!Kill, MqttS!End, MqttS!session
  <2> QED BY <2>1 DEF SessInv, Sent
<1>5. CASE MqttS!Work
  <2>1. /\ UNCHANGED <<prevMid, waiting, inflight, rx, batch, sdiscarded, sforgotten>>
        /\ shandled' = shandled \cup {batch[k][2] : k \in DOMAIN batch}
    BY <1>5 DEF MqttS!Work, MqttS!session
  <2>2. \A d \in Range(batch) : d[2] \in shandled'
    BY <2>1 DEF Range
  <2> QED BY <2>1, <2>2 DEF SessInv, Sent
<1>6. CASE MqttS!Ack
  <2>1. /\ MqttS!PubAck({Head(batch)[1]}) /\ batch # <<>> /\ batch' = Tail(batch) /\ spc = "ack"
        /\ UNCHANGED <<prevMid, waiting, rx, shandled, sdiscarded, spc>>
    BY <1>6 DEF MqttS!Ack
  <2>2. Head(batch) \in Sent /\ Head(batch)[2] \in shandled /\ Tail(batch) \in Seq(Sent)
        /\ Range(Tail(batch)) \subseteq Range(batch)
    BY <1>1, <2>1 DEF SessInv
  <2>3. inflight' \subseteq Sent /\ sforgotten' \subseteq sforgotten \cup {Head(batch)[2]}
    BY <2>1, <2>2, PubAckFacts
  <2>4. Sent' = Sent
    BY <2>1 DEF Sent
  <2> QED BY <2>1, <2>2, <2>3, <2>4 DEF SessInv
<1>7. CASE MqttS!Drain
  <2>1. /\ rx # <<>> /\ rx' = Tail(rx) /\ spc = "drain"
        /\ UNCHANGED <<prevMid, waiting, shandled, spc>>
        /\ \/ batch' = Append(batch, Head(rx)) /\ UNCHANGED <<inflight, sforgotten, sdiscarded>>
           \/ MqttS!PubAck({Head(rx)[1]}) /\ sdiscarded' = sdiscarded \cup {Head(rx)[2]} /\ UNCHANGED batch
    BY <1>7 DEF MqttS!Drain
  <2>2. Head(rx) \in Sent /\ Tail(rx) \in Seq(Sent) /\ Append(batch, Head(rx)) \in Seq(Sent)
    BY <1>1, <2>1 DEF SessInv
  <2>3. Sent' = Sent
    BY <2>1 DEF Sent
  <2>4. CASE batch' = Append(batch, Head(rx)) /\ UNCHANGED <<inflight, sforgotten, sdiscarded>>
    BY <2>1, <2>2, <2>3, <2>4 DEF SessInv
  <2>5. CASE MqttS!PubAck({Head(rx)[1]}) /\ sdiscarded' = sdiscarded \cup {Head(rx)[2]} /\ UNCHANGED batch
    <3>1. inflight' \subseteq Sent /\ sforgotten' \subseteq sforgotten \cup {Head(rx)[2]}
      BY <2>2, <2>5, PubAckFacts
    <3> QED BY <2>1, <2>2, <2>3, <2>5, <3>1 DEF SessInv
  <2> QED BY <2>1, <2>4, <2>5
<1>8. ASSUME NEW d \in inflight, MqttS!Resend(d) PROVE SessInv'
  <2>1. /\ rx' = Append(rx, d)
        /\ UNCHANGED <<prevMid, waiting, inflight, batch, shandled, sdiscarded, sforgotten, spc>>
    BY <1>8 DEF MqttS!Resend, MqttS!session
  <2>2. Append(rx, d) \in Seq(Sent)
    BY <1>1 DEF SessInv
  <2> QED BY <2>1, <2>2 DEF SessInv, Sent
<1>9. CASE MqttS!Deliver
  <2> DEFINE mid == prevMid + 1
             d == <<mid, SubMessage[mid]>>
  <2>1. /\ waiting # <<>> /\ waiting' = Tail(waiting) /\ prevMid' = (prevMid % NMid) + 1
        /\ inflight' = inflight \cup {<<prevMid', Head(waiting)>>} /\ rx' = Append(rx, <<prevMid', Head(waiting)>>)
        /\ UNCHANGED <<batch, shandled, sdiscarded, sforgotten, spc>>
    BY <1>9 DEF MqttS!Deliver
  <2>2. /\ Len(waiting) \in Nat \ {0} /\ Len(Tail(waiting)) = Len(waiting) - 1 /\ Tail(waiting) \in Seq(MqttS!Msg)
        /\ Head(waiting) = waiting[1] /\ \A i \in 1 .. Len(waiting) - 1 : Tail(waiting)[i] = waiting[i + 1]
    BY <2>1 DEF SessInv
  <2>3. Len(SubMessage) \in Nat /\ prevMid \in Nat /\ prevMid + Len(waiting) = Len(SubMessage)
    BY ClientsAssumption DEF SessInv
  <2>4. prevMid < NMid /\ NMid \in Nat
    BY <2>2, <2>3, ClientsAssumption DEF NoWrap
  <2>5. prevMid % NMid = prevMid
    BY <2>3, <2>4
  <2>6. prevMid' = mid /\ Head(waiting) = SubMessage[mid]
    BY <2>1, <2>2, <2>5 DEF SessInv
  <2>7. d \in Sent' /\ Sent \subseteq Sent'
    BY <2>3, <2>6 DEF Sent
  <2>8. rx \in Seq(Sent') /\ batch \in Seq(Sent')
    BY <2>7 DEF SessInv
  <2>9. Append(rx, d) \in Seq(Sent')
    BY <2>7, <2>8
  <2>10. \A i \in 1 .. Len(waiting') : waiting'[i] = SubMessage[prevMid' + i]
    <3> SUFFICES ASSUME NEW i \in 1 .. Len(Tail(waiting)) PROVE Tail(waiting)[i] = SubMessage[mid + i]
      BY <2>1, <2>6
    <3>1. i + 1 \in 1 .. Len(waiting) /\ prevMid + (i + 1) = mid + i /\ i \in 1 .. Len(waiting) - 1
      BY <2>2, <2>3
    <3> QED BY <2>2, <3>1 DEF SessInv
  <2>11. prevMid' \in Nat /\ prevMid' + Len(waiting') = Len(SubMessage)
    BY <2>1, <2>2, <2>3, <2>6
  <2>12. inflight' \subseteq Sent'
    BY <2>1, <2>6, <2>7 DEF SessInv
  <2>13. rx' \in Seq(Sent') /\ batch' \in Seq(Sent') /\ waiting' \in Seq(MqttS!Msg)
    BY <2>1, <2>2, <2>6, <2>8, <2>9
  <2> QED BY <2>1, <2>10, <2>11, <2>12, <2>13 DEF SessInv
<1>10. CASE MqttS!DrainRaises
  <2>1. /\ UNCHANGED <<prevMid, waiting, inflight, shandled, sdiscarded, sforgotten>>
        /\ rx # <<>> /\ rx' = Tail(rx) /\ batch' = <<>> /\ spc' = "work"
    BY <1>10 DEF MqttS!DrainRaises, MqttS!session
  <2>2. Tail(rx) \in Seq(Sent)
    BY <1>1, <2>1 DEF SessInv
  <2> QED BY <2>1, <2>2 DEF SessInv, Sent
<1> QED BY <1>2, <1>3, <1>4, <1>5, <1>6, <1>7, <1>8, <1>9, <1>10
        DEF MqttS!Next, MqttS!Main, MqttS!Network

(* Where the deliveries of a live connection are that were not acknowledged. *)
OnItsWay(d) == d \in Range(rx) \cup Range(batch) \cup sdropped \/ d[1] \in resend

WindowInv == sup /\ ~cb => \A d \in inflight : OnItsWay(d)

LEMMA WindowInvIs == WindowInv <=> WindowAccounted
BY DEF WindowInv, WindowAccounted, MqttS!WindowAccounted, MqttS!Range, Range, OnItsWay

(* A puback takes from the session what leaves the client, and from what is to be sent again
   no more than that. *)
LEMMA WindowPubAck ==
    ASSUME NEW d, MqttS!PubAck({d[1]}), sup
    PROVE  /\ d \notin inflight' /\ inflight' \subseteq inflight
           /\ \A e \in inflight' : e[1] \in resend => e[1] \in resend'
BY DEF MqttS!PubAck

(* The receive window of the MQTT consumer: a delivery moves from the broker to rx_msg_q, to the
   batch and back to the broker, and newMessages that raises is the only thing that loses one. *)
LEMMA WindowStep == ASSUME SessInv, WindowInv, [MqttS!Next]_mqttSubVars PROVE WindowInv'
<1>1. /\ Range(<<>>) = {}
      /\ \A s \in Seq(Sent) :
            /\ s # <<>> => Range(s) = {Head(s)} \cup Range(Tail(s))
            /\ \A d \in Sent : Range(Append(s, d)) = Range(s) \cup {d}
  <2>1. Range(<<>>) = {}
    BY DEF Range
  <2>2. ASSUME NEW s \in Seq(Sent)
        PROVE  /\ s # <<>> => Range(s) = {Head(s)} \cup Range(Tail(s))
               /\ \A d \in Sent : Range(Append(s, d)) = Range(s) \cup {d}
    BY RangeFacts
  <2> QED BY <2>1, <2>2
<1>2. rx \in Seq(Sent) /\ batch \in Seq(Sent) /\ inflight \subseteq Sent
  BY DEF SessInv
<1>3. CASE UNCHANGED mqttSubVars
  BY <1>3 DEF mqttSubVars, WindowInv, OnItsWay
(* What moves no delivery. *)
<1>4. CASE \/ MqttS!NewMessages \/ MqttS!GetSetupEnd \/ MqttS!DrainEnd \/ MqttS!AckEnd
           \/ MqttS!EboOver \/ MqttS!PleaseStop \/ MqttS!Restart \/ MqttS!OnSubscribe
           \/ MqttS!OnConnectRefused \/ MqttS!Work
  <2>1. UNCHANGED <<sup, cb, rx, batch, inflight, resend, sdropped>>
    BY <1>4 DEF MqttS!NewMessages, MqttS!GetSetupEnd, MqttS!DrainEnd, MqttS!AckEnd, MqttS!EboOver,
                MqttS!PleaseStop, MqttS!Restart, MqttS!OnSubscribe, MqttS!OnConnectRefused, MqttS!Work,
                MqttS!session, MqttS!network
  <2> QED BY <2>1 DEF WindowInv, OnItsWay
(* What ends a connection, or is about to set one up. *)
<1>5. CASE \/ MqttS!GetSetup \/ MqttS!GetSetupFails \/ MqttS!OnDisconnect \/ MqttS!OnStop
           \/ MqttS!Kill \/ MqttS!OnConnect
  <2>1. ~sup' \/ cb'
    BY <1>5 DEF MqttS!GetSetup, MqttS!GetSetupFails, MqttS!OnDisconnect, MqttS!OnStop, MqttS!Kill,
                MqttS!End, MqttS!OnConnect
  <2> QED BY <2>1 DEF WindowInv
<1>6. CASE MqttS!OnConnectSubscribe
  <2>1. inflight' = inflight /\ resend' = {d[1] : d \in inflight}
    BY <1>6 DEF MqttS!OnConnectSubscribe, MqttS!session
  <2> QED BY <2>1 DEF WindowInv, OnItsWay
<1>7. CASE MqttS!Ack
  <2>1. /\ MqttS!PubAck({Head(batch)[1]}) /\ batch # <<>> /\ batch' = Tail(batch)
        /\ UNCHANGED <<sup, cb, rx, sdropped>>
    BY <1>7 DEF MqttS!Ack
  <2>2. Range(batch) = {Head(batch)} \cup Range(batch')
    BY <1>1, <1>2, <2>1
  <2>3. ASSUME sup, ~cb, NEW e \in inflight' PROVE OnItsWay(e)'
    <3>1. e # Head(batch) /\ e \in inflight /\ (e[1] \in resend => e[1] \in resend')
      BY <2>1, <2>3, WindowPubAck
    <3> QED BY <2>1, <2>2, <2>3, <3>1 DEF WindowInv, OnItsWay
  <2> QED BY <2>1, <2>3 DEF WindowInv
<1>8. CASE MqttS!Drain
  <2>1. /\ rx # <<>> /\ rx' = Tail(rx) /\ UNCHANGED <<sup, cb, sdropped>>
        /\ \/ batch' = Append(batch, Head(rx)) /\ UNCHANGED <<inflight, resend>>
           \/ MqttS!PubAck({Head(rx)[1]}) /\ UNCHANGED batch
    BY <1>8 DEF MqttS!Drain
  <2>2. Range(rx) = {Head(rx)} \cup Range(rx') /\ Head(rx) \in Sent
    BY <1>1, <1>2, <2>1
  <2>3. CASE batch' = Append(batch, Head(rx)) /\ UNCHANGED <<inflight, resend>>
    <3>1. Range(batch') = Range(batch) \cup {Head(rx)}
      BY <1>1, <1>2, <2>2, <2>3
    <3> QED BY <2>1, <2>2, <2>3, <3>1 DEF WindowInv, OnItsWay
  <2>4. ASSUME MqttS!PubAck({Head(rx)[1]}), UNCHANGED batch, sup, ~cb, NEW e \in inflight' PROVE OnItsWay(e)'
    <3>1. e # Head(rx) /\ e \in inflight /\ (e[1] \in resend => e[1] \in resend')
      BY <2>4, WindowPubAck
    <3> QED BY <2>1, <2>2, <2>4, <3>1 DEF WindowInv, OnItsWay
  <2> QED BY <2>1, <2>3, <2>4 DEF WindowInv
<1>9. CASE MqttS!DrainRaises
  <2>1. /\ rx # <<>> /\ rx' = Tail(rx) /\ batch' = <<>> /\ UNCHANGED <<sup, cb, inflight, resend>>
        /\ sdropped' = sdropped \cup {Head(rx)} \cup MqttS!Range(batch)
    BY <1>9 DEF MqttS!DrainRaises, MqttS!session
  <2>2. Range(rx) = {Head(rx)} \cup Range(rx') /\ MqttS!Range(batch) = Range(batch)
    BY <1>1, <1>2, <2>1 DEF MqttS!Range, Range
  <2> QED BY <2>1, <2>2 DEF WindowInv, OnItsWay
<1>10. ASSUME NEW d \in inflight, MqttS!Resend(d) PROVE WindowInv'
  <2>1. /\ rx' = Append(rx, d) /\ resend' = resend \ {d[1]}
        /\ UNCHANGED <<sup, cb, batch, inflight, sdropped>>
    BY <1>10 DEF MqttS!Resend, MqttS!session
  <2>2. Range(rx') = Range(rx) \cup {d}
    BY <1>1, <1>2, <2>1
  <2>3. ASSUME NEW e \in inflight, e[1] = d[1] PROVE e = d
    <3>1. PICK i \in 1 .. prevMid : e = <<i, SubMessage[i]>>
      BY <1>2 DEF Sent
    <3>2. PICK k \in 1 .. prevMid : d = <<k, SubMessage[k]>>
      BY <1>2, <1>10 DEF Sent
    <3> QED BY <2>3, <3>1, <3>2
  <2> QED BY <2>1, <2>2, <2>3 DEF WindowInv, OnItsWay
<1>11. CASE MqttS!Deliver
  <2>1. PICK d : /\ rx' = Append(rx, d) /\ inflight' = inflight \cup {d}
                 /\ UNCHANGED <<sup, cb, batch, resend, sdropped>>
    BY <1>11 DEF MqttS!Deliver, MqttS!network
  <2>2. rx \in Seq(Sent \cup {d}) /\ d \in Sent \cup {d}
    BY <1>2
  <2>3. Range(rx') = Range(rx) \cup {d}
    BY <2>1, <2>2, RangeFacts
  <2> QED BY <2>1, <2>3 DEF WindowInv, OnItsWay
<1> QED BY <1>3, <1>4, <1>5, <1>6, <1>7, <1>8, <1>9, <1>10, <1>11
        DEF MqttS!Next, MqttS!Main, MqttS!Network

-----------------------------------------------------------------------------
(* The consumer of the AMQP 1.0 client.  A tag names a delivery of the receiver that gave it
   out.  What waits in ack_q of that receiver was worked on; what the current receiver holds
   is in its queue, in the batch, or in ack_q. *)
Receiver == Amq1C!Receiver
Link == [state : {"unopened", "up", "lost", "closed"}, credit : Nat, counter : Nat,
         pending : SUBSET Amq1C!Pending, msgq : Seq(Amq1C!Handle), ackq : Seq([tag : Nat, of : Receiver])]

Named(r, t, m) ==
    t < receiver[r].counter /\ \A p \in receiver[r].pending : p.tag = t => p.msg = m

Done(r, t) ==
    t < receiver[r].counter /\ \A p \in receiver[r].pending : p.tag = t => p.msg \in qhandled \cup qdiscarded

LinkOK(r) ==
    /\ \A p \in receiver[r].pending : p.tag < receiver[r].counter
    /\ \A h \in Range(receiver[r].msgq) : h.of = r /\ Named(r, h.tag, h.msg)
    /\ \A a \in Range(receiver[r].ackq) : a.of = r => Done(r, a.tag)

HandOK(h) == h.of \in 1 .. made /\ (receiver[h.of].state = "closed" \/ Named(h.of, h.tag, h.msg))

Listed(t) ==
    \/ \E h \in Range(receiver[current].msgq) : h.tag = t
    \/ \E a \in Range(receiver[current].ackq) : a.tag = t
    \/ \E h \in Range(qhand) : h.of = current /\ h.tag = t

LinkType ==
    /\ receiver \in [Receiver -> Link]
    /\ made \in 0 .. MaxReceiver /\ current \in 0 .. made
    /\ qhand \in Seq(Amq1C!Handle)
    /\ qpc \in {"connect", "take"} => current # 0
    /\ qpc \in {"off", "idle", "down"} => qhand = <<>>

LinkInv ==
    /\ LinkType
    /\ current # 0 => receiver[current].state # "closed"
    /\ \A r \in Receiver : LinkOK(r)
    /\ \A h \in Range(qhand) : HandOK(h)
    /\ qpc = "ack" => \A h \in Range(qhand) : h.msg \in qhandled
    /\ settled \subseteq qhandled \cup qdiscarded \cup misnamed
    /\ current # 0 => \A p \in receiver[current].pending : Listed(p.tag)

(* What a queue holds is of the type of the queue. *)
LEMMA RangeIn == ASSUME NEW S, NEW s \in Seq(S) PROVE Range(s) \subseteq S
  BY DEF Range

(* The thread of a receiver: deliveries are lost or settled, in the order of ack_q. *)
LEMMA LinkLess ==
    ASSUME LinkInv, NEW r \in Receiver, NEW w \in Link, receiver' = [receiver EXCEPT ![r] = w],
           UNCHANGED <<made, current, qpc, qhand, qhandled, qdiscarded>>,
           settled' \subseteq qhandled \cup qdiscarded \cup misnamed',
           receiver[r].state # "closed", w.state # "closed", w.counter = receiver[r].counter,
           w.msgq = receiver[r].msgq, Range(w.ackq) \subseteq Range(receiver[r].ackq),
           \A p \in w.pending : \E q \in receiver[r].pending : q.tag = p.tag /\ q.msg = p.msg,
           \A a \in Range(receiver[r].ackq), p \in w.pending : a.tag = p.tag => a \in Range(w.ackq)
    PROVE  LinkInv'
<1>1. LinkType'
  BY DEF LinkInv, LinkType
<1>2. receiver'[r] = w /\ \A s \in Receiver : s # r => receiver'[s] = receiver[s]
  BY DEF LinkInv, LinkType
<1>3. \A s \in Receiver : \A t, m : Named(s, t, m) => Named(s, t, m)'
  BY <1>2 DEF Named
<1>4. \A s \in Receiver : \A t : Done(s, t) => Done(s, t)'
  BY <1>2 DEF Done
<1>5. ASSUME NEW s \in Receiver PROVE LinkOK(s)'
  BY <1>2, <1>3, <1>4 DEF LinkInv, LinkOK
<1>6. current \in Receiver \/ current = 0
  BY ClientsAssumption DEF LinkInv, LinkType, Receiver, Amq1C!Receiver
<1>7. \A h \in Range(qhand) : HandOK(h)'
  <2> SUFFICES ASSUME NEW h \in Range(qhand) PROVE HandOK(h)'
    OBVIOUS
  <2>1. h.of \in 1 .. made /\ h.of \in Receiver
    BY ClientsAssumption DEF LinkInv, LinkType, HandOK, Receiver, Amq1C!Receiver
  <2> QED BY <1>2, <1>3, <2>1 DEF LinkInv, HandOK
<1>8. current # 0 => receiver'[current].state # "closed"
  BY <1>2, <1>6 DEF LinkInv
<1>9. ASSUME current # 0, NEW p \in receiver'[current].pending PROVE Listed(p.tag)'
  <2>1. CASE current # r
    BY <1>2, <1>6, <1>9, <2>1 DEF LinkInv, Listed
  <2>2. CASE current = r
    <3>1. Listed(p.tag)
      BY <1>2, <1>9, <2>2 DEF LinkInv
    <3> QED BY <1>2, <1>9, <2>2, <3>1 DEF Listed
  <2> QED BY <2>1, <2>2
<1> QED BY <1>1, <1>5, <1>7, <1>8, <1>9 DEF LinkInv

(* The current receiver is closed, or replaced by a new one. *)
NewLink(state) == [state |-> state, credit |-> 0, counter |-> 0, pending |-> {}, msgq |-> <<>>, ackq |-> <<>>]

(* A receiver that connect of moth/amq1.py makes, and one that is closed. *)
LEMMA NewLinkFacts == \A s \in {"unopened", "closed"} : NewLink(s) \in Link /\ Range(<<>>) = {}
  BY DEF NewLink, Link, Range

(* close of moth/amq1.py: the current receiver ends. *)
LEMMA CloseFacts ==
    ASSUME LinkInv, Amq1C!CloseCurrent, UNCHANGED <<made, qhand, qhandled, qdiscarded, settled, misnamed>>,
           qpc' \in {"work", "down"}, qpc' = "down" => qhand = <<>>
    PROVE  LinkInv'
<1>1. current' = 0
  BY DEF Amq1C!CloseCurrent
<1>2. current = 0 \/ current \in Receiver
  BY ClientsAssumption DEF LinkInv, LinkType, Receiver, Amq1C!Receiver
<1>3. receiver' \in [Receiver -> Link]
      /\ \A s \in Receiver : receiver'[s] = receiver[s] \/ receiver'[s] = NewLink("closed")
  <2>1. CASE current = 0
    BY <2>1 DEF Amq1C!CloseCurrent, LinkInv, LinkType
  <2>2. CASE current # 0
    <3>1. receiver' = [receiver EXCEPT ![current] = NewLink("closed")]
      BY <2>2 DEF Amq1C!CloseCurrent, Amq1C!NewReceiver, NewLink
    <3> QED BY <1>2, <2>2, <3>1, NewLinkFacts DEF LinkInv, LinkType
  <2> QED BY <2>1, <2>2
<1>4. LinkType'
  BY <1>1, <1>3, ClientsAssumption DEF LinkInv, LinkType
<1>5. NewLink("closed").pending = {} /\ NewLink("closed").msgq = <<>> /\ NewLink("closed").ackq = <<>>
      /\ NewLink("closed").state = "closed"
  BY DEF NewLink
<1>6. ASSUME NEW s \in Receiver PROVE LinkOK(s)'
  <2>1. CASE receiver'[s] = receiver[s]
    BY <2>1 DEF LinkInv, LinkOK, Named, Done
  <2>2. CASE receiver'[s] = NewLink("closed")
    BY <1>5, <2>2, NewLinkFacts DEF LinkOK
  <2> QED BY <1>3, <2>1, <2>2
<1>7. \A h \in Range(qhand) : HandOK(h)'
  <2> SUFFICES ASSUME NEW h \in Range(qhand) PROVE HandOK(h)'
    OBVIOUS
  <2>1. h.of \in 1 .. made /\ h.of \in Receiver
    BY ClientsAssumption DEF LinkInv, LinkType, HandOK, Receiver, Amq1C!Receiver
  <2> QED BY <1>3, <1>5, <2>1 DEF LinkInv, HandOK, Named
<1> QED BY <1>1, <1>4, <1>6, <1>7 DEF LinkInv

(* The steps of the AMQP 1.0 consumer: gather, ack, and the threads of its receivers. *)
LEMMA LinkStep == ASSUME LinkInv, [Amq1C!Consumer]_amq1SubVars PROVE LinkInv'
<1>1. \A r \in Receiver : receiver[r] \in Link
  BY DEF LinkInv, LinkType
<1>2. current \in Receiver \/ current = 0
  BY ClientsAssumption DEF LinkInv, LinkType, Receiver, Amq1C!Receiver
(* What leaves the receivers and the batch as they are. *)
<1>3. ASSUME UNCHANGED <<made, current, receiver, qhand, qdiscarded, settled, misnamed>>, qhandled \subseteq qhandled',
             qpc' \in {"connect", "take"} => current # 0, qpc' \in {"off", "idle", "down"} => qhand = <<>>,
             qpc' = "ack" => \A h \in Range(qhand) : h.msg \in qhandled'
      PROVE  LinkInv'
  <2>1. LinkType'
    BY <1>3 DEF LinkInv, LinkType
  <2>2. \A r \in Receiver : LinkOK(r)'
    BY <1>3 DEF LinkInv, LinkOK, Named, Done
  <2>3. \A h \in Range(qhand) : HandOK(h)'
    BY <1>3 DEF LinkInv, HandOK, Named
  <2>4. \A t : Listed(t) => Listed(t)'
    BY <1>3 DEF Listed
  <2> QED BY <1>3, <2>1, <2>2, <2>3, <2>4 DEF LinkInv
<1>4. CASE UNCHANGED amq1SubVars
  BY <1>3, <1>4 DEF amq1SubVars, LinkInv, LinkType
<1>5. CASE Amq1C!Gather
  BY <1>3, <1>5 DEF Amq1C!Gather, Amq1C!histories
<1>6. CASE Amq1C!Connected
  BY <1>3, <1>6 DEF Amq1C!Connected, Amq1C!histories, LinkInv, LinkType
<1>7. CASE Amq1C!EboOver \/ Amq1C!PleaseStop
  BY <1>3, <1>7 DEF Amq1C!EboOver, Amq1C!PleaseStop, Amq1C!histories, LinkInv, LinkType
<1>8. CASE Amq1C!Work
  <2>1. /\ UNCHANGED <<made, current, receiver, qhand, qdiscarded, settled, misnamed>>
        /\ qpc' = "ack" /\ qhandled' = qhandled \cup {qhand[k].msg : k \in DOMAIN qhand}
    BY <1>8 DEF Amq1C!Work
  <2>2. \A h \in Range(qhand) : h.msg \in qhandled'
    BY <2>1 DEF Range
  <2> QED BY <1>3, <2>1, <2>2
<1>9. CASE Amq1C!NotConnected
  BY <1>9, CloseFacts DEF Amq1C!NotConnected, Amq1C!histories
<1>10. CASE Amq1C!OnStop
  BY <1>10, CloseFacts DEF Amq1C!OnStop, Amq1C!histories, LinkInv, LinkType
<1>11. CASE Amq1C!GetNewMessage
  <2>1. CASE UNCHANGED <<made, current, receiver>>
    <3>1. /\ UNCHANGED <<qhand, qhandled, qdiscarded, settled, misnamed>> /\ qpc' \in {"work", "take"}
          /\ qpc' = "take" => current # 0
      BY <1>11, <2>1 DEF Amq1C!GetNewMessage, Amq1C!histories, Amq1C!IsConnected, LinkInv, LinkType
    <3> QED BY <1>3, <2>1, <3>1
  <2>2. CASE ~ UNCHANGED <<made, current, receiver>>
    <3>1. /\ made < MaxReceiver /\ made' = made + 1 /\ current' = made + 1 /\ qpc' = "connect"
          /\ receiver' = [receiver EXCEPT ![made + 1] = NewLink("unopened")]
          /\ UNCHANGED <<qhand, qhandled, qdiscarded, settled, misnamed>>
      BY <1>11, <2>2 DEF Amq1C!GetNewMessage, Amq1C!histories, Amq1C!NewReceiver, NewLink
    <3> DEFINE n == made + 1
    <3>2. n \in Receiver /\ made \in Nat /\ \A i \in 1 .. made : i # n /\ i \in Receiver /\ i \in 1 .. n
      BY <3>1, ClientsAssumption DEF LinkInv, LinkType, Receiver, Amq1C!Receiver
    <3> HIDE DEF n
    <3>3. /\ receiver' \in [Receiver -> Link] /\ receiver'[n] = NewLink("unopened")
          /\ \A s \in Receiver : s # n => receiver'[s] = receiver[s]
      BY <3>1, <3>2, NewLinkFacts DEF LinkInv, LinkType, n
    <3>4. /\ NewLink("unopened").pending = {} /\ NewLink("unopened").msgq = <<>> /\ NewLink("unopened").ackq = <<>>
          /\ NewLink("unopened").state = "unopened"
      BY DEF NewLink
    <3>5. LinkType'
      BY <3>1, <3>2, <3>3, ClientsAssumption DEF LinkInv, LinkType, n
    <3>6. ASSUME NEW s \in Receiver PROVE LinkOK(s)'
      <4>1. CASE s # n
        <5>1. receiver'[s] = receiver[s]
          BY <3>3, <4>1
        <5> QED BY <3>1, <5>1 DEF LinkInv, LinkOK, Named, Done
      <4>2. CASE s = n
        BY <3>3, <3>4, <4>2, NewLinkFacts DEF LinkOK
      <4> QED BY <4>1, <4>2
    <3>7. \A h \in Range(qhand) : HandOK(h)'
      BY <3>1, <3>2, <3>3 DEF LinkInv, HandOK, Named, n
    <3>8. current' = n /\ receiver'[current'].pending = {} /\ receiver'[current'].state # "closed"
      BY <3>1, <3>3, <3>4 DEF n
    <3> QED BY <3>1, <3>5, <3>6, <3>7, <3>8 DEF LinkInv
  <2> QED BY <2>1, <2>2
<1>12. CASE Amq1C!Restart
  <2>1. /\ receiver' = [r \in Receiver |-> NewLink("unopened")] /\ made' = 0 /\ current' = 0 /\ qhand' = <<>> /\ qpc' = "idle"
        /\ UNCHANGED <<qhandled, qdiscarded, settled, misnamed>>
    BY <1>12 DEF Amq1C!Restart, Amq1C!histories, Amq1C!NewReceiver, NewLink, Receiver
  <2>2. receiver' \in [Receiver -> Link] /\ \A r \in Receiver : receiver'[r].pending = {} /\ receiver'[r].msgq = <<>>
                                                           /\ receiver'[r].ackq = <<>>
    BY <2>1, NewLinkFacts DEF NewLink
  <2>3. LinkType'
    BY <2>1, <2>2, ClientsAssumption DEF LinkType
  <2>4. \A r \in Receiver : LinkOK(r)'
    BY <2>2, NewLinkFacts DEF LinkOK
  <2> QED BY <2>1, <2>3, <2>4, NewLinkFacts DEF LinkInv
<1>13. ASSUME NEW r \in Receiver, Amq1C!OnLinkOpened(r) PROVE LinkInv'
  <2> DEFINE v == receiver[r]
             w == [v EXCEPT !.state = "up", !.credit = amq1Prefetch]
  <2>1. /\ v.state \in {"unopened", "lost"} /\ receiver' = [receiver EXCEPT ![r] = w]
        /\ UNCHANGED <<made, current, qpc, qhand, qhandled, qdiscarded, settled, misnamed>>
    BY <1>13 DEF Amq1C!OnLinkOpened, Amq1C!histories
  <2>2. v \in Link
    BY <1>1
  <2>3. /\ w \in Link /\ w.state = "up" /\ w.counter = v.counter /\ w.msgq = v.msgq /\ w.ackq = v.ackq
        /\ w.pending = v.pending
    BY <2>2, ClientsAssumption DEF Link
  <2> HIDE DEF w
  <2> QED BY <2>1, <2>3, LinkLess DEF LinkInv
<1>14. ASSUME NEW r \in Receiver, Amq1C!OnDisconnected(r) PROVE LinkInv'
  <2> DEFINE v == receiver[r]
             w == [v EXCEPT !.state = "lost", !.credit = 0, !.pending = {[p EXCEPT !.live = FALSE] : p \in @}]
  <2>1. /\ v.state = "up" /\ receiver' = [receiver EXCEPT ![r] = w]
        /\ UNCHANGED <<made, current, qpc, qhand, qhandled, qdiscarded, settled, misnamed>>
    BY <1>14 DEF Amq1C!OnDisconnected, Amq1C!histories
  <2>2. v \in Link /\ v.pending \subseteq Amq1C!Pending
    BY <1>1 DEF Link
  <2>3. \A p \in v.pending : /\ [p EXCEPT !.live = FALSE] \in Amq1C!Pending
                             /\ [p EXCEPT !.live = FALSE].tag = p.tag /\ [p EXCEPT !.live = FALSE].msg = p.msg
    BY <2>2 DEF Amq1C!Pending
  <2>4. {[p EXCEPT !.live = FALSE] : p \in v.pending} \subseteq Amq1C!Pending
    BY <2>3
  <2>5. /\ w \in Link /\ w.state = "lost" /\ w.counter = v.counter /\ w.msgq = v.msgq /\ w.ackq = v.ackq
        /\ w.pending = {[p EXCEPT !.live = FALSE] : p \in v.pending}
    BY <2>2, <2>4 DEF Link
  <2> HIDE DEF w
  <2>6. \A p \in w.pending : \E q \in v.pending : q.tag = p.tag /\ q.msg = p.msg
    BY <2>3, <2>5
  <2> QED BY <2>1, <2>5, <2>6, LinkLess DEF LinkInv
<1>15. ASSUME NEW r \in Receiver, Amq1C!OnTimerTask(r) PROVE LinkInv'
  <2> DEFINE v == receiver[r]
             a == Head(v.ackq)
             hit == {p \in v.pending : p.tag = a.tag}
             done == {p.msg : p \in {p \in hit : p.live}}
             cr == IF hit # {} THEN Amq1C!CreditAfter(v) ELSE v.credit
             w == [v EXCEPT !.ackq = Tail(v.ackq), !.pending = v.pending \ hit, !.credit = cr]
  <2>1. /\ v.state \in {"up", "lost"} /\ v.ackq # <<>> /\ receiver' = [receiver EXCEPT ![r] = w]
        /\ settled' = settled \cup done /\ misnamed' = IF a.of # r THEN misnamed \cup done ELSE misnamed
        /\ UNCHANGED <<made, current, qpc, qhand, qhandled, qdiscarded>>
    BY <1>15 DEF Amq1C!OnTimerTask
  <2>2. v \in Link /\ v.pending \subseteq Amq1C!Pending /\ v.ackq \in Seq([tag : Nat, of : Receiver]) /\ v.credit \in Nat
    BY <1>1 DEF Link
  <2>3. Tail(v.ackq) \in Seq([tag : Nat, of : Receiver]) /\ Range(v.ackq) = {a} \cup Range(Tail(v.ackq))
    BY <2>1, <2>2, RangeFacts
  <2>4. cr \in Nat
    BY <2>2, SMTT(40) DEF Amq1C!CreditAfter
  <2> HIDE DEF cr
  <2>5. /\ w \in Link /\ w.state = v.state /\ w.counter = v.counter /\ w.msgq = v.msgq /\ w.ackq = Tail(v.ackq)
        /\ w.pending = v.pending \ hit
    BY <2>2, <2>3, <2>4 DEF Link
  <2>6. done \subseteq qhandled \cup qdiscarded \/ a.of # r
    BY <2>3 DEF LinkInv, LinkOK, Done
  <2>7. settled' \subseteq qhandled \cup qdiscarded \cup misnamed'
    BY <2>1, <2>6 DEF LinkInv
  <2>8. \A b \in Range(v.ackq), p \in v.pending \ hit : b.tag = p.tag => b \in Range(Tail(v.ackq))
    BY <2>3
  <2> HIDE DEF w, done
  <2> QED BY <2>1, <2>3, <2>5, <2>7, <2>8, LinkLess
<1>16. ASSUME NEW r \in Receiver, NEW m \in Amq1Message, Amq1C!OnMessage(r, m) PROVE LinkInv'
  <2> DEFINE v == receiver[r]
             p0 == [tag |-> v.counter, msg |-> m, live |-> TRUE]
             h0 == [tag |-> v.counter, msg |-> m, of |-> r]
             less == v.credit - 1
             next == v.counter + 1
             w == [v EXCEPT !.credit = less, !.counter = next,
                            !.pending = v.pending \cup {p0}, !.msgq = Append(v.msgq, h0)]
  <2>1. /\ v.state = "up" /\ v.credit > 0 /\ receiver' = [receiver EXCEPT ![r] = w]
        /\ UNCHANGED <<made, current, qpc, qhand, qhandled, qdiscarded, settled, misnamed>>
    BY <1>16 DEF Amq1C!OnMessage, Amq1C!histories
  <2>2. v \in Link /\ v.counter \in Nat /\ v.credit \in Nat /\ v.pending \subseteq Amq1C!Pending /\ v.msgq \in Seq(Amq1C!Handle)
    BY <1>1 DEF Link
  <2>3. p0 \in Amq1C!Pending /\ h0 \in Amq1C!Handle /\ p0.tag = v.counter /\ p0.msg = m /\ h0.tag = v.counter /\ h0.msg = m /\ h0.of = r
    BY <2>2 DEF Amq1C!Pending, Amq1C!Handle, Receiver
  <2>0. less \in Nat /\ next \in Nat /\ next = v.counter + 1
    BY <2>1, <2>2
  <2> HIDE DEF p0, h0, less, next
  <2>4. Append(v.msgq, h0) \in Seq(Amq1C!Handle) /\ Range(Append(v.msgq, h0)) = Range(v.msgq) \cup {h0}
    BY <2>2, <2>3, RangeFacts
  <2>5. /\ w \in Link /\ w.state = "up" /\ w.counter = next /\ w.msgq = Append(v.msgq, h0) /\ w.ackq = v.ackq
        /\ w.pending = v.pending \cup {p0}
    BY <2>0, <2>1, <2>2, <2>3, <2>4 DEF Link
  <2> HIDE DEF w
  <2>6. receiver'[r] = w /\ receiver' \in [Receiver -> Link] /\ \A s \in Receiver : s # r => receiver'[s] = receiver[s]
    BY <2>1, <2>5 DEF LinkInv, LinkType
  <2>7. LinkType'
    BY <2>1, <2>6 DEF LinkInv, LinkType
  <2>8. \A p \in v.pending : p.tag < v.counter /\ p.tag \in Nat
    BY <2>2 DEF LinkInv, LinkOK, Amq1C!Pending
  <2>9. ASSUME NEW t \in Nat, NEW x, Named(r, t, x) PROVE Named(r, t, x)'
    BY <2>0, <2>2, <2>3, <2>5, <2>6, <2>9 DEF Named
  <2>10. ASSUME NEW t \in Nat, Done(r, t) PROVE Done(r, t)'
    BY <2>0, <2>1, <2>2, <2>3, <2>5, <2>6, <2>10 DEF Done
  <2>11. \A h \in {h0} : Named(r, h.tag, h.msg)'
    BY <2>0, <2>2, <2>3, <2>5, <2>6, <2>8 DEF Named
  <2>12. \A h \in Range(v.msgq) : h.tag \in Nat
    BY <2>2, RangeIn DEF Amq1C!Handle
  <2>13. \A a \in Range(v.ackq) : a.tag \in Nat
    <3>1. v.ackq \in Seq([tag : Nat, of : Receiver])
      BY <2>2 DEF Link
    <3> QED BY <3>1, RangeIn
  <2>14. LinkOK(r)'
    <3>1. \A p \in w.pending : p.tag < w.counter
      BY <2>0, <2>2, <2>3, <2>5, <2>8
    <3>2. \A h \in Range(w.msgq) : h.of = r /\ Named(r, h.tag, h.msg)'
      BY <2>3, <2>4, <2>5, <2>9, <2>11, <2>12 DEF LinkInv, LinkOK
    <3>3. \A a \in Range(w.ackq) : a.of = r => Done(r, a.tag)'
      BY <2>5, <2>10, <2>13 DEF LinkInv, LinkOK
    <3> QED BY <2>6, <3>1, <3>2, <3>3 DEF LinkOK
  <2>15. ASSUME NEW s \in Receiver PROVE LinkOK(s)'
    <3>1. CASE s # r
      <4>1. receiver'[s] = receiver[s]
        BY <2>6, <3>1
      <4> QED BY <2>1, <4>1 DEF LinkInv, LinkOK, Named, Done
    <3> QED BY <2>14, <3>1
  <2>16. ASSUME NEW h \in Range(qhand) PROVE HandOK(h)'
    <3>1. h.of \in 1 .. made /\ h.of \in Receiver
      BY ClientsAssumption DEF LinkInv, LinkType, HandOK, Receiver, Amq1C!Receiver
    <3>2. h.tag \in Nat
      <4>1. Range(qhand) \subseteq Amq1C!Handle
        BY RangeIn DEF LinkInv, LinkType
      <4> QED BY <4>1 DEF Amq1C!Handle
    <3>3. CASE h.of # r
      <4>1. receiver'[h.of] = receiver[h.of]
        BY <2>6, <3>1, <3>3
      <4> QED BY <2>1, <4>1 DEF LinkInv, HandOK, Named
    <3>4. CASE h.of = r
      <4>1. Named(r, h.tag, h.msg)
        BY <2>1, <3>4 DEF LinkInv, HandOK
      <4> QED BY <2>1, <2>9, <3>1, <3>2, <3>4, <4>1 DEF HandOK
    <3> QED BY <3>3, <3>4
  <2>17. current # 0 => receiver'[current].state # "closed"
    BY <1>2, <2>5, <2>6 DEF LinkInv
  <2>18. ASSUME current # 0, NEW p \in receiver'[current].pending PROVE Listed(p.tag)'
    <3>1. CASE current # r
      BY <1>2, <2>1, <2>6, <2>18, <3>1 DEF LinkInv, Listed
    <3>2. CASE current = r
      <4>1. p = p0 \/ p \in v.pending
        BY <2>5, <2>6, <2>18, <3>2
      <4>2. Range(w.msgq) = Range(v.msgq) \cup {h0}
        BY <2>4, <2>5
      <4>3. CASE p = p0
        BY <2>1, <2>3, <2>6, <3>2, <4>2, <4>3 DEF Listed
      <4>4. CASE p \in v.pending
        <5>1. Listed(p.tag)
          BY <2>18, <3>2, <4>4 DEF LinkInv
        <5> QED BY <2>1, <2>5, <2>6, <3>2, <4>2, <5>1 DEF Listed
      <4> QED BY <4>1, <4>3, <4>4
    <3> QED BY <3>1, <3>2
  <2> QED BY <2>1, <2>7, <2>15, <2>16, <2>17, <2>18 DEF LinkInv
(* The main thread takes from the queue of the current receiver. *)
<1>17. CASE Amq1C!Take
  <2>0. PICK c : c = current
    OBVIOUS
  <2> DEFINE v == receiver[c]
             h == Head(v.msgq)
             acked(w) == [v EXCEPT !.msgq = Tail(v.msgq), !.ackq = w]
  <2>1. CASE v.msgq = <<>>
    BY <2>0, <1>3, <1>17, <2>1 DEF Amq1C!Take
  <2>2. CASE v.msgq # <<>>
    <3>1. c \in Receiver /\ c # 0 /\ qpc = "take"
      BY <2>0, <1>2, <1>17 DEF Amq1C!Take, LinkInv, LinkType
    <3>2. v \in Link /\ v.msgq \in Seq(Amq1C!Handle) /\ v.ackq \in Seq([tag : Nat, of : Receiver])
      BY <2>0, <1>1, <3>1 DEF Link
    <3>3. h \in Amq1C!Handle /\ Tail(v.msgq) \in Seq(Amq1C!Handle) /\ Range(v.msgq) = {h} \cup Range(Tail(v.msgq))
      BY <2>0, <2>2, <3>2, RangeFacts
    <3>4. h.of = c /\ Named(c, h.tag, h.msg) /\ c \in 1 .. made
      BY <2>0, <3>1, <3>3 DEF LinkInv, LinkOK, LinkType
    <3> DEFINE ref == [tag |-> h.tag, of |-> h.of]
    <3>5. CASE Amq1C!MsgRawToDict(h.msg) = {}
      <4>1. /\ receiver' = [receiver EXCEPT ![c] = acked(v.ackq \o <<ref>>)]
            /\ qdiscarded' = qdiscarded \cup {h.msg} /\ qpc' = "work"
            /\ UNCHANGED <<qhand, made, current, qhandled, settled, misnamed>>
        BY <2>0, <1>17, <2>2, <3>5 DEF Amq1C!Take, Amq1C!AckUnreadable
      <4>2. ref \in [tag : Nat, of : Receiver] /\ ref.tag = h.tag /\ ref.of = c
        BY <2>0, <3>3, <3>4 DEF Amq1C!Handle, Receiver
      <4> HIDE DEF ref
      <4>3. v.ackq \o <<ref>> \in Seq([tag : Nat, of : Receiver]) /\ Range(v.ackq \o <<ref>>) = Range(v.ackq) \cup {ref}
        <5>1. v.ackq \o <<ref>> = Append(v.ackq, ref)
          BY <2>0, <3>2, <4>2
        <5> DEFINE R == [tag : Nat, of : Receiver]
        <5>2. v.ackq \in Seq(R) /\ ref \in R
          BY <3>2, <4>2
        <5> HIDE DEF R
        <5>3. Append(v.ackq, ref) \in Seq(R) /\ Range(Append(v.ackq, ref)) = Range(v.ackq) \cup {ref}
          BY <5>2, RangeFacts
        <5> QED BY <5>1, <5>3 DEF R
      <4> DEFINE w == acked(v.ackq \o <<ref>>)
      <4>4. /\ w \in Link /\ w.state = v.state /\ w.counter = v.counter /\ w.pending = v.pending
            /\ w.msgq = Tail(v.msgq) /\ w.ackq = v.ackq \o <<ref>>
        BY <2>0, <3>2, <3>3, <4>3 DEF Link
      <4> HIDE DEF w
      <4>5. /\ receiver'[c] = w /\ receiver' \in [Receiver -> Link]
            /\ \A s \in Receiver : s # c => receiver'[s] = receiver[s]
        BY <2>0, <3>1, <4>1, <4>4 DEF LinkInv, LinkType, w
      <4>6. LinkType'
        BY <2>0, <4>1, <4>5 DEF LinkInv, LinkType
      <4>7. \A s \in Receiver : \A t, m : Named(s, t, m) => Named(s, t, m)'
        BY <2>0, <4>4, <4>5 DEF Named
      <4>8. \A s \in Receiver : \A t : Done(s, t) => Done(s, t)'
        BY <2>0, <4>1, <4>4, <4>5 DEF Done
      <4>9. \A a \in {ref} : Done(c, a.tag)'
        BY <2>0, <3>4, <4>1, <4>2, <4>4, <4>5 DEF Done, Named
      <4>10. LinkOK(c)'
        BY <2>0, <3>1, <3>3, <4>3, <4>4, <4>5, <4>7, <4>8, <4>9, ZenonT(60) DEF LinkInv, LinkOK
      <4>11. ASSUME NEW s \in Receiver PROVE LinkOK(s)'
        BY <2>0, <4>5, <4>7, <4>8, <4>10 DEF LinkInv, LinkOK
      <4>12. \A k \in Range(qhand) : HandOK(k)'
        <5> SUFFICES ASSUME NEW k \in Range(qhand) PROVE HandOK(k)'
          OBVIOUS
        <5>1. k.of \in 1 .. made /\ k.of \in Receiver
          BY ClientsAssumption DEF LinkInv, LinkType, HandOK, Receiver, Amq1C!Receiver
        <5>2. receiver'[k.of].state = receiver[k.of].state
          BY <2>0, <4>4, <4>5, <5>1
        <5> QED BY <2>0, <4>1, <4>7, <5>1, <5>2 DEF LinkInv, HandOK
      <4>13. receiver'[current'].state # "closed"
        BY <2>0, <3>1, <4>1, <4>4, <4>5 DEF LinkInv
      <4>14. \A p \in receiver'[current'].pending : Listed(p.tag)'
        <5> SUFFICES ASSUME NEW p \in v.pending PROVE Listed(p.tag)'
          BY <2>0, <4>1, <4>4, <4>5
        <5>1. Listed(p.tag)
          BY <2>0, <3>1 DEF LinkInv
        <5> QED BY <2>0, <3>3, <4>1, <4>2, <4>3, <4>4, <4>5, <5>1 DEF Listed
      <4>15. settled' \subseteq qhandled' \cup qdiscarded' \cup misnamed'
        BY <2>0, <4>1 DEF LinkInv
      <4> QED BY <2>0, <4>1, <4>6, <4>11, <4>12, <4>13, <4>14, <4>15 DEF LinkInv
    <3>6. CASE Amq1C!MsgRawToDict(h.msg) # {}
      <4> DEFINE w == [v EXCEPT !.msgq = Tail(v.msgq)]
      <4>1. /\ receiver' = [receiver EXCEPT ![c] = w] /\ qhand' = Append(qhand, h) /\ qpc' \in {"get", "work"}
            /\ UNCHANGED <<qdiscarded, made, current, qhandled, settled, misnamed>>
        BY <2>0, <1>17, <2>2, <3>6 DEF Amq1C!Take
      <4>2. /\ w \in Link /\ w.state = v.state /\ w.counter = v.counter /\ w.pending = v.pending
            /\ w.msgq = Tail(v.msgq) /\ w.ackq = v.ackq
        BY <2>0, <3>2, <3>3 DEF Link
      <4> HIDE DEF w
      <4>3. /\ receiver'[c] = w /\ receiver' \in [Receiver -> Link]
            /\ \A s \in Receiver : s # c => receiver'[s] = receiver[s]
        BY <2>0, <3>1, <4>1, <4>2 DEF LinkInv, LinkType
      <4>4. qhand' \in Seq(Amq1C!Handle) /\ Range(qhand') = Range(qhand) \cup {h}
        BY <2>0, <3>3, <4>1, RangeFacts DEF LinkInv, LinkType
      <4>5. LinkType'
        BY <2>0, <4>1, <4>3, <4>4 DEF LinkInv, LinkType
      <4>6. \A s \in Receiver : \A t, m : Named(s, t, m) => Named(s, t, m)'
        BY <2>0, <4>2, <4>3 DEF Named
      <4>7. \A s \in Receiver : \A t : Done(s, t) => Done(s, t)'
        BY <2>0, <4>1, <4>2, <4>3 DEF Done
      <4>8. LinkOK(c)'
        BY <2>0, <3>1, <3>3, <4>2, <4>3, <4>6, <4>7 DEF LinkInv, LinkOK
      <4>9. ASSUME NEW s \in Receiver PROVE LinkOK(s)'
        BY <2>0, <4>3, <4>6, <4>7, <4>8 DEF LinkInv, LinkOK
      <4>10. \A k \in Range(qhand) : HandOK(k)'
        <5> SUFFICES ASSUME NEW k \in Range(qhand) PROVE HandOK(k)'
          OBVIOUS
        <5>1. k.of \in 1 .. made /\ k.of \in Receiver
          BY ClientsAssumption DEF LinkInv, LinkType, HandOK, Receiver, Amq1C!Receiver
        <5>2. receiver'[k.of].state = receiver[k.of].state
          BY <2>0, <4>2, <4>3, <5>1
        <5> QED BY <2>0, <4>1, <4>6, <5>1, <5>2 DEF LinkInv, HandOK
      <4>11. \A k \in {h} : HandOK(k)'
        BY <2>0, <3>1, <3>4, <4>1, <4>6 DEF HandOK
      <4>12. receiver'[current'].state # "closed"
        BY <2>0, <3>1, <4>1, <4>2, <4>3 DEF LinkInv
      <4>13. \A p \in receiver'[current'].pending : Listed(p.tag)'
        <5> SUFFICES ASSUME NEW p \in v.pending PROVE Listed(p.tag)'
          BY <2>0, <4>1, <4>2, <4>3
        <5>1. Listed(p.tag)
          BY <2>0, <3>1 DEF LinkInv
        <5> QED BY <2>0, <3>3, <3>4, <4>1, <4>2, <4>3, <4>4, <5>1 DEF Listed
      <4> QED BY <2>0, <4>1, <4>4, <4>5, <4>9, <4>10, <4>11, <4>12, <4>13 DEF LinkInv
    <3> QED BY <2>0, <3>5, <3>6
  <2> QED BY <2>0, <2>1, <2>2
(* The tags of the batch go to the queue of the current receiver. *)
<1>18. CASE Amq1C!Ack
  <2>0. PICK c : c = current
    OBVIOUS
  <2> DEFINE v == receiver[c]
             tags == [k \in DOMAIN qhand |-> [tag |-> qhand[k].tag, of |-> qhand[k].of]]
             w == [v EXCEPT !.ackq = v.ackq \o tags]
  <2>1. /\ qpc = "ack" /\ qpc' = "idle" /\ qhand' = <<>>
        /\ receiver' = IF c = 0 THEN receiver ELSE [receiver EXCEPT ![c] = w]
        /\ UNCHANGED <<made, current, qhandled, qdiscarded, settled, misnamed>>
    BY <2>0, <1>18 DEF Amq1C!Ack, Amq1C!histories
  <2>2. Range(qhand') = {} /\ qhand' \in Seq(Amq1C!Handle)
    BY <2>0, <2>1, NewLinkFacts
  <2>3. CASE c = 0
    <3>1. receiver' = receiver /\ current' = 0
      BY <2>0, <2>1, <2>3
    <3>2. LinkType'
      BY <2>0, <2>1, <2>2, <3>1 DEF LinkInv, LinkType
    <3>3. \A s \in Receiver : LinkOK(s)'
      BY <2>0, <2>1, <3>1 DEF LinkInv, LinkOK, Named, Done
    <3> QED BY <2>0, <2>1, <2>2, <3>1, <3>2, <3>3 DEF LinkInv
  <2>4. CASE c # 0
    <3>1. c \in Receiver /\ v.state # "closed"
      BY <2>0, <1>2, <2>4 DEF LinkInv
    <3>2. v \in Link /\ v.ackq \in Seq([tag : Nat, of : Receiver])
      BY <2>0, <1>1, <3>1 DEF Link
    <3>3. qhand \in Seq(Amq1C!Handle) /\ Len(qhand) \in Nat /\ DOMAIN qhand = 1 .. Len(qhand)
          /\ \A k \in 1 .. Len(qhand) : qhand[k] \in Amq1C!Handle
      BY DEF LinkInv, LinkType
    <3>4. tags \in Seq([tag : Nat, of : Receiver]) /\ Len(tags) = Len(qhand)
      BY <2>0, <3>3 DEF Amq1C!Handle, Receiver
    <3>5. \A k \in 1 .. Len(qhand) : tags[k].tag = qhand[k].tag /\ tags[k].of = qhand[k].of
      BY <2>0, <3>3
    <3> HIDE DEF tags
    <3>6. \A a \in Range(tags) : \E h \in Range(qhand) : h.tag = a.tag /\ h.of = a.of
      BY <2>0, <3>3, <3>4, <3>5, RangeEquality
    <3>7. \A h \in Range(qhand) : \E a \in Range(tags) : h.tag = a.tag
      BY <2>0, <3>3, <3>4, <3>5, RangeEquality
    <3>8. v.ackq \o tags \in Seq([tag : Nat, of : Receiver]) /\ Range(v.ackq \o tags) = Range(v.ackq) \cup Range(tags)
      BY <2>0, <3>2, <3>4, JoinFacts
    <3>9. /\ w \in Link /\ w.state = v.state /\ w.counter = v.counter /\ w.pending = v.pending
          /\ w.msgq = v.msgq /\ w.ackq = v.ackq \o tags
      BY <2>0, <3>2, <3>8 DEF Link
    <3> HIDE DEF w
    <3>10. /\ receiver'[c] = w /\ receiver' \in [Receiver -> Link]
           /\ \A s \in Receiver : s # c => receiver'[s] = receiver[s]
      BY <2>0, <2>1, <2>4, <3>1, <3>9 DEF LinkInv, LinkType
    <3>11. LinkType'
      BY <2>0, <2>1, <2>2, <3>10 DEF LinkInv, LinkType
    <3>12. \A s \in Receiver : \A t, m : Named(s, t, m) => Named(s, t, m)'
      BY <2>0, <3>9, <3>10 DEF Named
    <3>13. \A s \in Receiver : \A t : Done(s, t) => Done(s, t)'
      BY <2>0, <2>1, <3>9, <3>10 DEF Done
    <3>14. \A a \in Range(tags) : a.of = c => Done(c, a.tag)
      BY <2>0, <2>1, <3>1, <3>6 DEF LinkInv, HandOK, Named, Done
    <3>15. LinkOK(c)'
      BY <2>0, <3>1, <3>8, <3>9, <3>10, <3>12, <3>13, <3>14 DEF LinkInv, LinkOK
    <3>16. \A s \in Receiver : LinkOK(s)'
      BY <2>0, <3>10, <3>12, <3>13, <3>15 DEF LinkInv, LinkOK
    <3>17. receiver'[current'].state # "closed"
      BY <2>0, <2>1, <3>1, <3>9, <3>10
    <3>18. \A p \in receiver'[current'].pending : Listed(p.tag)'
      <4> SUFFICES ASSUME NEW p \in v.pending PROVE Listed(p.tag)'
        BY <2>0, <2>1, <3>9, <3>10
      <4>1. Listed(p.tag)
        BY <2>0, <2>4 DEF LinkInv
      <4>2. /\ current' = c /\ receiver'[c] = w /\ Range(w.msgq) = Range(v.msgq)
            /\ Range(w.ackq) = Range(v.ackq) \cup Range(tags)
        BY <2>0, <2>1, <3>8, <3>9, <3>10
      <4>3. CASE \E h \in Range(qhand) : h.of = c /\ h.tag = p.tag
        <5>1. \E a \in Range(tags) : a.tag = p.tag
          BY <3>7, <4>3
        <5> QED BY <4>2, <5>1 DEF Listed
      <4>4. CASE \E h \in Range(v.msgq) : h.tag = p.tag
        BY <4>2, <4>4 DEF Listed
      <4>5. CASE \E a \in Range(v.ackq) : a.tag = p.tag
        BY <4>2, <4>5 DEF Listed
      <4> QED BY <2>0, <4>1, <4>3, <4>4, <4>5 DEF Listed
    <3> QED BY <2>0, <2>1, <2>2, <3>11, <3>16, <3>17, <3>18 DEF LinkInv
  <2> QED BY <2>0, <2>3, <2>4
<1> QED BY <1>4, <1>5, <1>6, <1>7, <1>8, <1>9, <1>10, <1>11, <1>12, <1>13, <1>14, <1>15, <1>16, <1>17, <1>18
        DEF Amq1C!Consumer, Amq1C!Main, Amq1C!Thread, Receiver

-----------------------------------------------------------------------------
(* The consumer of the AMQP client.  A connection id belongs to one client at a time, and no
   message of the batch has the id of another client's connection: an acknowledgement that is
   sent names the delivery it was meant for.  What the broker holds as delivered on an open
   connection is in the batch, in the part of it that ack has not come to, or will be. *)
Sub == AmqpC!Sub
Phase == {"off", "idle", "gather", "work", "ack", "down"}
Pushed == [tag : Nat, msg : Message]

SubType ==
    /\ apc \in Phase /\ at \in [c : Sub, k : Nat]
    /\ link \in [Sub -> {"none", "open", "broken"}] /\ connId \in [Sub -> 0 .. MaxConn]
    /\ rawq \in [Sub -> Seq(Pushed)] /\ hand \in Seq(AmqpC!Handle)
    /\ bqueue \in [Sub -> Seq(Message)] /\ sent \in [Sub -> Seq(Message)] /\ out \in [Sub -> SUBSET Nat]

DeliveredAs(c, t, m) == t \in 1 .. Len(sent[c]) /\ sent[c][t] = m

(* What a client, the broker and the batch know of a connection. *)
ChannelOK(c) ==
    /\ link[c] # "none" => connId[c] # 0
    /\ \A d \in Sub : connId[c] = connId[d] /\ connId[c] # 0 => c = d
    /\ link[c] # "open" => out[c] = {} /\ sent[c] = <<>>
    /\ out[c] \subseteq 1 .. Len(sent[c])
    /\ link[c] = "open" => \A e \in Range(rawq[c]) : DeliveredAs(c, e.tag, e.msg)
    /\ \A h \in Range(hand) : h.conn # 0 /\ h.conn = connId[c] =>
          c = h.from /\ (link[c] = "open" => DeliveredAs(c, h.tag, h.msg))

(* The batch grows client by client, each with one connection, and is acknowledged after the
   flow has worked on it. *)
OneConn == \A h, k \in Range(hand) : h.from = k.from => h.conn = k.conn

HandsOK ==
    /\ apc \notin {"gather", "work", "ack"} => hand = <<>>
    /\ apc = "gather" => /\ \A h \in Range(hand) : h.from <= at.c
                         /\ OneConn
                         /\ \A h \in Range(hand) : h.from = at.c => link[at.c] # "none" /\ h.conn = connId[at.c]
    /\ apc = "down" => \A c \in Sub : link[c] = "none"
    /\ apc = "work" => at = [c |-> 1, k |-> 1]
    /\ apc = "ack" => /\ \/ at.k \in 1 .. Len(hand)
                         \/ hand = <<>>
                         \/ at.c = NSub /\ at.k = Len(hand) + 1
                      /\ \A h \in Range(hand) : h.msg \in handled

ToAck(c, t, k) ==
    /\ hand[k].from = c /\ hand[k].tag = t /\ hand[k].conn = connId[c]
    /\ apc = "ack" => at.c < c \/ (at.c = c /\ at.k <= k)

Covered(c, t) ==
    \/ \E e \in Range(rawq[c]) : e.tag = t
    \/ decode[sent[c][t]] = "raises"
    \/ \E k \in 1 .. Len(hand) : ToAck(c, t, k)

CoveredOK(c) == link[c] = "open" /\ ~ AmqpC!Shadowed(c) => \A t \in out[c] : Covered(c, t)

SubInv ==
    /\ SubType /\ HandsOK /\ AmqpC!NothingForgotten
    /\ \A c \in Sub : ChannelOK(c) /\ CoveredOK(c)

(* The tags that wait for an acknowledgement, in their order. *)
LEMMA Ranks ==
    ASSUME NEW S \in SUBSET Nat, IsFiniteSet(S)
    PROVE  \A i \in 1 .. Cardinality(S) : \E t \in S : Cardinality({u \in S : u <= t}) = i
<1> DEFINE B(t) == {u \in S : u <= t}
           n == Cardinality(S)
           f == [t \in S |-> Cardinality(B(t))]
<1>1. n \in Nat /\ IsFiniteSet(1 .. n) /\ Cardinality(1 .. n) = n
  BY FS_CardinalityType, FS_Interval
<1>2. ASSUME NEW t \in S PROVE Cardinality(B(t)) \in 1 .. n /\ IsFiniteSet(B(t))
  <2>1. B(t) \in SUBSET S /\ t \in B(t)
    OBVIOUS
  <2> HIDE DEF B
  <2>2. IsFiniteSet(B(t)) /\ Cardinality(B(t)) <= n
    BY <2>1, FS_Subset
  <2>3. Cardinality(B(t)) \in Nat /\ Cardinality(B(t)) # 0
    BY <2>1, <2>2, FS_CardinalityType, FS_EmptySet
  <2> QED BY <1>1, <2>2, <2>3
<1>3. f \in [S -> 1 .. n]
  BY <1>2
<1>4. ASSUME NEW t \in S, NEW u \in S, t < u PROVE f[t] # f[u]
  <2>0. t \in Nat /\ u \in Nat /\ \A x \in S : x \in Nat
    OBVIOUS
  <2>1. B(t) \in SUBSET B(u) /\ u \in B(u) /\ u \notin B(t)
    <3>1. \A x \in S : x <= t => x <= u
      BY <1>4, <2>0
    <3>2. u <= u /\ ~ (u <= t)
      BY <1>4, <2>0
    <3> QED BY <3>1, <3>2
  <2>2. f[t] = Cardinality(B(t)) /\ f[u] = Cardinality(B(u)) /\ IsFiniteSet(B(u))
    BY <1>2
  <2> HIDE DEF B, f
  <2> QED BY <2>1, <2>2, FS_Subset
<1>5. \A t, u \in S : f[t] = f[u] => t = u
  <2> SUFFICES ASSUME NEW t \in S, NEW u \in S, f[t] = f[u] PROVE t = u
    OBVIOUS
  <2> HIDE DEF f
  <2>1. t < u \/ u < t \/ t = u
    OBVIOUS
  <2> QED BY <1>4, <2>1
<1> HIDE DEF f, n
<1>6. f \in Injection(S, 1 .. n)
  BY <1>3, <1>5 DEF Injection, IsInjective
<1>7. f \in Surjection(S, 1 .. n)
  BY <1>1, <1>6, FS_Injection DEF n
<1> QED BY <1>7 DEF Surjection, f, n

(* What goes back to the head of a queue, in its old order, are messages. *)
LEMMA RequeuedFacts == ASSUME SubInv, NEW c \in Sub PROVE AmqpC!Requeued(c) \in Seq(Message)
<1> DEFINE S == out[c]
           place(t) == AmqpC!Cardinality({u \in S : u <= t})
           n == AmqpC!Cardinality(S)
           pick(i) == CHOOSE t \in S : place(t) = i
<1>1. S \subseteq 1 .. Len(sent[c]) /\ sent[c] \in Seq(Message) /\ S \in SUBSET Nat
  BY DEF SubInv, ChannelOK, SubType
<1>2. Len(sent[c]) \in Nat /\ IsFiniteSet(1 .. Len(sent[c]))
  BY <1>1, FS_Interval
<1>0. \A U : AmqpC!Cardinality(U) = Cardinality(U)
  BY Zenon DEF AmqpC!Cardinality, Cardinality
<1>3. IsFiniteSet(S) /\ n \in Nat
  BY <1>0, <1>1, <1>2, FS_Subset, FS_CardinalityType
<1>4. \A i \in 1 .. n : \E t \in S : place(t) = i
  BY <1>0, <1>1, <1>3, Ranks
<1> HIDE DEF place
<1>5. \A i \in 1 .. n : pick(i) \in S
  BY <1>4
<1> HIDE DEF pick
<1>6. \A i \in 1 .. n : sent[c][pick(i)] \in Message
  <2>1. \A j \in 1 .. Len(sent[c]) : sent[c][j] \in Message
    BY <1>1
  <2> QED BY <1>1, <1>5, <2>1
<1>7. [i \in 1 .. n |-> sent[c][pick(i)]] \in Seq(Message)
  BY <1>3, <1>6
<1>8. AmqpC!Requeued(c) = [i \in 1 .. n |-> sent[c][pick(i)]]
  BY DEF AmqpC!Requeued, pick, place
<1> QED BY <1>7, <1>8

(* uuid4: while a client without a connection sets one up, the ids in use are those of the
   clients and those of the messages of the other clients. *)
LEMMA FreshIdFacts ==
    ASSUME SubInv, apc = "gather", link[at.c] = "none"
    PROVE  /\ AmqpC!FreshId \in 1 .. MaxConn
           /\ \A c \in Sub : connId[c] # AmqpC!FreshId
           /\ \A h \in Range(hand) : h.conn # AmqpC!FreshId
<1> DEFINE used == {connId[c] : c \in Sub} \cup {hand[k].conn : k \in DOMAIN hand}
           T == (1 .. 2 * NSub) \ {NSub + at.c}
           Uses(i, j) == \/ j <= NSub /\ connId[j] = i
                         \/ j > NSub /\ \E h \in Range(hand) : h.from = j - NSub /\ h.conn = i
<1>1. NSub \in Nat \ {0} /\ MaxConn \in Nat /\ MaxConn >= 2 * NSub /\ at.c \in 1 .. NSub /\ Sub = 1 .. NSub
  BY ClientsAssumption DEF SubInv, SubType, Sub, AmqpC!Sub
<1>2. Range(hand) \subseteq AmqpC!Handle /\ Range(hand) = {hand[k] : k \in DOMAIN hand}
  BY RangeIn DEF SubInv, SubType, Range
<1>3. \E i \in 1 .. MaxConn : i \notin used
  <2> SUFFICES ASSUME \A i \in 1 .. MaxConn : i \in used PROVE FALSE
    OBVIOUS
  <2>1. ASSUME NEW i \in 1 .. MaxConn PROVE \E j \in T : Uses(i, j)
    <3>1. CASE \E c \in Sub : connId[c] = i
      <4>1. PICK c \in Sub : connId[c] = i
        BY <3>1
      <4>2. c \in T /\ c <= NSub
        BY <1>1
      <4> QED BY <4>1, <4>2
    <3>2. CASE \E h \in Range(hand) : h.conn = i
      <4>1. PICK h \in Range(hand) : h.conn = i
        BY <3>2
      <4>2. h.from \in 1 .. NSub
        BY <1>1, <1>2 DEF AmqpC!Handle, Sub
      <4>3. h.from # at.c
        BY DEF SubInv, HandsOK
      <4>4. NSub + h.from \in T /\ NSub + h.from > NSub /\ (NSub + h.from) - NSub = h.from
        BY <1>1, <4>2, <4>3
      <4> QED BY <4>1, <4>4
    <3> QED BY <1>2, <3>1, <3>2
  <2> DEFINE g == [i \in 1 .. MaxConn |-> CHOOSE j \in T : Uses(i, j)]
  <2>2. \A i \in 1 .. MaxConn : g[i] \in T /\ Uses(i, g[i])
    BY <2>1
  <2>3. g \in [1 .. MaxConn -> T]
    BY <2>2
  <2>4. IsFiniteSet(1 .. MaxConn) /\ Cardinality(1 .. MaxConn) = MaxConn
    BY <1>1, FS_Interval
  <2>5. IsFiniteSet(1 .. 2 * NSub) /\ Cardinality(1 .. 2 * NSub) = 2 * NSub
    BY <1>1, FS_Interval
  <2>6. NSub + at.c \in 1 .. 2 * NSub
    BY <1>1
  <2>7. IsFiniteSet(T) /\ Cardinality(T) = 2 * NSub - 1
    <3> DEFINE U == 1 .. 2 * NSub
               x == NSub + at.c
    <3>1. T = U \ {x} /\ IsFiniteSet(U) /\ Cardinality(U) = 2 * NSub /\ x \in U
      BY <2>5, <2>6
    <3> HIDE DEF T, U, x
    <3> QED BY <3>1, FS_RemoveElement
  <2>8. Cardinality(T) < Cardinality(1 .. MaxConn)
    BY <1>1, <2>4, <2>7
  <2> HIDE DEF g, T, Uses
  <2>9. PICK x, y \in 1 .. MaxConn : x # y /\ g[x] = g[y]
    <3> DEFINE U == 1 .. MaxConn
    <3>1. g \in [U -> T] /\ IsFiniteSet(U) /\ Cardinality(T) < Cardinality(U)
      BY <2>3, <2>4, <2>8
    <3> HIDE DEF U
    <3>2. \E x, y \in U : x # y /\ g[x] = g[y]
      BY <2>7, <3>1, FS_PigeonHole
    <3> QED BY <3>2 DEF U
  <2>10. Uses(x, g[x]) /\ Uses(y, g[x]) /\ g[x] \in T
    BY <2>2, <2>9
  <2>11. CASE g[x] <= NSub
    BY <1>1, <2>9, <2>10, <2>11 DEF Uses, T
  <2>12. CASE g[x] > NSub
    <3>1. PICK h \in Range(hand) : h.from = g[x] - NSub /\ h.conn = x
      BY <1>1, <2>10, <2>12 DEF Uses, T
    <3>2. PICK k \in Range(hand) : k.from = g[x] - NSub /\ k.conn = y
      BY <1>1, <2>10, <2>12 DEF Uses, T
    <3> QED BY <2>9, <3>1, <3>2 DEF SubInv, HandsOK, OneConn
  <2> QED BY <1>1, <2>10, <2>11, <2>12 DEF T
<1>4. AmqpC!FreshId = CHOOSE i \in 1 .. MaxConn : i \notin used
  BY DEF AmqpC!FreshId, Sub
<1> HIDE DEF used
<1>5. AmqpC!FreshId \in 1 .. MaxConn /\ AmqpC!FreshId \notin used
  BY <1>3, <1>4
<1> QED BY <1>2, <1>5 DEF used

(* A step that leaves the connections and the batch as they are. *)
LEMMA SubMove ==
    ASSUME SubInv, UNCHANGED <<link, connId, rawq, hand, bqueue, sent, out, forgotten>>,
           handled \subseteq handled', discarded \subseteq discarded', at' \in [c : Sub, k : Nat], apc' \in Phase,
           HandsOK', apc' = "ack" => (apc = "ack" /\ at' = at) \/ at' = [c |-> 1, k |-> 1]
    PROVE  SubInv'
<1>1. SubType' /\ AmqpC!NothingForgotten'
  BY DEF SubInv, SubType, AmqpC!NothingForgotten
<1>2. \A c \in Sub : ChannelOK(c)'
  BY DEF SubInv, ChannelOK, DeliveredAs
<1>3. ASSUME NEW c \in Sub, NEW t, NEW k \in 1 .. Len(hand), ToAck(c, t, k) PROVE ToAck(c, t, k)'
  <2>1. CASE at' = [c |-> 1, k |-> 1]
    <3>1. at'.c = 1 /\ at'.k = 1 /\ k >= 1 /\ c \in Nat /\ c >= 1
      BY <2>1 DEF Sub, AmqpC!Sub
    <3> QED BY <1>3, <3>1 DEF ToAck
  <2>2. CASE at' # [c |-> 1, k |-> 1]
    BY <1>3, <2>2 DEF ToAck
  <2> QED BY <2>1, <2>2
<1>4. \A c \in Sub : CoveredOK(c)'
  BY <1>3 DEF SubInv, CoveredOK, Covered
<1> QED BY <1>1, <1>2, <1>4 DEF SubInv

(* Connections end: the broker takes back what it holds as delivered on them. *)
LEMMA RequeueStep ==
    ASSUME SubInv, NEW C \in SUBSET Sub, AmqpC!RequeueOf(C), NEW x \in {"none", "broken"},
           link' = [c \in Sub |-> IF c \in C THEN x ELSE link[c]],
           connId' \in [Sub -> 0 .. MaxConn], x = "broken" => connId' = connId /\ \A c \in C : link[c] # "none",
           \A c \in Sub : connId'[c] = connId[c] \/ (c \in C /\ connId'[c] = 0),
           rawq' = rawq, hand' \in Seq(AmqpC!Handle), \A h \in Range(hand') : h.conn # 0 => h \in Range(hand)
    PROVE  /\ link' \in [Sub -> {"none", "open", "broken"}] /\ bqueue' \in [Sub -> Seq(Message)]
           /\ sent' \in [Sub -> Seq(Message)] /\ out' \in [Sub -> SUBSET Nat]
           /\ \A c \in Sub : ChannelOK(c)' /\ (c \in C => link'[c] # "open")
           /\ \A c \in Sub : c \notin C => link'[c] = link[c] /\ connId'[c] = connId[c] /\ sent'[c] = sent[c] /\ out'[c] = out[c]
<1>1. /\ sent' = [c \in Sub |-> IF c \in C THEN <<>> ELSE sent[c]]
      /\ out' = [c \in Sub |-> IF c \in C THEN {} ELSE out[c]]
      /\ bqueue' = [c \in Sub |-> IF c \in C THEN AmqpC!Requeued(c) \o bqueue[c] ELSE bqueue[c]]
  BY DEF AmqpC!RequeueOf, Sub
<1>2. \A c \in Sub : AmqpC!Requeued(c) \o bqueue[c] \in Seq(Message)
  <2> SUFFICES ASSUME NEW c \in Sub PROVE AmqpC!Requeued(c) \o bqueue[c] \in Seq(Message)
    OBVIOUS
  <2>1. AmqpC!Requeued(c) \in Seq(Message) /\ bqueue[c] \in Seq(Message)
    BY RequeuedFacts DEF SubInv, SubType
  <2> QED BY <2>1
<1>3. <<>> \in Seq(Message) /\ Len(<<>>) = 0
  OBVIOUS
<1>4. /\ link' \in [Sub -> {"none", "open", "broken"}] /\ bqueue' \in [Sub -> Seq(Message)]
      /\ sent' \in [Sub -> Seq(Message)] /\ out' \in [Sub -> SUBSET Nat]
  BY <1>1, <1>2, <1>3 DEF SubInv, SubType
<1>5. \A c \in Sub : c \notin C => link'[c] = link[c] /\ connId'[c] = connId[c] /\ sent'[c] = sent[c] /\ out'[c] = out[c]
  BY <1>1
<1>6. \A c \in Sub : c \in C => link'[c] = x /\ sent'[c] = <<>> /\ out'[c] = {}
  BY <1>1
<1>7. \A c, d \in Sub : connId'[c] = connId'[d] /\ connId'[c] # 0 => c = d
  BY DEF SubInv, ChannelOK
<1>8. ASSUME NEW c \in Sub, NEW h \in Range(hand'), h.conn # 0, h.conn = connId'[c]
      PROVE  c = h.from /\ (link'[c] = "open" => DeliveredAs(c, h.tag, h.msg)')
  <2>1. h \in Range(hand) /\ h.conn = connId[c]
    BY <1>8
  <2>2. c = h.from /\ (link[c] = "open" => DeliveredAs(c, h.tag, h.msg))
    BY <1>8, <2>1 DEF SubInv, ChannelOK
  <2> QED BY <1>5, <1>6, <2>2 DEF DeliveredAs
<1>9. ASSUME NEW c \in Sub PROVE ChannelOK(c)'
  <2>1. CASE c \in C
    <3>1. link'[c] # "none" => connId'[c] # 0
      BY <1>6, <2>1 DEF SubInv, ChannelOK
    <3> QED BY <1>3, <1>6, <1>7, <1>8, <2>1, <3>1 DEF ChannelOK
  <2>2. CASE c \notin C
    <3>1. /\ link'[c] # "none" => connId'[c] # 0
          /\ link'[c] # "open" => out'[c] = {} /\ sent'[c] = <<>>
          /\ out'[c] \subseteq 1 .. Len(sent'[c])
          /\ link'[c] = "open" => \A e \in Range(rawq[c]) : DeliveredAs(c, e.tag, e.msg)'
      BY <1>5, <2>2 DEF SubInv, ChannelOK, DeliveredAs
    <3> QED BY <1>7, <1>8, <3>1 DEF ChannelOK
  <2> QED BY <2>1, <2>2
<1> QED BY <1>4, <1>5, <1>6, <1>9

(* The same with the batch, the phase and the position as they are. *)
LEMMA CoveredElsewhere ==
    ASSUME SubInv, NEW C \in SUBSET Sub, UNCHANGED <<rawq, hand>>,
           apc' = "ack" => apc = "ack" /\ at' = at,
           \A c \in Sub : c \in C => link'[c] # "open",
           \A c \in Sub : c \notin C => link'[c] = link[c] /\ connId'[c] = connId[c] /\ sent'[c] = sent[c] /\ out'[c] = out[c]
    PROVE  \A c \in Sub : CoveredOK(c)'
<1> SUFFICES ASSUME NEW c \in Sub, c \notin C PROVE CoveredOK(c)'
  BY DEF CoveredOK
<1>1. \A t, k : ToAck(c, t, k) => ToAck(c, t, k)'
  BY DEF ToAck
<1>2. \A t : Covered(c, t) => Covered(c, t)'
  BY <1>1 DEF Covered
<1> QED BY <1>2 DEF SubInv, CoveredOK

(* The end of newMessages of one client. *)
LEMMA NextClientFacts ==
    ASSUME SubType, apc = "gather", AmqpC!NextClient, hand' \in Seq(AmqpC!Handle),
           \A h \in Range(hand') : h.from <= at.c, OneConn'
    PROVE  at' \in [c : Sub, k : Nat] /\ apc' \in {"gather", "work"} /\ HandsOK'
<1>1. NSub \in Nat \ {0} /\ Sub = 1 .. NSub /\ at.c \in 1 .. NSub
  BY ClientsAssumption DEF SubType, Sub, AmqpC!Sub
<1>2. \A h \in Range(hand') : h.from \in Nat
  <2>1. Range(hand') \subseteq AmqpC!Handle
    BY RangeIn
  <2> QED BY <1>1, <2>1 DEF AmqpC!Handle, Sub
<1>3. CASE at.c < NSub
  <2>1. at' = [c |-> at.c + 1, k |-> 0] /\ apc' = "gather"
    BY <1>3 DEF AmqpC!NextClient
  <2>2. at'.c = at.c + 1 /\ at'.c \in Sub /\ at' \in [c : Sub, k : Nat]
    BY <1>1, <1>3, <2>1
  <2>3. \A h \in Range(hand') : h.from <= at'.c /\ h.from # at'.c
    BY <1>1, <1>2, <2>2
  <2> QED BY <2>1, <2>2, <2>3 DEF HandsOK
<1>4. CASE ~ (at.c < NSub)
  <2>1. at' = [c |-> 1, k |-> 1] /\ apc' = "work"
    BY <1>4 DEF AmqpC!NextClient
  <2>2. at' \in [c : Sub, k : Nat]
    BY <1>1, <2>1
  <2> QED BY <2>1, <2>2 DEF HandsOK
<1> QED BY <1>3, <1>4

(* getNewMessage with a delivery of the client in turn. *)
LEMMA ReceiveFacts ==
    ASSUME SubInv, apc = "gather", NEW c \in Sub, at.c = c, link[c] # "none", NEW m \in Message, NEW t \in Nat,
           NEW O \in SUBSET Nat, AmqpC!Receive(c, m, t, O), UNCHANGED <<link, connId, handled>>
    PROVE  /\ hand' \in Seq(AmqpC!Handle) /\ at' \in [c : Sub, k : Nat] /\ apc' \in {"gather", "work"} /\ HandsOK'
           /\ \A h \in Range(hand') : h \in Range(hand) \/ (h.msg = m /\ h.from = c /\ h.tag = t /\ h.conn = connId[c])
           /\ \A k \in 1 .. Len(hand) : k \in 1 .. Len(hand') /\ hand'[k] = hand[k]
           /\ out' \in [Sub -> SUBSET Nat] /\ out'[c] \subseteq O /\ \A d \in Sub : d # c => out'[d] = out[d]
           /\ t \in out'[c] /\ link[c] = "open" /\ decode[m] # "raises" =>
                 \E k \in 1 .. Len(hand') : hand'[k].from = c /\ hand'[k].tag = t /\ hand'[k].conn = connId[c]
           /\ AmqpC!NothingForgotten'
<1> DEFINE g == [msg |-> m, from |-> c, tag |-> t, conn |-> connId[c]]
           dropped == AmqpC!UnreadableAcked(c, m)
<1>1. hand \in Seq(AmqpC!Handle) /\ Len(hand) \in Nat /\ at \in [c : Sub, k : Nat] /\ c \in Nat /\ connId[c] \in 0 .. MaxConn
  BY ClientsAssumption DEF SubInv, SubType, Sub, AmqpC!Sub
<1>2. g \in AmqpC!Handle /\ g.msg = m /\ g.from = c /\ g.tag = t /\ g.conn = connId[c]
  BY <1>1 DEF AmqpC!Handle, Sub
<1> HIDE DEF g
<1>3. /\ \A h \in Range(hand) : h.from <= c /\ (h.from = c => h.conn = connId[c])
      /\ OneConn
  BY DEF SubInv, HandsOK
<1>4. decode[m] \in {"good", "discarded", "raises"}
  BY ClientsAssumption
<1>5. /\ out' = [out EXCEPT ![c] = IF dropped THEN O \ {t} ELSE O]
      /\ forgotten' = IF dropped THEN forgotten \cup {m} ELSE forgotten
      /\ discarded' = IF dropped THEN discarded \cup {m} ELSE discarded
  BY DEF AmqpC!Receive
<1>6. /\ out' \in [Sub -> SUBSET Nat] /\ out'[c] = (IF dropped THEN O \ {t} ELSE O)
      /\ \A d \in Sub : d # c => out'[d] = out[d]
  BY <1>5 DEF SubInv, SubType
<1>7. AmqpC!NothingForgotten'
  BY <1>5 DEF SubInv, AmqpC!NothingForgotten
<1>8. CASE decode[m] = "good"
  <2>1. hand' = Append(hand, g)
    BY <1>8 DEF AmqpC!Receive, g
  <2>2. hand' \in Seq(AmqpC!Handle) /\ Range(hand') = Range(hand) \cup {g}
    BY <1>1, <1>2, <2>1, RangeFacts
  <2>3. Len(hand') = Len(hand) + 1 /\ hand'[Len(hand) + 1] = g /\ \A k \in 1 .. Len(hand) : hand'[k] = hand[k]
    BY <1>1, <1>2, <2>1
  <2>4. \A k \in 1 .. Len(hand) : k \in 1 .. Len(hand') /\ hand'[k] = hand[k]
    BY <1>1, <2>3
  <2>5. \E k \in 1 .. Len(hand') : hand'[k].from = c /\ hand'[k].tag = t /\ hand'[k].conn = connId[c]
    BY <1>1, <1>2, <2>3
  <2>6. \A h \in Range(hand') : h.from <= c /\ (h.from = c => h.conn = connId[c])
    BY <1>1, <1>2, <1>3, <2>2
  <2>7. OneConn'
    BY <1>2, <1>3, <2>2 DEF OneConn
  <2>8. CASE at.k + 1 < amqpBatch
    <3>1. at' = [at EXCEPT !.k = at.k + 1] /\ apc' = apc
      BY <1>8, <2>8 DEF AmqpC!Receive
    <3>2. at' \in [c : Sub, k : Nat] /\ at'.c = c
      BY <1>1, <3>1
    <3>3. HandsOK'
      BY <2>6, <2>7, <3>1, <3>2 DEF HandsOK
    <3> QED BY <1>2, <1>5, <1>6, <1>7, <2>2, <2>4, <2>5, <3>1, <3>2, <3>3
  <2>9. CASE ~ (at.k + 1 < amqpBatch)
    <3>1. AmqpC!NextClient
      BY <1>8, <2>9 DEF AmqpC!Receive
    <3>2. at' \in [c : Sub, k : Nat] /\ apc' \in {"gather", "work"} /\ HandsOK'
      BY <2>2, <2>6, <2>7, <3>1, NextClientFacts DEF SubInv
    <3> QED BY <1>2, <1>5, <1>6, <1>7, <2>2, <2>4, <2>5, <3>2
  <2> QED BY <2>8, <2>9
<1>9. CASE decode[m] # "good"
  <2>1. hand' = hand /\ AmqpC!NextClient
    BY <1>9 DEF AmqpC!Receive
  <2>2. OneConn'
    BY <1>3, <2>1 DEF OneConn
  <2>3. at' \in [c : Sub, k : Nat] /\ apc' \in {"gather", "work"} /\ HandsOK'
    BY <1>1, <1>3, <2>1, <2>2, NextClientFacts DEF SubInv
  <2>4. ~ (t \in out'[c] /\ link[c] = "open" /\ decode[m] # "raises")
    BY <1>4, <1>6, <1>9 DEF AmqpC!UnreadableAcked
  <2> QED BY <1>1, <1>5, <1>6, <1>7, <2>1, <2>3, <2>4
<1> QED BY <1>8, <1>9

(* The batch, the channel and the queue of deliveries after getNewMessage. *)
LEMMA ReceiveStep ==
    ASSUME SubInv, apc = "gather", NEW c \in Sub, at.c = c, link[c] # "none", NEW m \in Message, NEW t \in Nat,
           NEW O \in SUBSET Nat, AmqpC!Receive(c, m, t, O), UNCHANGED <<link, connId, handled>>,
           bqueue' \in [Sub -> Seq(Message)], sent' \in [Sub -> Seq(Message)], rawq' \in [Sub -> Seq(Pushed)],
           \A d \in Sub : d # c => sent'[d] = sent[d] /\ rawq'[d] = rawq[d],
           \A u \in 1 .. Len(sent[c]) : u \in 1 .. Len(sent'[c]) /\ sent'[c][u] = sent[c][u],
           O \subseteq 1 .. Len(sent'[c]), link[c] # "open" => O = {} /\ sent'[c] = <<>>,
           link[c] = "open" => t \in 1 .. Len(sent'[c]) /\ sent'[c][t] = m,
           \A u \in O : u = t \/ u \in out[c], Range(rawq'[c]) \subseteq Range(rawq[c]),
           \A e \in Range(rawq[c]) : e.tag = t \/ e \in Range(rawq'[c])
    PROVE  SubInv'
<1>1. /\ hand' \in Seq(AmqpC!Handle) /\ at' \in [c : Sub, k : Nat] /\ apc' \in {"gather", "work"} /\ HandsOK'
      /\ \A h \in Range(hand') : h \in Range(hand) \/ (h.msg = m /\ h.from = c /\ h.tag = t /\ h.conn = connId[c])
      /\ \A k \in 1 .. Len(hand) : k \in 1 .. Len(hand') /\ hand'[k] = hand[k]
      /\ out' \in [Sub -> SUBSET Nat] /\ out'[c] \subseteq O /\ \A d \in Sub : d # c => out'[d] = out[d]
      /\ t \in out'[c] /\ link[c] = "open" /\ decode[m] # "raises" =>
            \E k \in 1 .. Len(hand') : hand'[k].from = c /\ hand'[k].tag = t /\ hand'[k].conn = connId[c]
      /\ AmqpC!NothingForgotten'
  BY ReceiveFacts, SMTT(40)
<1>2. out' \in [Sub -> SUBSET Nat] /\ \A d \in Sub : d # c => out'[d] = out[d]
  BY <1>1
<1>3. SubType'
  BY <1>1, <1>2 DEF SubInv, SubType, Phase
<1>4. \A d \in Sub : \A u, x : DeliveredAs(d, u, x) => DeliveredAs(d, u, x)'
  BY DEF DeliveredAs
<1>5. ASSUME NEW d \in Sub PROVE ChannelOK(d)'
  <2>1. \A h \in Range(hand') : h.conn # 0 /\ h.conn = connId[d] =>
            d = h.from /\ (link[d] = "open" => DeliveredAs(d, h.tag, h.msg)')
    <3> SUFFICES ASSUME NEW h \in Range(hand'), h.conn # 0, h.conn = connId[d]
                 PROVE  d = h.from /\ (link[d] = "open" => DeliveredAs(d, h.tag, h.msg)')
      OBVIOUS
    <3>1. CASE h \in Range(hand)
      BY <1>4, <3>1 DEF SubInv, ChannelOK
    <3>2. CASE h.msg = m /\ h.from = c /\ h.tag = t /\ h.conn = connId[c]
      <4>1. d = c
        <5>1. connId[d] = connId[c] /\ connId[d] # 0
          BY <3>2
        <5>2. ChannelOK(d)
          BY DEF SubInv
        <5> QED BY <5>1, <5>2 DEF ChannelOK
      <4> QED BY <3>2, <4>1 DEF DeliveredAs
    <3> QED BY <1>1, <3>1, <3>2
  <2>2. link[d] # "open" => out'[d] = {} /\ sent'[d] = <<>>
    BY <1>1, <1>2, ZenonT(30) DEF SubInv, ChannelOK
  <2>3. out'[d] \subseteq 1 .. Len(sent'[d])
    BY <1>1, <1>2 DEF SubInv, ChannelOK
  <2>4. link[d] = "open" => \A e \in Range(rawq'[d]) : DeliveredAs(d, e.tag, e.msg)'
    BY <1>4 DEF SubInv, ChannelOK
  <2>5. /\ link[d] # "none" => connId[d] # 0
        /\ \A e \in Sub : connId[d] = connId[e] /\ connId[d] # 0 => d = e
    BY DEF SubInv, ChannelOK
  <2> QED BY <2>1, <2>2, <2>3, <2>4, <2>5 DEF ChannelOK
<1>6. \A d \in Sub : \A u, k : k \in 1 .. Len(hand) /\ ToAck(d, u, k) => k \in 1 .. Len(hand') /\ ToAck(d, u, k)'
  BY <1>1 DEF ToAck
<1>7. ASSUME NEW d \in Sub PROVE CoveredOK(d)'
  <2> SUFFICES ASSUME link[d] = "open", ~ AmqpC!Shadowed(d), NEW u \in out'[d] PROVE Covered(d, u)'
    BY DEF CoveredOK
  <2>1. CASE d # c
    <3>1. Covered(d, u)
      BY <1>2, <2>1 DEF SubInv, CoveredOK
    <3> QED BY <1>6, <2>1, <3>1 DEF Covered
  <2>2. CASE d = c /\ u # t
    <3>1. u \in out[c] /\ u \in 1 .. Len(sent[c])
      BY <1>1, <2>2 DEF SubInv, ChannelOK
    <3>2. Covered(c, u)
      BY <2>2, <3>1 DEF SubInv, CoveredOK
    <3> QED BY <1>6, <2>2, <3>1, <3>2 DEF Covered
  <2>3. CASE d = c /\ u = t
    <3>1. CASE decode[m] = "raises"
      BY <2>3, <3>1 DEF Covered
    <3>2. CASE decode[m] # "raises"
      <4>1. PICK k \in 1 .. Len(hand') : hand'[k].from = c /\ hand'[k].tag = t /\ hand'[k].conn = connId[c]
        BY <1>1, <2>3, <3>2
      <4>2. ToAck(c, t, k)'
        BY <1>1, <4>1 DEF ToAck
      <4> QED BY <2>3, <4>1, <4>2 DEF Covered
    <3> QED BY <3>1, <3>2
  <2> QED BY <2>1, <2>2, <2>3
<1> QED BY <1>1, <1>3, <1>5, <1>7 DEF SubInv

(* getSetup: the client in turn has a new connection, or the id of one that was not made. *)
LEMMA SetupStep ==
    ASSUME SubInv, apc = "gather", NEW c \in Sub, at.c = c, link[c] = "none",
           connId' = [connId EXCEPT ![c] = AmqpC!FreshId], NEW x \in {"none", "open"}, link' = [link EXCEPT ![c] = x],
           rawq' = rawq \/ rawq' = [rawq EXCEPT ![c] = <<>>], x = "open" => rawq' = [rawq EXCEPT ![c] = <<>>],
           UNCHANGED <<hand, bqueue, sent, out, forgotten, handled, discarded>>,
           apc' \in {"gather", "work"}, at' \in [c : Sub, k : Nat],
           (apc' = "gather" /\ at' = at) \/ HandsOK'
    PROVE  SubInv'
<1> DEFINE id == AmqpC!FreshId
<1>1. id \in 1 .. MaxConn /\ id # 0 /\ (\A d \in Sub : connId[d] # id) /\ \A h \in Range(hand) : h.conn # id
  BY FreshIdFacts, ClientsAssumption
<1> HIDE DEF id
<1>2. /\ connId' \in [Sub -> 0 .. MaxConn] /\ connId'[c] = id /\ \A d \in Sub : d # c => connId'[d] = connId[d]
      /\ link' \in [Sub -> {"none", "open", "broken"}] /\ link'[c] = x /\ \A d \in Sub : d # c => link'[d] = link[d]
  BY <1>1, ClientsAssumption DEF SubInv, SubType, id
<1>3. /\ rawq' \in [Sub -> Seq(Pushed)] /\ (x = "open" => rawq'[c] = <<>>)
      /\ \A d \in Sub : d # c => rawq'[d] = rawq[d]
  <2>1. <<>> \in Seq(Pushed)
    OBVIOUS
  <2>2. CASE rawq' = [rawq EXCEPT ![c] = <<>>]
    BY <2>1, <2>2 DEF SubInv, SubType
  <2>3. CASE rawq' = rawq /\ x # "open"
    BY <2>3 DEF SubInv, SubType
  <2> QED BY <2>2, <2>3
<1>4. SubType'
  BY <1>2, <1>3 DEF SubInv, SubType, Phase
<1>5. out[c] = {} /\ sent[c] = <<>> /\ Range(<<>>) = {}
  BY DEF SubInv, ChannelOK, Range
<1>6. ASSUME NEW d \in Sub PROVE ChannelOK(d)'
  <2>1. CASE d = c
    BY <1>1, <1>2, <1>3, <1>5, <2>1 DEF ChannelOK
  <2>2. CASE d # c
    <3>1. \A e \in Sub : connId'[d] = connId'[e] /\ connId'[d] # 0 => d = e
      BY <1>1, <1>2, <2>2 DEF SubInv, ChannelOK
    <3>2. /\ link'[d] = link[d] /\ connId'[d] = connId[d] /\ rawq'[d] = rawq[d]
          /\ out'[d] = out[d] /\ sent'[d] = sent[d] /\ hand' = hand
      BY <1>2, <1>3, <2>2
    <3> QED BY <3>1, <3>2 DEF SubInv, ChannelOK, DeliveredAs
  <2> QED BY <2>1, <2>2
<1>7. ASSUME NEW d \in Sub PROVE CoveredOK(d)'
  <2>1. CASE d = c
    BY <1>5, <2>1 DEF CoveredOK
  <2>2. CASE d # c
    <3>1. /\ link'[d] = link[d] /\ connId'[d] = connId[d] /\ rawq'[d] = rawq[d]
          /\ out'[d] = out[d] /\ sent'[d] = sent[d] /\ hand' = hand
      BY <1>2, <1>3, <2>2
    <3>2. \A t, k : ToAck(d, t, k) => ToAck(d, t, k)'
      BY <3>1 DEF ToAck
    <3>3. \A t : Covered(d, t) => Covered(d, t)'
      BY <3>1, <3>2 DEF Covered
    <3> QED BY <3>1, <3>3 DEF SubInv, CoveredOK
  <2> QED BY <2>1, <2>2
<1>8. HandsOK'
  <2>1. CASE apc' = "gather" /\ at' = at
    <3>1. \A h \in Range(hand) : h.from # at.c
      BY DEF SubInv, HandsOK
    <3>2. OneConn'
      BY DEF SubInv, HandsOK, OneConn
    <3> QED BY <2>1, <3>1, <3>2 DEF SubInv, HandsOK
  <2> QED BY <2>1
<1>9. AmqpC!NothingForgotten'
  BY DEF SubInv, AmqpC!NothingForgotten
<1> QED BY <1>4, <1>6, <1>7, <1>8, <1>9 DEF SubInv

(* What close does with the clients C, and what Break does with one. *)
LEMMA CloseStep ==
    ASSUME SubInv, NEW C \in SUBSET Sub, AmqpC!Close(C), UNCHANGED <<rawq, forgotten, handled, discarded>>,
           hand' = hand \/ hand' = <<>>, at' \in [c : Sub, k : Nat], apc' \in Phase, HandsOK',
           apc' = "ack" => apc = "ack" /\ at' = at, hand' = hand \/ C = Sub
    PROVE  SubInv'
<1>1. /\ AmqpC!RequeueOf(C) /\ link' = [c \in Sub |-> IF c \in C THEN "none" ELSE link[c]]
      /\ connId' = [c \in Sub |-> IF c \in C THEN 0 ELSE connId[c]]
  BY DEF AmqpC!Close, Sub
<1>2. connId' \in [Sub -> 0 .. MaxConn] /\ \A c \in Sub : connId'[c] = connId[c] \/ (c \in C /\ connId'[c] = 0)
  BY <1>1, ClientsAssumption DEF SubInv, SubType
<1>3. hand' \in Seq(AmqpC!Handle) /\ \A h \in Range(hand') : h \in Range(hand)
  <2>1. Range(<<>>) = {} /\ <<>> \in Seq(AmqpC!Handle)
    BY DEF Range
  <2> QED BY <2>1 DEF SubInv, SubType
<1>4. /\ link' \in [Sub -> {"none", "open", "broken"}] /\ bqueue' \in [Sub -> Seq(Message)]
      /\ sent' \in [Sub -> Seq(Message)] /\ out' \in [Sub -> SUBSET Nat]
      /\ \A c \in Sub : ChannelOK(c)' /\ (c \in C => link'[c] # "open")
      /\ \A c \in Sub : c \notin C => link'[c] = link[c] /\ connId'[c] = connId[c] /\ sent'[c] = sent[c] /\ out'[c] = out[c]
  BY <1>1, <1>2, <1>3, RequeueStep
<1>5. SubType' /\ AmqpC!NothingForgotten'
  BY <1>2, <1>3, <1>4 DEF SubInv, SubType, AmqpC!NothingForgotten
<1>6. \A c \in Sub : CoveredOK(c)'
  <2>1. CASE hand' = hand
    BY <1>4, <2>1, CoveredElsewhere
  <2>2. CASE C = Sub
    BY <1>4, <2>2 DEF CoveredOK
  <2> QED BY <2>1, <2>2
<1> QED BY <1>4, <1>5, <1>6 DEF SubInv

(* The connection breaks, and the client does not know it yet. *)
LEMMA BreakStep == ASSUME SubInv, NEW b \in Sub, AmqpC!Break(b) PROVE SubInv'
<1> DEFINE C == {b}
<1>1. /\ link[b] = "open" /\ link' = [link EXCEPT ![b] = "broken"] /\ AmqpC!RequeueOf(C)
      /\ UNCHANGED <<apc, at, connId, rawq, hand, handled, discarded, forgotten>>
  BY DEF AmqpC!Break
<1>2. link' = [c \in Sub |-> IF c \in C THEN "broken" ELSE link[c]]
  BY <1>1 DEF SubInv, SubType
<1>3. connId' \in [Sub -> 0 .. MaxConn] /\ hand' \in Seq(AmqpC!Handle) /\ C \in SUBSET Sub /\ (\A c \in C : link[c] # "none")
  BY <1>1 DEF SubInv, SubType
<1>4. /\ link' \in [Sub -> {"none", "open", "broken"}] /\ bqueue' \in [Sub -> Seq(Message)]
      /\ sent' \in [Sub -> Seq(Message)] /\ out' \in [Sub -> SUBSET Nat]
      /\ \A c \in Sub : ChannelOK(c)' /\ (c \in C => link'[c] # "open")
      /\ \A c \in Sub : c \notin C => link'[c] = link[c] /\ connId'[c] = connId[c] /\ sent'[c] = sent[c] /\ out'[c] = out[c]
  BY <1>1, <1>2, <1>3, RequeueStep
<1>5. SubType' /\ AmqpC!NothingForgotten'
  BY <1>1, <1>3, <1>4 DEF SubInv, SubType, AmqpC!NothingForgotten
<1>6. \A c \in Sub : CoveredOK(c)'
  BY <1>1, <1>3, <1>4, CoveredElsewhere
<1>7. HandsOK'
  <2>1. \A c \in Sub : link'[c] = "none" <=> link[c] = "none"
    BY <1>1, <1>4
  <2>2. at.c \in Sub
    BY DEF SubInv, SubType
  <2>3. OneConn => OneConn'
    BY <1>1 DEF OneConn
  <2> QED BY <1>1, <2>1, <2>2, <2>3 DEF SubInv, HandsOK
<1> QED BY <1>4, <1>5, <1>6, <1>7 DEF SubInv

(* ack of the client in turn, for the message in turn. *)
LEMMA AckStep == ASSUME SubInv, AmqpC!Ack PROVE SubInv'
<1>0. PICK c \in Sub, i \in 1 .. Len(hand) : c = at.c /\ i = at.k
  BY DEF AmqpC!Ack, SubInv, SubType
<1> DEFINE h == hand[i]
           dropped == [hand EXCEPT ![i].conn = 0]
<1>1. apc = "ack" /\ UNCHANGED <<apc, rawq, handled, discarded>>
  BY DEF AmqpC!Ack
<1>2. /\ hand \in Seq(AmqpC!Handle) /\ Len(hand) \in Nat /\ h \in AmqpC!Handle /\ h \in Range(hand)
      /\ \A k \in 1 .. Len(hand) : hand[k] \in AmqpC!Handle
      /\ NSub \in Nat \ {0} /\ Sub = 1 .. NSub /\ at \in [c : Sub, k : Nat]
  <2>1. hand \in Seq(AmqpC!Handle) /\ at \in [c : Sub, k : Nat]
    BY DEF SubInv, SubType
  <2>2. Len(hand) \in Nat /\ DOMAIN hand = 1 .. Len(hand) /\ \A k \in 1 .. Len(hand) : hand[k] \in AmqpC!Handle
    BY <2>1
  <2>3. h \in Range(hand)
    BY <2>2 DEF Range
  <2> QED BY <2>1, <2>2, <2>3, ClientsAssumption DEF Sub, AmqpC!Sub
<1>3. hand' = hand \/ hand' = dropped
  BY <1>0, <1>2 DEF AmqpC!Ack, AmqpC!DropAckId
<1>4. /\ dropped \in Seq(AmqpC!Handle) /\ Len(dropped) = Len(hand)
      /\ \A k \in 1 .. Len(hand) : /\ k # i => dropped[k] = hand[k]
                                   /\ dropped[k].msg = hand[k].msg /\ dropped[k].from = hand[k].from /\ dropped[k].tag = hand[k].tag
      /\ dropped[i].conn = 0
  <2> DEFINE x == [h EXCEPT !.conn = 0]
  <2>1. x \in AmqpC!Handle /\ x.msg = h.msg /\ x.from = h.from /\ x.tag = h.tag /\ x.conn = 0
    <3>1. 0 \in 0 .. MaxConn
      BY ClientsAssumption
    <3>2. \A g \in AmqpC!Handle : /\ [g EXCEPT !.conn = 0] \in AmqpC!Handle /\ [g EXCEPT !.conn = 0].msg = g.msg
                                   /\ [g EXCEPT !.conn = 0].from = g.from /\ [g EXCEPT !.conn = 0].tag = g.tag
                                   /\ [g EXCEPT !.conn = 0].conn = 0
      BY <3>1 DEF AmqpC!Handle
    <3> QED BY <1>2, <3>2
  <2> HIDE DEF x
  <2>2. dropped = [hand EXCEPT ![i] = x]
    BY DEF x
  <2>3. dropped \in Seq(AmqpC!Handle) /\ Len(dropped) = Len(hand)
    BY <1>2, <2>1, <2>2
  <2>4. dropped[i] = x /\ \A k \in 1 .. Len(hand) : k # i => dropped[k] = hand[k]
    BY <1>2, <2>2
  <2> QED BY <2>1, <2>3, <2>4
<1> HIDE DEF dropped
<1>5. /\ hand' \in Seq(AmqpC!Handle) /\ Len(hand') = Len(hand)
      /\ \A k \in 1 .. Len(hand) : k # i => hand'[k] = hand[k]
      /\ \A k \in 1 .. Len(hand) : hand'[k].msg = hand[k].msg /\ hand'[k].from = hand[k].from /\ hand'[k].tag = hand[k].tag
      /\ hand' = hand \/ hand'[i].conn = 0
  BY <1>2, <1>3, <1>4
<1>6. Range(hand') = {hand'[k] : k \in 1 .. Len(hand)} /\ Range(hand) = {hand[k] : k \in 1 .. Len(hand)}
  BY <1>2, <1>5, RangeEquality
<1>7. \A x \in Range(hand') : x.conn # 0 => x \in Range(hand)
  BY <1>5, <1>6
<1>8. \A x \in Range(hand') : x.msg \in handled
  BY <1>1, <1>5, <1>6 DEF SubInv, HandsOK
(* The position goes on, past what it has come to. *)
<1>9. /\ at' \in [c : Sub, k : Nat]
      /\ at'.k \in 1 .. Len(hand) \/ (at'.c = NSub /\ at'.k = Len(hand) + 1)
      /\ at'.c > c \/ (at'.c = c /\ at'.k = i + 1)
      /\ at'.c # c => i = Len(hand) /\ at'.c = c + 1 /\ at'.k = 1
  <2>1. CASE i = Len(hand) /\ c = NSub
    <3>1. at' = [at EXCEPT !.k = i + 1]
      BY <1>0, <2>1 DEF AmqpC!Ack
    <3>2. at'.c = c /\ at'.k = i + 1 /\ at' \in [c : Sub, k : Nat]
      BY <1>0, <1>2, <3>1
    <3> QED BY <2>1, <3>2
  <2>2. CASE i # Len(hand)
    <3>1. at' = [at EXCEPT !.k = i + 1]
      BY <1>0, <1>2, <2>2 DEF AmqpC!Ack, AmqpC!NextAck
    <3> QED BY <1>0, <1>2, <2>2, <3>1
  <2>3. CASE i = Len(hand) /\ c # NSub
    <3>1. at' = [c |-> c + 1, k |-> 1]
      BY <1>0, <1>2, <2>3 DEF AmqpC!Ack, AmqpC!NextAck
    <3> QED BY <1>0, <1>2, <2>3, <3>1
  <2> QED BY <2>1, <2>2, <2>3
<1>10. HandsOK'
  BY <1>1, <1>5, <1>8, <1>9 DEF HandsOK
(* What is still to be acknowledged, but for the message in turn. *)
<1>11. ASSUME NEW d \in Sub, NEW t, NEW k \in 1 .. Len(hand), ToAck(d, t, k), connId'[d] = connId[d], d # c \/ k # i, k # i \/ hand' = hand
       PROVE  ToAck(d, t, k)'
  <2>1. hand'[k] = hand[k]
    BY <1>5, <1>11
  <2>2. at'.c < d \/ (at'.c = d /\ at'.k <= k)
    <3>1. c < d \/ (c = d /\ i <= k)
      BY <1>0, <1>1, <1>11 DEF ToAck
    <3>2. CASE c = d /\ i < k
      BY <1>2, <1>9, <3>2
    <3>3. CASE c < d
      BY <1>2, <1>9, <3>3
    <3> QED BY <1>11, <3>1, <3>2, <3>3
  <2> QED BY <1>11, <2>1, <2>2 DEF ToAck
(* The message is not the client's, or its connection is another one. *)
<1>12. CASE /\ UNCHANGED <<link, connId, bqueue, sent, out, forgotten>>
            /\ \/ hand' = hand /\ ~ AmqpC!Asked(c, h)
               \/ AmqpC!Asked(c, h) /\ ~ AmqpC!SameConnection(c, h)
  <2>1. SubType' /\ AmqpC!NothingForgotten'
    BY <1>1, <1>5, <1>9, <1>12 DEF SubInv, SubType, AmqpC!NothingForgotten
  <2>2. \A d \in Sub : ChannelOK(d)'
    BY <1>1, <1>7, <1>12 DEF SubInv, ChannelOK, DeliveredAs
  <2>3. ASSUME NEW d \in Sub PROVE CoveredOK(d)'
    <3> SUFFICES ASSUME link[d] = "open", ~ AmqpC!Shadowed(d), NEW t \in out[d] PROVE Covered(d, t)'
      BY <1>12 DEF CoveredOK
    <3>1. Covered(d, t)
      BY DEF SubInv, CoveredOK
    <3>2. CASE \E k \in 1 .. Len(hand) : ToAck(d, t, k)
      <4>1. PICK k \in 1 .. Len(hand) : ToAck(d, t, k)
        BY <3>2
      <4>2. k # i \/ (d # c /\ hand' = hand)
        <5> SUFFICES ASSUME k = i PROVE d # c /\ hand' = hand
          OBVIOUS
        <5>1. h.from = d /\ h.conn = connId[d] /\ connId[d] # 0
          BY <4>1 DEF ToAck, SubInv, ChannelOK
        <5>2. c < d \/ c = d
          BY <1>0, <1>1, <4>1 DEF ToAck
        <5>3. CASE c = d
          <6>1. AmqpC!Asked(c, h) /\ AmqpC!SameConnection(c, h)
            BY <5>1, <5>3 DEF AmqpC!Asked, AmqpC!SameConnection
          <6> QED BY <1>12, <6>1
        <5>4. CASE c < d
          <6>1. c \in 1 .. d - 1
            BY <1>2, <5>4
          <6>2. ~ AmqpC!Asked(c, h)
            BY <5>1, <6>1 DEF AmqpC!Asked, AmqpC!Shadowed
          <6> QED BY <1>2, <1>12, <5>4, <6>2
        <5> QED BY <5>2, <5>3, <5>4
      <4>3. ToAck(d, t, k)'
        BY <1>11, <1>12, <4>1, <4>2
      <4> QED BY <1>5, <4>3 DEF Covered
    <3> QED BY <1>1, <1>12, <3>1, <3>2 DEF Covered
  <2> QED BY <1>10, <2>1, <2>2, <2>3 DEF SubInv
(* basic_ack on an open connection. *)
<1>13. CASE /\ AmqpC!Asked(c, h) /\ AmqpC!SameConnection(c, h) /\ link[c] = "open"
            /\ out' = [out EXCEPT ![c] = @ \ {h.tag}]
            /\ forgotten' = IF h.tag \in out[c] THEN forgotten \cup {sent[c][h.tag]} ELSE forgotten
            /\ UNCHANGED <<link, connId, bqueue, sent>>
  <2>1. h.conn # 0 /\ h.conn = connId[c]
    BY <1>13 DEF AmqpC!Asked, AmqpC!SameConnection
  <2>2. c = h.from /\ sent[c][h.tag] = h.msg
    BY <1>2, <1>13, <2>1, SMTT(20) DEF SubInv, ChannelOK, DeliveredAs
  <2>3. h.msg \in handled
    BY <1>1, <1>2 DEF SubInv, HandsOK
  <2>4. AmqpC!NothingForgotten'
    BY <1>1, <1>13, <2>2, <2>3 DEF SubInv, AmqpC!NothingForgotten
  <2>5. out' \in [Sub -> SUBSET Nat] /\ out'[c] = out[c] \ {h.tag} /\ \A d \in Sub : d # c => out'[d] = out[d]
    BY <1>13 DEF SubInv, SubType
  <2>6. SubType'
    BY <1>1, <1>5, <1>9, <1>13, <2>5 DEF SubInv, SubType
  <2>7. \A d \in Sub : out'[d] \subseteq out[d]
    BY <2>5
  <2>8. \A d \in Sub : ChannelOK(d)'
    BY <1>1, <1>7, <1>13, <2>7 DEF SubInv, ChannelOK, DeliveredAs
  <2>9. ASSUME NEW d \in Sub PROVE CoveredOK(d)'
    <3> SUFFICES ASSUME link[d] = "open", ~ AmqpC!Shadowed(d), NEW t \in out'[d] PROVE Covered(d, t)'
      BY <1>13 DEF CoveredOK
    <3>1. Covered(d, t)
      BY <2>7 DEF SubInv, CoveredOK
    <3>2. CASE \E k \in 1 .. Len(hand) : ToAck(d, t, k)
      <4>1. PICK k \in 1 .. Len(hand) : ToAck(d, t, k)
        BY <3>2
      <4>2. k # i
        BY <2>2, <2>5, <4>1 DEF ToAck
      <4>3. ToAck(d, t, k)'
        BY <1>11, <1>13, <4>1, <4>2
      <4> QED BY <1>5, <4>3 DEF Covered
    <3> QED BY <1>1, <1>13, <3>1, <3>2 DEF Covered
  <2> QED BY <1>10, <2>4, <2>6, <2>8, <2>9 DEF SubInv
(* On a broken one. *)
<1>14. CASE /\ AmqpC!Asked(c, h) /\ AmqpC!SameConnection(c, h) /\ link[c] = "broken" /\ forgotten' = forgotten
            /\ AmqpC!Close({c}) \/ UNCHANGED <<link, connId, bqueue, sent, out>>
  <2>1. h.conn # 0 /\ h.conn = connId[c] /\ c = h.from
    BY <1>2, <1>14 DEF AmqpC!Asked, AmqpC!SameConnection, SubInv, ChannelOK
  <2>2. /\ link' \in [Sub -> {"none", "open", "broken"}] /\ bqueue' \in [Sub -> Seq(Message)]
        /\ connId' \in [Sub -> 0 .. MaxConn] /\ sent' \in [Sub -> Seq(Message)] /\ out' \in [Sub -> SUBSET Nat]
        /\ \A d \in Sub : ChannelOK(d)' /\ (d = c => link'[d] # "open")
        /\ \A d \in Sub : d # c => link'[d] = link[d] /\ connId'[d] = connId[d] /\ sent'[d] = sent[d] /\ out'[d] = out[d]
    <3>1. CASE UNCHANGED <<link, connId, bqueue, sent, out>>
      <4>1. \A d \in Sub : ChannelOK(d)'
        BY <1>1, <1>7, <3>1 DEF SubInv, ChannelOK, DeliveredAs
      <4> QED BY <1>14, <3>1, <4>1 DEF SubInv, SubType
    <3>2. CASE AmqpC!Close({c})
      <4> DEFINE C == {c}
      <4>1. /\ AmqpC!RequeueOf(C) /\ link' = [d \in Sub |-> IF d \in C THEN "none" ELSE link[d]]
            /\ connId' = [d \in Sub |-> IF d \in C THEN 0 ELSE connId[d]]
        BY <3>2 DEF AmqpC!Close, Sub
      <4>2. connId' \in [Sub -> 0 .. MaxConn] /\ \A d \in Sub : connId'[d] = connId[d] \/ (d \in C /\ connId'[d] = 0)
        BY <4>1, ClientsAssumption DEF SubInv, SubType
      <4>3. C \in SUBSET Sub /\ \A d : d \in C <=> d = c
        OBVIOUS
      <4> HIDE DEF C
      <4>4. /\ link' \in [Sub -> {"none", "open", "broken"}] /\ bqueue' \in [Sub -> Seq(Message)]
            /\ sent' \in [Sub -> Seq(Message)] /\ out' \in [Sub -> SUBSET Nat]
            /\ \A d \in Sub : ChannelOK(d)' /\ (d \in C => link'[d] # "open")
            /\ \A d \in Sub : d \notin C => link'[d] = link[d] /\ connId'[d] = connId[d] /\ sent'[d] = sent[d] /\ out'[d] = out[d]
        BY <1>1, <1>5, <1>7, <4>1, <4>2, <4>3, RequeueStep
      <4> QED BY <4>2, <4>3, <4>4
    <3> QED BY <1>14, <3>1, <3>2
  <2>3. SubType' /\ AmqpC!NothingForgotten'
    BY <1>1, <1>5, <1>9, <1>14, <2>2 DEF SubInv, SubType, AmqpC!NothingForgotten
  <2>4. ASSUME NEW d \in Sub PROVE CoveredOK(d)'
    <3> SUFFICES ASSUME d # c, link[d] = "open", ~ AmqpC!Shadowed(d), NEW t \in out[d] PROVE Covered(d, t)'
      BY <2>2 DEF CoveredOK
    <3>1. Covered(d, t)
      BY DEF SubInv, CoveredOK
    <3>2. CASE \E k \in 1 .. Len(hand) : ToAck(d, t, k)
      <4>1. PICK k \in 1 .. Len(hand) : ToAck(d, t, k)
        BY <3>2
      <4>2. k # i
        BY <2>1, <4>1 DEF ToAck
      <4>3. ToAck(d, t, k)'
        BY <1>11, <2>2, <4>1, <4>2
      <4> QED BY <1>5, <4>3 DEF Covered
    <3> QED BY <1>1, <2>2, <3>1, <3>2 DEF Covered
  <2> QED BY <1>10, <2>2, <2>3, <2>4 DEF SubInv
<1>15. \/ hand' = hand /\ ~ AmqpC!Asked(c, h) /\ UNCHANGED <<link, connId, bqueue, sent, out, forgotten>>
       \/ /\ AmqpC!Asked(c, h) /\ ~ AmqpC!SameConnection(c, h)
          /\ UNCHANGED <<link, connId, bqueue, sent, out, forgotten>>
       \/ /\ AmqpC!Asked(c, h) /\ AmqpC!SameConnection(c, h) /\ link[c] = "open"
          /\ out' = [out EXCEPT ![c] = @ \ {h.tag}]
          /\ forgotten' = IF h.tag \in out[c] THEN forgotten \cup {sent[c][h.tag]} ELSE forgotten
          /\ UNCHANGED <<link, connId, bqueue, sent>>
       \/ /\ AmqpC!Asked(c, h) /\ AmqpC!SameConnection(c, h) /\ link[c] = "broken" /\ forgotten' = forgotten
          /\ AmqpC!Close({c}) \/ UNCHANGED <<link, connId, bqueue, sent, out>>
  BY <1>0 DEF AmqpC!Ack
<1> QED BY <1>12, <1>13, <1>14, <1>15

(* The steps of the loop, and of the others, that leave the connections and the batch alone. *)
LEMMA QuietStep ==
    ASSUME SubInv,
           \/ AmqpC!Gather \/ AmqpC!SetupRefused \/ AmqpC!GetNone \/ AmqpC!Work \/ AmqpC!PleaseStop
           \/ \E c \in Sub : AmqpC!OtherDeclares(c) \/ AmqpC!EboOver(c)
    PROVE  SubInv'
<1>1. /\ hand \in Seq(AmqpC!Handle) /\ Len(hand) \in Nat /\ NSub \in Nat \ {0} /\ Sub = 1 .. NSub
      /\ at \in [c : Sub, k : Nat] /\ apc \in Phase
  BY ClientsAssumption DEF SubInv, SubType, Sub, AmqpC!Sub
<1>2. ASSUME apc = "gather", AmqpC!NextClient, UNCHANGED <<link, connId, rawq, hand, bqueue, sent, out, forgotten, handled, discarded>>
      PROVE  SubInv'
  <2>1. (\A h \in Range(hand) : h.from <= at.c) /\ OneConn'
    BY <1>2 DEF SubInv, HandsOK, OneConn
  <2>2. at' \in [c : Sub, k : Nat] /\ apc' \in {"gather", "work"} /\ HandsOK'
    BY <1>1, <1>2, <2>1, NextClientFacts DEF SubInv
  <2> QED BY <1>2, <2>2, SubMove DEF Phase
<1>3. CASE AmqpC!Gather
  <2>1. /\ apc = "idle" /\ apc' = "gather" /\ at' = [c |-> 1, k |-> 0]
        /\ UNCHANGED <<link, connId, rawq, hand, bqueue, sent, out, forgotten, handled, discarded>>
    BY <1>3 DEF AmqpC!Gather, AmqpC!clientVars, AmqpC!brokerVars
  <2>2. Range(hand) = {}
    BY <2>1 DEF SubInv, HandsOK, Range
  <2>3. HandsOK' /\ at' \in [c : Sub, k : Nat]
    BY <1>1, <2>1, <2>2 DEF HandsOK, OneConn
  <2> QED BY <2>1, <2>3, SubMove DEF Phase
<1>4. CASE AmqpC!SetupRefused
  BY <1>2, <1>4 DEF AmqpC!SetupRefused, AmqpC!clientVars, AmqpC!brokerVars
<1>5. CASE AmqpC!GetNone
  BY <1>2, <1>5 DEF AmqpC!GetNone, AmqpC!clientVars, AmqpC!brokerVars
<1>6. CASE AmqpC!Work
  <2>1. /\ apc = "work" /\ apc' = "ack" /\ at' = at /\ handled' = handled \cup {hand[k].msg : k \in DOMAIN hand}
        /\ UNCHANGED <<link, connId, rawq, hand, bqueue, sent, out, forgotten, discarded>>
    BY <1>6 DEF AmqpC!Work, AmqpC!clientVars, AmqpC!brokerVars
  <2>2. at = [c |-> 1, k |-> 1]
    BY <2>1 DEF SubInv, HandsOK
  <2>3. \A h \in Range(hand) : h.msg \in handled'
    BY <2>1 DEF Range
  <2>4. at'.k = 1 /\ (1 \in 1 .. Len(hand) \/ hand = <<>>)
    BY <1>1, <2>1, <2>2
  <2>5. HandsOK'
    BY <2>1, <2>3, <2>4 DEF HandsOK
  <2> QED BY <1>1, <2>1, <2>2, <2>5, SubMove DEF Phase
<1>7. CASE AmqpC!PleaseStop \/ \E c \in Sub : AmqpC!OtherDeclares(c) \/ AmqpC!EboOver(c)
  <2>1. UNCHANGED <<apc, at, link, connId, rawq, hand, bqueue, sent, out, forgotten, handled, discarded>>
    BY <1>7 DEF AmqpC!PleaseStop, AmqpC!OtherDeclares, AmqpC!EboOver, AmqpC!clientVars, AmqpC!brokerVars
  <2>2. HandsOK'
    BY <2>1 DEF SubInv, HandsOK, OneConn
  <2> QED BY <1>1, <2>1, <2>2, SubMove
<1> QED BY <1>3, <1>4, <1>5, <1>6, <1>7

(* getSetup, as it succeeds and as it fails. *)
LEMMA GetSetupStep == ASSUME SubInv, AmqpC!SetupOK \/ AmqpC!SetupFails PROVE SubInv'
<1>1. PICK c \in Sub : c = at.c
  BY DEF SubInv, SubType
<1>2. apc = "gather" /\ link[c] = "none" /\ hand \in Seq(AmqpC!Handle) /\ at \in [c : Sub, k : Nat] /\ link \in [Sub -> {"none", "open", "broken"}]
  BY <1>1 DEF AmqpC!SetupOK, AmqpC!SetupFails, SubInv, SubType
<1>3. CASE AmqpC!SetupOK
  <2>1. /\ link' = [link EXCEPT ![c] = "open"] /\ connId' = [connId EXCEPT ![c] = AmqpC!FreshId]
        /\ rawq' = [rawq EXCEPT ![c] = <<>>]
        /\ UNCHANGED <<apc, at, hand, bqueue, sent, out, forgotten, handled, discarded>>
    BY <1>1, <1>3 DEF AmqpC!SetupOK
  <2>2. apc' \in {"gather", "work"} /\ at' \in [c : Sub, k : Nat] /\ apc' = "gather" /\ at' = at
    BY <1>2, <2>1
  <2> QED BY <1>1, <1>2, <2>1, <2>2, SetupStep
<1>4. CASE AmqpC!SetupFails
  <2>1. /\ connId' = [connId EXCEPT ![c] = AmqpC!FreshId] /\ AmqpC!NextClient
        /\ UNCHANGED <<link, rawq, hand, bqueue, sent, out, forgotten, handled, discarded>>
    BY <1>1, <1>4 DEF AmqpC!SetupFails, AmqpC!brokerVars
  <2>2. link' = [link EXCEPT ![c] = "none"]
    BY <1>2, <2>1
  <2>3. (\A h \in Range(hand) : h.from <= at.c) /\ OneConn'
    BY <1>2, <2>1 DEF SubInv, HandsOK, OneConn
  <2>4. at' \in [c : Sub, k : Nat] /\ apc' \in {"gather", "work"} /\ HandsOK'
    BY <1>2, <2>1, <2>3, NextClientFacts DEF SubInv
  <2> QED BY <1>1, <1>2, <2>1, <2>2, <2>4, SetupStep
<1> QED BY <1>3, <1>4

(* getNewMessage of the client in turn, with basic_get, from _raw_msg_q, and in the handler of
   its exceptions. *)
LEMMA GetStep == ASSUME SubInv, AmqpC!Get PROVE SubInv'
<1>1. PICK c \in Sub : c = at.c
  BY DEF SubInv, SubType
<1>2. /\ apc = "gather" /\ link[c] = "open" /\ bqueue[c] # <<>>
      /\ bqueue' = [bqueue EXCEPT ![c] = Tail(bqueue[c])]
      /\ sent' = [sent EXCEPT ![c] = Append(sent[c], Head(bqueue[c]))]
      /\ AmqpC!Receive(c, Head(bqueue[c]), Len(sent[c]) + 1, out[c] \cup {Len(sent[c]) + 1})
      /\ UNCHANGED <<link, connId, rawq, handled>>
  BY <1>1 DEF AmqpC!Get, AmqpC!clientVars
<1>3. /\ bqueue[c] \in Seq(Message) /\ sent[c] \in Seq(Message) /\ out[c] \subseteq 1 .. Len(sent[c])
      /\ bqueue \in [Sub -> Seq(Message)] /\ sent \in [Sub -> Seq(Message)] /\ rawq \in [Sub -> Seq(Pushed)]
  BY DEF SubInv, SubType, ChannelOK
<1>4. Head(bqueue[c]) \in Message /\ Tail(bqueue[c]) \in Seq(Message) /\ Len(sent[c]) + 1 \in Nat
  BY <1>2, <1>3
<1>5. PICK m \in Message, t \in Nat : m = Head(bqueue[c]) /\ t = Len(sent[c]) + 1
  BY <1>4
<1>6. PICK O \in SUBSET Nat : O = out[c] \cup {t}
  <2>1. out[c] \in SUBSET Nat
    BY DEF SubInv, SubType
  <2>2. out[c] \cup {t} \in SUBSET Nat
    BY <2>1
  <2> QED BY <2>2
<1>7. AmqpC!Receive(c, m, t, O) /\ sent' = [sent EXCEPT ![c] = Append(sent[c], m)]
  BY <1>2, <1>5, <1>6
<1>8. /\ Append(sent[c], m) \in Seq(Message) /\ Len(Append(sent[c], m)) = t /\ Append(sent[c], m)[t] = m
      /\ \A u \in 1 .. Len(sent[c]) : u \in 1 .. t /\ Append(sent[c], m)[u] = sent[c][u]
      /\ O \subseteq 1 .. t /\ t \in 1 .. t
  BY <1>3, <1>5, <1>6
<1>9. /\ bqueue' \in [Sub -> Seq(Message)] /\ sent' \in [Sub -> Seq(Message)] /\ sent'[c] = Append(sent[c], m)
      /\ \A d \in Sub : d # c => sent'[d] = sent[d]
  BY <1>2, <1>3, <1>4, <1>7, <1>8
<1>10. /\ \A u \in 1 .. Len(sent[c]) : u \in 1 .. Len(sent'[c]) /\ sent'[c][u] = sent[c][u]
       /\ O \subseteq 1 .. Len(sent'[c]) /\ t \in 1 .. Len(sent'[c]) /\ sent'[c][t] = m
       /\ \A u \in O : u = t \/ u \in out[c]
  BY <1>6, <1>8, <1>9
<1>11. /\ link[c] # "none" /\ (link[c] # "open" => O = {} /\ sent'[c] = <<>>)
       /\ \A d \in Sub : d # c => sent'[d] = sent[d] /\ rawq'[d] = rawq[d]
       /\ rawq' \in [Sub -> Seq(Pushed)] /\ Range(rawq'[c]) \subseteq Range(rawq[c])
       /\ \A e \in Range(rawq[c]) : e.tag = t \/ e \in Range(rawq'[c])
  BY <1>2, <1>3, <1>9
<1>12. apc = "gather" /\ at.c = c /\ UNCHANGED <<link, connId, handled>>
  BY <1>1, <1>2
<1> QED BY <1>7, <1>9, <1>10, <1>11, <1>12, ReceiveStep

(* The same from _raw_msg_q of a registered consumer, also after its connection broke. *)
LEMMA GetPushedStep == ASSUME SubInv, AmqpC!GetPushed PROVE SubInv'
<1>1. PICK c \in Sub : c = at.c
  BY DEF SubInv, SubType
<1>2. /\ apc = "gather" /\ link[c] # "none" /\ rawq[c] # <<>> /\ rawq' = [rawq EXCEPT ![c] = Tail(rawq[c])]
      /\ AmqpC!Receive(c, Head(rawq[c]).msg, Head(rawq[c]).tag, out[c])
      /\ UNCHANGED <<link, connId, bqueue, sent, handled>>
  BY <1>1 DEF AmqpC!GetPushed
<1>3. /\ rawq[c] \in Seq(Pushed) /\ out[c] \subseteq 1 .. Len(sent[c]) /\ out[c] \in SUBSET Nat
      /\ bqueue \in [Sub -> Seq(Message)] /\ sent \in [Sub -> Seq(Message)] /\ rawq \in [Sub -> Seq(Pushed)]
      /\ (link[c] # "open" => out[c] = {} /\ sent[c] = <<>>)
      /\ (link[c] = "open" => \A e \in Range(rawq[c]) : DeliveredAs(c, e.tag, e.msg))
  BY DEF SubInv, SubType, ChannelOK
<1>4. /\ Head(rawq[c]) \in Pushed /\ Tail(rawq[c]) \in Seq(Pushed)
      /\ Range(rawq[c]) = {Head(rawq[c])} \cup Range(Tail(rawq[c]))
  BY <1>2, <1>3, RangeFacts
<1>5. PICK x \in Pushed, O \in SUBSET Nat : x = Head(rawq[c]) /\ O = out[c]
  BY <1>3, <1>4
<1>6. x.msg \in Message /\ x.tag \in Nat
  BY DEF Pushed
<1>7. PICK m \in Message, t \in Nat : m = x.msg /\ t = x.tag
  BY <1>6
<1>8. AmqpC!Receive(c, m, t, O)
  BY <1>2, <1>5, <1>7
<1>9. /\ rawq' \in [Sub -> Seq(Pushed)] /\ rawq'[c] = Tail(rawq[c]) /\ \A d \in Sub : d # c => rawq'[d] = rawq[d]
  BY <1>2, <1>3, <1>4
<1>10. link[c] = "open" => t \in 1 .. Len(sent[c]) /\ sent[c][t] = m
  BY <1>3, <1>4, <1>5, <1>7 DEF DeliveredAs
<1>11. Range(rawq'[c]) \subseteq Range(rawq[c]) /\ \A e \in Range(rawq[c]) : e.tag = t \/ e \in Range(rawq'[c])
  BY <1>4, <1>5, <1>7, <1>9
<1>12. /\ bqueue' \in [Sub -> Seq(Message)] /\ sent' \in [Sub -> Seq(Message)]
       /\ \A d \in Sub : d # c => sent'[d] = sent[d] /\ rawq'[d] = rawq[d]
       /\ \A u \in 1 .. Len(sent[c]) : u \in 1 .. Len(sent'[c]) /\ sent'[c][u] = sent[c][u]
       /\ O \subseteq 1 .. Len(sent'[c]) /\ (link[c] # "open" => O = {} /\ sent'[c] = <<>>)
       /\ (link[c] = "open" => t \in 1 .. Len(sent'[c]) /\ sent'[c][t] = m)
       /\ \A u \in O : u = t \/ u \in out[c]
  BY <1>2, <1>3, <1>5, <1>9, <1>10
<1>13. apc = "gather" /\ at.c = c /\ link[c] # "none" /\ UNCHANGED <<link, connId, handled>>
  BY <1>1, <1>2
<1> QED BY <1>8, <1>9, <1>11, <1>12, <1>13, ReceiveStep

(* The handler of the exceptions of getNewMessage. *)
LEMMA GetFailsStep == ASSUME SubInv, AmqpC!GetFails PROVE SubInv'
<1>1. PICK c \in Sub : c = at.c
  BY DEF SubInv, SubType
<1>2. /\ apc = "gather" /\ AmqpC!NextClient /\ UNCHANGED <<rawq, hand, forgotten, handled, discarded>>
      /\ AmqpC!Close({c}) \/ UNCHANGED <<link, connId, bqueue, sent, out>>
  BY <1>1 DEF AmqpC!GetFails, AmqpC!CloseIfStubborn
<1>3. hand' \in Seq(AmqpC!Handle) /\ (\A h \in Range(hand') : h.from <= at.c) /\ OneConn'
  BY <1>2 DEF SubInv, SubType, HandsOK, OneConn
<1>4. at' \in [c : Sub, k : Nat] /\ apc' \in {"gather", "work"} /\ HandsOK'
  BY <1>2, <1>3, NextClientFacts DEF SubInv
<1>5. CASE AmqpC!Close({c})
  <2> DEFINE C == {c}
  <2>1. C \in SUBSET Sub /\ AmqpC!Close(C)
    BY <1>5
  <2> HIDE DEF C
  <2> QED BY <1>2, <1>4, <2>1, CloseStep DEF Phase
<1>6. CASE UNCHANGED <<link, connId, bqueue, sent, out>>
  BY <1>2, <1>4, <1>6, SubMove DEF Phase
<1> QED BY <1>2, <1>5, <1>6

(* The batch leaves memory: ack has come to the end of it for every client. *)
LEMMA PassDoneStep == ASSUME SubInv, AmqpC!PassDone PROVE SubInv'
<1>1. /\ apc = "ack" /\ at.k \notin DOMAIN hand /\ hand' = <<>> /\ apc' = "idle" /\ at' = [c |-> 1, k |-> 0]
      /\ UNCHANGED <<link, connId, rawq, bqueue, sent, out, forgotten, handled, discarded>>
  BY DEF AmqpC!PassDone, AmqpC!clientVars, AmqpC!brokerVars
<1>2. /\ hand \in Seq(AmqpC!Handle) /\ Len(hand) \in Nat /\ NSub \in Nat \ {0} /\ Sub = 1 .. NSub /\ at \in [c : Sub, k : Nat]
  BY ClientsAssumption DEF SubInv, SubType, Sub, AmqpC!Sub
<1>3. Range(<<>>) = {} /\ <<>> \in Seq(AmqpC!Handle) /\ at' \in [c : Sub, k : Nat]
  BY <1>1, <1>2 DEF Range
<1>4. SubType' /\ HandsOK' /\ AmqpC!NothingForgotten'
  BY <1>1, <1>3 DEF SubInv, SubType, HandsOK, AmqpC!NothingForgotten, Phase
<1>5. \A c \in Sub : ChannelOK(c)'
  BY <1>1, <1>3 DEF SubInv, ChannelOK, DeliveredAs
<1>6. ASSUME NEW c \in Sub PROVE CoveredOK(c)'
  <2> SUFFICES ASSUME link[c] = "open", ~ AmqpC!Shadowed(c), NEW t \in out[c] PROVE Covered(c, t)'
    BY <1>1 DEF CoveredOK
  <2>1. Covered(c, t)
    BY DEF SubInv, CoveredOK
  <2>2. ~ \E k \in 1 .. Len(hand) : ToAck(c, t, k)
    <3> SUFFICES ASSUME NEW k \in 1 .. Len(hand), ToAck(c, t, k) PROVE FALSE
      OBVIOUS
    <3>1. at.c < c \/ (at.c = c /\ at.k <= k)
      BY <1>1 DEF ToAck
    <3>2. at.k \in 1 .. Len(hand) \/ hand = <<>> \/ (at.c = NSub /\ at.k = Len(hand) + 1)
      BY <1>1 DEF SubInv, HandsOK
    <3>3. DOMAIN hand = 1 .. Len(hand) /\ Len(<<>>) = 0
      BY <1>2
    <3> QED BY <1>1, <1>2, <3>1, <3>2, <3>3
  <2> QED BY <1>1, <2>1, <2>2 DEF Covered
<1> QED BY <1>4, <1>5, <1>6 DEF SubInv

(* An instance that ends, on_stop or killed, and the next one. *)
LEMMA EndStep == ASSUME SubInv, AmqpC!OnStop \/ AmqpC!Kill PROVE SubInv'
<1>1. /\ apc' = "down" /\ AmqpC!Close(AmqpC!Sub)
      /\ (apc = "idle" /\ hand' = hand) \/ hand' = <<>>
      /\ UNCHANGED <<at, rawq, forgotten, handled, discarded>>
  BY DEF AmqpC!OnStop, AmqpC!Kill
<1>2. hand' = <<>>
  BY <1>1 DEF SubInv, HandsOK
<1>3. \A c \in Sub : link'[c] = "none"
  BY <1>1 DEF AmqpC!Close, Sub
<1>4. HandsOK'
  BY <1>1, <1>2, <1>3 DEF HandsOK
<1>5. at' \in [c : Sub, k : Nat]
  BY <1>1 DEF SubInv, SubType
<1>6. PICK C \in SUBSET Sub : C = Sub
  OBVIOUS
<1>7. AmqpC!Close(C)
  BY <1>1, <1>6 DEF Sub
<1> QED BY <1>1, <1>2, <1>4, <1>5, <1>6, <1>7, CloseStep DEF Phase

(* __init__ of the clients of the next instance. *)
LEMMA RestartStep == ASSUME SubInv, AmqpC!Restart PROVE SubInv'
<1>1. /\ apc = "down" /\ apc' = "idle" /\ at' = [c |-> 1, k |-> 0] /\ rawq' = [c \in Sub |-> <<>>]
      /\ UNCHANGED <<link, connId, hand, bqueue, sent, out, forgotten, handled, discarded>>
  BY DEF AmqpC!Restart, AmqpC!brokerVars, Sub
<1>2. NSub \in Nat \ {0} /\ Sub = 1 .. NSub
  BY ClientsAssumption DEF Sub, AmqpC!Sub
<1>3. hand = <<>> /\ \A c \in Sub : link[c] = "none"
  BY <1>1 DEF SubInv, HandsOK
<1>4. Range(<<>>) = {} /\ <<>> \in Seq(Pushed) /\ at' \in [c : Sub, k : Nat]
  BY <1>1, <1>2 DEF Range
<1>5. SubType' /\ HandsOK' /\ AmqpC!NothingForgotten'
  BY <1>1, <1>3, <1>4 DEF SubInv, SubType, HandsOK, AmqpC!NothingForgotten, Phase
<1>6. \A c \in Sub : ChannelOK(c)' /\ CoveredOK(c)'
  BY <1>1, <1>3, <1>4 DEF SubInv, ChannelOK, CoveredOK, DeliveredAs
<1> QED BY <1>5, <1>6 DEF SubInv

(* A message is published; the broker pushes one to a registered consumer. *)
LEMMA PublishStep == ASSUME SubInv, NEW m \in Message, AmqpC!Publish(m) PROVE SubInv'
<1>1. /\ bqueue' = [bqueue EXCEPT ![subOf[m]] = Append(@, m)]
      /\ UNCHANGED <<apc, at, link, connId, rawq, hand, sent, out, forgotten, handled, discarded>>
  BY DEF AmqpC!Publish
<1>2. subOf[m] \in Sub
  BY ClientsAssumption DEF Sub, AmqpC!Sub
<1>3. bqueue' \in [Sub -> Seq(Message)]
  BY <1>1, <1>2 DEF SubInv, SubType
<1>4. SubType' /\ AmqpC!NothingForgotten' /\ HandsOK'
  BY <1>1, <1>3 DEF SubInv, SubType, AmqpC!NothingForgotten, HandsOK, OneConn
<1>5. \A c \in Sub : ChannelOK(c)'
  BY <1>1 DEF SubInv, ChannelOK, DeliveredAs
<1>6. \A c \in Sub : CoveredOK(c)'
  BY <1>1 DEF SubInv, CoveredOK, Covered, ToAck
<1> QED BY <1>4, <1>5, <1>6 DEF SubInv

(* The broker pushes a delivery to a registered consumer. *)
LEMMA PushStep == ASSUME SubInv, NEW c \in Sub, AmqpC!Push(c) PROVE SubInv'
<1>1. /\ link[c] = "open" /\ bqueue[c] # <<>>
      /\ bqueue' = [bqueue EXCEPT ![c] = Tail(bqueue[c])]
      /\ sent' = [sent EXCEPT ![c] = Append(sent[c], Head(bqueue[c]))]
      /\ out' = [out EXCEPT ![c] = out[c] \cup {Len(sent[c]) + 1}]
      /\ rawq' = [rawq EXCEPT ![c] = Append(rawq[c], [tag |-> Len(sent[c]) + 1, msg |-> Head(bqueue[c])])]
      /\ UNCHANGED <<apc, at, link, connId, hand, forgotten, handled, discarded>>
  BY DEF AmqpC!Push
<1>2. /\ bqueue \in [Sub -> Seq(Message)] /\ sent \in [Sub -> Seq(Message)] /\ rawq \in [Sub -> Seq(Pushed)]
      /\ out \in [Sub -> SUBSET Nat] /\ out[c] \subseteq 1 .. Len(sent[c])
  BY DEF SubInv, SubType, ChannelOK
<1>3. Head(bqueue[c]) \in Message /\ Tail(bqueue[c]) \in Seq(Message) /\ Len(sent[c]) \in Nat /\ sent[c] \in Seq(Message)
  BY <1>1, <1>2
<1>4. PICK m \in Message, t \in Nat : m = Head(bqueue[c]) /\ t = Len(sent[c]) + 1
  BY <1>3
<1>5. PICK e \in Pushed : e = [tag |-> t, msg |-> m] /\ e.tag = t /\ e.msg = m
  <2>1. [tag |-> t, msg |-> m] \in Pushed
    BY DEF Pushed
  <2> QED BY <2>1
<1>6. /\ bqueue' \in [Sub -> Seq(Message)] /\ sent'[c] = Append(sent[c], m) /\ out'[c] = out[c] \cup {t}
      /\ rawq'[c] = Append(rawq[c], e) /\ sent' \in [Sub -> Seq(Message)] /\ out' \in [Sub -> SUBSET Nat]
      /\ rawq' \in [Sub -> Seq(Pushed)]
      /\ \A d \in Sub : d # c => sent'[d] = sent[d] /\ out'[d] = out[d] /\ rawq'[d] = rawq[d]
  <2>1. Append(sent[c], m) \in Seq(Message) /\ out[c] \cup {t} \in SUBSET Nat /\ Append(rawq[c], e) \in Seq(Pushed)
    BY <1>2
  <2> QED BY <1>1, <1>2, <1>3, <1>4, <1>5, <2>1
<1>7. /\ Len(sent'[c]) = t /\ sent'[c][t] = m /\ t \in 1 .. t
      /\ \A u \in 1 .. Len(sent[c]) : u \in 1 .. t /\ sent'[c][u] = sent[c][u]
      /\ out'[c] \subseteq 1 .. Len(sent'[c])
  BY <1>2, <1>3, <1>4, <1>6
<1>8. Range(rawq'[c]) = Range(rawq[c]) \cup {e}
  <2>1. rawq[c] \in Seq(Pushed)
    BY <1>2
  <2> QED BY <1>6, <2>1, RangeFacts
<1>9. SubType' /\ AmqpC!NothingForgotten'
  BY <1>1, <1>6 DEF SubInv, SubType, AmqpC!NothingForgotten
<1>10. HandsOK'
  BY <1>1 DEF SubInv, HandsOK, OneConn
<1>11. \A d \in Sub : \A u, x : DeliveredAs(d, u, x) => DeliveredAs(d, u, x)'
  BY <1>6, <1>7 DEF DeliveredAs
<1>12. ASSUME NEW d \in Sub PROVE ChannelOK(d)'
  <2>1. link[d] # "open" => out'[d] = {} /\ sent'[d] = <<>>
    BY <1>1, <1>6 DEF SubInv, ChannelOK
  <2>2. out'[d] \subseteq 1 .. Len(sent'[d])
    BY <1>6, <1>7 DEF SubInv, ChannelOK
  <2>3. ASSUME link[d] = "open", NEW r \in Range(rawq'[d]) PROVE DeliveredAs(d, r.tag, r.msg)'
    <3>1. CASE r \in Range(rawq[d])
      BY <1>11, <2>3, <3>1 DEF SubInv, ChannelOK
    <3>2. CASE d = c /\ r = e
      BY <1>5, <1>7, <3>2 DEF DeliveredAs
    <3> QED BY <1>6, <1>8, <2>3, <3>1, <3>2
  <2>4. \A h \in Range(hand) : h.conn # 0 /\ h.conn = connId[d] => d = h.from /\ (link[d] = "open" => DeliveredAs(d, h.tag, h.msg)')
    BY <1>11 DEF SubInv, ChannelOK
  <2>5. (link[d] # "none" => connId[d] # 0) /\ \A b \in Sub : connId[d] = connId[b] /\ connId[d] # 0 => d = b
    BY DEF SubInv, ChannelOK
  <2> QED BY <1>1, <2>1, <2>2, <2>3, <2>4, <2>5 DEF ChannelOK
<1>13. ASSUME NEW d \in Sub PROVE CoveredOK(d)'
  <2> SUFFICES ASSUME link[d] = "open", ~ AmqpC!Shadowed(d), NEW u \in out'[d] PROVE Covered(d, u)'
    BY <1>1 DEF CoveredOK
  <2>1. \A k : ToAck(d, u, k) => ToAck(d, u, k)'
    BY <1>1 DEF ToAck
  <2>2. CASE d # c
    <3>1. Covered(d, u)
      BY <1>6, <2>2 DEF SubInv, CoveredOK
    <3> QED BY <1>1, <1>6, <2>1, <2>2, <3>1 DEF Covered
  <2>3. CASE d = c /\ u \in out[c]
    <3>1. Covered(d, u) /\ u \in 1 .. Len(sent[c])
      BY <1>2, <2>3 DEF SubInv, CoveredOK
    <3>2. sent'[c][u] = sent[c][u]
      BY <1>7, <3>1
    <3> QED BY <1>1, <1>8, <2>1, <2>3, <3>1, <3>2 DEF Covered
  <2>4. CASE d = c /\ u = t
    BY <1>5, <1>8, <2>4 DEF Covered
  <2> QED BY <1>6, <2>2, <2>3, <2>4
<1> QED BY <1>9, <1>10, <1>12, <1>13 DEF SubInv

(* The actions of the consumer. *)
LEMMA SubStep == ASSUME SubInv, [AmqpC!Consumer]_amqpSubVars PROVE SubInv'
<1>1. CASE UNCHANGED amqpSubVars
  <2>1. UNCHANGED <<apc, at, link, connId, rawq, hand, bqueue, sent, out, forgotten, handled, discarded>>
    BY <1>1 DEF amqpSubVars
  <2>2. HandsOK' /\ at' \in [c : Sub, k : Nat] /\ apc' \in Phase
    BY <2>1 DEF SubInv, SubType, HandsOK, OneConn
  <2> QED BY <2>1, <2>2, SubMove
<1>2. CASE AmqpC!Step
  BY <1>2, QuietStep, GetSetupStep, GetStep, GetPushedStep, GetFailsStep, AckStep, PassDoneStep, EndStep DEF AmqpC!Step
<1>3. CASE AmqpC!PleaseStop \/ AmqpC!Kill \/ AmqpC!Restart \/ \E m \in Message : AmqpC!Publish(m)
  BY <1>3, QuietStep, EndStep, RestartStep, PublishStep
<1>4. CASE \E c \in AmqpC!Sub : AmqpC!Break(c) \/ AmqpC!Push(c) \/ AmqpC!OtherDeclares(c) \/ AmqpC!EboOver(c)
  BY <1>4, BreakStep, PushStep, QuietStep DEF Sub
<1> QED BY <1>1, <1>2, <1>3, <1>4 DEF AmqpC!Consumer

(* The consumers of the two AMQP clients, and the one of the MQTT client. *)
LEMMA ConsumersInvariant == Spec => [](SubInv /\ LinkInv)
<1>1. Init => SubInv /\ LinkInv
  <2>0. /\ \A x \in {"off", "idle"} : x \notin {"connect", "take", "ack", "gather", "work", "down"}
        /\ Range(<<>>) = {} /\ NSub \in Nat \ {0} /\ Sub = 1 .. NSub /\ 1 \in Sub
    BY ClientsAssumption DEF Range, Sub, AmqpC!Sub
  <2>1. ASSUME NEW pc \in {"off", "idle"}, AmqpC!InitAsConsumer(pc) PROVE SubInv
    <3>1. /\ apc = pc /\ at = [c |-> 1, k |-> 0] /\ link = [c \in Sub |-> "none"] /\ connId = [c \in Sub |-> 0]
          /\ rawq = [c \in Sub |-> <<>>] /\ hand = <<>> /\ bqueue = [c \in Sub |-> <<>>]
          /\ sent = [c \in Sub |-> <<>>] /\ out = [c \in Sub |-> {}] /\ forgotten = {}
      BY <2>1 DEF AmqpC!InitAsConsumer, Sub
    <3>2. /\ at \in [c : Sub, k : Nat] /\ 0 \in 0 .. MaxConn
          /\ \A S : <<>> \in Seq(S)
      BY <2>0, <3>1, ClientsAssumption
    <3>3. SubType
      BY <2>1, <3>1, <3>2 DEF SubType, Phase
    <3>4. HandsOK /\ AmqpC!NothingForgotten
      BY <2>0, <2>1, <3>1 DEF HandsOK, AmqpC!NothingForgotten
    <3>5. \A c \in Sub : ChannelOK(c) /\ CoveredOK(c)
      BY <2>0, <3>1 DEF ChannelOK, CoveredOK
    <3> QED BY <3>3, <3>4, <3>5 DEF SubInv
  <2>2. ASSUME NEW pc \in {"off", "idle"}, Amq1C!InitAsConsumer(pc) PROVE LinkInv
    <3>1. /\ qpc = pc /\ qhand = <<>> /\ made = 0 /\ current = 0 /\ settled = {}
          /\ receiver = [r \in Receiver |-> Amq1C!NewReceiver]
      BY <2>2 DEF Amq1C!InitAsConsumer, Receiver
    <3>2. \A S : <<>> \in Seq(S)
      OBVIOUS
    <3>3. /\ Amq1C!NewReceiver \in Link /\ Amq1C!NewReceiver.pending = {}
          /\ Amq1C!NewReceiver.msgq = <<>> /\ Amq1C!NewReceiver.ackq = <<>>
      BY <3>2 DEF Amq1C!NewReceiver, Link
    <3>4. \A r \in Receiver : LinkOK(r)
      BY <2>0, <3>1, <3>3 DEF LinkOK
    <3>5. made \in 0 .. MaxReceiver /\ current \in 0 .. made
      BY <3>1, ClientsAssumption
    <3>6. LinkType
      BY <2>0, <3>1, <3>2, <3>3, <3>5 DEF LinkType
    <3>7. qpc # "ack" /\ Range(qhand) = {}
      BY <2>0, <3>1
    <3> QED BY <3>1, <3>4, <3>6, <3>7 DEF LinkInv
  <2> QED BY <2>1, <2>2 DEF Init, AmqpC!InitAs, Amq1C!InitAs
<1>2. (SubInv /\ LinkInv) /\ [Next]_<<role, clients>> => (SubInv /\ LinkInv)'
  BY ClientSteps, SubStep, LinkStep
<1> QED BY <1>1, <1>2, PTL DEF Spec

(* The consumer of the MQTT client. *)
LEMMA SessionInvariant == ASSUME NoWrap PROVE Spec => [](SessInv /\ WindowInv)
<1>1. Init => SessInv /\ WindowInv
  <2>1. ASSUME NEW pc \in {"off", "idle"}, MqttS!InitAs(pc) PROVE SessInv /\ WindowInv
    <3>1. /\ spc = pc /\ prevMid = 0 /\ waiting = SubMessage /\ inflight = {} /\ rx = <<>> /\ batch = <<>> /\ sforgotten = {}
      BY <2>1 DEF MqttS!InitAs
    <3>2. SubMessage \in Seq(MqttS!Msg) /\ Len(SubMessage) \in Nat
      BY ClientsAssumption DEF MqttS!Msg
    <3>3. SessInv
      BY <2>1, <3>1, <3>2 DEF SessInv
    <3> QED BY <3>1, <3>3 DEF WindowInv
  <2> QED BY <2>1 DEF Init
<1>2. (SessInv /\ WindowInv) /\ [Next]_<<role, clients>> => (SessInv /\ WindowInv)'
  BY ClientSteps, SessStep, WindowStep
<1> QED BY <1>1, <1>2, PTL DEF Spec

(* The AMQP clients: between passes, what the broker holds as delivered on a live connection
   waits in the client to be gathered or acknowledged, but for the messages whose decoding
   raised and the subscriptions that share a broker with an earlier one (newMessages and ack
   of the callback, ack of moth/amqp.py), and no link credit leaks (moth/amq1.py, msg_q and
   ack_q); and neither broker removes a message that no instance has worked on or found
   unreadable, but for those that a tag of another receiver named. *)
AmqpConsumed ==
    AmqpC!NothingForgotten /\ Amq1C!NothingForgotten /\ AckedUnlessShadowed /\ NoCreditLeak

(* As AmqpConsumed says, for every set of messages, subscriptions and receivers. *)
THEOREM AllAmqpConsumed == Spec => []AmqpConsumed
<1>1. ASSUME SubInv, LinkInv PROVE AmqpConsumed
  <2>1. AmqpC!NothingForgotten /\ Amq1C!NothingForgotten
    BY <1>1 DEF SubInv, LinkInv, Amq1C!NothingForgotten
  <2>2. AckedUnlessShadowed
    <3> SUFFICES ASSUME apc = "idle", NEW c \in Sub, link[c] = "open", NEW t \in out[c]
                 PROVE  \/ \E i \in DOMAIN rawq[c] : rawq[c][i].tag = t
                        \/ decode[sent[c][t]] = "raises"
                        \/ AmqpC!Shadowed(c)
      BY DEF AckedUnlessShadowed, AmqpC!AckedUnlessShadowed, Sub
    <3> SUFFICES ASSUME ~ AmqpC!Shadowed(c), decode[sent[c][t]] # "raises"
                 PROVE  \E i \in DOMAIN rawq[c] : rawq[c][i].tag = t
      OBVIOUS
    <3>1. hand = <<>> /\ Len(<<>>) = 0
      BY <1>1 DEF SubInv, HandsOK
    <3>2. Covered(c, t)
      BY <1>1 DEF SubInv, CoveredOK
    <3>3. PICK e \in Range(rawq[c]) : e.tag = t
      BY <3>1, <3>2 DEF Covered
    <3> QED BY <3>3 DEF Range
  <2>3. NoCreditLeak
    <3> SUFFICES ASSUME qpc = "idle", current # 0, NEW p \in receiver[current].pending
                 PROVE  \/ \E i \in DOMAIN receiver[current].ackq : receiver[current].ackq[i].tag = p.tag
                        \/ \E i \in DOMAIN receiver[current].msgq : receiver[current].msgq[i].tag = p.tag
      BY DEF NoCreditLeak, Amq1C!NoCreditLeak
    <3>1. Range(qhand) = {}
      BY <1>1 DEF LinkInv, LinkType, Range
    <3>2. Listed(p.tag)
      BY <1>1 DEF LinkInv
    <3> QED BY <3>1, <3>2 DEF Listed, Range
  <2> QED BY <2>1, <2>2, <2>3 DEF AmqpConsumed
<1>2. SubInv /\ LinkInv => AmqpConsumed
  BY <1>1
<1> QED BY <1>2, ConsumersInvariant, PTL

(* Consumed, for the three clients: that of MQTT has one session, which the broker keeps over
   lost connections, in which a message is acknowledged by its packet id (ack of moth/mqtt.py),
   and from whose live connection only a newMessages that raises loses deliveries. *)
THEOREM AllConsumed == ASSUME NoWrap PROVE Spec => []Consumed
<1>1. AmqpConsumed /\ SessInv /\ WindowInv => Consumed
  BY WindowInvIs DEF AmqpConsumed, SessInv, Consumed, NothingForgotten, MqttS!NothingForgotten
<1> QED BY <1>1, AllAmqpConsumed, SessionInvariant, PTL
====
