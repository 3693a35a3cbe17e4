------------------------------- MODULE Amqp --------------------------------
(***************************************************************************)
(* The AMQP client (moth/amqp.py, and moth/amqpconsumer.py, the variant    *)
(* with a registered consumer), one class for both sides.                  *)
(*                                                                         *)
(* A consumer, as the message callback uses it: one instance with a client *)
(* per subscription gathers a batch from each, works on it and             *)
(* acknowledges it.  The clients meet a broker whose connections can break *)
(* at any time.                                                            *)
(*                                                                         *)
(* A publisher: putNewMessage in transaction mode, for a caller that posts *)
(* again what was refused, over a connection that can break between any    *)
(* two frames.                                                             *)
(***************************************************************************)
EXTENDS Naturals, FiniteSets, Sequences, SequencesExt

CONSTANTS
    Message,      \* what is published
    NSub,         \* subscriptions; clients 1..NSub, in the order of self.consumers
    subOf,        \* the subscription whose queue a message is routed to
    brokerOf,     \* host and vhost of each subscription
    decode,       \* what _msgRawToDict makes of a message
    AmqpOptions,  \* settings: [consumer, stubborn, lead]
    amqpBatch,    \* messages per call of newMessages
    amqpPrefetch, \* deliveries the broker leaves unacknowledged, for a registered consumer
    MaxConn,      \* connection ids that can be in use at once
    MaxAmqpFaults \* bound: broken links, failing set-ups, kills

Sub == 1 .. NSub
Decoding == {"good", "discarded", "raises"}

VARIABLES
    aopt,      \* the settings
    apc,       \* "off", "idle", "gather", "work", "ack", "down"
    at,        \* [c, k]: the client, and the message of the batch, in turn
    link,      \* connection: None, open, or broken and not yet noticed
    connId,    \* connection_id; 0 is None, and then broker is None too
    tooSoon,   \* time.time() < next_connect_time
    rawq,      \* _raw_msg_q of a registered consumer
    hand,      \* the batch: messages with their ack_id
    stopping,  \* _stop_requested
    bqueue,    \* broker: messages waiting in each queue
    sent,      \* broker: deliveries on the channel of each client, by tag
    out,       \* broker: delivery tags that are not acknowledged
    declared,  \* broker: the queue exists and is bound
    amqpFaults,
    handled,   \* history: messages worked on
    discarded, \* history: messages dropped as undecodable or invalid
    forgotten  \* history: messages the broker has removed from its queues

subVars == <<aopt, apc, at, link, connId, tooSoon, rawq, hand, stopping, bqueue,
          sent, out, declared, amqpFaults, handled, discarded, forgotten>>
clientVars == <<link, connId, tooSoon, rawq>>
brokerVars == <<bqueue, sent, out, declared, forgotten>>

Handle == [msg : Message, from : Sub, tag : Nat, conn : 0 .. MaxConn]

ConsumerTypeOK ==
    /\ aopt \in AmqpOptions
    /\ apc \in {"off", "idle", "gather", "work", "ack", "down"}
    /\ at \in [c : Sub, k : Nat]
    /\ link \in [Sub -> {"none", "open", "broken"}]
    /\ connId \in [Sub -> 0 .. MaxConn]
    /\ tooSoon \in [Sub -> BOOLEAN]
    /\ rawq \in [Sub -> Seq([tag : Nat, msg : Message])]
    /\ hand \in Seq(Handle)
    /\ stopping \in BOOLEAN
    /\ bqueue \in [Sub -> Seq(Message)]
    /\ sent \in [Sub -> Seq(Message)]
    /\ out \in [Sub -> SUBSET Nat]
    /\ declared \in [Sub -> BOOLEAN]
    /\ amqpFaults \in 0 .. MaxAmqpFaults
    /\ {handled, discarded, forgotten} \subseteq SUBSET Message

-----------------------------------------------------------------------------
(* The broker, as the client uses it. *)

Here(c) == {bqueue[c][i] : i \in DOMAIN bqueue[c]} \cup {sent[c][t] : t \in out[c]}

(* A publisher's message reaches a bound queue, once. *)
Publish(m) ==
    LET c == subOf[m] IN
    /\ apc # "off"
    /\ declared[c]
    /\ m \notin Here(c) \cup forgotten
    /\ bqueue' = [bqueue EXCEPT ![c] = Append(@, m)]
    /\ UNCHANGED <<aopt, apc, at, link, connId, tooSoon, rawq, hand, stopping,
                   sent, out, declared, amqpFaults, handled, discarded, forgotten>>

(* What was delivered on a connection that ends, and not acknowledged, goes
   back to the head of the queue in its old order. *)
Requeued(c) == LET place(t) == Cardinality({u \in out[c] : u <= t})
               IN  [i \in 1 .. Cardinality(out[c]) |-> sent[c][CHOOSE t \in out[c] : place(t) = i]]

RequeueOf(C) ==
    /\ bqueue' = [c \in Sub |-> IF c \in C THEN Requeued(c) \o bqueue[c] ELSE bqueue[c]]
    /\ sent' = [c \in Sub |-> IF c \in C THEN <<>> ELSE sent[c]]
    /\ out' = [c \in Sub |-> IF c \in C THEN {} ELSE out[c]]

(* The connection breaks; the client finds out when it uses it. *)
Break(c) ==
    /\ link[c] = "open"
    /\ amqpFaults < MaxAmqpFaults
    /\ amqpFaults' = amqpFaults + 1
    /\ link' = [link EXCEPT ![c] = "broken"]
    /\ RequeueOf({c})
    /\ UNCHANGED <<aopt, apc, at, connId, tooSoon, rawq, hand, stopping,
                   declared, handled, discarded, forgotten>>

(* basic_consume: the broker pushes deliveries up to the prefetch count. *)
Push(c) ==
    /\ aopt.consumer
    /\ link[c] = "open"
    /\ declared[c]
    /\ bqueue[c] # <<>>
    /\ Cardinality(out[c]) < amqpPrefetch
    /\ bqueue' = [bqueue EXCEPT ![c] = Tail(@)]
    /\ sent' = [sent EXCEPT ![c] = Append(@, Head(bqueue[c]))]
    /\ out' = [out EXCEPT ![c] = @ \cup {Len(sent[c]) + 1}]
    /\ rawq' = [rawq EXCEPT ![c] = Append(@, [tag |-> Len(sent[c]) + 1,
                                                msg |-> Head(bqueue[c])])]
    /\ UNCHANGED <<aopt, apc, at, link, connId, tooSoon, hand, stopping,
                   declared, amqpFaults, handled, discarded, forgotten>>

(* Where this instance is not the first one, the first one declares. *)
OtherDeclares(c) ==
    /\ apc # "off"
    /\ ~aopt.lead
    /\ ~declared[c]
    /\ declared' = [declared EXCEPT ![c] = TRUE]
    /\ UNCHANGED <<aopt, apc, at, link, connId, tooSoon, rawq, hand, stopping,
                   bqueue, sent, out, amqpFaults, handled, discarded, forgotten>>

-----------------------------------------------------------------------------
(* The clients. *)

(* close: connection, connection_id and broker become None; the broker takes
   back what was not acknowledged on an open connection. *)
Close(C) ==
    /\ link' = [c \in Sub |-> IF c \in C THEN "none" ELSE link[c]]
    /\ connId' = [c \in Sub |-> IF c \in C THEN 0 ELSE connId[c]]
    /\ RequeueOf(C)

(* The end of newMessages of one client: the next one, or the end of gather. *)
NextClient ==
    IF at.c < NSub
    THEN at' = [c |-> at.c + 1, k |-> 0] /\ UNCHANGED apc
    ELSE at' = [c |-> 1, k |-> 1] /\ apc' = "work"

(* uuid4: an id nothing refers to. *)
FreshId == CHOOSE i \in 1 .. MaxConn :
              i \notin {connId[c] : c \in Sub} \cup {hand[k].conn : k \in DOMAIN hand}

(* getSetup returns at once when a stop is requested or after a recent failure. *)
SetupRefused ==
    /\ apc = "gather"
    /\ link[at.c] = "none"
    /\ stopping \/ tooSoon[at.c]
    /\ NextClient
    /\ UNCHANGED <<aopt, clientVars, hand, stopping, brokerVars, amqpFaults,
                   handled, discarded>>

(* getSetup raises somewhere after connection_id was set: setEbo, and
   connection is None, but connection_id and broker are those of the attempt. *)
SetupFails ==
    LET c == at.c IN
    /\ apc = "gather"
    /\ link[c] = "none"
    /\ ~stopping /\ ~tooSoon[c]
    /\ amqpFaults < MaxAmqpFaults
    /\ amqpFaults' = amqpFaults + 1
    /\ connId' = [connId EXCEPT ![c] = FreshId]
    /\ tooSoon' = [tooSoon EXCEPT ![c] = TRUE]
    /\ NextClient
    /\ UNCHANGED <<aopt, link, rawq, hand, stopping, brokerVars, handled, discarded>>

(* getSetup: __connect, and for the first instance _queueDeclare and the
   bindings.  getNewMessage goes on with the new channel. *)
SetupOK ==
    LET c == at.c IN
    /\ apc = "gather"
    /\ link[c] = "none"
    /\ ~stopping /\ ~tooSoon[c]
    /\ link' = [link EXCEPT ![c] = "open"]
    /\ connId' = [connId EXCEPT ![c] = FreshId]
    /\ rawq' = [rawq EXCEPT ![c] = <<>>]
    /\ declared' = [declared EXCEPT ![c] = @ \/ aopt.lead]
    /\ UNCHANGED <<aopt, apc, at, tooSoon, hand, stopping, bqueue, sent, out,
                   forgotten, amqpFaults, handled, discarded>>

(* The back-off of setEbo is over. *)
EboOver(c) ==
    /\ tooSoon[c]
    /\ tooSoon' = [tooSoon EXCEPT ![c] = FALSE]
    /\ UNCHANGED <<aopt, apc, at, link, connId, rawq, hand, stopping, brokerVars,
                   amqpFaults, handled, discarded>>

UnreadableKept(c, m) == FALSE

UnreadableAcked(c, m) == decode[m] = "discarded" /\ link[c] = "open"

(* _msgRawToDict and the rest of getNewMessage for delivery t of message m:
   a good message joins the batch with its ack_id; one that cannot be decoded
   or is not valid is acknowledged and dropped; where decoding raises it is
   neither acknowledged nor returned.  O are the tags outstanding before. *)
Receive(c, m, t, O) ==
    /\ IF decode[m] = "good"
       THEN /\ hand' = Append(hand, [msg |-> m, from |-> c, tag |-> t,
                                     conn |-> connId[c]])
            /\ IF at.k + 1 < amqpBatch
               THEN at' = [at EXCEPT !.k = @ + 1] /\ UNCHANGED apc
               ELSE NextClient
       ELSE hand' = hand /\ NextClient
    /\ LET dropped == UnreadableAcked(c, m) IN
       /\ out' = [out EXCEPT ![c] = IF dropped THEN O \ {t} ELSE O]
       /\ forgotten' = IF dropped THEN forgotten \cup {m} ELSE forgotten
       /\ discarded' = IF dropped THEN discarded \cup {m} ELSE discarded

(* getNewMessage with basic_get. *)
Get ==
    LET c == at.c
        t == Len(sent[c]) + 1 IN
    /\ apc = "gather"
    /\ ~aopt.consumer
    /\ link[c] = "open"
    /\ declared[c]
    /\ bqueue[c] # <<>>
    /\ bqueue' = [bqueue EXCEPT ![c] = Tail(@)]
    /\ sent' = [sent EXCEPT ![c] = Append(@, Head(bqueue[c]))]
    /\ Receive(c, Head(bqueue[c]), t, out[c] \cup {t})
    /\ UNCHANGED <<aopt, clientVars, stopping, declared, amqpFaults, handled>>

(* getNewMessage of a registered consumer takes what drain_events has put
   in _raw_msg_q, from a broken connection too while that goes unnoticed.
   The tag then names nothing at the broker. *)
GetPushed ==
    LET c == at.c IN
    /\ apc = "gather"
    /\ link[c] # "none"
    /\ rawq[c] # <<>>
    /\ rawq' = [rawq EXCEPT ![c] = Tail(@)]
    /\ Receive(c, Head(rawq[c]).msg, Head(rawq[c]).tag, out[c])
    /\ UNCHANGED <<aopt, link, connId, tooSoon, stopping, bqueue, sent, declared,
                   amqpFaults, handled>>

(* Nothing to get. *)
GetNone ==
    LET c == at.c IN
    /\ apc = "gather"
    /\ link[c] = "open"
    /\ declared[c]
    /\ IF aopt.consumer THEN rawq[c] = <<>> ELSE bqueue[c] = <<>>
    /\ NextClient
    /\ UNCHANGED <<aopt, clientVars, hand, stopping, brokerVars, amqpFaults,
                   handled, discarded>>

StaysBroken(c) == UNCHANGED <<link, connId, bqueue, sent, out>>

CloseIfStubborn(c) ==
    IF aopt.stubborn THEN Close({c}) ELSE UNCHANGED <<link, connId, bqueue, sent, out>>

(* The queue does not exist, or the connection is broken: the exception
   handler of getNewMessage closes the client when it is stubborn, and leaves
   it as it is when not. *)
GetFails ==
    LET c == at.c IN
    /\ apc = "gather"
    /\ link[c] = "broken" \/ (link[c] = "open" /\ ~declared[c])
    /\ CloseIfStubborn(c)
    /\ NextClient
    /\ UNCHANGED <<aopt, tooSoon, rawq, hand, stopping, declared, forgotten,
                   amqpFaults, handled, discarded>>

-----------------------------------------------------------------------------
(* One pass of the flow, and its end. *)

Gather ==
    /\ apc = "idle"
    /\ ~stopping
    /\ apc' = "gather"
    /\ at' = [c |-> 1, k |-> 0]
    /\ UNCHANGED <<aopt, clientVars, hand, stopping, brokerVars, amqpFaults,
                   handled, discarded>>

(* ack of the message callback is a loop over the clients and, within it, over
   the batch.  A client is asked when the broker of the message is its own. *)
Asked(c, h) == h.conn # 0 /\ connId[c] # 0 /\ brokerOf[h.from] = brokerOf[c]

NextAck ==
    IF at.k < Len(hand) THEN at' = [at EXCEPT !.k = @ + 1]
                        ELSE at' = [c |-> at.c + 1, k |-> 1]

SameConnectionUnchecked(c, h) == TRUE

SameConnection(c, h) == h.conn = connId[c]

DropAckId(k) == hand' = [hand EXCEPT ![k].conn = 0]

(* ack of the client: a message of another connection loses its ack_id;
   otherwise basic_ack, which can fail on a broken connection (and closes the
   client) or go unnoticed. *)
Ack ==
    LET c == at.c
        h == hand[at.k] IN
    /\ apc = "ack"
    /\ at.k \in DOMAIN hand
    /\ \/ /\ ~Asked(c, h)
          /\ UNCHANGED <<hand, link, connId, bqueue, sent, out, forgotten>>
       \/ /\ Asked(c, h)
          /\ ~SameConnection(c, h)
          /\ DropAckId(at.k)
          /\ UNCHANGED <<link, connId, bqueue, sent, out, forgotten>>
       \/ /\ Asked(c, h)
          /\ SameConnection(c, h)
          /\ link[c] = "open"
          /\ DropAckId(at.k)
          /\ out' = [out EXCEPT ![c] = @ \ {h.tag}]
          /\ forgotten' = IF h.tag \in out[c] THEN forgotten \cup {sent[c][h.tag]}
                                              ELSE forgotten
          /\ UNCHANGED <<link, connId, bqueue, sent>>
       \/ /\ Asked(c, h)
          /\ SameConnection(c, h)
          /\ link[c] = "broken"
          /\ DropAckId(at.k)
          /\ Close({c}) \/ UNCHANGED <<link, connId, bqueue, sent, out>>
          /\ UNCHANGED forgotten
    /\ IF at.k = Len(hand) /\ at.c = NSub
       THEN at' = [at EXCEPT !.k = @ + 1]
       ELSE NextAck
    /\ UNCHANGED <<aopt, apc, tooSoon, rawq, stopping, declared, amqpFaults,
                   handled, discarded>>

(* The flow works on the batch before it acknowledges it. *)
Work ==
    /\ apc = "work"
    /\ apc' = "ack"
    /\ handled' = handled \cup {hand[k].msg : k \in DOMAIN hand}
    /\ UNCHANGED <<aopt, at, clientVars, hand, stopping, brokerVars, amqpFaults,
                   discarded>>

(* The batch leaves memory. *)
PassDone ==
    /\ apc = "ack"
    /\ at.k \notin DOMAIN hand
    /\ hand' = <<>>
    /\ apc' = "idle"
    /\ at' = [c |-> 1, k |-> 0]
    /\ UNCHANGED <<aopt, clientVars, stopping, brokerVars, amqpFaults, handled,
                   discarded>>

PleaseStop ==
    /\ apc \notin {"off", "down"}
    /\ ~stopping
    /\ amqpFaults < MaxAmqpFaults
    /\ amqpFaults' = amqpFaults + 1
    /\ stopping' = TRUE
    /\ UNCHANGED <<aopt, apc, at, clientVars, hand, brokerVars, handled, discarded>>

(* on_stop closes every client. *)
OnStop ==
    /\ apc = "idle"
    /\ stopping
    /\ apc' = "down"
    /\ Close(Sub)
    /\ UNCHANGED <<aopt, at, tooSoon, rawq, hand, stopping, declared, forgotten,
                   amqpFaults, handled, discarded>>

Kill ==
    /\ apc \notin {"off", "down"}
    /\ amqpFaults < MaxAmqpFaults
    /\ amqpFaults' = amqpFaults + 1
    /\ apc' = "down"
    /\ Close(Sub)
    /\ hand' = <<>>
    /\ UNCHANGED <<aopt, at, tooSoon, rawq, stopping, declared, forgotten,
                   handled, discarded>>

(* __init__ of new clients. *)
Restart ==
    /\ apc = "down"
    /\ apc' = "idle"
    /\ at' = [c |-> 1, k |-> 0]
    /\ stopping' = FALSE
    /\ tooSoon' = [c \in Sub |-> FALSE]
    /\ rawq' = [c \in Sub |-> <<>>]
    /\ UNCHANGED <<aopt, link, connId, hand, brokerVars, amqpFaults, handled, discarded>>

-----------------------------------------------------------------------------
InitAsConsumer(pc) ==
    /\ aopt \in AmqpOptions
    /\ apc = pc
    /\ at = [c |-> 1, k |-> 0]
    /\ link = [c \in Sub |-> "none"]
    /\ connId = [c \in Sub |-> 0]
    /\ tooSoon = [c \in Sub |-> FALSE]
    /\ rawq = [c \in Sub |-> <<>>]
    /\ hand = <<>>
    /\ stopping = FALSE
    /\ bqueue = [c \in Sub |-> <<>>]
    /\ sent = [c \in Sub |-> <<>>]
    /\ out = [c \in Sub |-> {}]
    /\ declared = [c \in Sub |-> FALSE]
    /\ amqpFaults = 0
    /\ handled = {} /\ discarded = {} /\ forgotten = {}

(* One step of the loop of the instance. *)
Step ==
    \/ Gather \/ SetupRefused \/ SetupFails \/ SetupOK
    \/ Get \/ GetPushed \/ GetNone \/ GetFails
    \/ Work \/ Ack \/ PassDone \/ OnStop

Consumer ==
    \/ Step \/ PleaseStop \/ Kill \/ Restart
    \/ \E m \in Message : Publish(m)
    \/ \E c \in Sub : Break(c) \/ Push(c) \/ OtherDeclares(c) \/ EboOver(c)

(* The loop goes on, a stopped instance is started again, the back-off ends,
   the broker delivers, and the first instance declares the queues. *)
ConsumerFairness ==
    /\ WF_subVars(Step) /\ WF_subVars(Restart)
    /\ \A c \in Sub : WF_subVars(EboOver(c)) /\ WF_subVars(Push(c)) /\ WF_subVars(OtherDeclares(c))

-----------------------------------------------------------------------------
(* The publisher. *)

CONSTANTS
    PubMessage,    \* what is to be posted
    MaxPubFaults   \* bound: broken links, failing set-ups, a stop request

VARIABLES
    ppc,        \* "off", "idle", "put", "setup", "publish", "commit"
    cur,        \* the message of the call in progress
    plink,      \* connection: None, open, or broken
    chanOpen,   \* channel.is_open
    pTooSoon,   \* time.time() < next_connect_time
    pStopping,  \* _stop_requested
    exchange,   \* broker: the exchange exists
    tx,         \* broker: published in the open transaction
    committed,  \* broker: how often a message was committed, up to 2
    pubFaults,
    todo,       \* the caller: messages not posted yet
    confirmed,  \* history: messages for which putNewMessage returned True
    failed      \* history: messages for which it failed after basic_publish

pubVars == <<ppc, cur, plink, chanOpen, pTooSoon, pStopping, exchange, tx,
             committed, pubFaults, todo, confirmed, failed>>

PublisherTypeOK ==
    /\ ppc \in {"off", "idle", "put", "setup", "publish", "commit"}
    /\ cur \in PubMessage
    /\ plink \in {"none", "open", "broken"}
    /\ {chanOpen, pTooSoon, pStopping, exchange} \subseteq BOOLEAN
    /\ {tx, todo, confirmed, failed} \subseteq SUBSET PubMessage
    /\ committed \in [PubMessage -> 0 .. 2]
    /\ pubFaults \in 0 .. MaxPubFaults

Fault == pubFaults < MaxPubFaults /\ pubFaults' = pubFaults + 1

ReturnTrue == ppc' = "idle" /\ todo' = todo \ {cur} /\ confirmed' = confirmed \cup {cur}

(* putNewMessage returns False: the caller keeps the message. *)
ReturnFalse == ppc' = "idle" /\ UNCHANGED <<todo, confirmed>>

Usable == plink = "open" /\ chanOpen

(* close *)
PubClose == plink' = "none" /\ chanOpen' = FALSE /\ tx' = {}

(* The caller posts a message: a new one, or one from its retry queue. *)
PutNewMessage(m) ==
    /\ ppc = "idle"
    /\ m \in todo
    /\ cur' = m
    /\ ppc' = IF Usable THEN "publish" ELSE "put"
    /\ UNCHANGED <<plink, chanOpen, pTooSoon, pStopping, exchange, tx, committed,
                   pubFaults, todo, confirmed, failed>>

(* Not connected, or the channel is closed: close, then putSetup, which gives
   up after a stop request or a recent failure. *)
PutClose ==
    /\ ppc = "put"
    /\ PubClose
    /\ IF pStopping \/ pTooSoon THEN ReturnFalse
       ELSE ppc' = "setup" /\ UNCHANGED <<todo, confirmed>>
    /\ UNCHANGED <<cur, pTooSoon, pStopping, exchange, committed, pubFaults, failed>>

PutSetupOK ==
    /\ ppc = "setup"
    /\ plink' = "open" /\ chanOpen' = TRUE /\ exchange' = TRUE
    /\ ppc' = "publish"
    /\ UNCHANGED <<cur, pTooSoon, pStopping, tx, committed, pubFaults, todo,
                   confirmed, failed>>

(* The handler of putSetup: setEbo, connection None, close. *)
PutSetupFails ==
    /\ ppc = "setup"
    /\ Fault
    /\ PubClose
    /\ pTooSoon' = TRUE
    /\ exchange' \in {exchange, TRUE}
    /\ ReturnFalse
    /\ UNCHANGED <<cur, pStopping, committed, failed>>

(* basic_publish: the frames go out, or the connection turns out broken. *)
BasicPublish ==
    /\ ppc = "publish"
    /\ plink = "open"
    /\ tx' = tx \cup {cur}
    /\ ppc' = "commit"
    /\ UNCHANGED <<cur, plink, chanOpen, pTooSoon, pStopping, exchange, committed,
                   pubFaults, todo, confirmed, failed>>

CommitTwice(M) == [m \in PubMessage |-> IF m \in M THEN 2 ELSE committed[m]]

CommitOf(M) == [m \in PubMessage |->
                  IF m \in M /\ committed[m] < 2 THEN committed[m] + 1 ELSE committed[m]]

(* tx_commit: the broker commits and its answer arrives. *)
TxCommit ==
    /\ ppc = "commit"
    /\ plink = "open"
    /\ committed' = CommitOf(tx)
    /\ tx' = {}
    /\ ppc' = "idle"
    /\ todo' = todo \ {cur}
    /\ confirmed' = confirmed \cup {cur}
    /\ UNCHANGED <<cur, plink, chanOpen, pTooSoon, pStopping, exchange, pubFaults,
                   failed>>

(* The broker commits, and the connection breaks before the answer arrives. *)
TxCommitUnheard ==
    /\ ppc = "commit"
    /\ plink = "open"
    /\ Fault
    /\ committed' = CommitOf(tx)
    /\ plink' = "broken"
    /\ tx' = {}
    /\ UNCHANGED <<ppc, cur, chanOpen, pTooSoon, pStopping, exchange, todo,
                   confirmed, failed>>

(* The handler of putNewMessage: close, and False "instead of looping". *)
PublishFails ==
    /\ ppc \in {"publish", "commit"}
    /\ plink = "broken"
    /\ PubClose
    /\ ReturnFalse
    /\ failed' = failed \cup {cur}
    /\ UNCHANGED <<cur, pTooSoon, pStopping, exchange, committed, pubFaults>>

(* A transaction that was not committed is rolled back with its channel. *)
PubBreak ==
    /\ plink = "open"
    /\ Fault
    /\ plink' = "broken"
    /\ tx' = {}
    /\ UNCHANGED <<ppc, cur, chanOpen, pTooSoon, pStopping, exchange, committed,
                   todo, confirmed, failed>>

PubEboOver ==
    /\ pTooSoon
    /\ pTooSoon' = FALSE
    /\ UNCHANGED <<ppc, cur, plink, chanOpen, pStopping, exchange, tx, committed,
                   pubFaults, todo, confirmed, failed>>

(* As in MqttPub: the client can be told, but post never does (message.py:131). *)
PubPleaseStop ==
    /\ ppc # "off"
    /\ ~pStopping
    /\ Fault
    /\ pStopping' = TRUE
    /\ UNCHANGED <<ppc, cur, plink, chanOpen, pTooSoon, exchange, tx, committed,
                   todo, confirmed, failed>>

(* After the stop: on_stop closes the client, and the next instance makes a
   new one and finds the caller's messages in its retry queue. *)
PubRestart ==
    /\ ppc = "idle"
    /\ pStopping
    /\ PubClose
    /\ pStopping' = FALSE
    /\ pTooSoon' = FALSE
    /\ UNCHANGED <<ppc, cur, exchange, committed, pubFaults, todo, confirmed, failed>>

InitAsPublisher(pc) ==
    /\ ppc = pc
    /\ cur = CHOOSE m \in PubMessage : TRUE
    /\ plink = "none"
    /\ chanOpen = FALSE /\ pTooSoon = FALSE /\ pStopping = FALSE /\ exchange = FALSE
    /\ tx = {} /\ confirmed = {} /\ failed = {}
    /\ committed = [m \in PubMessage |-> 0]
    /\ pubFaults = 0
    /\ todo = PubMessage

PubStep ==
    \/ \E m \in PubMessage : PutNewMessage(m)
    \/ PutClose \/ PutSetupOK \/ PutSetupFails
    \/ BasicPublish \/ TxCommit \/ TxCommitUnheard \/ PublishFails

Publisher == PubStep \/ PubBreak \/ PubEboOver \/ PubPleaseStop \/ PubRestart

(* A call goes on, the caller posts again what it was refused, the back-off
   ends, and an instance that is asked to stop does so between two calls. *)
PublisherFairness == WF_pubVars(PubStep) /\ WF_pubVars(PubEboOver) /\ SF_pubVars(PubRestart)

-----------------------------------------------------------------------------
(* An instance is one of the two. *)
TypeOK == ConsumerTypeOK /\ PublisherTypeOK

InitAs(consumer, publisher) == InitAsConsumer(consumer) /\ InitAsPublisher(publisher)

Next == \/ Consumer /\ UNCHANGED pubVars
        \/ Publisher /\ UNCHANGED subVars

Fairness == ConsumerFairness /\ PublisherFairness

Spec == InitAs("idle", "off") /\ [][Next]_<<subVars, pubVars>> /\ Fairness

-----------------------------------------------------------------------------
(* The broker removes a message only after an instance has worked on it, or
   for being unreadable: an acknowledgement never names a delivery of another
   connection (ack, "Deliveries must be acknowledged on the same channel they
   were received on"). *)
NothingForgotten == forgotten \subseteq handled \cup discarded

(* ack of an earlier client with the same broker takes the ack_id away. *)
Shadowed(c) == \E d \in 1 .. c - 1 : brokerOf[d] = brokerOf[c]

(* Between passes nothing that was delivered on a connection that is still
   open is left unacknowledged, but for messages whose decoding raised, and
   for subscriptions that share their broker with an earlier one. *)
AckedUnlessShadowed ==
    apc = "idle" => \A c \in Sub : link[c] = "open" => \A t \in out[c] :
        \/ \E i \in DOMAIN rawq[c] : rawq[c][i].tag = t
        \/ decode[sent[c][t]] = "raises"
        \/ Shadowed(c)

(* No message waits at the broker for ever, through broken connections, failing
   set-ups and restarts, when the client is stubborn.  A registered consumer
   whose deliveries stay unacknowledged (Shadowed) runs into its prefetch limit
   and is left out. *)
Served ==
    \A m \in Message :
        (/\ m \in Here(subOf[m]) /\ decode[m] = "good" /\ aopt.stubborn
         /\ ~(aopt.consumer /\ Shadowed(subOf[m])))
        => (m \in handled)

(* putNewMessage returns True only for a message the broker has committed
   ("no failure == success"). *)
TrueMeansCommitted == \A m \in confirmed : committed[m] > 0

(* The broker has a message twice only if a call for it failed after
   basic_publish, when the client cannot know what became of the commit. *)
TwiceOnlyAfterFailure ==
    \A m \in PubMessage : committed[m] > 1 => m \in failed

(* Every message is posted in the end. *)
Posted == ppc = "off" \/ confirmed = PubMessage
=============================================================================
