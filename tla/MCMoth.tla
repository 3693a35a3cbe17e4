------------------------------- MODULE MCMoth -------------------------------
(* Small instances of the clients, for TLC. *)
EXTENDS Moth

CONSTANTS m1, m2, m3, m4

MCScheme == [base : {"amqp", "mqtt", "amq1", "http"}, suffix : {"", "s", "ws"}]

(* Two subscriptions of the AMQP client, on one broker. *)
MCSubOf == m1 :> 1 @@ m2 :> 2 @@ m3 :> 2 @@ m4 :> 1
MCBrokerOf == <<"host", "host">>
MCDecode == m1 :> "good" @@ m2 :> "good" @@ m3 :> "raises" @@ m4 :> "discarded"
MCAmqpOptions == [consumer : BOOLEAN, stubborn : BOOLEAN, lead : BOOLEAN]

(* The MQTT consumer is sent an invalid message, a good one with one behind it that
   cannot be imported, which drops both and fills the window, and a good one that waits. *)
MCSubMessage == <<m1, m2, m3, m4>>
MCDecoding == m1 :> "invalid" @@ m2 :> "good" @@ m3 :> "none" @@ m4 :> "good"

ASSUME DecodeOK == DOMAIN MCDecode = Message /\ DOMAIN MCSubOf = Message
=============================================================================
