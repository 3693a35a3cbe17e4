------------------------------ MODULE AmServer ------------------------------
(***************************************************************************)
(* Bulletins received over AM connections (flowcb/gather/am.py).  Instance *)
(* 1 accepts connections; for each it leaves the number of the socket in a *)
(* .conn file and forks, and the child starts this program anew as the     *)
(* instance with the lowest number that no process runs as.  A child takes *)
(* bytes into its buffer and makes a message of every bulletin that is     *)
(* complete.  The socket has the same number each time, as the parent      *)
(* closes it before it accepts the next.                                   *)
(***************************************************************************)
EXTENDS Naturals, Sequences, FiniteSets, FiniteSetsExt

CONSTANTS
    AmConn,       \* connections that are made
    AllowIPs,     \* those that are let in
    Bulletins,    \* the bulletins sent on a connection: sequences of [length, form]; form is
                  \* "good", "garbled": the text cannot be decoded, or "badHeader"
    sizeAM,       \* the length of a header
    limit,        \* how much is received at a time
    MaxAmKills    \* bound: children that are killed, and exceptions of the parent

VARIABLES
    parent,       \* [pc, conn, inst]: instance 1
    refused,      \* connections that were closed at once
    child,        \* by connection: [pc, inst, inBuffer, at, newmsg]
    connFiles,    \* instances for which there is a .conn file
    wire,         \* by connection: [sent, received] bytes
    aposted,      \* by connection: the bulletins announced, by number
    akills,
    apast         \* history: hasty: connections accepted while a child was not yet to be
                  \* seen; killed: those whose child was; swept: bulletins gathered together
                  \* with one that has a bad header, or left in the buffer by it at the end

aVars == <<parent, refused, child, connFiles, wire, aposted, akills, apast>>

NoOne == "no connection"
Instances == 2 .. (Cardinality(AmConn) + 2)
NoChild == [pc |-> "none", inst |-> 0, inBuffer |-> 0, at |-> 1, newmsg |-> <<>>]
Serving == {"recv", "unwrap", "post"}

TypeOK ==
    /\ parent.pc \in {"off", "accept", "fork", "ended"}
    /\ \A c \in AmConn : child[c].pc \in {"none", "forked", "started", "stuck", "gone"} \cup Serving
    /\ connFiles \subseteq Instances
    /\ \A c \in AmConn : wire[c].received <= wire[c].sent
    /\ akills \in 0 .. MaxAmKills

Frame(c, i) == sizeAM + Bulletins[c][i].length
Bytes == [c \in AmConn |-> MapThenSumSet(LAMBDA i : Frame(c, i), DOMAIN Bulletins[c])]

-----------------------------------------------------------------------------
(* get_lowest_instance: by the command lines of the processes.  That of a child is the
   parent's until it has started anew. *)
Seen == {child[c].inst : c \in {d \in AmConn : child[d].pc \in Serving \cup {"started", "stuck"}}}

NextInstance == 2
LowestInstance == Min(Instances \ Seen)

(* __WaitForRemoteConnections__ *)
Accept(c) ==
    /\ parent.pc = "accept" /\ child[c].pc = "none" /\ c \notin refused
    /\ IF c \notin AllowIPs
       THEN refused' = refused \cup {c} /\ UNCHANGED <<parent, connFiles, apast>>
       ELSE /\ parent' = [pc |-> "fork", conn |-> c, inst |-> LowestInstance]
            /\ connFiles' = connFiles \cup {LowestInstance}
            /\ apast' = [apast EXCEPT !.hasty = @ \cup
                             {d \in AmConn : child[d].pc = "forked" /\ child[d].inst = LowestInstance}
                             \cup IF \E d \in AmConn : /\ child[d].pc = "forked"
                                                       /\ child[d].inst = LowestInstance
                                  THEN {c} ELSE {}]
            /\ UNCHANGED refused
    /\ UNCHANGED <<child, wire, aposted, akills>>

(* Stopping accept, exiting: accept on a socket that could not be bound, or
   get_lowest_instance or the .conn file of the connection that was accepted, raised.
   The children go on. *)
StopsAccepting ==
    /\ parent.pc = "accept" /\ akills < MaxAmKills
    /\ akills' = akills + 1
    /\ parent' = [pc |-> "ended", conn |-> NoOne, inst |-> 0]
    /\ connFiles' \in {connFiles, connFiles \cup {LowestInstance}}
    /\ UNCHANGED <<refused, child, wire, aposted, apast>>

Fork ==
    /\ parent.pc = "fork"
    /\ child' = [child EXCEPT ![parent.conn] = [NoChild EXCEPT !.pc = "forked",
                                                               !.inst = parent.inst]]
    /\ parent' = [pc |-> "accept", conn |-> NoOne, inst |-> 0]
    /\ UNCHANGED <<refused, connFiles, wire, aposted, akills, apast>>

Exec(c) ==
    /\ child[c].pc = "forked"
    /\ child' = [child EXCEPT ![c].pc = "started"]
    /\ UNCHANGED <<parent, refused, connFiles, wire, aposted, akills, apast>>

(* on_start of a child: without the file it goes on without a connection. *)
OnStartChild(c) ==
    /\ child[c].pc = "started"
    /\ child' = [child EXCEPT ![c].pc = IF child[c].inst \in connFiles THEN "recv" ELSE "stuck"]
    /\ connFiles' = connFiles \ {child[c].inst}
    /\ UNCHANGED <<parent, refused, wire, aposted, akills, apast>>

-----------------------------------------------------------------------------
(* The other end sends as it likes, and closes the connection after the last byte. *)
Send(c) ==
    /\ parent.pc # "off" /\ c \notin refused
    /\ wire[c].sent < Bytes[c]
    /\ \E k \in 1 .. Bytes[c] - wire[c].sent : wire' = [wire EXCEPT ![c].sent = @ + k]
    /\ UNCHANGED <<parent, refused, child, connFiles, aposted, akills, apast>>

(* checkNextMsgStatus: is the next bulletin complete? *)
HeaderOnly(c) == child[c].at <= Len(Bulletins[c]) /\ child[c].inBuffer >= sizeAM
Complete(c) == child[c].at <= Len(Bulletins[c]) /\ child[c].inBuffer >= Frame(c, child[c].at)
StatusOK(c) == Complete(c)

(* addBuffer: what there is, up to the limit; the end of the connection ends the child.
   When nothing comes the rest of the buffer is looked at again: only a bulletin that is
   complete makes that a step. *)
AddBuffer(c) ==
    /\ child[c].pc = "recv"
    /\ LET there == wire[c].sent - wire[c].received
           k == IF there > limit THEN limit ELSE there IN
       \/ /\ k > 0 \/ StatusOK(c)
          /\ wire' = [wire EXCEPT ![c].received = @ + k]
          /\ child' = [child EXCEPT ![c].inBuffer = @ + k, ![c].pc = "unwrap"]
          /\ UNCHANGED apast
       \/ /\ wire[c].received = Bytes[c]
          /\ child' = [child EXCEPT ![c].pc = "gone"]
          /\ apast' = [apast EXCEPT !.swept = @ \cup
                           (IF \E i \in 1 .. child[c].at - 1 : Bulletins[c][i].form = "badHeader"
                            THEN {<<c, i>> : i \in child[c].at .. Len(Bulletins[c])} ELSE {})]
          /\ UNCHANGED wire
    /\ UNCHANGED <<parent, refused, connFiles, aposted, akills>>

(* unwrapmsg, and the rest of the buffer: slices, of what is there.  0 is part of a
   bulletin. *)
Whole(c, i) == child[c].inBuffer >= Frame(c, i)
Cut(c, i) == IF Whole(c, i) THEN child[c].inBuffer - Frame(c, i) ELSE 0
Taken(c, i) == IF Whole(c, i) THEN i ELSE 0

(* gather: a bulletin is cut from the buffer and made a message.  One that cannot be
   decoded is logged and passed over; a header that cannot be raises, and the messages
   made so far are lost with it. *)
Unwrap(c) ==
    /\ child[c].pc = "unwrap" /\ StatusOK(c)
    /\ LET i == child[c].at
           form == Bulletins[c][i].form
           raises == form = "badHeader" IN
       /\ child' = [child EXCEPT
                      ![c].at = i + 1, ![c].inBuffer = Cut(c, i),
                      ![c].newmsg = IF raises THEN <<>> ELSE IF form = "garbled" THEN @
                                    ELSE Append(@, Taken(c, i)),
                      ![c].pc = IF raises THEN "post" ELSE "unwrap"]
       /\ apast' = [apast EXCEPT !.swept = IF raises
                        THEN @ \cup {<<c, child[c].newmsg[k]>> : k \in DOMAIN child[c].newmsg}
                        ELSE @]
    /\ UNCHANGED <<parent, refused, connFiles, wire, aposted, akills>>

Unwrapped(c) ==
    /\ child[c].pc = "unwrap" /\ ~StatusOK(c)
    /\ child' = [child EXCEPT ![c].pc = "post"]
    /\ UNCHANGED <<parent, refused, connFiles, wire, aposted, akills, apast>>

(* The rest of the pass.  What is left in the buffer after a bad header waits for the next. *)
PostBulletins(c) ==
    /\ child[c].pc = "post"
    /\ aposted' = [aposted EXCEPT ![c] = @ \o child[c].newmsg]
    /\ child' = [child EXCEPT ![c].pc = "recv", ![c].newmsg = <<>>]
    /\ UNCHANGED <<parent, refused, connFiles, wire, akills, apast>>

(* SIGTERM has its default action here: it ends the child at once. *)
KillChild(c) ==
    /\ child[c].pc \in Serving \cup {"forked", "started"} /\ akills < MaxAmKills
    /\ akills' = akills + 1
    /\ child' = [child EXCEPT ![c].pc = "gone"]
    /\ apast' = [apast EXCEPT !.killed = @ \cup {c}]
    /\ UNCHANGED <<parent, refused, connFiles, wire, aposted>>

-----------------------------------------------------------------------------
InitAs(pc) ==
    /\ parent = [pc |-> IF pc = "off" THEN "off" ELSE "accept", conn |-> NoOne, inst |-> 0]
    /\ refused = {} /\ connFiles = {}
    /\ child = [c \in AmConn |-> NoChild]
    /\ wire = [c \in AmConn |-> [sent |-> 0, received |-> 0]]
    /\ aposted = [c \in AmConn |-> <<>>]
    /\ akills = 0
    /\ apast = [hasty |-> {}, killed |-> {}, swept |-> {}]

Init == InitAs("idle")

Serve(c) == Exec(c) \/ OnStartChild(c) \/ AddBuffer(c) \/ Unwrap(c) \/ Unwrapped(c)
            \/ PostBulletins(c)

Next == Fork \/ StopsAccepting \/ \E c \in AmConn : Accept(c) \/ Serve(c) \/ Send(c) \/ KillChild(c)

(* The parent goes on accepting until an exception ends it, every child goes on, and the
   other end goes on sending. *)
Fairness == /\ WF_aVars(Fork \/ \E c \in AmConn : Accept(c))
            /\ \A c \in AllowIPs : WF_aVars(Serve(c) \/ Send(c)) /\ WF_aVars(Send(c))

Spec == Init /\ [][Next]_aVars

-----------------------------------------------------------------------------
(* Two children do not serve as the same instance, with the same log and state files,
   unless the second was accepted before the first could be seen. *)
InstancesDistinct ==
    \A c, d \in AmConn :
        /\ c # d /\ child[c].pc \in Serving /\ child[d].pc \in Serving
        /\ child[c].inst = child[d].inst
        => c \in apast.hasty

Wanted(c, i) == Bulletins[c][i].form = "good" /\ <<c, i>> \notin apast.swept

(* However the bytes are cut up on the way, a child that ends with its connection has
   announced every bulletin once and in order, but for those that cannot be decoded and
   those gathered together with a bad header, or after it and never looked at. *)
BulletinsAnnounced ==
    \A c \in AmConn \ apast.killed :
        child[c].pc = "gone" =>
            aposted[c] = SelectSeq([i \in DOMAIN Bulletins[c] |-> i], LAMBDA i : Wanted(c, i))

(* A connection that is let in is served to its end, unless its child got the number of
   another one, or the parent ended before it had a child. *)
AmSettled ==
    \/ parent.pc = "off"
    \/ \A c \in AllowIPs : \/ child[c].pc = "gone" \/ c \in apast.hasty
                           \/ parent.pc = "ended" /\ child[c].pc = "none"
=============================================================================
