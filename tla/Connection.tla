----------------------------- MODULE Connection -----------------------------
(***************************************************************************)
(* How an instance keeps its connection from one file to the next          *)
(* (flow/__init__.py: the beginning of download and of send; transfer/:    *)
(* check_is_connected, connect, close, cd and getcwd of each class).       *)
(* Announcements name different servers and directories, and the           *)
(* connection is given up after a number of files.                         *)
(***************************************************************************)
EXTENDS Naturals

CONSTANTS
    ConnOptions,    \* [scheme, sends, batch]
    Server, RemoteDir,
    MaxFiles,       \* bound: files transferred
    MaxConnFaults   \* bound: connections that break or are refused

VARIABLES
    copt, cpc,
    cmsg,       \* the server and the directory of the message at hand
    proto,      \* proto[scheme]: the object and its connection, or NoProto
    used,       \* files transferred on this connection
    cfiles, cfaults,
    misplaced,  \* history: a file went elsewhere
    early       \* history: a connection was given up for batch, before batch files

cVars == <<copt, cpc, cmsg, proto, used, cfiles, cfaults, misplaced, early>>

Home == "home"
NoProto == [made |-> FALSE, connected |-> FALSE, sendTo |-> "none", cwd |-> Home, batch |-> 0,
            alive |-> FALSE]

(* The classes: held, there is a connection to break; counts, check_is_connected counts
   files; homes, it goes to the first directory to see whether it is connected; stays,
   connect sets connected (that of s3 does not). *)
SftpLink == [held |-> TRUE, counts |-> TRUE, homes |-> TRUE, stays |-> TRUE]
FtpLink == [held |-> TRUE, counts |-> TRUE, homes |-> FALSE, stays |-> TRUE]
HttpsLink == [held |-> FALSE, counts |-> FALSE, homes |-> FALSE, stays |-> TRUE]
S3Link == [held |-> FALSE, counts |-> FALSE, homes |-> FALSE, stays |-> FALSE]
AzureLink == [held |-> FALSE, counts |-> FALSE, homes |-> FALSE, stays |-> TRUE]

Class == [sftp |-> SftpLink, ftp |-> FtpLink, https |-> HttpsLink, s3 |-> S3Link,
          azure |-> AzureLink][copt.scheme]

TypeOK ==
    /\ copt \in ConnOptions
    /\ cpc \in {"off", "idle", "check", "connect", "cd", "transfer"}
    /\ cmsg \in [server : Server, dir : RemoteDir]
    /\ proto \in [made : BOOLEAN, connected : BOOLEAN, sendTo : Server \cup {"none"},
                  cwd : RemoteDir \cup {Home}, batch : 0 .. MaxFiles, alive : BOOLEAN]
    /\ used \in 0 .. MaxFiles /\ cfiles \in 0 .. MaxFiles /\ cfaults \in 0 .. MaxConnFaults
    /\ {misplaced, early} \subseteq BOOLEAN
    /\ proto.connected => proto.made

-----------------------------------------------------------------------------
CFault == cfaults < MaxConnFaults /\ cfaults' = cfaults + 1

NextFile ==
    /\ cpc = "idle" /\ cfiles < MaxFiles
    /\ cfiles' = cfiles + 1
    /\ cmsg' \in [server : Server, dir : RemoteDir]
    /\ copt.sends /\ cfiles > 0 => cmsg'.server = cmsg.server
    /\ cpc' = "check"
    /\ UNCHANGED <<copt, proto, used, cfaults, misplaced, early>>

ToAnyServer == TRUE

(* sendTo: of the connection, and of the message. *)
SameServer == proto.sendTo = cmsg.server

CountedTwice == IF Class.counts THEN proto.batch + 2 ELSE 0

(* The files on this connection, of the classes that count them. *)
Counted == IF Class.counts THEN proto.batch + 1 ELSE 0

(* check_is_connected.  The count is kept by the object: download connects the same
   object again, send makes a new one. *)
CheckIsConnected ==
    /\ cpc = "check"
    /\ LET full == Class.counts /\ Counted > copt.batch IN
       \/ /\ ~proto.connected
          /\ proto' = IF copt.sends THEN NoProto ELSE proto
          /\ cpc' = "connect"
          /\ UNCHANGED early
       \/ /\ proto.connected
          /\ ~SameServer \/ full \/ (Class.held /\ ~proto.alive)
          /\ proto' = IF copt.sends THEN NoProto
                      ELSE [proto EXCEPT !.connected = FALSE,
                                         !.batch = IF SameServer THEN Counted ELSE @]
          /\ cpc' = "connect"
          /\ early' = (early \/ (SameServer /\ full /\ used < copt.batch))
       \/ /\ proto.connected
          /\ SameServer /\ ~full /\ (Class.held => proto.alive)
          /\ proto' = [proto EXCEPT !.batch = Counted, !.cwd = IF Class.homes THEN Home ELSE @]
          /\ cpc' = "cd"
          /\ UNCHANGED early
    /\ UNCHANGED <<copt, cmsg, used, cfiles, cfaults, misplaced>>

(* factory and connect; when that fails download drops the object. *)
Connect ==
    /\ cpc = "connect"
    /\ \/ /\ proto' = [proto EXCEPT !.made = TRUE, !.connected = Class.stays,
                                    !.sendTo = cmsg.server, !.cwd = Home, !.alive = TRUE]
          /\ cpc' = "cd"
          /\ used' = 0
          /\ UNCHANGED cfaults
       \/ /\ CFault
          /\ proto' = IF copt.sends
                      THEN [proto EXCEPT !.made = TRUE, !.sendTo = cmsg.server]
                      ELSE NoProto
          /\ cpc' = "idle"
          /\ UNCHANGED used
    /\ UNCHANGED <<copt, cmsg, cfiles, misplaced, early>>

(* getcwd and cd, from the directory it was in at first. *)
Cd ==
    /\ cpc = "cd"
    /\ IF proto.cwd # cmsg.dir /\ Class.held /\ ~proto.alive
       THEN cpc' = "idle" /\ UNCHANGED proto
       ELSE cpc' = "transfer" /\ proto' = [proto EXCEPT !.cwd = cmsg.dir]
    /\ UNCHANGED <<copt, cmsg, used, cfiles, cfaults, misplaced, early>>

(* get or put; a failure is returned, and leaves the connection as it is. *)
TransferOne ==
    /\ cpc = "transfer"
    /\ cpc' = "idle"
    /\ IF Class.held /\ ~proto.alive THEN UNCHANGED <<used, misplaced>>
       ELSE /\ used' = used + 1
            /\ misplaced' = (misplaced \/ proto.sendTo # cmsg.server \/ proto.cwd # cmsg.dir)
    /\ UNCHANGED <<copt, cmsg, proto, cfiles, cfaults, early>>

(* What follows the transfer raises: the object is closed, and dropped. *)
CloseOnProblem ==
    /\ cpc = "transfer"
    /\ CFault
    /\ cpc' = "idle"
    /\ proto' = NoProto
    /\ UNCHANGED <<copt, cmsg, used, cfiles, misplaced, early>>

BreakConnection ==
    /\ proto.alive /\ Class.held
    /\ CFault
    /\ proto' = [proto EXCEPT !.alive = FALSE]
    /\ UNCHANGED <<copt, cpc, cmsg, used, cfiles, misplaced, early>>

InitAs(pc) ==
    /\ copt \in (IF pc = "off" THEN {CHOOSE o \in ConnOptions : TRUE} ELSE ConnOptions)
    /\ cpc = pc
    /\ cmsg = CHOOSE m \in [server : Server, dir : RemoteDir] : TRUE
    /\ proto = NoProto
    /\ used = 0 /\ cfiles = 0 /\ cfaults = 0 /\ misplaced = FALSE /\ early = FALSE

Init == InitAs("idle")

Next == \/ NextFile \/ CheckIsConnected \/ Connect \/ Cd \/ TransferOne
        \/ CloseOnProblem \/ BreakConnection

Spec == Init /\ [][Next]_cVars

-----------------------------------------------------------------------------
(* Every file goes to, or comes from, the server and the directory of its own message,
   whatever connection an earlier one left behind. *)
RightPlace == ~misplaced

(* A connection serves batch files before it is given up for that ("how many files to
   transfer before a connection is torn down").  The object a download keeps goes on
   counting: after the first batch it connects again for every file. *)
KeptForABatch == copt.sends => ~early
=============================================================================
