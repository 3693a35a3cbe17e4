------------------------------- MODULE Sender -------------------------------
(***************************************************************************)
(* A sender (flow/__init__.py: do_send, send; transfer/: cd_forced, put,   *)
(* rename, delete, mkdir, rmdir and symlink of sftp, ftp and the object    *)
(* stores), which repeats on a remote server what happened in a local      *)
(* directory.  The connection breaks between any two operations, uploads   *)
(* break off, and what failed is retried later, out of order.  The remote  *)
(* directory is not the root of the server, and an object store has        *)
(* nothing but what the sender put there.                                  *)
(***************************************************************************)
EXTENDS Naturals, Sequences, FiniteSets

CONSTANTS
    SenderOptions,  \* [scheme, inflight]
    EventLists,     \* sequences of [op, name, old, v]: what happens in the directory
    sendAttempts,
    MaxSenderFaults

VARIABLES
    zopt, zpc, zmsg, zattempt,
    events,     \* what is still to happen locally
    local, remote,  \* the files: by name
    link,       \* the connection of proto: "none", "open", "broken"
    zcwd,       \* the remote working directory is new_dir
    zlen,       \* what the first put returned: "all", "part", "zero", "-1"
    zqueue, zretry,
    zfaults,
    zpast,      \* history: falseOk, the operations reported as done that were not;
                \* deferred: some message was; rejected: the messages that were
    overtaken,  \* history: names with a later version than their message announced
    gone        \* history: names that the rename of an upload has deleted, and left so

zVars == <<zopt, zpc, zmsg, zattempt, events, local, remote, link, zcwd, zlen, zqueue,
           zretry, zfaults, zpast, overtaken, gone>>
zJob == <<zopt, zmsg, events, local, zqueue>>

Name == {"f", "g", "d"}
Temp == ".f"    \* new_inflight_path of f: with a prefix, a suffix or in a directory

None == [kind |-> "none", v |-> 0, whole |-> TRUE]
Dir == [kind |-> "dir", v |-> 0, whole |-> TRUE]
Link == [kind |-> "link", v |-> 0, whole |-> TRUE]
FileOf(v, whole) == [kind |-> "file", v |-> v, whole |-> whole]

Op == {"file", "remove", "rename", "mkdir", "rmdir", "link", "hlink"}

NoMsg == [op |-> "none", name |-> "f", old |-> "f", v |-> 0]

TypeOK ==
    LET Entry == {None, Dir, Link} \cup {FileOf(v, w) : v \in 0 .. 3, w \in BOOLEAN} IN
    /\ zopt \in SenderOptions
    /\ zpc \in {"off", "idle", "connect", "cwd", "cd", "op", "move", "put", "put2", "rename",
                "rename2", "length"}
    /\ zmsg.op \in Op \cup {"none"}
    /\ zattempt \in 1 .. sendAttempts
    /\ local \in [Name -> Entry]
    /\ remote \in [Name \cup {Temp} -> Entry]
    /\ link \in {"none", "open", "broken"}
    /\ zcwd \in BOOLEAN
    /\ zlen \in {"all", "part", "zero", "-1"}
    /\ zfaults \in 0 .. MaxSenderFaults
    /\ zpast \in [falseOk : SUBSET {"file", "remove", "mkdir", "rmdir", "rename", "link"},
                  deferred : BOOLEAN, rejected : SUBSET (Op \X Name)]
    /\ overtaken \subseteq Name
    /\ gone \subseteq Name

-----------------------------------------------------------------------------
(* The classes: the methods send asks for, and how put, delete and rename go wrong.  An
   object store has no connection that breaks and no directories.  put writes below the
   directory of the last cd; delete and rmdir of the stores, and rename of s3, take the
   bare name, where nothing is.  azure does not replace a blob, and cannot rename one
   unless its credentials are a SAS token. *)
SftpPut == [methods |-> {"delete", "rename", "mkdir", "symlink"}, store |-> FALSE,
            replaces |-> TRUE, hides |-> FALSE, deletes |-> TRUE, moves |-> TRUE]
FtpPut == [methods |-> {"delete", "rename", "mkdir", "umask"}, store |-> FALSE,
           replaces |-> TRUE, hides |-> TRUE, deletes |-> FALSE, moves |-> TRUE]
S3Put == [methods |-> {"delete", "rename", "mkdir", "umask"}, store |-> TRUE,
          replaces |-> TRUE, hides |-> TRUE, deletes |-> FALSE, moves |-> FALSE]
AzurePut == [S3Put EXCEPT !.replaces = FALSE]
AzureSasPut == [AzurePut EXCEPT !.moves = TRUE]

Protocol == [sftp |-> SftpPut, ftp |-> FtpPut, s3 |-> S3Put, azure |-> AzurePut,
             azuresas |-> AzureSasPut]

Has(scheme, method) == method \in Protocol[scheme].methods

IsStore(scheme) == Protocol[scheme].store

(* rename finds what put wrote. *)
Moves(scheme) == Protocol[scheme].moves

(* inflight, as send settles it for the protocol. *)
Inflight ==
    IF zopt.inflight = "umask" /\ ~Has(zopt.scheme, "umask") THEN "none" ELSE zopt.inflight

FinalName == zmsg.name

PutTarget == IF Inflight = "rename" THEN Temp ELSE zmsg.name

-----------------------------------------------------------------------------
ZFault == zfaults < MaxSenderFaults /\ zfaults' = zfaults + 1

Clear == zmsg' = NoMsg /\ zattempt' = 1 /\ zpc' = "idle" /\ zlen' = "all"

(* The remote server shows what the message is about. *)
Done(m, r) ==
    CASE m.op = "file" -> zlen = "all" /\ r[m.name].kind = "file" /\ r[m.name].whole
      [] m.op \in {"remove", "rmdir"} -> r[m.name] = None
      [] m.op = "rename" -> r[m.name] # None /\ r[m.old] = None
      [] m.op = "mkdir" -> r[m.name] = Dir
      [] OTHER -> r[m.name] = Link

(* retval > 0: worklist.ok. *)
ReturnOk ==
    /\ Clear
    /\ zpast' = IF Done(zmsg, remote') THEN zpast
                ELSE [zpast EXCEPT !.falseOk = @ \cup {zmsg.op}]
    /\ UNCHANGED zretry

(* retval < 0: worklist.rejected. *)
ReturnRejected ==
    /\ Clear
    /\ zpast' = [zpast EXCEPT !.rejected = @ \cup {<<zmsg.op, zmsg.name>>}]
    /\ UNCHANGED zretry

GivesUp ==
    IF zattempt < sendAttempts
    THEN /\ zattempt' = zattempt + 1
         /\ zpc' = "connect"
         /\ zlen' = "all"
         /\ UNCHANGED <<zmsg, zretry, zpast>>
    ELSE /\ UNCHANGED zretry
         /\ zpast' = [zpast EXCEPT !.deferred = TRUE]
         /\ Clear

(* retval = 0: another attempt, and then worklist.failed. *)
ReturnRetry ==
    IF zattempt < sendAttempts
    THEN /\ zattempt' = zattempt + 1
         /\ zpc' = "connect"
         /\ zlen' = "all"
         /\ UNCHANGED <<zmsg, zretry, zpast>>
    ELSE /\ zretry' = Append(zretry, zmsg)
         /\ zpast' = [zpast EXCEPT !.deferred = TRUE]
         /\ Clear

-----------------------------------------------------------------------------
(* The local directory, and the announcements. *)
Apply(files, e) ==
    CASE e.op = "file" -> [files EXCEPT ![e.name] = FileOf(e.v, TRUE)]
      [] e.op \in {"remove", "rmdir"} -> [files EXCEPT ![e.name] = None]
      [] e.op = "rename" -> [files EXCEPT ![e.name] = files[e.old], ![e.old] = None]
      [] e.op = "mkdir" -> [files EXCEPT ![e.name] = Dir]
      [] OTHER -> [files EXCEPT ![e.name] = Link]

Happen ==
    /\ events # <<>>
    /\ local' = Apply(local, Head(events))
    /\ zqueue' = Append(zqueue, Head(events))
    /\ events' = Tail(events)
    /\ UNCHANGED <<zopt, zpc, zmsg, zattempt, remote, link, zcwd, zlen, zretry, zfaults,
                   zpast>>

(* do_send: the messages of a pass come from the broker and from the retry queue. *)
DoSend(source) ==
    /\ zpc = "idle"
    /\ \/ /\ source = "new" /\ zqueue # <<>>
          /\ zmsg' = Head(zqueue)
          /\ zqueue' = Tail(zqueue)
          /\ UNCHANGED zretry
       \/ /\ source = "retry" /\ zretry # <<>>
          /\ zmsg' = Head(zretry)
          /\ zretry' = Tail(zretry)
          /\ UNCHANGED zqueue
    /\ zpc' = "connect"
    /\ UNCHANGED <<zopt, zattempt, events, local, remote, link, zcwd, zlen, zfaults, zpast>>

(* check_is_connected finds out a broken connection (sftp goes to another directory
   for that), and never takes that of s3 for connected; then a new object connects. *)
Connect ==
    /\ zpc = "connect"
    /\ \/ /\ link = "open" /\ zopt.scheme # "s3"
          /\ zcwd' = (zcwd /\ zopt.scheme # "sftp")
          /\ zpc' = "cwd"
          /\ UNCHANGED <<zmsg, zattempt, zlen, zretry, zpast, link, zfaults>>
       \/ /\ link # "open" \/ zopt.scheme = "s3"
          /\ link' = "open" /\ zcwd' = FALSE
          /\ zpc' = "cwd"
          /\ UNCHANGED <<zmsg, zattempt, zlen, zretry, zpast, zfaults>>
       \/ /\ link # "open" \/ zopt.scheme = "s3"
          /\ ZFault
          /\ ReturnRetry
          /\ link' = "none"
          /\ UNCHANGED zcwd
    /\ UNCHANGED <<zopt, events, local, zqueue, remote>>

(* getcwd: of the three only ftp asks the server. *)
Getcwd ==
    /\ zpc = "cwd"
    /\ IF zopt.scheme = "ftp" /\ link = "broken"
       THEN ReturnRetry
       ELSE zpc' = (IF zcwd THEN "op" ELSE "cd") /\ UNCHANGED <<zmsg, zattempt, zlen, zretry,
                                                                zpast>>
    /\ UNCHANGED <<zopt, events, local, zqueue, remote, link, zcwd, zfaults>>

(* cd_forced: whatever it raises rejects the message. *)
CdForced ==
    /\ zpc = "cd"
    /\ IF link = "broken" /\ ~IsStore(zopt.scheme)
       THEN ReturnRejected /\ UNCHANGED zcwd
       ELSE /\ zcwd' = TRUE
            /\ zpc' = "op"
            /\ UNCHANGED <<zmsg, zattempt, zlen, zretry, zpast>>
    /\ UNCHANGED <<zopt, events, local, zqueue, remote, link, zfaults>>

(* The message is about a file: it is sent if it is there. *)
StartFile ==
    /\ zpc = "op" /\ zmsg.op = "file"
    /\ IF local[zmsg.name].kind = "none"
       THEN ReturnRetry
       ELSE zpc' = "put" /\ UNCHANGED <<zmsg, zattempt, zlen, zretry, zpast>>
    /\ UNCHANGED <<zopt, events, local, zqueue, remote, link, zcwd, zfaults>>

-----------------------------------------------------------------------------
(* The other operations: for each what the server has afterwards, and whether the
   call raises. *)
Broken == link = "broken" /\ ~IsStore(zopt.scheme)

(* sftp's delete takes an error of lstat for a file that is not there, ftp's hides
   every error but that of the connection.  In a store it looks for the bare name: s3
   deletes what is not there without an error, azure raises. *)
Delete ==
    /\ zpc = "op" /\ zmsg.op = "remove"
    /\ LET raises == (Broken /\ zopt.scheme = "ftp") \/ zopt.scheme \in {"azure", "azuresas"} IN
       /\ remote' = IF Broken \/ IsStore(zopt.scheme) THEN remote
                    ELSE [remote EXCEPT ![zmsg.name] = None]
       /\ IF raises THEN ReturnRejected ELSE ReturnOk
    /\ UNCHANGED <<zopt, events, local, zqueue, link, zcwd, zfaults>>

(* The stores delete what is below the bare name: nothing. *)
Rmdir ==
    /\ zpc = "op" /\ zmsg.op = "rmdir"
    /\ LET raises == Broken \/ (~IsStore(zopt.scheme) /\ remote[zmsg.name] # Dir) IN
       /\ remote' = IF raises \/ IsStore(zopt.scheme) THEN remote
                    ELSE [remote EXCEPT ![zmsg.name] = None]
       /\ IF raises THEN ReturnRetry ELSE ReturnOk
    /\ UNCHANGED <<zopt, events, local, zqueue, link, zcwd, zfaults>>

(* sftp's mkdir returns without an error for a file of that name and for a broken
   connection; that of ftp raises when the directory is there already. *)
Mkdir ==
    /\ zpc = "op" /\ zmsg.op = "mkdir"
    /\ LET raises == zopt.scheme = "ftp" /\ (Broken \/ remote[zmsg.name] # None)
           makes == ~Broken /\ ~IsStore(zopt.scheme) /\ remote[zmsg.name] = None IN
       /\ remote' = IF makes THEN [remote EXCEPT ![zmsg.name] = Dir] ELSE remote
       /\ IF raises THEN ReturnRetry ELSE ReturnOk
    /\ UNCHANGED <<zopt, events, local, zqueue, link, zcwd, zfaults>>

Symlink ==
    /\ zpc = "op" /\ zmsg.op = "link"
    /\ LET raises == Broken \/ remote[zmsg.name] # None IN
       /\ remote' = IF Has(zopt.scheme, "symlink") /\ ~raises
                    THEN [remote EXCEPT ![zmsg.name] = Link] ELSE remote
       /\ IF ~Has(zopt.scheme, "symlink") THEN ReturnRejected
          ELSE IF raises THEN ReturnRetry ELSE ReturnOk
    /\ UNCHANGED <<zopt, events, local, zqueue, link, zcwd, zfaults>>

Hardlink ==
    /\ zpc = "op" /\ zmsg.op = "hlink"
    /\ IF Has(zopt.scheme, "link") THEN ReturnOk ELSE ReturnRejected
    /\ UNCHANGED <<zopt, events, local, zqueue, remote, link, zcwd, zfaults>>

(* rename: that of sftp first deletes what has the new name. *)
DeletesFirst(scheme) == Protocol[scheme].deletes

RenameRemote ==
    /\ \/ zpc = "op" /\ zmsg.op = "rename" /\ zpc' = "move"
       \/ zpc = "rename" /\ zpc' = "rename2"
    /\ remote' = IF DeletesFirst(zopt.scheme) /\ ~Broken
                 THEN [remote EXCEPT ![zmsg.name] = None] ELSE remote
    /\ UNCHANGED <<zJob, zattempt, link, zcwd, zlen, zretry, zfaults, zpast>>

Moved(old, new) == [remote EXCEPT ![new] = remote[old], ![old] = None]

(* The old name may be given as a path, which no store finds. *)
Move ==
    /\ zpc = "move"
    /\ \/ /\ Broken \/ remote[zmsg.old] = None \/ IsStore(zopt.scheme)
          /\ UNCHANGED remote
          /\ ReturnRejected
       \/ /\ ~Broken /\ remote[zmsg.old] # None /\ Moves(zopt.scheme)
          /\ remote' = Moved(zmsg.old, zmsg.name)
          /\ ReturnOk
    /\ UNCHANGED <<zopt, events, local, zqueue, link, zcwd, zfaults>>

-----------------------------------------------------------------------------
AfterPut ==
    IF zpc = "put2" THEN "length"
    ELSE IF Inflight = "umask" THEN "put2"
    ELSE IF Inflight = "rename" THEN "rename"
    ELSE "length"

(* What put returned; that of the second put with umask is not looked at. *)
Length(n) == IF zpc = "put" THEN n ELSE zlen

Refused == ~Protocol[zopt.scheme].replaces /\ remote[PutTarget] # None

Put ==
    /\ zpc \in {"put", "put2"}
    /\ ~Broken
    /\ ~Refused
    /\ remote' = [remote EXCEPT ![PutTarget] = FileOf(local[zmsg.name].v, TRUE)]
    /\ zlen' = Length("all")
    /\ zpc' = AfterPut
    /\ local[zmsg.name].kind = "file"
    /\ UNCHANGED <<zJob, zattempt, link, zcwd, zretry, zfaults, zpast>>

HidesAll(scheme) == TRUE

(* put logs an exception, and returns. *)
HidesErrors(scheme) == Protocol[scheme].hides

(* The upload breaks off, or the file is gone by now.  sftp raises; ftp returns what
   it had sent, also when only the data connection broke; a store returns -1 and has
   no object. *)
PutBreaks ==
    /\ zpc \in {"put", "put2"}
    /\ \/ Broken /\ UNCHANGED <<zfaults, link>>
       \/ ~Broken /\ (Refused \/ local[zmsg.name].kind # "file") /\ UNCHANGED <<zfaults, link>>
       \/ /\ ~Broken /\ ~Refused /\ local[zmsg.name].kind = "file"
          /\ ZFault
          /\ link' \in (IF zopt.scheme = "ftp" THEN {"open", "broken"}
                        ELSE IF IsStore(zopt.scheme) THEN {link} ELSE {"broken"})
    /\ LET some == zfaults' # zfaults
           part == [remote EXCEPT ![PutTarget] = FileOf(local[zmsg.name].v, FALSE)] IN
       CASE IsStore(zopt.scheme) ->
                /\ zlen' = Length("-1")
                /\ zpc' = AfterPut
                /\ UNCHANGED <<zmsg, zattempt, remote, zretry, zpast>>
         [] HidesErrors(zopt.scheme) /\ ~IsStore(zopt.scheme) /\ local[zmsg.name].kind = "file" ->
                /\ remote' = IF some THEN part ELSE remote
                /\ zlen' \in (IF some THEN {Length("part"), Length("zero")}
                              ELSE {Length("zero")})
                /\ zpc' = AfterPut
                /\ UNCHANGED <<zmsg, zattempt, zretry, zpast>>
         [] OTHER ->
                /\ remote' = IF some THEN part ELSE remote
                /\ ReturnRetry
    /\ UNCHANGED <<zopt, events, local, zqueue, zcwd>>

(* The inflight file gets its name. *)
RenameInflight ==
    /\ zpc = "rename2"
    /\ LET raises == Broken \/ remote[Temp] = None \/ ~Moves(zopt.scheme) IN
       /\ remote' = IF raises THEN remote ELSE Moved(Temp, zmsg.name)
       /\ IF raises THEN ReturnRetry
          ELSE zpc' = "length" /\ UNCHANGED <<zmsg, zattempt, zlen, zretry, zpast>>
    /\ UNCHANGED <<zopt, events, local, zqueue, link, zcwd, zfaults>>

(* Only a length of zero is a failure; the attributes are set as far as possible. *)
Failed == zlen = "zero"

CheckSent ==
    /\ zpc = "length"
    /\ UNCHANGED remote
    /\ IF Failed THEN ReturnRetry ELSE ReturnOk
    /\ UNCHANGED <<zopt, events, local, zqueue, link, zcwd, zfaults>>

Break ==
    /\ link = "open"
    /\ ~IsStore(zopt.scheme)
    /\ ZFault
    /\ link' = "broken"
    /\ UNCHANGED <<zJob, zpc, zattempt, remote, zcwd, zlen, zretry, zpast>>

InitAs(pc) ==
    /\ zopt \in (IF pc = "off" THEN {CHOOSE o \in SenderOptions : TRUE} ELSE SenderOptions)
    /\ events \in (IF pc = "off" THEN {<<>>} ELSE EventLists)
    /\ zpc = pc /\ zmsg = NoMsg /\ zattempt = 1
    /\ local = [n \in Name |-> None]
    /\ remote = [n \in Name \cup {Temp} |-> None]
    /\ link = "none" /\ zcwd = FALSE /\ zlen = "all"
    /\ zqueue = <<>> /\ zretry = <<>> /\ zfaults = 0
    /\ zpast = [falseOk |-> {}, deferred |-> FALSE, rejected |-> {}]
    /\ overtaken = {} /\ gone = {}

Init == InitAs("idle")

(* The histories.  A put that finds a later version locally than was announced overtakes
   the messages in between, until the message of that version comes. *)
Overtaken ==
    CASE zpc \in {"put", "put2"} ->
             IF local[zmsg.name].v # zmsg.v THEN overtaken \cup {zmsg.name}
             ELSE overtaken \ {zmsg.name}
      [] zpc = "move" ->
             (overtaken \ {zmsg.old, zmsg.name})
             \cup {n \in {zmsg.name} : zmsg.old \in overtaken}
      [] zpc = "op" /\ zmsg.op = "remove" -> overtaken \ {zmsg.name}
      [] OTHER -> overtaken

Histories ==
    /\ overtaken' = Overtaken
    /\ gone' = {n \in Name : remote'[n] = None /\ (n \in gone \/ (zpc = "rename" /\ remote[n] # None))}

Send == /\ \/ DoSend("new") \/ DoSend("retry") \/ Connect \/ Getcwd \/ CdForced \/ StartFile
           \/ Delete \/ Rmdir \/ Mkdir \/ Symlink \/ Hardlink \/ RenameRemote \/ Move \/ Put
           \/ PutBreaks \/ RenameInflight \/ CheckSent
        /\ Histories

Next == Send \/ ((Happen \/ Break) /\ Histories)

(* Every pass of run() takes new messages and retried ones. *)
Fairness ==
    /\ WF_zVars(Send)
    /\ SF_zVars(DoSend("new") /\ Histories)
    /\ SF_zVars(DoSend("retry") /\ Histories)

Spec == Init /\ [][Next]_zVars

FairSpec == Spec /\ Fairness

-----------------------------------------------------------------------------
(* A message in worklist.ok was carried out on the server: for an upload by sftp,
   whatever broke.  The known exceptions: ftp and the object stores hide a failed
   upload, sftp a failed removal and a failed mkdir; the stores make and remove no
   directories, and s3 removes nothing at all. *)
OkMeansDone ==
    zpast.falseOk \subseteq CASE zopt.scheme = "sftp" -> {"remove", "mkdir"}
                             [] zopt.scheme = "ftp" -> {"file"}
                             [] zopt.scheme = "s3" -> {"file", "mkdir", "rmdir", "remove"}
                             [] OTHER -> {"file", "mkdir", "rmdir"}

(* retval > 0 means that the file is on the server ("return >0 -- OK"). *)
OkMeansSent == "file" \notin zpast.falseOk

(* With inflight the final name never holds part of an upload by sftp. *)
SentIsWhole ==
    zopt.scheme = "sftp" /\ Inflight = "rename" => \A n \in Name : remote[n].whole

(* Idle, and nothing more to do. *)
ZSettled == zpc \in {"off", "idle"} /\ events = <<>> /\ zqueue = <<>> /\ zretry = <<>>

(* When no message was put off, rejected or wrongly reported the server ends up with
   what there is locally, and without an inflight file, but for a name that an upload or
   the rename of an upload gave a later version than was announced (overtaken). *)
SentInOrder ==
    ZSettled /\ ~zpast.deferred /\ zpast.rejected = {} /\ zpast.falseOk = {} =>
        remote[Temp] = None /\ \A n \in Name \ overtaken : remote[n] = local[n]

(* sftp's rename of an upload deletes what has the final name, and the connection may
   break before the new file has it.  The server is then without a file that it had,
   but not for good: the upload is under way or in the retry queue until the name is
   there again, whatever else breaks and whatever other messages do, unless cd_forced
   raised and had it rejected. *)
GapIsOwed ==
    \A n \in gone :
        \/ zmsg.op = "file" /\ zmsg.name = n
        \/ \E i \in DOMAIN zretry : zretry[i].op = "file" /\ zretry[i].name = n
        \/ <<"file", n>> \in zpast.rejected

(* A message that cannot be carried out any more is retried until it expires; so is an
   upload with an inflight name to a store that cannot rename it. *)
Hopeless(m) ==
    \/ m.op = "file" /\ local[m.name].kind # "file"
    \/ m.op = "file" /\ Inflight = "rename" /\ ~Moves(zopt.scheme)
    \/ m.op = "rmdir" /\ remote[m.name] # Dir
    \/ m.op = "mkdir" /\ zopt.scheme = "ftp" /\ remote[m.name] # None
    \/ m.op = "link" /\ remote[m.name] # None

AllSent ==
    \/ zpc = "off"
    \/ zpc = "idle" /\ zqueue = <<>> /\ \A i \in DOMAIN zretry : Hopeless(zretry[i])

(* Every other message is sent or rejected in the end. *)
SentInTheEnd == []<>AllSent
=============================================================================
