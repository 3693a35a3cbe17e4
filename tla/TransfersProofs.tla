---------------------------- MODULE TransfersProofs ----------------------------
(***************************************************************************)
(* Proofs about the work of a flow on files, for any number of instances,  *)
(* versions, blocks, servers and files, and any number of broken transfers, *)
(* kills and retries.                                                      *)
(***************************************************************************)
EXTENDS Transfers, ListLemmas

-----------------------------------------------------------------------------
tVars == <<task, dVars, zVars, mVars, bVars, cVars>>

(* A step of the instance is one of the work that the configuration does. *)
LEMMA TransferSteps ==
    ASSUME [Next]_tVars
    PROVE  /\ [D!Next]_dVars /\ [S!Next]_zVars /\ [B!Next]_bVars /\ [C!Next]_cVars
<1>1. CASE UNCHANGED tVars
  BY <1>1 DEF tVars
<1>2. CASE Downloading
  BY <1>2 DEF Downloading
<1>3. CASE Sending
  BY <1>3 DEF Sending
<1>4. CASE Mirroring
  BY <1>4 DEF Mirroring
<1>5. CASE Reassembling
  BY <1>5 DEF Reassembling
<1>6. CASE Connecting
  BY <1>6 DEF Connecting
<1> QED BY <1>1, <1>2, <1>3, <1>4, <1>5, <1>6 DEF Next

-----------------------------------------------------------------------------
(* The connection of an instance.  Past the check the object is connected to the server of the
   message, and after the change of directory it is in the directory; a sender counts on an
   object no more files than it has transferred with it. *)
Object == [made : BOOLEAN, connected : BOOLEAN, sendTo : Server \cup {"none"},
           cwd : RemoteDir \cup {C!Home}, batch : Nat, alive : BOOLEAN]

ConnInv ==
    /\ copt \in ConnOptions /\ proto \in Object /\ used \in Nat /\ cmsg \in [server : Server, dir : RemoteDir]
    /\ misplaced = FALSE
    /\ cpc \in {"cd", "transfer"} => proto.sendTo = cmsg.server
    /\ cpc = "transfer" => proto.cwd = cmsg.dir
    /\ copt.sends =>
          /\ ~early
          /\ ~proto.connected => proto.batch = 0
          /\ cpc = "connect" => ~proto.connected /\ proto.batch = 0
          /\ proto.connected => used >= proto.batch
          /\ proto.connected /\ proto.alive /\ cpc \in {"idle", "check"} => used > proto.batch

(* The classes that count files are those with a connection to break. *)
LEMMA ClassCounts == ASSUME copt \in ConnOptions PROVE (C!Class.counts => C!Class.held) /\ C!Class.stays \in BOOLEAN
<1>1. copt.scheme \in {"sftp", "ftp", "https", "s3", "azure"}
  BY ConnectionAssumption
<1>2. C!Class \in {C!SftpLink, C!FtpLink, C!HttpsLink, C!S3Link, C!AzureLink}
  BY <1>1 DEF C!Class
<1>3. \A k \in {C!SftpLink, C!FtpLink, C!HttpsLink, C!S3Link, C!AzureLink} :
         /\ k.counts \in BOOLEAN /\ k.held \in BOOLEAN /\ k.stays \in BOOLEAN
         /\ k.counts = TRUE => k.held = TRUE
  <2>1. \A c, h, m, s \in BOOLEAN :
           LET k == [held |-> h, counts |-> c, homes |-> m, stays |-> s]
           IN  k.counts = c /\ k.held = h /\ k.stays = s
    OBVIOUS
  <2> QED BY <2>1 DEF C!SftpLink, C!FtpLink, C!HttpsLink, C!S3Link, C!AzureLink
<1> QED BY <1>2, <1>3

(* Every step of the connection, a broken one included. *)
LEMMA ConnStep == ASSUME ConnInv, [C!Next]_cVars PROVE ConnInv'
<1> USE DEF ConnInv
<1>0. /\ C!NoProto \in Object /\ copt.batch \in Nat /\ copt.sends \in BOOLEAN
      /\ C!NoProto.connected = FALSE /\ C!NoProto.batch = 0
  BY ConnectionAssumption DEF Object, C!NoProto
<1>1. CASE UNCHANGED cVars
  BY <1>1 DEF cVars
<1>2. CASE C!NextFile
  BY <1>2 DEF C!NextFile
<1>3. CASE C!CheckIsConnected
  <2> USE DEF C!CheckIsConnected
  <2>1. C!Counted \in Nat /\ (C!Class.counts => C!Counted = proto.batch + 1) /\ (~ C!Class.counts => C!Counted = 0)
    BY DEF C!Counted, Object
  <2>2. CASE ~ proto.connected
    BY <1>0, <1>3, <2>2
  <2>3. CASE proto.connected /\ cpc' = "connect"
    <3>1. proto' \in Object
      BY <1>0, <1>3, <2>1, <2>3, ZenonT(40) DEF Object
    <3>2. copt.sends => ~ early'
      <4> SUFFICES ASSUME copt.sends, early' PROVE FALSE
        OBVIOUS
      <4>1. C!Counted > copt.batch /\ used < copt.batch /\ C!Class.counts
        BY <1>3, <2>3
      <4>2. proto.batch \in Nat /\ used >= proto.batch
        BY <2>3 DEF Object
      <4>3. C!Counted = proto.batch + 1
        BY <2>1, <4>1
      <4> QED BY <1>0, <4>1, <4>2, <4>3
    <3> QED BY <1>0, <1>3, <2>3, <3>1, <3>2
  <2>4. CASE proto.connected /\ cpc' = "cd"
    <3>1. /\ proto' = [proto EXCEPT !.batch = C!Counted, !.cwd = IF C!Class.homes THEN C!Home ELSE @]
          /\ proto.sendTo = cmsg.server /\ (C!Class.held => proto.alive)
          /\ cpc = "check" /\ UNCHANGED <<copt, cmsg, used, misplaced, early>>
      BY <1>3, <2>4 DEF C!SameServer
    <3>2. proto' \in Object /\ UNCHANGED <<proto.connected, proto.sendTo, proto.alive>> /\ proto'.batch = C!Counted
      BY <2>1, <3>1 DEF Object
    <3>3. copt.sends => used >= C!Counted
      BY <2>1, <2>4, <3>1, ClassCounts DEF Object
    <3> QED BY <2>4, <3>1, <3>2, <3>3
  <2>5. cpc' \in {"connect", "cd"}
    BY <1>3
  <2> QED BY <1>3, <2>2, <2>3, <2>4, <2>5
<1>4. CASE C!Connect
  <2>0. /\ cpc = "connect" /\ cmsg' = cmsg /\ copt' = copt /\ UNCHANGED <<misplaced, early>>
        /\ cmsg.server \in Server /\ cmsg.dir \in RemoteDir
    BY <1>4 DEF C!Connect
  <2>1. C!Class.stays \in BOOLEAN
    BY ClassCounts
  <2>2. \A b \in BOOLEAN : [proto EXCEPT !.made = TRUE, !.connected = b, !.sendTo = cmsg.server, !.cwd = C!Home,
                                        !.alive = TRUE] \in Object
    BY <2>0 DEF Object
  <2>3. [proto EXCEPT !.made = TRUE, !.sendTo = cmsg.server] \in Object
    BY <2>0 DEF Object
  <2>4. CASE cpc' = "cd"
    <3>1. /\ proto' = [proto EXCEPT !.made = TRUE, !.connected = C!Class.stays, !.sendTo = cmsg.server,
                                    !.cwd = C!Home, !.alive = TRUE]
          /\ used' = 0
      BY <1>4, <2>4 DEF C!Connect
    <3>2. proto'.batch = proto.batch /\ proto'.sendTo = cmsg.server /\ proto' \in Object
      BY <2>1, <2>2, <3>1 DEF Object
    <3> QED BY <2>0, <2>4, <3>1, <3>2
  <2>5. CASE cpc' = "idle"
    <3>1. /\ proto' = (IF copt.sends THEN [proto EXCEPT !.made = TRUE, !.sendTo = cmsg.server] ELSE C!NoProto)
          /\ used' = used
      BY <1>4, <2>5 DEF C!Connect
    <3>2. proto' \in Object /\ (copt.sends => proto'.batch = proto.batch /\ proto'.connected = proto.connected)
      BY <1>0, <2>3, <3>1 DEF Object
    <3> QED BY <2>0, <2>5, <3>1, <3>2
  <2> QED BY <1>4, <2>4, <2>5 DEF C!Connect
<1>5. CASE C!Cd
  BY <1>0, <1>5 DEF C!Cd, Object
<1>6. CASE C!TransferOne
  BY <1>0, <1>6 DEF C!TransferOne, Object
<1>7. CASE C!CloseOnProblem
  BY <1>0, <1>7 DEF C!CloseOnProblem, C!CFault
<1>8. CASE C!BreakConnection
  BY <1>0, <1>8 DEF C!BreakConnection, Object, C!CFault
<1> QED BY <1>1, <1>2, <1>3, <1>4, <1>5, <1>6, <1>7, <1>8 DEF C!Next

(* One connection serves many messages: a file goes to the server and the directory that its
   message names, whatever an earlier one left behind, and a sender gives up no connection
   before batch files (the beginning of download and send, check_is_connected of each class). *)
THEOREM ConnectionServes == Spec => []ConnectionRight
<1>1. Init => ConnInv
  <2>1. ASSUME NEW pc \in {"off", "idle"}, C!InitAs(pc) PROVE ConnInv
    <3>1. C!NoProto \in Object /\ C!NoProto.connected = FALSE /\ C!NoProto.batch = 0 /\ copt \in ConnOptions
      BY <2>1, ConnectionAssumption DEF C!InitAs, Object, C!NoProto
    <3>3. cmsg \in [server : Server, dir : RemoteDir]
      <4>1. \E m \in [server : Server, dir : RemoteDir] : TRUE
        <5>1. PICK s \in Server, d \in RemoteDir : TRUE
          BY ConnectionAssumption
        <5>2. [server |-> s, dir |-> d] \in [server : Server, dir : RemoteDir]
          OBVIOUS
        <5> QED BY <5>2
      <4> QED BY <2>1, <4>1 DEF C!InitAs
    <3>2. cpc = pc /\ proto = C!NoProto /\ used = 0 /\ misplaced = FALSE /\ early = FALSE
      BY <2>1 DEF C!InitAs
    <3> QED BY <3>1, <3>2, <3>3 DEF ConnInv
  <2> QED BY <2>1 DEF Init
<1>2. ConnInv /\ [Next]_tVars => ConnInv'
  BY TransferSteps, ConnStep
<1>3. ConnInv => ConnectionRight
  BY DEF ConnInv, ConnectionRight, RightPlace, KeptForABatch, C!RightPlace, C!KeptForABatch
<1> QED BY <1>1, <1>2, <1>3, PTL DEF Spec, tVars

-----------------------------------------------------------------------------
(* The sender.  What is in the name of an inflight file is whole by the time it gets its name;
   with sftp, an upload that came to the end without an exception is on the server. *)
Op == {"file", "remove", "rename", "mkdir", "rmdir", "link", "hlink"}
EventMsg == {m \in [op : Op, name : S!Name, old : S!Name, v : Nat] : m.op = "rename" => m.old # m.name}
Entry == [kind : {"none", "dir", "link", "file"}, v : Nat, whole : BOOLEAN]
Past == [falseOk : SUBSET Op, deferred : BOOLEAN, rejected : SUBSET (Op \X S!Name)]
WholeFile(x) == x.kind = "file" /\ x.whole = TRUE

(* What may be reported as done and was not, by protocol. *)
KnownFalse ==
    IF zopt.scheme = "sftp" THEN {"remove", "mkdir"}
    ELSE IF zopt.scheme = "ftp" THEN {"file"}
    ELSE IF zopt.scheme = "s3" THEN {"file", "mkdir", "rmdir", "remove"} ELSE {"file", "mkdir", "rmdir"}

SendType ==
    /\ zopt \in SenderOptions
    /\ events \in Seq(EventMsg) /\ zqueue \in Seq(EventMsg) /\ zretry \in Seq(EventMsg)
    /\ zmsg \in EventMsg \cup {S!NoMsg} /\ (zpc \notin {"off", "idle"} => zmsg \in EventMsg)
    /\ local \in [S!Name -> Entry] /\ remote \in [S!Name \cup {S!Temp} -> Entry]
    /\ zpast \in Past
    /\ (zpc \in {"off", "idle"} => zmsg = S!NoMsg)

SendInv ==
    /\ SendType
    /\ zpast.falseOk \subseteq KnownFalse
    /\ zpc = "move" => zmsg.op = "rename"
    /\ zpc \in {"put", "put2", "rename", "rename2", "length"} => zmsg.op = "file"
    /\ zopt.scheme = "sftp" =>
          /\ zpc # "put2"
          /\ zpc \in {"rename", "rename2"} => zlen = "all" /\ WholeFile(remote[S!Temp])
          /\ zpc = "length" => zlen = "all" /\ WholeFile(remote[zmsg.name])
          /\ S!Inflight = "rename" => \A n \in S!Name : remote[n].whole = TRUE

(* The classes of transfer/ that can send. *)
LEMMA SchemeFacts ==
    ASSUME NEW s \in {"sftp", "ftp", "s3", "azure", "azuresas"}
    PROVE  /\ S!IsStore(s) <=> s \in {"s3", "azure", "azuresas"}
           /\ S!DeletesFirst(s) <=> s = "sftp"
           /\ S!HidesErrors(s) <=> s # "sftp"
           /\ S!Has(s, "symlink") <=> s = "sftp"
           /\ S!Has(s, "umask") <=> s # "sftp"
           /\ ~ S!Has(s, "link")
<1>1. /\ S!Protocol["sftp"] = S!SftpPut /\ S!Protocol["ftp"] = S!FtpPut
      /\ S!Protocol["s3"] = S!S3Put /\ S!Protocol["azure"] = S!AzurePut
      /\ S!Protocol["azuresas"] = S!AzureSasPut
  BY DEF S!Protocol
<1>2. /\ S!AzurePut.methods = S!S3Put.methods /\ S!AzurePut.store = S!S3Put.store
      /\ S!AzurePut.hides = S!S3Put.hides /\ S!AzurePut.deletes = S!S3Put.deletes
      /\ S!AzureSasPut.methods = S!S3Put.methods /\ S!AzureSasPut.store = S!S3Put.store
      /\ S!AzureSasPut.hides = S!S3Put.hides /\ S!AzureSasPut.deletes = S!S3Put.deletes
  BY DEF S!AzureSasPut, S!AzurePut, S!S3Put
<1>3. CASE s = "sftp"
  BY <1>1, <1>3 DEF S!SftpPut, S!IsStore, S!DeletesFirst, S!HidesErrors, S!Has
<1>4. CASE s = "ftp"
  BY <1>1, <1>4 DEF S!FtpPut, S!IsStore, S!DeletesFirst, S!HidesErrors, S!Has
<1>5. ASSUME NEW p, S!Protocol[s] = p, s \in {"s3", "azure", "azuresas"},
             p.methods = S!S3Put.methods, p.store = S!S3Put.store, p.hides = S!S3Put.hides,
             p.deletes = S!S3Put.deletes
      PROVE  /\ S!IsStore(s) /\ ~ S!DeletesFirst(s) /\ S!HidesErrors(s) /\ ~ S!Has(s, "symlink")
             /\ S!Has(s, "umask") /\ ~ S!Has(s, "link")
  BY <1>5 DEF S!S3Put, S!IsStore, S!DeletesFirst, S!HidesErrors, S!Has
<1>6. CASE s = "s3"
  BY <1>1, <1>5, <1>6
<1>7. CASE s = "azure"
  BY <1>1, <1>2, <1>5, <1>7
<1>8. CASE s = "azuresas"
  BY <1>1, <1>2, <1>5, <1>8
<1> QED BY <1>3, <1>4, <1>6, <1>7, <1>8

(* What there is by a name. *)
LEMMA EntryFacts ==
    /\ S!None \in Entry /\ S!Dir \in Entry /\ S!Link \in Entry
    /\ S!None.whole = TRUE /\ S!Dir.whole = TRUE /\ S!Link.whole = TRUE
    /\ S!Dir # S!None /\ S!Link # S!None
    /\ \A v \in Nat, w \in BOOLEAN :
          S!FileOf(v, w) \in Entry /\ S!FileOf(v, w).kind = "file" /\ S!FileOf(v, w).whole = w
    /\ \A x \in Entry : x.kind = "file" => x # S!None
    /\ S!Temp \notin S!Name
BY DEF S!None, S!Dir, S!Link, S!FileOf, Entry, S!Temp, S!Name

(* send returned: the message was reported, or is tried again. *)
Ended ==
    /\ (zpc' = "idle" /\ zmsg' = S!NoMsg) \/ (zpc' = "connect" /\ zmsg' = zmsg)
    /\ zretry' \in Seq(EventMsg)
    /\ zpast' \in Past
    /\ zpast'.falseOk \subseteq KnownFalse

(* The three ways to return. *)
LEMMA ReturnFacts ==
    ASSUME SendInv, zpc \notin {"off", "idle"}
    PROVE  /\ S!ReturnRejected => Ended
           /\ S!ReturnRetry => Ended
           /\ S!ReturnOk /\ (zmsg.op \in KnownFalse \/ S!Done(zmsg, remote')) => Ended
<1>1. zmsg \in EventMsg /\ zmsg.op \in Op /\ zretry \in Seq(EventMsg)
      /\ zmsg.name \in S!Name /\ zpast \in Past /\ zpast.falseOk \subseteq KnownFalse
  BY DEF SendInv, SendType, EventMsg
<1> DEFINE no == [zpast EXCEPT !.rejected = @ \cup {<<zmsg.op, zmsg.name>>}]
           late == [zpast EXCEPT !.deferred = TRUE]
           false == [zpast EXCEPT !.falseOk = @ \cup {zmsg.op}]
<1>2. /\ no \in Past /\ no.falseOk = zpast.falseOk
      /\ late \in Past /\ late.falseOk = zpast.falseOk
      /\ false \in Past /\ false.falseOk = zpast.falseOk \cup {zmsg.op}
  <2>1. zpast.rejected \cup {<<zmsg.op, zmsg.name>>} \in SUBSET (Op \X S!Name)
    BY <1>1 DEF Past
  <2>2. no \in Past /\ no.falseOk = zpast.falseOk
    BY <1>1, <2>1 DEF Past
  <2>3. late \in Past /\ late.falseOk = zpast.falseOk
    BY <1>1 DEF Past
  <2>4. false \in Past /\ false.falseOk = zpast.falseOk \cup {zmsg.op}
    BY <1>1 DEF Past
  <2> QED BY <2>2, <2>3, <2>4
<1>3. S!ReturnRejected => Ended
  BY <1>1, <1>2 DEF S!ReturnRejected, S!Clear, Ended
<1>4. S!ReturnRetry => Ended
  <2>1. Append(zretry, zmsg) \in Seq(EventMsg)
    BY <1>1
  <2> QED BY <1>1, <1>2, <2>1 DEF S!ReturnRetry, S!Clear, Ended
<1>5. ASSUME S!ReturnOk, zmsg.op \in KnownFalse \/ S!Done(zmsg, remote') PROVE Ended
  <2>1. zpast' = zpast \/ (zpast' = [zpast EXCEPT !.falseOk = @ \cup {zmsg.op}] /\ zmsg.op \in KnownFalse)
    BY <1>5 DEF S!ReturnOk
  <2>2. zpc' = "idle" /\ zmsg' = S!NoMsg /\ zretry' = zretry
    BY <1>5 DEF S!ReturnOk, S!Clear
  <2> QED BY <1>1, <1>2, <2>1, <2>2 DEF Ended
<1> QED BY <1>3, <1>4, <1>5

(* What holds when send has returned. *)
LEMMA EndedStep ==
    ASSUME SendInv, zpc \notin {"off", "idle"}, Ended, UNCHANGED <<zopt, events, local, zqueue>>,
           remote' \in [S!Name \cup {S!Temp} -> Entry],
           zopt.scheme = "sftp" /\ S!Inflight = "rename" => \A n \in S!Name : remote'[n].whole = TRUE
    PROVE  SendInv'
<1>1. S!Inflight' = S!Inflight /\ KnownFalse' = KnownFalse
  BY DEF S!Inflight, KnownFalse
<1> QED BY <1>1 DEF SendInv, SendType, Ended

(* The directory and the messages of a pass; the connection; the beginning of an upload. *)
LEMMA SendQuiet ==
    ASSUME SendInv,
           \/ S!Happen \/ S!DoSend("new") \/ S!DoSend("retry") \/ S!Connect \/ S!Getcwd
           \/ S!CdForced \/ S!StartFile \/ S!Break \/ UNCHANGED zVars
    PROVE  SendInv'
<1> USE DEF SendInv, SendType
<1>0. remote \in [S!Name \cup {S!Temp} -> Entry]
      /\ (zopt.scheme = "sftp" /\ S!Inflight = "rename" => \A n \in S!Name : remote[n].whole = TRUE)
  OBVIOUS
<1>1. CASE S!Happen
  <2>1. Head(events) \in EventMsg /\ Tail(events) \in Seq(EventMsg)
        /\ Append(zqueue, Head(events)) \in Seq(EventMsg)
    BY <1>1 DEF S!Happen
  <2>2. S!Apply(local, Head(events)) \in [S!Name -> Entry]
    <3>1. Head(events).name \in S!Name /\ Head(events).old \in S!Name /\ Head(events).v \in Nat
      BY <2>1 DEF EventMsg
    <3>2. S!FileOf(Head(events).v, TRUE) \in Entry
      BY <3>1, EntryFacts
    <3> QED BY <3>1, <3>2, EntryFacts DEF S!Apply
  <2>3. S!Inflight' = S!Inflight /\ KnownFalse' = KnownFalse
    BY <1>1 DEF S!Happen, S!Inflight, KnownFalse
  <2> QED BY <1>1, <2>1, <2>2, <2>3 DEF S!Happen
<1>2. CASE S!DoSend("new") \/ S!DoSend("retry")
  <2>1. S!Inflight' = S!Inflight /\ KnownFalse' = KnownFalse
    BY <1>2 DEF S!DoSend, S!Inflight, KnownFalse
  <2>2. /\ zmsg' \in EventMsg /\ zqueue' \in Seq(EventMsg) /\ zretry' \in Seq(EventMsg)
        /\ zpc' = "connect"
    <3>1. \A q \in Seq(EventMsg) : q # <<>> => Head(q) \in EventMsg /\ Tail(q) \in Seq(EventMsg)
      OBVIOUS
    <3>2. CASE S!DoSend("new")
      BY <3>1, <3>2 DEF S!DoSend
    <3>3. CASE S!DoSend("retry")
      BY <3>1, <3>3 DEF S!DoSend
    <3> QED BY <1>2, <3>2, <3>3
  <2>3. UNCHANGED <<zopt, events, local, remote, zpast>>
    BY <1>2 DEF S!DoSend
  <2> QED BY <2>1, <2>2, <2>3
<1>3. CASE S!Connect
  <2>0. zpc \notin {"off", "idle"} /\ UNCHANGED <<zopt, events, local, zqueue, remote>>
    BY <1>3 DEF S!Connect
  <2>1. CASE S!ReturnRetry
    BY <1>0, <2>0, <2>1, ReturnFacts, EndedStep
  <2>2. CASE zpc' = "cwd" /\ UNCHANGED <<zmsg, zretry, zpast>>
    BY <2>0, <2>2 DEF S!Inflight, KnownFalse
  <2> QED BY <1>3, <2>1, <2>2 DEF S!Connect
<1>4. CASE S!Getcwd
  <2>0. zpc \notin {"off", "idle"} /\ UNCHANGED <<zopt, events, local, zqueue, remote>>
    BY <1>4 DEF S!Getcwd
  <2>1. CASE S!ReturnRetry
    BY <1>0, <2>0, <2>1, ReturnFacts, EndedStep
  <2>2. CASE zpc' \in {"op", "cd"} /\ UNCHANGED <<zmsg, zretry, zpast>>
    BY <2>0, <2>2 DEF S!Inflight, KnownFalse
  <2> QED BY <1>4, <2>1, <2>2 DEF S!Getcwd
<1>5. CASE S!CdForced
  <2>0. zpc \notin {"off", "idle"} /\ UNCHANGED <<zopt, events, local, zqueue, remote>>
    BY <1>5 DEF S!CdForced
  <2>1. CASE S!ReturnRejected
    BY <1>0, <2>0, <2>1, ReturnFacts, EndedStep
  <2>2. CASE zpc' = "op" /\ UNCHANGED <<zmsg, zretry, zpast>>
    BY <2>0, <2>2 DEF S!Inflight, KnownFalse
  <2> QED BY <1>5, <2>1, <2>2 DEF S!CdForced
<1>6. CASE S!StartFile
  <2>0. zpc \notin {"off", "idle"} /\ UNCHANGED <<zopt, events, local, zqueue, remote>> /\ zmsg.op = "file"
    BY <1>6 DEF S!StartFile
  <2>1. CASE S!ReturnRetry
    BY <1>0, <2>0, <2>1, ReturnFacts, EndedStep
  <2>2. CASE zpc' = "put" /\ UNCHANGED <<zmsg, zretry, zpast>>
    BY <2>0, <2>2 DEF S!Inflight, KnownFalse
  <2> QED BY <1>6, <2>1, <2>2 DEF S!StartFile
<1>7. CASE S!Break \/ UNCHANGED zVars
  BY <1>7 DEF S!Break, S!zJob, zVars, S!Inflight, KnownFalse
<1> QED BY <1>1, <1>2, <1>3, <1>4, <1>5, <1>6, <1>7

(* The message at hand, when the operation is not on a file. *)
LEMMA MsgFacts ==
    ASSUME SendInv, zpc \notin {"off", "idle"}
    PROVE  /\ zmsg \in EventMsg /\ zmsg.name \in S!Name /\ zmsg.old \in S!Name /\ zmsg.op \in Op
           /\ zmsg.op = "rename" => zmsg.old # zmsg.name
           /\ remote \in [S!Name \cup {S!Temp} -> Entry] /\ local \in [S!Name -> Entry]
           /\ zopt.scheme \in {"sftp", "ftp", "s3", "azure", "azuresas"} /\ zopt.inflight \in {"none", "rename", "umask"}
           /\ zmsg # S!NoMsg
BY SenderAssumption DEF SendInv, SendType, EventMsg, S!NoMsg, Op

(* What an operation leaves by its names. *)
LEMMA EntryChange ==
    ASSUME SendInv, zpc \notin {"off", "idle"}, NEW n \in S!Name \cup {S!Temp}, NEW x \in Entry,
           x.whole = TRUE \/ n = S!Temp
    PROVE  LET r == [remote EXCEPT ![n] = x]
           IN  /\ r \in [S!Name \cup {S!Temp} -> Entry] /\ r[n] = x
               /\ \A k \in S!Name \cup {S!Temp} : k # n => r[k] = remote[k]
               /\ zopt.scheme = "sftp" /\ S!Inflight = "rename" => \A k \in S!Name : r[k].whole = TRUE
<1>1. remote \in [S!Name \cup {S!Temp} -> Entry] /\ S!Temp \notin S!Name
  BY MsgFacts, EntryFacts
<1>2. zopt.scheme = "sftp" /\ S!Inflight = "rename" => \A k \in S!Name : remote[k].whole = TRUE
  BY DEF SendInv
<1> QED BY <1>1, <1>2

(* The operations other than an upload. *)
LEMMA SendOther ==
    ASSUME SendInv, S!Delete \/ S!Rmdir \/ S!Mkdir \/ S!Symlink \/ S!Hardlink
    PROVE  SendInv'
<1>0. /\ zpc \notin {"off", "idle"} /\ UNCHANGED <<zopt, events, local, zqueue>>
  BY DEF S!Delete, S!Rmdir, S!Mkdir, S!Symlink, S!Hardlink
<1> DEFINE r(x) == [remote EXCEPT ![zmsg.name] = x]
           Fine(f) == /\ f \in [S!Name \cup {S!Temp} -> Entry]
                      /\ zopt.scheme = "sftp" /\ S!Inflight = "rename" => \A k \in S!Name : f[k].whole = TRUE
<1>1. /\ Fine(remote) /\ Fine(r(S!None)) /\ Fine(r(S!Dir)) /\ Fine(r(S!Link))
      /\ r(S!None)[zmsg.name] = S!None /\ r(S!Dir)[zmsg.name] = S!Dir /\ r(S!Link)[zmsg.name] = S!Link
  <2>1. Fine(remote)
    BY <1>0, MsgFacts DEF SendInv
  <2> QED BY <1>0, <2>1, MsgFacts, EntryFacts, EntryChange
<1>2. ASSUME Fine(remote'), Ended PROVE SendInv'
  BY <1>0, <1>2, EndedStep
<1> HIDE DEF Fine
<1>3. CASE S!Delete
  <2>1. remote' \in {remote, r(S!None)} /\ zmsg.op = "remove"
    BY <1>3 DEF S!Delete
  <2>2. CASE S!ReturnRejected
    BY <1>0, <1>1, <1>2, <2>1, <2>2, ReturnFacts
  <2>3. CASE S!ReturnOk /\ ~ (S!Broken /\ zopt.scheme = "ftp") /\ zopt.scheme \notin {"azure", "azuresas"}
    <3>1. zopt.scheme = "ftp" => remote' = r(S!None)
      BY <1>3, <2>3, SchemeFacts DEF S!Delete
    <3>2. zmsg.op \in KnownFalse \/ S!Done(zmsg, remote')
      BY <1>0, <1>1, <2>1, <2>3, <3>1, MsgFacts DEF S!Done, KnownFalse
    <3> QED BY <1>0, <1>1, <1>2, <2>1, <2>3, <3>2, ReturnFacts
  <2> QED BY <1>3, <2>2, <2>3 DEF S!Delete
<1>4. CASE S!Rmdir
  <2>1. remote' \in {remote, r(S!None)} /\ zmsg.op = "rmdir"
    BY <1>4 DEF S!Rmdir
  <2>2. CASE S!ReturnRetry
    BY <1>0, <1>1, <1>2, <2>1, <2>2, ReturnFacts
  <2>3. CASE S!ReturnOk /\ (~ S!IsStore(zopt.scheme) => remote' = r(S!None))
    <3>1. zmsg.op \in KnownFalse \/ S!Done(zmsg, remote')
      BY <1>0, <1>1, <2>1, <2>3, MsgFacts, SchemeFacts DEF S!Done, KnownFalse
    <3> QED BY <1>0, <1>1, <1>2, <2>1, <2>3, <3>1, ReturnFacts
  <2> QED BY <1>4, <2>2, <2>3 DEF S!Rmdir
<1>5. CASE S!Mkdir
  <2>1. remote' \in {remote, r(S!Dir)} /\ zmsg.op = "mkdir"
    BY <1>5 DEF S!Mkdir
  <2>2. CASE S!ReturnRetry
    BY <1>0, <1>1, <1>2, <2>1, <2>2, ReturnFacts
  <2>3. CASE S!ReturnOk /\ (zopt.scheme = "ftp" => remote' = r(S!Dir))
    <3>1. zmsg.op \in KnownFalse \/ S!Done(zmsg, remote')
      BY <1>1, <2>1, <2>3 DEF S!Done, KnownFalse
    <3> QED BY <1>0, <1>1, <1>2, <2>1, <2>3, <3>1, ReturnFacts
  <2>4. zopt.scheme = "ftp" => ~ S!IsStore(zopt.scheme)
    BY SchemeFacts
  <2> QED BY <1>5, <2>2, <2>3, <2>4 DEF S!Mkdir
<1>6. CASE S!Symlink
  <2>1. remote' \in {remote, r(S!Link)} /\ zmsg.op = "link"
    BY <1>6 DEF S!Symlink
  <2>2. CASE S!ReturnRetry \/ S!ReturnRejected
    BY <1>0, <1>1, <1>2, <2>1, <2>2, ReturnFacts
  <2>3. CASE S!ReturnOk /\ remote' = r(S!Link)
    <3>1. S!Done(zmsg, remote')
      BY <1>1, <2>1, <2>3 DEF S!Done
    <3> QED BY <1>0, <1>1, <1>2, <2>1, <2>3, <3>1, ReturnFacts
  <2> QED BY <1>6, <2>2, <2>3 DEF S!Symlink
<1>7. CASE S!Hardlink
  <2>1. remote' = remote /\ S!ReturnRejected
    BY <1>0, <1>7, MsgFacts, SchemeFacts DEF S!Hardlink
  <2> QED BY <1>0, <1>1, <1>2, <2>1, ReturnFacts
<1> QED BY <1>3, <1>4, <1>5, <1>6, <1>7

(* The two steps of a rename, of a message about one. *)
LEMMA SendRename == ASSUME SendInv, S!RenameRemote \/ S!Move PROVE SendInv'
<1>0. /\ zpc \notin {"off", "idle"} /\ UNCHANGED <<zopt, events, local, zqueue>>
      /\ remote \in [S!Name \cup {S!Temp} -> Entry] /\ zmsg \in EventMsg
      /\ zmsg.name \in S!Name /\ zmsg.old \in S!Name /\ S!Temp \notin S!Name
      /\ S!Inflight' = S!Inflight /\ KnownFalse' = KnownFalse
  <2>1. /\ zpc \notin {"off", "idle"} /\ UNCHANGED <<zopt, events, local, zqueue>>
    BY DEF S!RenameRemote, S!Move, S!zJob
  <2> QED BY <2>1, MsgFacts, EntryFacts DEF S!Inflight, KnownFalse
<1>1. CASE S!RenameRemote
  <2>1. remote' = remote \/ remote' = [remote EXCEPT ![zmsg.name] = S!None]
    BY <1>1 DEF S!RenameRemote
  <2>2. /\ remote' \in [S!Name \cup {S!Temp} -> Entry] /\ remote'[S!Temp] = remote[S!Temp]
        /\ zopt.scheme = "sftp" /\ S!Inflight = "rename" => \A k \in S!Name : remote'[k].whole = TRUE
    BY <1>0, <2>1, EntryFacts, EntryChange DEF SendInv
  <2>3. UNCHANGED <<zmsg, zretry, zlen, zpast>>
    BY <1>1 DEF S!RenameRemote, S!zJob
  <2>4. (zpc' = "move" /\ zmsg.op = "rename") \/ (zpc' = "rename2" /\ zpc = "rename")
    BY <1>1 DEF S!RenameRemote
  <2> QED BY <1>0, <2>2, <2>3, <2>4 DEF SendInv, SendType, WholeFile
<1>2. CASE S!Move
  <2>1. zmsg.op = "rename" /\ zmsg.old # zmsg.name
    BY <1>0, <1>2, MsgFacts DEF SendInv, S!Move
  <2> DEFINE r == [remote EXCEPT ![zmsg.name] = remote[zmsg.old], ![zmsg.old] = S!None]
  <2>2. /\ r \in [S!Name \cup {S!Temp} -> Entry] /\ r[zmsg.name] = remote[zmsg.old] /\ r[zmsg.old] = S!None
        /\ \A k \in S!Name : r[k] \in {remote[k], remote[zmsg.old], S!None}
    BY <1>0, <2>1, EntryFacts
  <2>3. zopt.scheme = "sftp" /\ S!Inflight = "rename" =>
            (\A k \in S!Name : r[k].whole = TRUE) /\ (\A k \in S!Name : remote[k].whole = TRUE)
    BY <1>0, <2>2, EntryFacts DEF SendInv
  <2>4. CASE S!ReturnRejected /\ remote' = remote
    BY <1>0, <2>3, <2>4, ReturnFacts, EndedStep
  <2>5. CASE S!ReturnOk /\ remote' = r /\ remote[zmsg.old] # S!None
    <3>1. S!Done(zmsg, remote')
      BY <2>1, <2>2, <2>5 DEF S!Done
    <3> QED BY <1>0, <2>2, <2>3, <2>5, <3>1, ReturnFacts, EndedStep
  <2> QED BY <1>2, <2>4, <2>5 DEF S!Move, S!Moved
<1> QED BY <1>1, <1>2

(* An upload, the rename of its inflight file, and the check of its length. *)
LEMMA SendFile ==
    ASSUME SendInv, S!Put \/ S!PutBreaks \/ S!RenameInflight \/ S!CheckSent PROVE SendInv'
<1>0. /\ zpc \notin {"off", "idle"} /\ UNCHANGED <<zopt, events, local, zqueue>>
      /\ remote \in [S!Name \cup {S!Temp} -> Entry] /\ local \in [S!Name -> Entry]
      /\ zmsg \in EventMsg /\ zmsg.name \in S!Name /\ S!Temp \notin S!Name /\ zmsg.op = "file"
      /\ S!Inflight' = S!Inflight /\ KnownFalse' = KnownFalse
      /\ zopt.scheme \in {"sftp", "ftp", "s3", "azure", "azuresas"}
  <2>1. /\ zpc \in {"put", "put2", "rename2", "length"} /\ UNCHANGED <<zopt, events, local, zqueue>>
    BY DEF S!Put, S!PutBreaks, S!RenameInflight, S!CheckSent, S!zJob
  <2> QED BY <2>1, MsgFacts, EntryFacts DEF SendInv, S!Inflight, KnownFalse
<1>1. /\ S!PutTarget \in S!Name \cup {S!Temp} /\ (S!Inflight = "rename" => S!PutTarget = S!Temp)
      /\ (S!Inflight # "rename" => S!PutTarget = zmsg.name) /\ local[zmsg.name].v \in Nat
  BY <1>0 DEF S!PutTarget, Entry
<1>2. zopt.scheme = "sftp" => S!Inflight \in {"none", "rename"}
  BY <1>0, MsgFacts, SchemeFacts DEF S!Inflight
<1>3. S!AfterPut \in {"length", "put2", "rename"}
      /\ (zopt.scheme = "sftp" /\ zpc = "put" =>
              S!AfterPut = IF S!Inflight = "rename" THEN "rename" ELSE "length")
  BY <1>2 DEF S!AfterPut
<1> DEFINE Put(w) == [remote EXCEPT ![S!PutTarget] = S!FileOf(local[zmsg.name].v, w)]
<1>4. \A w \in BOOLEAN :
         /\ Put(w) \in [S!Name \cup {S!Temp} -> Entry] /\ Put(w)[S!PutTarget].kind = "file"
         /\ Put(w)[S!PutTarget].whole = w
         /\ (w = TRUE \/ S!Inflight = "rename") /\ zopt.scheme = "sftp" /\ S!Inflight = "rename" =>
                \A k \in S!Name : Put(w)[k].whole = TRUE
  <2> SUFFICES ASSUME NEW w \in BOOLEAN
               PROVE  /\ Put(w) \in [S!Name \cup {S!Temp} -> Entry] /\ Put(w)[S!PutTarget].kind = "file"
                      /\ Put(w)[S!PutTarget].whole = w
                      /\ zopt.scheme = "sftp" /\ S!Inflight = "rename" => \A k \in S!Name : Put(w)[k].whole = TRUE
    OBVIOUS
  <2>1. S!FileOf(local[zmsg.name].v, w) \in Entry /\ S!FileOf(local[zmsg.name].v, w).kind = "file"
        /\ S!FileOf(local[zmsg.name].v, w).whole = w
    BY <1>1, EntryFacts
  <2>2. Put(w) \in [S!Name \cup {S!Temp} -> Entry] /\ Put(w)[S!PutTarget] = S!FileOf(local[zmsg.name].v, w)
    BY <1>0, <1>1, <2>1
  <2>3. zopt.scheme = "sftp" /\ S!Inflight = "rename" => \A k \in S!Name : Put(w)[k] = remote[k] /\ remote[k].whole = TRUE
    BY <1>0, <1>1 DEF SendInv
  <2> QED BY <2>1, <2>2, <2>3
<1> HIDE DEF Put
<1>5. CASE S!Put
  <2>1. remote' = Put(TRUE) /\ zlen' = S!Length("all") /\ zpc' = S!AfterPut /\ UNCHANGED <<zmsg, zretry, zpast>>
        /\ zpc \in {"put", "put2"}
    BY <1>5 DEF S!Put, S!zJob, Put
  <2>2. zopt.scheme = "sftp" => zpc = "put" /\ zlen' = "all"
    BY <2>1 DEF SendInv, S!Length
  <2>3. remote' \in [S!Name \cup {S!Temp} -> Entry] /\ WholeFile(remote'[S!PutTarget])
        /\ (zopt.scheme = "sftp" /\ S!Inflight = "rename" => \A k \in S!Name : remote'[k].whole = TRUE)
    BY <1>4, <2>1 DEF WholeFile
  <2>4. zpc' # "move" /\ zpc' \notin {"off", "idle"}
    BY <1>3, <2>1
  <2>5. zopt.scheme = "sftp" /\ zpc' = "length" => WholeFile(remote'[zmsg.name])
    BY <1>1, <1>2, <1>3, <2>1, <2>2, <2>3
  <2>6. zopt.scheme = "sftp" => zpc' \notin {"put2", "rename2"} /\ (zpc' = "rename" => WholeFile(remote'[S!Temp]))
    BY <1>1, <1>2, <1>3, <2>1, <2>2, <2>3
  <2> QED BY <1>0, <2>1, <2>2, <2>3, <2>4, <2>5, <2>6 DEF SendInv, SendType, WholeFile
<1>6. CASE S!PutBreaks
  <2>1. remote' \in {remote, Put(FALSE)} /\ zpc \in {"put", "put2"}
    BY <1>6 DEF S!PutBreaks, Put
  <2>2. /\ remote' \in [S!Name \cup {S!Temp} -> Entry]
        /\ zopt.scheme = "sftp" /\ S!Inflight = "rename" => \A k \in S!Name : remote'[k].whole = TRUE
    BY <1>0, <1>4, <2>1 DEF SendInv
  <2>3. CASE S!ReturnRetry
    BY <1>0, <2>2, <2>3, ReturnFacts, EndedStep
  <2>4. CASE zpc' = S!AfterPut /\ UNCHANGED <<zmsg, zretry, zpast>> /\ zopt.scheme # "sftp"
    BY <1>0, <1>3, <2>2, <2>4 DEF SendInv, SendType
  <2> QED BY <1>0, <1>6, <2>3, <2>4, SchemeFacts DEF S!PutBreaks
<1>7. CASE S!RenameInflight
  <2> DEFINE r == [remote EXCEPT ![zmsg.name] = remote[S!Temp], ![S!Temp] = S!None]
  <2>1. r \in [S!Name \cup {S!Temp} -> Entry] /\ r[zmsg.name] = remote[S!Temp]
        /\ \A k \in S!Name : r[k] \in {remote[k], remote[S!Temp]}
    BY <1>0, EntryFacts
  <2>2. zopt.scheme = "sftp" => WholeFile(r[zmsg.name]) /\ zlen = "all"
    BY <1>7, <2>1 DEF SendInv, S!RenameInflight, WholeFile
  <2>3. zopt.scheme = "sftp" /\ S!Inflight = "rename" =>
            (\A k \in S!Name : r[k].whole = TRUE) /\ (\A k \in S!Name : remote[k].whole = TRUE)
    BY <1>7, <2>1 DEF SendInv, S!RenameInflight, WholeFile
  <2>4. CASE S!ReturnRetry /\ remote' = remote
    BY <1>0, <2>3, <2>4, ReturnFacts, EndedStep
  <2>5. CASE zpc' = "length" /\ remote' = r /\ UNCHANGED <<zmsg, zlen, zretry, zpast>>
    BY <1>0, <2>1, <2>2, <2>3, <2>5 DEF SendInv, SendType, WholeFile
  <2> QED BY <1>7, <2>4, <2>5 DEF S!RenameInflight, S!Moved
<1>8. CASE S!CheckSent
  <2>1. remote' = remote /\ zpc = "length"
    BY <1>8 DEF S!CheckSent
  <2>2. CASE S!ReturnRetry
    BY <1>0, <2>1, <2>2, ReturnFacts, EndedStep DEF SendInv
  <2>3. CASE S!ReturnOk
    <3>1. zmsg.op \in KnownFalse \/ S!Done(zmsg, remote')
      BY <1>0, <2>1 DEF SendInv, S!Done, KnownFalse, WholeFile
    <3> QED BY <1>0, <2>1, <2>3, <3>1, ReturnFacts, EndedStep DEF SendInv
  <2> QED BY <1>8, <2>2, <2>3 DEF S!CheckSent
<1> QED BY <1>5, <1>6, <1>7, <1>8

(* Every step of the sender. *)
LEMMA SendStep == ASSUME SendInv, [S!Next]_zVars PROVE SendInv'
<1>1. CASE S!Send \/ S!Happen \/ S!Break \/ UNCHANGED zVars
  BY <1>1, SendQuiet, SendOther, SendRename, SendFile DEF S!Send
<1> QED BY <1>1 DEF S!Next, S!Histories, zVars, S!zVars

(* The sender, whatever it is sent. *)
LEMMA SenderInvariant == Spec => []SendInv
<1>1. Init => SendInv
  <2>1. ASSUME NEW pc \in {"off", "idle"}, S!InitAs(pc) PROVE SendInv
    <3>1. zopt \in SenderOptions
      BY <2>1, SenderAssumption DEF S!InitAs
    <3>2. events \in Seq(EventMsg)
      <4>1. CASE events = <<>>
        BY <4>1
      <4>2. CASE events \in EventLists
        <5> DEFINE R == [op : {"file", "remove", "rename", "mkdir", "rmdir", "link", "hlink"},
                         name : {"f", "g", "d"}, old : {"f", "g", "d"}, v : Nat]
        <5>1. events \in Seq(R)
              /\ \A i \in DOMAIN events : events[i].op = "rename" => events[i].old # events[i].name
          BY <4>2, SenderAssumption
        <5>2. \A r \in R : (r.op = "rename" => r.old # r.name) => r \in EventMsg
          BY DEF EventMsg, Op, S!Name
        <5> HIDE DEF R
        <5>3. /\ DOMAIN events = 1 .. Len(events) /\ Len(events) \in Nat
              /\ \A i \in 1 .. Len(events) : events[i] \in R
          BY <5>1
        <5>4. \A i \in 1 .. Len(events) : events[i] \in EventMsg
          BY <5>1, <5>2, <5>3
        <5>5. events = [i \in 1 .. Len(events) |-> events[i]]
          BY <5>1
        <5> QED BY <5>3, <5>4, <5>5
      <4> QED BY <2>1, <4>1, <4>2 DEF S!InitAs
    <3>3. /\ local \in [S!Name -> Entry] /\ remote \in [S!Name \cup {S!Temp} -> Entry]
          /\ \A n \in S!Name : remote[n].whole = TRUE
      BY <2>1, EntryFacts DEF S!InitAs
    <3>4. zpast \in Past /\ zpast.falseOk = {}
      <4>1. zpast = [falseOk |-> {}, deferred |-> FALSE, rejected |-> {}]
        BY <2>1 DEF S!InitAs
      <4> QED BY <4>1 DEF Past
    <3>5. zpc = pc /\ zmsg = S!NoMsg /\ zqueue = <<>> /\ zretry = <<>>
      BY <2>1 DEF S!InitAs
    <3>6. zqueue \in Seq(EventMsg) /\ zretry \in Seq(EventMsg)
      BY <3>5
    <3> QED BY <3>1, <3>2, <3>3, <3>4, <3>5, <3>6 DEF SendInv, SendType
  <2> QED BY <2>1 DEF Init
<1>2. SendInv /\ [Next]_tVars => SendInv'
  BY TransferSteps, SendStep
<1> QED BY <1>1, <1>2, PTL DEF Spec, tVars

(* What the sender reports as done (worklist.ok) was done on the server, but for what each
   protocol is known to hide. *)
THEOREM ReportedIsDone == Spec => []OkMeansDone
<1>1. SendInv => OkMeansDone
  BY DEF SendInv, KnownFalse, OkMeansDone, S!OkMeansDone
<1> QED BY SenderInvariant, <1>1, PTL

(* With inflight the final name never holds part of an upload by sftp. *)
THEOREM UploadIsWhole == Spec => []SentIsWhole
<1>1. SendInv => SentIsWhole
  BY DEF SendInv, SentIsWhole, S!SentIsWhole
<1> QED BY SenderInvariant, <1>1, PTL

(* An entry that is written is not the absence of one. *)
LEMMA WrittenIsSomething ==
    /\ S!Dir # S!None /\ S!Link # S!None
    /\ \A v, w : S!FileOf(v, w) # S!None
<1>1. \A x, y : x.kind # y.kind => x # y
  OBVIOUS
<1>2. S!None.kind = "none" /\ S!Dir.kind = "dir" /\ S!Link.kind = "link"
  BY DEF S!None, S!Dir, S!Link
<1>3. \A v, w : S!FileOf(v, w).kind = "file"
  BY DEF S!FileOf
<1> QED BY <1>1, <1>2, <1>3

(* A name that the rename of an upload deleted, and what the sender still owes it.  Only sftp
   leaves such a gap, and an upload that reaches the check of its length has closed it. *)
Owes(n) ==
    \/ zmsg.op = "file" /\ zmsg.name = n
    \/ \E i \in DOMAIN zretry : zretry[i].op = "file" /\ zretry[i].name = n
    \/ <<"file", n>> \in zpast.rejected

GapInv ==
    /\ gone \subseteq S!Name
    /\ gone # {} => zopt.scheme = "sftp"
    /\ \A n \in gone : Owes(n)
    /\ zpc = "length" => zmsg.name \notin gone

(* What send owes it still owes when it returns, but for an upload reported as done. *)
LEMMA ReturnOwes ==
    ASSUME SendInv, NEW n, Owes(n)
    PROVE  /\ UNCHANGED <<zmsg, zretry, zpast>> => Owes(n)'
           /\ S!ReturnRejected => Owes(n)'
           /\ S!ReturnRetry => Owes(n)'
           /\ S!ReturnOk /\ ~ (zmsg.op = "file" /\ zmsg.name = n) => Owes(n)'
<1>1. zpast \in Past /\ zretry \in Seq(EventMsg) /\ zmsg \in EventMsg \cup {S!NoMsg}
  BY DEF SendInv, SendType
<1>2. UNCHANGED <<zmsg, zretry, zpast>> => Owes(n)'
  BY DEF Owes
<1>3. ASSUME S!ReturnRejected PROVE Owes(n)'
  <2>1. zretry' = zretry /\ zpast'.rejected = zpast.rejected \cup {<<zmsg.op, zmsg.name>>}
    BY <1>1, <1>3 DEF S!ReturnRejected, Past
  <2> QED BY <2>1 DEF Owes
<1>4. ASSUME S!ReturnRetry PROVE Owes(n)'
  <2>1. CASE UNCHANGED <<zmsg, zretry, zpast>>
    BY <1>2, <2>1
  <2>2. CASE zretry' = Append(zretry, zmsg) /\ zpast' = [zpast EXCEPT !.deferred = TRUE]
    <3>1. zpast'.rejected = zpast.rejected
      BY <1>1, <2>2 DEF Past
    <3>2. /\ DOMAIN zretry = 1 .. Len(zretry) /\ DOMAIN zretry' = 1 .. Len(zretry) + 1
          /\ Len(zretry) \in Nat /\ zretry'[Len(zretry) + 1] = zmsg
          /\ \A i \in DOMAIN zretry : zretry'[i] = zretry[i]
      <4>1. zretry \in Seq(EventMsg \cup {S!NoMsg})
        BY <1>1
      <4> QED BY <1>1, <2>2, <4>1
    <3>3. CASE zmsg.op = "file" /\ zmsg.name = n
      <4>1. Len(zretry) + 1 \in DOMAIN zretry'
        BY <3>2
      <4> QED BY <3>2, <3>3, <4>1 DEF Owes
    <3>4. CASE \E i \in DOMAIN zretry : zretry[i].op = "file" /\ zretry[i].name = n
      <4>1. PICK i \in DOMAIN zretry : zretry[i].op = "file" /\ zretry[i].name = n
        BY <3>4
      <4>2. i \in DOMAIN zretry' /\ zretry'[i] = zretry[i]
        BY <3>2, <4>1
      <4> QED BY <4>1, <4>2 DEF Owes
    <3>5. CASE <<"file", n>> \in zpast.rejected
      BY <3>1, <3>5 DEF Owes
    <3> QED BY <3>3, <3>4, <3>5 DEF Owes
  <2> QED BY <1>4, <2>1, <2>2 DEF S!ReturnRetry
<1>5. ASSUME S!ReturnOk, ~ (zmsg.op = "file" /\ zmsg.name = n) PROVE Owes(n)'
  <2>1. zretry' = zretry /\ zpast'.rejected = zpast.rejected
    BY <1>1, <1>5 DEF S!ReturnOk, Past
  <2> QED BY <1>5, <2>1 DEF Owes
<1> QED BY <1>2, <1>3, <1>4, <1>5

(* The head of the retry queue is the next message. *)
LEMMA DoSendOwes ==
    ASSUME SendInv, S!DoSend("new") \/ S!DoSend("retry"), NEW n, Owes(n) PROVE Owes(n)'
<1>1. zpc = "idle" /\ zmsg = S!NoMsg /\ zretry \in Seq(EventMsg) /\ UNCHANGED zpast
  BY DEF S!DoSend, SendInv, SendType
<1>2. zmsg.op # "file"
  BY <1>1 DEF S!NoMsg
<1>3. CASE S!DoSend("new")
  BY <1>1, <1>2, <1>3 DEF S!DoSend, Owes
<1>4. CASE S!DoSend("retry")
  <2>1. zretry # <<>> /\ zmsg' = Head(zretry) /\ zretry' = Tail(zretry)
    BY <1>4 DEF S!DoSend
  <2>2. CASE <<"file", n>> \in zpast.rejected
    BY <1>1, <2>2 DEF Owes
  <2>3. CASE \E i \in DOMAIN zretry : zretry[i].op = "file" /\ zretry[i].name = n
    <3>1. PICK i \in DOMAIN zretry : zretry[i].op = "file" /\ zretry[i].name = n
      BY <2>3
    <3>2. i \in 1 .. Len(zretry) /\ Len(zretry) \in Nat
      BY <1>1, <3>1
    <3>3. CASE i = 1
      <4>1. zmsg' = zretry[1]
        BY <1>1, <2>1
      <4> QED BY <3>1, <3>3, <4>1 DEF Owes
    <3>4. CASE i # 1
      <4>1. i - 1 \in DOMAIN zretry' /\ zretry'[i - 1] = zretry[i]
        BY <1>1, <2>1, <3>2, <3>4
      <4> QED BY <3>1, <4>1 DEF Owes
    <3> QED BY <3>3, <3>4
  <2> QED BY <1>2, <2>2, <2>3 DEF Owes
<1> QED BY <1>3, <1>4

(* What the sender owes it goes on owing, whatever it does. *)
LEMMA StepOwes ==
    ASSUME SendInv, GapInv, S!Send \/ S!Happen \/ S!Break, NEW n \in gone PROVE Owes(n)'
<1>0. Owes(n)
  BY DEF GapInv
<1>1. CASE S!DoSend("new") \/ S!DoSend("retry")
  BY <1>0, <1>1, DoSendOwes
<1>2. CASE UNCHANGED <<zmsg, zretry, zpast>> \/ S!ReturnRejected \/ S!ReturnRetry
  BY <1>0, <1>2, ReturnOwes
<1>3. CASE S!ReturnOk /\ zmsg.op # "file"
  BY <1>0, <1>3, ReturnOwes
<1>4. CASE S!CheckSent
  <2>1. zmsg.name # n
    BY <1>4 DEF S!CheckSent, GapInv
  <2> QED BY <1>0, <1>4, <2>1, ReturnOwes DEF S!CheckSent
<1>5. CASE S!Connect \/ S!Getcwd \/ S!CdForced \/ S!StartFile
  BY <1>2, <1>5 DEF S!Connect, S!Getcwd, S!CdForced, S!StartFile
<1>6. CASE S!Delete \/ S!Rmdir \/ S!Mkdir
  BY <1>2, <1>3, <1>6 DEF S!Delete, S!Rmdir, S!Mkdir
<1>7. CASE S!Symlink \/ S!Hardlink
  BY <1>2, <1>3, <1>7 DEF S!Symlink, S!Hardlink
<1>8. CASE S!Move
  <2>1. zmsg.op # "file"
    BY <1>8 DEF S!Move, SendInv
  <2> QED BY <1>2, <1>3, <1>8, <2>1 DEF S!Move
<1>9. CASE S!RenameRemote \/ S!Put \/ S!PutBreaks \/ S!RenameInflight
  BY <1>2, <1>9 DEF S!RenameRemote, S!Put, S!PutBreaks, S!RenameInflight, S!zJob
<1>10. CASE S!Happen \/ S!Break
  BY <1>2, <1>10 DEF S!Happen, S!Break, S!zJob
<1> QED BY <1>1, <1>4, <1>5, <1>6, <1>7, <1>8, <1>9, <1>10 DEF S!Send

(* A new gap is that of the upload being renamed, by sftp. *)
LEMMA NewGap ==
    ASSUME SendInv, S!Send \/ S!Happen \/ S!Break, zpc = "rename",
           NEW n \in S!Name, remote[n] # S!None, remote'[n] = S!None
    PROVE  zopt.scheme = "sftp" /\ Owes(n)' /\ zpc' # "length" /\ UNCHANGED zopt
<1>1. S!RenameRemote
  BY DEF S!Send, S!Happen, S!DoSend, S!Connect, S!Getcwd, S!CdForced, S!StartFile, S!Delete, S!Rmdir,
         S!Mkdir, S!Symlink, S!Hardlink, S!Move, S!Put, S!PutBreaks, S!RenameInflight, S!CheckSent, S!Break
<1>2. zopt.scheme = "sftp"
  <2>1. S!DeletesFirst(zopt.scheme) /\ zopt.scheme \in {"sftp", "ftp", "s3", "azure", "azuresas"}
    BY <1>1, SenderAssumption DEF S!RenameRemote, SendInv, SendType
  <2> QED BY <2>1, SchemeFacts
<1>3. n = zmsg.name /\ zmsg.op = "file"
  BY <1>1 DEF S!RenameRemote, SendInv, SendType
<1>4. zmsg' = zmsg /\ zpc' # "length" /\ UNCHANGED zopt
  BY <1>1 DEF S!RenameRemote, S!zJob
<1> QED BY <1>2, <1>3, <1>4 DEF Owes

(* An upload comes to the check of its length with its name on the server, by sftp. *)
LEMMA LengthClosed ==
    ASSUME SendInv, GapInv, S!Send \/ S!Happen \/ S!Break, S!Histories, zopt.scheme = "sftp",
           zpc' = "length"
    PROVE  zmsg'.name \notin gone'
<1>0. /\ gone' = {n \in S!Name : remote'[n] = S!None /\ (n \in gone \/ (zpc = "rename" /\ remote[n] # S!None))}
      /\ remote \in [S!Name \cup {S!Temp} -> Entry]
  BY DEF S!Histories, SendInv, SendType
<1>1. CASE S!Happen \/ S!Break
  BY <1>0, <1>1 DEF S!Happen, S!Break, S!zJob, GapInv
<1>2. CASE S!Put
  <2>1. S!Inflight \in {"none", "rename"}
    BY <1>2, MsgFacts, SchemeFacts DEF S!Inflight, S!Put
  <2>2. S!PutTarget = zmsg.name /\ zmsg.name \in S!Name /\ zmsg' = zmsg
    BY <1>2, <2>1, MsgFacts DEF S!Put, S!AfterPut, S!PutTarget, SendInv, S!zJob
  <2>3. remote'[zmsg.name] # S!None
    BY <1>0, <1>2, <2>2, WrittenIsSomething DEF S!Put
  <2> QED BY <1>0, <2>2, <2>3
<1>3. CASE S!PutBreaks
  <2>1. ~ S!HidesErrors(zopt.scheme) /\ ~ S!IsStore(zopt.scheme)
    BY SchemeFacts
  <2> QED BY <1>3, <2>1 DEF S!PutBreaks, S!ReturnRetry, S!Clear
<1>4. CASE S!RenameInflight
  <2>1. remote[S!Temp] # S!None /\ remote' = S!Moved(S!Temp, zmsg.name) /\ zmsg' = zmsg
    BY <1>4 DEF S!RenameInflight, S!ReturnRetry, S!Clear
  <2>2. zmsg.name \in S!Name /\ S!Temp \notin S!Name
    BY <1>4, MsgFacts, EntryFacts DEF S!RenameInflight
  <2>3. remote'[zmsg.name] # S!None
    BY <1>0, <2>1, <2>2 DEF S!Moved
  <2> QED BY <1>0, <2>1, <2>3
<1> QED BY <1>1, <1>2, <1>3, <1>4
    DEF S!Send, S!DoSend, S!Connect, S!Getcwd, S!CdForced, S!StartFile, S!Delete, S!Rmdir, S!Mkdir,
        S!Symlink, S!Hardlink, S!RenameRemote, S!Move, S!CheckSent, S!ReturnOk, S!ReturnRetry,
        S!ReturnRejected, S!Clear

LEMMA GapStep == ASSUME SendInv, GapInv, [S!Next]_zVars PROVE GapInv'
<1>1. CASE UNCHANGED zVars
  BY <1>1 DEF GapInv, Owes, zVars
<1>2. CASE (S!Send \/ S!Happen \/ S!Break) /\ S!Histories
  <2>0. gone' = {n \in S!Name : remote'[n] = S!None /\ (n \in gone \/ (zpc = "rename" /\ remote[n] # S!None))}
    BY <1>2 DEF S!Histories
  <2>1. gone' \subseteq S!Name
    BY <2>0
  <2>2. UNCHANGED zopt
    BY <1>2 DEF S!Send, S!Happen, S!DoSend, S!Connect, S!Getcwd, S!CdForced, S!StartFile, S!Delete, S!Rmdir,
         S!Mkdir, S!Symlink, S!Hardlink, S!RenameRemote, S!Move, S!Put, S!PutBreaks, S!RenameInflight,
         S!CheckSent, S!Break, S!zJob
  <2>3. ASSUME NEW n \in gone' PROVE Owes(n)' /\ zopt'.scheme = "sftp"
    <3>1. CASE n \in gone
      BY <1>2, <2>2, <3>1, StepOwes DEF GapInv
    <3>2. CASE zpc = "rename" /\ remote[n] # S!None
      BY <1>2, <2>0, <2>2, <2>3, <3>2, NewGap
    <3> QED BY <2>0, <2>3, <3>1, <3>2
  <2>4. ASSUME zpc' = "length" PROVE zmsg'.name \notin gone'
    <3>1. CASE zopt.scheme = "sftp"
      BY <1>2, <2>4, <3>1, LengthClosed
    <3>2. CASE zopt.scheme # "sftp"
      BY <2>2, <2>3, <3>2
    <3> QED BY <3>1, <3>2
  <2> QED BY <2>1, <2>3, <2>4 DEF GapInv
<1> QED BY <1>1, <1>2 DEF S!Next, S!Send

(* The rename of sftp deletes first, and what it deleted may stay away when the connection
   breaks; but the upload that is to take its place is not forgotten: it is being sent or in the
   retry queue until the name is there again, unless cd_forced had it rejected. *)
THEOREM ReplacedInTheEnd == Spec => []GapIsOwed
<1>1. Init => GapInv
  BY DEF Init, S!InitAs, GapInv
<1>2. SendInv /\ GapInv /\ [Next]_tVars => GapInv'
  BY TransferSteps, GapStep
<1>3. GapInv => GapIsOwed
  BY DEF GapInv, GapIsOwed, S!GapIsOwed, Owes
<1> QED BY <1>1, <1>2, <1>3, SenderInvariant, PTL DEF Spec, tVars

-----------------------------------------------------------------------------
(* Blocks.  As long as no version began before the last one was complete, and no lock was broken
   while in use, all that is under way is of one version, and each block is under way once. *)
Good == ~bpast.overlap /\ ~bpast.lost
BB == B!BlocksOf(bversion)
Now == [v |-> bversion, mtime |-> bversion]
Works(i) == bjob[i].pc \notin {"off", "idle"}
InQueue(b) == [v |-> bversion, number |-> b] \in bqueue
InHand(i) == bjob[i].pc \in {"unlink", "manifest"}
Whole(content, v) == \A b \in B!Blocks : content[b] = IF b \in B!BlocksOf(v) THEN v ELSE 0

(* The file holds what a manifest says it does. *)
Sound(man) ==
    /\ man.waiting \subseteq BB /\ BB \ man.waiting \subseteq man.got
    /\ \A b \in BB \ man.waiting : root[b] = bversion
    /\ \A b \in B!Blocks \ BB : root[b] = 0

(* Nothing is missing, and the next version will know how long the file is. *)
Finished == Whole(root, bversion) /\ (manifest.kept => BB \subseteq manifest.got)

Begun == manifest.waiting # {} \/ Finished

(* The block has still to get into the file. *)
Ahead(b) ==
    \/ part[b] # B!NoPart \/ InQueue(b)
    \/ \E i \in Assembler : bjob[i].pc \in {"download", "lock", "copy", "unlink", "manifest"}
                            /\ B!Blk(i) = b

(* The message of the whole file. *)
Completes(i) == bjob[i].pc \in {"unlock", "post"} /\ bjob[i].complete

(* Every manifest there is waits for the block. *)
Held(b) ==
    /\ manifest.waiting # {} => b \in manifest.waiting
    /\ \A j \in Assembler : InHand(j) => b \in bjob[j].mem.waiting

Gone(b) == ~InQueue(b) /\ \A i \in Assembler : Works(i) => B!Blk(i) # b

ManifestType == [kept : BOOLEAN, got : SUBSET B!Blocks, waiting : SUBSET B!Blocks]
JobType == [pc : {"off", "idle", "download", "lock", "copy", "unlink", "manifest", "unlock", "post"},
            msg : [v : Nat, number : Nat], mem : ManifestType, complete : BOOLEAN]

BlockType ==
    /\ bopt \in BlockOptions /\ bversion \in 0 .. Len(bopt.blocks)
    /\ bjob \in [Assembler -> JobType]
    /\ part \in [B!Blocks -> [v : Nat, mtime : Nat]]
    /\ root \in [B!Blocks -> Nat]
    /\ manifest \in ManifestType /\ lockedBy \in Assembler \cup {0}
    /\ bqueue \subseteq [v : Nat, number : Nat]

PastType ==
    /\ bpast.overlap \in BOOLEAN /\ bpast.lost \in BOOLEAN
    /\ DOMAIN bpast = {"whole", "again", "parts", "stranded", "cutOff", "overlap", "lost"}

Messages ==
    /\ \A m \in bqueue : m.v = bversion /\ m.number \in BB
    /\ \A i \in Assembler : Works(i) =>
          /\ bjob[i].msg.v = bversion /\ B!Blk(i) \in BB /\ bversion # 0
          /\ ~InQueue(B!Blk(i))
          /\ \A j \in Assembler : Works(j) /\ i # j => B!Blk(i) # B!Blk(j)

Locks == \A i \in Assembler : B!UsesLock(i) => lockedBy = i

Parts ==
    /\ \A b \in B!Blocks : part[b] \in {B!NoPart, Now}
    /\ \A i \in Assembler : bjob[i].pc \in {"lock", "copy", "unlink"} => part[B!Blk(i)] = Now

Manifest ==
    /\ manifest.waiting # {} => manifest.kept /\ Sound(manifest)
    /\ manifest.kept => \A b \in B!Blocks \ BB : root[b] # 0 => b <= Cardinality(manifest.got)
    /\ \A i \in Assembler : InHand(i) =>
          bjob[i].mem.kept /\ Sound(bjob[i].mem) /\ B!Blk(i) \notin bjob[i].mem.waiting

Progress ==
    /\ bversion # 0 /\ ~Begun => \A b \in BB : Ahead(b)
    /\ \A i \in Assembler : Completes(i) => Whole(root, bversion)
    /\ bversion = 0 => manifest = B!NoManifest /\ bqueue = {} /\ bpast.whole = {}
                       /\ \A b \in B!Blocks : root[b] = 0

Once ==
    /\ \A i \in Assembler : Completes(i) => Held(B!Blk(i))
    /\ \A i, j \in Assembler : Completes(i) /\ Completes(j) => i = j
    /\ \A f \in bpast.whole : f.v <= bversion /\ f.v \in B!Versions /\ Whole(f.content, f.v)
    /\ \A f \in bpast.whole : f.v = bversion =>
          /\ \A i \in Assembler : ~Completes(i)
          /\ \E b \in BB : Gone(b) /\ Held(b)
    /\ ~bpast.parts /\ ~bpast.again

BlockInv ==
    /\ PastType
    /\ Good => BlockType /\ Messages /\ Locks /\ Parts /\ Manifest /\ Progress /\ Once

(* The number of the blocks of a file that has n. *)
LEMMA BlockCount == ASSUME NEW n \in Nat PROVE IsFiniteSet(1 .. n) /\ Cardinality(1 .. n) = n
BY FS_Interval

(* The blocks of the version there is, and those of all versions. *)
LEMMA BlockFacts ==
    ASSUME BlockType
    PROVE  /\ B!Versions = 1 .. Len(bopt.blocks) /\ Len(bopt.blocks) \in Nat
           /\ \A v \in B!Versions : /\ bopt.blocks[v] \in Nat \ {0}
                                    /\ B!BlocksOf(v) = 1 .. bopt.blocks[v]
                                    /\ B!BlocksOf(v) \subseteq B!Blocks
           /\ B!Blocks \subseteq Nat \ {0} /\ IsFiniteSet(B!Blocks)
           /\ bversion # 0 => bversion \in B!Versions
<1>1. bopt.blocks \in Seq(Nat \ {0})
  BY BlockAssumption DEF BlockType
<1>2. /\ DOMAIN bopt.blocks = 1 .. Len(bopt.blocks) /\ Len(bopt.blocks) \in Nat
      /\ \A v \in DOMAIN bopt.blocks : bopt.blocks[v] \in Nat \ {0}
  BY <1>1
<1>3. \A v \in B!Versions : B!BlocksOf(v) = 1 .. bopt.blocks[v]
  BY DEF B!BlocksOf
<1>4. \A v \in B!Versions : B!BlocksOf(v) \subseteq B!Blocks
  BY DEF B!Blocks
<1>5. B!Blocks \subseteq Nat \ {0}
  BY <1>2, <1>3 DEF B!Blocks, B!Versions
<1>6. IsFiniteSet(B!Blocks)
  <2>1. IsFiniteSet(B!Versions)
    BY <1>2, BlockCount DEF B!Versions
  <2>2. IsFiniteSet({B!BlocksOf(v) : v \in B!Versions})
    <3> DEFINE f == [v \in B!Versions |-> B!BlocksOf(v)]
    <3>1. f \in Surjection(B!Versions, {B!BlocksOf(v) : v \in B!Versions})
      BY DEF Surjection
    <3> HIDE DEF f
    <3> QED BY <2>1, <3>1, FS_Surjection
  <2>3. ASSUME NEW v \in B!Versions PROVE IsFiniteSet(B!BlocksOf(v))
    <3>1. bopt.blocks[v] \in Int /\ B!BlocksOf(v) = 1 .. bopt.blocks[v]
      BY <1>2, <1>3 DEF B!Versions
    <3> QED BY <3>1, FS_Interval
  <2>4. \A A \in {B!BlocksOf(v) : v \in B!Versions} : IsFiniteSet(A)
    BY <2>3
  <2> QED BY <2>2, <2>4, FS_UNION DEF B!Blocks
<1>7. bversion # 0 => bversion \in B!Versions
  BY <1>2 DEF BlockType, B!Versions
<1> QED BY <1>2, <1>3, <1>4, <1>5, <1>6, <1>7 DEF B!Versions

(* What is the same in a step that announces no version. *)
SameVersion == bversion' = bversion /\ bopt' = bopt

(* The names of the blocks do not change. *)
LEMMA SameBlocks ==
    ASSUME bopt' = bopt
    PROVE  /\ B!Blocks' = B!Blocks /\ B!Versions' = B!Versions /\ ManifestType' = ManifestType
           /\ JobType' = JobType
           /\ \A v : B!BlocksOf(v)' = B!BlocksOf(v)
BY DEF B!Blocks, B!Versions, B!BlocksOf, ManifestType, JobType

(* A version is written upstream when the last one is complete. *)
LEMMA StepPostBlocks == ASSUME BlockInv, B!PostBlocks PROVE BlockInv'
<1>1. /\ bversion' = bversion + 1 /\ bversion + 1 \in B!Versions
      /\ bqueue' = bqueue \cup {[v |-> bversion + 1, number |-> b] : b \in B!BlocksOf(bversion + 1)}
      /\ bpast' = [bpast EXCEPT !.overlap = @ \/ B!Incomplete]
      /\ UNCHANGED <<bopt, bjob, part, root, manifest, lockedBy>>
  BY DEF B!PostBlocks
<1>0. PastType /\ PastType' /\ (Good' => Good)
  BY <1>1 DEF BlockInv, PastType, Good, B!Incomplete, B!BSettled
<1> SUFFICES ASSUME Good' PROVE (BlockType /\ Messages /\ Locks /\ Parts /\ Manifest /\ Progress /\ Once)'
  BY <1>0 DEF BlockInv
<1>2. BlockType
  BY <1>0 DEF BlockInv
<1>3. /\ B!Blocks' = B!Blocks /\ B!Versions' = B!Versions /\ ManifestType' = ManifestType
      /\ JobType' = JobType /\ BB' = B!BlocksOf(bversion + 1)
      /\ bversion \in Nat /\ B!BlocksOf(bversion + 1) \subseteq Nat
  BY <1>1, <1>2, SameBlocks, BlockFacts DEF BB, BlockType
<1>4. BlockType'
  <2>1. bversion' \in 0 .. Len(bopt'.blocks)
    BY <1>1, <1>2, BlockFacts
  <2>2. bqueue' \subseteq [v : Nat, number : Nat]
    BY <1>1, <1>2, <1>3 DEF BlockType
  <2> QED BY <1>1, <1>2, <1>3, <2>1, <2>2 DEF BlockType
<1>5. Good /\ ~B!Incomplete
  BY <1>0, <1>1 DEF Good, PastType
<1>6. /\ bqueue = {} /\ manifest.waiting = {} /\ \A b \in B!Blocks : part[b] = B!NoPart
      /\ \A i \in Assembler : bjob[i].pc \in {"off", "idle"}
  BY <1>5 DEF B!Incomplete, B!BSettled
<1>7. Messages /\ Locks /\ Parts /\ Manifest /\ Progress /\ Once
  BY <1>5 DEF BlockInv
<1>8. \A i \in Assembler : /\ ~Works(i)' /\ ~InHand(i)' /\ ~Completes(i)' /\ ~B!UsesLock(i)'
  BY <1>1, <1>6 DEF Works, InHand, Completes, B!UsesLock
<1>9. Messages'
  BY <1>1, <1>3, <1>6, <1>8 DEF Messages
<1>10. Locks' /\ Parts'
  BY <1>1, <1>3, <1>6, <1>8 DEF Locks, Parts, B!NoPart
<1>11. bversion # 0 => Finished
  <2> SUFFICES ASSUME bversion # 0 PROVE Finished
    OBVIOUS
  <2>1. 1 \in BB /\ BB \subseteq B!Blocks
    BY <1>2, BlockFacts DEF BB
  <2>2. ~Ahead(1)
    BY <1>6, <2>1 DEF Ahead, InQueue
  <2> QED BY <1>6, <1>7, <2>1, <2>2 DEF Progress, Begun
<1>12. ASSUME manifest.kept, NEW b \in B!Blocks, root[b] # 0 PROVE b <= Cardinality(manifest.got)
  <2>1. bversion # 0
    BY <1>7, <1>12 DEF Progress, B!NoManifest
  <2>2. b \in BB /\ BB \subseteq manifest.got
    BY <1>11, <1>12, <2>1 DEF Finished, Whole, BB
  <2>3. BB = 1 .. bopt.blocks[bversion] /\ bopt.blocks[bversion] \in Nat
    BY <1>2, <2>1, BlockFacts DEF BB
  <2>4. IsFiniteSet(manifest.got)
    BY <1>2, BlockFacts, FS_Subset DEF BlockType, ManifestType
  <2>5. Cardinality(BB) = bopt.blocks[bversion]
    BY <2>3, BlockCount
  <2>6. Cardinality(BB) <= Cardinality(manifest.got)
    BY <2>2, <2>4, FS_Subset
  <2>7. Cardinality(manifest.got) \in Nat
    BY <2>4, FS_CardinalityType
  <2> QED BY <2>2, <2>3, <2>5, <2>6, <2>7
<1>13. Manifest'
  BY <1>1, <1>3, <1>6, <1>8, <1>12 DEF Manifest
<1>14. Progress'
  BY <1>1, <1>3, <1>8 DEF Progress, Ahead, InQueue
<1>15. Once'
  <2>1. \A f \in bpast'.whole : f.v <= bversion /\ f.v \in B!Versions /\ Whole(f.content, f.v)
    BY <1>0, <1>1, <1>7 DEF Once, PastType
  <2>2. \A f \in bpast'.whole : f.v <= bversion' /\ f.v # bversion' /\ f.v \in B!Versions'
                                /\ Whole(f.content, f.v)'
    BY <1>1, <1>2, <1>3, <2>1, BlockFacts, SameBlocks DEF Whole
  <2>3. ~bpast'.parts /\ ~bpast'.again
    BY <1>0, <1>1, <1>7 DEF Once, PastType
  <2> QED BY <1>1, <1>3, <1>8, <2>2, <2>3 DEF Once
<1> QED BY <1>4, <1>9, <1>10, <1>13, <1>14, <1>15

(* What the manifests say stays true as long as the file and they stay as they are. *)
LEMMA ManifestStays ==
    ASSUME Manifest, SameVersion, UNCHANGED <<root, manifest>>,
           \A j \in Assembler : InHand(j)' =>
               InHand(j) /\ bjob'[j].mem = bjob[j].mem /\ bjob'[j].msg = bjob[j].msg
    PROVE  Manifest'
<1>1. BB' = BB /\ B!Blocks' = B!Blocks /\ bversion' = bversion
  BY SameBlocks DEF SameVersion, BB
<1>2. \A man : (Sound(man) <=> /\ man.waiting \subseteq BB /\ BB \ man.waiting \subseteq man.got
                               /\ \A b \in BB \ man.waiting : root[b] = bversion
                               /\ \A b \in B!Blocks \ BB : root[b] = 0)
  BY DEF Sound
<1>3. Sound(manifest)' <=> Sound(manifest)
  BY <1>1 DEF Sound
<1>4. \A j \in Assembler : InHand(j)' => (Sound(bjob[j].mem)' <=> Sound(bjob[j].mem))
  BY <1>1 DEF Sound
<1> QED BY <1>1, <1>3, <1>4 DEF Manifest, B!Blk

(* So does what was announced. *)
LEMMA OnceStays ==
    ASSUME Once, SameVersion, UNCHANGED manifest,
           bpast'.whole = bpast.whole, bpast'.parts <=> bpast.parts, bpast'.again <=> bpast.again,
           \A j \in Assembler : InHand(j)' => InHand(j) /\ bjob'[j].mem = bjob[j].mem,
           \A j \in Assembler : Completes(j)' => Completes(j) /\ bjob'[j].msg = bjob[j].msg,
           \A b \in BB : Gone(b) => Gone(b)'
    PROVE  Once'
<1>1. /\ BB' = BB /\ B!Blocks' = B!Blocks /\ B!Versions' = B!Versions /\ bversion' = bversion
      /\ \A v : B!BlocksOf(v)' = B!BlocksOf(v)
  BY SameBlocks DEF SameVersion, BB
<1>2. \A b : Held(b) => Held(b)'
  BY DEF Held
<1>3. \A f \in bpast.whole : Whole(f.content, f.v) => Whole(f.content, f.v)'
  BY <1>1 DEF Whole
<1>4. \A i \in Assembler : Completes(i)' => Held(B!Blk(i))'
  BY <1>2 DEF Once, B!Blk
<1>5. \A f \in bpast'.whole : f.v <= bversion' /\ f.v \in B!Versions' /\ Whole(f.content, f.v)'
  BY <1>1, <1>3 DEF Once
<1>6. \A f \in bpast'.whole : f.v = bversion' =>
          (\A i \in Assembler : ~Completes(i)') /\ \E b \in BB' : Gone(b)' /\ Held(b)'
  BY <1>1, <1>2 DEF Once
<1> QED BY <1>4, <1>5, <1>6 DEF Once

(* And what is still to come. *)
LEMMA ProgressStays ==
    ASSUME Progress, SameVersion, UNCHANGED <<root, manifest>>, bpast'.whole = bpast.whole,
           \A b \in BB : Ahead(b) => Ahead(b)',
           \A j \in Assembler : Completes(j)' => Completes(j),
           bversion = 0 => bqueue' = {}
    PROVE  Progress'
<1>1. /\ BB' = BB /\ B!Blocks' = B!Blocks /\ bversion' = bversion
      /\ \A v : B!BlocksOf(v)' = B!BlocksOf(v)
  BY SameBlocks DEF SameVersion, BB
<1>2. Whole(root, bversion)' <=> Whole(root, bversion)
  BY <1>1 DEF Whole
<1>3. Begun' <=> Begun
  BY <1>1, <1>2 DEF Begun, Finished
<1> QED BY <1>1, <1>2, <1>3 DEF Progress, B!NoManifest

(* An instance takes a block from the queue. *)
LEMMA StepGather ==
    ASSUME BlockInv, NEW i \in Assembler, B!GatherBlock(i) PROVE BlockInv'
<1>1. PICK m \in bqueue :
          /\ bqueue' = bqueue \ {m}
          /\ bjob' = [bjob EXCEPT ![i] = [B!Idle EXCEPT !.pc = "download", !.msg = m]]
  BY DEF B!GatherBlock
<1>2. /\ bjob[i].pc = "idle" /\ SameVersion
      /\ UNCHANGED <<part, root, manifest, lockedBy, bpast>>
  BY DEF B!GatherBlock, SameVersion
<1>0. PastType /\ PastType' /\ (Good' => Good)
  BY <1>1, <1>2 DEF BlockInv, PastType, Good
<1> SUFFICES ASSUME Good' PROVE (BlockType /\ Messages /\ Locks /\ Parts /\ Manifest /\ Progress /\ Once)'
  BY <1>0 DEF BlockInv
<1>3. BlockType
  BY <1>0 DEF BlockInv
<1>4. /\ bjob'[i] = [pc |-> "download", msg |-> m, mem |-> B!NoManifest, complete |-> FALSE]
      /\ \A j \in Assembler : j # i => bjob'[j] = bjob[j]
      /\ m \in [v : Nat, number : Nat]
  BY <1>1, <1>3 DEF BlockType, B!Idle
<1>5. BlockType'
  <2>1. bjob' \in [Assembler -> JobType]
    BY <1>1, <1>3, <1>4 DEF BlockType, JobType, ManifestType, B!NoManifest, B!Idle
  <2> QED BY <1>1, <1>2, <1>3, <2>1, SameBlocks DEF BlockType, SameVersion
<1>6. Messages /\ Locks /\ Parts /\ Manifest /\ Progress /\ Once
  BY <1>0 DEF BlockInv
<1>7. BB' = BB /\ bversion' = bversion /\ Now' = Now /\ B!Blocks' = B!Blocks
  BY <1>2, SameBlocks DEF SameVersion, BB, Now
<1>8. m = [v |-> bversion, number |-> m.number] /\ m.number \in BB /\ bversion # 0
  BY <1>4, <1>6 DEF Messages, Progress
<1>9. \A j \in Assembler : Works(j) => B!Blk(j) # m.number
  BY <1>6, <1>8 DEF Messages, InQueue
<1>10. Messages'
  <2>1. \A q \in bqueue' : q.v = bversion /\ q.number \in BB
    BY <1>1, <1>6 DEF Messages
  <2>2. \A b : InQueue(b)' => InQueue(b) /\ b # m.number
    BY <1>1, <1>7, <1>8 DEF InQueue
  <2>3. \A j \in Assembler : Works(j)' => (j = i \/ Works(j)) /\ (j # i => B!Blk(j)' = B!Blk(j))
    BY <1>4 DEF Works, B!Blk
  <2>4. B!Blk(i)' = m.number /\ bjob'[i].msg.v = bversion
    BY <1>4, <1>8 DEF B!Blk
  <2> QED BY <1>4, <1>6, <1>7, <1>8, <1>9, <2>1, <2>2, <2>3, <2>4 DEF Messages
<1>11. Locks' /\ Parts'
  BY <1>2, <1>4, <1>6, <1>7 DEF Locks, Parts, B!UsesLock, B!Blk, B!NoPart
<1>12. \A j \in Assembler : /\ InHand(j)' => InHand(j) /\ bjob'[j] = bjob[j]
                            /\ Completes(j)' => Completes(j) /\ bjob'[j] = bjob[j]
  BY <1>4 DEF InHand, Completes
<1>13. \A b \in BB : Gone(b) => Gone(b)'
  BY <1>1, <1>4, <1>7, <1>8 DEF Gone, InQueue, Works, B!Blk
<1>14. \A b \in BB : Ahead(b) => Ahead(b)'
  <2>1. \A b \in BB : InQueue(b) => InQueue(b)' \/ b = m.number
    BY <1>1, <1>7, <1>8 DEF InQueue
  <2>2. Ahead(m.number)'
    BY <1>4 DEF Ahead, B!Blk
  <2>3. \A j \in Assembler : bjob[j].pc \in {"download", "lock", "copy", "unlink", "manifest"} => j # i
    BY <1>2
  <2> QED BY <1>2, <1>4, <2>1, <2>2, <2>3 DEF Ahead, B!Blk, B!NoPart
<1>15. Manifest' /\ Progress' /\ Once'
  BY <1>2, <1>6, <1>8, <1>12, <1>13, <1>14, ManifestStays, ProgressStays, OnceStays
<1> QED BY <1>5, <1>10, <1>11, <1>15

(* A job that goes on with the same message: no message is lost or comes twice. *)
LEMMA MessagesStay ==
    ASSUME Messages, SameVersion, bqueue' = bqueue,
           \A j \in Assembler : Works(j)' => Works(j) /\ bjob'[j].msg = bjob[j].msg
    PROVE  Messages' /\ \A b \in BB : Gone(b) => Gone(b)'
<1>1. BB' = BB /\ bversion' = bversion /\ \A b : InQueue(b)' <=> InQueue(b)
  BY SameBlocks DEF SameVersion, BB, InQueue
<1> QED BY <1>1 DEF Messages, Gone, B!Blk

(* The part file of a block is written, or kept as new enough. *)
LEMMA StepDownload ==
    ASSUME BlockInv, NEW i \in Assembler, B!DownloadPart(i) PROVE BlockInv'
<1>1. /\ bjob[i].pc = "download" /\ SameVersion
      /\ UNCHANGED <<root, manifest, lockedBy, bqueue>>
  BY DEF B!DownloadPart, SameVersion
<1>2. \/ /\ part[B!Blk(i)].mtime >= bjob[i].msg.v /\ bjob' = [bjob EXCEPT ![i] = B!Idle]
         /\ bpast' = [bpast EXCEPT !.stranded = TRUE] /\ part' = part
      \/ /\ ~(part[B!Blk(i)].mtime >= bjob[i].msg.v) /\ bjob' = [bjob EXCEPT ![i].pc = "lock"]
         /\ part' = [part EXCEPT ![B!Blk(i)] = [v |-> bversion, mtime |-> bjob[i].msg.v]]
         /\ bpast' = bpast
  BY DEF B!DownloadPart, B!Leave, B!At
<1>0. PastType /\ PastType' /\ (Good' => Good)
  BY <1>1, <1>2 DEF BlockInv, PastType, Good
<1> SUFFICES ASSUME Good' PROVE (BlockType /\ Messages /\ Locks /\ Parts /\ Manifest /\ Progress /\ Once)'
  BY <1>0 DEF BlockInv
<1>3. BlockType
  BY <1>0 DEF BlockInv
<1>4. /\ bjob'[i].pc \in {"idle", "lock"} /\ (bjob'[i].pc = "lock" => bjob'[i].msg = bjob[i].msg)
      /\ \A j \in Assembler : j # i => bjob'[j] = bjob[j]
      /\ bjob' \in [Assembler -> JobType]
  <2>1. B!Idle \in JobType /\ B!Idle.pc = "idle"
    BY DEF B!Idle, JobType, ManifestType, B!NoManifest
  <2>2. CASE bjob' = [bjob EXCEPT ![i] = B!Idle]
    BY <1>1, <1>3, <2>1, <2>2 DEF BlockType
  <2>3. CASE bjob' = [bjob EXCEPT ![i].pc = "lock"]
    BY <1>1, <1>3, <2>3, ZenonT(30) DEF BlockType, JobType
  <2> QED BY <1>2, <2>2, <2>3
<1>5. BlockType'
  <2>1. part' \in [B!Blocks -> [v : Nat, mtime : Nat]]
    <3>1. bjob[i].msg.v \in Nat /\ bversion \in Nat
      BY <1>3, BlockFacts DEF BlockType, JobType
    <3>2. [v |-> bversion, mtime |-> bjob[i].msg.v] \in [v : Nat, mtime : Nat]
      BY <3>1
    <3>3. part \in [B!Blocks -> [v : Nat, mtime : Nat]]
      BY <1>3 DEF BlockType
    <3> QED BY <1>2, <3>2, <3>3
  <2> QED BY <1>1, <1>3, <1>4, <2>1, SameBlocks DEF BlockType, SameVersion
<1>6. bpast'.whole = bpast.whole /\ bpast'.parts = bpast.parts /\ bpast'.again = bpast.again
  BY <1>0, <1>2 DEF PastType
<1>7. Messages /\ Locks /\ Parts /\ Manifest /\ Progress /\ Once
  BY <1>0 DEF BlockInv
<1>9. /\ bjob[i].msg.v = bversion /\ B!Blk(i) \in BB /\ bversion # 0
      /\ \A j \in Assembler : Works(j) /\ j # i => B!Blk(j) # B!Blk(i)
  BY <1>1, <1>7 DEF Messages, Works
<1>8. /\ BB' = BB /\ bversion' = bversion /\ Now' = Now /\ B!Blocks' = B!Blocks
      /\ BB \subseteq B!Blocks /\ bversion \in Nat
  BY <1>1, <1>3, <1>9, SameBlocks, BlockFacts DEF SameVersion, BB, Now, BlockType
<1>10. \/ /\ bjob' = [bjob EXCEPT ![i] = B!Idle] /\ part' = part /\ part[B!Blk(i)] # B!NoPart
       \/ /\ bjob' = [bjob EXCEPT ![i].pc = "lock"] /\ part' = [part EXCEPT ![B!Blk(i)] = Now]
  BY <1>2, <1>8, <1>9 DEF B!NoPart, Now
<1>11. Messages' /\ \A b \in BB : Gone(b) => Gone(b)'
  BY <1>1, <1>4, <1>7, MessagesStay DEF Works
<1>12. Locks'
  BY <1>1, <1>4, <1>7 DEF Locks, B!UsesLock
<1>13. Now # B!NoPart
  BY <1>9 DEF Now, B!NoPart
<1>14. \A b \in B!Blocks : part'[b] \in {B!NoPart, Now} /\ (part[b] # B!NoPart => part'[b] # B!NoPart)
                           /\ (part[b] = Now => part'[b] = Now)
  BY <1>3, <1>7, <1>10, <1>13 DEF Parts, BlockType
<1>15. Parts'
  <2>1. bjob'[i].pc = "lock" => part'[B!Blk(i)] = Now
    BY <1>3, <1>8, <1>9, <1>10 DEF BlockType, B!Idle
  <2>2. \A j \in Assembler : bjob'[j].pc \in {"lock", "copy", "unlink"} => part'[B!Blk(j)'] = Now
    BY <1>3, <1>4, <1>7, <1>8, <1>14, <2>1 DEF Parts, B!Blk, Messages, Works
  <2> QED BY <1>8, <1>14, <2>2 DEF Parts, B!NoPart
<1>16. \A j \in Assembler : /\ InHand(j)' => InHand(j) /\ bjob'[j] = bjob[j]
                            /\ Completes(j)' => Completes(j) /\ bjob'[j] = bjob[j]
  BY <1>4 DEF InHand, Completes
<1>17. \A b \in BB : Ahead(b) => Ahead(b)'
  <2>1. \A b \in BB : b = B!Blk(i) => Ahead(b)'
    <3>1. CASE bjob' = [bjob EXCEPT ![i].pc = "lock"]
      <4>1. bjob'[i].pc = "lock" /\ bjob'[i].msg = bjob[i].msg
        BY <1>3, <3>1 DEF BlockType
      <4> QED BY <4>1 DEF Ahead, B!Blk
    <3> QED BY <1>10, <3>1 DEF Ahead, B!NoPart
  <2> QED BY <1>1, <1>4, <1>8, <1>14, <2>1 DEF Ahead, B!Blk, InQueue, B!NoPart
<1>18. Manifest' /\ Progress' /\ Once'
  BY <1>1, <1>6, <1>7, <1>9, <1>11, <1>16, <1>17, ManifestStays, ProgressStays, OnceStays
<1> QED BY <1>5, <1>11, <1>12, <1>15, <1>18

(* The lock is taken when nobody has it. *)
LEMMA StepLock ==
    ASSUME BlockInv, NEW i \in Assembler, B!LockRoot(i) PROVE BlockInv'
<1>1. /\ bjob[i].pc = "lock" /\ SameVersion /\ lockedBy = 0 /\ lockedBy' = i
      /\ bjob' = [bjob EXCEPT ![i].pc = "copy"]
      /\ UNCHANGED <<part, root, manifest, bqueue, bpast>>
  BY DEF B!LockRoot, SameVersion, B!At
<1>0. PastType /\ PastType' /\ (Good' => Good)
  BY <1>1 DEF BlockInv, PastType, Good
<1> SUFFICES ASSUME Good' PROVE (BlockType /\ Messages /\ Locks /\ Parts /\ Manifest /\ Progress /\ Once)'
  BY <1>0 DEF BlockInv
<1>3. BlockType
  BY <1>0 DEF BlockInv
<1>4. /\ bjob'[i].pc = "copy" /\ bjob'[i].msg = bjob[i].msg
      /\ \A j \in Assembler : j # i => bjob'[j] = bjob[j]
      /\ bjob' \in [Assembler -> JobType]
  BY <1>1, <1>3, ZenonT(30) DEF BlockType, JobType
<1>5. BlockType'
  BY <1>1, <1>3, <1>4, SameBlocks DEF BlockType, SameVersion
<1>7. Messages /\ Locks /\ Parts /\ Manifest /\ Progress /\ Once
  BY <1>0 DEF BlockInv
<1>8. BB' = BB /\ bversion' = bversion /\ Now' = Now /\ B!Blocks' = B!Blocks
  BY <1>1, SameBlocks DEF SameVersion, BB, Now
<1>11. Messages' /\ \A b \in BB : Gone(b) => Gone(b)'
  BY <1>1, <1>4, <1>7, MessagesStay DEF Works
<1>12. Locks'
  <2>1. \A j \in Assembler : ~B!UsesLock(j)
    BY <1>1, <1>7, BlockAssumption DEF Locks
  <2> QED BY <1>1, <1>4, <2>1 DEF Locks, B!UsesLock
<1>15. Parts'
  BY <1>1, <1>4, <1>7, <1>8 DEF Parts, B!Blk, B!NoPart
<1>16. \A j \in Assembler : /\ InHand(j)' => InHand(j) /\ bjob'[j] = bjob[j]
                            /\ Completes(j)' => Completes(j) /\ bjob'[j] = bjob[j]
  BY <1>4 DEF InHand, Completes
<1>17. \A b \in BB : Ahead(b) => Ahead(b)'
  BY <1>1, <1>4, <1>8 DEF Ahead, B!Blk, InQueue, B!NoPart
<1>18. Manifest' /\ Progress' /\ Once'
  BY <1>1, <1>7, <1>11, <1>16, <1>17, ManifestStays, ProgressStays, OnceStays DEF Progress
<1> QED BY <1>5, <1>11, <1>12, <1>15, <1>18

(* A kill: the message is delivered again. *)
LEMMA StepKill ==
    ASSUME BlockInv, NEW i \in Assembler, B!KillAssembler(i) PROVE BlockInv'
<1>1. /\ Works(i) /\ SameVersion
      /\ bjob' = [bjob EXCEPT ![i] = B!Idle] /\ bqueue' = bqueue \cup {bjob[i].msg}
      /\ UNCHANGED <<part, root, manifest, lockedBy>>
      /\ \E x : bpast' = [bpast EXCEPT !.cutOff = x]
  BY DEF B!KillAssembler, SameVersion, B!Leave, Works
<1>0. PastType /\ PastType' /\ (Good' => Good)
  BY <1>1 DEF BlockInv, PastType, Good
<1> SUFFICES ASSUME Good' PROVE (BlockType /\ Messages /\ Locks /\ Parts /\ Manifest /\ Progress /\ Once)'
  BY <1>0 DEF BlockInv
<1>3. BlockType
  BY <1>0 DEF BlockInv
<1>4. /\ bjob'[i].pc = "idle"
      /\ \A j \in Assembler : j # i => bjob'[j] = bjob[j]
      /\ bjob' \in [Assembler -> JobType] /\ bjob[i].msg \in [v : Nat, number : Nat]
  BY <1>1, <1>3 DEF BlockType, JobType, B!Idle, ManifestType, B!NoManifest
<1>6. bpast'.whole = bpast.whole /\ bpast'.parts = bpast.parts /\ bpast'.again = bpast.again
  BY <1>0, <1>1 DEF PastType
<1>5. BlockType'
  BY <1>1, <1>3, <1>4, SameBlocks DEF BlockType, SameVersion
<1>7. Messages /\ Locks /\ Parts /\ Manifest /\ Progress /\ Once
  BY <1>0 DEF BlockInv
<1>8. BB' = BB /\ bversion' = bversion /\ Now' = Now /\ B!Blocks' = B!Blocks
  BY <1>1, SameBlocks DEF SameVersion, BB, Now
<1>9. /\ bjob[i].msg = [v |-> bversion, number |-> B!Blk(i)] /\ B!Blk(i) \in BB /\ bversion # 0
      /\ \A j \in Assembler : Works(j) /\ j # i => B!Blk(j) # B!Blk(i)
  BY <1>1, <1>4, <1>7 DEF Messages, B!Blk
<1>10. \A b : InQueue(b)' <=> InQueue(b) \/ b = B!Blk(i)
  BY <1>1, <1>8, <1>9 DEF InQueue
<1>11. Messages'
  BY <1>1, <1>4, <1>7, <1>8, <1>9, <1>10 DEF Messages, Works, B!Blk
<1>12. \A b \in BB : Gone(b) => Gone(b)'
  BY <1>1, <1>4, <1>10 DEF Gone, Works, B!Blk
<1>13. Locks' /\ Parts'
  BY <1>1, <1>4, <1>7, <1>8 DEF Locks, Parts, B!UsesLock, B!Blk, B!NoPart
<1>16. \A j \in Assembler : /\ InHand(j)' => InHand(j) /\ bjob'[j] = bjob[j]
                            /\ Completes(j)' => Completes(j) /\ bjob'[j] = bjob[j]
  BY <1>4 DEF InHand, Completes
<1>17. \A b \in BB : Ahead(b) => Ahead(b)'
  BY <1>1, <1>4, <1>8, <1>10 DEF Ahead, B!Blk, B!NoPart
<1>18. Manifest' /\ Progress' /\ Once'
  BY <1>1, <1>6, <1>7, <1>9, <1>12, <1>16, <1>17, ManifestStays, ProgressStays, OnceStays
<1> QED BY <1>5, <1>11, <1>13, <1>18

(* The manifest counts blocks as anyone does. *)
LEMMA SameCount == \A T : B!Cardinality(T) = Cardinality(T)
BY DEF B!Cardinality, Cardinality

(* The block is copied into the file, which is cut when it is longer than the version. *)
LEMMA StepCopy ==
    ASSUME BlockInv, NEW i \in Assembler, B!CopyBlock(i) PROVE BlockInv'
<1> DEFINE n == B!Blk(i)
           size == bopt.blocks[bjob[i].msg.v]
           shorter == manifest.kept => size < Cardinality(manifest.got)
           mem == [kept |-> TRUE, got |-> manifest.got \cup {n},
                   waiting |-> B!Waiting(bjob[i].msg) \ {n}]
<1>1. /\ bjob[i].pc = "copy" /\ SameVersion
      /\ UNCHANGED <<manifest, lockedBy, bqueue>>
      /\ IF part[n] = B!NoPart
         THEN bpast' = [bpast EXCEPT !.parts = TRUE]
         ELSE /\ bpast' = bpast /\ part' = part
              /\ bjob' = [bjob EXCEPT ![i].pc = "unlink", ![i].mem = mem]
              /\ root' = [b \in B!Blocks |-> root'[b]]
              /\ \A b \in B!Blocks : root'[b] = IF b = n THEN part[b].v
                                                ELSE IF shorter /\ b > size THEN 0 ELSE root[b]
  <2>1. bjob[i].pc = "copy" /\ SameVersion /\ UNCHANGED <<manifest, lockedBy, bqueue>>
    BY DEF B!CopyBlock, B!Raises, SameVersion
  <2>2. CASE part[n] = B!NoPart
    BY <2>1, <2>2 DEF B!CopyBlock, B!Raises, B!Blk
  <2>3. CASE part[n] # B!NoPart
    <3>1. bpast' = bpast /\ part' = part
      BY <2>3 DEF B!CopyBlock, B!Blk
    <3>2. bjob' = [bjob EXCEPT ![i].pc = "unlink", ![i].mem = mem]
      BY <2>3 DEF B!CopyBlock, B!Blk
    <3>3. /\ root' = [b \in B!Blocks |-> root'[b]]
          /\ \A b \in B!Blocks : root'[b] = IF b = n THEN part[b].v
                                            ELSE IF shorter /\ b > size THEN 0 ELSE root[b]
      BY <2>3, SameCount DEF B!CopyBlock, B!Blk
    <3> HIDE DEF mem, n, size, shorter
    <3> QED BY <2>1, <2>3, <3>1, <3>2, <3>3
  <2> QED BY <2>1, <2>2, <2>3
<1>0. PastType /\ PastType' /\ (Good' => Good)
  BY <1>1 DEF BlockInv, PastType, Good
<1> SUFFICES ASSUME Good' PROVE (BlockType /\ Messages /\ Locks /\ Parts /\ Manifest /\ Progress /\ Once)'
  BY <1>0 DEF BlockInv
<1>2. BlockType /\ Messages /\ Locks /\ Parts /\ Manifest /\ Progress /\ Once
  BY <1>0 DEF BlockInv
<1>3. /\ bjob[i].msg.v = bversion /\ n \in BB /\ bversion # 0 /\ InQueue(n) = FALSE
      /\ \A j \in Assembler : Works(j) /\ j # i => B!Blk(j) \in BB /\ B!Blk(j) # n
  BY <1>1, <1>2 DEF Messages, Works
<1>4. /\ bversion \in Nat /\ size \in Nat /\ BB = 1 .. size /\ BB \subseteq B!Blocks
      /\ B!Blocks \subseteq Nat \ {0}
      /\ B!BlocksOf(bjob[i].msg.v) = BB /\ B!BlocksOf(bversion) = BB
  BY <1>2, <1>3, BlockFacts DEF BB, BlockType
<1>5. part[n] = Now /\ Now # B!NoPart
  BY <1>1, <1>2, <1>3 DEF Parts, Now, B!NoPart
<1>6. /\ bpast' = bpast /\ part' = part
      /\ bjob' = [bjob EXCEPT ![i].pc = "unlink", ![i].mem = mem]
      /\ root' = [b \in B!Blocks |-> root'[b]]
      /\ \A b \in B!Blocks : root'[b] = IF b = n THEN part[b].v
                                        ELSE IF shorter /\ b > size THEN 0 ELSE root[b]
  BY <1>1, <1>5, Zenon
<1>7. /\ mem.kept = TRUE /\ n \in mem.got /\ manifest.got \subseteq mem.got
      /\ mem.waiting = (IF manifest.waiting = {} THEN BB ELSE manifest.waiting) \ {n}
  BY <1>2, <1>4 DEF B!Waiting, Manifest
<1>8. mem \in ManifestType /\ IsFiniteSet(manifest.got)
  <2>1. manifest.got \subseteq B!Blocks /\ manifest.waiting \subseteq B!Blocks
    BY <1>2 DEF BlockType, ManifestType
  <2> QED BY <1>2, <1>3, <1>4, <1>7, <2>1, BlockFacts, FS_Subset DEF ManifestType
<1>9. /\ \A b \in BB : root'[b] = IF b = n THEN bversion ELSE root[b]
      /\ \A b \in B!Blocks \ BB : root'[b] = 0
      /\ root' \in [B!Blocks -> Nat]
  <2>1. \A b \in BB : root'[b] = IF b = n THEN bversion ELSE root[b]
    <3>1. part[n].v = bversion
      BY <1>5 DEF Now
    <3>2. ASSUME NEW b \in BB PROVE b \in B!Blocks /\ ~(shorter /\ b > size)
      BY <1>4
    <3> QED BY <1>6, <3>1, <3>2
  <2>2. ASSUME NEW b \in B!Blocks \ BB PROVE root'[b] = 0
    <3>1. b # n /\ b > size
      BY <1>3, <1>4
    <3>2. CASE shorter
      BY <1>6, <3>1, <3>2
    <3>3. CASE ~shorter
      <4>1. manifest.kept /\ Cardinality(manifest.got) <= size
        <5>1. Cardinality(manifest.got) \in Nat
          BY <1>8, FS_CardinalityType
        <5> QED BY <1>4, <3>3, <5>1
      <4>2. root[b] # 0 => b <= Cardinality(manifest.got)
        BY <1>2, <4>1 DEF Manifest
      <4>3. Cardinality(manifest.got) \in Nat /\ b \in Nat
        BY <1>4, <1>8, FS_CardinalityType
      <4>4. ~(b <= Cardinality(manifest.got))
        BY <1>4, <3>1, <4>1, <4>3
      <4> QED BY <1>6, <3>1, <3>3, <4>2, <4>4, Zenon
    <3> QED BY <3>2, <3>3
  <2>3. ASSUME NEW b \in B!Blocks PROVE root'[b] \in Nat
    BY <1>2, <1>4, <2>1, <2>2, SMTT(40) DEF BlockType
  <2> QED BY <1>6, <2>1, <2>2, <2>3
<1> HIDE DEF mem, n, size, shorter
<1>10. /\ bjob'[i].pc = "unlink" /\ bjob'[i].msg = bjob[i].msg /\ bjob'[i].mem = mem
       /\ \A j \in Assembler : j # i => bjob'[j] = bjob[j]
       /\ bjob' \in [Assembler -> JobType]
  <2>1. bjob \in [Assembler -> JobType]
    BY <1>2 DEF BlockType
  <2>2. [bjob[i] EXCEPT !.pc = "unlink", !.mem = mem] \in JobType
    BY <1>8, <2>1 DEF JobType
  <2>3. bjob' = [bjob EXCEPT ![i] = [bjob[i] EXCEPT !.pc = "unlink", !.mem = mem]]
    BY <1>6, <2>1
  <2> QED BY <2>1, <2>2, <2>3 DEF JobType
<1>11. BlockType'
  BY <1>1, <1>2, <1>6, <1>9, <1>10, SameBlocks DEF BlockType, SameVersion
<1>12. /\ BB' = BB /\ bversion' = bversion /\ Now' = Now /\ B!Blocks' = B!Blocks
       /\ B!BlocksOf(bversion)' = BB
  BY <1>1, <1>4, SameBlocks DEF SameVersion, BB, Now
<1>13. Messages' /\ \A b \in BB : Gone(b) => Gone(b)' /\ b # n
  <2>1. \A j \in Assembler : Works(j)' => Works(j) /\ bjob'[j].msg = bjob[j].msg
    BY <1>1, <1>10 DEF Works
  <2>2. ~Gone(n)
    BY <1>1 DEF Gone, Works, n
  <2> QED BY <1>1, <1>2, <2>1, <2>2, MessagesStay
<1>14. Locks'
  BY <1>1, <1>2, <1>10 DEF Locks, B!UsesLock
<1>15. Parts'
  BY <1>1, <1>2, <1>5, <1>6, <1>10, <1>12 DEF Parts, B!Blk, B!NoPart, n
<1>16. \A j \in Assembler : InHand(j)' => j = i
  BY <1>1, <1>2, <1>10 DEF InHand, Locks, B!UsesLock
<1>17. Sound(mem)'
  <2>1. mem.waiting \subseteq BB /\ BB \ mem.waiting \subseteq mem.got
    BY <1>2, <1>7 DEF Manifest, Sound
  <2>2. \A b \in BB \ mem.waiting : root'[b] = bversion
    BY <1>2, <1>7, <1>9 DEF Manifest, Sound
  <2>3. mem' = mem
    BY <1>10, <1>1 DEF mem, n, B!Waiting, B!BlocksOf, B!Blk, SameVersion
  <2> QED BY <1>9, <1>12, <2>1, <2>2, <2>3 DEF Sound
<1>18. Manifest'
  <2>1. manifest.waiting # {} => Sound(manifest)'
    BY <1>1, <1>2, <1>9, <1>12 DEF Manifest, Sound
  <2>2. \A j \in Assembler : InHand(j)' => bjob'[j].mem.kept /\ Sound(bjob[j].mem)'
                                           /\ B!Blk(j)' \notin bjob'[j].mem.waiting
    <3>1. B!Blk(i)' = n
      BY <1>10 DEF B!Blk, n
    <3>2. Sound(bjob[i].mem)'
      BY <1>1, <1>10, <1>17, ZenonT(30) DEF Sound, mem, n, B!Waiting, B!BlocksOf, B!Blk, SameVersion
    <3> QED BY <1>7, <1>10, <1>16, <3>1, <3>2
  <2> QED BY <1>1, <1>2, <1>9, <1>12, <2>1, <2>2 DEF Manifest
<1>19. \A j \in Assembler : Completes(j)' => Completes(j) /\ bjob'[j].msg = bjob[j].msg
  BY <1>10 DEF Completes
<1>20. Progress'
  <2>1. Whole(root, bversion) => Whole(root, bversion)'
    BY <1>4, <1>9, <1>12 DEF Whole
  <2>2. Begun => Begun'
    BY <1>1, <1>12, <2>1 DEF Begun, Finished
  <2>3. \A b \in BB : Ahead(b) => Ahead(b)'
    BY <1>1, <1>6, <1>10, <1>12 DEF Ahead, B!Blk, InQueue, B!NoPart
  <2> QED BY <1>2, <1>3, <1>12, <1>19, <2>1, <2>2, <2>3 DEF Progress
<1>21. \A b \in BB : b # n /\ Held(b) => Held(b)'
  BY <1>1, <1>7, <1>10, <1>16 DEF Held
<1>22. Once'
  <2>1. \A j \in Assembler : Completes(j)' => Held(B!Blk(j))'
    <3> SUFFICES ASSUME NEW j \in Assembler, Completes(j)' PROVE Held(B!Blk(j))'
      OBVIOUS
    <3>1. Completes(j) /\ B!Blk(j)' = B!Blk(j) /\ j # i
      BY <1>1, <1>19 DEF B!Blk, Completes
    <3>2. B!Blk(j) \in BB /\ B!Blk(j) # n /\ Held(B!Blk(j))
      BY <1>2, <1>3, <3>1 DEF Completes, Works, Once
    <3> QED BY <1>21, <3>1, <3>2 DEF Held
  <2>2. \A f \in bpast'.whole : f.v <= bversion' /\ f.v \in B!Versions' /\ Whole(f.content, f.v)'
    BY <1>1, <1>2, <1>6, <1>12, SameBlocks DEF Once, Whole, SameVersion
  <2>3. \A f \in bpast'.whole : f.v = bversion' =>
            (\A j \in Assembler : ~Completes(j)') /\ \E b \in BB' : Gone(b)' /\ Held(b)'
    BY <1>2, <1>6, <1>12, <1>13, <1>19, <1>21 DEF Once
  <2> QED BY <1>2, <1>6, <1>19, <2>1, <2>2, <2>3 DEF Once
<1> QED BY <1>11, <1>13, <1>14, <1>15, <1>18, <1>20, <1>22

(* The part file is removed when its block is in the file. *)
LEMMA StepUnlink ==
    ASSUME BlockInv, NEW i \in Assembler, B!UnlinkPart(i) PROVE BlockInv'
<1>1. /\ bjob[i].pc = "unlink" /\ SameVersion
      /\ UNCHANGED <<root, manifest, lockedBy, bqueue>>
      /\ IF part[B!Blk(i)] = B!NoPart
         THEN bpast' = [bpast EXCEPT !.parts = TRUE]
         ELSE /\ bpast' = bpast /\ bjob' = [bjob EXCEPT ![i].pc = "manifest"]
              /\ part' = [part EXCEPT ![B!Blk(i)] = B!NoPart]
  BY DEF B!UnlinkPart, B!Raises, SameVersion, B!At
<1>0. PastType /\ PastType' /\ (Good' => Good)
  BY <1>1 DEF BlockInv, PastType, Good
<1> SUFFICES ASSUME Good' PROVE (BlockType /\ Messages /\ Locks /\ Parts /\ Manifest /\ Progress /\ Once)'
  BY <1>0 DEF BlockInv
<1>2. BlockType /\ Messages /\ Locks /\ Parts /\ Manifest /\ Progress /\ Once
  BY <1>0 DEF BlockInv
<1>3. /\ bjob[i].msg.v = bversion /\ B!Blk(i) \in BB /\ bversion # 0
      /\ \A j \in Assembler : Works(j) /\ j # i => B!Blk(j) # B!Blk(i)
  BY <1>1, <1>2 DEF Messages, Works
<1>4. Now # B!NoPart
  BY <1>3 DEF Now, B!NoPart
<1>5. /\ bpast' = bpast /\ bjob' = [bjob EXCEPT ![i].pc = "manifest"]
      /\ part' = [part EXCEPT ![B!Blk(i)] = B!NoPart]
  BY <1>1, <1>2, <1>4 DEF Parts
<1>6. /\ bjob'[i].pc = "manifest" /\ bjob'[i].msg = bjob[i].msg /\ bjob'[i].mem = bjob[i].mem
      /\ \A j \in Assembler : j # i => bjob'[j] = bjob[j]
      /\ bjob' \in [Assembler -> JobType]
  BY <1>2, <1>5, ZenonT(30) DEF BlockType, JobType
<1>7. /\ BB' = BB /\ bversion' = bversion /\ Now' = Now /\ B!Blocks' = B!Blocks /\ BB \subseteq B!Blocks
  BY <1>1, <1>2, <1>3, SameBlocks, BlockFacts DEF SameVersion, BB, Now
<1>8. part' \in [B!Blocks -> [v : Nat, mtime : Nat]]
      /\ \A b \in B!Blocks : part'[b] = IF b = B!Blk(i) THEN B!NoPart ELSE part[b]
  BY <1>2, <1>5 DEF BlockType, B!NoPart
<1>9. BlockType'
  BY <1>1, <1>2, <1>6, <1>8, SameBlocks DEF BlockType, SameVersion
<1>10. Messages' /\ \A b \in BB : Gone(b) => Gone(b)'
  BY <1>1, <1>2, <1>6, MessagesStay DEF Works
<1>11. Locks'
  BY <1>1, <1>2, <1>6 DEF Locks, B!UsesLock
<1>12. Parts'
  <2>1. \A j \in Assembler : bjob'[j].pc \in {"lock", "copy", "unlink"} =>
            j # i /\ Works(j) /\ B!Blk(j)' = B!Blk(j) /\ part[B!Blk(j)] = Now
    BY <1>2, <1>6 DEF Parts, Works, B!Blk
  <2>2. \A j \in Assembler : Works(j) => B!Blk(j) \in B!Blocks
    BY <1>2, <1>7 DEF Messages
  <2> QED BY <1>2, <1>3, <1>7, <1>8, <2>1, <2>2 DEF Parts, B!NoPart
<1>13. \A j \in Assembler : /\ InHand(j)' => InHand(j) /\ bjob'[j].mem = bjob[j].mem
                                             /\ bjob'[j].msg = bjob[j].msg
                            /\ Completes(j)' => Completes(j) /\ bjob'[j].msg = bjob[j].msg
  BY <1>1, <1>6 DEF InHand, Completes
<1>14. \A b \in BB : Ahead(b) => Ahead(b)'
  <2>1. \A b \in BB : b = B!Blk(i) => Ahead(b)'
    BY <1>6 DEF Ahead, B!Blk
  <2> QED BY <1>1, <1>6, <1>7, <1>8, <2>1 DEF Ahead, B!Blk, InQueue, B!NoPart
<1>15. Manifest' /\ Progress' /\ Once'
  BY <1>1, <1>2, <1>3, <1>5, <1>10, <1>13, <1>14, ManifestStays, ProgressStays, OnceStays
<1> QED BY <1>9, <1>10, <1>11, <1>12, <1>15

(* The manifest is written, or removed with the last block, and the message may become the one
   for the whole file. *)
LEMMA StepManifest ==
    ASSUME BlockInv, NEW i \in Assembler, B!WriteManifest(i) PROVE BlockInv'
<1> DEFINE mem == bjob[i].mem
<1>1. /\ bjob[i].pc = "manifest" /\ SameVersion
      /\ UNCHANGED <<part, root, lockedBy, bqueue, bpast>>
      /\ \/ mem.waiting = {} /\ manifest' = B!NoManifest
         \/ manifest' = mem
      /\ bjob' = [bjob EXCEPT ![i].pc = "unlock", ![i].complete = (mem.waiting = {})]
  BY DEF B!WriteManifest, B!Complete, SameVersion
<1>0. PastType /\ PastType' /\ (Good' => Good)
  BY <1>1 DEF BlockInv, PastType, Good
<1> SUFFICES ASSUME Good' PROVE (BlockType /\ Messages /\ Locks /\ Parts /\ Manifest /\ Progress /\ Once)'
  BY <1>0 DEF BlockInv
<1>2. BlockType /\ Messages /\ Locks /\ Parts /\ Manifest /\ Progress /\ Once
  BY <1>0 DEF BlockInv
<1>3. /\ bjob[i].msg.v = bversion /\ B!Blk(i) \in BB /\ bversion # 0
      /\ \A j \in Assembler : Works(j) /\ j # i => B!Blk(j) # B!Blk(i)
  BY <1>1, <1>2 DEF Messages, Works
<1>4. InHand(i) /\ mem.kept /\ Sound(mem) /\ mem \in ManifestType
  BY <1>1, <1>2 DEF Manifest, InHand, BlockType, JobType
<1>5. /\ BB' = BB /\ bversion' = bversion /\ Now' = Now /\ B!Blocks' = B!Blocks
      /\ B!BlocksOf(bversion)' = BB /\ B!BlocksOf(bversion) = BB
  BY <1>1, SameBlocks DEF SameVersion, BB, Now
<1> HIDE DEF mem
<1>6. /\ bjob'[i].pc = "unlock" /\ bjob'[i].msg = bjob[i].msg
      /\ (bjob'[i].complete <=> mem.waiting = {})
      /\ \A j \in Assembler : j # i => bjob'[j] = bjob[j]
      /\ bjob' \in [Assembler -> JobType]
  <2>1. bjob \in [Assembler -> JobType]
    BY <1>2 DEF BlockType
  <2>2. [bjob[i] EXCEPT !.pc = "unlock", !.complete = (mem.waiting = {})] \in JobType
    BY <2>1 DEF JobType
  <2>3. bjob' = [bjob EXCEPT ![i] = [bjob[i] EXCEPT !.pc = "unlock", !.complete = (mem.waiting = {})]]
    BY <1>1, <2>1
  <2> QED BY <2>1, <2>2, <2>3 DEF JobType
<1>7. manifest' \in ManifestType
  <2>1. B!NoManifest \in ManifestType
    BY DEF ManifestType, B!NoManifest
  <2> QED BY <1>1, <1>4, <2>1
<1>8. BlockType'
  BY <1>1, <1>2, <1>6, <1>7, SameBlocks DEF BlockType, SameVersion
<1>9. Messages' /\ \A b \in BB : Gone(b) => Gone(b)'
  BY <1>1, <1>2, <1>6, MessagesStay DEF Works
<1>10. Locks' /\ Parts'
  BY <1>1, <1>2, <1>5, <1>6 DEF Locks, Parts, B!UsesLock, B!Blk, B!NoPart
<1>11. \A j \in Assembler : ~InHand(j)'
  BY <1>1, <1>2, <1>6 DEF InHand, Locks, B!UsesLock
<1>12. /\ \A b \in BB \ mem.waiting : root[b] = bversion
       /\ \A b \in B!Blocks \ BB : root[b] = 0
       /\ mem.waiting \subseteq BB /\ BB \ mem.waiting \subseteq mem.got
  BY <1>4 DEF Sound
<1>13. Manifest'
  <2>1. manifest'.waiting # {} => manifest' = mem
    BY <1>1 DEF B!NoManifest
  <2>2. manifest'.waiting # {} => manifest'.kept /\ Sound(manifest)'
    BY <1>1, <1>4, <1>5, <1>12, <2>1 DEF Sound
  <2> QED BY <1>1, <1>5, <1>11, <1>12, <2>2 DEF Manifest
<1>14. mem.waiting = {} => Whole(root, bversion)'
  BY <1>1, <1>5, <1>12 DEF Whole
<1>15. Progress'
  <2>1. Begun'
    BY <1>1, <1>5, <1>12, <1>14 DEF Begun, Finished, B!NoManifest
  <2>2. \A j \in Assembler : Completes(j)' => Completes(j) \/ (j = i /\ mem.waiting = {})
    BY <1>6 DEF Completes
  <2>3. Whole(root, bversion)' <=> Whole(root, bversion)
    BY <1>1, <1>5 DEF Whole
  <2> QED BY <1>2, <1>3, <1>5, <1>14, <2>1, <2>2, <2>3 DEF Progress
<1>16. \A b \in BB : Held(b) => Held(b)' /\ mem.waiting # {}
  BY <1>1, <1>4, <1>11 DEF Held, mem
<1>17. Once'
  <2>1. \A j \in Assembler : Completes(j)' =>
            /\ j = i => mem.waiting = {}
            /\ j # i => Completes(j) /\ bjob'[j] = bjob[j] /\ B!Blk(j) \in BB
                        /\ Held(B!Blk(j)) /\ mem.waiting # {}
    BY <1>2, <1>6, <1>16 DEF Completes, Once, Messages, Works
  <2>2. \A j \in Assembler : Completes(j)' => Held(B!Blk(j))'
    <3>1. mem.waiting = {} => \A b : Held(b)'
      BY <1>1, <1>11 DEF Held, B!NoManifest
    <3> QED BY <1>16, <2>1, <3>1 DEF B!Blk, Held
  <2>3. \A j, k \in Assembler : Completes(j)' /\ Completes(k)' => j = k
    BY <1>2, <2>1 DEF Once
  <2>4. \A f \in bpast'.whole : f.v <= bversion' /\ f.v \in B!Versions' /\ Whole(f.content, f.v)'
    BY <1>1, <1>2, <1>5, SameBlocks DEF Once, Whole, SameVersion
  <2>5. \A f \in bpast'.whole : f.v = bversion' =>
            (\A j \in Assembler : ~Completes(j)') /\ \E b \in BB' : Gone(b)' /\ Held(b)'
    BY <1>1, <1>2, <1>5, <1>9, <1>16, <2>1 DEF Once
  <2> QED BY <1>1, <1>2, <2>2, <2>3, <2>4, <2>5 DEF Once
<1> QED BY <1>8, <1>9, <1>10, <1>13, <1>15, <1>17

(* The lock is given back by the one who has it. *)
LEMMA StepUnlock ==
    ASSUME BlockInv, NEW i \in Assembler, B!UnlockRoot(i) PROVE BlockInv'
<1>1. /\ bjob[i].pc = "unlock" /\ SameVersion
      /\ UNCHANGED <<part, root, manifest, bqueue>>
      /\ lockedBy' = IF lockedBy = i THEN 0 ELSE lockedBy
      /\ bjob' = [bjob EXCEPT ![i].pc = "post"]
      /\ bpast' = [bpast EXCEPT !.parts = @ \/ (lockedBy # i /\ ~bjob[i].complete)]
  BY DEF B!UnlockRoot, SameVersion, B!At
<1>0. PastType /\ PastType' /\ (Good' => Good)
  BY <1>1 DEF BlockInv, PastType, Good
<1> SUFFICES ASSUME Good' PROVE (BlockType /\ Messages /\ Locks /\ Parts /\ Manifest /\ Progress /\ Once)'
  BY <1>0 DEF BlockInv
<1>2. BlockType /\ Messages /\ Locks /\ Parts /\ Manifest /\ Progress /\ Once
  BY <1>0 DEF BlockInv
<1>3. lockedBy = i /\ lockedBy' = 0 /\ bversion # 0
  BY <1>1, <1>2 DEF Locks, B!UsesLock, Messages, Works
<1>4. bpast'.whole = bpast.whole /\ (bpast'.parts <=> bpast.parts) /\ bpast'.again = bpast.again
  BY <1>0, <1>1, <1>3 DEF PastType
<1>6. /\ bjob'[i].pc = "post" /\ bjob'[i].msg = bjob[i].msg /\ bjob'[i].complete = bjob[i].complete
      /\ \A j \in Assembler : j # i => bjob'[j] = bjob[j]
      /\ bjob' \in [Assembler -> JobType]
  BY <1>1, <1>2, ZenonT(30) DEF BlockType, JobType
<1>7. BB' = BB /\ bversion' = bversion /\ Now' = Now /\ B!Blocks' = B!Blocks
  BY <1>1, SameBlocks DEF SameVersion, BB, Now
<1>9. BlockType'
  BY <1>1, <1>2, <1>3, <1>6, SameBlocks DEF BlockType, SameVersion
<1>10. Messages' /\ \A b \in BB : Gone(b) => Gone(b)'
  BY <1>1, <1>2, <1>6, MessagesStay DEF Works
<1>11. Locks' /\ Parts'
  BY <1>1, <1>2, <1>3, <1>6, <1>7 DEF Locks, Parts, B!UsesLock, B!Blk, B!NoPart
<1>13. \A j \in Assembler : /\ InHand(j)' => InHand(j) /\ bjob'[j].mem = bjob[j].mem
                                             /\ bjob'[j].msg = bjob[j].msg
                            /\ Completes(j)' => Completes(j) /\ bjob'[j].msg = bjob[j].msg
  BY <1>1, <1>6 DEF InHand, Completes
<1>14. \A b \in BB : Ahead(b) => Ahead(b)'
  BY <1>1, <1>6, <1>7 DEF Ahead, B!Blk, InQueue, B!NoPart
<1>15. Manifest' /\ Progress'
  BY <1>1, <1>2, <1>3, <1>4, <1>13, <1>14, ManifestStays, ProgressStays
<1>16. Once'
  BY <1>1, <1>2, <1>4, <1>10, <1>13, OnceStays
<1> QED BY <1>9, <1>10, <1>11, <1>15, <1>16

(* The message is posted, and acknowledged. *)
LEMMA StepPost ==
    ASSUME BlockInv, NEW i \in Assembler, B!PostFile(i) PROVE BlockInv'
<1> DEFINE file == [v |-> bjob[i].msg.v, content |-> root]
<1>1. /\ bjob[i].pc = "post" /\ SameVersion
      /\ UNCHANGED <<part, root, manifest, lockedBy, bqueue>>
      /\ bjob' = [bjob EXCEPT ![i] = B!Idle]
      /\ bpast' = IF ~bjob[i].complete THEN bpast
                  ELSE [bpast EXCEPT !.whole = @ \cup {file}, !.again = @ \/ file \in bpast.whole]
  BY DEF B!PostFile, SameVersion, B!Leave
<1>0. PastType /\ PastType' /\ (Good' => Good)
  BY <1>1 DEF BlockInv, PastType, Good
<1> SUFFICES ASSUME Good' PROVE (BlockType /\ Messages /\ Locks /\ Parts /\ Manifest /\ Progress /\ Once)'
  BY <1>0 DEF BlockInv
<1>2. BlockType /\ Messages /\ Locks /\ Parts /\ Manifest /\ Progress /\ Once
  BY <1>0 DEF BlockInv
<1>3. /\ bjob[i].msg.v = bversion /\ B!Blk(i) \in BB /\ bversion # 0 /\ ~InQueue(B!Blk(i))
      /\ \A j \in Assembler : Works(j) /\ j # i => B!Blk(j) # B!Blk(i)
  BY <1>1, <1>2 DEF Messages, Works
<1>6. /\ bjob'[i].pc = "idle"
      /\ \A j \in Assembler : j # i => bjob'[j] = bjob[j]
      /\ bjob' \in [Assembler -> JobType]
  BY <1>1, <1>2 DEF BlockType, JobType, B!Idle, ManifestType, B!NoManifest
<1>7. BB' = BB /\ bversion' = bversion /\ Now' = Now /\ B!Blocks' = B!Blocks
  BY <1>1, SameBlocks DEF SameVersion, BB, Now
<1>9. BlockType'
  BY <1>1, <1>2, <1>6, SameBlocks DEF BlockType, SameVersion
<1>10. Messages' /\ \A b \in BB : Gone(b) => Gone(b)'
  BY <1>1, <1>2, <1>6, MessagesStay DEF Works
<1>11. Locks' /\ Parts'
  BY <1>1, <1>2, <1>6, <1>7 DEF Locks, Parts, B!UsesLock, B!Blk, B!NoPart
<1>13. \A j \in Assembler : /\ InHand(j)' => InHand(j) /\ bjob'[j].mem = bjob[j].mem
                                             /\ bjob'[j].msg = bjob[j].msg
                            /\ Completes(j)' => Completes(j) /\ bjob'[j].msg = bjob[j].msg /\ j # i
  BY <1>1, <1>6 DEF InHand, Completes
<1>14. \A b \in BB : Ahead(b) => Ahead(b)'
  BY <1>1, <1>6, <1>7 DEF Ahead, B!Blk, InQueue, B!NoPart
<1>15. Manifest'
  BY <1>1, <1>2, <1>13, ManifestStays
<1>16. CASE ~bjob[i].complete
  BY <1>1, <1>2, <1>3, <1>9, <1>10, <1>11, <1>13, <1>14, <1>15, <1>16, OnceStays, ProgressStays
<1>17. CASE bjob[i].complete
  <2>1. Completes(i) /\ Whole(root, bversion) /\ Held(B!Blk(i))
    BY <1>1, <1>2, <1>17 DEF Completes, Progress, Once
  <2>2. /\ bpast'.whole = bpast.whole \cup {file} /\ bpast'.parts = bpast.parts
        /\ (bpast'.again <=> bpast.again \/ file \in bpast.whole)
    BY <1>0, <1>1, <1>17 DEF PastType
  <2>3. file \notin bpast.whole
    BY <1>2, <1>3, <2>1 DEF Once
  <2>4. \A j \in Assembler : ~Completes(j)'
    BY <1>2, <1>13, <2>1 DEF Once
  <2>5. \A f \in bpast'.whole : f.v <= bversion' /\ f.v \in B!Versions' /\ Whole(f.content, f.v)'
    <3>1. bversion \in Nat /\ bversion \in B!Versions
      BY <1>2, <1>3, BlockFacts DEF BlockType
    <3>2. \A f \in bpast'.whole : f.v <= bversion /\ f.v \in B!Versions /\ Whole(f.content, f.v)
      BY <1>2, <1>3, <2>1, <2>2, <3>1 DEF Once
    <3> QED BY <1>1, <1>7, <3>2, SameBlocks DEF Whole, SameVersion
  <2>6. \E b \in BB' : Gone(b)' /\ Held(b)'
    <3>1. \A b \in BB : b = B!Blk(i) => Gone(b)' /\ Held(b)'
      <4>1. \A b \in BB : b = B!Blk(i) => Gone(b)'
        BY <1>1, <1>3, <1>6, <1>7 DEF Gone, InQueue, Works, B!Blk
      <4>2. \A b \in BB : b = B!Blk(i) => Held(b)'
        BY <1>1, <1>13, <2>1 DEF Held
      <4> QED BY <4>1, <4>2
    <3> QED BY <1>3, <1>7, <3>1
  <2>7. Once'
    BY <1>2, <2>2, <2>3, <2>4, <2>5, <2>6 DEF Once
  <2>8. Progress'
    <3>1. Whole(root, bversion)' <=> Whole(root, bversion)
      BY <1>1, <1>7, SameBlocks DEF Whole, SameVersion
    <3>2. Begun => Begun'
      BY <1>1, <1>7, <3>1 DEF Begun, Finished
    <3> QED BY <1>1, <1>2, <1>3, <1>7, <1>14, <2>4, <3>2 DEF Progress
  <2> QED BY <1>9, <1>10, <1>11, <1>15, <2>7, <2>8
<1> QED BY <1>16, <1>17

(* Nothing moves but the lock that nobody uses. *)
LEMMA StepBreak ==
    ASSUME BlockInv, SameVersion, UNCHANGED <<bjob, part, root, manifest, bqueue, bpast>>,
           lockedBy' = lockedBy \/ (lockedBy' = 0 /\ ~B!UsesLock(lockedBy))
    PROVE  BlockInv'
<1>0. PastType /\ PastType' /\ (Good' => Good)
  BY DEF BlockInv, PastType, Good
<1> SUFFICES ASSUME Good' PROVE (BlockType /\ Messages /\ Locks /\ Parts /\ Manifest /\ Progress /\ Once)'
  BY <1>0 DEF BlockInv
<1>2. BlockType /\ Messages /\ Locks /\ Parts /\ Manifest /\ Progress /\ Once
  BY <1>0 DEF BlockInv
<1>3. BB' = BB /\ bversion' = bversion /\ Now' = Now /\ B!Blocks' = B!Blocks
  BY SameBlocks DEF SameVersion, BB, Now
<1>4. BlockType'
  BY <1>2, SameBlocks DEF BlockType, SameVersion
<1>5. Messages' /\ \A b \in BB : Gone(b) => Gone(b)'
  BY <1>2, MessagesStay DEF Works
<1>6. Locks' /\ Parts'
  BY <1>2, <1>3 DEF Locks, Parts, B!UsesLock, B!Blk, B!NoPart
<1>7. \A j \in Assembler : (InHand(j)' => InHand(j)) /\ (Completes(j)' => Completes(j))
  BY DEF InHand, Completes
<1>8. \A b \in BB : Ahead(b) => Ahead(b)'
  BY <1>3 DEF Ahead, B!Blk, InQueue, B!NoPart
<1>9. bversion = 0 => bqueue' = {}
  BY <1>2 DEF Progress
<1> QED BY <1>2, <1>4, <1>5, <1>6, <1>7, <1>8, <1>9, ManifestStays, ProgressStays, OnceStays

(* Every step of the instances that put blocks together. *)
LEMMA BlockStep == ASSUME BlockInv, [B!Next]_bVars PROVE BlockInv'
<1>1. CASE UNCHANGED bVars
  BY <1>1, StepBreak DEF bVars, SameVersion
<1>2. CASE B!BreakLock
  BY <1>2, StepBreak DEF B!BreakLock, SameVersion
<1>3. CASE B!BreakLockInUse
  BY <1>3 DEF B!BreakLockInUse, BlockInv, PastType, Good
<1>4. CASE B!PostBlocks
  BY <1>4, StepPostBlocks
<1>5. ASSUME NEW i \in Assembler, B!Assemble(i) \/ B!KillAssembler(i) PROVE BlockInv'
  BY <1>5, StepGather, StepDownload, StepLock, StepCopy, StepUnlink, StepManifest, StepUnlock,
     StepPost, StepKill DEF B!Assemble
<1> QED BY <1>1, <1>2, <1>3, <1>4, <1>5 DEF B!Next

(* The blocks, whoever puts them together. *)
LEMMA BlockInvariant == Spec => []BlockInv
<1>1. Init => BlockInv
  <2>1. ASSUME NEW pc \in {"off", "idle"}, B!InitAs(pc) PROVE BlockInv
    <3>1. bopt \in BlockOptions
      BY <2>1, BlockAssumption DEF B!InitAs
    <3>2. /\ \A i \in Assembler : bjob[i].pc = pc /\ bjob[i] \in JobType
          /\ bjob = [i \in Assembler |-> bjob[i]]
      BY <2>1 DEF B!InitAs, B!Idle, JobType, B!NoManifest, ManifestType
    <3>3. /\ \A b \in B!Blocks : part[b] = B!NoPart /\ root[b] = 0
          /\ part \in [B!Blocks -> [v : Nat, mtime : Nat]] /\ root \in [B!Blocks -> Nat]
      BY <2>1 DEF B!InitAs, B!NoPart
    <3>4. manifest = B!NoManifest /\ lockedBy = 0 /\ bversion = 0 /\ bqueue = {}
      BY <2>1 DEF B!InitAs
    <3>5. PastType /\ bpast.whole = {} /\ ~bpast.parts /\ ~bpast.again
      BY <2>1 DEF B!InitAs, PastType
    <3>6. BlockType
      <4>1. bopt.blocks \in Seq(Nat \ {0})
        BY <3>1, BlockAssumption
      <4>2. bversion \in 0 .. Len(bopt.blocks)
        BY <3>4, <4>1
      <4>3. manifest \in ManifestType
        BY <3>4 DEF ManifestType, B!NoManifest
      <4> QED BY <3>1, <3>2, <3>3, <3>4, <4>2, <4>3 DEF BlockType
    <3>7. \A i \in Assembler : ~Works(i) /\ ~InHand(i) /\ ~Completes(i) /\ ~B!UsesLock(i)
      BY <3>2 DEF Works, InHand, Completes, B!UsesLock
    <3>8. Messages /\ Locks /\ Parts /\ Manifest
      BY <3>2, <3>3, <3>4, <3>7 DEF Messages, Locks, Parts, Manifest, B!NoManifest
    <3>9. Progress /\ Once
      BY <3>3, <3>4, <3>5, <3>7 DEF Progress, Once
    <3> QED BY <3>5, <3>6, <3>8, <3>9 DEF BlockInv
  <2> QED BY <2>1 DEF Init
<1>2. BlockInv /\ [Next]_tVars => BlockInv'
  BY TransferSteps, BlockStep
<1> QED BY <1>1, <1>2, PTL DEF Spec, tVars

(* A file announced as complete is all of one version, and no block is announced instead of its
   file, and no file twice: in whatever order the blocks came, through however many instances,
   and with kills between any two steps. *)
THEOREM BlocksMakeFiles == Spec => [](CompleteIsWhole /\ OnlyWholeFiles)
<1>1. BlockInv => CompleteIsWhole /\ OnlyWholeFiles
  BY DEF BlockInv, Good, Once, Whole, CompleteIsWhole, OnlyWholeFiles, B!CompleteIsWhole,
     B!OnlyWholeFiles
<1> QED BY BlockInvariant, <1>1, PTL

-----------------------------------------------------------------------------
(* The blocks that the manifest waits for, all of them for a file that is begun anew. *)
Missing == IF manifest.waiting = {} THEN BB ELSE manifest.waiting

(* The block is in the queue, or on its way through an instance. *)
Pending(b) ==
    \/ InQueue(b)
    \/ \E i \in Assembler : bjob[i].pc \in {"download", "lock", "copy", "unlink", "manifest"}
                            /\ B!Blk(i) = b

(* Each block was dealt with as far as its instance came. *)
Unharmed == Good /\ ~bpast.stranded /\ ~bpast.cutOff

(* The file is announced, or about to be, or all that is missing is still to come. *)
OnItsWay ==
    \/ \E f \in bpast.whole : f.v = bversion
    \/ \E i \in Assembler : Completes(i)
    \/ \A b \in Missing : Pending(b)

AnnounceInv ==
    Unharmed => /\ \A i \in Assembler : InHand(i) => bjob[i].mem.waiting \subseteq Missing
                /\ bversion # 0 => OnItsWay

(* What leaves the manifest alone, and no block and no file behind. *)
LEMMA AnnounceStays ==
    ASSUME AnnounceInv, Unharmed' => Unharmed, SameVersion, manifest' = manifest,
           bpast.whole \subseteq bpast'.whole,
           Unharmed' =>
               /\ \A j \in Assembler : InHand(j)' => InHand(j) /\ bjob'[j].mem = bjob[j].mem
               /\ \A b : Pending(b) => Pending(b)'
               /\ \A j \in Assembler : Completes(j) => OnItsWay'
    PROVE  AnnounceInv'
<1> SUFFICES ASSUME Unharmed'
             PROVE  /\ \A i \in Assembler : InHand(i)' => bjob'[i].mem.waiting \subseteq Missing'
                    /\ bversion' # 0 => OnItsWay'
  BY DEF AnnounceInv
<1>1. BB' = BB /\ bversion' = bversion
  BY SameBlocks DEF SameVersion, BB
<1>2. Missing' = Missing
  BY <1>1 DEF Missing
<1>3. bversion' # 0 => OnItsWay'
  BY <1>1, <1>2 DEF AnnounceInv, OnItsWay
<1> QED BY <1>2, <1>3 DEF AnnounceInv

(* A block in the queue is one that an instance takes, or stays there. *)
LEMMA AnnounceGather ==
    ASSUME BlockInv, AnnounceInv, NEW i \in Assembler, B!GatherBlock(i) PROVE AnnounceInv'
<1>1. PICK m \in bqueue :
          /\ bqueue' = bqueue \ {m}
          /\ bjob' = [bjob EXCEPT ![i] = [B!Idle EXCEPT !.pc = "download", !.msg = m]]
  BY DEF B!GatherBlock
<1>2. /\ bjob[i].pc = "idle" /\ SameVersion
      /\ UNCHANGED <<part, root, manifest, lockedBy, bpast>>
  BY DEF B!GatherBlock, SameVersion
<1>3. Unharmed' <=> Unharmed
  BY <1>2 DEF Unharmed, Good
<1> SUFFICES ASSUME Unharmed PROVE AnnounceInv'
  BY <1>3 DEF AnnounceInv
<1>4. bjob \in [Assembler -> JobType]
  BY DEF Unharmed, BlockInv, BlockType
<1>5. /\ bjob'[i].pc = "download" /\ bjob'[i].msg = m
      /\ \A j \in Assembler : j # i => bjob'[j] = bjob[j]
  BY <1>1, <1>4 DEF B!Idle
<1>6. ASSUME NEW b, Pending(b) PROVE Pending(b)'
  <2>1. CASE InQueue(b)
    <3>1. m = [v |-> bversion, number |-> b] => m.number = b
      OBVIOUS
    <3> QED BY <1>1, <1>2, <1>5, <2>1, <3>1 DEF InQueue, Pending, B!Blk, SameVersion
  <2>2. CASE ~InQueue(b)
    BY <1>2, <1>5, <1>6, <2>2 DEF Pending, B!Blk
  <2> QED BY <2>1, <2>2
<1>7. \A j \in Assembler : /\ InHand(j)' => InHand(j) /\ bjob'[j].mem = bjob[j].mem
                           /\ Completes(j) => Completes(j)'
  BY <1>2, <1>5 DEF InHand, Completes
<1> QED BY <1>2, <1>3, <1>6, <1>7, AnnounceStays DEF OnItsWay

(* An instance that goes on with its block and does not write the manifest. *)
LEMMA AnnounceGoesOn ==
    ASSUME BlockInv, AnnounceInv, NEW i \in Assembler, SameVersion, UNCHANGED <<manifest, bqueue>>,
           Unharmed' => Unharmed, bpast'.whole = bpast.whole,
           Unharmed' => /\ \A j \in Assembler : j # i => bjob'[j] = bjob[j]
                        /\ bjob'[i].msg = bjob[i].msg
                        /\ \/ /\ bjob[i].pc \in {"download", "lock", "copy", "unlink"}
                              /\ bjob'[i].pc \in {"download", "lock", "copy", "unlink", "manifest"}
                           \/ /\ bjob[i].pc \in {"unlock", "post"} /\ bjob'[i].pc = "post"
                              /\ bjob'[i].complete = bjob[i].complete
                        /\ InHand(i)' => InHand(i) /\ bjob'[i].mem = bjob[i].mem
    PROVE  AnnounceInv'
<1>1. ASSUME Unharmed', NEW b, Pending(b) PROVE Pending(b)'
  BY <1>1 DEF Pending, B!Blk, InQueue, SameVersion
<1>2. ASSUME Unharmed'
      PROVE  \A j \in Assembler : /\ InHand(j)' => InHand(j) /\ bjob'[j].mem = bjob[j].mem
                                  /\ Completes(j) => Completes(j)'
  BY <1>2 DEF InHand, Completes
<1> QED BY <1>1, <1>2, AnnounceStays DEF OnItsWay

(* Up to the copy. *)
LEMMA AnnounceBegins ==
    ASSUME BlockInv, AnnounceInv, NEW i \in Assembler, B!DownloadPart(i) \/ B!LockRoot(i) \/ B!UnlinkPart(i)
    PROVE  AnnounceInv'
<1>1. SameVersion /\ UNCHANGED <<manifest, bqueue>>
  BY DEF B!DownloadPart, B!LockRoot, B!UnlinkPart, B!Raises, SameVersion
<1>2. PastType
  BY DEF BlockInv
<1>3. \/ bpast' = bpast
      \/ bpast' = [bpast EXCEPT !.stranded = TRUE]
      \/ bpast' = [bpast EXCEPT !.parts = TRUE]
  BY DEF B!DownloadPart, B!LockRoot, B!UnlinkPart, B!Raises
<1>4. (Unharmed' => Unharmed) /\ bpast'.whole = bpast.whole
  BY <1>2, <1>3 DEF Unharmed, Good, PastType
<1>5. ASSUME Unharmed'
      PROVE  /\ bjob[i].pc \in {"download", "lock", "unlink"}
             /\ \E pc \in {"lock", "copy", "manifest"} : bjob' = [bjob EXCEPT ![i].pc = pc]
             /\ bjob[i].pc = "unlink" => bjob' = [bjob EXCEPT ![i].pc = "manifest"]
             /\ bjob[i].pc # "unlink" => \E pc \in {"lock", "copy"} : bjob' = [bjob EXCEPT ![i].pc = pc]
  <2>1. Unharmed /\ ~bpast'.stranded
    BY <1>4, <1>5 DEF Unharmed
  <2>2. CASE B!DownloadPart(i)
    BY <1>2, <2>1, <2>2 DEF B!DownloadPart, B!At, PastType
  <2>3. CASE B!LockRoot(i)
    BY <2>3 DEF B!LockRoot, B!At
  <2>4. CASE B!UnlinkPart(i)
    <3>1. part[B!Blk(i)] # B!NoPart
      BY <2>1, <2>4 DEF B!UnlinkPart, Unharmed, BlockInv, Parts, Messages, Works, Now, B!NoPart
    <3> QED BY <2>4, <3>1 DEF B!UnlinkPart, B!At
  <2> QED BY <2>2, <2>3, <2>4
<1>6. ASSUME Unharmed'
      PROVE  /\ \A j \in Assembler : j # i => bjob'[j] = bjob[j]
             /\ bjob'[i].msg = bjob[i].msg /\ bjob'[i].mem = bjob[i].mem
             /\ bjob[i].pc \in {"download", "lock", "copy", "unlink"}
             /\ bjob'[i].pc \in {"download", "lock", "copy", "unlink", "manifest"}
             /\ InHand(i)' => InHand(i)
  <2>1. bjob \in [Assembler -> JobType]
    BY <1>4, <1>6 DEF Unharmed, BlockInv, BlockType
  <2>2. PICK pc \in {"lock", "copy", "manifest"} : bjob' = [bjob EXCEPT ![i].pc = pc]
    BY <1>5, <1>6
  <2>3. /\ \A j \in Assembler : j # i => bjob'[j] = bjob[j]
        /\ bjob'[i].msg = bjob[i].msg /\ bjob'[i].mem = bjob[i].mem /\ bjob'[i].pc = pc
    BY <2>1, <2>2 DEF JobType
  <2>4. bjob[i].pc # "unlink" => bjob'[i].pc \in {"lock", "copy"}
    BY <1>5, <1>6, <2>1 DEF JobType
  <2> QED BY <1>5, <1>6, <2>3, <2>4 DEF InHand
<1> QED BY <1>1, <1>4, <1>6, AnnounceGoesOn

(* The copy takes its block off those the manifest waits for. *)
LEMMA AnnounceCopy ==
    ASSUME BlockInv, AnnounceInv, NEW i \in Assembler, B!CopyBlock(i) PROVE AnnounceInv'
<1>1. bjob[i].pc = "copy" /\ SameVersion /\ UNCHANGED <<manifest, bqueue>>
  BY DEF B!CopyBlock, B!Raises, SameVersion
<1>2. PastType
  BY DEF BlockInv
<1>3. bpast' = bpast \/ bpast' = [bpast EXCEPT !.parts = TRUE]
  BY DEF B!CopyBlock, B!Raises
<1>4. (Unharmed' => Unharmed) /\ bpast'.whole = bpast.whole
  BY <1>2, <1>3 DEF Unharmed, Good, PastType
<1> SUFFICES ASSUME Unharmed'
             PROVE  /\ \A j \in Assembler : InHand(j)' => bjob'[j].mem.waiting \subseteq Missing'
                    /\ bversion' # 0 => OnItsWay'
  BY DEF AnnounceInv
<1>5. BlockType /\ Messages /\ Parts /\ Manifest /\ Unharmed
  BY <1>4 DEF Unharmed, BlockInv
<1>6. part[bjob[i].msg.number] # B!NoPart /\ bjob[i].msg.v = bversion
  BY <1>1, <1>5 DEF Parts, Messages, Works, Now, B!NoPart, B!Blk
<1> DEFINE mem == [kept |-> TRUE, got |-> manifest.got \cup {bjob[i].msg.number},
                   waiting |-> B!Waiting(bjob[i].msg) \ {bjob[i].msg.number}]
<1>7. bjob' = [bjob EXCEPT ![i].pc = "unlink", ![i].mem = mem]
  BY <1>6 DEF B!CopyBlock
<1>8. /\ \A j \in Assembler : j # i => bjob'[j] = bjob[j]
      /\ bjob'[i].msg = bjob[i].msg /\ bjob'[i].mem = mem /\ bjob'[i].pc = "unlink"
  <2> HIDE DEF mem
  <2> QED BY <1>5, <1>7 DEF BlockType, JobType
<1>9. BB' = BB /\ bversion' = bversion /\ Missing' = Missing
  <2>1. BB' = BB /\ bversion' = bversion
    BY <1>1, SameBlocks DEF SameVersion, BB
  <2> QED BY <1>1, <2>1 DEF Missing
<1>10. mem.waiting \subseteq Missing
  <2>1. B!Waiting(bjob[i].msg) \subseteq Missing
    BY <1>5, <1>6 DEF B!Waiting, Missing, BB, Manifest
  <2> QED BY <2>1
<1>11. \A j \in Assembler : InHand(j)' => bjob'[j].mem.waiting \subseteq Missing'
  <2> HIDE DEF mem
  <2> QED BY <1>5, <1>8, <1>9, <1>10 DEF AnnounceInv, InHand
<1>12. \A b : Pending(b) => Pending(b)'
  BY <1>1, <1>8, <1>9 DEF Pending, B!Blk, InQueue
<1>13. \A j \in Assembler : Completes(j) => Completes(j)'
  BY <1>1, <1>8 DEF Completes
<1> QED BY <1>4, <1>5, <1>9, <1>11, <1>12, <1>13 DEF AnnounceInv, OnItsWay

(* With the manifest written the file is complete, or the manifest waits for what is to come. *)
LEMMA AnnounceManifest ==
    ASSUME BlockInv, AnnounceInv, NEW i \in Assembler, B!WriteManifest(i) PROVE AnnounceInv'
<1> DEFINE mem == bjob[i].mem
<1>1. /\ bjob[i].pc = "manifest" /\ SameVersion
      /\ UNCHANGED <<part, root, lockedBy, bqueue, bpast>>
      /\ mem.waiting # {} => manifest' = mem
      /\ bjob' = [bjob EXCEPT ![i].pc = "unlock", ![i].complete = (mem.waiting = {})]
  BY DEF B!WriteManifest, B!Complete, SameVersion
<1>2. Unharmed' <=> Unharmed
  BY <1>1 DEF Unharmed, Good
<1> SUFFICES ASSUME Unharmed
             PROVE  /\ \A j \in Assembler : InHand(j)' => bjob'[j].mem.waiting \subseteq Missing'
                    /\ bversion' # 0 => OnItsWay'
  BY <1>2 DEF AnnounceInv
<1>3. BlockType /\ Locks /\ Manifest
  BY DEF Unharmed, BlockInv
<1> HIDE DEF mem
<1>4. /\ bjob'[i].pc = "unlock" /\ (bjob'[i].complete <=> mem.waiting = {})
      /\ \A j \in Assembler : j # i => bjob'[j] = bjob[j]
  BY <1>1, <1>3 DEF BlockType, JobType
<1>5. \A j \in Assembler : ~InHand(j)'
  BY <1>1, <1>3, <1>4 DEF InHand, Locks, B!UsesLock
<1>6. CASE mem.waiting = {}
  BY <1>4, <1>5, <1>6 DEF OnItsWay, Completes
<1>7. CASE mem.waiting # {}
  <2>1. Missing' = mem.waiting /\ mem.waiting \subseteq Missing /\ B!Blk(i) \notin mem.waiting
    BY <1>1, <1>3, <1>7 DEF Missing, AnnounceInv, InHand, Manifest, mem
  <2>2. ASSUME bversion' # 0 PROVE OnItsWay'
    <3>1. bversion' = bversion /\ bpast' = bpast
      BY <1>1 DEF SameVersion
    <3>2. \A j \in Assembler : Completes(j) => Completes(j)'
      BY <1>1, <1>4 DEF Completes
    <3>3. \A b : Pending(b) /\ b # B!Blk(i) => Pending(b)'
      BY <1>1, <1>4, <3>1 DEF Pending, InQueue, B!Blk
    <3> QED BY <2>1, <2>2, <3>1, <3>2, <3>3 DEF AnnounceInv, OnItsWay
  <2> QED BY <1>5, <2>2
<1> QED BY <1>6, <1>7

(* The end of after_work, and the post. *)
LEMMA AnnounceEnds ==
    ASSUME BlockInv, AnnounceInv, NEW i \in Assembler, B!UnlockRoot(i) \/ B!PostFile(i) PROVE AnnounceInv'
<1>1. SameVersion /\ UNCHANGED <<manifest, bqueue>> /\ PastType
  BY DEF B!UnlockRoot, B!PostFile, SameVersion, BlockInv
<1>2. CASE B!UnlockRoot(i)
  <2>1. /\ bjob[i].pc = "unlock" /\ bjob' = [bjob EXCEPT ![i].pc = "post"]
        /\ \E x : bpast' = [bpast EXCEPT !.parts = x]
    BY <1>2 DEF B!UnlockRoot, B!At
  <2>2. (Unharmed' <=> Unharmed) /\ bpast'.whole = bpast.whole
    BY <1>1, <2>1 DEF Unharmed, Good, PastType
  <2>3. ASSUME Unharmed
        PROVE  /\ \A j \in Assembler : j # i => bjob'[j] = bjob[j]
               /\ bjob'[i].msg = bjob[i].msg /\ bjob'[i].pc = "post"
               /\ bjob'[i].complete = bjob[i].complete /\ ~InHand(i)'
    BY <2>1, <2>3 DEF BlockInv, Unharmed, BlockType, JobType, InHand
  <2> QED BY <1>1, <2>1, <2>2, <2>3, AnnounceGoesOn
<1>3. CASE B!PostFile(i)
  <2>1. /\ bjob[i].pc = "post" /\ bjob' = [bjob EXCEPT ![i] = B!Idle]
        /\ ~bjob[i].complete => bpast' = bpast
        /\ bjob[i].complete =>
              \E again : bpast' = [bpast EXCEPT !.again = again,
                             !.whole = bpast.whole \cup {[v |-> bjob[i].msg.v, content |-> root]}]
    <3>1. bjob[i].complete =>
             bpast' = [bpast EXCEPT !.whole = @ \cup {[v |-> bjob[i].msg.v, content |-> root]},
                                    !.again = @ \/ [v |-> bjob[i].msg.v, content |-> root] \in bpast.whole]
      BY <1>3 DEF B!PostFile
    <3>2. bjob[i].complete =>
             bpast' = [bpast EXCEPT !.again = bpast.again \/ [v |-> bjob[i].msg.v, content |-> root] \in bpast.whole,
                                    !.whole = bpast.whole \cup {[v |-> bjob[i].msg.v, content |-> root]}]
      BY <1>1, <3>1 DEF PastType
    <3> QED BY <1>3, <3>2 DEF B!PostFile, B!Leave
  <2>2. /\ Unharmed' <=> Unharmed
        /\ bpast.whole \subseteq bpast'.whole
        /\ bjob[i].complete => [v |-> bjob[i].msg.v, content |-> root] \in bpast'.whole
    BY <1>1, <2>1 DEF Unharmed, Good, PastType
  <2>3. ASSUME Unharmed
        PROVE  /\ \A j \in Assembler : InHand(j)' => InHand(j) /\ bjob'[j].mem = bjob[j].mem
               /\ \A b : Pending(b) => Pending(b)'
               /\ \A j \in Assembler : Completes(j) => OnItsWay'
    <3>1. bjob \in [Assembler -> JobType] /\ Messages
      BY <2>3 DEF BlockInv, Unharmed, BlockType
    <3>2. bjob'[i].pc = "idle" /\ \A j \in Assembler : j # i => bjob'[j] = bjob[j]
      BY <2>1, <3>1 DEF B!Idle
    <3>3. \A j \in Assembler : InHand(j)' => InHand(j) /\ bjob'[j].mem = bjob[j].mem
      BY <3>2 DEF InHand
    <3>4. \A b : Pending(b) => Pending(b)'
      BY <1>1, <2>1, <3>2 DEF Pending, InQueue, B!Blk, SameVersion
    <3>5. ASSUME Completes(i) PROVE OnItsWay'
      <4>1. bjob[i].msg.v = bversion /\ bjob[i].complete
        BY <2>1, <3>1, <3>5 DEF Messages, Works, Completes
      <4>2. [v |-> bversion, content |-> root] \in bpast'.whole
        BY <2>2, <4>1
      <4>3. [v |-> bversion, content |-> root].v = bversion' 
        BY <1>1 DEF SameVersion
      <4> QED BY <4>2, <4>3 DEF OnItsWay
    <3>6. \A j \in Assembler : j # i /\ Completes(j) => Completes(j)'
      BY <3>2 DEF Completes
    <3> QED BY <3>3, <3>4, <3>5, <3>6 DEF OnItsWay
  <2> QED BY <1>1, <2>2, <2>3, AnnounceStays
<1> QED BY <1>2, <1>3

(* A kill gives the block back to the queue. *)
LEMMA AnnounceKill ==
    ASSUME BlockInv, AnnounceInv, NEW i \in Assembler, B!KillAssembler(i) PROVE AnnounceInv'
<1>1. /\ Works(i) /\ SameVersion /\ PastType
      /\ bjob' = [bjob EXCEPT ![i] = B!Idle] /\ bqueue' = bqueue \cup {bjob[i].msg}
      /\ UNCHANGED <<part, root, manifest, lockedBy>>
      /\ bpast' = [bpast EXCEPT !.cutOff = bpast.cutOff \/ (bjob[i].pc \in {"unlock", "post"} /\ bjob[i].complete)]
  <2>1. bpast' = [bpast EXCEPT !.cutOff = @ \/ (bjob[i].pc \in {"unlock", "post"} /\ bjob[i].complete)]
    BY DEF B!KillAssembler
  <2>2. PastType
    BY DEF BlockInv
  <2> QED BY <2>1, <2>2 DEF B!KillAssembler, SameVersion, B!Leave, Works, PastType
<1>2. /\ bpast'.whole = bpast.whole /\ (Unharmed' => Unharmed)
      /\ Unharmed' => ~Completes(i)
  BY <1>1 DEF Unharmed, Good, PastType, Completes
<1>3. ASSUME Unharmed
      PROVE  /\ bjob'[i].pc = "idle" /\ \A j \in Assembler : j # i => bjob'[j] = bjob[j]
             /\ bjob[i].msg = [v |-> bversion, number |-> B!Blk(i)]
  <2>1. bjob \in [Assembler -> JobType] /\ Messages
    BY <1>3 DEF BlockInv, Unharmed, BlockType
  <2>2. bjob'[i].pc = "idle" /\ \A j \in Assembler : j # i => bjob'[j] = bjob[j]
    BY <1>1, <2>1 DEF B!Idle
  <2>3. bjob[i].msg = [v |-> bversion, number |-> B!Blk(i)]
    <3>1. bjob[i].msg.v = bversion /\ bjob[i].msg \in [v : Nat, number : Nat]
      BY <1>1, <2>1 DEF Messages, JobType
    <3> QED BY <3>1 DEF B!Blk
  <2> QED BY <2>2, <2>3
<1>4. ASSUME Unharmed' PROVE \A b : Pending(b) => Pending(b)'
  BY <1>1, <1>2, <1>3, <1>4 DEF Pending, InQueue, B!Blk, SameVersion
<1>5. ASSUME Unharmed'
      PROVE  \A j \in Assembler : /\ InHand(j)' => InHand(j) /\ bjob'[j].mem = bjob[j].mem
                                  /\ Completes(j) => OnItsWay'
  <2>1. \A j \in Assembler : InHand(j)' => InHand(j) /\ bjob'[j].mem = bjob[j].mem
    BY <1>2, <1>3, <1>5 DEF InHand
  <2>2. \A j \in Assembler : Completes(j) => Completes(j)'
    BY <1>2, <1>3, <1>5 DEF Completes
  <2> QED BY <2>1, <2>2 DEF OnItsWay
<1> QED BY <1>1, <1>2, <1>4, <1>5, AnnounceStays

(* A new version begins with all its blocks announced. *)
LEMMA AnnouncePost == ASSUME BlockInv, AnnounceInv, B!PostBlocks PROVE AnnounceInv'
<1>1. /\ bversion' = bversion + 1 /\ bopt' = bopt /\ manifest' = manifest /\ bjob' = bjob
      /\ bqueue' = bqueue \cup {[v |-> bversion + 1, number |-> b] : b \in B!BlocksOf(bversion + 1)}
      /\ bpast' = [bpast EXCEPT !.overlap = bpast.overlap \/ B!Incomplete]
  <2>1. bpast' = [bpast EXCEPT !.overlap = @ \/ B!Incomplete]
    BY DEF B!PostBlocks
  <2>2. PastType
    BY DEF BlockInv
  <2> QED BY <2>1, <2>2 DEF B!PostBlocks, PastType
<1>2. Unharmed' => ~B!Incomplete
  BY <1>1 DEF Unharmed, Good, BlockInv, PastType
<1> SUFFICES ASSUME Unharmed'
             PROVE  /\ \A i \in Assembler : InHand(i)' => bjob'[i].mem.waiting \subseteq Missing'
                    /\ OnItsWay'
  BY DEF AnnounceInv
<1>3. manifest.waiting = {} /\ \A i \in Assembler : bjob[i].pc \in {"off", "idle"}
  BY <1>2 DEF B!Incomplete, B!BSettled
<1>4. \A i \in Assembler : ~InHand(i)'
  BY <1>1, <1>3 DEF InHand
<1>5. Missing' = B!BlocksOf(bversion + 1)
  BY <1>1, <1>3, SameBlocks DEF Missing, BB
<1>6. \A b \in B!BlocksOf(bversion + 1) : InQueue(b)'
  BY <1>1 DEF InQueue
<1> QED BY <1>4, <1>5, <1>6 DEF OnItsWay, Pending

(* Each step of the instances that put a file together. *)
LEMMA AnnounceStep == ASSUME BlockInv, AnnounceInv, [B!Next]_bVars PROVE AnnounceInv'
<1>1. CASE UNCHANGED bVars \/ B!BreakLock
  <2>1. SameVersion /\ UNCHANGED <<manifest, bpast, bjob, bqueue>>
    BY <1>1 DEF bVars, B!BreakLock, SameVersion
  <2>2. /\ Unharmed' <=> Unharmed
        /\ \A b : Pending(b) => Pending(b)'
        /\ \A j \in Assembler : InHand(j)' => InHand(j) /\ bjob'[j].mem = bjob[j].mem
        /\ \A j \in Assembler : Completes(j) => Completes(j)'
    BY <2>1 DEF Unharmed, Good, Pending, InHand, Completes, InQueue, B!Blk, SameVersion
  <2> QED BY <2>1, <2>2, AnnounceStays DEF OnItsWay
<1>2. CASE B!BreakLockInUse
  BY <1>2 DEF B!BreakLockInUse, BlockInv, PastType, AnnounceInv, Unharmed, Good
<1>3. CASE B!PostBlocks
  BY <1>3, AnnouncePost
<1>4. ASSUME NEW i \in Assembler, B!Assemble(i) \/ B!KillAssembler(i) PROVE AnnounceInv'
  BY <1>4, AnnounceGather, AnnounceBegins, AnnounceCopy, AnnounceManifest, AnnounceEnds, AnnounceKill
     DEF B!Assemble
<1> QED BY <1>1, <1>2, <1>3, <1>4 DEF B!Next

(* A file whose blocks were all dealt with is announced (after_work), whichever instances dealt
   with them and whatever was killed, but for a part file that rejects its block when it is
   delivered again, and a kill after the manifest. *)
THEOREM BlocksAnnounced == Spec => []WholeFilePosted
<1>1. Init => AnnounceInv
  <2>1. ASSUME NEW pc \in {"off", "idle"}, B!InitAs(pc) PROVE AnnounceInv
    BY <2>1 DEF B!InitAs, AnnounceInv, InHand, B!Idle
  <2> QED BY <2>1 DEF Init
<1>2. BlockInv /\ AnnounceInv /\ [Next]_tVars => AnnounceInv'
  BY TransferSteps, AnnounceStep
<1>3. BlockInv /\ AnnounceInv => WholeFilePosted
  <2> SUFFICES ASSUME BlockInv, AnnounceInv, B!BSettled, bversion > 0, Unharmed
               PROVE  \E f \in bpast.whole : f.v = bversion
    BY DEF WholeFilePosted, B!WholeFilePosted, Unharmed, Good
  <2>1. BlockType
    BY DEF BlockInv, Unharmed
  <2>2. bversion # 0 /\ BB # {}
    <3>1. bversion \in Nat /\ bversion # 0
      BY <2>1, BlockFacts DEF BlockType
    <3>2. bversion \in B!Versions
      BY <2>1, <3>1, BlockFacts
    <3>3. bopt.blocks[bversion] \in Nat \ {0} /\ BB = 1 .. bopt.blocks[bversion]
      BY <2>1, <3>2, BlockFacts DEF BB
    <3>4. 1 \in BB
      BY <3>3
    <3> QED BY <3>1, <3>4
  <2>3. Missing # {}
    BY <2>2 DEF Missing
  <2>4. \A i \in Assembler : ~Completes(i)
    BY DEF B!BSettled, Completes
  <2>5. \A b : ~Pending(b)
    BY DEF B!BSettled, Pending, InQueue
  <2> QED BY <2>2, <2>3, <2>4, <2>5 DEF AnnounceInv, OnItsWay
<1> QED BY BlockInvariant, <1>1, <1>2, <1>3, PTL DEF Spec, tVars

-----------------------------------------------------------------------------
(* The download.  As long as no two instances transfer the path at once, the one that does has
   the inflight file for itself, and what it has read is what is in that file. *)
Alone == dopt.inflight /\ ~past.raced
Writing(i) == job[i].pc \in {"read", "length", "remove", "rename"}
Busy(i) == Writing(i) \/ job[i].pc = "attributes"

DownJob == [pc : {"off", "idle", "check", "connect", "open", "read", "length", "remove", "rename",
                  "attributes"},
            msg : D!Version, attempt : Nat, fd : 0 .. NIno, read : Seq(D!Version)]
DownFile == [content : Seq(Nat), mtime : Nat, identity : Seq(D!Version), old : BOOLEAN]

DownType ==
    /\ job \in [Inst -> DownJob]
    /\ inode \in [D!File -> DownFile]
    /\ inflightName \in 0 .. NIno /\ newName \in 0 .. NIno
    /\ upstream \in D!Version

DownPast ==
    /\ dopt \in DownloadOptions /\ past.raced \in BOOLEAN
    /\ DOMAIN past = {"posted", "suspect", "raced", "misjudged", "cutShort"}

OneWriter == \A i, j \in Inst : Busy(i) /\ Busy(j) => i = j

(* The writer has a file of its own. *)
OwnFile ==
    /\ \A i \in Inst : Writing(i) => /\ job[i].fd # 0 /\ job[i].fd # newName
                                     /\ inflightName \in {0, job[i].fd}
    /\ newName # 0 => newName # inflightName

(* What was read is in the file, and is of the version announced or suspect. *)
AsRead ==
    \A i \in Inst :
        LET read == job[i].read
            content == inode[job[i].fd].content IN
        /\ job[i].pc = "read" => /\ Len(read) <= Len(content)
                                 /\ \A k \in 1 .. Len(read) : content[k] = read[k]
        /\ job[i].pc \in {"length", "remove", "rename"} => content = read
        /\ job[i].pc \in {"remove", "rename"} => Len(read) = dopt.size[job[i].msg]
        /\ Writing(i) /\ job[i].fd \notin past.suspect =>
               \A k \in 1 .. Len(read) : read[k] = job[i].msg

InPlace ==
    newName # 0 /\ newName \notin past.suspect =>
        \E v \in D!Version : inode[newName].content = D!Whole(v)

DownInv ==
    /\ DownPast
    /\ Alone => DownType /\ OneWriter /\ OwnFile /\ AsRead /\ InPlace

(* The versions upstream, and a job that is at rest. *)
LEMMA VersionFacts ==
    ASSUME DownPast
    PROVE  /\ dopt.size \in Seq(Nat) /\ Len(dopt.size) \in Nat \ {0}
           /\ D!Version = 1 .. Len(dopt.size) /\ D!Version \subseteq Nat \ {0} /\ 1 \in D!Version
           /\ \A v \in D!Version : dopt.size[v] \in Nat
           /\ D!NoJob \in DownJob /\ ~(D!NoJob.pc \in {"read", "length", "remove", "rename", "attributes"})
           /\ D!File \subseteq Nat \ {0}
<1>1. dopt.size \in Seq(Nat) /\ dopt.size # <<>>
  BY DownloadAssumption DEF DownPast
<1>2. Len(dopt.size) \in Nat \ {0} /\ \A v \in 1 .. Len(dopt.size) : dopt.size[v] \in Nat
  BY <1>1
<1>3. D!Version = 1 .. Len(dopt.size) /\ 1 \in D!Version /\ D!Version \subseteq Nat \ {0}
  BY <1>2 DEF D!Version
<1>4. <<>> \in Seq(D!Version) /\ 0 \in 0 .. NIno
  BY DownloadAssumption
<1>5. D!NoJob \in DownJob /\ D!NoJob.pc = "idle"
  BY <1>3, <1>4 DEF D!NoJob, DownJob
<1> QED BY <1>1, <1>2, <1>3, <1>5, DownloadAssumption DEF D!File

(* What is the same in every step but that of the upstream writer. *)
LEMMA SameVersions ==
    ASSUME dopt' = dopt
    PROVE  /\ D!Version' = D!Version /\ DownJob' = DownJob /\ DownFile' = DownFile
           /\ \A v : D!Whole(v)' = D!Whole(v)
BY DEF D!Version, DownJob, DownFile, D!Whole

(* A job that fails, is put off or is done is at rest. *)
LEMMA JobRests ==
    ASSUME DownPast, DownType, NEW i \in Inst,
           D!FailAttempt(i) \/ D!Defer(i) \/ D!Finish(i)
    PROVE  /\ job' \in [Inst -> DownJob] /\ ~(job'[i].pc \in {"read", "length", "remove", "rename", "attributes"})
           /\ \A j \in Inst : j # i => job'[j] = job[j]
<1>1. job \in [Inst -> DownJob] /\ D!NoJob \in DownJob
  BY VersionFacts DEF DownType
<1>2. CASE D!Defer(i) \/ D!Finish(i)
  BY <1>1, <1>2, VersionFacts DEF D!Defer, D!Finish
<1>3. CASE D!FailAttempt(i)
  <2>1. CASE D!Defer(i)
    BY <1>2, <2>1
  <2>2. CASE job' = [job EXCEPT ![i].pc = "connect", ![i].attempt = job[i].attempt + 1,
                                ![i].fd = 0, ![i].read = <<>>]
    <3> DEFINE r == [job[i] EXCEPT !.pc = "connect", !.attempt = job[i].attempt + 1,
                                   !.fd = 0, !.read = <<>>]
    <3>1. job[i] \in DownJob /\ job[i].attempt + 1 \in Nat
      BY <1>1 DEF DownJob
    <3>2. <<>> \in Seq(D!Version) /\ 0 \in 0 .. NIno
      BY DownloadAssumption
    <3>3. r \in DownJob /\ r.pc = "connect"
      BY <3>1, <3>2 DEF DownJob
    <3>4. job' = [job EXCEPT ![i] = r]
      BY <1>1, <2>2
    <3> HIDE DEF r
    <3> QED BY <1>1, <3>3, <3>4
  <2> QED BY <1>3, <2>1, <2>2 DEF D!FailAttempt
<1> QED BY <1>2, <1>3

(* A step after which whoever transfers is where it was, and the files in use hold what they
   held. *)
LEMMA Rests ==
    ASSUME DownInv, dopt' = dopt, DownPast', past'.raced <=> past.raced,
           Alone => /\ DownType'
                    /\ \A j \in Inst : Busy(j)' => Busy(j) /\ job'[j] = job[j]
                    /\ newName' = newName /\ inflightName' \in {0, inflightName}
                    /\ \A f \in D!File : f \in D!InUse =>
                          /\ inode'[f].content = inode[f].content
                          /\ (f \in past'.suspect <=> f \in past.suspect)
    PROVE  DownInv'
<1> SUFFICES ASSUME Alone PROVE (DownType /\ OneWriter /\ OwnFile /\ AsRead /\ InPlace)'
  BY DEF DownInv, Alone
<1>1. DownType /\ OneWriter /\ OwnFile /\ AsRead /\ InPlace /\ DownPast
  BY DEF DownInv
<1>2. \A j \in Inst : Busy(j)' => Busy(j) /\ job'[j] = job[j] /\ (Writing(j)' <=> Writing(j))
  BY DEF Busy, Writing
<1>3. OneWriter' /\ OwnFile'
  BY <1>1, <1>2 DEF OneWriter, OwnFile, Busy
<1>4. \A j \in Inst : Writing(j) => job[j].fd \in D!File /\ job[j].fd \in D!InUse
  BY <1>1 DEF OwnFile, D!InUse, D!File, DownType, DownJob
<1>5. AsRead'
  <2> SUFFICES ASSUME NEW i \in Inst, Writing(i)'
               PROVE  LET read == job'[i].read
                          content == inode'[job'[i].fd].content IN
        /\ job'[i].pc = "read" => /\ Len(read) <= Len(content)
                                  /\ \A k \in 1 .. Len(read) : content[k] = read[k]
        /\ job'[i].pc \in {"length", "remove", "rename"} => content = read
        /\ job'[i].pc \in {"remove", "rename"} => Len(read) = dopt'.size[job'[i].msg]
        /\ job'[i].fd \notin past'.suspect => \A k \in 1 .. Len(read) : read[k] = job'[i].msg
    BY DEF AsRead, Writing
  <2>1. /\ Writing(i) /\ job'[i] = job[i] /\ inode'[job[i].fd].content = inode[job[i].fd].content
        /\ (job[i].fd \in past'.suspect <=> job[i].fd \in past.suspect)
    BY <1>2, <1>4 DEF Busy
  <2> QED BY <1>1, <2>1 DEF AsRead
<1>6. InPlace'
  <2>1. newName # 0 => newName \in D!File /\ newName \in D!InUse
    BY <1>1 DEF DownType, D!File, D!InUse
  <2> QED BY <1>1, <2>1, SameVersions DEF InPlace
<1> QED BY <1>3, <1>5, <1>6

(* A file of the type, and what a job and an update of a file leave of it. *)
LEMMA EmptyFile == D!Empty \in DownFile
<1>1. <<>> \in Seq(Nat) /\ <<>> \in Seq(D!Version)
  OBVIOUS
<1> QED BY <1>1 DEF D!Empty, DownFile

(* An instance takes an announcement, or a retry. *)
LEMMA StepTake ==
    ASSUME DownInv, NEW i \in Inst, D!Gather(i) PROVE DownInv'
<1>1. PICK m \in D!Version : job' = [job EXCEPT ![i] = [D!NoJob EXCEPT !.pc = "check", !.msg = m]]
  BY DEF D!Gather
<1>2. /\ job[i].pc = "idle" /\ UNCHANGED <<dopt, inflightName, newName, upstream>>
      /\ inode' = [f \in D!File |-> IF f \in D!InUse THEN inode[f] ELSE D!Empty]
      /\ past' = [past EXCEPT !.suspect = @ \cap D!InUse]
  BY DEF D!Gather
<1>3. DownPast /\ DownPast' /\ (past'.raced <=> past.raced)
      /\ past'.suspect = past.suspect \cap D!InUse
  BY <1>2 DEF DownInv, DownPast
<1>4. ASSUME Alone PROVE DownType' /\ \A j \in Inst : Busy(j)' => Busy(j) /\ job'[j] = job[j]
  <2>1. DownType
    BY <1>4 DEF DownInv
  <2>2. [D!NoJob EXCEPT !.pc = "check", !.msg = m] \in DownJob
    BY <1>3, VersionFacts DEF DownJob
  <2>3. job' \in [Inst -> DownJob]
    BY <1>1, <2>1, <2>2 DEF DownType
  <2>4. inode' \in [D!File -> DownFile]
    BY <1>2, <2>1, EmptyFile DEF DownType
  <2>5. job'[i].pc = "check" /\ \A j \in Inst : j # i => job'[j] = job[j]
    BY <1>1, <2>1 DEF DownType, D!NoJob
  <2> QED BY <1>2, <2>1, <2>3, <2>4, <2>5, SameVersions DEF DownType, Busy, Writing, D!File
<1> QED BY <1>2, <1>3, <1>4, Rests

(* The checks before a transfer. *)
LEMMA StepCheck ==
    ASSUME DownInv, NEW i \in Inst,
           D!CheckInflight(i) \/ D!CheckLocal(i) \/ D!Connect(i) \/ D!Kill(i)
    PROVE  DownInv'
<1>1. /\ UNCHANGED <<dopt, inode, newName, upstream>> /\ inflightName' \in {0, inflightName}
      /\ \/ D!Finish(i) \/ D!FailAttempt(i) \/ D!Defer(i)
         \/ job' = [job EXCEPT ![i].pc = "connect"]
         \/ job' = [job EXCEPT ![i].pc = "open"]
  BY DEF D!CheckInflight, D!CheckLocal, D!Connect, D!Kill, D!GoTo, D!disk
<1>2. \/ past' = past \/ \E x : past' = [past EXCEPT !.misjudged = x]
      \/ \E x : past' = [past EXCEPT !.cutShort = x]
  BY DEF D!CheckInflight, D!CheckLocal, D!Connect, D!Kill
<1>3. DownPast /\ DownPast' /\ past'.raced = past.raced /\ past'.suspect = past.suspect
  BY <1>1, <1>2 DEF DownInv, DownPast
<1>4. ASSUME Alone PROVE DownType' /\ \A j \in Inst : Busy(j)' => Busy(j) /\ job'[j] = job[j]
  <2>1. DownType
    BY <1>4 DEF DownInv
  <2>2. /\ job' \in [Inst -> DownJob] /\ ~Busy(i)'
        /\ \A j \in Inst : j # i => job'[j] = job[j]
    <3>1. CASE D!Finish(i) \/ D!FailAttempt(i) \/ D!Defer(i)
      BY <1>3, <2>1, <3>1, JobRests DEF Busy, Writing
    <3>2. CASE job' = [job EXCEPT ![i].pc = "connect"] \/ job' = [job EXCEPT ![i].pc = "open"]
      BY <2>1, <3>2, ZenonT(30) DEF DownType, DownJob, Busy, Writing
    <3> QED BY <1>1, <3>1, <3>2
  <2>3. \A j \in Inst : j # i /\ Busy(j)' => Busy(j)
    BY <2>2 DEF Busy, Writing
  <2> QED BY <1>1, <2>1, <2>2, <2>3, SameVersions, DownloadAssumption DEF DownType, D!File
<1>5. Alone => /\ DownType'
               /\ \A j \in Inst : Busy(j)' => Busy(j) /\ job'[j] = job[j]
               /\ newName' = newName /\ inflightName' \in {0, inflightName}
               /\ \A f \in D!File : f \in D!InUse =>
                     /\ inode'[f].content = inode[f].content
                     /\ (f \in past'.suspect <=> f \in past.suspect)
  BY <1>1, <1>3, <1>4
<1> QED BY <1>1, <1>3, <1>5, Rests

(* An attempt that fails after the transfer has begun, and the end of the work on a message. *)
LEMMA StepFails ==
    ASSUME DownInv, NEW i \in Inst, D!FailAttempt(i) \/ D!Finish(i),
           UNCHANGED <<dopt, inode, newName, upstream, past>>, inflightName' \in {0, inflightName}
    PROVE  DownInv'
<1>1. DownPast /\ DownPast'
  BY DEF DownInv, DownPast
<1>2. ASSUME Alone PROVE DownType' /\ \A j \in Inst : Busy(j)' => Busy(j) /\ job'[j] = job[j]
  <2>1. DownType
    BY <1>2 DEF DownInv
  <2>2. /\ job' \in [Inst -> DownJob] /\ ~Busy(i)'
        /\ \A j \in Inst : j # i => job'[j] = job[j]
    BY <1>1, <2>1, JobRests DEF Busy, Writing
  <2>3. \A j \in Inst : j # i /\ Busy(j)' => Busy(j)
    BY <2>2 DEF Busy, Writing
  <2> QED BY <2>1, <2>2, <2>3, SameVersions, DownloadAssumption DEF DownType, D!File
<1>5. Alone => /\ DownType'
               /\ \A j \in Inst : Busy(j)' => Busy(j) /\ job'[j] = job[j]
               /\ newName' = newName /\ inflightName' \in {0, inflightName}
               /\ \A f \in D!File : f \in D!InUse =>
                     /\ inode'[f].content = inode[f].content
                     /\ (f \in past'.suspect <=> f \in past.suspect)
  BY <1>2
<1> QED BY <1>1, <1>5, Rests

(* The attributes of the file that has the name by now. *)
LEMMA StepAttributes ==
    ASSUME DownInv, NEW i \in Inst, D!SetLocalFileAttributes(i) PROVE DownInv'
<1>1. CASE newName = 0
  BY <1>1, StepFails DEF D!SetLocalFileAttributes
<1>2. CASE newName # 0
  <2>1. /\ job[i].pc = "attributes" /\ D!Finish(i) /\ UNCHANGED <<dopt, inflightName, newName, upstream>>
        /\ inode' = [inode EXCEPT ![newName].identity = job[i].read,
                                  ![newName].mtime = D!Mtime(job[i].msg)]
        /\ \E x : past' = [past EXCEPT !.posted = x]
    BY <1>2 DEF D!SetLocalFileAttributes
  <2>2. DownPast /\ DownPast' /\ past'.raced = past.raced /\ past'.suspect = past.suspect
    BY <2>1 DEF DownInv, DownPast
  <2>3. ASSUME Alone
        PROVE  /\ DownType' /\ \A j \in Inst : Busy(j)' => Busy(j) /\ job'[j] = job[j]
               /\ \A f \in D!File : inode'[f].content = inode[f].content
    <3>1. DownType
      BY <2>3 DEF DownInv
    <3>2. /\ job' \in [Inst -> DownJob] /\ ~Busy(i)'
          /\ \A j \in Inst : j # i => job'[j] = job[j]
      BY <2>1, <2>2, <3>1, JobRests DEF Busy, Writing
    <3>3. \A j \in Inst : j # i /\ Busy(j)' => Busy(j)
      BY <3>2 DEF Busy, Writing
    <3>4. newName \in D!File /\ inode[newName] \in DownFile
      BY <1>2, <3>1 DEF DownType, D!File
    <3>5. job[i].read \in Seq(D!Version) /\ D!Mtime(job[i].msg) \in Nat
      <4>1. job[i].read \in Seq(D!Version) /\ job[i].msg \in D!Version
        BY <3>1 DEF DownType, DownJob
      <4>2. job[i].msg \in Nat
        BY <2>2, <4>1, VersionFacts
      <4> QED BY <4>1, <4>2 DEF D!Mtime
    <3>6. [inode[newName] EXCEPT !.identity = job[i].read, !.mtime = D!Mtime(job[i].msg)] \in DownFile
      BY <3>4, <3>5 DEF DownFile
    <3>7. inode' = [inode EXCEPT ![newName] = [inode[newName] EXCEPT !.identity = job[i].read,
                                                  !.mtime = D!Mtime(job[i].msg)]]
      BY <2>1, <3>1, <3>4 DEF DownType
    <3>8. inode' \in [D!File -> DownFile]
      BY <3>1, <3>4, <3>6, <3>7 DEF DownType
    <3>9. \A f \in D!File : inode'[f].content = inode[f].content
      BY <3>1, <3>4, <3>7 DEF DownType, DownFile
    <3> QED BY <2>1, <3>1, <3>2, <3>3, <3>8, <3>9, SameVersions DEF DownType, D!File
  <2> QED BY <2>1, <2>2, <2>3, Rests
<1> QED BY <1>1, <1>2

(* Time passes, and versions are written upstream. *)
LEMMA StepOthers ==
    ASSUME DownInv, D!Age \/ D!UpstreamWrite \/ UNCHANGED dVars PROVE DownInv'
<1>1. /\ UNCHANGED <<dopt, job, inflightName, newName, past>>
      /\ \/ inode' = inode
         \/ inflightName # 0 /\ inode' = [inode EXCEPT ![inflightName].old = TRUE]
      /\ \/ upstream' = upstream
         \/ upstream < Len(dopt.size) /\ upstream' = upstream + 1
  BY DEF D!Age, D!UpstreamWrite, dVars, D!disk
<1>2. DownPast /\ DownPast'
  BY <1>1 DEF DownInv, DownPast
<1>3. ASSUME Alone
      PROVE  /\ DownType' /\ \A j \in Inst : Busy(j)' => Busy(j)
             /\ \A f \in D!File : inode'[f].content = inode[f].content
  <2>1. DownType
    BY <1>3 DEF DownInv
  <2>2. inode' \in [D!File -> DownFile] /\ \A f \in D!File : inode'[f].content = inode[f].content
    <3>1. CASE inode' = inode
      BY <2>1, <3>1 DEF DownType
    <3>2. CASE inode' = [inode EXCEPT ![inflightName].old = TRUE]
      BY <2>1, <3>2 DEF DownType, DownFile
    <3> QED BY <1>1, <3>1, <3>2
  <2>3. upstream' \in D!Version
    BY <1>1, <1>2, <2>1, VersionFacts DEF DownType
  <2> QED BY <1>1, <2>1, <2>2, <2>3, SameVersions DEF DownType, Busy, Writing, D!File
<1> QED BY <1>1, <1>2, <1>3, Rests

(* A set with one more element. *)
LEMMA OneMore ==
    ASSUME NEW T, NEW x, IsFiniteSet(T)
    PROVE  /\ IsFiniteSet(T \cup {x}) /\ Cardinality(T \cup {x}) \in Nat
           /\ Cardinality(T \cup {x}) <= Cardinality(T) + 1
<1>1. Cardinality(T) \in Nat
  BY FS_CardinalityType
<1>2. IsFiniteSet(T \cup {x}) /\ Cardinality(T \cup {x}) = IF x \in T THEN Cardinality(T) ELSE Cardinality(T) + 1
  BY FS_AddElement
<1> QED BY <1>1, <1>2

(* There is room for one more file. *)
LEMMA RoomForAFile ==
    ASSUME DownType, inflightName = 0
    PROVE  D!Unused \in D!File /\ D!Unused \notin D!InUse
<1> DEFINE fds == {job[i].fd : i \in Inst}
           f == [i \in Inst |-> job[i].fd]
<1>1. IsFiniteSet(fds) /\ Cardinality(fds) <= Cardinality(Inst) /\ Cardinality(fds) \in Nat
  <2>1. f \in Surjection(Inst, fds)
    BY DEF Surjection
  <2> HIDE DEF f, fds
  <2>2. IsFiniteSet(fds) /\ Cardinality(fds) <= Cardinality(Inst)
    BY <2>1, FS_Surjection, DownloadAssumption
  <2> QED BY <2>2, FS_CardinalityType
<1> HIDE DEF fds
<1>2. /\ IsFiniteSet(fds \cup {newName}) /\ Cardinality(fds \cup {newName}) \in Nat
      /\ Cardinality(fds \cup {newName}) <= Cardinality(fds) + 1
  BY <1>1, OneMore
<1>3. /\ IsFiniteSet((fds \cup {newName}) \cup {inflightName})
      /\ Cardinality((fds \cup {newName}) \cup {inflightName}) <= Cardinality(fds \cup {newName}) + 1
      /\ Cardinality((fds \cup {newName}) \cup {inflightName}) \in Nat
  BY <1>2, OneMore
<1>4. D!InUse = (fds \cup {newName}) \cup {inflightName}
  BY DEF D!InUse, fds
<1>5. Cardinality(Inst) \in Nat
  BY FS_CardinalityType, DownloadAssumption
<1>6. Cardinality(D!InUse) <= NIno /\ IsFiniteSet(D!InUse) /\ Cardinality(D!InUse) \in Nat
  BY <1>1, <1>2, <1>3, <1>4, <1>5, DownloadAssumption
<1>7. ~(0 .. NIno \subseteq D!InUse)
  <2>1. Cardinality(0 .. NIno) = NIno + 1
    BY FS_Interval, DownloadAssumption
  <2>2. NIno \in Nat
    BY DownloadAssumption
  <2>3. 0 .. NIno \subseteq D!InUse => Cardinality(0 .. NIno) <= Cardinality(D!InUse)
    BY <1>6, FS_Subset
  <2> QED BY <1>6, <2>1, <2>2, <2>3
<1>8. \E g \in D!File : g \notin D!InUse
  <2>1. PICK g \in 0 .. NIno : g \notin D!InUse
    BY <1>7
  <2>2. 0 \in D!InUse
    BY <1>4
  <2>3. g \in D!File
    BY <2>1, <2>2, DownloadAssumption DEF D!File
  <2> QED BY <2>1, <2>3
<1> QED BY <1>8 DEF D!Unused

(* The inflight file is made, or one that was left is opened. *)
LEMMA StepOpen ==
    ASSUME DownInv, NEW i \in Inst, D!LocalWriteOpen(i) PROVE DownInv'
<1> DEFINE f == IF D!Inflight = 0 THEN D!Unused ELSE D!Inflight
           new == [D!Empty EXCEPT !.mtime = D!Now]
<1>1. /\ job[i].pc = "open" /\ UNCHANGED <<dopt, upstream>>
      /\ job' = [job EXCEPT ![i].pc = "read", ![i].fd = f, ![i].read = <<>>]
      /\ past' = [past EXCEPT !.suspect = IF D!Inflight = 0 THEN @ \ {f} ELSE @,
                              !.raced = @ \/ \E j \in Inst \ {i} : D!Transferring(j)]
      /\ IF D!Inflight # 0 THEN UNCHANGED <<inode, inflightName, newName>>
         ELSE /\ inode' = [inode EXCEPT ![f] = new]
              /\ inflightName' = IF dopt.inflight THEN f ELSE inflightName
              /\ newName' = IF dopt.inflight THEN newName ELSE f
  BY DEF D!LocalWriteOpen, D!disk
<1>2. /\ DownPast /\ DownPast'
      /\ past'.raced <=> past.raced \/ \E j \in Inst \ {i} : D!Transferring(j)
      /\ past'.suspect = past.suspect \/ past'.suspect = past.suspect \ {f}
  BY <1>1 DEF DownInv, DownPast
<1> SUFFICES ASSUME Alone' PROVE (DownType /\ OneWriter /\ OwnFile /\ AsRead /\ InPlace)'
  BY <1>2 DEF DownInv
<1>3. /\ dopt.inflight /\ Alone /\ \A j \in Inst : j # i => ~Busy(j)
      /\ DownType /\ OneWriter /\ OwnFile /\ AsRead /\ InPlace
  BY <1>1, <1>2 DEF Alone, DownInv, Busy, Writing, D!Transferring
<1>4. /\ f \in D!File /\ f # newName /\ f # 0
      /\ (inflightName = 0 => f = D!Unused) /\ (inflightName # 0 => f = inflightName)
  <2>1. CASE inflightName = 0
    BY <1>2, <1>3, <2>1, RoomForAFile, VersionFacts DEF D!Inflight, D!InUse
  <2>2. CASE inflightName # 0
    BY <1>3, <2>2 DEF D!Inflight, OwnFile, DownType, D!File
  <2> QED BY <2>1, <2>2
<1>5. inflightName' = f /\ newName' = newName
  BY <1>1, <1>3, <1>4 DEF D!Inflight
<1>6. inode' \in [D!File -> DownFile] /\ \A g \in D!File : g # f => inode'[g] = inode[g]
  <2>1. upstream \in Nat
    BY <1>2, <1>3, VersionFacts DEF DownType
  <2>2. D!Now \in Nat
    BY <2>1 DEF D!Now
  <2>3. new \in DownFile
    BY <2>2, EmptyFile DEF DownFile
  <2> HIDE DEF new, f
  <2> QED BY <1>1, <1>3, <1>4, <2>3 DEF DownType
<1> HIDE DEF f, new
<1>7. /\ job'[i].pc = "read" /\ job'[i].fd = f /\ job'[i].read = <<>>
      /\ \A j \in Inst : j # i => job'[j] = job[j]
      /\ job' \in [Inst -> DownJob]
  <2>1. <<>> \in Seq(D!Version) /\ f \in 0 .. NIno
    BY <1>4 DEF D!File
  <2>2. job \in [Inst -> DownJob]
    BY <1>3 DEF DownType
  <2>3. [job[i] EXCEPT !.pc = "read", !.fd = f, !.read = <<>>] \in DownJob
    BY <2>1, <2>2 DEF DownJob
  <2>4. job' = [job EXCEPT ![i] = [job[i] EXCEPT !.pc = "read", !.fd = f, !.read = <<>>]]
    BY <1>1, <2>2
  <2> QED BY <2>2, <2>3, <2>4 DEF DownJob
<1>8. DownType'
  <2>1. inflightName' \in 0 .. NIno
    BY <1>4, <1>5 DEF D!File
  <2> QED BY <1>1, <1>3, <1>5, <1>6, <1>7, <2>1, SameVersions DEF DownType, D!File
<1>9. \A j \in Inst : Busy(j)' => j = i
  BY <1>3, <1>7 DEF Busy, Writing
<1>10. OneWriter' /\ OwnFile'
  BY <1>4, <1>5, <1>7, <1>9 DEF OneWriter, OwnFile, Busy
<1>11. AsRead'
  <2>1. Len(job'[i].read) = 0 /\ job'[i].pc = "read" /\ inode'[job'[i].fd].content \in Seq(Nat)
    BY <1>4, <1>6, <1>7 DEF DownFile
  <2>2. \A j \in Inst : j # i => ~(job'[j].pc \in {"read", "length", "remove", "rename"})
    BY <1>9 DEF Busy, Writing
  <2> QED BY <2>1, <2>2 DEF AsRead, Writing
<1>12. InPlace'
  <2>1. newName # 0 => newName \in D!File
    BY <1>3 DEF DownType, D!File
  <2> QED BY <1>1, <1>2, <1>3, <1>4, <1>5, <1>6, <2>1, SameVersions DEF InPlace
<1> QED BY <1>8, <1>10, <1>11, <1>12

(* A file cut, or filled up, to a length. *)
LEMMA ResizedFacts ==
    ASSUME DownType, NEW f \in D!File, NEW n \in Nat
    PROVE  /\ D!Resized(f, n) \in Seq(Nat) /\ Len(D!Resized(f, n)) = n
           /\ \A k \in 1 .. n : k <= Len(inode[f].content) => D!Resized(f, n)[k] = inode[f].content[k]
<1>1. inode[f].content \in Seq(Nat)
  BY DEF DownType, DownFile
<1>2. \A k \in 1 .. n : k <= Len(inode[f].content) => k \in 1 .. Len(inode[f].content)
  BY <1>1
<1>3. \A k \in 1 .. n : (IF k <= Len(inode[f].content) THEN inode[f].content[k] ELSE 0) \in Nat
  BY <1>1, <1>2
<1>4. D!Resized(f, n) \in [1 .. n -> Nat]
  BY <1>3 DEF D!Resized
<1> QED BY <1>4 DEF D!Resized

(* The job that transfers, and that no other does. *)
LEMMA WriterFacts ==
    ASSUME DownInv, Alone, NEW i \in Inst, Writing(i)
    PROVE  /\ DownType /\ OneWriter /\ OwnFile /\ AsRead /\ InPlace /\ DownPast
           /\ job \in [Inst -> DownJob] /\ job[i] \in DownJob /\ inode \in [D!File -> DownFile]
           /\ job[i].fd \in D!File /\ job[i].fd # newName /\ inflightName \in {0, job[i].fd}
           /\ job[i].read \in Seq(D!Version) /\ job[i].msg \in D!Version
           /\ inode[job[i].fd].content \in Seq(Nat)
           /\ \A j \in Inst : j # i => ~Busy(j)
<1>1. DownType /\ OneWriter /\ OwnFile /\ AsRead /\ InPlace /\ DownPast
  BY DEF DownInv
<1>2. job \in [Inst -> DownJob] /\ inode \in [D!File -> DownFile]
  BY <1>1 DEF DownType
<1>3. job[i].fd \in 0 .. NIno /\ job[i].read \in Seq(D!Version) /\ job[i].msg \in D!Version
  BY <1>2 DEF DownJob
<1>4. job[i].fd \in D!File /\ job[i].fd # newName /\ inflightName \in {0, job[i].fd}
  BY <1>1, <1>3 DEF OwnFile, D!File
<1>5. inode[job[i].fd].content \in Seq(Nat)
  BY <1>2, <1>4 DEF DownFile
<1>6. \A j \in Inst : j # i => ~Busy(j)
  BY <1>1 DEF OneWriter, Busy
<1> QED BY <1>1, <1>2, <1>3, <1>4, <1>5, <1>6

(* A step of the one that transfers keeps it the only one. *)
LEMMA WriterGoesOn ==
    ASSUME DownInv, Alone, NEW i \in Inst, Writing(i),
           \A j \in Inst : j # i => job'[j] = job[j],
           job'[i].fd = job[i].fd, newName' \in {0, newName}, inflightName' = inflightName
    PROVE  /\ OneWriter' /\ OwnFile'
           /\ \A j \in Inst : j # i => ~(job'[j].pc \in {"read", "length", "remove", "rename"})
<1>1. \A j \in Inst : j # i => ~Busy(j)
  BY WriterFacts
<1>2. \A j \in Inst : Busy(j)' => j = i
  BY <1>1 DEF Busy, Writing
<1>3. OneWriter'
  BY <1>2 DEF OneWriter
<1>4. OwnFile'
  BY <1>2, WriterFacts DEF OwnFile, Busy, D!File
<1>5. \A j \in Inst : j # i => ~(job'[j].pc \in {"read", "length", "remove", "rename"})
  BY <1>1 DEF Busy, Writing
<1> QED BY <1>3, <1>4, <1>5

(* While it reads (copyFrom), a worker has written in front what it has read. *)
LEMMA ReadSoFar ==
    ASSUME AsRead, NEW i \in Inst, job[i].pc = "read"
    PROVE  /\ Len(job[i].read) <= Len(inode[job[i].fd].content)
           /\ \A k \in 1 .. Len(job[i].read) : inode[job[i].fd].content[k] = job[i].read[k]
BY DEF AsRead

(* A buffer is read and written. *)
LEMMA StepRead ==
    ASSUME DownInv, NEW i \in Inst, D!ReadWrite(i) PROVE DownInv'
<1> DEFINE f == job[i].fd
           n == Len(job[i].read) + 1
           len == Len(inode[f].content)
           m == IF n > len THEN n ELSE len
           new == [D!Resized(f, m) EXCEPT ![n] = upstream]
<1>1. /\ job[i].pc = "read" /\ UNCHANGED <<dopt, upstream, inflightName, newName>>
      /\ inode' = [inode EXCEPT ![f].content = new, ![f].mtime = D!Now, ![f].old = FALSE]
      /\ job' = [job EXCEPT ![i].read = Append(@, upstream)]
      /\ past' = IF upstream = job[i].msg THEN past
                 ELSE [past EXCEPT !.suspect = @ \cup {f}]
  BY Zenon DEF D!ReadWrite
<1>2. /\ DownPast /\ DownPast' /\ past'.raced = past.raced
      /\ past'.suspect = IF upstream = job[i].msg THEN past.suspect ELSE past.suspect \cup {f}
  BY <1>1 DEF DownInv, DownPast
<1> SUFFICES ASSUME Alone' PROVE (DownType /\ OneWriter /\ OwnFile /\ AsRead /\ InPlace)'
  BY <1>2, Zenon DEF DownInv
<1>3. Alone /\ Writing(i)
  BY <1>1, <1>2 DEF Alone, Writing
<1>4. /\ DownType /\ OneWriter /\ OwnFile /\ AsRead /\ InPlace /\ DownPast
      /\ job \in [Inst -> DownJob] /\ job[i] \in DownJob /\ inode \in [D!File -> DownFile]
      /\ f \in D!File /\ f # newName
      /\ job[i].read \in Seq(D!Version) /\ job[i].msg \in D!Version
      /\ inode[f].content \in Seq(Nat)
  BY <1>3, WriterFacts
<1>5. upstream \in D!Version /\ upstream \in Nat /\ D!Now \in Nat
  <2>1. upstream \in D!Version
    BY <1>4 DEF DownType
  <2>2. upstream \in Nat
    BY <1>2, <2>1, VersionFacts, Zenon
  <2> QED BY <2>1, <2>2 DEF D!Now
<1>6. /\ n \in Nat \ {0} /\ len \in Nat /\ m \in Nat /\ n <= m /\ len <= m /\ n - 1 <= len
      /\ n - 1 = Len(job[i].read)
      /\ \A k \in 1 .. Len(job[i].read) : inode[f].content[k] = job[i].read[k]
  <2>1. /\ Len(job[i].read) <= len
        /\ \A k \in 1 .. Len(job[i].read) : inode[f].content[k] = job[i].read[k]
    BY <1>1, <1>4, ReadSoFar
  <2>2. len \in Nat /\ Len(job[i].read) \in Nat
    BY <1>4
  <2> QED BY <2>1, <2>2
<1>7. /\ new \in Seq(Nat) /\ Len(new) = m /\ new[n] = upstream
      /\ \A k \in 1 .. Len(job[i].read) : new[k] = job[i].read[k]
  <2> DEFINE base == D!Resized(f, m)
  <2>1. /\ base \in Seq(Nat) /\ Len(base) = m
        /\ \A k \in 1 .. m : k <= len => base[k] = inode[f].content[k]
    BY <1>4, <1>6, ResizedFacts
  <2>2. new = [base EXCEPT ![n] = upstream]
    OBVIOUS
  <2> HIDE DEF new, base, m, len
  <2>3. n \in 1 .. m
    BY <1>6
  <2>4. new \in Seq(Nat) /\ Len(new) = m /\ new[n] = upstream
        /\ \A k \in 1 .. m : k # n => new[k] = base[k]
    BY <1>5, <2>1, <2>2, <2>3
  <2>5. \A k \in 1 .. Len(job[i].read) : k \in 1 .. m /\ k # n /\ k <= len
    BY <1>4, <1>6
  <2> QED BY <1>6, <2>1, <2>4, <2>5
<1> HIDE DEF new, m, len
<1>8. /\ Append(job[i].read, upstream) \in Seq(D!Version)
      /\ Len(Append(job[i].read, upstream)) = n
      /\ \A k \in 1 .. n : Append(job[i].read, upstream)[k] = IF k = n THEN upstream ELSE job[i].read[k]
  BY <1>4, <1>5
<1>9. /\ job'[i].pc = "read" /\ job'[i].fd = f /\ job'[i].msg = job[i].msg
      /\ job'[i].read = Append(job[i].read, upstream)
      /\ \A j \in Inst : j # i => job'[j] = job[j]
      /\ job' \in [Inst -> DownJob]
  <2>1. [job[i] EXCEPT !.read = Append(job[i].read, upstream)] \in DownJob
    BY <1>4, <1>8 DEF DownJob
  <2>2. job' = [job EXCEPT ![i] = [job[i] EXCEPT !.read = Append(job[i].read, upstream)]]
    BY <1>1, <1>4
  <2> QED BY <1>1, <1>4, <2>1, <2>2 DEF DownJob
<1>10. /\ inode' \in [D!File -> DownFile] /\ inode'[f].content = new
       /\ \A g \in D!File : g # f => inode'[g] = inode[g]
  <2>1. inode[f] \in DownFile
    BY <1>4
  <2>2. [inode[f] EXCEPT !.content = new, !.mtime = D!Now, !.old = FALSE] \in DownFile
    BY <1>5, <1>7, <2>1 DEF DownFile
  <2>3. inode' = [inode EXCEPT ![f] = [inode[f] EXCEPT !.content = new, !.mtime = D!Now, !.old = FALSE]]
    BY <1>1, <1>4
  <2> QED BY <1>4, <2>1, <2>2, <2>3 DEF DownFile
<1>11. DownType'
  BY <1>1, <1>4, <1>9, <1>10, SameVersions DEF DownType, D!File
<1>12. OneWriter' /\ OwnFile'
       /\ \A j \in Inst : j # i => ~(job'[j].pc \in {"read", "length", "remove", "rename"})
  BY <1>1, <1>3, <1>9, WriterGoesOn
<1>13. AsRead'
  <2>1. Len(job'[i].read) <= Len(inode'[f].content)
    BY <1>6, <1>7, <1>8, <1>9, <1>10
  <2>2. \A k \in 1 .. Len(job'[i].read) : inode'[f].content[k] = job'[i].read[k]
    <3>1. \A k \in 1 .. n : k = n \/ k \in 1 .. Len(job[i].read)
      BY <1>4, <1>6
    <3> QED BY <1>7, <1>8, <1>9, <1>10, <3>1
  <2>3. f \notin past'.suspect => \A k \in 1 .. Len(job'[i].read) : job'[i].read[k] = job'[i].msg
    <3>1. \A k \in 1 .. n : k = n \/ k \in 1 .. Len(job[i].read)
      BY <1>4, <1>6
    <3>2. f \notin past'.suspect => upstream = job[i].msg /\ f \notin past.suspect
      BY <1>2
    <3>3. f \notin past.suspect => \A k \in 1 .. Len(job[i].read) : job[i].read[k] = job[i].msg
      BY <1>3, <1>4 DEF AsRead
    <3> QED BY <1>8, <1>9, <3>1, <3>2, <3>3
  <2> HIDE DEF new, n
  <2>4. ASSUME NEW j \in Inst, j # i
        PROVE  ~(job'[j].pc \in {"read", "length", "remove", "rename"}) /\ ~Writing(j)'
    BY <1>12, <2>4 DEF Writing
  <2>5. ASSUME NEW j \in Inst
        PROVE  LET read == job'[j].read
                   content == inode'[job'[j].fd].content IN
               /\ job'[j].pc = "read" => /\ Len(read) <= Len(content)
                                         /\ \A k \in 1 .. Len(read) : content[k] = read[k]
               /\ job'[j].pc \in {"length", "remove", "rename"} => content = read
               /\ job'[j].pc \in {"remove", "rename"} => Len(read) = dopt'.size[job'[j].msg]
               /\ Writing(j)' /\ job'[j].fd \notin past'.suspect =>
                      \A k \in 1 .. Len(read) : read[k] = job'[j].msg
    <3>1. CASE j = i
      BY <1>9, <2>1, <2>2, <2>3, <3>1
    <3>2. CASE j # i
      BY <2>4, <3>2
    <3> QED BY <3>1, <3>2
  <2> QED BY <2>5 DEF AsRead
<1>14. InPlace'
  <2>1. newName # 0 => newName \in D!File
    BY <1>4 DEF DownType, D!File
  <2> QED BY <1>1, <1>2, <1>4, <1>10, <2>1, SameVersions DEF InPlace
<1> QED BY <1>11, <1>12, <1>13, <1>14, Zenon

(* The transfer ends: the file is cut where it ended. *)
LEMMA StepClose ==
    ASSUME DownInv, NEW i \in Inst, job[i].pc = "read", D!LocalWriteClose(i),
           UNCHANGED <<dopt, inflightName, newName, upstream, past>>
    PROVE  DownInv'
<1> DEFINE f == job[i].fd
           read == job[i].read
           new == D!Resized(f, Len(read))
<1>1. /\ inode' = [inode EXCEPT ![f].content = new, ![f].mtime = D!Now]
      /\ job' = [job EXCEPT ![i].pc = "length"]
  BY DEF D!LocalWriteClose, D!Truncated, D!GoTo
<1>2. DownPast /\ DownPast'
  BY DEF DownInv, DownPast
<1> SUFFICES ASSUME Alone' PROVE (DownType /\ OneWriter /\ OwnFile /\ AsRead /\ InPlace)'
  BY <1>2 DEF DownInv
<1>3. Alone /\ Writing(i)
  BY DEF Alone, Writing
<1>4. /\ DownType /\ OneWriter /\ OwnFile /\ AsRead /\ InPlace /\ DownPast
      /\ job \in [Inst -> DownJob] /\ job[i] \in DownJob /\ inode \in [D!File -> DownFile]
      /\ f \in D!File /\ f # newName
      /\ read \in Seq(D!Version) /\ job[i].msg \in D!Version
      /\ inode[f].content \in Seq(Nat)
  BY <1>3, WriterFacts
<1>5. D!Now \in Nat
  <2>1. upstream \in D!Version
    BY <1>4 DEF DownType
  <2>2. upstream \in Nat
    BY <1>2, <2>1, VersionFacts
  <2> QED BY <2>2 DEF D!Now
<1>6. new = read /\ new \in Seq(Nat)
  <2>1. /\ Len(read) <= Len(inode[f].content) /\ Len(read) \in Nat
        /\ \A k \in 1 .. Len(read) : inode[f].content[k] = read[k]
    BY <1>4, ReadSoFar
  <2>2. /\ new \in Seq(Nat) /\ Len(new) = Len(read)
        /\ \A k \in 1 .. Len(read) : k <= Len(inode[f].content) => new[k] = inode[f].content[k]
    BY <1>4, <2>1, ResizedFacts
  <2> HIDE DEF new
  <2>3. \A k \in 1 .. Len(read) : k <= Len(inode[f].content)
    BY <1>4, <2>1
  <2>4. \A k \in 1 .. Len(read) : new[k] = read[k]
    BY <2>1, <2>2, <2>3
  <2>5. ASSUME NEW X, NEW q \in Seq(X) PROVE q = [k \in 1 .. Len(q) |-> q[k]]
    OBVIOUS
  <2>6. read = [k \in 1 .. Len(read) |-> read[k]]
    BY <1>4, <2>5
  <2>7. new = [k \in 1 .. Len(read) |-> new[k]]
    BY <2>2, <2>5
  <2> QED BY <2>2, <2>4, <2>6, <2>7
<1> HIDE DEF new
<1>7. /\ job'[i].pc = "length" /\ job'[i].fd = f /\ job'[i].msg = job[i].msg /\ job'[i].read = read
      /\ \A j \in Inst : j # i => job'[j] = job[j]
      /\ job' \in [Inst -> DownJob]
  BY <1>1, <1>4 DEF DownJob
<1>8. /\ inode' \in [D!File -> DownFile] /\ inode'[f].content = read
      /\ \A g \in D!File : g # f => inode'[g] = inode[g]
  <2>1. inode[f] \in DownFile
    BY <1>4
  <2>2. [inode[f] EXCEPT !.content = new, !.mtime = D!Now] \in DownFile
    BY <1>5, <1>6, <2>1 DEF DownFile
  <2>3. inode' = [inode EXCEPT ![f] = [inode[f] EXCEPT !.content = new, !.mtime = D!Now]]
    BY <1>1, <1>4
  <2> QED BY <1>4, <1>6, <2>1, <2>2, <2>3 DEF DownFile
<1>9. DownType'
  BY <1>4, <1>7, <1>8, SameVersions DEF DownType, D!File
<1>10. OneWriter' /\ OwnFile'
       /\ \A j \in Inst : j # i => ~(job'[j].pc \in {"read", "length", "remove", "rename"})
  BY <1>3, <1>7, WriterGoesOn
<1>11. AsRead'
  <2>1. f \notin past'.suspect => \A k \in 1 .. Len(job'[i].read) : job'[i].read[k] = job'[i].msg
    BY <1>3, <1>4, <1>7 DEF AsRead
  <2> QED BY <1>7, <1>8, <1>10, <2>1 DEF AsRead, Writing
<1>12. InPlace'
  <2>1. newName # 0 => newName \in D!File
    BY <1>4 DEF DownType, D!File
  <2> QED BY <1>4, <1>8, <2>1, SameVersions DEF InPlace
<1> QED BY <1>9, <1>10, <1>11, <1>12

(* The length is right, and the old file goes. *)
LEMMA StepGoesOn ==
    ASSUME DownInv, NEW i \in Inst, UNCHANGED <<dopt, inode, inflightName, upstream, past>>,
           \/ /\ job[i].pc = "length" /\ job' = [job EXCEPT ![i].pc = "remove"]
              /\ D!LengthOK(i) /\ newName' = newName
           \/ /\ job[i].pc = "remove" /\ job' = [job EXCEPT ![i].pc = "rename"] /\ newName' = 0
    PROVE  DownInv'
<1>2. DownPast /\ DownPast'
  BY DEF DownInv, DownPast
<1> SUFFICES ASSUME Alone' PROVE (DownType /\ OneWriter /\ OwnFile /\ AsRead /\ InPlace)'
  BY <1>2 DEF DownInv
<1>3. Alone /\ Writing(i)
  BY DEF Alone, Writing
<1>4. /\ DownType /\ OneWriter /\ OwnFile /\ AsRead /\ InPlace
      /\ job \in [Inst -> DownJob]
  BY <1>3, WriterFacts
<1>5. /\ job'[i].pc \in {"remove", "rename"} /\ job'[i].fd = job[i].fd
      /\ job'[i].msg = job[i].msg /\ job'[i].read = job[i].read
      /\ \A j \in Inst : j # i => job'[j] = job[j]
      /\ job' \in [Inst -> DownJob] /\ newName' \in {0, newName}
  <2>1. \E to \in {"remove", "rename"} : job' = [job EXCEPT ![i].pc = to]
    OBVIOUS
  <2>2. PICK to \in {"remove", "rename"} : job' = [job EXCEPT ![i].pc = to]
    BY <2>1
  <2>3. [job[i] EXCEPT !.pc = to] \in DownJob
    BY <1>4 DEF DownJob
  <2>4. job' = [job EXCEPT ![i] = [job[i] EXCEPT !.pc = to]]
    BY <1>4, <2>2
  <2>5. job'[i] = [job[i] EXCEPT !.pc = to] /\ job' \in [Inst -> DownJob]
        /\ \A j \in Inst : j # i => job'[j] = job[j]
    BY <1>4, <2>3, <2>4
  <2> QED BY <1>4, <2>5 DEF DownJob
<1>6. DownType'
  BY <1>4, <1>5, SameVersions, DownloadAssumption DEF DownType, D!File
<1>7. OneWriter' /\ OwnFile'
      /\ \A j \in Inst : j # i => ~(job'[j].pc \in {"read", "length", "remove", "rename"})
  BY <1>3, <1>5, WriterGoesOn
<1>8. AsRead'
  <2>1. Len(job[i].read) = dopt.size[job[i].msg] /\ inode[job[i].fd].content = job[i].read
    BY <1>4 DEF AsRead, D!LengthOK
  <2>2. job[i].fd \notin past.suspect => \A k \in 1 .. Len(job[i].read) : job[i].read[k] = job[i].msg
    BY <1>3, <1>4 DEF AsRead
  <2> QED BY <1>5, <1>7, <2>1, <2>2 DEF AsRead, Writing
<1>9. InPlace'
  BY <1>4, <1>5, SameVersions DEF InPlace
<1> QED BY <1>6, <1>7, <1>8, <1>9

(* The inflight file gets the name of the file. *)
LEMMA StepRename ==
    ASSUME DownInv, NEW i \in Inst, D!Rename(i) PROVE DownInv'
<1>1. CASE inflightName = 0
  BY <1>1, StepFails DEF D!Rename
<1>2. CASE inflightName # 0
  <2>1. /\ job[i].pc = "rename" /\ UNCHANGED <<dopt, inode, upstream, past>>
        /\ newName' = inflightName /\ inflightName' = 0 /\ job' = [job EXCEPT ![i].pc = "attributes"]
    BY <1>2 DEF D!Rename, D!GoTo
  <2>2. DownPast /\ DownPast'
    BY <2>1 DEF DownInv, DownPast
  <2> SUFFICES ASSUME Alone' PROVE (DownType /\ OneWriter /\ OwnFile /\ AsRead /\ InPlace)'
    BY <2>2 DEF DownInv
  <2>3. Alone /\ Writing(i)
    BY <2>1 DEF Alone, Writing
  <2>4. /\ DownType /\ OneWriter /\ OwnFile /\ AsRead /\ InPlace
        /\ job \in [Inst -> DownJob] /\ inflightName = job[i].fd
        /\ job[i].read \in Seq(D!Version) /\ job[i].msg \in D!Version
        /\ \A j \in Inst : j # i => ~Busy(j)
    BY <1>2, <2>3, WriterFacts
  <2>5. /\ job'[i].pc = "attributes" /\ \A j \in Inst : j # i => job'[j] = job[j]
        /\ job' \in [Inst -> DownJob]
    BY <2>1, <2>4 DEF DownJob
  <2>6. DownType'
    BY <2>1, <2>4, <2>5, SameVersions, DownloadAssumption DEF DownType, D!File
  <2>7. \A j \in Inst : ~(job'[j].pc \in {"read", "length", "remove", "rename"}) /\ (Busy(j)' => j = i)
    BY <2>4, <2>5 DEF Busy, Writing
  <2>8. OneWriter' /\ OwnFile' /\ AsRead'
    BY <2>1, <2>7 DEF OneWriter, OwnFile, AsRead, Writing
  <2>9. InPlace'
    <3> SUFFICES ASSUME newName' # 0, newName' \notin past'.suspect
                 PROVE  \E v \in D!Version : inode[newName'].content = D!Whole(v)
      BY <2>1, SameVersions DEF InPlace
    <3>1. /\ inode[job[i].fd].content = job[i].read /\ Len(job[i].read) = dopt.size[job[i].msg]
          /\ \A k \in 1 .. Len(job[i].read) : job[i].read[k] = job[i].msg
      BY <2>1, <2>3, <2>4 DEF AsRead
    <3>2. job[i].read = [k \in 1 .. Len(job[i].read) |-> job[i].read[k]]
      BY <2>4
    <3>3. job[i].read = D!Whole(job[i].msg)
      BY <3>1, <3>2 DEF D!Whole
    <3> QED BY <2>1, <2>4, <3>1, <3>3
  <2> QED BY <2>6, <2>8, <2>9
<1> QED BY <1>1, <1>2

(* Every step of the instances that download. *)
LEMMA DownStep == ASSUME DownInv, [D!Next]_dVars PROVE DownInv'
<1>1. CASE D!Age \/ D!UpstreamWrite \/ UNCHANGED dVars
  BY <1>1, StepOthers
<1>2. ASSUME NEW i \in Inst, D!Gather(i) \/ D!CheckInflight(i) \/ D!CheckLocal(i) \/ D!Connect(i)
             \/ D!Kill(i)
      PROVE  DownInv'
  BY <1>2, StepTake, StepCheck
<1>3. ASSUME NEW i \in Inst, D!LocalWriteOpen(i) \/ D!ReadWrite(i) PROVE DownInv'
  BY <1>3, StepOpen, StepRead
<1>4. ASSUME NEW i \in Inst, D!EndGet(i) PROVE DownInv'
  BY <1>4, StepClose DEF D!EndGet
<1>5. ASSUME NEW i \in Inst, D!GetBreaks(i) PROVE DownInv'
  <2>1. UNCHANGED <<dopt, inflightName, newName, upstream, past>> /\ job[i].pc = "read"
    BY <1>5 DEF D!GetBreaks
  <2>2. CASE D!FailAttempt(i) /\ UNCHANGED inode
    BY <2>1, <2>2, StepFails
  <2>3. CASE D!LocalWriteClose(i)
    BY <2>1, <2>3, StepClose
  <2> QED BY <1>5, <2>2, <2>3 DEF D!GetBreaks
<1>6. ASSUME NEW i \in Inst, D!CheckLength(i) PROVE DownInv'
  <2>1. UNCHANGED <<dopt, inode, newName, upstream, past>> /\ job[i].pc = "length"
    BY <1>6 DEF D!CheckLength
  <2>2. CASE D!LengthOK(i) /\ dopt.inflight
    <3>1. job' = [job EXCEPT ![i].pc = "remove"] /\ inflightName' = inflightName
      BY <1>6, <2>2 DEF D!CheckLength, D!GoTo
    <3> QED BY <2>1, <2>2, <3>1, StepGoesOn
  <2>3. CASE ~dopt.inflight
    BY <2>1, <2>3 DEF DownInv, DownPast, Alone
  <2>4. CASE ~D!LengthOK(i) /\ dopt.inflight
    <3>1. inflightName' = 0 /\ (D!Finish(i) \/ D!FailAttempt(i))
      BY <1>6, <2>4 DEF D!CheckLength
    <3> QED BY <2>1, <3>1, StepFails
  <2> QED BY <2>2, <2>3, <2>4
<1>7. ASSUME NEW i \in Inst, D!RemoveOld(i) PROVE DownInv'
  BY <1>7, StepGoesOn DEF D!RemoveOld, D!GoTo
<1>8. ASSUME NEW i \in Inst, D!Rename(i) \/ D!SetLocalFileAttributes(i) PROVE DownInv'
  BY <1>8, StepRename, StepAttributes
<1> QED BY <1>1, <1>2, <1>3, <1>4, <1>5, <1>6, <1>7, <1>8 DEF D!Next, D!Step

(* The download, by however many instances. *)
LEMMA DownInvariant == Spec => []DownInv
<1>1. Init => DownInv
  <2>1. ASSUME NEW pc \in {"off", "idle"}, D!InitAs(pc) PROVE DownInv
    <3>1. DownPast
      BY <2>1, DownloadAssumption DEF D!InitAs, DownPast
    <3>2. /\ job = [i \in Inst |-> [D!NoJob EXCEPT !.pc = pc]] /\ inode = [f \in D!File |-> D!Empty]
          /\ inflightName = 0 /\ newName = 0 /\ upstream = 1
      BY <2>1 DEF D!InitAs
    <3>3. [D!NoJob EXCEPT !.pc = pc] \in DownJob /\ [D!NoJob EXCEPT !.pc = pc].pc = pc
      BY <3>1, VersionFacts DEF DownJob
    <3>4. DownType
      BY <3>1, <3>2, <3>3, VersionFacts, EmptyFile, DownloadAssumption DEF DownType
    <3>5. \A i \in Inst : job[i].pc = pc
      BY <3>2, <3>3
    <3>6. OneWriter /\ OwnFile /\ AsRead /\ InPlace
      BY <3>2, <3>5 DEF OneWriter, OwnFile, AsRead, InPlace, Busy, Writing
    <3> QED BY <3>1, <3>4, <3>6 DEF DownInv
  <2> QED BY <2>1 DEF Init
<1>2. DownInv /\ [Next]_tVars => DownInv'
  BY TransferSteps, DownStep
<1> QED BY <1>1, <1>2, PTL DEF Spec, tVars

(* With inflight the name a reader looks for never holds part of a version, whatever broke, was
   killed, retried or taken over by another instance. *)
THEOREM DownloadIsWhole == Spec => []VisibleIsWhole
<1>1. DownInv => VisibleIsWhole
  BY DEF DownInv, Alone, InPlace, VisibleIsWhole, D!VisibleIsWhole
<1> QED BY DownInvariant, <1>1, PTL

(* Whoever looks at a place sees nothing or a whole version: of a download, of an upload and of a
   file that comes in blocks. *)
THEOREM ReadersSeeWholeFiles == Spec => []WholeFiles
BY DownloadIsWhole, UploadIsWhole, BlocksMakeFiles, PTL DEF WholeFiles

-----------------------------------------------------------------------------
(* The announcement of the latest version.  What a job has read for it is of that version, and
   the file in place carries the time and the identity of what was announced last, or is about to
   be announced. *)
Undisturbed == D!Running /\ Alone /\ ~past.misjudged /\ ~past.cutShort

Versions ==
    /\ dretry \in [Inst -> SUBSET D!Version] /\ dqueue \subseteq D!Version
    /\ \A m \in dqueue : m <= upstream
    /\ \A i \in Inst : job[i].msg <= upstream /\ \A m \in dretry[i] : m <= upstream

RightRead ==
    \A i \in Inst :
        /\ Busy(i) /\ job[i].msg = upstream => \A k \in 1 .. Len(job[i].read) : job[i].read[k] = upstream
        /\ job[i].pc = "attributes" => Len(job[i].read) = dopt.size[job[i].msg] /\ newName # 0

(* The time of a write, which is that of no version. *)
WriteTime(f) == \E u \in Nat : inode[f].mtime = 2 * u + 1

Stamped ==
    \/ \E w \in D!Version :
          /\ w <= upstream /\ inode[newName].mtime = D!Mtime(w) /\ inode[newName].identity \in past.posted
          /\ w = upstream => inode[newName].identity = D!Whole(upstream)
    \/ /\ WriteTime(newName)
       /\ \E i \in Inst : job[i].pc = "attributes" /\ job[i].read = inode[newName].content

Stamps == (inflightName # 0 => WriteTime(inflightName)) /\ (newName # 0 => Stamped)

Underway(i) ==
    \/ job[i].pc \notin {"off", "idle"} /\ job[i].msg = upstream
    \/ job[i].pc = "attributes" /\ job[i].read = D!Whole(upstream)

OnTheWay ==
    \/ D!Whole(upstream) \in past.posted \/ upstream \in dqueue
    \/ \E i \in Inst : upstream \in dretry[i] \/ Underway(i)

Latest == Versions /\ RightRead /\ Stamps /\ OnTheWay

LatestInv == Undisturbed => Latest

(* A step that does not disturb the download. *)
Calm == DownInv /\ DownInv' /\ Undisturbed /\ Undisturbed' /\ Latest /\ dopt' = dopt

(* What is known of the jobs, the files and the versions before such a step of the download. *)
LEMMA CalmFacts ==
    ASSUME Calm
    PROVE  /\ DownPast /\ DownType /\ OneWriter /\ OwnFile /\ AsRead
           /\ job \in [Inst -> DownJob] /\ job' \in [Inst -> DownJob]
           /\ inode \in [D!File -> DownFile] /\ upstream \in D!Version /\ upstream \in Nat
           /\ D!Version' = D!Version /\ (\A v : D!Whole(v)' = D!Whole(v)) /\ dopt.inflight
           /\ \A i \in Inst : /\ job[i].msg \in D!Version /\ job[i].read \in Seq(D!Version)
                              /\ job'[i].msg \in D!Version /\ job'[i].read \in Seq(D!Version)
                              /\ job[i].pc # "off" /\ job'[i].pc # "off"
           /\ DOMAIN past = {"posted", "suspect", "raced", "misjudged", "cutShort"}
<1>1. DownPast /\ DownType /\ OneWriter /\ OwnFile /\ AsRead /\ DownType' /\ Alone
  BY DEF Calm, DownInv, Undisturbed
<1>2. /\ job \in [Inst -> DownJob] /\ upstream \in D!Version /\ inode \in [D!File -> DownFile]
      /\ job' \in [Inst -> DownJob]
  BY <1>1, SameVersions DEF Calm, DownType
<1>3. upstream \in Nat
  BY <1>1, <1>2, VersionFacts
<1>4. \A i \in Inst : job[i].pc # "off" /\ job'[i].pc # "off"
  BY DEF Calm, Undisturbed, D!Running
<1> QED BY <1>1, <1>2, <1>3, <1>4, SameVersions DEF Calm, DownJob, DownPast, Alone

(* What leaves the file in place and the posts alone. *)
LEMMA StampsStay ==
    ASSUME Calm, upstream' = upstream, newName' \in {0, newName},
           past.posted \subseteq past'.posted,
           newName # 0 => inode'[newName].mtime = inode[newName].mtime
                          /\ inode'[newName].identity = inode[newName].identity
                          /\ inode'[newName].content = inode[newName].content,
           inflightName' # 0 => WriteTime(inflightName)',
           \A j \in Inst : job[j].pc = "attributes" => job'[j] = job[j]
    PROVE  Stamps'
<1>1. Stamps /\ D!Version' = D!Version /\ \A v : D!Whole(v)' = D!Whole(v)
  BY CalmFacts DEF Calm, Latest
<1>3. ASSUME newName' # 0 PROVE Stamped'
  <2>1. newName' = newName /\ newName # 0
    BY <1>3
  <2>2. CASE \E w \in D!Version :
          /\ w <= upstream /\ inode[newName].mtime = D!Mtime(w) /\ inode[newName].identity \in past.posted
          /\ w = upstream => inode[newName].identity = D!Whole(upstream)
    BY <1>1, <2>1, <2>2 DEF Stamped, D!Mtime
  <2>3. CASE /\ WriteTime(newName)
             /\ \E i \in Inst : job[i].pc = "attributes" /\ job[i].read = inode[newName].content
    <3>1. WriteTime(newName)'
      BY <2>1, <2>3 DEF WriteTime
    <3> QED BY <2>1, <2>3, <3>1 DEF Stamped
  <2> QED BY <1>1, <2>1, <2>2, <2>3 DEF Stamps, Stamped
<1> QED BY <1>3 DEF Stamps

(* What leaves the queues and the other jobs alone. *)
LEMMA OnTheWayStays ==
    ASSUME Calm, upstream' = upstream, past.posted \subseteq past'.posted, dqueue \subseteq dqueue',
           \A j \in Inst : dretry[j] \subseteq dretry'[j],
           NEW i \in Inst, \A j \in Inst : j # i => job'[j] = job[j], Underway(i) => OnTheWay'
    PROVE  OnTheWay'
<1>1. \A v : D!Whole(v)' = D!Whole(v)
  BY CalmFacts
<1>2. \A j \in Inst : j # i /\ Underway(j) => Underway(j)'
  BY <1>1 DEF Underway
<1>3. OnTheWay
  BY DEF Calm, Latest
<1> QED BY <1>1, <1>2, <1>3 DEF OnTheWay

(* An attempt that fails is made again, or put off. *)
LEMMA LatestFails ==
    ASSUME Calm, NEW i \in Inst, D!FailAttempt(i) \/ D!Defer(i),
           job[i].pc \notin {"off", "idle", "attributes"},
           UNCHANGED <<inode, newName, upstream, dqueue, past>>, inflightName' \in {0, inflightName}
    PROVE  Latest'
<1>1. /\ DownPast /\ DownType /\ job \in [Inst -> DownJob] /\ D!Version' = D!Version
      /\ Versions /\ RightRead /\ Stamps /\ job[i].msg \in D!Version
      /\ \A v \in D!Version : v \in Nat
  BY CalmFacts, VersionFacts DEF Calm, Latest
<1>2. \/ /\ dretry' = [dretry EXCEPT ![i] = @ \cup {job[i].msg}]
         /\ job' = [job EXCEPT ![i] = D!NoJob]
      \/ /\ job' = [job EXCEPT ![i].pc = "connect", ![i].attempt = job[i].attempt + 1,
                               ![i].fd = 0, ![i].read = <<>>]
         /\ dretry' = dretry
  BY DEF D!FailAttempt, D!Defer, D!Finish
<1>3. /\ \A j \in Inst : j # i => job'[j] = job[j]
      /\ \/ /\ job'[i].pc = "idle" /\ job'[i].msg = 1 /\ job[i].msg \in dretry'[i]
            /\ dretry' = [dretry EXCEPT ![i] = @ \cup {job[i].msg}]
         \/ job'[i].pc = "connect" /\ job'[i].msg = job[i].msg /\ dretry' = dretry
  <2>1. CASE /\ dretry' = [dretry EXCEPT ![i] = @ \cup {job[i].msg}]
             /\ job' = [job EXCEPT ![i] = D!NoJob]
    BY <1>1, <2>1 DEF D!NoJob, Versions
  <2>2. CASE /\ job' = [job EXCEPT ![i].pc = "connect", ![i].attempt = job[i].attempt + 1,
                               ![i].fd = 0, ![i].read = <<>>]
             /\ dretry' = dretry
    BY <1>1, <2>2 DEF DownJob
  <2> QED BY <1>2, <2>1, <2>2
<1>4. Versions'
  <2>1. 1 <= upstream /\ job[i].msg <= upstream
    BY CalmFacts, VersionFacts, <1>1 DEF Versions
  <2>2. dretry' \in [Inst -> SUBSET D!Version] /\ \A j \in Inst : \A m \in dretry'[j] : m <= upstream
    BY <1>1, <1>3, <2>1 DEF Versions
  <2> QED BY <1>1, <1>3, <2>1, <2>2 DEF Versions
<1>5. RightRead'
  BY <1>1, <1>3 DEF RightRead, Busy, Writing, Calm
<1>6. Stamps'
  <2>1. inflightName' # 0 => WriteTime(inflightName)'
    BY <1>1 DEF Stamps, WriteTime
  <2> QED BY <1>3, <2>1, StampsStay
<1>7. OnTheWay'
  <2>1. Underway(i) => OnTheWay'
    BY <1>3 DEF Underway, OnTheWay
  <2>2. \A j \in Inst : dretry[j] \subseteq dretry'[j]
    BY <1>1, <1>3 DEF Versions
  <2> QED BY <1>3, <2>1, <2>2, OnTheWayStays
<1> QED BY <1>4, <1>5, <1>6, <1>7 DEF Latest

(* A job that goes on with the announcement, and has what it had read or one chunk more. *)
LEMMA LatestGoesOn ==
    ASSUME Calm, NEW i \in Inst, \A j \in Inst : j # i => job'[j] = job[j],
           job[i].pc \notin {"off", "idle", "attributes"}, job'[i].pc \notin {"off", "idle"},
           job'[i].msg = job[i].msg, UNCHANGED <<upstream, dqueue, dretry>>,
           past.posted \subseteq past'.posted,
           \/ job'[i].pc \in {"check", "connect", "open"} \/ job'[i].read = <<>>
           \/ Busy(i) /\ job'[i].read = job[i].read
           \/ Busy(i) /\ job'[i].read = Append(job[i].read, upstream),
           job'[i].pc = "attributes" => Len(job'[i].read) = dopt.size[job[i].msg],
           \A j \in Inst : job'[j].pc = "attributes" => newName' # 0,
           Stamps'
    PROVE  Latest'
<1>1. /\ Versions /\ RightRead /\ job[i].read \in Seq(D!Version) /\ D!Version' = D!Version
      /\ upstream \in D!Version
  BY CalmFacts DEF Calm, Latest
<1>2. Versions'
  BY <1>1 DEF Versions
<1>3. RightRead'
  <2>1. ASSUME Busy(i)', job[i].msg = upstream PROVE \A k \in 1 .. Len(job'[i].read) : job'[i].read[k] = upstream
    <3>1. CASE job'[i].pc \in {"check", "connect", "open"}
      BY <2>1, <3>1 DEF Busy, Writing
    <3>2. CASE job'[i].read = <<>>
      BY <3>2
    <3>3. CASE Busy(i) /\ job'[i].read = job[i].read
      BY <1>1, <2>1, <3>3 DEF RightRead
    <3>4. CASE Busy(i) /\ job'[i].read = Append(job[i].read, upstream)
      <4>1. \A k \in 1 .. Len(job[i].read) : job[i].read[k] = upstream
        BY <1>1, <2>1, <3>4 DEF RightRead
      <4> QED BY <1>1, <3>4, <4>1
    <3> QED BY <3>1, <3>2, <3>3, <3>4
  <2>2. \A j \in Inst : j # i => (Busy(j)' <=> Busy(j))
    BY DEF Busy, Writing
  <2> QED BY <1>1, <2>1, <2>2 DEF RightRead, Calm
<1>4. OnTheWay'
  <2>1. Underway(i) => OnTheWay'
    BY DEF Underway, OnTheWay
  <2> QED BY <2>1, OnTheWayStays
<1> QED BY <1>2, <1>3, <1>4 DEF Latest

(* A job that is at an end without a post. *)
LEMMA LatestEnds ==
    ASSUME Calm, NEW i \in Inst, D!Finish(i), job[i].pc \notin {"off", "idle", "attributes"},
           UNCHANGED <<inode, newName, upstream, dqueue, dretry>>, inflightName' \in {0, inflightName},
           past'.posted = past.posted,
           job[i].msg = upstream => OnTheWay'
    PROVE  Latest'
<1>1. /\ DownPast /\ job \in [Inst -> DownJob] /\ D!Version' = D!Version
      /\ Versions /\ RightRead /\ Stamps
  BY CalmFacts DEF Calm, Latest
<1>2. /\ \A j \in Inst : j # i => job'[j] = job[j]
      /\ job'[i].pc = "idle" /\ job'[i].msg = 1
  BY <1>1 DEF D!Finish, D!NoJob
<1>3. Versions'
  <2>1. 1 <= upstream
    BY CalmFacts, VersionFacts
  <2> QED BY <1>1, <1>2, <2>1 DEF Versions
<1>4. RightRead'
  BY <1>1, <1>2 DEF RightRead, Busy, Writing, Calm
<1>5. Stamps'
  <2>1. inflightName' # 0 => WriteTime(inflightName)'
    BY <1>1 DEF Stamps, WriteTime
  <2> QED BY <1>2, <2>1, StampsStay
<1>6. OnTheWay'
  <2>1. Underway(i) => OnTheWay'
    BY DEF Underway
  <2> QED BY <1>2, <2>1, OnTheWayStays
<1> QED BY <1>3, <1>4, <1>5, <1>6 DEF Latest

(* An instance takes an announcement, or a retry. *)
LEMMA LatestTake ==
    ASSUME Calm, NEW i \in Inst, D!Gather(i) PROVE Latest'
<1>1. PICK m \in D!Version :
        /\ \/ m \in dqueue /\ dqueue' = dqueue \ {m} /\ dretry' = dretry
           \/ m \in dretry[i] /\ dretry' = [dretry EXCEPT ![i] = @ \ {m}] /\ dqueue' = dqueue
        /\ job' = [job EXCEPT ![i] = [D!NoJob EXCEPT !.pc = "check", !.msg = m]]
  BY DEF D!Gather
<1>2. /\ job[i].pc = "idle" /\ UNCHANGED <<inflightName, newName, upstream>>
      /\ inode' = [f \in D!File |-> IF f \in D!InUse THEN inode[f] ELSE D!Empty]
      /\ past' = [past EXCEPT !.suspect = @ \cap D!InUse]
  BY DEF D!Gather
<1>3. /\ DownPast /\ DownType /\ job \in [Inst -> DownJob] /\ D!Version' = D!Version
      /\ Versions /\ RightRead /\ Stamps /\ OnTheWay /\ (\A v : D!Whole(v)' = D!Whole(v))
      /\ past'.posted = past.posted
  BY <1>2, CalmFacts DEF Calm, Latest, DownPast
<1>4. job'[i].pc = "check" /\ job'[i].msg = m /\ \A j \in Inst : j # i => job'[j] = job[j]
  BY <1>1, <1>3 DEF D!NoJob
<1>5. Versions'
  <2>1. m <= upstream
    BY <1>1, <1>3 DEF Versions
  <2> QED BY <1>1, <1>2, <1>3, <1>4, <2>1 DEF Versions
<1>6. RightRead'
  BY <1>2, <1>3, <1>4 DEF RightRead, Busy, Writing, Calm
<1>7. Stamps'
  <2>1. ASSUME NEW f \in {inflightName, newName}, f # 0 PROVE inode'[f] = inode[f]
    BY <1>2, <1>3, <2>1 DEF D!InUse, DownType, D!File
  <2>2. inflightName' # 0 => WriteTime(inflightName)'
    BY <1>2, <1>3, <2>1 DEF Stamps, WriteTime
  <2> QED BY <1>2, <1>3, <1>4, <2>1, <2>2, StampsStay
<1>8. OnTheWay'
  <2>1. CASE m = upstream
    BY <1>2, <1>4, <2>1 DEF OnTheWay, Underway
  <2>2. CASE m # upstream
    <3>1. upstream \in dqueue => upstream \in dqueue'
      BY <1>1, <2>2
    <3>2. \A j \in Inst : upstream \in dretry[j] => upstream \in dretry'[j]
      BY <1>1, <1>3, <2>2 DEF Versions
    <3>3. \A j \in Inst : Underway(j) => Underway(j)'
      BY <1>2, <1>3, <1>4 DEF Underway
    <3> QED BY <1>2, <1>3, <3>1, <3>2, <3>3 DEF OnTheWay
  <2> QED BY <2>1, <2>2
<1> QED BY <1>5, <1>6, <1>7, <1>8 DEF Latest

(* A step that changes no file but the state of one job that is neither before nor after it at the
   attributes. *)
LEMMA StampsRest ==
    ASSUME Calm, NEW i \in Inst, \A j \in Inst : j # i => job'[j] = job[j],
           job[i].pc # "attributes", UNCHANGED <<inode, upstream>>, newName' \in {0, newName},
           inflightName' \in {0, inflightName}, past'.posted = past.posted
    PROVE  Stamps'
<1>1. inflightName' # 0 => WriteTime(inflightName)'
  BY DEF Calm, Latest, Stamps, WriteTime
<1> QED BY <1>1, StampsStay

(* The file in place makes the transfer of the latest version needless only when that version was
   announced, or is about to be. *)
LEMMA LatestInPlace ==
    ASSUME Calm, NEW i \in Inst, job[i].pc = "check", job[i].msg = upstream, newName # 0,
           ~D!FileShouldBeDownloaded(upstream), ~D!ByWriteTime(upstream), UNCHANGED upstream,
           past'.posted = past.posted, \A j \in Inst : j # i => job'[j] = job[j]
    PROVE  OnTheWay'
<1>1. /\ upstream \in Nat /\ Stamped /\ (\A v : D!Whole(v)' = D!Whole(v))
      /\ D!Version \subseteq Nat
  BY CalmFacts, VersionFacts DEF Calm, Latest, Stamps
<1>2. ASSUME NEW w \in D!Version, w <= upstream, inode[newName].mtime = D!Mtime(w),
             inode[newName].identity \in past.posted,
             w = upstream => inode[newName].identity = D!Whole(upstream)
      PROVE  D!Whole(upstream) \in past.posted
  <2>1. D!Announced(newName)
    BY <1>2 DEF D!Announced
  <2>2. CASE w = upstream
    BY <1>2, <2>2
  <2>3. CASE w # upstream
    <3>1. D!Mtime(upstream) > inode[newName].mtime
      BY <1>1, <1>2, <2>3 DEF D!Mtime
    <3>2. D!LocalIdentity(newName) = D!Whole(upstream)
      BY <3>1 DEF D!FileShouldBeDownloaded
    <3> QED BY <1>2, <2>1, <3>2 DEF D!LocalIdentity
  <2> QED BY <2>2, <2>3
<1>3. ASSUME WriteTime(newName), NEW j \in Inst, job[j].pc = "attributes",
             job[j].read = inode[newName].content
      PROVE  Underway(j)'
  <2>1. ~D!Announced(newName)
    <3>1. PICK u \in Nat : inode[newName].mtime = 2 * u + 1
      BY <1>3 DEF WriteTime
    <3>2. ASSUME NEW v \in Nat PROVE 2 * u + 1 # 2 * v
      OBVIOUS
    <3> QED BY <1>1, <3>1, <3>2 DEF D!Announced, D!Mtime
  <2>2. inode[newName].content = D!Whole(upstream)
    BY <2>1 DEF D!ByWriteTime
  <2>3. job'[j] = job[j]
    BY <1>3
  <2> QED BY <1>1, <1>3, <2>2, <2>3 DEF Underway
<1> QED BY <1>1, <1>2, <1>3 DEF Stamped, OnTheWay

(* The checks before a transfer, and the connection. *)
LEMMA LatestCheck ==
    ASSUME Calm, NEW i \in Inst, D!CheckInflight(i) \/ D!CheckLocal(i) \/ D!Connect(i) PROVE Latest'
<1>1. /\ job \in [Inst -> DownJob] /\ RightRead /\ DOMAIN past = {"posted", "suspect", "raced", "misjudged", "cutShort"}
  BY CalmFacts DEF Calm, Latest
<1>2. ASSUME NEW pc \in {"connect", "open"}, D!GoTo(i, pc), job[i].pc \in {"check", "connect"},
             UNCHANGED <<inode, newName, inflightName, upstream, dqueue, dretry, past>>
      PROVE  Latest'
  <2>1. job'[i].pc = pc /\ job'[i].msg = job[i].msg /\ \A j \in Inst : j # i => job'[j] = job[j]
    BY <1>1, <1>2 DEF D!GoTo, DownJob
  <2>2. Stamps'
    BY <1>2, <2>1, StampsRest
  <2>3. \A j \in Inst : job'[j].pc = "attributes" => newName' # 0
    BY <1>1, <1>2, <2>1 DEF RightRead
  <2> QED BY <1>2, <2>1, <2>2, <2>3, LatestGoesOn
<1>3. CASE D!CheckInflight(i)
  <2>1. /\ job[i].pc = "check" /\ D!Defer(i) /\ UNCHANGED <<inode, newName, upstream, dqueue, past>>
        /\ inflightName' \in {0, inflightName}
    BY <1>3 DEF D!CheckInflight
  <2> QED BY <2>1, LatestFails
<1>4. CASE D!CheckLocal(i)
  <2>1. job[i].pc = "check" /\ UNCHANGED <<inode, inflightName, newName, upstream, dqueue, dretry>>
    BY <1>4 DEF D!CheckLocal, D!disk
  <2>2. CASE D!GoTo(i, "connect") /\ UNCHANGED past
    BY <1>2, <2>1, <2>2
  <2>3. CASE /\ newName # 0 /\ ~D!FileShouldBeDownloaded(job[i].msg) /\ D!Finish(i)
             /\ past' = [past EXCEPT !.misjudged = @ \/ D!ByWriteTime(job[i].msg)]
    <3>1. past'.posted = past.posted /\ ~D!ByWriteTime(job[i].msg)
      BY <1>1, <2>3 DEF Calm, Undisturbed
    <3>2. \A j \in Inst : j # i => job'[j] = job[j]
      BY <1>1, <2>3 DEF D!Finish
    <3>3. job[i].msg = upstream => OnTheWay'
      BY <2>1, <2>3, <3>1, <3>2, LatestInPlace
    <3> QED BY <2>1, <2>3, <3>1, <3>3, LatestEnds
  <2> QED BY <1>4, <2>2, <2>3 DEF D!CheckLocal
<1>5. CASE D!Connect(i)
  <2>1. job[i].pc = "connect" /\ UNCHANGED <<inode, inflightName, newName, upstream, dqueue, past>>
    BY <1>5 DEF D!Connect, D!disk
  <2>2. CASE D!GoTo(i, "open") /\ UNCHANGED dretry
    BY <1>2, <2>1, <2>2
  <2>3. CASE D!FailAttempt(i)
    BY <2>1, <2>3, LatestFails, Zenon
  <2> QED BY <1>5, <2>2, <2>3 DEF D!Connect
<1> QED BY <1>3, <1>4, <1>5

(* The file to be written is opened. *)
LEMMA LatestOpen ==
    ASSUME Calm, NEW i \in Inst, D!LocalWriteOpen(i) PROVE Latest'
<1> DEFINE f == IF D!Inflight = 0 THEN D!Unused ELSE D!Inflight
           new == [D!Empty EXCEPT !.mtime = D!Now]
<1>1. /\ job[i].pc = "open" /\ UNCHANGED <<upstream, dqueue, dretry>>
      /\ job' = [job EXCEPT ![i].pc = "read", ![i].fd = f, ![i].read = <<>>]
      /\ past' = [past EXCEPT !.suspect = IF D!Inflight = 0 THEN @ \ {f} ELSE @,
                              !.raced = @ \/ \E j \in Inst \ {i} : D!Transferring(j)]
      /\ IF D!Inflight # 0 THEN UNCHANGED <<inode, inflightName, newName>>
         ELSE /\ inode' = [inode EXCEPT ![f] = new]
              /\ inflightName' = IF dopt.inflight THEN f ELSE inflightName
              /\ newName' = IF dopt.inflight THEN newName ELSE f
  BY DEF D!LocalWriteOpen, D!disk
<1>2. /\ job \in [Inst -> DownJob] /\ RightRead /\ Stamps /\ dopt.inflight /\ DownType /\ OwnFile
      /\ upstream \in Nat /\ inode \in [D!File -> DownFile]
      /\ DOMAIN past = {"posted", "suspect", "raced", "misjudged", "cutShort"}
  BY CalmFacts DEF Calm, Latest
<1>3. past'.posted = past.posted
  BY <1>1, <1>2
<1>4. /\ job'[i].pc = "read" /\ job'[i].msg = job[i].msg /\ job'[i].read = <<>>
      /\ \A j \in Inst : j # i => job'[j] = job[j]
  BY <1>1, <1>2 DEF DownJob
<1>5. Stamps'
  <2>1. CASE inflightName # 0
    BY <1>1, <1>2, <1>3, <1>4, <2>1, StampsRest DEF D!Inflight
  <2>2. CASE inflightName = 0
    <3>1. f = D!Unused /\ f \in D!File /\ f # newName
      BY <1>2, <2>2, RoomForAFile DEF D!Inflight, D!InUse
    <3>2. /\ inflightName' = f /\ newName' = newName /\ inode' = [inode EXCEPT ![f] = new]
      BY <1>1, <1>2, <2>2 DEF D!Inflight
    <3>3. inode'[f].mtime = 2 * upstream + 1
      BY <1>2, <3>1, <3>2 DEF D!Empty, D!Now
    <3>4. newName # 0 => inode'[newName] = inode[newName]
      BY <1>2, <3>1, <3>2 DEF DownType, D!File
    <3>5. WriteTime(inflightName)'
      BY <1>2, <3>2, <3>3 DEF WriteTime
    <3> QED BY <1>1, <1>3, <1>4, <3>2, <3>4, <3>5, StampsStay
  <2> QED BY <2>1, <2>2
<1>6. newName' = newName
  BY <1>1, <1>2
<1>7. \A j \in Inst : job'[j].pc = "attributes" => newName' # 0
  BY <1>2, <1>4, <1>6 DEF RightRead
<1> QED BY <1>1, <1>3, <1>4, <1>5, <1>7, LatestGoesOn

(* A step of the one that transfers: the file it writes has the time of that write. *)
LEMMA LatestWrites ==
    ASSUME Calm, NEW i \in Inst, job[i].pc = "read", \A j \in Inst : j # i => job'[j] = job[j],
           job'[i].pc \in {"read", "length"}, job'[i].msg = job[i].msg,
           job'[i].read \in {job[i].read, Append(job[i].read, upstream)},
           \A f \in D!File : f # job[i].fd => inode'[f] = inode[f],
           inode'[job[i].fd].mtime = D!Now, past'.posted = past.posted,
           UNCHANGED <<inflightName, newName, upstream, dqueue, dretry>>
    PROVE  Latest'
<1>1. Writing(i) /\ Alone /\ DownInv
  BY DEF Writing, Calm, Undisturbed
<1>2. /\ job[i].fd # newName /\ inflightName \in {0, job[i].fd} /\ DownType /\ RightRead
      /\ upstream \in Nat
  BY <1>1, WriterFacts, CalmFacts DEF Calm, Latest
<1>3. Stamps'
  <2>1. inflightName' # 0 => WriteTime(inflightName)'
    BY <1>2 DEF WriteTime, D!Now
  <2>2. newName # 0 => inode'[newName] = inode[newName]
    BY <1>2 DEF DownType, D!File
  <2> QED BY <2>1, <2>2, StampsStay
<1>4. \A j \in Inst : job'[j].pc = "attributes" => newName' # 0
  BY <1>2 DEF RightRead
<1>5. Busy(i)
  BY <1>1 DEF Busy
<1> QED BY <1>3, <1>4, <1>5, LatestGoesOn

(* A buffer is read and written, or the transfer ends or breaks off. *)
LEMMA LatestRead ==
    ASSUME Calm, NEW i \in Inst, D!ReadWrite(i) \/ D!EndGet(i) \/ D!GetBreaks(i) PROVE Latest'
<1>1. /\ job \in [Inst -> DownJob] /\ inode \in [D!File -> DownFile]
      /\ DOMAIN past = {"posted", "suspect", "raced", "misjudged", "cutShort"}
      /\ job[i].pc = "read" /\ UNCHANGED <<inflightName, newName, upstream, dqueue>>
  BY CalmFacts DEF D!ReadWrite, D!EndGet, D!GetBreaks
<1>2. job[i].fd \in D!File
  <2>1. Writing(i) /\ Alone /\ DownInv
    BY <1>1 DEF Writing, Calm, Undisturbed
  <2> QED BY <2>1, WriterFacts
<1>3. CASE D!ReadWrite(i)
  <2>1. PICK c : inode' = [inode EXCEPT ![job[i].fd].content = c, ![job[i].fd].mtime = D!Now,
                                        ![job[i].fd].old = FALSE]
    BY <1>3, ZenonT(40) DEF D!ReadWrite
  <2>2. /\ job' = [job EXCEPT ![i].read = Append(@, upstream)] /\ dretry' = dretry
        /\ past' = IF upstream = job[i].msg THEN past
                   ELSE [past EXCEPT !.suspect = @ \cup {job[i].fd}]
    BY <1>3 DEF D!ReadWrite
  <2>3. inode'[job[i].fd].mtime = D!Now /\ \A f \in D!File : f # job[i].fd => inode'[f] = inode[f]
    BY <1>1, <1>2, <2>1 DEF DownFile
  <2>4. /\ job'[i].pc = "read" /\ job'[i].msg = job[i].msg
        /\ job'[i].read = Append(job[i].read, upstream) /\ \A j \in Inst : j # i => job'[j] = job[j]
    BY <1>1, <2>2 DEF DownJob
  <2>5. past'.posted = past.posted
    BY <1>1, <2>2
  <2> QED BY <1>1, <2>2, <2>3, <2>4, <2>5, LatestWrites, SMTT(40)
<1>4. CASE D!LocalWriteClose(i) /\ UNCHANGED past
  <2>1. /\ inode' = [inode EXCEPT ![job[i].fd].content = D!Truncated(i), ![job[i].fd].mtime = D!Now]
        /\ job' = [job EXCEPT ![i].pc = "length"] /\ dretry' = dretry
    BY <1>4 DEF D!LocalWriteClose, D!GoTo
  <2>2. inode'[job[i].fd].mtime = D!Now /\ \A f \in D!File : f # job[i].fd => inode'[f] = inode[f]
    BY <1>1, <1>2, <2>1 DEF DownFile
  <2>3. /\ job'[i].pc = "length" /\ job'[i].msg = job[i].msg
        /\ job'[i].read = job[i].read /\ \A j \in Inst : j # i => job'[j] = job[j]
    BY <1>1, <2>1 DEF DownJob
  <2> QED BY <1>1, <1>4, <2>1, <2>2, <2>3, LatestWrites
<1>5. CASE D!FailAttempt(i) /\ UNCHANGED <<inode, past>>
  BY <1>1, <1>5, LatestFails
<1> QED BY <1>3, <1>4, <1>5, Zenon DEF D!EndGet, D!GetBreaks

(* The length is compared, the old file goes, the inflight file takes its name. *)
LEMMA LatestMoves ==
    ASSUME Calm, NEW i \in Inst, D!CheckLength(i) \/ D!RemoveOld(i) \/ D!Rename(i) PROVE Latest'
<1>1. /\ UNCHANGED <<inode, upstream, dqueue, past>> /\ job[i].pc \in {"length", "remove", "rename"}
  BY DEF D!CheckLength, D!RemoveOld, D!Rename
<1>2. Writing(i) /\ Alone /\ DownInv /\ Busy(i)
  BY <1>1 DEF Writing, Busy, Calm, Undisturbed
<1>3. /\ job \in [Inst -> DownJob] /\ RightRead /\ Stamps /\ dopt.inflight /\ OneWriter /\ AsRead
      /\ inflightName \in {0, job[i].fd} /\ (\A j \in Inst : j # i => ~Busy(j)) /\ DownType
  BY <1>2, WriterFacts, CalmFacts DEF Calm, Latest
<1>4. ASSUME NEW pc \in {"remove", "rename", "attributes"}, D!GoTo(i, pc)
      PROVE  /\ job'[i].pc = pc /\ job'[i].msg = job[i].msg /\ job'[i].read = job[i].read
             /\ \A j \in Inst : j # i => job'[j] = job[j] /\ job'[j].pc # "attributes"
  BY <1>3, <1>4 DEF D!GoTo, DownJob, Busy
<1>5. ASSUME NEW pc \in {"remove", "rename"}, D!GoTo(i, pc), newName' \in {0, newName},
             inflightName' = inflightName, dretry' = dretry
      PROVE  Latest'
  <2>1. Stamps'
    BY <1>1, <1>4, <1>5, StampsRest
  <2> QED BY <1>1, <1>2, <1>4, <1>5, <2>1, LatestGoesOn
<1>6. CASE D!CheckLength(i)
  <2>1. job[i].pc = "length" /\ newName' = newName
    BY <1>6 DEF D!CheckLength
  <2>2. CASE D!LengthOK(i)
    BY <1>3, <1>5, <1>6, <2>1, <2>2 DEF D!CheckLength
  <2>3. CASE ~D!LengthOK(i)
    <3>1. inflightName' = 0
      BY <1>3, <1>6, <2>3 DEF D!CheckLength
    <3>2. CASE D!FailAttempt(i)
      BY <1>1, <2>1, <3>1, <3>2, LatestFails
    <3>3. CASE /\ D!Finish(i) /\ dretry' = dretry
               /\ upstream > job[i].msg \/ dopt.size[upstream] = Len(job[i].read)
      <4>1. job[i].msg # upstream
        <5>1. upstream \in Nat /\ ~(upstream > upstream)
          BY CalmFacts
        <5> QED BY <2>3, <3>3, <5>1 DEF D!LengthOK
      <4> QED BY <1>1, <2>1, <3>1, <3>3, <4>1, LatestEnds
    <3> QED BY <1>6, <2>3, <3>2, <3>3 DEF D!CheckLength
  <2> QED BY <2>2, <2>3
<1>7. CASE D!RemoveOld(i)
  BY <1>5, <1>7 DEF D!RemoveOld
<1>8. CASE D!Rename(i)
  <2>1. CASE inflightName = 0
    BY <1>1, <1>8, <2>1, LatestFails DEF D!Rename
  <2>2. CASE inflightName # 0
    <3>1. /\ newName' = job[i].fd /\ inflightName' = 0 /\ D!GoTo(i, "attributes") /\ dretry' = dretry
          /\ job[i].pc = "rename" /\ inflightName = job[i].fd
      BY <1>3, <1>8, <2>2 DEF D!Rename
    <3>2. /\ inode[job[i].fd].content = job[i].read /\ Len(job[i].read) = dopt.size[job[i].msg]
      BY <1>3, <3>1 DEF AsRead
    <3>3. WriteTime(job[i].fd)
      BY <1>3, <2>2, <3>1 DEF Stamps
    <3>4. Stamps'
      <4>1. WriteTime(newName)'
        BY <1>1, <3>1, <3>3 DEF WriteTime
      <4>2. job'[i].pc = "attributes" /\ job'[i].read = inode'[newName'].content
        BY <1>1, <1>4, <3>1, <3>2
      <4> QED BY <3>1, <4>1, <4>2 DEF Stamps, Stamped
    <3>5. newName' # 0
      BY <2>2, <3>1
    <3> QED BY <1>1, <1>2, <1>4, <3>1, <3>2, <3>4, <3>5, LatestGoesOn
  <2> QED BY <2>1, <2>2
<1> QED BY <1>6, <1>7, <1>8

(* The identity and the time of the version announced are stored, and it is posted. *)
LEMMA LatestAttributes ==
    ASSUME Calm, NEW i \in Inst, D!SetLocalFileAttributes(i) PROVE Latest'
<1>1. /\ job \in [Inst -> DownJob] /\ inode \in [D!File -> DownFile] /\ DownType /\ OwnFile
      /\ DOMAIN past = {"posted", "suspect", "raced", "misjudged", "cutShort"} /\ OneWriter
      /\ Versions /\ RightRead /\ Stamps /\ D!Version' = D!Version /\ DownPast
      /\ job[i].msg \in D!Version /\ job[i].read \in Seq(D!Version)
      /\ (\A v : D!Whole(v)' = D!Whole(v))
  BY CalmFacts DEF Calm, Latest
<1>2. job[i].pc = "attributes" /\ newName # 0
  BY <1>1 DEF D!SetLocalFileAttributes, RightRead
<1>3. /\ D!Finish(i) /\ UNCHANGED <<inflightName, newName, upstream, dqueue, dretry>>
      /\ inode' = [inode EXCEPT ![newName].identity = job[i].read,
                                ![newName].mtime = D!Mtime(job[i].msg)]
      /\ past' = [past EXCEPT !.posted = @ \cup {job[i].read}]
  BY <1>2 DEF D!SetLocalFileAttributes
<1>4. /\ past'.posted = past.posted \cup {job[i].read}
      /\ \A j \in Inst : j # i => job'[j] = job[j] /\ ~Busy(j)
      /\ job'[i].pc = "idle" /\ job'[i].msg = 1
  BY <1>1, <1>2, <1>3 DEF D!Finish, D!NoJob, OneWriter, Busy
<1>5. job[i].msg = upstream => job[i].read = D!Whole(upstream)
  <2> SUFFICES ASSUME job[i].msg = upstream PROVE job[i].read = D!Whole(upstream)
    OBVIOUS
  <2>1. /\ Len(job[i].read) = dopt.size[upstream]
        /\ \A k \in 1 .. Len(job[i].read) : job[i].read[k] = upstream
    BY <1>1, <1>2 DEF RightRead, Busy
  <2>2. job[i].read = [k \in 1 .. Len(job[i].read) |-> job[i].read[k]]
    BY <1>1
  <2> QED BY <2>1, <2>2 DEF D!Whole
<1>6. Versions'
  <2>1. 1 <= upstream
    BY CalmFacts, VersionFacts
  <2> QED BY <1>1, <1>3, <1>4, <2>1 DEF Versions
<1>7. RightRead'
  BY <1>4 DEF RightRead, Busy, Writing
<1>8. Stamps'
  <2>1. newName \in D!File /\ newName # inflightName
    BY <1>1, <1>2 DEF DownType, D!File, OwnFile
  <2>2. /\ inode'[newName].identity = job[i].read /\ inode'[newName].mtime = D!Mtime(job[i].msg)
        /\ inflightName # 0 => inode'[inflightName] = inode[inflightName]
    BY <1>1, <1>3, <2>1 DEF DownFile, DownType, D!File
  <2>3. inflightName' # 0 => WriteTime(inflightName)'
    BY <1>1, <1>3, <2>2 DEF Stamps, WriteTime
  <2>4. Stamped'
    <3>1. job[i].msg <= upstream /\ job[i].read \in past'.posted
      BY <1>1, <1>4 DEF Versions
    <3> QED BY <1>1, <1>3, <1>5, <2>2, <3>1 DEF Stamped, D!Mtime
  <2> QED BY <2>3, <2>4 DEF Stamps
<1>9. OnTheWay'
  <2>1. Underway(i) => job[i].read = D!Whole(upstream)
    BY <1>2, <1>5 DEF Underway
  <2>2. Underway(i) => OnTheWay'
    BY <1>1, <1>3, <1>4, <2>1 DEF OnTheWay
  <2> QED BY <1>3, <1>4, <2>2, OnTheWayStays
<1> QED BY <1>6, <1>7, <1>8, <1>9 DEF Latest

(* A killed instance's message is delivered again. *)
LEMMA LatestKill ==
    ASSUME Calm, NEW i \in Inst, D!Kill(i) PROVE Latest'
<1>1. /\ job \in [Inst -> DownJob] /\ DOMAIN past = {"posted", "suspect", "raced", "misjudged", "cutShort"}
      /\ Versions /\ RightRead /\ D!Version' = D!Version /\ job[i].msg \in D!Version
      /\ \A j \in Inst : job'[j].pc # "off"
  BY CalmFacts DEF Calm, Latest
<1>2. /\ job[i].pc \notin {"off", "idle"} /\ D!Finish(i) /\ dqueue' = dqueue \cup {job[i].msg}
      /\ UNCHANGED <<inode, inflightName, newName, upstream, dretry>>
      /\ past' = [past EXCEPT !.cutShort = @ \/ job[i].pc = "attributes"
                                               \/ (job[i].fd # 0 /\ job[i].fd = newName)]
  BY DEF D!Kill, D!disk
<1>3. past'.posted = past.posted /\ job[i].pc # "attributes"
  BY <1>1, <1>2 DEF Calm, Undisturbed
<1>4. job'[i].pc = "idle" /\ job'[i].msg = 1 /\ \A j \in Inst : j # i => job'[j] = job[j]
  BY <1>1, <1>2 DEF D!Finish, D!NoJob
<1>5. Versions'
  <2>1. 1 <= upstream /\ job[i].msg <= upstream
    BY CalmFacts, VersionFacts, <1>1 DEF Versions
  <2> QED BY <1>1, <1>2, <1>4, <2>1 DEF Versions
<1>6. RightRead'
  BY <1>1, <1>2, <1>4 DEF RightRead, Busy, Writing, Calm
<1>7. Stamps'
  BY <1>2, <1>3, <1>4, StampsRest
<1>8. OnTheWay'
  <2>1. Underway(i) => OnTheWay'
    BY <1>2, <1>3 DEF Underway, OnTheWay
  <2> QED BY <1>2, <1>3, <1>4, <2>1, OnTheWayStays
<1> QED BY <1>5, <1>6, <1>7, <1>8 DEF Latest

(* Time passes; the next version is written upstream, and announced. *)
LEMMA LatestOthers ==
    ASSUME Calm, D!Age \/ D!UpstreamWrite \/ UNCHANGED dVars PROVE Latest'
<1>1. /\ UNCHANGED <<job, inflightName, newName, dretry, past>>
      /\ inode' = inode \/ (inflightName # 0 /\ inode' = [inode EXCEPT ![inflightName].old = TRUE])
      /\ \/ upstream' = upstream /\ dqueue' = dqueue
         \/ upstream' = upstream + 1 /\ dqueue' = dqueue \cup {upstream + 1}
  BY DEF D!Age, D!UpstreamWrite, dVars, D!disk
<1>2. /\ Versions /\ RightRead /\ Stamps /\ OnTheWay /\ D!Version' = D!Version /\ DownPast
      /\ upstream \in Nat /\ inode \in [D!File -> DownFile] /\ DownType /\ upstream' \in D!Version
      /\ (\A v : D!Whole(v)' = D!Whole(v)) /\ \A i \in Inst : job[i].msg \in D!Version
  <2>1. DownType'
    BY DEF Calm, DownInv, Undisturbed
  <2> QED BY <2>1, CalmFacts DEF Calm, Latest, DownType
<1>3. D!Version \subseteq Nat
  BY <1>2, VersionFacts
<1>4. Versions'
  <2>1. \A i \in Inst : job[i].msg <= upstream'
    BY <1>1, <1>2, <1>3 DEF Versions
  <2>2. \A i \in Inst : \A m \in dretry[i] : m <= upstream'
    BY <1>1, <1>2, <1>3 DEF Versions
  <2>3. dqueue' \subseteq D!Version /\ \A m \in dqueue' : m <= upstream'
    BY <1>1, <1>2, <1>3 DEF Versions
  <2> QED BY <1>1, <1>2, <2>1, <2>2, <2>3 DEF Versions
<1>5. RightRead'
  <2>1. ASSUME NEW i \in Inst, job[i].msg = upstream' PROVE upstream' = upstream
    BY <1>1, <1>2, <2>1 DEF Versions
  <2> QED BY <1>1, <1>2, <2>1 DEF RightRead, Busy, Writing, Calm
<1>6. \A f \in {inflightName, newName} : f # 0 =>
         /\ inode'[f].mtime = inode[f].mtime /\ inode'[f].identity = inode[f].identity
         /\ inode'[f].content = inode[f].content
  <2> SUFFICES ASSUME NEW f \in {inflightName, newName}, f # 0
               PROVE  /\ inode'[f].mtime = inode[f].mtime /\ inode'[f].identity = inode[f].identity
                      /\ inode'[f].content = inode[f].content
    OBVIOUS
  <2>1. f \in D!File /\ inode[f] \in DownFile
    BY <1>2 DEF DownType, D!File
  <2>2. CASE inode' = [inode EXCEPT ![inflightName].old = TRUE]
    BY <1>2, <2>1, <2>2 DEF DownFile
  <2> QED BY <1>1, <2>2
<1>7. Stamps'
  <2>1. inflightName' # 0 => WriteTime(inflightName)'
    BY <1>1, <1>2, <1>6 DEF Stamps, WriteTime
  <2>2. CASE upstream' = upstream
    BY <1>1, <1>6, <2>1, <2>2, StampsStay
  <2>3. CASE upstream' = upstream + 1
    <3>1. ASSUME newName # 0 PROVE Stamped'
      <4>1. CASE WriteTime(newName) /\ \E i \in Inst : job[i].pc = "attributes" /\ job[i].read = inode[newName].content
        <5>1. WriteTime(newName)'
          BY <1>1, <1>6, <3>1, <4>1 DEF WriteTime
        <5> QED BY <1>1, <1>6, <3>1, <4>1, <5>1 DEF Stamped
      <4>2. CASE \E w \in D!Version :
                   /\ w <= upstream /\ inode[newName].mtime = D!Mtime(w)
                   /\ inode[newName].identity \in past.posted
        <5>1. PICK w \in D!Version :
                   /\ w <= upstream /\ inode[newName].mtime = D!Mtime(w)
                   /\ inode[newName].identity \in past.posted
          BY <4>2
        <5>2. w <= upstream' /\ w # upstream'
          BY <1>2, <1>3, <2>3, <5>1
        <5>3. inode'[newName'].mtime = D!Mtime(w)' /\ inode'[newName'].identity \in past'.posted
          BY <1>1, <1>6, <3>1, <5>1 DEF D!Mtime
        <5> QED BY <1>2, <5>2, <5>3 DEF Stamped
      <4> QED BY <1>2, <3>1, <4>1, <4>2 DEF Stamps, Stamped
    <3> QED BY <1>1, <2>1, <3>1 DEF Stamps
  <2> QED BY <1>1, <2>2, <2>3
<1>8. OnTheWay'
  <2>1. CASE upstream' = upstream /\ dqueue' = dqueue
    BY <1>1, <1>2, <2>1 DEF OnTheWay, Underway
  <2>2. CASE upstream' = upstream + 1 /\ dqueue' = dqueue \cup {upstream + 1}
    BY <2>2 DEF OnTheWay
  <2> QED BY <1>1, <2>1, <2>2
<1> QED BY <1>4, <1>5, <1>7, <1>8 DEF Latest

(* A step after which the download is undisturbed began with one that was. *)
LEMMA WasUndisturbed ==
    ASSUME DownInv, Undisturbed', [D!Next]_dVars PROVE Undisturbed /\ dopt' = dopt
<1>1. dopt' = dopt
  BY ZenonT(30) DEF D!Next, D!Step, D!Gather, D!CheckInflight, D!CheckLocal, D!Connect, D!LocalWriteOpen,
         D!ReadWrite, D!EndGet, D!GetBreaks, D!CheckLength, D!RemoveOld, D!Rename,
         D!SetLocalFileAttributes, D!Kill, D!Age, D!UpstreamWrite, dVars
<1>2. DownPast
  BY DEF DownInv
<1>3. \/ past' = past \/ \E x : past' = [past EXCEPT !.suspect = x]
      \/ \E x : past' = [past EXCEPT !.misjudged = @ \/ x]
      \/ \E x : past' = [past EXCEPT !.cutShort = @ \/ x]
      \/ \E x, y : past' = [past EXCEPT !.suspect = y, !.raced = @ \/ x]
      \/ \E x : past' = [past EXCEPT !.posted = x]
  BY ZenonT(60) DEF D!Next, D!Step, D!Gather, D!CheckInflight, D!CheckLocal, D!Connect, D!LocalWriteOpen,
         D!ReadWrite, D!EndGet, D!GetBreaks, D!CheckLength, D!RemoveOld, D!Rename,
         D!SetLocalFileAttributes, D!Kill, D!Age, D!UpstreamWrite, dVars
<1>4. Alone /\ ~past.misjudged /\ ~past.cutShort
  BY <1>1, <1>2, <1>3 DEF Undisturbed, Alone, DownPast
<1>5. job \in [Inst -> DownJob]
  BY <1>4 DEF DownInv, DownType
<1>6. ASSUME NEW j \in Inst, job[j].pc = "off" PROVE job'[j].pc = "off"
  <2>1. CASE D!Age \/ D!UpstreamWrite \/ UNCHANGED dVars
    BY <1>6, <2>1 DEF D!Age, D!UpstreamWrite, dVars
  <2>2. ASSUME NEW i \in Inst, D!Step(i) \/ D!GetBreaks(i) \/ D!Kill(i) PROVE job'[j] = job[j]
    <3>1. job[i].pc # "off" /\ \E r : job' = [job EXCEPT ![i] = r]
      BY <2>2 DEF D!Step, D!Gather, D!CheckInflight, D!CheckLocal, D!Connect, D!LocalWriteOpen,
         D!ReadWrite, D!EndGet, D!GetBreaks, D!CheckLength, D!RemoveOld, D!Rename,
         D!SetLocalFileAttributes, D!Kill, D!LocalWriteClose, D!GoTo, D!Finish, D!FailAttempt, D!Defer
    <3> QED BY <1>5, <1>6, <3>1
  <2> QED BY <1>6, <2>1, <2>2 DEF D!Next
<1>7. D!Running
  BY <1>6 DEF Undisturbed, D!Running
<1> QED BY <1>1, <1>4, <1>7 DEF Undisturbed

(* Every step of the instances that download, for the latest version. *)
LEMMA LatestStep ==
    ASSUME DownInv, LatestInv, [D!Next]_dVars PROVE LatestInv'
<1> SUFFICES ASSUME Undisturbed' PROVE Latest'
  BY DEF LatestInv
<1>1. Calm
  BY DownStep, WasUndisturbed DEF Calm, LatestInv
<1>2. CASE D!Age \/ D!UpstreamWrite \/ UNCHANGED dVars
  BY <1>1, <1>2, LatestOthers
<1>3. ASSUME NEW i \in Inst, D!Step(i) \/ D!GetBreaks(i) \/ D!Kill(i) PROVE Latest'
  BY <1>1, <1>3, LatestTake, LatestCheck, LatestOpen, LatestRead, LatestMoves, LatestAttributes,
     LatestKill DEF D!Step
<1> QED BY <1>2, <1>3 DEF D!Next

(* The latest version is announced downstream, unless a kill came between the rename and the post,
   two instances transferred the path at once, or the time of a local write hid it. *)
THEOREM LatestAnnounced == Spec => []LatestPosted
<1>1. Init => LatestInv
  <2>1. ASSUME NEW pc \in {"off", "idle"}, D!InitAs(pc), DownPast PROVE LatestInv
    <3>1. /\ job = [i \in Inst |-> [D!NoJob EXCEPT !.pc = pc]] /\ inflightName = 0 /\ newName = 0
          /\ upstream = 1 /\ dretry = [i \in Inst |-> {}] /\ dqueue = IF pc = "off" THEN {} ELSE {1}
      BY <2>1 DEF D!InitAs
    <3>2. \A i \in Inst : job[i].pc = pc /\ job[i].msg = 1
      BY <3>1 DEF D!NoJob
    <3>3. 1 \in D!Version
      BY <2>1, VersionFacts
    <3>4. ASSUME Undisturbed PROVE Latest
      <4>1. pc = "idle"
        BY <3>2, <3>4, DownloadAssumption DEF Undisturbed, D!Running
      <4>2. Versions
        BY <3>1, <3>2, <3>3 DEF Versions
      <4>3. RightRead /\ Stamps
        BY <3>1, <3>2, <4>1 DEF RightRead, Busy, Writing, Stamps
      <4>4. OnTheWay
        BY <3>1, <4>1 DEF OnTheWay
      <4> QED BY <4>2, <4>3, <4>4 DEF Latest
    <3> QED BY <3>4 DEF LatestInv
  <2>2. ASSUME NEW pc \in {"off", "idle"}, D!InitAs(pc) PROVE DownPast
    BY <2>2, DownloadAssumption DEF D!InitAs, DownPast
  <2> QED BY <2>1, <2>2 DEF Init
<1>2. DownInv /\ LatestInv /\ [Next]_tVars => LatestInv'
  BY TransferSteps, LatestStep
<1>3. DownInv /\ LatestInv => LatestPosted
  <2> SUFFICES ASSUME DownInv, LatestInv, D!Settled, D!Running, dopt.inflight,
                      ~past.raced, ~past.misjudged, ~past.cutShort
               PROVE  D!Whole(upstream) \in past.posted
    BY DEF LatestPosted, D!LatestPosted
  <2>1. OnTheWay
    BY DEF LatestInv, Latest, Undisturbed, Alone
  <2>2. dqueue = {} /\ \A i \in Inst : job[i].pc \in {"off", "idle"} /\ dretry[i] = {}
    BY DEF D!Settled
  <2> QED BY <2>1, <2>2 DEF OnTheWay, Underway
<1> QED BY DownInvariant, <1>1, <1>2, <1>3, PTL DEF Spec, tVars

(* What is announced downstream as done was done, and what was done is announced: the latest
   version of a download, every transfer in worklist.ok of a sender, and a file once all of its
   blocks are there. *)
THEOREM AnnouncedRight == Spec => []AnnouncedIsDone
BY ReportedIsDone, BlocksAnnounced, LatestAnnounced, PTL DEF AnnouncedIsDone

====
