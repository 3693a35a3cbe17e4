----------------------------- MODULE Transfers -----------------------------
(***************************************************************************)
(* The work of a flow on files (flow/__init__.py: work): download a file,  *)
(* repeat file operations on the own disk, put blocks together, or send.   *)
(* What a configuration does is settled when it starts; the components     *)
(* that are not used are "off".                                            *)
(***************************************************************************)
EXTENDS Naturals, FiniteSets, Sequences, SequencesExt

CONSTANTS
    Inst, DownloadOptions, attempts, NIno, MaxDownFaults,
    SenderOptions, EventLists, sendAttempts, MaxSenderFaults,
    MirrorOptions, MirrorEvents, MaxMirrorFaults,
    Assembler, BlockOptions, MaxBlockFaults,
    ConnOptions, Server, RemoteDir, MaxFiles, MaxConnFaults

ASSUME DownloadAssumption ==
    /\ DownloadOptions \subseteq [scheme : {"sftp", "ftp", "https", "file", "s3", "azure"},
                                 inflight : BOOLEAN, size : Seq(Nat) \ {<<>>}]
    /\ DownloadOptions # {} /\ IsFiniteSet(Inst) /\ Inst # {}
    /\ NIno \in Nat /\ NIno >= Cardinality(Inst) + 2

ASSUME SenderAssumption ==
    /\ SenderOptions \subseteq [scheme : {"sftp", "ftp", "s3", "azure", "azuresas"},
                               inflight : {"none", "rename", "umask"}]
    /\ SenderOptions # {}
    /\ EventLists \subseteq Seq([op : {"file", "remove", "rename", "mkdir", "rmdir", "link", "hlink"},
                               name : {"f", "g", "d"}, old : {"f", "g", "d"}, v : Nat])
    /\ \A l \in EventLists : \A i \in DOMAIN l : l[i].op = "rename" => l[i].old # l[i].name

ASSUME BlockAssumption ==
    /\ BlockOptions \subseteq [blocks : Seq(Nat \ {0}), deleteManifest : BOOLEAN]
    /\ BlockOptions # {} /\ 0 \notin Assembler

ASSUME ConnectionAssumption ==
    /\ ConnOptions \subseteq [scheme : {"sftp", "ftp", "https", "s3", "azure"}, sends : BOOLEAN,
                             batch : Nat]
    /\ ConnOptions # {} /\ Server # {} /\ RemoteDir # {}

VARIABLES
    task,       \* what the configuration does
    dopt, job, inode, inflightName, newName, upstream, dqueue, dretry, dfaults, past,
    zopt, zpc, zmsg, zattempt, events, local, remote, link, zcwd, zlen, zqueue, zretry,
    zfaults, zpast, overtaken, gone,
    mopt, mpc, mevents, theirs, ours, mqueue, mretry, mfaults, listed, mpast,
    bopt, bjob, part, root, manifest, lockedBy, bversion, bqueue, bfaults, bpast,
    copt, cpc, cmsg, proto, used, cfiles, cfaults, misplaced, early

D == INSTANCE Download
S == INSTANCE Sender
M == INSTANCE Mirror
B == INSTANCE BlockReassembly
C == INSTANCE Connection

dVars == <<dopt, job, inode, inflightName, newName, upstream, dqueue, dretry, dfaults,
           past>>
zVars == <<zopt, zpc, zmsg, zattempt, events, local, remote, link, zcwd, zlen, zqueue,
           zretry, zfaults, zpast, overtaken, gone>>
mVars == <<mopt, mpc, mevents, theirs, ours, mqueue, mretry, mfaults, listed, mpast>>
bVars == <<bopt, bjob, part, root, manifest, lockedBy, bversion, bqueue, bfaults, bpast>>
cVars == <<copt, cpc, cmsg, proto, used, cfiles, cfaults, misplaced, early>>

-----------------------------------------------------------------------------
Task == {"download", "send", "mirror", "reassemble", "connect"}

Init ==
    /\ task \in Task
    /\ LET As(t) == IF task = t THEN "idle" ELSE "off" IN
       /\ D!InitAs(As("download"))
       /\ S!InitAs(As("send"))
       /\ M!InitAs(As("mirror"))
       /\ B!InitAs(As("reassemble"))
       /\ C!InitAs(As("connect"))

Downloading == task = "download" /\ D!Next /\ UNCHANGED <<task, zVars, mVars, bVars, cVars>>
Sending == task = "send" /\ S!Next /\ UNCHANGED <<task, dVars, mVars, bVars, cVars>>
Mirroring == task = "mirror" /\ M!Next /\ UNCHANGED <<task, dVars, zVars, bVars, cVars>>
Reassembling == task = "reassemble" /\ B!Next /\ UNCHANGED <<task, dVars, zVars, mVars, cVars>>
Connecting == task = "connect" /\ C!Next /\ UNCHANGED <<task, dVars, zVars, mVars, bVars>>

Next == Downloading \/ Sending \/ Mirroring \/ Reassembling \/ Connecting

Fairness == D!Fairness /\ S!Fairness /\ M!Fairness /\ B!Fairness

Spec == Init /\ [][Next]_<<task, dVars, zVars, mVars, bVars, cVars>> /\ Fairness

-----------------------------------------------------------------------------
TypeOK == task \in Task /\ D!TypeOK /\ S!TypeOK /\ M!TypeOK /\ B!TypeOK
          /\ C!TypeOK

(* See Download: the name a reader looks for never holds part of a version. *)
VisibleIsWhole == D!VisibleIsWhole

(* See Download: when all is dealt with the file is the one upstream. *)
MirroredWhenSettled == D!MirroredWhenSettled

(* See Download: the latest version is announced downstream. *)
LatestPosted == D!LatestPosted

(* See Sender: what is in worklist.ok was carried out on the server. *)
OkMeansDone == S!OkMeansDone

(* See Sender: the final name on the server never holds part of an upload. *)
SentIsWhole == S!SentIsWhole

(* See Sender: the server ends up with what there is locally. *)
SentInOrder == S!SentInOrder

(* See Sender: a file that the rename of an upload has deleted is owed until it is back. *)
GapIsOwed == S!GapIsOwed

(* See Mirror: when all was worked off the trees are the same. *)
TreesEqual == M!TreesEqual

(* See BlockReassembly: a file announced as complete is all of one version. *)
CompleteIsWhole == B!CompleteIsWhole

(* See BlockReassembly: no block is announced, and no file twice. *)
OnlyWholeFiles == B!OnlyWholeFiles

(* See BlockReassembly: a file is announced once its blocks are there. *)
WholeFilePosted == B!WholeFilePosted

(* See Connection: every file goes where its own message says. *)
RightPlace == C!RightPlace

(* See Connection: a sender keeps its connection for a batch. *)
KeptForABatch == C!KeptForABatch

(* Every message is dealt with in the end, by each of the components, but for those
   that are named there as retried until they expire. *)
TransfersEnd == []<>(D!AllDealtWith /\ S!AllSent /\ M!AllMirrored /\ B!BSettled)

(* Whoever looks at a place sees nothing or a whole version: of a download, of an upload, and
   of a file that comes in blocks (inflight, .Part files). *)
WholeFiles == VisibleIsWhole /\ SentIsWhole /\ CompleteIsWhole /\ OnlyWholeFiles

(* When all messages were dealt with, what is there is what was there upstream. *)
TreesRight == MirroredWhenSettled /\ SentInOrder /\ TreesEqual

(* What is announced downstream as done was done, and what was done is announced; but for the
   operations that each protocol reports without, and the kills that LatestPosted and
   WholeFilePosted name. *)
AnnouncedIsDone == LatestPosted /\ OkMeansDone /\ WholeFilePosted

(* One connection serves many messages, and each message gets the server and the directory
   that it names. *)
ConnectionRight == RightPlace /\ KeptForABatch
=============================================================================
