------------------------------ MODULE Download ------------------------------
(***************************************************************************)
(* Downloads of one path by several instances (flow/__init__.py: the file  *)
(* part of do_download, file_should_be_downloaded, download and            *)
(* set_local_file_attributes; transfer/: the get of each protocol).  The   *)
(* instances share a local directory, the upstream file is overwritten in  *)
(* place while it is read, and every version is announced.                 *)
(***************************************************************************)
EXTENDS Naturals, FiniteSets, Sequences, SequencesExt

CONSTANTS
    Inst,           \* instances
    DownloadOptions,\* [scheme, inflight, size]: size[v] chunks in version v
    attempts,
    NIno,           \* bound: files that exist at once
    MaxDownFaults   \* bound: broken transfers and kills

VARIABLES
    dopt,
    job,        \* per instance: where do_download is, the version announced by the message
                \* at hand, the attempt, the file being written, and the chunks read
    inode,      \* files: content, mtime, cached identity, older than 300 s
    inflightName, newName,  \* the two directory entries: a file, or 0
    upstream,   \* the version upstream
    dqueue,     \* announcements at the broker
    dretry,     \* per instance: worklist.failed, kept in the retry queue
    dfaults,
    past        \* history: posted, the contents for which a message was posted on;
                \* suspect, the files with data read for an announcement that upstream had
                \* overtaken; raced: two instances transferred the path at once; misjudged:
                \* a version was rejected by the time of a local write; cutShort: killed
                \* with the file in place, before the post

dVars == <<dopt, job, inode, inflightName, newName, upstream,
           dqueue, dretry, dfaults, past>>
disk == <<inode, inflightName, newName>>

Version == 1 .. Len(dopt.size)

(* Times: a version has the one it was written at, between which lie the times a
   local file can be written at. *)
Mtime(v) == 2 * v
Now == 2 * upstream + 1

File == 1 .. NIno

(* The whole content of a version. *)
Whole(v) == [k \in 1 .. dopt.size[v] |-> v]

TypeOK ==
    /\ dopt \in DownloadOptions
    /\ job \in [Inst -> [pc : {"off", "idle", "check", "connect", "open", "read", "length",
                               "remove", "rename", "attributes"},
                     msg : Version, attempt : 1 .. attempts, fd : 0 .. NIno,
                     read : BoundedSeq(Version, 2)]]
    /\ inode \in [File -> [content : BoundedSeq(0 .. Len(dopt.size), 2), mtime : 0 .. 2 * Len(dopt.size) + 1,
                           identity : BoundedSeq(Version, 2), old : BOOLEAN]]
    /\ {inflightName, newName} \subseteq 0 .. NIno
    /\ upstream \in Version
    /\ dretry \in [Inst -> SUBSET Version]
    /\ dqueue \subseteq Version
    /\ dfaults \in 0 .. MaxDownFaults
    /\ past \in [posted : SUBSET BoundedSeq(Version, 2), suspect : SUBSET File,
                 raced : BOOLEAN, misjudged : BOOLEAN, cutShort : BOOLEAN]

-----------------------------------------------------------------------------
(* The get of each class: whether it raises when a transfer breaks off (ftp logs
   the exception and returns what it has got), whether stat can tell size and mtime of
   the file upstream, and whether it reads to the end (file reads what was
   announced). *)
SftpGet == [raises |-> TRUE, stat |-> TRUE, toEnd |-> TRUE]
FtpGet == [raises |-> FALSE, stat |-> FALSE, toEnd |-> TRUE]
HttpsGet == [raises |-> TRUE, stat |-> TRUE, toEnd |-> TRUE]
FileGet == [raises |-> TRUE, stat |-> TRUE, toEnd |-> FALSE]
S3Get == [raises |-> TRUE, stat |-> FALSE, toEnd |-> TRUE]
AzureGet == [raises |-> TRUE, stat |-> FALSE, toEnd |-> TRUE]

(* factory: the class for a scheme. *)
Protocol == [sftp |-> SftpGet, ftp |-> FtpGet, https |-> HttpsGet, file |-> FileGet,
             s3 |-> S3Get, azure |-> AzureGet]

GetRaises(scheme) == Protocol[scheme].raises
HasStat(scheme) == Protocol[scheme].stat

EndOfRead(v, n) ==
    \/ n >= dopt.size[upstream]
    \/ ~Protocol[dopt.scheme].toEnd /\ n >= dopt.size[v]

(* All of the file was read when get returns. *)
ReadsAll(scheme) == GetRaises(scheme) /\ Protocol[scheme].toEnd

-----------------------------------------------------------------------------
Fault == dfaults < MaxDownFaults /\ dfaults' = dfaults + 1

NoJob == [pc |-> "idle", msg |-> 1, attempt |-> 1, fd |-> 0, read |-> <<>>]

GoTo(i, pc) == job' = [job EXCEPT ![i].pc = pc]

Finish(i) == job' = [job EXCEPT ![i] = NoJob]

Inflight == IF dopt.inflight THEN inflightName ELSE newName

InUse == {inflightName, newName} \cup {job[i].fd : i \in Inst}

Unused == CHOOSE f \in File : f \notin InUse

Empty == [content |-> <<>>, mtime |-> 0, identity |-> <<>>, old |-> FALSE]

(* worklist.failed: to the retry queue. *)
Defer(i) == /\ dretry' = [dretry EXCEPT ![i] = @ \cup {job[i].msg}]
            /\ Finish(i)

(* download returned 0: the next attempt, or worklist.failed. *)
FailAttempt(i) ==
    IF job[i].attempt < attempts
    THEN /\ job' = [job EXCEPT ![i].pc = "connect", ![i].attempt = job[i].attempt + 1,
                               ![i].fd = 0, ![i].read = <<>>]
         /\ UNCHANGED dretry
    ELSE Defer(i)

(* An instance is given an announcement, or one of its retries.  (Files without a
   name that nobody has open are gone.) *)
Gather(i) ==
    /\ job[i].pc = "idle"
    /\ \E m \in Version :
        /\ \/ /\ m \in dqueue
              /\ dqueue' = dqueue \ {m}
              /\ UNCHANGED dretry
           \/ /\ m \in dretry[i]
              /\ dretry' = [dretry EXCEPT ![i] = @ \ {m}]
              /\ UNCHANGED dqueue
        /\ job' = [job EXCEPT ![i] = [NoJob EXCEPT !.pc = "check", !.msg = m]]
    /\ inode' = [f \in File |-> IF f \in InUse THEN inode[f] ELSE Empty]
    /\ past' = [past EXCEPT !.suspect = @ \cap InUse]
    /\ UNCHANGED <<dopt, inflightName, newName, upstream, dfaults>>

(* compute_local_checksum: the cached identity while mtime says that the file was
   not written since it was stored. *)
Announced(f) == \E v \in Version : inode[f].mtime = Mtime(v)

LocalIdentity(f) ==
    IF Announced(f) THEN inode[f].identity ELSE inode[f].content

NeverAgain(v) == FALSE

FileShouldBeDownloaded(v) ==
    \/ Len(inode[newName].content) # dopt.size[v]
    \/ /\ Mtime(v) > inode[newName].mtime
       /\ LocalIdentity(newName) # Whole(v)

(* An inflight file defers the transfer; one that is old is removed first. *)
CheckInflight(i) ==
    /\ job[i].pc = "check"
    /\ dopt.inflight /\ inflightName # 0
    /\ inflightName' = IF inode[inflightName].old THEN 0 ELSE inflightName
    /\ Defer(i)
    /\ UNCHANGED <<dopt, inode, newName, upstream, dqueue, dfaults, past>>

ByWriteTime(v) == ~Announced(newName) /\ inode[newName].content # Whole(v)

CheckLocal(i) ==
    /\ job[i].pc = "check"
    /\ ~(dopt.inflight /\ inflightName # 0)
    /\ IF newName # 0 /\ ~FileShouldBeDownloaded(job[i].msg)
       THEN /\ Finish(i)
            /\ past' = [past EXCEPT !.misjudged = @ \/ ByWriteTime(job[i].msg)]
       ELSE GoTo(i, "connect") /\ UNCHANGED past
    /\ UNCHANGED <<dopt, disk, upstream, dqueue, dretry, dfaults>>

(* connect, cd, the request itself: they work, or download returns 0. *)
Connect(i) ==
    /\ job[i].pc = "connect"
    /\ \/ GoTo(i, "open") /\ UNCHANGED <<dretry, dfaults>>
       \/ Fault /\ FailAttempt(i)
    /\ UNCHANGED <<dopt, disk, upstream, dqueue, past>>

Transferring(j) == job[j].pc \notin {"idle", "check"}

(* local_write_open: the file is made if need be, and written from its start. *)
LocalWriteOpen(i) ==
    /\ job[i].pc = "open"
    /\ LET f == IF Inflight = 0 THEN Unused ELSE Inflight IN
       /\ job' = [job EXCEPT ![i].pc = "read", ![i].fd = f, ![i].read = <<>>]
       /\ past' = [past EXCEPT !.suspect = IF Inflight = 0 THEN @ \ {f} ELSE @,
                               !.raced = @ \/ \E j \in Inst \ {i} : Transferring(j)]
       /\ IF Inflight # 0 THEN UNCHANGED disk
          ELSE /\ inode' = [inode EXCEPT ![f] = [Empty EXCEPT !.mtime = Now]]
               /\ inflightName' = IF dopt.inflight THEN f ELSE inflightName
               /\ newName' = IF dopt.inflight THEN newName ELSE f
    /\ UNCHANGED <<dopt, upstream, dqueue, dretry, dfaults>>

(* A file cut, or filled up with zeroes, to n chunks. *)
Resized(f, n) == [k \in 1 .. n |-> IF k <= Len(inode[f].content)
                                   THEN inode[f].content[k] ELSE 0]

(* read_write, write_chunk: one buffer at its place in the file. *)
ReadWrite(i) ==
    /\ job[i].pc = "read"
    /\ LET n == Len(job[i].read) + 1
           len == Len(inode[job[i].fd].content)
           new == [Resized(job[i].fd, IF n > len THEN n ELSE len) EXCEPT ![n] = upstream] IN
       /\ ~EndOfRead(job[i].msg, n - 1)
       /\ inode' = [inode EXCEPT ![job[i].fd].content = new, ![job[i].fd].mtime = Now,
                                 ![job[i].fd].old = FALSE]
       /\ job' = [job EXCEPT ![i].read = Append(@, upstream)]
       /\ past' = IF upstream = job[i].msg THEN past
                  ELSE [past EXCEPT !.suspect = @ \cup {job[i].fd}]
    /\ UNCHANGED <<dopt, inflightName, newName, upstream, dqueue, dretry, dfaults>>

NotTruncated(i) == inode[job[i].fd].content

(* local_write_close: truncated where the transfer ended, which also sets
   mtime. *)
Truncated(i) == Resized(job[i].fd, Len(job[i].read))

LocalWriteClose(i) ==
    /\ inode' = [inode EXCEPT ![job[i].fd].content = Truncated(i), ![job[i].fd].mtime = Now]
    /\ GoTo(i, "length")
    /\ UNCHANGED dretry

EndGet(i) ==
    /\ job[i].pc = "read"
    /\ EndOfRead(job[i].msg, Len(job[i].read))
    /\ LocalWriteClose(i)
    /\ UNCHANGED <<dopt, inflightName, newName, upstream, dqueue, dfaults, past>>

(* The transfer breaks off: get raises, which leaves the inflight file where it
   is, or returns the shorter length. *)
GetBreaks(i) ==
    /\ job[i].pc = "read"
    /\ Fault
    /\ IF GetRaises(dopt.scheme)
       THEN FailAttempt(i) /\ UNCHANGED inode
       ELSE LocalWriteClose(i)
    /\ UNCHANGED <<dopt, inflightName, newName, upstream, dqueue, past>>

NoLengthCheck(i) == TRUE

LengthOK(i) == Len(job[i].read) = dopt.size[job[i].msg]

(* The length is compared with the announcement.  When it differs, stat tells
   whether upstream has a newer version, or has what was received: -1, and the
   message is discarded; otherwise it is retried.  The inflight file is removed. *)
CheckLength(i) ==
    /\ job[i].pc = "length"
    /\ IF LengthOK(i)
       THEN /\ GoTo(i, IF dopt.inflight THEN "remove" ELSE "attributes")
            /\ UNCHANGED <<dretry, inflightName>>
       ELSE /\ inflightName' = IF dopt.inflight THEN 0 ELSE inflightName
            /\ IF HasStat(dopt.scheme) /\ (\/ upstream > job[i].msg
                                           \/ dopt.size[upstream] = Len(job[i].read))
               THEN /\ Finish(i)
                    /\ UNCHANGED dretry
               ELSE FailAttempt(i)
    /\ UNCHANGED <<dopt, inode, newName, upstream, dqueue, dfaults, past>>

(* isfile(new_file), remove(new_file): another instance may come between the two
   only to have it removed, which is the exception of Rename. *)
RemoveOld(i) ==
    /\ job[i].pc = "remove"
    /\ newName' = 0
    /\ GoTo(i, "rename")
    /\ UNCHANGED <<dopt, inode, inflightName, upstream, dqueue, dretry, dfaults, past>>

(* rename(new_inflight_path, new_file).  It raises when another instance took the
   inflight file away: download closes the connection and returns 0. *)
Rename(i) ==
    /\ job[i].pc = "rename"
    /\ IF inflightName = 0
       THEN FailAttempt(i) /\ UNCHANGED <<inflightName, newName>>
       ELSE /\ newName' = inflightName
            /\ inflightName' = 0
            /\ GoTo(i, "attributes")
            /\ UNCHANGED dretry
    /\ UNCHANGED <<dopt, inode, upstream, dqueue, dfaults, past>>

(* set_local_file_attributes caches the checksum of what was read and sets mtime,
   of the file that has the name by now; the message is then in worklist.ok. *)
SetLocalFileAttributes(i) ==
    /\ job[i].pc = "attributes"
    /\ IF newName = 0
       THEN /\ FailAttempt(i)
            /\ inflightName' = IF dopt.inflight THEN 0 ELSE inflightName
            /\ UNCHANGED <<inode, past>>
       ELSE /\ inode' = [inode EXCEPT ![newName].identity = job[i].read,
                                      ![newName].mtime = Mtime(job[i].msg)]
            /\ past' = [past EXCEPT !.posted = @ \cup {job[i].read}]
            /\ Finish(i)
            /\ UNCHANGED <<dretry, inflightName>>
    /\ UNCHANGED <<dopt, newName, upstream, dqueue, dfaults>>

(* The process is killed, and the broker delivers its message again. *)
Kill(i) ==
    /\ job[i].pc \notin {"off", "idle"}
    /\ Fault
    /\ Finish(i)
    /\ dqueue' = dqueue \cup {job[i].msg}
    /\ past' = [past EXCEPT !.cutShort = @ \/ job[i].pc = "attributes"
                                                \/ (job[i].fd # 0 /\ job[i].fd = newName)]
    /\ UNCHANGED <<dopt, disk, upstream, dretry>>

(* 300 seconds pass without anyone writing the inflight file. *)
Age ==
    /\ inflightName # 0
    /\ ~inode[inflightName].old
    /\ \A i \in Inst : job[i].fd # inflightName
    /\ inode' = [inode EXCEPT ![inflightName].old = TRUE]
    /\ UNCHANGED <<dopt, job, inflightName, newName, upstream, dqueue, dretry, dfaults, past>>

(* The next version is written upstream, and announced. *)
UpstreamWrite ==
    /\ job[CHOOSE i \in Inst : TRUE].pc # "off"
    /\ upstream < Len(dopt.size)
    /\ upstream' = upstream + 1
    /\ dqueue' = dqueue \cup {upstream + 1}
    /\ UNCHANGED <<dopt, job, disk, dretry, dfaults, past>>

InitAs(pc) ==
    /\ dopt \in IF pc = "off" THEN {CHOOSE o \in DownloadOptions : TRUE} ELSE DownloadOptions
    /\ job = [i \in Inst |-> [NoJob EXCEPT !.pc = pc]]
    /\ inode = [f \in File |-> Empty]
    /\ inflightName = 0 /\ newName = 0
    /\ upstream = 1
    /\ dqueue = IF pc = "off" THEN {} ELSE {1}
    /\ dretry = [i \in Inst |-> {}]
    /\ dfaults = 0
    /\ past = [posted |-> {}, suspect |-> {}, raced |-> FALSE, misjudged |-> FALSE,
               cutShort |-> FALSE]

Init == InitAs("idle")

Step(i) == \/ Gather(i) \/ CheckInflight(i) \/ CheckLocal(i) \/ Connect(i)
           \/ LocalWriteOpen(i) \/ ReadWrite(i) \/ EndGet(i) \/ CheckLength(i)
           \/ RemoveOld(i) \/ Rename(i) \/ SetLocalFileAttributes(i)

Next == (\E i \in Inst : Step(i) \/ GetBreaks(i) \/ Kill(i)) \/ Age \/ UpstreamWrite

(* An instance runs, a leftover grows old. *)
Fairness == (\A i \in Inst : WF_dVars(Step(i))) /\ WF_dVars(Age)

Spec == Init /\ [][Next]_dVars

FairSpec == Spec /\ Fairness

-----------------------------------------------------------------------------
(* With inflight the name a reader looks for never holds part of a version, broken
   transfers and kills included: what is there is complete, unless two instances
   transferred it at once (the check for an inflight file is not atomic with its
   creation) or the version was replaced before it was read. *)
VisibleIsWhole ==
    dopt.inflight /\ newName # 0 /\ newName \notin past.suspect /\ ~past.raced =>
        \E v \in Version : inode[newName].content = Whole(v)

Running == \A i \in Inst : job[i].pc # "off"

Settled == /\ dqueue = {}
           /\ \A i \in Inst : job[i].pc \in {"off", "idle"} /\ dretry[i] = {}

(* When every announcement has been dealt with the local file is the version
   upstream, whatever was retried, killed, deferred or overtaken on the way, unless two
   instances transferred it at once or the time of a local write hid it; by ftp and
   file an outdated announcement can put the start of a newer version in place. *)
MirroredWhenSettled ==
    Settled /\ ~past.raced /\ ~past.misjudged /\ Running =>
        /\ newName # 0
        /\ \/ inode[newName].content = Whole(upstream)
           \/ newName \in past.suspect /\ ~ReadsAll(dopt.scheme)

(* The latest version is announced downstream, unless a kill came between the
   rename and the post: the file is then in place, and the announcement that is
   delivered again is rejected as nothing new.  (Without inflight the same follows from a
   transfer discarded because upstream is newer: its data is in place.  The
   exceptions of MirroredWhenSettled apply as well.) *)
LatestPosted ==
    Settled /\ Running /\ dopt.inflight =>
        Whole(upstream) \in past.posted \/ past.raced \/ past.misjudged \/ past.cutShort

(* Every announcement is dealt with in the end, but for two exceptions: instances that
   transfer the file at once can take the inflight file from each other for ever, and
   without stat an outdated announcement is retried until it expires. *)
AllDealtWith == Settled \/ past.raced \/ ~HasStat(dopt.scheme)

Drained == []<>AllDealtWith
=============================================================================
