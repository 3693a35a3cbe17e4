---------------------------- MODULE FileIdentity ----------------------------
(***************************************************************************)
(* The checksum of a file that is announced (sarracenia/__init__.py:       *)
(* computeIdentity, putContentInline; filemetadata.py; identity/;          *)
(* flowcb/gather/file.py: post_file, post_file_in_parts).  It is kept in   *)
(* the extended attributes of the file, with the time the file was         *)
(* modified, for whoever announces the file next.  Several processes       *)
(* announce a file that is being rewritten.                                *)
(* A file is a sequence of units, [version, place]; a checksum is what     *)
(* was read to compute it.                                                 *)
(***************************************************************************)
EXTENDS Naturals, FiniteSets, Sequences, SequencesExt, TLC

CONSTANTS
    Poster,         \* the processes that announce the file
    IdOptions,      \* [method, blockSize, inline] of each of them
    NUnits,         \* the length of the file
    bufSize,        \* what one read gets, in units
    MaxWrites, MaxPosts, MaxIdFaults    \* bounds

VARIABLES
    iopt, ipc,
    file,           \* the contents, and when they were written
    xattr,          \* the attributes: a function on a subset of {"mtime", "identity"}
    now, writes, posts, idFaults,
    msg,            \* of a poster: the message it makes
    meta,           \* of a poster: its FileMetadata, [x, todo], todo what is still to be written
    sofar,          \* of a poster: [at, sum, blocks], its place in the file and what it has read
    disturbed,      \* history: of a poster, whether the file changed since it looked at it
    together,       \* history: of a poster, whether another one was at work meanwhile
    misled,         \* history: the attributes cannot be trusted any more
    mispaired,      \* history: a time is written beside a checksum that is not of the whole file
                    \* as it was then
    announcement    \* the last message posted

iVars == <<iopt, ipc, file, xattr, now, writes, posts, idFaults, msg, meta, sofar, disturbed,
           together, misled, mispaired, announcement>>

Units(version) == [i \in 1 .. NUnits |-> <<version, i>>]

NoAttributes == <<>>
Nothing == [mtime |-> 0, blocks |-> <<>>, identity |-> <<>>, content |-> <<>>]
Idle == [x |-> NoAttributes, todo |-> {}]
Start == [at |-> 0, sum |-> <<>>, blocks |-> <<>>]

Opt(p) == iopt[p]
Sum(method, value) == [method |-> method, value |-> value]

(* FileMetadata.set, and setxattr of the file. *)
SetAttr(x, name, value) ==
    [k \in DOMAIN x \cup {name} |-> IF k = name THEN value ELSE x[k]]

(* The methods that read the file. *)
Calculated == {"md5", "sha512"}
Methods == Calculated \cup {"none", "md5name", "cod", "arbitrary"}

IdentityConstants ==
    /\ NUnits \in Nat /\ bufSize \in Nat \ {0}
    /\ IdOptions # {}
    /\ IdOptions \subseteq [Poster -> [method : Methods, blockSize : Nat, inline : BOOLEAN]]

ASSUME IdentityAssumption == IdentityConstants

-----------------------------------------------------------------------------
(* Someone writes the file: in place, which keeps the attributes, or by renaming another one
   to it, which does not.  Two writes in the same tick of the clock leave the same mtime. *)
WriteFile ==
    /\ \E p \in Poster : ipc[p] # "off"
    /\ writes < MaxWrites
    /\ \E t \in {now, now + 1} :
           /\ file' = [units |-> Units(writes + 1), mtime |-> t]
           /\ now' = t
           /\ misled' = (misled \/ t = file.mtime)
    /\ xattr' \in {xattr, NoAttributes}
    /\ writes' = writes + 1
    /\ disturbed' = [p \in Poster |-> ipc[p] # "idle"]
    /\ UNCHANGED <<iopt, ipc, posts, idFaults, msg, meta, sofar, together, mispaired,
                   announcement>>

-----------------------------------------------------------------------------
(* set_blockSize: 0 is more than any file here, 1 the whole file. *)
set_blockSize(setting) == IF setting \in {0, 1} THEN NUnits ELSE setting

InParts(p) == set_blockSize(Opt(p).blockSize) < NUnits

Others(p) == {q \in Poster \ {p} : ipc[q] # "idle"}

(* post_file: fromFileInfo looks at the file. *)
PostFile(p) ==
    /\ ipc[p] = "idle" /\ posts < MaxPosts
    /\ msg' = [msg EXCEPT ![p] = [Nothing EXCEPT !.mtime = file.mtime]]
    /\ disturbed' = [disturbed EXCEPT ![p] = FALSE]
    /\ sofar' = [sofar EXCEPT ![p] = Start]
    /\ together' = [q \in Poster |-> IF q = p THEN Others(p) # {}
                                     ELSE together[q] \/ ipc[q] # "idle"]
    /\ misled' = (misled \/ \E q \in Others(p) : meta[q].todo # {})
    /\ posts' = posts + 1
    /\ ipc' = [ipc EXCEPT ![p] = "identify"]
    /\ UNCHANGED <<iopt, file, xattr, now, writes, idFaults, meta, mispaired, announcement>>

(* Mutant of NotTooOld: any checksum in the attributes will do. *)
AnyAge(x, mtime) == TRUE

(* What is in the attributes is still about the file, as far as the times tell. *)
NotTooOld(x, mtime) == x.mtime >= mtime

(* The checksum in the attributes can be had instead. *)
Cached(p, x) ==
    /\ ~InParts(p)
    /\ {"identity", "mtime"} \subseteq DOMAIN x
    /\ NotTooOld(x, msg[p].mtime)
    /\ x.identity.method = Opt(p).method
    /\ Opt(p).method # "cod"             \* the attributes do not have the rest of its name

(* The time that goes with the checksum: when the file was looked at. *)
Remembered(p, x) == SetAttr(x, "mtime", msg[p].mtime)

(* computeIdentity: FileMetadata reads the attributes; "mtime" is set before the checksum.  Of
   a file in parts, the message of a block needs an identity: without one, a KeyError. *)
ComputeIdentity(p) ==
    /\ ipc[p] = "identify"
    /\ LET x == Remembered(p, xattr)
           is(value) == Sum(Opt(p).method, value)
       IN IF Cached(p, xattr)
          THEN /\ msg' = [msg EXCEPT ![p].identity = xattr.identity]
               /\ meta' = [meta EXCEPT ![p] = Idle]
               /\ ipc' = [ipc EXCEPT ![p] = "inline"]
               /\ UNCHANGED <<sofar, mispaired>>
          ELSE CASE Opt(p).method = "none" ->
                      /\ meta' = [meta EXCEPT ![p] = Idle]
                      /\ ipc' = [ipc EXCEPT ![p] = IF InParts(p) THEN "failed" ELSE "inline"]
                      /\ UNCHANGED <<msg, sofar, mispaired>>
                 [] Opt(p).method = "md5name" ->
                      /\ meta' = [meta EXCEPT ![p] = [x |-> x, todo |-> DOMAIN x]]
                      /\ ipc' = [ipc EXCEPT ![p] = IF InParts(p) THEN "failed" ELSE "persist"]
                      /\ mispaired' = (mispaired \/ "identity" \in DOMAIN x)
                      /\ UNCHANGED <<msg, sofar>>
                 [] Opt(p).method \in {"cod", "arbitrary"} ->
                      /\ msg' = [msg EXCEPT ![p].identity = is(<<>>)]
                      /\ meta' = [meta EXCEPT ![p] = [x |-> SetAttr(x, "identity", is(<<>>)),
                                                      todo |-> {"mtime", "identity"}]]
                      /\ sofar' = [sofar EXCEPT ![p].blocks =
                                       IF InParts(p) THEN Append(@, <<>>) ELSE @]
                      /\ ipc' = [ipc EXCEPT ![p] = "persist"]
                      /\ UNCHANGED mispaired
                 [] OTHER ->
                      /\ meta' = [meta EXCEPT ![p] = [x |-> x, todo |-> DOMAIN x]]
                      /\ ipc' = [ipc EXCEPT ![p] = "read"]
                      /\ UNCHANGED <<msg, sofar, mispaired>>
    /\ UNCHANGED <<iopt, file, xattr, now, writes, posts, idFaults, disturbed, together,
                   misled, announcement>>

(* The block that is being read: its place and its length. *)
BlockSize(p) == set_blockSize(Opt(p).blockSize)
Offset(p) == Len(sofar[p].blocks) * BlockSize(p)
BlockLength(p) ==
    IF Offset(p) + BlockSize(p) > NUnits THEN NUnits - Offset(p) ELSE BlockSize(p)

(* Mutant of MoreToRead: "if not buf: break" is missing. *)
MoreToCount(p) == sofar[p].at < Offset(p) + BlockLength(p)

(* What is left to be read, as the loop counts: from 0, up to the end of the block. *)
MoreToRead(p) ==
    /\ sofar[p].at < Offset(p) + BlockLength(p)
    /\ Offset(p) + sofar[p].at < NUnits

(* Mutant of Chunk: fp.seek(offset) is missing. *)
ChunkFromStart(p) ==
    LET to == IF sofar[p].at + bufSize > NUnits THEN NUnits ELSE sofar[p].at + bufSize
    IN SubSeq(file.units, sofar[p].at + 1, to)

(* fp.read(bufSize) *)
Chunk(p) ==
    LET from == Offset(p) + sofar[p].at
        to == IF from + bufSize > NUnits THEN NUnits ELSE from + bufSize
    IN SubSeq(file.units, from + 1, to)

ReadChunk(p) ==
    /\ ipc[p] = "read" /\ MoreToRead(p)
    /\ sofar' = [sofar EXCEPT ![p].at = @ + Len(Chunk(p)), ![p].sum = @ \o Chunk(p)]
    /\ UNCHANGED <<iopt, ipc, file, xattr, now, writes, posts, idFaults, msg, meta, disturbed,
                   together, misled, mispaired, announcement>>

(* The checksum is set in the message and in the attributes, where that of a block replaces
   that of the file. *)
Calculate(p) ==
    /\ ipc[p] = "read" /\ ~MoreToRead(p)
    /\ LET id == Sum(Opt(p).method, sofar[p].sum) IN
       /\ msg' = [msg EXCEPT ![p].identity = id]
       /\ meta' = [meta EXCEPT ![p] = [x |-> SetAttr(meta[p].x, "identity", id),
                                       todo |-> {"mtime", "identity"}]]
       /\ sofar' = [sofar EXCEPT ![p].blocks = Append(@, sofar[p].sum), ![p].at = 0,
                                 ![p].sum = <<>>]
    /\ ipc' = [ipc EXCEPT ![p] = "persist"]
    /\ mispaired' = (mispaired \/ InParts(p))
    /\ UNCHANGED <<iopt, file, xattr, now, writes, posts, idFaults, disturbed, together, misled,
                   announcement>>

(* A read fails: no message, but __del__ writes the time beside the old checksum. *)
ReadFails(p) ==
    /\ ipc[p] = "read" /\ MoreToRead(p) /\ idFaults < MaxIdFaults
    /\ idFaults' = idFaults + 1
    /\ ipc' = [ipc EXCEPT ![p] = "failed"]
    /\ mispaired' = (mispaired \/ "identity" \in DOMAIN meta[p].x)
    /\ UNCHANGED <<iopt, file, xattr, now, writes, posts, msg, meta, sofar, disturbed,
                   together, misled, announcement>>

(* FileMetadata.persist: one setxattr after the other, on whatever has the name now.  Another
   process can see, or write, one of them in between. *)
Persist(p) ==
    /\ ipc[p] \in {"persist", "failed"}
    /\ IF meta[p].todo = {}
       THEN /\ ipc' = [ipc EXCEPT ![p] =
                          IF ipc[p] = "failed" THEN "idle"
                          ELSE IF InParts(p) /\ Offset(p) < NUnits THEN "identify"
                          ELSE "inline"]
            /\ UNCHANGED <<xattr, meta, misled>>
       ELSE \E k \in meta[p].todo :
            /\ xattr' = SetAttr(xattr, k, meta[p].x[k])
            /\ meta' = [meta EXCEPT ![p].todo = @ \ {k}]
            /\ misled' = (misled \/ together[p])
            /\ UNCHANGED ipc
    /\ UNCHANGED <<iopt, file, now, writes, posts, idFaults, msg, sofar, disturbed,
                   together, mispaired, announcement>>

(* The contents go into the message, if it is of a whole file: the file is read once more. *)
Inlined(p) == IF Opt(p).inline /\ ~InParts(p) THEN file.units ELSE <<>>

Post(p) ==
    /\ ipc[p] = "inline"
    /\ announcement' = [msg |-> [msg[p] EXCEPT !.content = Inlined(p),
                                              !.blocks = sofar[p].blocks],
                        parts |-> InParts(p),
                        size |-> BlockSize(p),
                        whole |-> file.units,
                        disturbed |-> disturbed[p]]
    /\ ipc' = [ipc EXCEPT ![p] = "idle"]
    /\ meta' = [meta EXCEPT ![p] = Idle]
    /\ msg' = [msg EXCEPT ![p] = Nothing]
    /\ sofar' = [sofar EXCEPT ![p] = Start]
    /\ disturbed' = [disturbed EXCEPT ![p] = FALSE]
    /\ together' = [together EXCEPT ![p] = FALSE]
    /\ UNCHANGED <<iopt, file, xattr, now, writes, posts, idFaults, misled, mispaired>>

-----------------------------------------------------------------------------
IdInitAs(pc) ==
    /\ iopt \in (IF pc = "off" THEN {CHOOSE o \in IdOptions : TRUE} ELSE IdOptions)
    /\ ipc = [p \in Poster |-> pc]
    /\ file = [units |-> Units(0), mtime |-> 0]
    /\ xattr = NoAttributes
    /\ now = 0 /\ writes = 0 /\ posts = 0 /\ idFaults = 0
    /\ msg = [p \in Poster |-> Nothing]
    /\ meta = [p \in Poster |-> Idle]
    /\ sofar = [p \in Poster |-> Start]
    /\ disturbed = [p \in Poster |-> FALSE]
    /\ together = [p \in Poster |-> FALSE]
    /\ misled = FALSE /\ mispaired = FALSE
    /\ announcement = [msg |-> Nothing, parts |-> FALSE, size |-> 0, whole |-> <<>>,
                       disturbed |-> FALSE]

Posting(p) ==
    \/ ComputeIdentity(p) \/ ReadChunk(p) \/ Calculate(p) \/ ReadFails(p) \/ Persist(p) \/ Post(p)

IdNext ==
    \/ WriteFile
    \/ \E p \in Poster : PostFile(p) \/ Posting(p)

-----------------------------------------------------------------------------
IdTypeOK ==
    /\ iopt \in IdOptions
    /\ \A p \in Poster :
           /\ ipc[p] \in {"off", "idle", "identify", "read", "persist", "failed", "inline"}
           /\ meta[p].todo \subseteq DOMAIN meta[p].x
           /\ DOMAIN meta[p].x \subseteq {"mtime", "identity"}
    /\ DOMAIN xattr \subseteq {"mtime", "identity"}

(* The checksum of a message is the one of the file, if nobody wrote to the file while the
   message was made, however often that happened while others were made, and whatever they
   left in the attributes.  Not so after two writes in one tick, or when a process writes the
   attributes while another one is at work (misled), nor once the attributes have a time
   beside a checksum of something else: after a read failed, after a file was announced in
   parts, or by the md5 of its name, which renews the time alone (mispaired). *)
IdentityRight ==
    LET a == announcement IN
    (~a.disturbed /\ ~misled /\ ~mispaired /\ ~a.parts /\ a.msg.identity # <<>>
        /\ a.msg.identity.method \in Calculated)
    => a.msg.identity.value = a.whole

(* What computeIdentity says of the attributes: "Once the checksum is determined, set the
   file's extended attributes for the new value", so that they hold for what is found there. *)
ChecksumRemembered ==
    LET a == announcement IN
    (~a.disturbed /\ ~misled /\ ~a.parts /\ a.msg.identity # <<>>
        /\ a.msg.identity.method \in Calculated)
    => a.msg.identity.value = a.whole

(* The blocks of a file that is announced in parts are all of it: as many as there are, and
   each checksum that is calculated is of its block and of what comes after it, without a
   gap.  It is of the block alone only where the reads end with it: the loop counts from 0 to
   the end of the block in the file (596), so that it goes on for as long as the block is
   away from the start, and to the end of the last read.  See BlockChecksums. *)
BlocksCovered ==
    LET a == announcement
        n == (NUnits + a.size - 1) \div a.size
    IN (a.parts /\ ~a.disturbed) =>
           /\ Len(a.msg.blocks) = n
           /\ a.msg.identity.method \in Calculated => \A i \in 1 .. n :
                  LET from == (i - 1) * a.size
                      to == IF from + a.size > NUnits THEN NUnits ELSE from + a.size
                  IN /\ IsPrefix(SubSeq(a.whole, from + 1, to), a.msg.blocks[i])
                     /\ IsPrefix(a.msg.blocks[i], SubSeq(a.whole, from + 1, NUnits))
                     /\ Len(a.msg.blocks[i]) < to + bufSize

(* The checksum of a block is the one of the block (doc: sr_post.7: identity). *)
BlockChecksums ==
    LET a == announcement IN
    (a.parts /\ ~a.disturbed) =>
        \A i \in 1 .. Len(a.msg.blocks) :
            LET from == (i - 1) * a.size
                to == IF from + a.size > NUnits THEN NUnits ELSE from + a.size
            IN a.msg.blocks[i] = SubSeq(a.whole, from + 1, to)

(* The contents in a message are those its checksum was computed of, if the file was not
   written to in between. *)
InlineMatches ==
    LET a == announcement IN
    (~a.disturbed /\ ~misled /\ ~mispaired /\ a.msg.content # <<>> /\ a.msg.identity # <<>>)
    => a.msg.identity.value \in {a.msg.content, <<>>}

=============================================================================
