--------------------------- MODULE BlockReassembly ---------------------------
(***************************************************************************)
(* Files that arrive in blocks (flowcb/block_reassembly.py,                *)
(* blockmanifest.py).  Each block is downloaded to a part file; after_work *)
(* copies it into the file, under a lock that other instances may break    *)
(* after 15 seconds, and keeps in a manifest which blocks are missing.     *)
(* The message of the last block becomes the one for the whole file.       *)
(***************************************************************************)
EXTENDS Naturals, FiniteSets

CONSTANTS
    Assembler,          \* instances
    BlockOptions,       \* [blocks, deleteManifest]: blocks[v] is the number of them in version v
    MaxBlockFaults      \* bound: kills, and locks broken while in use

VARIABLES
    bopt,
    bjob,       \* per instance: where it is, the message, and the manifest in memory
    part,       \* the part files: version and mtime, or NoPart
    root,       \* the file: the version of each block, 0 where nothing was written
    manifest,   \* its manifest: blocks received, blocks waited for
    lockedBy,   \* the holder of the lock, or 0
    bversion,   \* the version upstream
    bqueue,     \* announced blocks
    bfaults,
    bpast       \* history: whole, the contents announced as complete; again: one of them
                \* twice; parts: blocks posted as such; stranded: a part file was taken for old
                \* news; cutOff: killed with the manifest written and nothing posted; overlap: a
                \* version began before the last one was complete; lost: the lock was broken while in use

bVars == <<bopt, bjob, part, root, manifest, lockedBy, bversion, bqueue, bfaults, bpast>>

Versions == DOMAIN bopt.blocks
BlocksOf(v) == 1 .. bopt.blocks[v]
Blocks == UNION {BlocksOf(v) : v \in Versions}
BlockMsg == {[v |-> v, number |-> b] : v \in Versions, b \in Blocks}

NoPart == [v |-> 0, mtime |-> 0]
NoManifest == [kept |-> FALSE, got |-> {}, waiting |-> {}]
Idle == [pc |-> "idle", msg |-> [v |-> 1, number |-> 1], mem |-> NoManifest, complete |-> FALSE]

TypeOK ==
    LET Manifests == [kept : BOOLEAN, got : SUBSET Blocks, waiting : SUBSET Blocks] IN
    /\ bopt \in BlockOptions
    /\ bjob \in [Assembler -> [pc : {"off", "idle", "download", "lock", "copy", "unlink",
                                     "manifest", "unlock", "post"},
                               msg : BlockMsg, mem : Manifests, complete : BOOLEAN]]
    /\ part \in [Blocks -> [v : 0 .. bversion, mtime : 0 .. bversion]]
    /\ root \in [Blocks -> 0 .. bversion]
    /\ manifest \in Manifests
    /\ lockedBy \in Assembler \cup {0}
    /\ bqueue \subseteq BlockMsg
    /\ bfaults \in 0 .. MaxBlockFaults

-----------------------------------------------------------------------------
BFault == bfaults < MaxBlockFaults /\ bfaults' = bfaults + 1

At(i, pc) == bjob' = [bjob EXCEPT ![i].pc = pc]

Leave(i) == bjob' = [bjob EXCEPT ![i] = Idle]

BSettled == bqueue = {} /\ \A i \in Assembler : bjob[i].pc \in {"off", "idle"}

(* Blocks are still to come, by the queue or the manifest, or lie in part files. *)
Incomplete == ~BSettled \/ manifest.waiting # {} \/ \E b \in Blocks : part[b] # NoPart

(* A version is written upstream, and its blocks are announced. *)
PostBlocks ==
    /\ \E i \in Assembler : bjob[i].pc # "off"
    /\ bversion + 1 \in Versions
    /\ bversion' = bversion + 1
    /\ bqueue' = bqueue \cup {[v |-> bversion + 1, number |-> b] : b \in BlocksOf(bversion + 1)}
    /\ bpast' = [bpast EXCEPT !.overlap = @ \/ Incomplete]
    /\ UNCHANGED <<bopt, bjob, part, root, manifest, lockedBy, bfaults>>

GatherBlock(i) ==
    /\ bjob[i].pc = "idle"
    /\ \E m \in bqueue :
        /\ bqueue' = bqueue \ {m}
        /\ bjob' = [bjob EXCEPT ![i] = [Idle EXCEPT !.pc = "download", !.msg = m]]
    /\ UNCHANGED <<bopt, part, root, manifest, lockedBy, bversion, bfaults, bpast>>

Blk(i) == bjob[i].msg.number

(* do_download: a part file as new as the message rejects it. *)
DownloadPart(i) ==
    /\ bjob[i].pc = "download"
    /\ IF part[Blk(i)].mtime >= bjob[i].msg.v
       THEN /\ Leave(i)
            /\ bpast' = [bpast EXCEPT !.stranded = TRUE]
            /\ UNCHANGED part
       ELSE /\ part' = [part EXCEPT ![Blk(i)] = [v |-> bversion, mtime |-> bjob[i].msg.v]]
            /\ At(i, "lock")
            /\ UNCHANGED bpast
    /\ UNCHANGED <<bopt, root, manifest, lockedBy, bversion, bqueue, bfaults>>

LockRoot(i) ==
    /\ bjob[i].pc = "lock"
    /\ lockedBy = 0
    /\ lockedBy' = i
    /\ At(i, "copy")
    /\ UNCHANGED <<bopt, part, root, manifest, bversion, bqueue, bfaults, bpast>>

StaysAtIt(i) == UNCHANGED <<bjob, bpast, part, root, manifest>>

(* An exception leaves after_work with worklist.ok as it was, and the lock held. *)
Raises(i) ==
    /\ Leave(i)
    /\ bpast' = [bpast EXCEPT !.parts = TRUE]
    /\ UNCHANGED <<part, root, manifest>>

WaitingAll(m) == BlocksOf(m.v)

(* The manifest of a file that was complete waits for all the blocks again. *)
Waiting(m) ==
    IF ~manifest.kept \/ manifest.waiting = {} THEN BlocksOf(m.v) ELSE manifest.waiting

(* The manifest is read, the file cut to the length of the version when the manifest, or
   else the file itself, is longer, and the block copied into it. *)
CopyBlock(i) ==
    /\ bjob[i].pc = "copy"
    /\ LET m == bjob[i].msg
           size == bopt.blocks[m.v]
           shorter == manifest.kept => size < Cardinality(manifest.got)
           mem == [kept |-> TRUE, got |-> manifest.got \cup {m.number},
                   waiting |-> Waiting(m) \ {m.number}] IN
       IF part[m.number] = NoPart THEN Raises(i)
       ELSE /\ bjob' = [bjob EXCEPT ![i].pc = "unlink", ![i].mem = mem]
            /\ root' = [b \in Blocks |-> IF b = m.number THEN part[b].v
                                         ELSE IF shorter /\ b > size THEN 0
                                         ELSE root[b]]
            /\ UNCHANGED <<part, manifest, bpast>>
    /\ UNCHANGED <<bopt, lockedBy, bversion, bqueue, bfaults>>

UnlinkPart(i) ==
    /\ bjob[i].pc = "unlink"
    /\ IF part[Blk(i)] = NoPart THEN Raises(i)
       ELSE /\ part' = [part EXCEPT ![Blk(i)] = NoPart]
            /\ At(i, "manifest")
            /\ UNCHANGED <<root, manifest, bpast>>
    /\ UNCHANGED <<bopt, lockedBy, bversion, bqueue, bfaults>>

HalfComplete(mem) == Cardinality(mem.waiting) <= 1

Complete(mem) == mem.waiting = {}

(* The message is for the whole file when no block is missing, and rejected
   otherwise. *)
WriteManifest(i) ==
    /\ bjob[i].pc = "manifest"
    /\ LET complete == Complete(bjob[i].mem) IN
       /\ manifest' = IF complete /\ bopt.deleteManifest THEN NoManifest ELSE bjob[i].mem
       /\ bjob' = [bjob EXCEPT ![i].pc = "unlock", ![i].complete = complete]
    /\ UNCHANGED <<bopt, part, root, lockedBy, bversion, bqueue, bfaults, bpast>>

(* unlock raises when the lock is not held any more: the message stays in
   worklist.ok, be it for the block or for the file. *)
UnlockRoot(i) ==
    /\ bjob[i].pc = "unlock"
    /\ lockedBy' = IF lockedBy = i THEN 0 ELSE lockedBy
    /\ At(i, "post")
    /\ bpast' = [bpast EXCEPT !.parts = @ \/ (lockedBy # i /\ ~bjob[i].complete)]
    /\ UNCHANGED <<bopt, part, root, manifest, bversion, bqueue, bfaults>>

(* after_work is over: post, and acknowledge. *)
PostFile(i) ==
    /\ bjob[i].pc = "post"
    /\ LET file == [v |-> bjob[i].msg.v, content |-> root] IN
       bpast' = IF ~bjob[i].complete THEN bpast
                ELSE [bpast EXCEPT !.whole = @ \cup {file}, !.again = @ \/ file \in bpast.whole]
    /\ Leave(i)
    /\ UNCHANGED <<bopt, part, root, manifest, lockedBy, bversion, bqueue, bfaults>>

(* The process is killed, and the message delivered again. *)
KillAssembler(i) ==
    /\ bjob[i].pc \notin {"off", "idle"}
    /\ BFault
    /\ Leave(i)
    /\ bqueue' = bqueue \cup {bjob[i].msg}
    /\ bpast' = [bpast EXCEPT !.cutOff = @ \/ (bjob[i].pc \in {"unlock", "post"} /\ bjob[i].complete)]
    /\ UNCHANGED <<bopt, part, root, manifest, lockedBy, bversion>>

UsesLock(i) == bjob[i].pc \in {"copy", "unlink", "manifest", "unlock"}

(* The lock is 15 seconds old: its holder is gone, or too slow. *)
BreakLock ==
    /\ lockedBy # 0
    /\ ~UsesLock(lockedBy)
    /\ lockedBy' = 0
    /\ UNCHANGED <<bopt, bjob, part, root, manifest, bversion, bqueue, bfaults, bpast>>

BreakLockInUse ==
    /\ lockedBy # 0
    /\ UsesLock(lockedBy)
    /\ BFault
    /\ lockedBy' = 0
    /\ bpast' = [bpast EXCEPT !.lost = TRUE]
    /\ UNCHANGED <<bopt, bjob, part, root, manifest, bversion, bqueue>>

InitAs(pc) ==
    /\ bopt \in (IF pc = "off" THEN {CHOOSE o \in BlockOptions : TRUE} ELSE BlockOptions)
    /\ bjob = [i \in Assembler |-> [Idle EXCEPT !.pc = pc]]
    /\ part = [b \in Blocks |-> NoPart]
    /\ root = [b \in Blocks |-> 0]
    /\ manifest = NoManifest
    /\ lockedBy = 0 /\ bversion = 0 /\ bqueue = {} /\ bfaults = 0
    /\ bpast = [whole |-> {}, again |-> FALSE, parts |-> FALSE, stranded |-> FALSE,
                cutOff |-> FALSE, overlap |-> FALSE, lost |-> FALSE]

Init == InitAs("idle")

Assemble(i) == \/ GatherBlock(i) \/ DownloadPart(i) \/ LockRoot(i) \/ CopyBlock(i)
               \/ UnlinkPart(i) \/ WriteManifest(i) \/ UnlockRoot(i) \/ PostFile(i)

Next == \/ PostBlocks \/ BreakLock \/ BreakLockInUse
        \/ \E i \in Assembler : Assemble(i) \/ KillAssembler(i)

Fairness ==
    /\ \A i \in Assembler : WF_bVars(Assemble(i) /\ bjob[i].pc # "lock") /\ SF_bVars(LockRoot(i))
    /\ WF_bVars(BreakLock)

Spec == Init /\ [][Next]_bVars

FairSpec == Spec /\ Fairness

-----------------------------------------------------------------------------
(* A file announced as complete is all of the version announced, in whatever order its
   blocks came, through whichever instances, and with kills between any two steps.
   When a new version begins before the old one is complete its blocks are mixed
   up with those of the old one. *)
CompleteIsWhole ==
    \A f \in bpast.whole :
        ~bpast.overlap /\ ~bpast.lost =>
            \A b \in Blocks : f.content[b] = IF b \in BlocksOf(f.v) THEN f.v ELSE 0

(* No block is announced instead of its file, and no file twice. *)
OnlyWholeFiles ==
    ~bpast.overlap /\ ~bpast.lost => ~bpast.parts /\ ~bpast.again

(* When every block was dealt with the file has been announced, unless a kill left a
   part file that rejects the block when it is delivered again, or came after the
   manifest of a complete file was written: that file is then waited for once more. *)
WholeFilePosted ==
    BSettled /\ bversion > 0 =>
        \/ bpast.overlap \/ bpast.lost \/ bpast.stranded \/ bpast.cutOff
        \/ \E f \in bpast.whole : f.v = bversion

(* Every block is dealt with in the end. *)
BlocksDealtWith == []<>BSettled
=============================================================================
