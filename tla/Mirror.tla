------------------------------- MODULE Mirror -------------------------------
(***************************************************************************)
(* A subscriber that repeats file operations on its own disk               *)
(* (flow/__init__.py: do_download, do_fileOp, removeOneFile,               *)
(* renameOneItem, mkdir, link1file, write_inline_file).  Upstream files,   *)
(* directories and links are written, removed and renamed; the             *)
(* announcements are worked off in order, but for those put off to the     *)
(* retry queue.  How a single file is transferred is in Download: here a   *)
(* transfer works, or fails.                                               *)
(***************************************************************************)
EXTENDS Naturals, Sequences

CONSTANTS
    MirrorOptions,  \* [inline, fileEvents]
    MirrorEvents,   \* sequences of [op, name, old, v]: what happens upstream
    MaxMirrorFaults \* bound: transfers and local writes that fail

VARIABLES
    mopt, mpc,
    mevents,        \* what is still to happen upstream
    theirs, ours,   \* the two trees
    mqueue, mretry, \* announcements; worklist.failed
    mfaults,
    listed,         \* the worklists the last message was put in
    mpast           \* history: refused: a message was rejected that was no old news; reordered:
                    \* one was worked on before an earlier one about the same paths; mixedUp: a
                    \* file was renamed whose content is not the version its mtime says

mVars == <<mopt, mpc, mevents, theirs, ours, mqueue, mretry, mfaults, listed, mpast>>

Path == {"a", "b", "d", "d/x", "e", "e/x"}
Top == {"a", "b", "d", "e"}
Parent(p) == IF p = "d/x" THEN "d" ELSE "e"     \* of a path that is not at the top
Within(p) == IF p = "d" THEN {"d/x"} ELSE IF p = "e" THEN {"e/x"} ELSE {}

None == [kind |-> "none", v |-> 0, mtime |-> 0]
Dir == [kind |-> "directory", v |-> 0, mtime |-> 0]
Link == [kind |-> "link", v |-> 0, mtime |-> 0]
FileOf(v, mtime) == [kind |-> "file", v |-> v, mtime |-> mtime]

TypeOK ==
    LET Entry == {None, Dir, Link} \cup {FileOf(v, t) : v \in 1 .. 3, t \in 1 .. 3} IN
    /\ mopt \in MirrorOptions
    /\ mpc \in {"off", "idle"}
    /\ {theirs, ours} \subseteq [Path -> Entry]
    /\ mfaults \in 0 .. MaxMirrorFaults
    /\ mpast \in [reordered : BOOLEAN, refused : BOOLEAN, mixedUp : BOOLEAN]
    /\ \A p \in Path \ Top : ours[p] # None => ours[Parent(p)] = Dir

-----------------------------------------------------------------------------
(* What an operation makes of a tree; the same name is used upstream. *)
With(t, p, entry) == [t EXCEPT ![p] = entry]

(* rename takes along what is in a directory. *)
Moved(t, old, new) ==
    [p \in Path |-> IF p = new THEN t[old]
                    ELSE IF p = old \/ p \in Within(old) THEN None
                    ELSE IF p \in Within(new) /\ Within(old) # {}
                    THEN t[CHOOSE q \in Within(old) : TRUE]
                    ELSE t[p]]

Apply(t, e) ==
    CASE e.op = "file" -> With(t, e.name, FileOf(e.v, e.v))
      [] e.op \in {"remove", "rmdir"} -> With(t, e.name, None)
      [] e.op = "rename" -> Moved(t, e.old, e.name)
      [] e.op = "mkdir" -> With(t, e.name, Dir)
      [] e.op = "link" -> With(t, e.name, Link)
      [] OTHER -> With(t, e.name, t[e.old])

(* It happens upstream, and is announced with the version of the file. *)
Happen ==
    /\ mpc = "idle" /\ mevents # <<>>
    /\ LET e == Head(mevents)
           about == IF e.op \in {"rename", "hlink"} THEN theirs[e.old] ELSE Apply(theirs, e)[e.name]
       IN /\ theirs' = Apply(theirs, e)
          /\ mqueue' = Append(mqueue, [op |-> e.op, name |-> e.name, old |-> e.old,
                                       v |-> about.v, kind |-> about.kind,
                                       left |-> Len(mevents)])
    /\ mevents' = Tail(mevents)
    /\ UNCHANGED <<mopt, mpc, ours, mretry, mfaults, listed, mpast>>

-----------------------------------------------------------------------------
EmptyDir(t, p) == \A q \in Within(p) : t[q] = None

(* removeOneFile: there may be nothing to remove. *)
CanRemove(t, p) == t[p] = Dir => EmptyDir(t, p)

(* renameOneItem removes what has the new name. *)
CanRename(t, old, new) == t[old] # None /\ CanRemove(t, new)

MustBeNew(t, p) == t[p] = None

(* mkdir: a directory that is there already will do. *)
CanMkdir(t, p) == t[p] \in {None, Dir}

(* link1file replaces a file or a link, not a directory; a hard link needs its
   target. *)
CanLink(t, m) == t[m.name] # Dir /\ (m.op = "hlink" => t[m.old].kind = "file")

(* What do_download has done with a message: the tree, the worklists, and whether a
   transfer follows. *)
Outcome(t, lists) == [tree |-> t, lists |-> lists, transfer |-> FALSE]
Transfer(t, lists) == [tree |-> t, lists |-> lists, transfer |-> TRUE]

Enabled(event) == event \in mopt.fileEvents

MkdirOrFail(t, m) ==
    IF ~Enabled("mkdir") THEN Outcome(t, <<"rejected">>)
    ELSE IF CanMkdir(t, m.name) THEN Outcome(With(t, m.name, Dir), <<"ok">>)
    ELSE Outcome(t, <<"failed">>)

(* A rename that succeeded is in worklist.ok, and the file is then compared with what
   was announced; a link or a directory is not.  One that failed is made up for by a
   transfer, or by mkdir; that of a link is retried. *)
FileOpRename(t, m) ==
    IF CanRename(t, m.old, m.name)
    THEN LET moved == Moved(With(t, m.name, None), m.old, m.name) IN
         IF m.kind = "file" THEN Transfer(moved, <<"ok">>) ELSE Outcome(moved, <<"ok">>)
    ELSE CASE m.kind = "directory" -> MkdirOrFail(t, m)
           [] m.kind = "link" -> Outcome(t, <<"failed">>)
           [] OTHER -> Transfer(t, <<>>)

(* rmdir is retried; a removal that failed is not. *)
FailedRemoval(m) == IF m.op = "rmdir" THEN <<"failed">> ELSE <<"rejected">>

FileOpRemove(t, m) ==
    IF ~Enabled(m.op) THEN Outcome(t, <<"rejected">>)
    ELSE IF CanRemove(t, m.name) THEN Outcome(With(t, m.name, None), <<"ok">>)
    ELSE Outcome(t, FailedRemoval(m))

FileOpLink(t, m) ==
    CASE ~Enabled("link") -> Outcome(t, <<"rejected">>)
      [] Enabled("link") /\ CanLink(t, m) ->
            Outcome(With(t, m.name, IF m.op = "hlink" THEN t[m.old] ELSE Link), <<"ok">>)
      [] OTHER -> IF m.op = "hlink" THEN Transfer(t, <<>>) ELSE Outcome(t, <<"rejected">>)

DoFileOp(t, m) ==
    CASE m.op = "rename" -> FileOpRename(t, m)
      [] m.op \in {"remove", "rmdir"} -> FileOpRemove(t, m)
      [] m.op = "mkdir" -> MkdirOrFail(t, m)
      [] m.op \in {"link", "hlink"} -> FileOpLink(t, m)
      [] OTHER -> Transfer(t, <<>>)

AsItIs(t, m) == DoFileOp(t, m)

(* new_dir is made, except for a removal; a file in its place rejects the message. *)
NewDir(t, m) ==
    LET dir == Parent(m.name) IN
    IF m.name \in Top \/ t[dir] = Dir THEN DoFileOp(t, m)
    ELSE IF m.op \in {"remove", "rmdir"} \/ t[dir].kind = "file" THEN Outcome(t, <<"rejected">>)
    ELSE DoFileOp(With(t, dir, Dir), m)

-----------------------------------------------------------------------------
MissingOnly(t, m) == t[m.name].kind # "file"

(* file_should_be_downloaded: a file that is as new as the message, or the same, is
   left alone. *)
Wanted(t, m) ==
    t[m.name].kind = "file" => m.v > t[m.name].mtime /\ t[m.name].v # m.v

UpToDate == <<"rejected">>

(* download: what is upstream by now; nothing, or not a file, is a failure. *)
CanDownload(t, m) == theirs[m.name].kind = "file" /\ t[m.name] # Dir

Downloaded(t, m) == With(t, m.name, FileOf(theirs[m.name].v, m.v))

Inline(t, m) == With(t, m.name, FileOf(m.v, m.v))

MFault == mfaults < MaxMirrorFaults /\ mfaults' = mfaults + 1

Known(m) == m.op = "file" /\ ours[m.name].kind = "file"

Touched(m) == {m.name, m.old} \cup Within(m.name) \cup Within(m.old)
                  \cup {Parent(p) : p \in {m.name, m.old} \ Top}

Overtakes(m) == \E i \in DOMAIN mretry : /\ mretry[i].left > m.left
                                         /\ Touched(mretry[i]) \cap Touched(m) # {}

MixedUp(m) == m.op = "rename" /\ ours[m.old].v # ours[m.old].mtime

End(t, lists, m) ==
    /\ ours' = t
    /\ listed' = lists
    /\ mpast' = [reordered |-> mpast.reordered \/ Overtakes(m),
                 refused |-> mpast.refused \/ (lists = <<"rejected">> /\ ~Known(m)),
                 mixedUp |-> mpast.mixedUp \/ MixedUp(m)]

(* The transfer that ends do_download: of the content in the message, or from
   upstream. *)
TransferFile(t, lists, m) ==
    \/ /\ ~Wanted(t, m)
       /\ End(t, lists \o UpToDate, m)
       /\ UNCHANGED mfaults
    \/ /\ Wanted(t, m)
       /\ mopt.inline /\ t[m.name] # Dir
       /\ End(Inline(t, m), Append(lists, "ok"), m)
       /\ UNCHANGED mfaults
    \/ /\ Wanted(t, m)
       /\ mopt.inline => mfaults < MaxMirrorFaults \/ t[m.name] = Dir
       /\ CanDownload(t, m)
       /\ End(Downloaded(t, m), Append(lists, "ok"), m)
       /\ IF mopt.inline /\ t[m.name] # Dir THEN MFault ELSE UNCHANGED mfaults
    \/ /\ Wanted(t, m)
       /\ IF CanDownload(t, m) \/ (mopt.inline /\ t[m.name] # Dir) THEN MFault
          ELSE UNCHANGED mfaults
       /\ End(t, Append(lists, "failed"), m)

DoDownload(source) ==
    /\ mpc = "idle"
    /\ LET work == IF source = "new" THEN mqueue ELSE mretry
           m == Head(work)
           done == NewDir(ours, m) IN
       /\ work # <<>>
       /\ IF done.transfer THEN TransferFile(done.tree, done.lists, m)
          ELSE End(done.tree, done.lists, m) /\ UNCHANGED mfaults
       /\ mqueue' = IF source = "new" THEN Tail(mqueue) ELSE mqueue
       /\ LET kept == IF source = "new" THEN mretry ELSE Tail(mretry) IN
          mretry' = IF "failed" \in {listed'[i] : i \in DOMAIN listed'} THEN Append(kept, m)
                    ELSE kept
    /\ UNCHANGED <<mopt, mpc, mevents, theirs>>

InitAs(pc) ==
    /\ mopt \in (IF pc = "off" THEN {CHOOSE o \in MirrorOptions : TRUE} ELSE MirrorOptions)
    /\ mevents \in (IF pc = "off" THEN {<<>>} ELSE MirrorEvents)
    /\ mpc = pc
    /\ theirs = [p \in Path |-> None] /\ ours = theirs
    /\ mqueue = <<>> /\ mretry = <<>> /\ mfaults = 0 /\ listed = <<>>
    /\ mpast = [reordered |-> FALSE, refused |-> FALSE, mixedUp |-> FALSE]

Init == InitAs("idle")

Next == Happen \/ DoDownload("new") \/ DoDownload("retry")

(* Every pass of run() takes new messages and retried ones. *)
Fairness == WF_mVars(DoDownload("new")) /\ WF_mVars(DoDownload("retry"))

Spec == Init /\ [][Next]_mVars

FairSpec == Spec /\ Fairness

-----------------------------------------------------------------------------
Same(t, u) == \A p \in Path : t[p].kind = u[p].kind /\ t[p].v = u[p].v

CaughtUp == mevents = <<>> /\ mqueue = <<>> /\ mretry = <<>>

(* When all was worked off the trees are the same, whatever order upstream wrote,
   renamed, removed and linked in, however many versions behind a download was, and
   whatever was retried: unless a message was overtaken by a later one about the same
   paths, was refused, or took a newer version to the new name of an older one. *)
TreesEqual ==
    CaughtUp /\ ~mpast.reordered /\ ~mpast.refused /\ ~mpast.mixedUp => Same(ours, theirs)

(* A message that cannot be carried out any more is retried until it expires. *)
HopelessHere(m) ==
    \/ m.op \in {"file", "hlink"} /\ (theirs[m.name].kind # "file" \/ ours[m.name] = Dir)
    \/ m.op = "rename" /\ m.kind = "file" /\ theirs[m.name].kind # "file"
    \/ m.op = "rename" /\ m.kind = "link" /\ ours[m.old] = None
    \/ m.op = "rmdir" /\ ~EmptyDir(ours, m.name)
    \/ m.op = "mkdir" /\ ours[m.name].kind \in {"file", "link"}

AllMirrored ==
    mpc = "off" \/ (mqueue = <<>> /\ \A i \in DOMAIN mretry : HopelessHere(mretry[i]))

(* Every other message is dealt with in the end. *)
MirroredInTheEnd == []<>AllMirrored
=============================================================================
