------------------------------- MODULE Watch -------------------------------
(***************************************************************************)
(* Files announced as they change (flowcb/gather/file.py).  watchdog's     *)
(* thread adds events to new_events; gather, on the main thread, moves     *)
(* them to left_events and works them off against the tree as it is by     *)
(* then.  At the start the tree is walked.  What is announced is applied   *)
(* to a copy, the way Mirror says a subscriber does.                       *)
(***************************************************************************)
EXTENDS Naturals, Sequences, SequencesExt

CONSTANTS
    WatchOptions,  \* [fileEvents, postOnStart, watch, ageMin, ageMax, follow, batch]
    WatchScripts,  \* sequences of [op, name, old, v]: what happens to the files
    MaxWatchFaults \* bound: kills and watches that cannot be scheduled

VARIABLES
    wopt, wpc,
    script,             \* what is still to happen
    disk, age,          \* the tree; how old each file is: 0 younger than fileAgeMin, 2 past fileAgeMax
    osq,                \* events that watchdog has not handed over
    watching,           \* an observer is scheduled
    new_events, left_events, cur_events,
    walkq,              \* paths the walk has still to visit
    messages, queued_messages,
    copy,
    excused,            \* history: paths that may differ in the copy, for a reason given below
    wfaults

wVars == <<wopt, wpc, script, disk, age, osq, watching, new_events, left_events, cur_events,
           walkq, messages, queued_messages, copy, excused, wfaults>>

WPath == {"a", "b", "c", "l", "d", "d/x", "d/y", "e", "e/x", "e/y"}
Child(p) == CASE p = "d" -> {"d/x", "d/y"} [] p = "e" -> {"e/x", "e/y"} [] OTHER -> {}
Renamed(p, q, x) ==         \* what x in p is called in q
    IF p = "d" THEN (IF x = "d/x" THEN "e/x" ELSE "e/y")
    ELSE (IF x = "e/x" THEN "d/x" ELSE "d/y")
LinkTo == "a"               \* what "l" points to

Nothing == [kind |-> "none", v |-> 0]
Directory == [kind |-> "directory", v |-> 0]
Symlink == [kind |-> "link", v |-> 0]
FileV(v) == [kind |-> "file", v |-> v]

TypeOK ==
    LET Entry == {Nothing, Directory, Symlink} \cup {FileV(v) : v \in 1 .. 3} IN
    /\ wopt \in WatchOptions
    /\ wpc \in {"off", "idle", "priming", "walk", "reset", "events", "post", "down"}
    /\ {disk, copy} \subseteq [WPath -> Entry]
    /\ age \in [WPath -> 0 .. 2]
    /\ excused \subseteq WPath
    /\ wfaults \in 0 .. MaxWatchFaults
    /\ \A s \in {new_events, left_events, cur_events} :
           \A i, j \in DOMAIN s : s[i].src = s[j].src /\ s[i].dst = s[j].dst => i = j

-----------------------------------------------------------------------------
(* The file system, and watchdog, which reports on what a moved directory holds as
   well. *)
Put(t, p, entry) == [t EXCEPT ![p] = entry]

MoveTree(t, p, q) ==
    LET new == {Renamed(p, q, x) : x \in Child(p)} IN
    [x \in WPath |-> IF x = q THEN t[p]
                     ELSE IF x = p \/ x \in Child(p) THEN Nothing
                     ELSE IF x \in new
                     THEN t[CHOOSE y \in Child(p) : Renamed(p, q, y) = x]
                     ELSE t[x]]

DiskAfter(t, s) ==
    CASE s.op \in {"write", "import"} -> Put(t, s.name, FileV(s.v))
      [] s.op = "link" -> Put(t, s.name, Symlink)
      [] s.op = "mkdir" -> Put(t, s.name, Directory)
      [] s.op \in {"remove", "rmdir"} -> Put(t, s.name, Nothing)
      [] OTHER -> MoveTree(t, s.old, s.name)

AgeAfter(s) ==
    CASE s.op = "write" -> [age EXCEPT ![s.name] = 0]
      [] s.op = "import" -> [age EXCEPT ![s.name] = 2]
      [] s.op = "move" ->
            [x \in WPath |-> IF x = s.name THEN age[s.old]
                             ELSE IF \E y \in Child(s.old) : Renamed(s.old, s.name, y) = x
                             THEN age[CHOOSE y \in Child(s.old) : Renamed(s.old, s.name, y) = x]
                             ELSE age[x]]
      [] OTHER -> age

Ev(event, src, dst) == [event |-> event, src |-> src, dst |-> dst]

EventsOf(s) ==
    CASE s.op \in {"write", "import", "link"} ->
            <<Ev(IF disk[s.name] = Nothing THEN "create" ELSE "modify", s.name, "")>>
      [] s.op = "mkdir" -> <<Ev("mkdir", s.name, "")>>
      [] s.op = "remove" -> <<Ev("delete", s.name, "")>>
      [] s.op = "rmdir" -> <<Ev("rmdir", s.name, "")>>
      [] OTHER -> <<Ev("move", s.old, s.name)>>
                  \o SetToSeq({Ev("move", x, Renamed(s.old, s.name, x)) :
                                   x \in {y \in Child(s.old) : disk[y] # Nothing}})

Change ==
    /\ wpc # "off" /\ script # <<>>
    /\ LET s == Head(script) IN
       /\ disk' = DiskAfter(disk, s)
       /\ age' = AgeAfter(s)
       /\ osq' = IF watching THEN osq \o EventsOf(s) ELSE osq
       /\ excused' = IF wopt.watch \/ wpc \in {"priming", "down"} THEN excused
                     ELSE excused \cup {s.name, s.old} \cup Child(s.name) \cup Child(s.old)
    /\ script' = Tail(script)
    /\ UNCHANGED <<wopt, wpc, watching, new_events, left_events, cur_events, walkq, messages,
                   queued_messages, copy, wfaults>>

GrowOlder ==
    /\ wpc # "off" /\ wopt.ageMin
    /\ \E p \in WPath : disk[p] # Nothing /\ age[p] = 0
    /\ age' = [p \in WPath |-> IF disk[p] # Nothing /\ age[p] = 0 THEN 1 ELSE age[p]]
    /\ UNCHANGED <<wopt, wpc, script, disk, osq, watching, new_events, left_events, cur_events,
                   walkq, messages, queued_messages, copy, excused, wfaults>>

-----------------------------------------------------------------------------
(* An event with a key that is there already takes its place in the order. *)
SameKey(e, f) == e.src = f.src /\ e.dst = f.dst

KeepFirst(s, e) == IF \E i \in DOMAIN s : SameKey(s[i], e) THEN s ELSE Append(s, e)

AddedTwice(s, e) == Append(s, e)

Added(s, e) ==
    IF \E i \in DOMAIN s : SameKey(s[i], e)
    THEN [i \in DOMAIN s |-> IF SameKey(s[i], e) THEN e ELSE s[i]]
    ELSE Append(s, e)

(* on_created, on_deleted, on_modified, on_moved: on watchdog's thread. *)
OnAdd ==
    /\ wpc # "off" /\ osq # <<>>
    /\ new_events' = Added(new_events, Head(osq))
    /\ osq' = Tail(osq)
    /\ UNCHANGED <<wopt, wpc, script, disk, age, watching, left_events, cur_events, walkq,
                   messages, queued_messages, copy, excused, wfaults>>

-----------------------------------------------------------------------------
(* The messages about a path, and what a subscriber makes of them. *)
Dangling(t, p) == t[p] = Symlink /\ t[LinkTo].kind # "file"

Msg(op, name, old, v) == [op |-> op, name |-> name, old |-> old, v |-> v]

PostDelete(p, directory) == <<Msg(IF directory THEN "rmdir" ELSE "remove", p, p, 0)>>

PostFile(p) ==
    <<Msg(IF disk[p] = Directory THEN "mkdir" ELSE "file", p, p, disk[p].v)>>

(* post1file: of a link, and if it is followed of what it points to; what is not
   there is announced as removed. *)
Post1file(p, exists, directory) ==
    CASE disk[p] = Symlink ->
            <<Msg("link", p, p, 0)>>
            \o (IF ~wopt.follow THEN <<>>
                ELSE IF disk[LinkTo] = Nothing THEN PostDelete(LinkTo, FALSE)
                ELSE PostFile(LinkTo))
      [] disk[p] # Symlink /\ ~exists -> PostDelete(p, directory)
      [] OTHER -> IF disk[p] = Nothing THEN <<>> ELSE PostFile(p)

PostMoveFile(src, dst) == <<Msg("rename", dst, src, disk[dst].v)>>

(* post_move.  A link is a file if what it points to is there; otherwise only the new
   name is announced, not where it points.  Of a directory the messages of one child
   overwrite those of the child before, so that those of the last one listed are left. *)
PostMove(src, dst) ==
    CASE disk[dst].kind = "file" -> {PostMoveFile(src, dst)}
      [] disk[dst] = Symlink ->
            {IF Dangling(disk, dst) THEN <<Msg("relink", dst, src, 0)>>
             ELSE <<Msg("rename", dst, src, disk[LinkTo].v)>>}
      [] disk[dst] = Directory ->
            LET there == {x \in Child(src) : disk[Renamed(src, dst, x)] # Nothing} IN
            IF there = {} THEN {<<>>}
            ELSE {PostMoveFile(x, Renamed(src, dst, x)) : x \in there}
      [] OTHER -> {<<>>}

(* post1move: and then the directories that were moved are announced as removed. *)
Post1move(src, dst) ==
    {ms \o (IF disk[dst] = Directory THEN PostDelete(src, FALSE) ELSE <<>>) :
         ms \in PostMove(src, dst)}

CreateModify == {"create", "modify"} \cap wopt.fileEvents # {}

(* process_event: the ways an event can be done with. *)
NeverOld(p) == wopt.ageMin
TooNew(p) == wopt.ageMin /\ age[p] = 0
TooOld(p) == wopt.ageMax /\ age[p] = 2

Done(ms) == [done |-> TRUE, messages |-> ms]
NotYet == [done |-> FALSE, messages |-> <<>>]

NeverAgain == Done(<<>>)
LeftForLater == NotYet

PostIf(enabled, ms) == {Done(IF enabled THEN ms ELSE <<>>)}

ProcessFile(e) ==
    IF disk[e.src] = Symlink
    THEN PostIf("link" \in wopt.fileEvents, Post1file(e.src, FALSE, FALSE))
    ELSE IF disk[e.src] = Nothing THEN {Done(<<>>)}
    ELSE IF TooNew(e.src) THEN {LeftForLater}
    ELSE IF TooOld(e.src) THEN {Done(<<>>)}
    ELSE IF e.event = "mkdir"
    THEN PostIf("mkdir" \in wopt.fileEvents, Post1file(e.src, TRUE, TRUE))
    ELSE PostIf(CreateModify, Post1file(e.src, TRUE, FALSE))

ProcessEvent(e) ==
    CASE e.event = "delete" ->
            PostIf("delete" \in wopt.fileEvents, Post1file(e.src, FALSE, FALSE))
      [] e.event = "rmdir" ->
            PostIf("rmdir" \in wopt.fileEvents, Post1file(e.src, FALSE, TRUE))
      [] e.event = "move" /\ CreateModify -> {Done(ms) : ms \in Post1move(e.src, e.dst)}
      [] OTHER -> ProcessFile(e)

(* The copy: see Mirror.  What a name leads to is downloaded unless it is the same
   already; the file a dangling link leads to is asked for in vain.  A removal of a
   directory that is not empty is rejected. *)
Renaming(t, m) == IF t[m.old] = Nothing THEN t
                  ELSE Put(Put(t, m.old, Nothing), m.name, t[m.old])

Downloaded(t, m) ==
    IF t[m.name] = Symlink /\ t[LinkTo] = FileV(m.v) THEN t ELSE Put(t, m.name, FileV(m.v))

Receive(t, m) ==
    LET at == IF m.name \in Child("d") THEN "d" ELSE IF m.name \in Child("e") THEN "e" ELSE m.name
        into == IF at = m.name THEN t ELSE Put(t, at, Directory)
    IN CASE m.op = "file" -> Downloaded(into, m)
         [] m.op = "mkdir" -> Put(t, m.name, Directory)
         [] m.op = "link" -> Put(t, m.name, Symlink)
         [] m.op = "rename" -> Downloaded(Renaming(into, m), m)
         [] m.op = "relink" -> Renaming(into, m)
         [] OTHER -> IF \E x \in Child(m.name) : t[x] # Nothing THEN t
                     ELSE Put(t, m.name, Nothing)

(* The paths that messages describe as they are. *)
Described(ms) == {m.name : m \in {k \in Range(ms) : Receive(copy, k)[k.name] = disk[k.name]}}

-----------------------------------------------------------------------------
(* gather: queued messages first; the tree is looked at when they are nearly gone. *)
Batch == wopt.batch

GatherQueued ==
    /\ wpc = "idle" /\ Len(queued_messages) > Batch
    /\ messages' = SubSeq(queued_messages, 1, Batch)
    /\ queued_messages' = SubSeq(queued_messages, Batch + 1, Len(queued_messages))
    /\ wpc' = "post"
    /\ UNCHANGED <<wopt, script, disk, age, osq, watching, new_events, left_events, cur_events,
                   walkq, copy, excused, wfaults>>

(* wakeup: left_events.update(new_events), then new_events is replaced: what is added in
   between is lost. *)
Wakeup ==
    /\ wpc = "idle" /\ Len(queued_messages) <= Batch
    /\ queued_messages # <<>> \/ (wopt.watch /\ new_events \o left_events # <<>>)
    /\ messages' = queued_messages
    /\ queued_messages' = <<>>
    /\ IF wopt.watch
       THEN /\ left_events' = FoldLeft(Added, left_events, new_events)
            /\ cur_events' = new_events
            /\ wpc' = "reset"
       ELSE wpc' = "post" /\ UNCHANGED <<left_events, cur_events>>
    /\ UNCHANGED <<wopt, script, disk, age, osq, watching, new_events, walkq, copy, excused,
                   wfaults>>

PathsOf(s) == UNION {{s[i].src, s[i].dst} : i \in DOMAIN s} \ {""}

NewReset ==
    /\ wpc = "reset"
    /\ new_events' = <<>>
    /\ excused' = excused \cup PathsOf(SelectSeq(new_events, LAMBDA e : ~Contains(cur_events, e)))
    /\ cur_events' = left_events
    /\ wpc' = "events"
    /\ UNCHANGED <<wopt, script, disk, age, osq, watching, left_events, walkq, messages,
                   queued_messages, copy, wfaults>>

(* Why the copy may stay behind: what is not announced, which is a kind of event that is
   not in fileEvents or a file that is too old; a file that was moved and has moved on or
   is gone, of whose old name nothing is said; an old name that is taken again by a file
   that was announced before the move; a link that was moved before the subscriber had it,
   or had what it points to. *)
LeftOut(e) ==
    \/ e.event \in {"delete", "rmdir"} /\ e.event \notin wopt.fileEvents
    \/ e.event = "move" /\ ~CreateModify
    \/ /\ e.event \in {"create", "modify", "mkdir"} /\ disk[e.src] # Nothing
       /\ IF disk[e.src] = Symlink THEN "link" \notin wopt.fileEvents
          ELSE TooOld(e.src) \/ (IF e.event = "mkdir" THEN "mkdir" \notin wopt.fileEvents
                                 ELSE ~CreateModify)

Unannounced(e, ms) ==
    LET later == Tail(cur_events) \o new_events \o osq
        again == \E i \in DOMAIN later : later[i].src = e.src \/ later[i].dst = e.src
        moved == e.event = "move" /\ CreateModify
    IN (IF LeftOut(e) THEN {e.src, e.dst} \ {""} ELSE {})
       \cup (IF moved /\ (disk[e.dst] = Nothing \/ (disk[e.src] # Nothing /\ ~again))
             THEN {e.src} ELSE {})
       \cup (IF moved /\ disk[e.dst] = Symlink
                /\ FoldLeft(Receive, copy, messages \o ms)[e.dst] # Symlink
             THEN {e.dst} ELSE {})

OneEvent ==
    /\ wpc = "events" /\ cur_events # <<>>
    /\ LET e == Head(cur_events) IN
       \E r \in ProcessEvent(e) :
          /\ messages' = messages \o r.messages
          /\ left_events' = IF r.done THEN SelectSeq(left_events, LAMBDA f : ~SameKey(e, f))
                            ELSE left_events
          /\ excused' = (excused \ Described(r.messages))
                        \cup (IF r.done THEN Unannounced(e, r.messages) ELSE {})
    /\ cur_events' = Tail(cur_events)
    /\ UNCHANGED <<wopt, wpc, script, disk, age, osq, watching, new_events, walkq,
                   queued_messages, copy, wfaults>>

EventsDone ==
    /\ wpc = "events" /\ cur_events = <<>>
    /\ wpc' = "post"
    /\ UNCHANGED <<wopt, script, disk, age, osq, watching, new_events, left_events, cur_events,
                   walkq, messages, queued_messages, copy, excused, wfaults>>

(* The rest of the pass announces what was gathered. *)
PostAll ==
    /\ wpc = "post"
    /\ copy' = FoldLeft(Receive, copy, messages)
    /\ messages' = <<>>
    /\ wpc' = "idle"
    /\ UNCHANGED <<wopt, script, disk, age, osq, watching, new_events, left_events, cur_events,
                   walkq, queued_messages, excused, wfaults>>

-----------------------------------------------------------------------------
TopPath == {"a", "b", "c", "l", "d", "e"}

(* The first gather: watch_dir and walk_priming.  A watch that cannot be scheduled is
   logged as deferred: an event for the top is added, and that is all.  When a walk fails
   the next gather does it again: the observer of the first time goes on. *)
StartWalk == walkq' = IF wopt.postOnStart \/ ~wopt.watch
                      THEN SetToSeq({p \in TopPath : disk[p] # Nothing}) ELSE <<>>

Prime ==
    /\ wpc = "priming"
    /\ watching' = wopt.watch
    /\ StartWalk
    /\ wpc' = "walk"
    /\ excused' = IF watching THEN excused ELSE {p \in WPath : disk[p] # copy[p]}
    /\ UNCHANGED <<wopt, script, disk, age, osq, new_events, left_events, cur_events, messages,
                   queued_messages, copy, wfaults>>

PrimeFails ==
    /\ wpc = "priming" /\ wopt.watch /\ ~watching
    /\ wfaults < MaxWatchFaults
    /\ wfaults' = wfaults + 1
    /\ StartWalk
    /\ wpc' = "walk"
    /\ excused' = WPath
    /\ UNCHANGED <<wopt, script, disk, age, osq, watching, new_events, left_events, cur_events,
                   messages, queued_messages, copy>>

(* walk: a directory is listed when it is visited; what has gone since is passed over,
   and so is a link to nothing. *)
WalkOne ==
    /\ wpc = "walk" /\ walkq # <<>>
    /\ LET p == Head(walkq)
           ms == IF disk[p] = Nothing \/ Dangling(disk, p) THEN <<>>
                 ELSE Post1file(p, TRUE, FALSE) IN
       /\ messages' = messages \o ms
       /\ walkq' = (IF disk[p] = Directory
                    THEN SetToSeq({x \in Child(p) : disk[x] # Nothing}) ELSE <<>>) \o Tail(walkq)
       /\ excused' = IF watching \/ ~wopt.watch THEN excused \ Described(ms)
                     ELSE excused
    /\ UNCHANGED <<wopt, wpc, script, disk, age, osq, watching, new_events, left_events,
                   cur_events, queued_messages, copy, wfaults>>

(* What goes between the test and stat or listdir raises: Flow.gather logs it, what was
   walked is dropped, and primed is still to be set. *)
WalkRaises ==
    /\ wpc = "walk" /\ walkq # <<>> /\ disk[Head(walkq)] = Nothing
    /\ messages' = <<>> /\ walkq' = <<>>
    /\ wpc' = "priming"
    /\ UNCHANGED <<wopt, script, disk, age, osq, watching, new_events, left_events, cur_events,
                   queued_messages, copy, excused, wfaults>>

WalkDone ==
    /\ wpc = "walk" /\ walkq = <<>>
    /\ messages' = SubSeq(messages, 1, IF Len(messages) > Batch THEN Batch ELSE Len(messages))
    /\ queued_messages' = SubSeq(messages, Batch + 1, Len(messages))
    /\ wpc' = "post"
    /\ UNCHANGED <<wopt, script, disk, age, osq, watching, new_events, left_events, cur_events,
                   walkq, copy, excused, wfaults>>

(* A kill, and the start that follows: on_start. *)
WKill ==
    /\ wpc \notin {"off", "down"} /\ wfaults < MaxWatchFaults
    /\ wfaults' = wfaults + 1
    /\ wpc' = "down" /\ watching' = FALSE
    /\ osq' = <<>> /\ new_events' = <<>> /\ left_events' = <<>> /\ cur_events' = <<>>
    /\ walkq' = <<>> /\ messages' = <<>> /\ queued_messages' = <<>>
    /\ UNCHANGED <<wopt, script, disk, age, copy, excused>>

OnStart ==
    /\ wpc = "down"
    /\ wpc' = "priming" /\ queued_messages' = <<>>
    /\ UNCHANGED <<wopt, script, disk, age, osq, watching, new_events, left_events, cur_events,
                   walkq, messages, copy, excused, wfaults>>

-----------------------------------------------------------------------------
InitAs(pc) ==
    /\ wopt \in (IF pc = "off" THEN {CHOOSE o \in WatchOptions : TRUE} ELSE WatchOptions)
    /\ script \in (IF pc = "off" THEN {<<>>} ELSE WatchScripts)
    /\ wpc = (IF pc = "off" THEN "off" ELSE "priming")
    /\ disk = [p \in WPath |-> Nothing] /\ copy = disk
    /\ age = [p \in WPath |-> 0]
    /\ osq = <<>> /\ watching = FALSE
    /\ new_events = <<>> /\ left_events = <<>> /\ cur_events = <<>>
    /\ walkq = <<>> /\ messages = <<>> /\ queued_messages = <<>>
    /\ excused = {} /\ wfaults = 0

Init == InitAs("idle")

Gather == GatherQueued \/ Wakeup \/ NewReset \/ OneEvent \/ EventsDone \/ PostAll
          \/ Prime \/ WalkOne \/ WalkRaises \/ WalkDone

Next == Change \/ GrowOlder \/ OnAdd \/ Gather \/ PrimeFails \/ WKill \/ OnStart

(* run() gathers in every pass; watchdog's thread hands events over; files get older. *)
Fairness == WF_wVars(Gather \/ OnStart) /\ WF_wVars(OnAdd) /\ WF_wVars(GrowOlder)

Spec == Init /\ [][Next]_wVars

-----------------------------------------------------------------------------
Quiet ==
    /\ wpc = "idle" /\ script = <<>>
    /\ osq \o new_events \o left_events = <<>> /\ queued_messages = <<>>

(* When nothing is left to do, the files and links a subscriber has are those that are
   there, in the version that is there, whatever was written, moved and removed between
   an event and its handling.  It is claimed of the histories in WatchScripts: an event
   takes the place of an earlier one with its key, and there are lists of changes that
   come out wrong for it.  The paths that may differ are those in excused: see
   Unannounced, Prime and PrimeFails. *)
WatchMirrored ==
    Quiet =>
        \A p \in WPath \ excused :
            {disk[p].kind, copy[p].kind} \cap {"file", "link"} # {} => copy[p] = disk[p]

(* Files that are not changed any more are announced in the end, young or not. *)
WatchSettled == wpc = "off" \/ script # <<>> \/ Quiet
=============================================================================
