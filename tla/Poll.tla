-------------------------------- MODULE Poll --------------------------------
(***************************************************************************)
(* Nodes that share a poll (flow/poll.py, flowcb/poll/__init__.py, and in  *)
(* flow/__init__.py: has_vip, _run_vip_update, run, gather).  The node     *)
(* with the virtual address lists the files of a server and announces the  *)
(* new ones; every node consumes the announcements to keep its duplicate   *)
(* suppression up to date.  Directories are listed in one step each.       *)
(***************************************************************************)
EXTENDS Naturals, Sequences, FiniteSets, SequencesExt

CONSTANTS
    Node,
    PollOptions,   \* [vip, batch, fileEvents]: is there a vip; messages in a gather
    RemoteFile,    \* what is on the server: [dir, kind, readable] by name
    NVersions,     \* bound: versions of a file
    MaxVipMoves,   \* bound
    MaxPollFaults  \* bound: failed listings and posts, kills

VARIABLES
    popt,
    node,     \* [pc, haveVip, due, incoming, polled, ok, todo] of each node
    nodupe,   \* the duplicate suppression of each node
    inq,      \* announcements that each node has still to consume
    retry,    \* what each node could not post
    server,   \* the version of each file, 0: not there
    vip,      \* the node with the address
    announced,\* how often each version was announced
    moves, pfaults,
    ppast     \* history: unseen: versions a node found that another one had found before, without
              \* having been told; dropped: versions a node knows of and will not announce

pVars == <<popt, node, nodupe, inq, retry, server, vip, announced, moves, pfaults, ppast>>

FileName == DOMAIN RemoteFile
Item == FileName \X (1 .. NVersions)
Listing == {d : d \in {RemoteFile[f].dir : f \in FileName}}

Ready == [pc |-> "top", haveVip |-> FALSE, due |-> FALSE, incoming |-> <<>>, polled |-> FALSE,
          todo |-> {}]

TypeOK ==
    /\ popt \in PollOptions
    /\ \A n \in Node : node[n].pc \in {"off", "top", "gather", "scheduled", "poll", "filter", "post"}
    /\ nodupe \in [Node -> SUBSET Item]
    /\ server \in [FileName -> 0 .. NVersions]
    /\ vip \in Node
    /\ announced \in [Item -> 0 .. 4]

-----------------------------------------------------------------------------
(* has_vip: without the vip option every node has it.  It is looked at once a pass. *)
HasVip(n) == ~popt.vip \/ vip = n

RunVipUpdate(n) ==
    /\ node[n].pc = "top"
    /\ node' = [node EXCEPT ![n].pc = "gather", ![n].haveVip = HasVip(n),
                            ![n].incoming = <<>>, ![n].polled = FALSE]
    /\ UNCHANGED <<popt, nodupe, inq, retry, server, vip, announced, moves, pfaults, ppast>>

(* The gather of the message plugin, which is there with the vip option. *)
GatherMessages(n) ==
    /\ node[n].pc = "gather"
    /\ LET k == IF ~popt.vip THEN 0
                ELSE IF Len(inq[n]) > popt.batch THEN popt.batch ELSE Len(inq[n]) IN
       /\ node' = [node EXCEPT ![n].incoming = SubSeq(inq[n], 1, k),
                               ![n].pc = IF k = popt.batch THEN "filter" ELSE "scheduled"]
       /\ inq' = [inq EXCEPT ![n] = SubSeq(@, k + 1, Len(@))]
    /\ UNCHANGED <<popt, nodupe, retry, server, vip, announced, moves, pfaults, ppast>>

(* The gather of the scheduled plugin: when it is time, the time is used up, even if
   there is no poll because messages were gathered or the node has no vip. *)
PollNow(n) == node[n].haveVip /\ node[n].incoming = <<>>

GatherScheduled(n) ==
    /\ node[n].pc = "scheduled"
    /\ node' = [node EXCEPT ![n].due = FALSE,
                            ![n].todo = IF node[n].due /\ PollNow(n) THEN Listing ELSE {},
                            ![n].polled = node[n].due /\ PollNow(n),
                            ![n].pc = IF node[n].due /\ PollNow(n) THEN "poll" ELSE "filter"]
    /\ UNCHANGED <<popt, nodupe, inq, retry, server, vip, announced, moves, pfaults, ppast>>

(* on_line: what lacks the permissions of permDefault is left out. *)
OnLine(f) == RemoteFile[f].readable

(* poll_file_post: a directory or a link only if that is announced, and nothing unless
   files are.  post_baseUrl is not a file: URL. *)
PollFilePost(f) ==
    /\ RemoteFile[f].kind = "directory" => "mkdir" \in popt.fileEvents
    /\ RemoteFile[f].kind = "link" => "link" \in popt.fileEvents
    /\ {"create", "modify"} \cap popt.fileEvents # {}

LsDir(d) == {f \in FileName : RemoteFile[f].dir = d /\ server[f] > 0 /\ OnLine(f)}

PollListPost(d) ==
    SetToSeq({<<f, server[f]>> : f \in {g \in LsDir(d) : PollFilePost(g)}})

(* poll, poll_directory: one directory after the other; a listing that fails is skipped. *)
PollDirectory(n) ==
    /\ node[n].pc = "poll"
    /\ \E d \in node[n].todo :
          \/ /\ node' = [node EXCEPT ![n].todo = @ \ {d}, ![n].incoming = @ \o PollListPost(d)]
             /\ UNCHANGED pfaults
          \/ /\ pfaults < MaxPollFaults
             /\ pfaults' = pfaults + 1
             /\ node' = [node EXCEPT ![n].todo = @ \ {d}]
    /\ UNCHANGED <<popt, nodupe, inq, retry, server, vip, announced, moves, ppast>>

(* Or there is no connection at all. *)
PollDone(n) ==
    /\ node[n].pc = "poll"
    /\ \/ node[n].todo = {} /\ UNCHANGED pfaults
       \/ node[n].todo = Listing /\ pfaults < MaxPollFaults /\ pfaults' = pfaults + 1
    /\ node' = [node EXCEPT ![n].pc = "filter", ![n].todo = {},
                            ![n].polled = node[n].incoming # <<>>]
    /\ UNCHANGED <<popt, nodupe, inq, retry, server, vip, announced, moves, ppast>>

(* filter, with the duplicate suppression: new items are remembered and go on. *)
Without(seq, Known) ==
    LET upTo[k \in 0 .. Len(seq)] ==
            IF k = 0 THEN <<>>
            ELSE IF seq[k] \in Known THEN upTo[k - 1] ELSE Append(upTo[k - 1], seq[k])
    IN  upTo[Len(seq)]

KnownFile(n, seq) == Without(seq, {i \in Item : \E k \in nodupe[n] : k[1] = i[1]})
Fresh(n, seq) == Without(seq, nodupe[n])

Filter(n) ==
    /\ node[n].pc = "filter"
    /\ node' = [node EXCEPT ![n].incoming = Fresh(n, @), ![n].pc = "post"]
    /\ nodupe' = [nodupe EXCEPT ![n] = @ \cup Range(node[n].incoming)]
    /\ ppast' = [ppast EXCEPT !.unseen = @ \cup
                     (IF node[n].polled
                      THEN {i \in Range(Fresh(n, node[n].incoming)) :
                                \E m \in Node \ {n} : i \in nodupe[m]}
                      ELSE {})]
    /\ UNCHANGED <<popt, inq, retry, server, vip, announced, moves, pfaults>>

(* run: what came from the queue is not posted again, only what was polled, and what is
   retried. *)
All(n) == node[n].incoming
NotFromQueue(n) == IF node[n].polled THEN node[n].incoming ELSE <<>>
ToPost(n) == NotFromQueue(n)

Bump(seq) == [i \in Item |-> announced[i] + Cardinality({k \in DOMAIN seq : seq[k] = i})]

Post(n) ==
    /\ node[n].pc = "post"
    /\ LET out == ToPost(n) \o retry[n] IN
       \E k \in 0 .. Len(out) :
          /\ IF k = Len(out) THEN UNCHANGED pfaults
             ELSE pfaults < MaxPollFaults /\ pfaults' = pfaults + 1
          /\ announced' = Bump(SubSeq(out, 1, k))
          /\ inq' = [m \in Node |-> inq[m] \o SubSeq(out, 1, k)]
          /\ retry' = [retry EXCEPT ![n] = SubSeq(out, k + 1, Len(out))]
    /\ node' = [node EXCEPT ![n] = [Ready EXCEPT !.due = node[n].due]]
    /\ UNCHANGED <<popt, nodupe, server, vip, moves, ppast>>

(* A kill and a restart: the cache and the retry queue are on disk, and what was taken
   from the queue was not acknowledged.  What was polled and is in the cache is not
   announced by this node any more. *)
PollKill(n) ==
    /\ node[n].pc \notin {"off", "top"} /\ pfaults < MaxPollFaults
    /\ pfaults' = pfaults + 1
    /\ node' = [node EXCEPT ![n] = [Ready EXCEPT !.due = TRUE]]
    /\ inq' = [inq EXCEPT ![n] = IF node[n].polled THEN @ ELSE node[n].incoming \o @]
    /\ ppast' = [ppast EXCEPT !.dropped = @ \cup
                     (IF node[n].pc = "post" THEN Range(ToPost(n)) ELSE {})]
    /\ UNCHANGED <<popt, nodupe, retry, server, vip, announced, moves>>

-----------------------------------------------------------------------------
(* The schedule, the server and the virtual address. *)
TimeToPoll(n) ==
    /\ node[n].pc = "top" /\ ~node[n].due
    /\ node' = [node EXCEPT ![n].due = TRUE]
    /\ UNCHANGED <<popt, nodupe, inq, retry, server, vip, announced, moves, pfaults, ppast>>

ServerWrite(f) ==
    /\ \E n \in Node : node[n].pc # "off"
    /\ server[f] < NVersions
    /\ server' = [server EXCEPT ![f] = @ + 1]
    /\ UNCHANGED <<popt, node, nodupe, inq, retry, vip, announced, moves, pfaults, ppast>>

VipMoves ==
    /\ \E n \in Node : node[n].pc # "off"
    /\ popt.vip /\ moves < MaxVipMoves
    /\ moves' = moves + 1
    /\ vip' \in Node \ {vip}
    /\ UNCHANGED <<popt, node, nodupe, inq, retry, server, announced, pfaults, ppast>>

-----------------------------------------------------------------------------
InitAs(pc) ==
    /\ popt \in (IF pc = "off" THEN {CHOOSE o \in PollOptions : TRUE} ELSE PollOptions)
    /\ nodupe = [n \in Node |-> {}] /\ inq = [n \in Node |-> <<>>]
    /\ retry = [n \in Node |-> <<>>]
    /\ server = [f \in FileName |-> 0]
    /\ vip = CHOOSE n \in Node : TRUE
    /\ node = [n \in Node |-> [Ready EXCEPT !.pc = IF pc = "off" \/ ~(popt.vip \/ n = vip)
                                                 THEN "off" ELSE "top"]]
    /\ announced = [i \in Item |-> 0] /\ moves = 0 /\ pfaults = 0
    /\ ppast = [unseen |-> {}, dropped |-> {}]

Init == InitAs("idle")

Pass(n) == \/ RunVipUpdate(n) \/ GatherMessages(n) \/ GatherScheduled(n) \/ PollDirectory(n)
           \/ PollDone(n) \/ Filter(n) \/ Post(n)

Next == \/ \E n \in Node : Pass(n) \/ PollKill(n) \/ TimeToPoll(n)
        \/ \E f \in FileName : ServerWrite(f)
        \/ VipMoves

(* Every node goes on with its passes, and it is time to poll again and again. *)
Fairness == \A n \in Node : WF_pVars(Pass(n)) /\ SF_pVars(TimeToPoll(n))

Spec == Init /\ [][Next]_pVars

-----------------------------------------------------------------------------
(* A version is announced once, by whichever node has the vip, unless the vip moved
   before the announcement of one node had reached the other. *)
AnnouncedOnce == \A i \in Item : announced[i] > 1 => i \in ppast.unseen

Announceable(f) == server[f] > 0 /\ OnLine(f) /\ PollFilePost(f)

(* The latest version of every file is announced in the end, whichever way the vip moves
   and whatever fails, unless a node was killed between the entry in its duplicate
   suppression and the post. *)
LatestAnnounced ==
    \A f \in FileName : Announceable(f) =>
        announced[<<f, server[f]>>] > 0 \/ <<f, server[f]>> \in ppast.dropped
PollSettled == (\A n \in Node : node[n].pc = "off") \/ LatestAnnounced
=============================================================================
