------------------------------- MODULE Sources -------------------------------
(***************************************************************************)
(* Where a flow's messages come from, when it is not a broker              *)
(* (flow/__init__.py: gather): a directory that is watched or walked, a    *)
(* schedule, a server that is polled, connections of an AM server.  What a *)
(* configuration gathers from is settled when it starts; the sources that  *)
(* are not used are "off".                                                 *)
(***************************************************************************)
EXTENDS Naturals, FiniteSets, Sequences, SequencesExt

CONSTANTS
    WatchOptions, WatchScripts, MaxWatchFaults,
    ScheduleOptions, MinutesADay, MaxTime, default_wait,
    Node, PollOptions, RemoteFile, NVersions, MaxVipMoves, MaxPollFaults,
    AmConn, AllowIPs, Bulletins, sizeAM, limit, MaxAmKills

ASSUME ScheduleAssumption ==
    /\ MinutesADay \in Nat \ {0} /\ MaxTime \in Nat /\ default_wait \in Nat \ {0}
    /\ ScheduleOptions \subseteq [interval : Nat, times : SUBSET (0 .. MinutesADay - 1)]
    /\ ScheduleOptions # {}

ASSUME PollAssumption ==
    /\ PollOptions # {}
    /\ PollOptions \subseteq [vip : BOOLEAN, batch : Nat,
                              fileEvents : SUBSET {"create", "modify", "mkdir", "link"}]
    /\ IsFiniteSet(DOMAIN RemoteFile) /\ Node # {} /\ NVersions \in Nat

ASSUME AmAssumption == IsFiniteSet(AmConn) /\ AllowIPs \subseteq AmConn

VARIABLES
    source,     \* what is gathered from
    wopt, wpc, script, disk, age, osq, watching, new_events, left_events, cur_events, walkq,
    messages, queued_messages, copy, excused, wfaults,
    sopt, spc, clock, appointments, next_gather_time, last_gather_time, served, rolledOver,
    popt, node, nodupe, inq, retry, server, vip, announced, moves, pfaults, ppast,
    parent, refused, child, connFiles, wire, aposted, akills, apast

W == INSTANCE Watch
S == INSTANCE Schedule
P == INSTANCE Poll
A == INSTANCE AmServer

wVars == <<wopt, wpc, script, disk, age, osq, watching, new_events, left_events, cur_events,
           walkq, messages, queued_messages, copy, excused, wfaults>>
sVars == <<sopt, spc, clock, appointments, next_gather_time, last_gather_time, served,
           rolledOver>>
pVars == <<popt, node, nodupe, inq, retry, server, vip, announced, moves, pfaults, ppast>>
aVars == <<parent, refused, child, connFiles, wire, aposted, akills, apast>>

-----------------------------------------------------------------------------
Source == {"watch", "schedule", "poll", "am"}

Init ==
    /\ source \in Source
    /\ LET As(s) == IF source = s THEN "idle" ELSE "off" IN
       /\ W!InitAs(As("watch"))
       /\ S!InitAs(As("schedule"))
       /\ P!InitAs(As("poll"))
       /\ A!InitAs(As("am"))

Watching == source = "watch" /\ W!Next /\ UNCHANGED <<source, sVars, pVars, aVars>>
Scheduling == source = "schedule" /\ S!Next /\ UNCHANGED <<source, wVars, pVars, aVars>>
Polling == source = "poll" /\ P!Next /\ UNCHANGED <<source, wVars, sVars, aVars>>
Receiving == source = "am" /\ A!Next /\ UNCHANGED <<source, wVars, sVars, pVars>>

Next == Watching \/ Scheduling \/ Polling \/ Receiving

Fairness == W!Fairness /\ P!Fairness /\ A!Fairness

Spec == Init /\ [][Next]_<<source, wVars, sVars, pVars, aVars>> /\ Fairness

-----------------------------------------------------------------------------
TypeOK == source \in Source /\ W!TypeOK /\ S!TypeOK /\ P!TypeOK /\ A!TypeOK

(* See Watch: a subscriber ends up with the files that are there. *)
WatchMirrored == W!WatchMirrored

(* See Schedule: an appointment is answered, however late gather is called. *)
AppointmentKept == S!AppointmentKept

(* See Schedule: every appointment of every day is answered. *)
EveryDay == S!EveryDay

(* See Schedule: an appointment is answered once. *)
NotTwice == S!NotTwice

(* See Poll: the nodes that share a poll announce a version once. *)
AnnouncedOnce == P!AnnouncedOnce

(* See AmServer: no two children are the same instance. *)
InstancesDistinct == A!InstancesDistinct

(* See AmServer: every bulletin is announced once and in order. *)
BulletinsAnnounced == A!BulletinsAnnounced

(* In the end every change was handled, the latest version of every file is announced,
   and every connection was served to its end: see each of the sources. *)
SourcesSettle == []<>(W!WatchSettled /\ P!PollSettled /\ A!AmSettled)

(* Nothing is missed: a change in a watched directory, an appointment, a bulletin. *)
NothingMissed == WatchMirrored /\ AppointmentKept /\ BulletinsAnnounced

(* Nothing is done twice: an appointment, a version announced by the nodes that share a poll,
   an instance number among the children of a server. *)
NothingTwice == NotTwice /\ AnnouncedOnce /\ InstancesDistinct
=============================================================================
