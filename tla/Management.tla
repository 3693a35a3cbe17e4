----------------------------- MODULE Management -----------------------------
(***************************************************************************)
(* What the sr3 commands manage: the processes of a configuration, by      *)
(* their pid files (Processes), and its queues, by their names kept in the *)
(* state directory (QueueState).  A behaviour is one of the two.           *)
(***************************************************************************)
EXTENDS Integers, Sequences, FiniteSets

CONSTANTS
    Instances, MaxPid, StopAttempts, OperatorActions, MaxCommands, MaxProcFaults, MaxInterrupts,
    Topic, MaxNames, MaxQCommands, MaxQEvents

VARIABLES
    managed,    \* what this behaviour is about
    live, pidfile, tags, sanitizing, cmd, commands, procFaults, interrupts, lastDone,
    overlap, early, untold, revived,
    qopt, parser, subs, qname, qtmp, stateDir, leadPid, queues, bound, conf, nextName,
    qcommands, qkills, edits, torn, kept, wanted, missed

P == INSTANCE Processes WITH N <- Instances
Q == INSTANCE QueueState

ASSUME ManagementAssumption == Instances \in Nat \ {0} /\ OperatorActions \subseteq P!Actions

pVars == <<live, pidfile, tags, sanitizing, cmd, commands, procFaults, interrupts, lastDone,
           overlap, early, untold, revived>>
qVars == <<qopt, parser, subs, qname, qtmp, stateDir, leadPid, queues, bound, conf, nextName,
           qcommands, qkills, edits, torn, kept, wanted, missed>>

-----------------------------------------------------------------------------
ManagementInit ==
    /\ managed \in {"processes", "queues"}
    /\ P!InitAs(IF managed = "processes" THEN "none" ELSE "off")
    /\ Q!InitAs(IF managed = "queues" THEN "off" ELSE "disabled")

ManageProcesses == managed = "processes" /\ P!Next /\ UNCHANGED <<managed, qVars>>
ManageQueues == managed = "queues" /\ Q!Next /\ UNCHANGED <<managed, pVars>>

ManagementNext == ManageProcesses \/ ManageQueues

ManagementSpec == ManagementInit /\ [][ManagementNext]_<<managed, pVars, qVars>>

(* TLC follows a behaviour no further once a command went by what was no longer true: nothing is
   claimed of the processes then. *)
Informed == ~overlap /\ ~early

-----------------------------------------------------------------------------
ManagementTypeOK == P!TypeOK /\ Q!TypeOK

(* See Processes: no two processes are the same instance. *)
OnePerInstance == P!OnePerInstance

(* See Processes: what runs is known by its pid file. *)
KnownByPidFile == P!KnownByPidFile

(* See Processes: nothing runs when stop returns. *)
StopStops == P!StopStops

(* See Processes: stop kills nothing that it has not asked to stop. *)
AskedFirst == P!AskedFirst

(* See Processes: sanity does not start what was running and was stopped. *)
RevivedIfNothingRan == P!RevivedIfNothingRan

(* See Processes: sanity is not kept from what was started, and repairs it. *)
SanityRepairs == P!SanityRepairs

(* See QueueState: the instances share the queues. *)
SameQueues == Q!SameQueues

(* See QueueState: no queue is left behind with messages in it. *)
QueueKept == Q!QueueKept

(* See QueueState: what is bound is what is configured. *)
BoundAsConfigured == Q!BoundAsConfigured

(* See Processes: "sanity only restarts missing instances, not stopped ones". *)
NotRevived == P!NotRevived

(* See QueueState: "old bindings get removed now". *)
OldBindingsRemoved == Q!OldBindingsRemoved

(* However commands and instances interleave, an instance is one process, and the pid file
   tells which (run_command, _read_pids, _clean_missing_proc_state). *)
InstancesKnown == OnePerInstance /\ KnownByPidFile

(* stop leaves nothing running, kills nothing it has not asked to end, and what it ended does
   not come back (_stop_signal, stop, sanity). *)
StoppedProperly == StopStops /\ AskedFirst /\ RevivedIfNothingRan

(* The instances of a configuration read one queue, which is kept and bound as the
   configuration says, across changes of it (declare, cleanup, the file of the state). *)
QueuesRight == SameQueues /\ QueueKept /\ BoundAsConfigured
=============================================================================
