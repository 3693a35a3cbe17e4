----------------------------- MODULE Processes -----------------------------
(***************************************************************************)
(* The processes of one configuration and the sr3 commands that manage     *)
(* them (sr.py, instance.py, flowcb/housekeeping/resources.py).  All a     *)
(* command knows are the process table and the files of the state          *)
(* directory: a pid file for each instance, and files that say what is     *)
(* going on.  It reads them once, and acts on that; an operator's commands *)
(* and a periodic sr3 sanity run beside each other and beside the          *)
(* instances, which come and go.                                           *)
(***************************************************************************)
EXTENDS Integers, Sequences, FiniteSets

CONSTANTS
    N,              \* instances of the configuration
    MaxPid,         \* bound: pids known to anything at one time
    StopAttempts,   \* attempts_max of stop (5 in the code)
    OperatorActions,\* what the operator does
    MaxCommands,    \* bound: commands of the operator
    MaxProcFaults,  \* bound: crashes, hangs and restarts for memory
    MaxInterrupts   \* bound: commands interrupted or killed

VARIABLES
    live,       \* live[pid]: the instance it is, and how far it got
    pidfile,    \* pidfile[i]: a pid, Blank or NoFile
    tags,       \* the other files of the state directory
    sanitizing, \* the file that says that sanity is at work
    cmd,        \* cmd[w]: the command that runs, and what it read
    commands, procFaults, interrupts,
    lastDone,   \* the last command that the operator completed
    overlap,    \* history: sanity and another command were at work at once
    early,      \* history: a command looked while an instance had no pid file yet
    untold,     \* history: stop killed a process it had not asked to stop
    revived     \* history: what the operator had done last when sanity started instances

prVars == <<live, pidfile, tags, sanitizing, cmd, commands, procFaults, interrupts, lastDone,
            overlap, early, untold, revived>>

Instance == 1 .. N
Pid == 1 .. MaxPid
NoFile == 0
Blank == -1
Who == {"operator", "cron"}
Gone == [inst |-> 1, stage |-> "gone"]
Tag == {"starting", "running", "shutdown", "resources_restart", "disabled"}

(* Before its own pid file an instance, if it is not the lead, waits for that of the lead. *)
Stage == {"gone", "wait", "boot", "pid", "init", "run", "hung", "oom", "stop"}
Procs == {p \in Pid : live[p].stage # "gone"}
WithoutFile == {p \in Procs : live[p].stage \in {"wait", "boot", "pid"} /\ pidfile[live[p].inst] # p}

NoPids == [i \in Instance |-> NoFile]
NoCmd == [pc |-> "none", todo |-> <<>>, procs |-> {}, pids |-> NoPids, status |-> "stopped",
          flux |-> FALSE, hung |-> {}, missing |-> {}, strays |-> {}, told |-> {}, attempt |-> 0]

Status == {"stopped", "disabled", "starting", "resources_restart", "shutdown", "running",
           "hung", "partial", "missing"}

ActiveButHung == {"partial", "running", "starting", "shutdown", "resources_restart"}

(* status_active *)
Active == {"hung", "partial", "running", "starting", "shutdown", "resources_restart"}

TypeOK ==
    /\ live \in [Pid -> [inst : Instance, stage : Stage]]
    /\ pidfile \in [Instance -> Pid \cup {NoFile, Blank}]
    /\ tags \subseteq Tag /\ sanitizing \in BOOLEAN
    /\ \A w \in Who :
          /\ cmd[w].status \in Status
          /\ cmd[w].procs \cup cmd[w].strays \cup cmd[w].told \subseteq Pid
          /\ cmd[w].hung \cup cmd[w].missing \subseteq Instance
          /\ cmd[w].pids \in [Instance -> Pid \cup {NoFile}]
          /\ cmd[w].pc = "none" => cmd[w] = NoCmd
    /\ commands \in 0 .. MaxCommands /\ procFaults \in 0 .. MaxProcFaults
    /\ interrupts \in 0 .. MaxInterrupts
    /\ {lastDone} \cup revived \subseteq {"nothing", "start", "stop", "stop, no procs", "stop, strays",
                                          "stopping strays"}
    /\ {overlap, early, untold} \subseteq BOOLEAN

-----------------------------------------------------------------------------
(* What a command reads. *)

RawPids(files) == files

(* _read_state_dir: an empty pid file is passed over. *)
InstancePids(files) == [i \in Instance |-> IF files[i] = Blank THEN NoFile ELSE files[i]]

Observed(pids, procs) == {i \in Instance : pids[i] \in procs}

HungAmong(pids, procs) == {i \in Observed(pids, procs) : live[pids[i]].stage = "hung"}

Tagged(ts) ==
    IF "running" \in ts THEN "running"
    ELSE IF "shutdown" \in ts THEN "shutdown"
    ELSE IF "resources_restart" \in ts THEN "resources_restart"
    ELSE IF "starting" \in ts THEN "starting"
    ELSE IF "disabled" \in ts THEN "disabled"
    ELSE "unknown"

(* _resolve.  The states that metrics tell apart (idle, slow, lagging...) are running. *)
Resolve(ts, pids, procs) ==
    LET seen == Observed(pids, procs)
        tagged == Tagged(ts)
        busy == {"starting", "shutdown", "resources_restart"}
    IN IF HungAmong(pids, procs) # {} THEN "hung"
       ELSE IF seen = Instance THEN "running"
       ELSE IF seen # {} /\ tagged \notin busy THEN "partial"
       ELSE IF tagged = "disabled" THEN "disabled"
       ELSE IF tagged # "running" /\ pids = NoPids THEN "stopped"
       ELSE IF tagged \in busy THEN tagged
       ELSE "missing"

(* Processes that no pid file names. *)
Strays(pids, procs) == procs \ {pids[i] : i \in Instance}

(* _find_missing_instances, which goes by the status found before, and reads the pid files
   itself: one that is empty counts as missing. *)
FindMissing(status, procs) ==
    IF "disabled" \in tags \/ status \in {"disabled", "stopped", "starting", "resources_restart"}
    THEN {}
    ELSE {i \in Instance : pidfile[i] \notin procs}

CleanAll(missing, procs) ==
    [i \in Instance |-> IF missing # {} THEN NoFile ELSE pidfile[i]]

(* _clean_missing_proc_state: if any is missing, no pid file of a process that is not in the
   process table is kept. *)
CleanMissing(missing, procs) ==
    [i \in Instance |-> IF missing # {} /\ pidfile[i] \notin procs THEN NoFile ELSE pidfile[i]]

-----------------------------------------------------------------------------
(* Signals. *)

(* SIGTERM: its handler is installed before the pid file is written, but fails until the
   flow exists.  What hangs does not react. *)
Terminated(p) ==
    CASE live[p].stage \in {"wait", "boot", "pid", "init"} -> Gone
      [] live[p].stage = "run" -> [live[p] EXCEPT !.stage = "stop"]
      [] OTHER -> live[p]

Term(ps) == [p \in Pid |-> IF p \in ps THEN Terminated(p) ELSE live[p]]
Kill(ps) == [p \in Pid |-> IF p \in ps THEN Gone ELSE live[p]]

(* _launch_instance: new processes with pids that nobody remembers. *)
Known == Procs \cup {pidfile[i] : i \in Instance}
         \cup UNION {cmd[w].procs \cup cmd[w].strays \cup cmd[w].told
                     \cup {cmd[w].pids[i] : i \in Instance} : w \in Who}
CanLaunch(is) == Cardinality(Pid \ Known) >= Cardinality(is)
Launch(is, processes) ==
    LET free == Pid \ Known
        Rank(i) == Cardinality({j \in is : j < i})
        New(i) == CHOOSE p \in free : Cardinality({q \in free : q < p}) = Rank(i)
    IN [p \in Pid |-> IF \E i \in is : New(i) = p
                      THEN LET i == CHOOSE j \in is : New(j) = p
                           IN [inst |-> i, stage |-> IF i = 1 THEN "boot" ELSE "wait"]
                      ELSE processes[p]]

-----------------------------------------------------------------------------
(* The instances. *)

Become(p, stage) == live' = [live EXCEPT ![p].stage = stage]

(* Wait for the pid file of the lead. *)
WaitForLead(p) ==
    /\ live[p].stage = "wait"
    /\ pidfile[1] # NoFile
    /\ Become(p, "boot")
    /\ UNCHANGED <<pidfile, tags, sanitizing, cmd, procFaults, interrupts, untold, revived>>

(* Remove the mark of a restart for memory, install the handlers, open the pid file. *)
OpenPidFile(p) ==
    /\ live[p].stage = "boot"
    /\ Become(p, "pid")
    /\ pidfile' = [pidfile EXCEPT ![live[p].inst] = Blank]
    /\ tags' = tags \ {"resources_restart"}
    /\ UNCHANGED <<sanitizing, cmd, procFaults, interrupts, untold, revived>>

(* If the file was removed meanwhile, what is written is lost with it. *)
WritePid(p) ==
    /\ live[p].stage = "pid"
    /\ Become(p, "init")
    /\ pidfile' = [pidfile EXCEPT ![live[p].inst] = IF @ = NoFile THEN @ ELSE p]
    /\ UNCHANGED <<tags, sanitizing, cmd, procFaults, interrupts, untold, revived>>

RunFlow(p) ==
    /\ live[p].stage = "init"
    /\ Become(p, "run")
    /\ UNCHANGED <<pidfile, tags, sanitizing, cmd, procFaults, interrupts, untold, revived>>

(* The flow came to its end: the pid file is removed, whosever it is. *)
EndInstance(p) ==
    /\ live[p].stage = "stop"
    /\ live' = [live EXCEPT ![p] = Gone]
    /\ pidfile' = [pidfile EXCEPT ![live[p].inst] = NoFile]
    /\ UNCHANGED <<tags, sanitizing, cmd, procFaults, interrupts, untold, revived>>

ProcFault == procFaults < MaxProcFaults /\ procFaults' = procFaults + 1

Crash(p) ==
    /\ p \in Procs
    /\ ProcFault
    /\ live' = [live EXCEPT ![p] = Gone]
    /\ UNCHANGED <<pidfile, tags, sanitizing, cmd, interrupts, untold, revived>>

Hang(p) ==
    /\ live[p].stage = "run"
    /\ ProcFault
    /\ Become(p, "hung")
    /\ UNCHANGED <<pidfile, tags, sanitizing, cmd, interrupts, untold, revived>>

(* Resources: too much memory. *)
OutOfMemory(p) ==
    /\ live[p].stage = "run"
    /\ ProcFault
    /\ Become(p, "oom")
    /\ UNCHANGED <<pidfile, tags, sanitizing, cmd, interrupts, untold, revived>>

(* It waits until nobody else restarts, and becomes itself anew, with the same pid. *)
Exec(p) ==
    /\ live[p].stage = "oom"
    /\ "resources_restart" \notin tags
    /\ tags' = tags \cup {"resources_restart"}
    /\ Become(p, IF live[p].inst = 1 THEN "boot" ELSE "wait")
    /\ UNCHANGED <<pidfile, sanitizing, cmd, procFaults, interrupts, untold, revived>>

InstanceStep(p) ==
    WaitForLead(p) \/ OpenPidFile(p) \/ WritePid(p) \/ RunFlow(p) \/ EndInstance(p) \/ Exec(p)

-----------------------------------------------------------------------------
(* The commands: those that start and stop processes, or go by them. *)
Actions == {"start", "stop", "restart", "clean-restart", "disable", "enable", "sanity", "cleanup"}

Todo(action) ==
    CASE action = "restart" -> <<"stop", "start">>
      [] action = "clean-restart" -> <<"stop", "cleanup", "start">>
      [] OTHER -> <<action>>

(* What has no pid file yet and will write one; an instance whose lead has none waits. *)
Settling == {p \in WithoutFile : live[p].stage # "wait" \/ pidfile[1] # NoFile}

(* A command is given.  sanity is run every few minutes: what starts has its pid file by
   then, or waits for one that nobody writes. *)
Issue(w, action) ==
    /\ cmd[w].pc = "none"
    /\ w = "cron" => Settling = {} /\ action = "sanity"
    /\ w = "operator" => action \in OperatorActions /\ commands < MaxCommands
    /\ cmd' = [cmd EXCEPT ![w] = [NoCmd EXCEPT !.pc = "procs", !.todo = Todo(action)]]
    /\ UNCHANGED <<live, pidfile, tags, sanitizing, procFaults, interrupts, untold, revived>>

(* _read_procs; the configurations are parsed before anything else is read. *)
ReadProcs(w) ==
    /\ cmd[w].pc = "procs"
    /\ cmd' = [cmd EXCEPT ![w].pc = "states", ![w].procs = Procs]
    /\ UNCHANGED <<live, pidfile, tags, sanitizing, procFaults, interrupts, untold, revived>>

(* What is left to do; start and cleanup only look at the status. *)
Enter(c) ==
    IF c.todo = <<>> THEN NoCmd
    ELSE [(IF Head(c.todo) \in {"start", "cleanup"} THEN [NoCmd EXCEPT !.status = c.status] ELSE c)
          EXCEPT !.pc = Head(c.todo), !.todo = Tail(c.todo)]

(* _read_states and _resolve, after the pid files were cleaned; what the command knows then. *)
Resolved(c, ts, files, procs) ==
    LET pids == InstancePids(files) IN
    [c EXCEPT !.procs = procs, !.pids = pids, !.status = Resolve(ts, pids, procs),
              !.hung = HungAmong(pids, procs), !.strays = Strays(pids, procs)]

(* _read_states, _resolve, _find_missing_instances *)
ReadStates(w) ==
    /\ cmd[w].pc = "states"
    /\ LET c == Resolved(cmd[w], tags, pidfile, cmd[w].procs) IN
       cmd' = [cmd EXCEPT ![w] =
                 Enter([c EXCEPT !.flux = (tags \cap {"starting", "shutdown", "resources_restart"} # {}),
                                 !.missing = FindMissing(c.status, c.procs)])]
    /\ UNCHANGED <<live, pidfile, tags, sanitizing, procFaults, interrupts, untold, revived>>

Leave(w) == cmd' = [cmd EXCEPT ![w] = Enter(@)]

AlwaysStartable == Status

(* start: wait for sanity to end, then go by what was read before. *)
Startable == {"missing", "stopped"}

StartLaunch(w) ==
    /\ cmd[w].pc = "start"
    /\ ~sanitizing
    /\ IF cmd[w].status = "disabled" \/ "disabled" \in tags
       THEN Leave(w) /\ UNCHANGED <<live, tags>>
       ELSE /\ cmd' = [cmd EXCEPT ![w].pc = "start wait"]
            /\ IF cmd[w].status \in Startable
               THEN /\ CanLaunch(Instance)
                    /\ live' = Launch(Instance, live)
                    /\ tags' = tags \cup {"starting"}
               ELSE UNCHANGED <<live, tags>>
    /\ UNCHANGED <<pidfile, sanitizing, procFaults, interrupts, untold, revived>>

StillStarting(ts) == ts \cup {"running"}

HasStarted(ts) == (ts \ {"starting"}) \cup {"running"}

(* Wait for as many pid files as there are instances. *)
StartDone(w) ==
    /\ cmd[w].pc = "start wait"
    /\ \A i \in Instance : pidfile[i] # NoFile
    /\ tags' = HasStarted(tags)
    /\ Leave(w)
    /\ UNCHANGED <<live, pidfile, sanitizing, procFaults, interrupts, untold, revived>>

(* What stop remembers while it waits. *)
Waiting(c, told, attempt) ==
    [NoCmd EXCEPT !.pc = "stop wait", !.todo = c.todo, !.status = c.status, !.told = told,
                  !.attempt = attempt]

(* The instances, and what belongs to none. *)
ToStop(c) == c.strays \cup (IF c.status \in Active THEN {c.pids[i] : i \in Instance} \cap c.procs ELSE {})

OnlyStrays(c) == c.strays

Told(c) == ToStop(c)

StillMeantToRun(ts) == ts \cup {"shutdown"}

ShuttingDown(ts) == (ts \ {"running"}) \cup {"shutdown"}

(* stop: clean up, and ask the instances, and what belongs to none, to stop. *)
StopTerm(w) ==
    /\ cmd[w].pc = "stop"
    /\ ~sanitizing
    /\ pidfile' = CleanMissing(cmd[w].missing, cmd[w].procs)
    /\ LET c == cmd[w] IN
       IF c.procs = {}
       THEN Leave(w) /\ UNCHANGED <<live, tags>>
       ELSE /\ live' = Term(Told(c))
            /\ tags' = IF c.status \in Active THEN ShuttingDown(tags) ELSE tags
            /\ cmd' = [cmd EXCEPT ![w] = Waiting(c, Told(c), 0)]
    /\ UNCHANGED <<sanitizing, procFaults, interrupts, untold, revived>>

(* Read everything again; done when no pid file and no stray is left.  The strays that are
   not young are asked too before the next attempt. *)
StopCheck(w) ==
    /\ cmd[w].pc = "stop wait"
    /\ LET gone == FindMissing(cmd[w].status, Procs)
           files == CleanMissing(gone, Procs)
           c == Resolved([cmd[w] EXCEPT !.missing = gone], tags, files, Procs)
           old == {p \in c.strays \ c.told : live[p].stage \notin {"wait", "boot", "pid"}}
       IN /\ pidfile' = files
          /\ IF c.pids = NoPids /\ c.strays = {}
             THEN /\ tags' = tags \ {"shutdown"}
                  /\ cmd' = [cmd EXCEPT ![w] = Enter(c)]
                  /\ UNCHANGED live
             ELSE /\ IF c.attempt + 1 = StopAttempts
                     THEN /\ cmd' = [cmd EXCEPT ![w] = [c EXCEPT !.pc = "stop kill"]]
                          /\ UNCHANGED live
                     ELSE /\ cmd' = [cmd EXCEPT ![w] = Waiting(c, c.told \cup old, c.attempt + 1)]
                          /\ live' = Term(old)
                  /\ UNCHANGED tags
    /\ UNCHANGED <<sanitizing, procFaults, interrupts, untold, revived>>

StopKill(w) ==
    /\ cmd[w].pc = "stop kill"
    /\ live' = Kill(ToStop(cmd[w]))
    /\ untold' = (untold \/ ~(ToStop(cmd[w]) \cap Procs \subseteq cmd[w].told))
    /\ cmd' = [cmd EXCEPT ![w] = [NoCmd EXCEPT !.pc = "stop last", !.todo = cmd[w].todo,
                                        !.status = cmd[w].status]]
    /\ UNCHANGED <<pidfile, tags, sanitizing, procFaults, interrupts, revived>>

StopLast(w) ==
    /\ cmd[w].pc = "stop last"
    /\ LET gone == FindMissing(cmd[w].status, Procs)
           files == CleanMissing(gone, Procs)
       IN /\ pidfile' = files
          /\ cmd' = [cmd EXCEPT ![w] =
                       Enter(Resolved([cmd[w] EXCEPT !.missing = gone], tags, files, Procs))]
    /\ tags' = tags \ {"shutdown"}
    /\ UNCHANGED <<live, sanitizing, procFaults, interrupts, untold, revived>>

(* sanity: leave alone what another command is about to change. *)
SanityGate(w) ==
    /\ cmd[w].pc = "sanity"
    /\ IF cmd[w].flux
       THEN Leave(w) /\ UNCHANGED <<live, sanitizing>>
       ELSE /\ sanitizing' = TRUE
            /\ live' = Kill({cmd[w].pids[i] : i \in cmd[w].hung})
            /\ cmd' = [cmd EXCEPT ![w].pc = "sanity fix"]
    /\ UNCHANGED <<pidfile, tags, procFaults, interrupts, untold, revived>>

(* The process table is only read again after hung processes were killed. *)
SanityProcs(c) == IF c.hung # {} THEN Procs ELSE c.procs

(* Clean up after the instances that are missing, and start them. *)
SanityFix(w) ==
    /\ cmd[w].pc = "sanity fix"
    /\ LET c == cmd[w]
           procs == SanityProcs(c)
           gone == FindMissing(c.status, procs)
           files == CleanMissing(gone, procs)
       IN IF c.status \in {"missing", "partial"} \/ c.hung # {}
          THEN /\ CanLaunch(gone)
               /\ pidfile' = files
               /\ live' = Launch(gone, live)
               /\ cmd' = [cmd EXCEPT ![w] = [NoCmd EXCEPT !.pc = "sanity strays",
                                                !.strays = Strays(InstancePids(files), procs)]]
               /\ revived' = IF gone # {} THEN revived \cup {lastDone} ELSE revived
          ELSE /\ cmd' = [cmd EXCEPT ![w] = [NoCmd EXCEPT !.pc = "sanity strays", !.strays = c.strays]]
               /\ UNCHANGED <<pidfile, live, revived>>
    /\ UNCHANGED <<tags, sanitizing, procFaults, interrupts, untold>>

SanityStrays(w) ==
    /\ cmd[w].pc = "sanity strays"
    /\ live' = Term(cmd[w].strays)
    /\ sanitizing' = FALSE
    /\ Leave(w)
    /\ UNCHANGED <<pidfile, tags, procFaults, interrupts, untold, revived>>

(* disable, unless there are pid files; enable. *)
Disable(w) ==
    /\ cmd[w].pc = "disable"
    /\ tags' = IF cmd[w].pids = NoPids THEN tags \cup {"disabled"} ELSE tags
    /\ Leave(w)
    /\ UNCHANGED <<live, pidfile, sanitizing, procFaults, interrupts, untold, revived>>

Enable(w) ==
    /\ cmd[w].pc = "enable"
    /\ tags' = tags \ {"disabled"}
    /\ Leave(w)
    /\ UNCHANGED <<live, pidfile, sanitizing, procFaults, interrupts, untold, revived>>

(* cleanup removes the state files of what is not active. *)
Cleanup(w) ==
    /\ cmd[w].pc = "cleanup"
    /\ IF cmd[w].status \in Active THEN UNCHANGED <<pidfile, tags>>
       ELSE pidfile' = NoPids /\ tags' = tags \cap {"disabled"}
    /\ Leave(w)
    /\ UNCHANGED <<live, sanitizing, procFaults, interrupts, untold, revived>>

(* please_stop, where start waits; or a command that is killed. *)
Interrupt(w) ==
    /\ cmd[w].pc # "none"
    /\ interrupts < MaxInterrupts
    /\ interrupts' = interrupts + 1
    /\ cmd' = [cmd EXCEPT ![w] = NoCmd]
    /\ UNCHANGED <<live, pidfile, tags, sanitizing, procFaults, untold, revived>>

CommandStep(w) ==
    \/ ReadProcs(w) \/ ReadStates(w)
    \/ StartLaunch(w) \/ StartDone(w)
    \/ StopTerm(w) \/ StopCheck(w) \/ StopKill(w) \/ StopLast(w)
    \/ SanityGate(w) \/ SanityFix(w) \/ SanityStrays(w)
    \/ Disable(w) \/ Enable(w) \/ Cleanup(w)

-----------------------------------------------------------------------------
(* What the history notes of a step. *)
AtWork(w) ==
    IF w = "operator" THEN cmd[w].pc \notin {"off", "none", "procs"}
    ELSE /\ cmd[w].pc \notin {"off", "none", "procs", "states"}
         /\ ~(cmd[w].pc = "sanity" /\ cmd[w].flux)

Ends(pcs) == /\ cmd["operator"].pc \in pcs /\ cmd'["operator"].pc = "none"
             /\ interrupts' = interrupts

(* stop found processes, and no pid file of any: it leaves the mark that they are to run. *)
StopsStrays == /\ cmd["operator"].pc = "stop" /\ cmd'["operator"].pc = "stop wait"
               /\ cmd["operator"].status \notin Active

Note ==
    /\ overlap' = (overlap \/ (AtWork("operator") /\ AtWork("cron"))'
                          \/ (cmd["cron"].pc = "states" /\ cmd'["operator"].pc = "none"
                              /\ cmd["operator"].pc # "none"))
    /\ early' = (early \/ (WithoutFile # {} /\ \E w \in Who :
                              /\ cmd[w].pc \in {"procs", "states", "sanity fix", "stop", "stop wait", "stop last"}
                              /\ cmd'[w] # cmd[w]))
    /\ LET begins == cmd["operator"].pc = "none" /\ cmd'["operator"].pc # "none" IN
       /\ commands' = IF begins THEN commands + 1 ELSE commands
       /\ lastDone' = CASE begins -> "nothing"
                        [] StopsStrays -> "stopping strays"
                        [] Ends({"start wait"}) -> "start"
                        [] Ends({"stop wait", "stop last"}) ->
                              IF lastDone = "stopping strays" THEN "stop, strays" ELSE "stop"
                        [] Ends({"stop"}) -> "stop, no procs"
                        [] OTHER -> lastDone

InitAs(pc) ==
    /\ live = [p \in Pid |-> Gone]
    /\ pidfile = NoPids
    /\ tags = {} /\ sanitizing = FALSE
    /\ cmd = [w \in Who |-> [NoCmd EXCEPT !.pc = pc]]
    /\ commands = 0 /\ procFaults = 0 /\ interrupts = 0
    /\ lastDone = "nothing"
    /\ overlap = FALSE /\ early = FALSE /\ untold = FALSE /\ revived = {}

Init == InitAs("none")

InstanceSteps == \E p \in Pid : InstanceStep(p) /\ Note
Faults == \E p \in Pid : (Crash(p) \/ Hang(p) \/ OutOfMemory(p)) /\ Note
Operate == \E action \in OperatorActions : Issue("operator", action) /\ Note
Cron == Issue("cron", "sanity") /\ Note
Steps(w) == CommandStep(w) /\ Note
Interrupts == \E w \in Who : Interrupt(w) /\ Note

Next == \/ InstanceSteps \/ Faults \/ Operate \/ Cron \/ Interrupts
        \/ \E w \in Who : Steps(w)

Spec == Init /\ [][Next]_prVars

-----------------------------------------------------------------------------
(* No command looked at a moment when it could not see how things stand. *)
Orderly == ~overlap /\ ~early /\ interrupts = 0

(* No two processes are the same instance (they would share its retry queue and its other
   files), unless a command went by what it had read while sanity was at work, or was
   interrupted, or looked while an instance was starting and had no pid file yet. *)
OnePerInstance ==
    Orderly => \A p, q \in Procs : live[p].inst = live[q].inst => p = q

(* A process that runs is known by its pid file, under the same conditions. *)
KnownByPidFile ==
    Orderly => \A p \in Procs :
                  live[p].stage \in {"init", "run", "stop", "hung"} => pidfile[live[p].inst] = p

(* When stop returns nothing of the configuration runs, under the same conditions. *)
StopStops ==
    Orderly /\ lastDone \in {"stop", "stop, strays"} \ revived => Procs = {}

(* stop kills nothing that it has not asked to stop first. *)
AskedFirst == Orderly => ~untold

(* "sr3 sanity only restarts missing instances, not stopped ones": sanity does not start
   what the operator has stopped. *)
NotRevived == revived \cap {"stop", "stop, no procs", "stop, strays"} = {}

(* It may, if stop found no process at all, or none that a pid file names: then it does not
   remove the mark that says that the configuration is to run. *)
RevivedIfNothingRan == Orderly => "stop" \notin revived

(* What start has started and nobody has stopped is for sanity to look after.  With no command
   at work no mark keeps it away, but for that of an instance that crashed while it restarted
   for memory; and when it has done its work every instance has a process again that does
   not hang, unless it had one when sanity looked and lost it since. *)
NoMarkLeft ==
    Orderly /\ lastDone = "start" /\ (\A w \in Who : cmd[w].pc = "none") =>
        tags \cap {"starting", "shutdown"} = {}

Well(i) == \E p \in Procs : live[p].inst = i /\ live[p].stage # "hung"

SanityLaunches ==
    LET c == cmd["cron"] IN
    c.pc = "sanity fix" /\ cmd'["cron"].pc # "sanity fix" /\ lastDone = "start"
    /\ "disabled" \notin tags /\ Orderly' =>
        \A i \in Instance : Well(i)' \/ i \in Observed(c.pids, c.procs) \ c.hung

SanityRepairs == [][NoMarkLeft' /\ SanityLaunches]_prVars
=============================================================================
