----------------------------- MODULE QueueState -----------------------------
(***************************************************************************)
(* Which queue an instance consumes from (config/__init__.py:              *)
(* _resolveQueueName, _writeQueueFile and finalize; config/subscription.py;*)
(* sr.py: declare and cleanup).  The default name has a random part, so it *)
(* is kept in the state directory: subscriptions.json has the queues and   *)
(* their bindings, a .qname file the name of the first queue.  Every       *)
(* command and every instance parses the configuration, an instance even   *)
(* twice, and some of them write these files, while others read them.      *)
(***************************************************************************)
EXTENDS Naturals, Sequences, FiniteSets

CONSTANTS
    Topic,          \* what can be subscribed to
    MaxNames,       \* bound: names drawn
    MaxQCommands,   \* bound: commands
    MaxQEvents      \* bound: kills and edits of the configuration

VARIABLES
    qopt,
    parser,     \* parser[j]: the command line, the lead instance and a worker
    subs,       \* subscriptions.json
    qname,      \* qname[user]: the .qname file
    qtmp,       \* users with a temporary .qname file
    stateDir, leadPid,
    queues, bound,  \* the broker
    conf,       \* the topics in the configuration file
    nextName, qcommands, qkills, edits,
    torn,       \* history: a state file was read half written, or could not be written
    kept,       \* history: the queues declared last, since the last cleanup
    wanted,     \* history: the topics they were to have then
    missed      \* history: bindings were made and not noted, or noted as old and not undone

qsVars == <<qopt, parser, subs, qname, qtmp, stateDir, leadPid, queues, bound, conf, nextName,
            qcommands, qkills, edits, torn, kept, wanted, missed>>

(* Configurations: one subscription, with and without a subtopic option, or two, of one broker
   user or of two. *)
QueueOptions ==
    [users : {<<"a">>}, plain : BOOLEAN] \cup [users : {<<"a", "a">>, <<"a", "b">>}, plain : {FALSE}]

Parser == {"cli", "lead", "worker"}
NoName == 0
Name == 1 .. MaxNames
User == {"a", "b"}
NSub == Len(qopt.users)
NoSubs == [state |-> "none", names |-> <<>>, topics |-> {}]
Off == [pc |-> "off", action |-> "none", parse |-> 1, old |-> NoSubs, names |-> <<>>, remove |-> {},
        topics |-> {}]
IsName(names) == Len(names) <= NSub /\ \A k \in DOMAIN names : names[k] \in Name

TypeOK ==
    /\ qopt \in QueueOptions
    /\ \A j \in Parser :
          /\ parser[j].pc \in {"off", "disabled", "resolve", "write", "qname", "rename", "parsed", "wait",
                               "connect", "running"}
          /\ IsName(parser[j].names)
          /\ parser[j].pc \notin {"off", "disabled", "resolve"} => Len(parser[j].names) = NSub
    /\ subs.state \in {"none", "torn", "whole"} /\ IsName(subs.names)
    /\ qname \in [User -> Name \cup {NoName}] /\ qtmp \subseteq User
    /\ {stateDir, leadPid, torn} \subseteq BOOLEAN
    /\ queues \subseteq Name /\ bound \subseteq Name \X Topic /\ conf \subseteq Topic
    /\ nextName \in 1 .. MaxNames + 1 /\ IsName(kept)

Range(names) == {names[k] : k \in DOMAIN names}

-----------------------------------------------------------------------------
(* Parsing the configuration. *)

Begin(action) == [Off EXCEPT !.pc = "resolve", !.action = action]

OnlyOnce(j) == parser[j].old

(* The old subscriptions are read at every subtopic, until they can be read. *)
Old(j) == IF parser[j].old.state = "whole" THEN parser[j].old
          ELSE IF subs.state = "whole" THEN subs ELSE NoSubs

(* The .qname file only counts for the first subscription. *)
FromQname(j) == IF parser[j].names = <<>> THEN qname[qopt.users[1]] ELSE NoName

(* An instance other than the lead, and without a subtopic to parse, gives up when there
   is no name for it. *)
GivesUp(j) == qopt.plain /\ j = "worker" /\ Old(j).state = "none" /\ FromQname(j) = NoName

(* _resolveQueueName for the next subscription; the file may be read in the middle of a
   write. *)
Resolve(j) ==
    /\ parser[j].pc = "resolve" /\ Len(parser[j].names) < NSub
    /\ LET old == Old(j)
           k == Len(parser[j].names) + 1
           found == IF old.state = "whole" THEN old.names[k] ELSE FromQname(j)
       IN /\ torn' = (torn \/ (subs.state = "torn" /\ old.state = "none"))
          /\ IF GivesUp(j)
             THEN /\ parser' = [parser EXCEPT ![j] = Off]
                  /\ UNCHANGED nextName
             ELSE /\ found = NoName => nextName <= MaxNames
                  /\ nextName' = IF found = NoName THEN nextName + 1 ELSE nextName
                  /\ parser' = [parser EXCEPT ![j].old = old,
                                  ![j].names = Append(@, IF found = NoName THEN nextName ELSE found)]
    /\ UNCHANGED <<qopt, subs, qname, qtmp, stateDir, leadPid, queues, bound, conf, qcommands, qkills,
                   edits, kept, wanted, missed>>

WritesAtStart(j) == j = "lead" \/ (j = "cli" /\ parser[j].action = "start")

Writes(j) == j = "lead" \/ (j = "cli" /\ parser[j].action \in {"start", "declare"})

(* What is made of what is parsed now: the queues are declared and bound. *)
Connects(j) == parser[j].action = "declare" \/ parser[j].parse = 2

(* It has read the old bindings, and has not yet written or undone what it is to. *)
Between(j) ==
    /\ Writes(j)
    /\ \/ parser[j].pc = "resolve" /\ parser[j].old.state = "whole"
       \/ parser[j].pc = "write"
       \/ Connects(j) /\ parser[j].pc \in {"qname", "rename", "parsed"}

(* If the configuration is written now, that is not what it goes by. *)
Outdated(j) ==
    /\ Between(j)
    /\ IF parser[j].pc = "resolve" THEN parser[j].old.topics # conf
       ELSE parser[j].topics # conf \/ parser[j].remove # {}

(* Subscriptions.finalize: bindings that were there, and are not in the configuration. *)
BindingsToRemove(j) == parser[j].old.topics \ conf

(* The end of finalize: the file is opened to be written, unless there is no directory. *)
Finalize(j) ==
    /\ parser[j].pc = "resolve" /\ Len(parser[j].names) = NSub
    /\ parser' = [parser EXCEPT ![j].remove = BindingsToRemove(j), ![j].topics = conf, ![j].old = NoSubs,
                    ![j].pc = IF ~Writes(j) THEN "parsed"
                              ELSE IF stateDir THEN "write" ELSE "qname"]
    /\ subs' = IF Writes(j) /\ stateDir THEN [NoSubs EXCEPT !.state = "torn"] ELSE subs
    /\ torn' = (torn \/ (parser[j].action = "declare" /\ ~stateDir /\ NSub > 1))
    /\ missed' = (missed \/ (Writes(j) /\ ~Connects(j) /\ BindingsToRemove(j) # {})
                         \/ (Connects(j) /\ ~stateDir)
                         \/ (Writes(j) /\ \E k \in Parser \ {j} : Outdated(k)))
    /\ UNCHANGED <<qopt, qname, qtmp, stateDir, leadPid, queues, bound, conf, nextName, qcommands,
                   qkills, edits, kept, wanted>>

(* Subscriptions.write *)
WriteSubs(j) ==
    /\ parser[j].pc = "write"
    /\ subs' = [state |-> "whole", names |-> parser[j].names, topics |-> parser[j].topics]
    /\ parser' = [parser EXCEPT ![j].pc = "qname"]
    /\ UNCHANGED <<qopt, qname, qtmp, stateDir, leadPid, queues, bound, conf, nextName, qcommands,
                   qkills, edits, torn, kept, wanted, missed>>

(* _writeQueueFile: of the broker that was resolved last.  A temporary file that was left
   behind keeps everyone from writing it. *)
LastUser == qopt.users[NSub]
WriteQname(j) ==
    /\ parser[j].pc = "qname"
    /\ stateDir' = TRUE
    /\ IF qname[LastUser] = NoName /\ LastUser \notin qtmp
       THEN /\ qtmp' = qtmp \cup {LastUser}
            /\ parser' = [parser EXCEPT ![j].pc = "rename"]
       ELSE /\ parser' = [parser EXCEPT ![j].pc = "parsed"]
            /\ UNCHANGED qtmp
    /\ UNCHANGED <<qopt, subs, qname, leadPid, queues, bound, conf, nextName, qcommands, qkills,
                   edits, torn, kept, wanted, missed>>

RenameQname(j) ==
    /\ parser[j].pc = "rename"
    /\ qname' = [qname EXCEPT ![LastUser] = parser[j].names[1]]
    /\ qtmp' = qtmp \ {LastUser}
    /\ parser' = [parser EXCEPT ![j].pc = "parsed"]
    /\ UNCHANGED <<qopt, subs, stateDir, leadPid, queues, bound, conf, nextName, qcommands, qkills,
                   edits, torn, kept, wanted, missed>>

-----------------------------------------------------------------------------
(* The instances: parse, the pid file (a worker waits for that of the lead), parse again. *)

Idle == parser["lead"].pc = "off" /\ parser["worker"].pc = "off"

WaitForLead(j) ==
    /\ j \in {"lead", "worker"} /\ parser[j].pc = "parsed" /\ parser[j].parse = 1
    /\ j = "worker" => leadPid
    /\ leadPid' = TRUE
    /\ parser' = [parser EXCEPT ![j] = [Begin("start") EXCEPT !.parse = 2]]
    /\ UNCHANGED <<qopt, subs, qname, qtmp, stateDir, queues, bound, conf, nextName, qcommands,
                   qkills, edits, torn, kept, wanted, missed>>

NotUnbound(names, topics) == {}

(* getSetup: the bindings of the configuration are made, and the others undone. *)
Unbound(names, topics) == Range(names) \X topics

(* Only the lead declares and binds the queues. *)
Connect(j) ==
    /\ j \in {"lead", "worker"} /\ parser[j].pc = "parsed" /\ parser[j].parse = 2
    /\ parser' = [parser EXCEPT ![j].pc = "running"]
    /\ IF j = "lead"
       THEN /\ queues' = queues \cup Range(parser[j].names)
            /\ bound' = (bound \cup (Range(parser[j].names) \X parser[j].topics))
                        \ Unbound(parser[j].names, parser[j].remove)
            /\ kept' = parser[j].names /\ wanted' = parser[j].topics
       ELSE UNCHANGED <<queues, bound, kept, wanted>>
    /\ UNCHANGED <<qopt, subs, qname, qtmp, stateDir, leadPid, conf, nextName, qcommands, qkills,
                   edits, torn, missed>>

StopInstances ==
    /\ parser["lead"].pc = "running"
    /\ parser["worker"].pc \in {"off", "running"}
    /\ parser' = [parser EXCEPT !["lead"] = Off, !["worker"] = Off]
    /\ leadPid' = FALSE
    /\ UNCHANGED <<qopt, subs, qname, qtmp, stateDir, queues, bound, conf, nextName, qcommands,
                   qkills, edits, torn, kept, wanted, missed>>

(* A kill, wherever it was; the pid file of the lead stays.  A worker leaves nothing. *)
KillParser(j) ==
    /\ j # "worker" /\ parser[j].pc \notin {"off", "disabled"} /\ qkills + edits < MaxQEvents
    /\ qkills' = qkills + 1
    /\ missed' = (missed \/ (Writes(j) /\ parser[j].pc # "running" /\ parser[j].remove # {}))
    /\ parser' = [parser EXCEPT ![j] = Off]
    /\ UNCHANGED <<qopt, subs, qname, qtmp, stateDir, leadPid, queues, bound, conf, nextName, qcommands,
                   edits, torn, kept, wanted>>

-----------------------------------------------------------------------------
(* The commands: all configurations are parsed before anything is done. *)

(* start has returned: the instances that run have their pid files. *)
Started == \A j \in {"lead", "worker"} : parser[j].pc = "off" \/ parser[j].parse = 2

QCommand(action) ==
    /\ parser["cli"].pc = "off" /\ qcommands < MaxQCommands
    /\ Started
    /\ qcommands' = qcommands + 1
    /\ parser' = [parser EXCEPT !["cli"] = Begin(action)]
    /\ UNCHANGED <<qopt, subs, qname, qtmp, stateDir, leadPid, queues, bound, conf, nextName, qkills, edits,
                   torn, kept, wanted, missed>>

(* start launches what does not run: as a rule nothing more. *)
QStart ==
    /\ parser["cli"].pc = "parsed" /\ parser["cli"].action = "start"
    /\ parser' = [parser EXCEPT !["cli"] = Off,
                    !["lead"] = IF Idle THEN Begin("start") ELSE @,
                    !["worker"] = IF Idle THEN Begin("start") ELSE @]
    /\ stateDir' = TRUE
    /\ UNCHANGED <<qopt, subs, qname, qtmp, leadPid, queues, bound, conf, nextName, qcommands, qkills,
                   edits, torn, kept, wanted, missed>>

QDeclare ==
    /\ parser["cli"].pc = "parsed" /\ parser["cli"].action = "declare"
    /\ LET p == parser["cli"] IN
       /\ queues' = queues \cup Range(p.names)
       /\ bound' = (bound \cup (Range(p.names) \X p.topics)) \ Unbound(p.names, p.remove)
       /\ kept' = p.names /\ wanted' = p.topics
    /\ parser' = [parser EXCEPT !["cli"] = Off]
    /\ UNCHANGED <<qopt, subs, qname, qtmp, stateDir, leadPid, conf, nextName, qcommands, qkills, edits,
                   torn, missed>>

(* cleanup: delete the queues, and the state files, of what does not run. *)
QCleanup ==
    /\ parser["cli"].pc = "parsed" /\ parser["cli"].action = "cleanup"
    /\ parser' = [parser EXCEPT !["cli"] = Off]
    /\ IF Idle
       THEN /\ queues' = queues \ Range(parser["cli"].names)
            /\ bound' = {b \in bound : b[1] \in queues'}
            /\ subs' = NoSubs
            /\ qname' = [u \in User |-> NoName] /\ qtmp' = {}
            /\ leadPid' = FALSE
            /\ kept' = <<>> /\ wanted' = {}
       ELSE UNCHANGED <<queues, bound, subs, qname, qtmp, leadPid, kept, wanted>>
    /\ UNCHANGED <<qopt, stateDir, conf, nextName, qcommands, qkills, edits, torn, missed>>

EditTopics ==
    /\ qkills + edits < MaxQEvents
    /\ edits' = edits + 1
    /\ conf' \in (SUBSET Topic) \ {{}, conf}
    /\ UNCHANGED <<qopt, parser, subs, qname, qtmp, stateDir, leadPid, queues, bound, nextName, qcommands,
                   qkills, torn, kept, wanted, missed>>

-----------------------------------------------------------------------------
InitAs(pc) ==
    /\ qopt \in (IF pc = "disabled" THEN {CHOOSE o \in QueueOptions : TRUE} ELSE QueueOptions)
    /\ parser = [j \in Parser |-> [Off EXCEPT !.pc = pc]]
    /\ subs = NoSubs
    /\ qname = [u \in User |-> NoName] /\ qtmp = {}
    /\ stateDir = FALSE /\ leadPid = FALSE
    /\ queues = {} /\ bound = {}
    /\ conf = {CHOOSE t \in Topic : TRUE}
    /\ nextName = 1 /\ qcommands = 0 /\ qkills = 0 /\ edits = 0
    /\ torn = FALSE /\ kept = <<>> /\ wanted = {} /\ missed = FALSE

Init == InitAs("off")

ParseStep(j) == Resolve(j) \/ Finalize(j) \/ WriteSubs(j) \/ WriteQname(j) \/ RenameQname(j)

Next ==
    \/ \E j \in Parser : ParseStep(j) \/ WaitForLead(j) \/ Connect(j) \/ KillParser(j)
    \/ \E action \in {"start", "declare", "cleanup"} : QCommand(action)
    \/ QStart \/ QDeclare \/ QCleanup \/ StopInstances \/ EditTopics

Fairness == \A j \in Parser : WF_qsVars(ParseStep(j) \/ WaitForLead(j) \/ Connect(j))

Spec == Init /\ [][Next]_qsVars /\ Fairness

-----------------------------------------------------------------------------
(* All the instances consume from the same queues.  Of the first this is so even if a state
   file is read while it is written: then the .qname file has it, if all are of the same broker
   user and nobody was killed; for the others there is no such file. *)
SameQueues ==
    parser["lead"].pc = "running" /\ parser["worker"].pc = "running" =>
        \/ parser["lead"].names = parser["worker"].names
        \/ torn /\ (parser["lead"].names[1] = parser["worker"].names[1] \/ LastUser # qopt.users[1] \/ qkills > 0)

(* Messages wait in the queue while nothing runs: the next start goes on with the same
   queue, if no file was read half written. *)
QueueKept == parser["lead"].pc = "running" => torn \/ queues \subseteq Range(kept)

(* What is bound is what was configured when the queues were declared last, unless
   somebody found old bindings in the state file, wrote the new ones there, and did not undo
   the old; or there was no directory yet to write the file to; or two were at it at once,
   and one of them went by what the other replaced. *)
BoundAsConfigured ==
    missed \/ torn \/ {b \in bound : b[1] \in Range(kept)} = Range(kept) \X wanted

(* "old bindings get removed now", "editing subtopics works properly": an instance that runs
   does not receive what was taken out of the configuration before it started. *)
OldBindingsRemoved ==
    parser["lead"].pc = "running" =>
        {b \in bound : b[1] \in Range(parser["lead"].names)} \subseteq
            Range(parser["lead"].names) \X (parser["lead"].topics \cup conf)
=============================================================================
