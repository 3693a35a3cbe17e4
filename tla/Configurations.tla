--------------------------- MODULE Configurations ----------------------------
(***************************************************************************)
(* How the text of a configuration becomes the options of a flow           *)
(* (config/__init__.py: parse_file, parse_line, finalize, add_option;      *)
(* config/subscription.py, config/publisher.py).  An option applies to     *)
(* what follows it: accept and reject take the directory and the mirror in *)
(* force at their line, a subtopic the broker, exchange, topicPrefix and   *)
(* queueName, and a post_broker is completed by the lines up to the next.  *)
(* A process reads its configurations one line after the other.            *)
(***************************************************************************)
EXTENDS Naturals, Sequences, SequencesExt, FiniteSets

CONSTANTS
    None,
    Encoded,        \* passwords with a percent-encoded character
    Included,       \* Included[f]: the lines of the file an include names
    Variable,       \* a value that is the name of a variable: ${...}
    PluginKind      \* PluginKind[k]: "list" or "str", for the options plugins declare

-----------------------------------------------------------------------------
(***************************************************************************)
(* The data base of credentials of a process (config/credentials.py).  It  *)
(* starts with the lines of credentials.conf; every URL that is looked up  *)
(* is added, so that the answer to a URL depends on what was asked before. *)
(* It belongs to the class Config: all the configurations that a process   *)
(* reads share it.                                                         *)
(*                                                                         *)
(* A URL is [scheme, user, pass, host, port], with None for what it lacks. *)
(* The data base is a sequence of entries, a dictionary in the order in    *)
(* which the keys were added.                                              *)
(***************************************************************************)
Anonymous == "anonymous"

WithoutPassword(url) == [url EXCEPT !.pass = None]

(* Credential.__str__: what brokers are compared by. *)
Shown(url) == WithoutPassword(url)

Has(db, url) == \E i \in DOMAIN db : db[i].key = url

Entry(db, key) == db[CHOOSE i \in DOMAIN db : db[i].key = key].details

(* A key that is there keeps its place. *)
Put(db, key, details) ==
    IF Has(db, key)
    THEN [i \in DOMAIN db |-> IF db[i].key = key THEN [db[i] EXCEPT !.details = details] ELSE db[i]]
    ELSE Append(db, [key |-> key, details |-> details])

(* add: without details, the key is the URL without its password. *)
Add(db, url) == Put(db, WithoutPassword(url), url)

IsValid(url) ==
    IF url.user = None /\ url.pass = None THEN url.scheme \in {"http", "https", "sftp", "s3", "azure"}
    ELSE \/ url.user # None /\ url.pass # None
         \/ url.scheme = "sftp"

(* read, _parse: the line is the key as it is written. *)
ReadFile(lines) ==
    FoldLeft(LAMBDA db, url : IF IsValid(url) THEN Put(db, url, url) ELSE db, <<>>, lines)

Fits(url, entry) ==
    /\ entry.scheme = url.scheme /\ entry.host = url.host /\ entry.port = url.port
    /\ url.user \in {entry.user, None}
    /\ url.pass \in {entry.pass, None}

(* _resolve: the first entry that fits. *)
Resolved(db, url) == SelectInSeq(db, LAMBDA e : Fits(url, e.details))

(* get: the details, and the data base after it; "raises" where Python does. *)
Answer(db, raises, details) == [db |-> db, raises |-> raises, details |-> details]

GetAnonymous(db, url) ==
    LET as == [url EXCEPT !.user = Anonymous, !.pass = Anonymous]
    IN IF url.port # None THEN Answer(db, TRUE, None) ELSE Answer(Add(db, as), FALSE, as)

(* The entry has the key without the password as it is written; it is then looked for
   without the password as it is decoded. *)
GetNew(db, url) ==
    IF ~IsValid(url) THEN Answer(db, FALSE, None)
    ELSE Answer(Add(db, url), url.pass \in Encoded, url)

ResolveFirst(db, url) ==
    LET i == Resolved(db, url)
    IN Answer(<<[key |-> url, details |-> db[i].details]>> \o db, FALSE, db[i].details)

ResolveAndCache(db, url) ==
    LET details == db[Resolved(db, url)].details
    IN Answer(Put(db, url, details), FALSE, details)

Get(db, url) ==
    IF Has(db, url) THEN Answer(db, FALSE, Entry(db, url))
    ELSE IF url.scheme = "amqp" /\ url.user = None THEN GetAnonymous(db, url)
    ELSE IF Resolved(db, url) # 0 THEN ResolveAndCache(db, url)
    ELSE GetNew(db, url)

-----------------------------------------------------------------------------
VARIABLES
    db,             \* the credentials of the process
    cfg,            \* the options so far
    frames,         \* the files being read, the innermost first: lines left, component given
    phase           \* "off", "parse", "parsed", "failed" (an exception ended the process)

setVars == <<db, cfg, frames, phase>>

PluginOption == DOMAIN PluginKind

(* Options with one value: the last line that sets it counts. *)
Single == {"exchange", "topicPrefix", "queueName", "directory", "mirror", "post_exchange",
           "post_exchangeSplit", "post_topicPrefix", "post_baseUrl", "nodupe_basis", "logStdout", "vip"}

Broker == {"broker", "post_broker"}

Default == [k \in Single \cup Broker |->
               CASE k = "exchange" -> <<"default">>
                 [] k = "topicPrefix" -> "v03"
                 [] k = "queueName" -> "template"
                 [] k = "mirror" -> FALSE
                 [] k = "post_exchangeSplit" -> 0
                 [] k \in {"logStdout", "vip"} -> FALSE
                 [] OTHER -> None]

(* Config.__init__ *)
Fresh == [opt |-> Default, component |-> "none", env |-> None, events |-> {"after_accept"}, masks |-> <<>>,
          early |-> <<>>, late |-> <<>>, subscriptions |-> <<>>, publishers |-> <<>>,
          plugin |-> [k \in PluginOption |-> <<>>]]

TypeOK ==
    /\ phase \in {"off", "parse", "parsed", "failed"}
    /\ DOMAIN cfg = DOMAIN Fresh /\ DOMAIN cfg.opt = Single \cup Broker
    /\ \A i \in DOMAIN cfg.subscriptions : cfg.subscriptions[i].bindings # <<>>
    /\ \A i \in DOMAIN frames : DOMAIN frames[i] = {"lines", "component", "included"}

-----------------------------------------------------------------------------
(* Names that were replaced: the synonyms, and the options of version 2. *)
Synonym == [queue |-> "queueName", topic_prefix |-> "topicPrefix", post_base_url |-> "post_baseUrl",
            suppress_duplicates_basis |-> "nodupe_basis"]

ConvertedToV3(line) ==
    IF line.k = "on_message" /\ line.v = "msg_rawlog"
    THEN [k |-> "logEvents", v |-> [op |-> "+", set |-> {"after_work"}]]
    ELSE line

(* In the files of a poll, broker means the post_broker; an included file is read without
   the component. *)
Meant(line, component) ==
    IF line.k \in DOMAIN Synonym THEN [line EXCEPT !.k = Synonym[@]]
    ELSE IF line.k = "broker" /\ component = "poll" THEN [line EXCEPT !.k = "post_broker"]
    ELSE ConvertedToV3(line)

VarsubUnknown(c, v) == IF v = Variable THEN c.env ELSE v

(* _varsub: a variable that is not known yet is left as it is written. *)
Varsub(c, v) == IF v = Variable /\ c.env # None THEN c.env ELSE v

IsMqtt(url) == url.scheme = "mqtt"

DefaultExchange(url) == IF url.user \in {None, Anonymous} THEN <<"xpublic">> ELSE <<"xs", url.user>>

(* Subscription.__init__ *)
ExchangeOf(c) ==
    IF c.opt["exchange"] # <<"default">> THEN c.opt["exchange"]
    ELSE IF c.component = "poll" /\ c.opt["post_exchange"] # None THEN c.opt["post_exchange"]
    ELSE DefaultExchange(c.opt["broker"])

(* What is bound: over MQTT the topic has the exchange in it, and the queue that the
   instances share. *)
Binding(c, queue, subtopic, override) ==
    [exchange |-> ExchangeOf(c), sub |-> subtopic,
     prefix |-> IF override THEN None ELSE c.opt["topicPrefix"],
     shared |-> IF override \/ ~IsMqtt(c.opt["broker"]) THEN 0 ELSE queue]

SameQueue(c, s) == Shown(s.broker) = Shown(c.opt["broker"]) /\ s.template = c.opt["queueName"]

AlwaysNew(c) == Len(c.subscriptions) + 1

(* _resolveQueueName: the name of the same template and broker, or a new one.  The state
   files come before: see QueueState. *)
QueueName(c) ==
    LET known == SelectInSeq(c.subscriptions, LAMBDA s : SameQueue(c, s))
    IN IF known # 0 THEN c.subscriptions[known].name ELSE Len(c.subscriptions) + 1

(* Subscriptions.add: a queue of the same name and broker takes the binding, once. *)
AddSubscription(c, binding, name) ==
    LET of == SelectInSeq(c.subscriptions, LAMBDA s : Shown(s.broker) = Shown(c.opt["broker"]) /\ s.name = name)
    IN IF of = 0
       THEN Append(c.subscriptions, [broker |-> c.opt["broker"], template |-> c.opt["queueName"],
                                     name |-> name, bindings |-> <<binding>>])
       ELSE IF Contains(c.subscriptions[of].bindings, binding) THEN c.subscriptions
       ELSE [c.subscriptions EXCEPT ![of].bindings = Append(@, binding)]

(* _parse_binding *)
Subscribe(c, subtopic, override) ==
    IF c.opt["broker"] = None THEN c
    ELSE LET name == QueueName(c)
         IN [c EXCEPT !.subscriptions = AddSubscription(c, Binding(c, name, subtopic, override), name)]

(* Publisher.__init__ *)
Exchanges(c) ==
    LET root == IF c.opt["post_exchange"] # None THEN c.opt["post_exchange"]
                ELSE IF IsMqtt(c.opt["post_broker"]) THEN <<>>
                ELSE DefaultExchange(c.opt["post_broker"])
    IN IF root = <<>> THEN <<>>
       ELSE IF c.opt["post_exchangeSplit"] > 1 THEN [i \in 1 .. c.opt["post_exchangeSplit"] |-> Append(root, i - 1)]
       ELSE <<root>>

Publisher(c) ==
    [broker |-> c.opt["post_broker"], exchange |-> Exchanges(c),
     topicPrefix |-> IF c.opt["post_topicPrefix"] # None THEN c.opt["post_topicPrefix"] ELSE c.opt["topicPrefix"],
     baseUrl |-> c.opt["post_baseUrl"]]

SameBroker(p, q) == Shown(p.broker) = Shown(q.broker)

(* Publisher.__eq__ does not compare the baseUrl. *)
SamePublisher(p, q) ==
    Shown(p.broker) = Shown(q.broker) /\ p.exchange = q.exchange /\ p.topicPrefix = q.topicPrefix

(* Publishers.add *)
Publish(c) ==
    LET p == Publisher(c)
    IN IF c.opt["post_broker"] = None \/ \E i \in DOMAIN c.publishers : SamePublisher(c.publishers[i], p) THEN c
       ELSE [c EXCEPT !.publishers = Append(@, p)]

(* _build_mask, with what is in force; for an expression that is none it returns None. *)
Mask(c, line) ==
    IF line.v = "bad" THEN None
    ELSE [accept |-> line.k = "accept", pattern |-> line.v, directory |-> c.opt["directory"],
          mirror |-> c.opt["mirror"]]

(* _parse_set_string *)
SetOf(old, v) == CASE v.op = "+" -> old \cup v.set [] v.op = "-" -> old \ v.set [] OTHER -> v.set

Prepend(s, e) == IF Contains(s, e) THEN s ELSE <<e>> \o s
AppendNew(s, e) == IF Contains(s, e) THEN s ELSE Append(s, e)

-----------------------------------------------------------------------------
(* Reading: one action for each kind of line. *)

File(lines, component, included) == [lines |-> lines, component |-> component, included |-> included]

Line == Meant(Head(frames[1].lines), frames[1].component)

Rest == [frames EXCEPT ![1].lines = Tail(@)]

At(kinds) ==
    /\ phase = "parse" /\ frames # <<>> /\ frames[1].lines # <<>>
    /\ Line.k \in kinds

Took(c) == cfg' = c /\ frames' = Rest /\ UNCHANGED <<db, phase>>

(* An exception ends the included file, or else the process. *)
Raise ==
    IF frames[1].included THEN frames' = Tail(frames) /\ UNCHANGED phase
    ELSE frames' = <<>> /\ phase' = "failed"

ReadOption ==
    /\ At(Single)
    /\ Took([cfg EXCEPT !.opt[Line.k] = IF Line.k = "queueName" THEN Line.v ELSE Varsub(cfg, Line.v)])

(* The broker and post_broker setters: one that is not known changes nothing; before there
   is another post_broker, what was said of the last one becomes a publisher. *)
ReadBroker ==
    /\ At(Broker)
    /\ LET answer == Get(db, Line.v)
           before == IF Line.k = "post_broker" THEN Publish(cfg) ELSE cfg
       IN /\ db' = answer.db
          /\ cfg' = IF answer.raises \/ answer.details = None THEN before
                    ELSE [before EXCEPT !.opt[Line.k] = answer.details]
          /\ IF answer.raises THEN Raise ELSE frames' = Rest /\ UNCHANGED phase

ReadSubtopic ==
    /\ At({"subtopic", "topic"})
    /\ Took(Subscribe(cfg, Line.v, Line.k = "topic"))

ReadMask ==
    /\ At({"accept", "reject"})
    /\ Took([cfg EXCEPT !.masks = Append(@, Mask(cfg, Line))])

ReadCallback ==
    /\ At({"callback", "callback_prepend"})
    /\ Took(IF Line.k = "callback" THEN [cfg EXCEPT !.late = AppendNew(@, Line.v)]
            ELSE [cfg EXCEPT !.early = Prepend(@, Line.v)])

ReadEvents ==
    /\ At({"logEvents"})
    /\ Took([cfg EXCEPT !.events = SetOf(@, Line.v)])

(* _parse_declare: env *)
ReadDeclare ==
    /\ At({"declare"})
    /\ Took([cfg EXCEPT !.env = Line.v])

(* An option that nobody declared yet: the values are kept as they come. *)
ReadPluginOption ==
    /\ At(PluginOption)
    /\ Took([cfg EXCEPT !.plugin[Line.k] = Append(@, Line.v)])

(* include: parse_file, without the component; a file that is not found is skipped. *)
ReadInclude ==
    /\ At({"include"})
    /\ frames' = (IF Line.v \in DOMAIN Included THEN <<File(Included[Line.v], "none", TRUE)>> ELSE <<>>) \o Rest
    /\ UNCHANGED <<db, cfg, phase>>

EndOfFile ==
    /\ phase = "parse" /\ frames # <<>> /\ frames[1].lines = <<>>
    /\ frames' = Tail(frames)
    /\ phase' = IF Len(frames) = 1 THEN "parsed" ELSE "parse"
    /\ UNCHANGED <<db, cfg>>

-----------------------------------------------------------------------------
(* After the text. *)

(* parse_args: what is not on the command line stays, but logStdout has a default there. *)
CommandLine(c) == [c EXCEPT !.opt["logStdout"] = FALSE]

(* one_config: a poll without a broker has the post_broker for one. *)
PollBroker(c) ==
    IF c.component = "poll" /\ c.opt["broker"] = None THEN [c EXCEPT !.opt["broker"] = c.opt["post_broker"]]
    ELSE c

LogNeeded(c) == IF c.events = {} THEN c ELSE [c EXCEPT !.late = AppendNew(@, "log")]

NodupeBasis(c) ==
    IF c.opt["nodupe_basis"] = None THEN c
    ELSE [c EXCEPT !.early = Append(@, c.opt["nodupe_basis"]), !.opt["nodupe_basis"] = None]

LastPublisher(c) ==
    IF c.opt["post_broker"] = None THEN c
    ELSE Publish([c EXCEPT !.opt["post_exchange"] = IF @ = None THEN <<"xs", c.opt["post_broker"].user>> ELSE @])

PollVip(c) ==
    IF c.component = "poll" /\ c.opt["vip"] /\ c.opt["post_broker"] # None
    THEN [c EXCEPT !.opt["broker"] = c.opt["post_broker"]]
    ELSE c

(* Without a subtopic, everything. *)
SubscribeToAll(c) == IF c.subscriptions = <<>> THEN Subscribe(c, "#", FALSE) ELSE c

Finalized(c) == SubscribeToAll(PollVip(LastPublisher(NodupeBasis(LogNeeded(c)))))

(* add_option: when a plugin is loaded, with the type it declares. *)
AddOption(c, k) ==
    IF PluginKind[k] = "list" \/ c.plugin[k] = <<>> THEN c.plugin[k] ELSE <<Last(c.plugin[k])>>

-----------------------------------------------------------------------------
SetInitAs(p) == db = <<>> /\ cfg = Fresh /\ frames = <<>> /\ phase = p

ReadNext ==
    \/ ReadOption \/ ReadBroker \/ ReadSubtopic \/ ReadMask \/ ReadCallback
    \/ ReadEvents \/ ReadDeclare \/ ReadPluginOption \/ ReadInclude \/ EndOfFile

-----------------------------------------------------------------------------
(***************************************************************************)
(* Who reads the configurations of a user: the manager, sr3, reads all of  *)
(* them, one after the other (sr.py: _read_configs), and each instance its *)
(* own (config/__init__.py: one_config) before it looks up credentials as  *)
(* it runs.  The manager creates, checks and removes the queues that the   *)
(* instance reads from: both have to understand the same of the text.      *)
(***************************************************************************)

CONSTANTS
    Sites,          \* [credentials, defaults, inc, component, text, others]
    Urls,           \* what a running flow looks up
    MaxLookups

VARIABLES
    site,           \* the files of the user: never changed here
    process,        \* "off", "manager", "instance", "running"
    reading,        \* "defaults", "configuration"
    todo,           \* the configurations that the manager has not read yet
    base,           \* what default.conf says
    managed,        \* what the manager understood of the configuration
    asked           \* the URLs that were looked up while it runs

vars == <<setVars, site, process, reading, todo, base, managed, asked>>

Main == [component |-> site.component, text |-> site.text]

(* default_config: a process starts with the files of the user. *)
Starts(p) ==
    /\ process' = p /\ reading' = "defaults"
    /\ db' = ReadFile(site.credentials)
    /\ cfg' = Fresh /\ frames' = <<File(site.defaults, "none", FALSE)>>
    /\ phase' = "parse"
    /\ UNCHANGED <<site, asked>>

ConfigurationsInit ==
    /\ site \in Sites
    /\ todo \in {<<Main>> \o site.others, site.others \o <<Main>>}
    /\ process = "manager" /\ reading = "defaults" /\ base = Fresh /\ managed = None /\ asked = {}
    /\ db = ReadFile(site.credentials) /\ cfg = Fresh /\ phase = "parse"
    /\ frames = <<File(site.defaults, "none", FALSE)>>

(* Nobody reads a configuration. *)
ConfigurationsOff ==
    /\ site = (CHOOSE any \in Sites : TRUE)
    /\ todo = <<>> /\ process = "off" /\ reading = "defaults" /\ base = Fresh /\ managed = None /\ asked = {}
    /\ db = <<>> /\ cfg = Fresh /\ frames = <<>> /\ phase = "off"

Read == ReadNext /\ UNCHANGED <<site, process, reading, todo, base, managed, asked>>

NotCopied(from) == IF phase = "parsed" /\ reading = "configuration" THEN cfg ELSE from

(* __deepcopy__, override *)
Copied(from) == from

(* applyComponentDefaults, addComponentDefaultInc, parse_file *)
Parses(conf, from) ==
    /\ cfg' = [Copied(from) EXCEPT !.component = conf.component]
    /\ frames' = <<File(site.inc, conf.component, FALSE), File(conf.text, conf.component, FALSE)>>
    /\ phase' = "parse"

DefaultsRead ==
    /\ phase = "parsed" /\ reading = "defaults"
    /\ base' = cfg /\ reading' = "configuration"
    /\ Parses(IF process = "manager" THEN Head(todo) ELSE Main, cfg)
    /\ UNCHANGED <<db, site, process, todo, managed, asked>>

(* The manager has read a configuration, and goes on with the next. *)
ManagerFinalizes ==
    /\ process = "manager" /\ phase = "parsed" /\ reading = "configuration"
    /\ managed' = IF Head(todo) = Main THEN Finalized(cfg) ELSE managed
    /\ todo' = Tail(todo)
    /\ UNCHANGED base
    /\ IF Len(todo) > 1
       THEN Parses(todo[2], base) /\ UNCHANGED <<db, site, process, reading, asked>>
       ELSE Starts("instance")

(* One exception, and nothing is managed. *)
ManagerFails ==
    /\ process = "manager" /\ phase = "failed"
    /\ managed' = None /\ todo' = <<>>
    /\ UNCHANGED base
    /\ Starts("instance")

InstanceFinalizes ==
    /\ process = "instance" /\ phase = "parsed" /\ reading = "configuration"
    /\ cfg' = Finalized(PollBroker(CommandLine(cfg)))
    /\ process' = "running"
    /\ UNCHANGED <<db, frames, phase, site, reading, todo, base, managed, asked>>

(* The plugins of the flow are loaded, and declare their options. *)
LoadPlugins ==
    /\ process = "running" /\ asked = {}
    /\ cfg' = [cfg EXCEPT !.plugin = [k \in PluginOption |-> AddOption(cfg, k)]]
    /\ UNCHANGED <<db, frames, phase, site, process, reading, todo, base, managed, asked>>

(* A transfer looks up where it downloads from or sends to. *)
LookUp(url) ==
    /\ process = "running" /\ Cardinality(asked) < MaxLookups /\ url \notin asked
    /\ db' = Get(db, url).db
    /\ asked' = asked \cup {url}
    /\ UNCHANGED <<cfg, frames, phase, site, process, reading, todo, base, managed>>

Next ==
    \/ Read \/ DefaultsRead \/ ManagerFinalizes \/ ManagerFails \/ InstanceFinalizes \/ LoadPlugins
    \/ \E url \in Urls : LookUp(url)

Spec == ConfigurationsInit /\ [][Next]_vars

-----------------------------------------------------------------------------
(* What the text says, read without reading it line by line. *)

Raises(line) == line.k \in Broker /\ line.v.scheme = "amqp" /\ line.v.user = None /\ line.v.port # None

(* The text of an include, up to the line that ends it. *)
Inlined(line, component) ==
    LET lines == [i \in DOMAIN Included[line.v] |-> Meant(Included[line.v][i], "none")]
        bad == SelectInSeq(lines, Raises)
    IN IF line.k # "include" THEN <<Meant(line, component)>>
       ELSE IF line.v \notin DOMAIN Included THEN <<>>
       ELSE IF bad = 0 THEN lines ELSE SubSeq(lines, 1, bad - 1)

Text == FlattenSeq([i \in DOMAIN site.defaults |-> Inlined(site.defaults[i], "none")])
        \o FlattenSeq([i \in DOMAIN site.inc |-> Inlined(site.inc[i], site.component)])
        \o FlattenSeq([i \in DOMAIN site.text |-> Inlined(site.text[i], site.component)])

(* A broker line counts if the broker is known: its password is in the line or in the file. *)
Known(url) ==
    \/ url.user # None /\ url.pass # None
    \/ url.scheme = "amqp" /\ url.user = None /\ url.port = None
    \/ \E i \in DOMAIN site.credentials : IsValid(site.credentials[i]) /\ Fits(url, site.credentials[i])

Named(url) == IF url.user = None /\ url.scheme = "amqp" THEN [url EXCEPT !.user = Anonymous, !.pass = Anonymous] ELSE url

LastLine(text, i, k) ==
    SelectLastInSeq(SubSeq(text, 1, i - 1), LAMBDA line : line.k = k /\ (k \in Broker => Known(line.v)))

(* A variable stands for what was declared before the line that uses it. *)
Value(text, i) ==
    LET declared == LastLine(text, i, "declare")
    IN IF text[i].v = Variable /\ declared # 0 THEN text[declared].v ELSE text[i].v

InForce(text, i, k) ==
    LET last == LastLine(text, i, k)
    IN IF last = 0 THEN Default[k] ELSE IF k \in Broker THEN Named(text[last].v) ELSE Value(text, last)

(* The options in force at a line, in the form that the operators above take. *)
OptionsAt(text, i) ==
    [Fresh EXCEPT !.opt = [k \in Single \cup Broker |-> InForce(text, i, k)], !.component = site.component]

Subtopics(text) == {i \in DOMAIN text : text[i].k \in {"subtopic", "topic"} /\ InForce(text, i, "broker") # None}

BrokerAndQueue(c) == <<Shown(c.opt["broker"]), c.opt["queueName"]>>

SaidBinding(text, i) == [Binding(OptionsAt(text, i), 0, text[i].v, text[i].k = "topic") EXCEPT !.shared = 0]

SaidSubscriptions(text) ==
    {<<BrokerAndQueue(OptionsAt(text, i)), SaidBinding(text, i)>> : i \in Subtopics(text)}

Subscribed(c) ==
    UNION {{<<<<Shown(s.broker), s.template>>, [b EXCEPT !.shared = 0]>> : b \in Range(s.bindings)}
              : s \in Range(c.subscriptions)}

(* A publisher for what is in force at each next post_broker, and at the end. *)
Sections(text) ==
    {i \in 1 .. Len(text) + 1 :
        /\ i > Len(text) \/ text[i].k = "post_broker"
        /\ InForce(text, i, "post_broker") # None}

Shows(p) == <<Shown(p.broker), p.exchange, p.topicPrefix, p.baseUrl>>

AtEnd(c) == [c EXCEPT !.opt["post_exchange"] = IF @ = None THEN <<"xs", c.opt["post_broker"].user>> ELSE @]

(* The publisher of the section that ends at line i. *)
SaidPublisher(text, i) ==
    LET c == OptionsAt(text, i) IN Publisher(IF i > Len(text) THEN AtEnd(c) ELSE c)

(* A section that differs from an earlier one in its post_baseUrl alone is dropped. *)
OnlyAnotherUrl(text, i) ==
    \E j \in Sections(text) : j < i /\ SamePublisher(SaidPublisher(text, j), SaidPublisher(text, i))

SaidPublishers(text) ==
    {Shows(SaidPublisher(text, i)) : i \in {j \in Sections(text) : ~OnlyAnotherUrl(text, j)}}

(* What an instance ends up with, if there is no subtopic: a poll reads what it posts. *)
OptionsAtEnd(text) ==
    LET c == OptionsAt(text, Len(text) + 1)
        posts == c.opt["post_broker"]
    IN IF c.component = "poll" /\ posts # None /\ (c.opt["broker"] = None \/ c.opt["vip"])
       THEN [c EXCEPT !.opt["broker"] = posts, !.opt["post_exchange"] = AtEnd(c).opt["post_exchange"]]
       ELSE IF posts # None THEN AtEnd(c) ELSE c

Everything(c) == IF c.opt["broker"] = None THEN {} ELSE {<<BrokerAndQueue(c), Binding(c, 0, "#", FALSE)>>}

-----------------------------------------------------------------------------
(* The instance reads from the queues that the text says: every subtopic is bound with the
   broker, exchange, prefix and queue in force at its line, and lines for the same broker
   and queueName share one queue (Subscription.__init__, Subscriptions.add,
   _resolveQueueName, the last lines of finalize). *)
SubscribedAsWritten ==
    process = "running" =>
        /\ Subscribed(cfg) = IF Subtopics(Text) # {} THEN SaidSubscriptions(Text) ELSE Everything(OptionsAtEnd(Text))
        /\ \A s, t \in Range(cfg.subscriptions) :
              Shown(s.broker) = Shown(t.broker) => (s.name = t.name <=> s.template = t.template)

(* Every post_broker becomes a publisher with the options of its own section of the text,
   those between it and the next, post_baseUrl included (the post_broker setter,
   Publishers.add, finalize).  Except that of sections for the same broker, exchange and
   prefix only the first becomes one, though they announce other URLs: see OnlyAnotherUrl
   and SamePublisher. *)
PublishedAsWritten ==
    process = "running" => {Shows(p) : p \in Range(cfg.publishers)} = SaidPublishers(Text)

(* Messages are filtered by the accept and reject lines in the order of the text, each with
   the directory and mirror in force at its line (_build_mask). *)
SaidMasks(text) ==
    LET said == [i \in DOMAIN text |->
                    IF text[i].k \in {"accept", "reject"} THEN Mask(OptionsAt(text, i), text[i]) ELSE None]
    IN SelectSeq(said, LAMBDA m : m # None)

MasksAsWritten ==
    process = "running" => SelectSeq(cfg.masks, LAMBDA m : m # None) = SaidMasks(Text)

(* A line of credentials.conf that fits a URL stays its answer, whatever was looked up
   before, unless somebody gave another password for that user (get, _resolve, add). *)
Contradicted(url) ==
    \E other \in asked \cup {line.v : line \in {l \in Range(Text) : l.k \in Broker}} :
        /\ other.pass # None /\ WithoutPassword(other) = WithoutPassword(url)
        /\ other \notin Range(site.credentials)

LookupsStable ==
    process = "running" =>
        \A url \in Urls :
            LET line == SelectInSeq(site.credentials, LAMBDA l : IsValid(l) /\ Fits(url, l))
            IN line # 0 /\ ~Contradicted(url) => Get(db, url).details = site.credentials[line]

(* The manager understands a configuration as its instance does, whichever others it reads
   before (deepcopy of the defaults, one Credentials for all).  Not for a poll, which gets
   its broker only in one_config; and not where the only password of a broker is in
   another configuration, which the manager knows and the instance does not. *)
KnownFromOthers ==
    \E o \in Range(site.others), line \in Range(Text) :
        /\ line.k \in Broker /\ ~Known(line.v)
        /\ \E l \in Range(o.text) : l.k \in Broker /\ l.v.pass # None /\ Shown(l.v) = Shown(line.v)

Understood(c) ==
    <<Subscribed(c), {Shows(p) : p \in Range(c.publishers)}, c.masks, c.events, c.early, c.late>>

ManagerAgrees ==
    process = "running" /\ asked = {} /\ managed # None /\ site.component # "poll" /\ ~KnownFromOthers
        => Understood(managed) = Understood(cfg)
=============================================================================
