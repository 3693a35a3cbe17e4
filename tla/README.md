# A verification project for sarracenia

Sarracenia (sr3) moves files between data pumps by notification messages: a
*flow* takes messages from a broker, decides which of them matter, transfers the
files they announce and posts messages about its own copies to the next broker.
What makes it hard is not the transfer but the promise around it. A message that
the broker has been told to forget must end up somewhere: posted, rejected for a
reason, or in a retry queue on disk or in Redis, through failures, stops, kills
and restarts; and what is announced must be there, whole, under the name that
the message gives.

This directory holds TLA+ modules of the parts of the program that keep that
promise, the TLC configurations that check them, and TLAPS proofs of the most
important results. Every definition is translated from the Python source;
`PROJECT.json` gives the lines for each one. Paths below are relative to `src/`.

| module | what it models | source (under `sarracenia/`) |
|---|---|---|
| `RetryQueue` | what a retry queue promises: first in first out, at least once | abstract |
| `DiskQueue` | the retry queue in three files | `diskqueue.py` |
| `RedisQueue`, `RedisRetriesProofs` | the retry queue several instances share in Redis, and theorems about it and `Retries` | `redisqueue.py` |
| `Retries` | how often the retry callback tries a message; `RedisQueue` chooses between the two | `flowcb/retry.py` |
| `Flow`, `FlowProofs` | the loop of one instance, its worklists, the retry and message callbacks; theorems | `flow/__init__.py`, `flowcb/retry.py`, `flowcb/post/message.py` |
| `NoDupe`, `NoDupeProofs` | duplicate suppression, in a file and in Redis; theorems | `flowcb/nodupe/` |
| `Amqp`, `MqttSub`, `MqttPub`, `Amq1`, `MothProofs` | the two sides of each broker client; `Moth` chooses one; theorems | `moth/` |
| `Download`, `Sender`, `Mirror`, `BlockReassembly`, `Connection`, `TransfersProofs` | the work on files; `Transfers` chooses one; theorems | `flow/__init__.py`, `transfer/`, `flowcb/block_reassembly.py`, `blockmanifest.py` |
| `Watch`, `Schedule`, `Poll`, `AmServer`, `SourcesProofs` | where messages come from if not from a broker; `Sources` chooses one; theorems | `flowcb/gather/`, `flowcb/scheduled/`, `flowcb/poll/` |
| `Processes`, `QueueState` | commands beside instances, and the state files they share; `Management` chooses one | `sr.py`, `instance.py`, `config/` |
| `StateFilesProofs` | theorems about what is kept in the state directory: `DiskQueue`, and both parts of `Management` | |
| `Placement`, `Relay` | places and URLs in a message; message formats, and a tree relayed in them from host to host | `flow/__init__.py`, `__init__.py`, `postformat/`, `flowcb/v2wrapper.py` |
| `FileIdentity` | checksums, kept in the attributes of the file | `__init__.py`, `filemetadata.py`, `identity/` |
| `Configurations` | credentials and the text of a configuration, read by the manager and by instances | `config/` |
| `Contents` | chooses one of `Relay`, `FileIdentity`, `Configurations` | |
| `ListLemmas` | what the proofs use of lists | |
| `MC...` | the instances TLC checks | |

`Moth`, `Transfers`, `Sources`, `Management` and `Contents` compose modules: the
first step of a process settles which of the components it is (`subFactory`,
the component's name, the command given), a behaviour is of that one, and the
others stay "off". What the composed components have in common, and what the
rest of the flow assumes of each, is stated there once.

## 1. Inventory

The parts of the system, the state each keeps, what it does with it and what has
to be true of it. `PROJECT.json` lists the same parts with their status, and the
hazards at their lines.

**Flow** (`sarracenia/flow/__init__.py`). State: the worklists `incoming`, `ok`,
`rejected`, `failed`, `directories_ok`, the flags `_stop_requested` and
`have_vip`, the time of the next housekeeping. `run` repeats: look at the stop
request and the vip, housekeeping when due, `gather`, `filter`, `work`, `post`.
Each stage calls the entry points of the loaded callbacks. It acknowledges
messages at the end of `filter` (what goes no further) and in `work` (everything
else), before the results are posted. Hard: a stop or a kill at any point,
messages that fall out of the worklists, the order of acknowledging and saving.
Correct when no acknowledged message is dropped, every message gathered is
acknowledged, nothing is left in memory between passes, and a stop ends.

**Retry callback** (`flowcb/retry.py`) keeps two queues, `work_retry` for
messages whose transfer failed and `post_retry` for copies a publisher refused.
It refills `incoming` in `gather` (with `retry_refilter`) or in `after_accept`,
refills `ok` in `after_work`, saves `failed` in `after_work` and `after_post`,
and counts in each message how often that happened (`_isRetry`). Correct when
what is put aside is tried again, and not more often than `retryCountMax`.

**Disk retry queue** (`diskqueue.py`). State: the files `queue_file`, `.new` and
`.hk`, the position of `queue_fp`, the counters `msg_count` and `msg_count_new`,
`retry_cache` during housekeeping. Hard: kills between system calls, torn lines,
counters that steer which file is removed. Correct when no entry is lost, when
the counters agree with the files and every entry is offered in the end.

**Redis retry queue** (`redisqueue.py`): three lists, `last_hk` and a lock,
shared by all the instances of a configuration. Hard: interleavings of `get`,
`put` and `on_housekeeping` of several instances, the death of the lock's owner.

**Duplicate suppression** (`flowcb/nodupe/`): a dictionary of keys and paths with
times, and the cache file that lets a restarted instance load it again; or keys
in Redis that expire, shared by instances. Hard: buffering, the rewriting of the
file at housekeeping, messages that are delivered again or come from the retry
queue, look-up and entry as two commands. Correct when a file does not pass
twice within `nodupe_ttl`, and when what is rejected has a duplicate.

**Message clients** (`moth/`). State: the connection and its number, the time of
the next attempt after a failure (`setEbo`), deliveries in hand with their
`ack_id`, for MQTT and AMQP 1.0 the queues between the main thread and the
library's. Operations: `getSetup`/`putSetup`, `newMessages`/`getNewMessage`,
`ack`, `putNewMessage`, `close`. Hard: connections that break between any two
frames, acknowledgements that arrive on another thread or name a delivery of an
earlier connection, publishes whose answer is lost. Correct when the broker
keeps a message until it was worked on, when `True` from `putNewMessage` means
that the broker has the message, and when a client always comes back.

**Transfers** (`Flow.download`, `Flow.send`, `do_fileOp`, `transfer/`,
`flowcb/block_reassembly.py`). State: the file under its inflight name and its
final one, the local and the remote tree, the number of attempts, the object and
connection kept from one file to the next, the manifest of blocks with its lock.
Hard: transfers that break off, files that change while they are read, several
instances at one path, retries that come after later messages, kills. Correct
when readers see whole files only, both ends agree once all was dealt with, and
what is reported was done.

**Sources**: **watch** (`flowcb/gather/file.py`: events from the thread of the
observer, worked off later against the tree as it is by then), **scheduled**
gathering (`flowcb/scheduled/`: the appointments of a day), **poll**
(`flowcb/poll/`: nodes that share an address and learn one another's posts) and
the **AM server** (`flowcb/gather/am.py`: a child per connection, bulletins cut
out of a stream of bytes). Correct when nothing is missed and nothing done
twice.

**Process management** (`sr.py`, `instance.py`): a pid file for each instance
and marker files that say what goes on; `start`, `stop`, `restart`,
`clean-restart`, `sanity`, `disable`, `enable`, `declare`, `cleanup`. Each command
reads processes and files once and acts on what it has read, while a regular
`sanity`, other commands and the instances go on. Correct when an instance is one
process, stop stops, sanity repairs, and the instances share the right queues.

**Configuration** (`config/`): the options as they stand at a line of the text,
subscriptions, publishers, masks, plugins; credentials in a data base that every
look-up adds to. Correct when the manager and the instance understand the same
of a text, and what it says.

**Messages** (`__init__.py`, `postformat/`): places (`baseUrl`, `relPath`,
`new_dir`, `new_file`, paths in `fileOp`), checksums, four formats on the wire.
Correct when what is announced can be fetched at its URL by the next host, with
the checksum of the file.

**Logging and reports**, **broker administration**, **site plugins**: not
modelled, see section 6.

How they interact: `run` calls callbacks by name, in the order they were loaded;
all of them work on the one `worklist` object. Acknowledgement goes from
`Flow.ack` to the message callback and on to the client that delivered the
message. Instances of one configuration share the broker's queue, the
destination directory and, with `retry_driver redis`, the retry lists; otherwise
each has its own files. The signal handler only sets `_stop_requested`. Nothing
else runs concurrently in an instance, but for the threads of the MQTT and
AMQP 1.0 clients and of the directory observer. Commands and instances interact
by signals and by the files of the state directory.

## 2. The modules and the code

Every module names what it excuses. Where the code can go wrong in a known way
(two instances that transfer one path at once, an address that moves before an
announcement has arrived), a history variable records that it has happened, and
the property is claimed for every behaviour in which it has not, in the same
formula. These variables (`past`, `mpast`, `zpast`, `bpast`, `ppast`, `apast`,
`rpast`, `excused`, `raced`, `misled`, `mispaired`, `torn`, `missed`, `overlap`, `early`, ...)
read no other state into the model: no guard of a step of the program depends on
them. Their comments say what each stands for, and together they are the list of
what an operator of this program has to know.

### DiskQueue

One variable for the lines of each file, its modification time, the position
`fp` of `queue_fp` (0 when it is None), the two counters, `self.now`, the state
of the housekeeping in progress, and `owed`, a history variable: the messages
that were put and have not been handed out, expired or merged with a duplicate
since. A line is a message, an unterminated fragment (`Frag`) or a line that does
not decode (`Junk`).

| action | code |
|---|---|
| `Put` | `put`, with the write and the flush; `Extend` joins the first message to an unterminated line |
| `GetCall`, `GetLine`, `GetEOF`, `GetReturn` | the early return of `get`, a turn of its loop, the end of the file, the removal of the file once the counter is zero |
| `HkStart` ... `HkUnlink` | `on_housekeeping`: the guard, one line of `queue_file` or `.new` (`needs_requeuing`), the end of a file, the exception handler, the rename, the removal of `.new` |
| `Stop`, `Crash`, `CrashInPut` | `close` by `Retry.on_stop`; a kill between system calls; a kill inside a write |
| `Restart` | `__init__`, with the comparison of modification times that decides whether `.new` is kept |
| `Cleanup` | `sr3 cleanup` of a stopped configuration |

`get` and `put` are atomic towards each other because an instance is
single-threaded, and cut into steps because it can be killed. The modification
time of `queue_file` is that of the `.hk` it was renamed from.

### RetryQueue

What a user of the queue may rely on: entries are handed out in the order in
which they were put; a kill gives back entries that had been handed out (never
the reverse); housekeeping leaves out only duplicates of entries it keeps and
keys with an expired entry. `DiskQueue` implements it under the mapping in
`Abstract`: the queue is the unread part of `queue_file` followed by `.new`; what
has been read of `queue_file` is what a kill would bring back.

### RedisQueue

A step is one Redis command of one instance. `due` says whether the housekeeping
interval has passed since `last_hk`; `seenOld[i]` is what instance `i` takes for
expired, by the clock it read last. `HkStart` to `HkRelease` follow
`on_housekeeping`: the reads of `last_hk` and of the lock, the wait for another
owner, `acquire`, the test of the list under the lock, one pop and one push at a
time, the rename, the time stamp, the release. A killed owner leaves the lock to
`Orphan` until Redis expires it. `HkException` and `HkRenameFails` are the two
handlers of the code. `atRisk` is a history variable: the entries a housekeeping
held when it was cut short.

### Flow

A worklist is a sequence of `<<message, has ack_id>>`; a message from a retry
queue has no `ack_id`. What happens to a message in a stage is chosen freely: a
mask accepts or rejects, a transfer works, fails for now or for good, a publisher
takes a copy or refuses it. The options that change the control are in `o`:
`download`, and `retry_refilter`.

| action | code |
|---|---|
| `BeginPass`, `EndPass`, `Close` | the two ends of the loop of `run`, and `close` |
| `Gather` | `gather` with the message callback and `Retry.gather` |
| `FilterOne`, `AfterAccept` | a turn of the loop of `filter`; its end, `Retry.after_accept` and the acknowledgements |
| `DoOne`, `WorkAck`, `AfterWork` | a turn of the loop of `do_download`; the acknowledgements and the copies for each publisher; `Retry.after_work` |
| `PostOne`, `AfterPost` | a turn of the loop of `post.message`; `Retry.after_post` and the emptying of the worklists |
| `StopRequest`, `Kill`, `Restart` | the signal, and what happens to a process |
| `Reconnect` | the broker delivers again what was not acknowledged (external) |

The retry queues of `Flow` are what `DiskQueue` is shown to be: available
entries, entries handed out since the file was made, and entries put since.
`posted` counts to two only (`MaxPosted`), since nothing distinguishes more.
`RenameAway` and `RenameHere` are messages with a rename operation, which the
code treats in its own way in `filter` and in `do_fileOp`.

### NoDupe

The cache dictionary, the cache file (the time of the last line of each entry)
and the buffer between them. `CheckOne` is a turn of the loop of `after_accept`
with `check_message` and `_not_in_cache`; `AcceptEnd` flushes and acknowledges
what was rejected; `SaveUnlink` and `SaveClean` are the two halves of `save`,
between which the instance can be killed; `Restart` is `load`. `Gather` and
`Work` stand for the rest of the flow. A key and path are one value, `entry[m]`.

The second part of the module is the driver that keeps its keys in Redis: `RGet`
and `RSet` are the two commands of `_is_new`, of several instances, between
`RGather` and `RWork`; what has not been looked up for `nodupe_ttl` expires.
`SuppressionSpec` is a behaviour of one of the two drivers.

### Retries

`Retries` follows `_isRetry` through the stages of the flow: where each message
is, and how often it was taken out of each queue (`retries`, `reposts`). It leaves
out what `Flow` has (kills, lost connections, worklists), and `Flow` leaves out the
counter, so that each stays small. The arithmetic of `batch` (halved, rounded or
not) is the code's.

### The clients: Amqp, MqttSub, MqttPub, Amq1

A consumer is the loop of the message callback: set-up, gather, work, acknowledge;
a publisher is a caller that posts again what was refused. The broker is external,
and each module has as much of it as the client can tell: the queue, deliveries
that are out, transactions, a session. `Break`, `OnDisconnect`, `Lost` and
`SendBreak` cut a connection between any two steps.

| module | actions and code |
|---|---|
| `Amqp`, a consumer | `NextClient`, `SetupFails`, `SetupOK`: `getSetup`; `Get`, `GetPushed`, `GetNone`, `GetFails`: `getNewMessage` with `basic_get` and with a registered consumer; `NextAck`, `Ack`: `ack` of the message callback over all subscriptions, and of the client; `OnStop`, `Kill`, `Restart` |
| `Amqp`, a publisher | `putNewMessage` in its frames: set-up, `basic_publish`, `tx_commit` and its answer, and the handlers that close |
| `MqttSub` | `NewMessages`, `GetSetup`..., `Drain`, `DrainRaises` (a body that cannot be taken apart ends the call, and what it had in hand is lost until the next connection: `sdropped`), `Ack` on the main thread; `OnConnect`, `OnConnectSubscribe`, `OnSubscribe`, `OnDisconnect` on the network thread; `Deliver`, and the deliveries sent again under the same packet id |
| `MqttPub` | `Publish`, then `TestUnexpected` and `AppendPending`, against `OnPublishTest` and `OnPublishDo` on the network thread, which are the test and the update of the same two lists; `Close`, and its wait for them |
| `Amq1` | one class for both sides: the main thread, and the thread of every receiver that `connect` has made, also of those it has replaced; a blocking send |

`Moth` chooses the class as `subFactory` and `pubFactory` do, by the scheme.

### The work on files: Download, Sender, Mirror, BlockReassembly, Connection

| module | actions and code |
|---|---|
| `Download` | several instances at one path: `Gather`, `CheckInflight`, `CheckLocal` (`file_should_be_downloaded`), `Connect`, `LocalWriteOpen`, `ReadWrite`, `Truncated`, `LocalWriteClose`, `EndGet`, `CheckLength`, `RemoveOld`, `Rename`, `SetLocalFileAttributes`, one system call each; `GetBreaks`, `Kill`; `UpstreamWrite` overwrites the file while it is read. A file is an inode with the chunks written so far, so that a file renamed while another instance has it open is what it is on a disk |
| `Sender` | `do_send` and `send` for the message at hand and a server whose connection breaks between any two operations: `Connect`, `CdForced`, `Put`, `PutBreaks`, `RenameInflight`, and the operations on files and directories as each protocol has them, with what each class hides from its caller. In a store put writes below the directory of the last `cd`, and delete, rmdir and the rename of s3 take the bare name: they find nothing (`Moves`, `IsStore`). `overtaken` and `gone` are histories |
| `Mirror` | `do_download` with `do_fileOp`, `removeOneFile`, `renameOneItem`, `mkdir`, `link1file`, `write_inline_file`: a message is worked off in one step against the local tree, or put off; `Happen` is upstream |
| `BlockReassembly` | `DownloadPart`, `LockRoot`, `CopyBlock`, `UnlinkPart`, `WriteManifest`, `UnlockRoot`, `PostFile` of several instances; `BreakLock` takes away a lock that was left, `BreakLockInUse` one that is in use |
| `Connection` | `check_is_connected`, `connect`, `close`, `cd` of each class, for a series of files at different servers and directories |

What differs between protocols is a table in each module (`SftpGet`, `FtpGet`,
...: does it truncate, raise, stat, resume), read off the class.

### Sources: Watch, Schedule, Poll, AmServer

`Watch`: `Change` is what happens in the tree, `OnAdd` the observer's thread with
the replacement of an event by a later one of the same key, `Gather` takes what is
there, sorts it by age (`LeftForLater`), and works it off one event at a time
against the tree as it is by then; `StartWalk` and `WalkOne` are the walk at the
start, `WalkRaises` its end when something goes in the middle of it. A link that
moves is announced as a file if it leads to one, and otherwise by its new name
only (`relink`). What is posted is applied to a copy. `Schedule`: half minutes, a day of a few
minutes, appointments as the code keeps them (`appointments`, `next_gather_time`).
`Poll`: the passes of nodes (`RunVipUpdate`, `GatherMessages`, `GatherScheduled`,
`PollDirectory`, `PollDone`, `Filter`, `Post`); `VipMoves` between any two of them.
`AmServer`: `Accept`, `Fork`, `Exec`, `OnStartChild` with the `.conn` file and the
lowest instance number; `StopsAccepting` is the exception that ends the parent,
whose children go on; `Send` cuts the bytes of the bulletins anywhere, `AddBuffer`
and `Unwrap` put them together again.

### Management: Processes, QueueState

`Processes`: `live` is the process table, `pidfile` and `tags` the state directory.
A command is a record `cmd[w]` of what it has read and how far it got: `ReadProcs`
and `ReadStates` are two steps, as the code lists processes first and reads files
afterwards, and every later step goes by what was read. `StartLaunch`, `StartDone`,
`StopTerm`, `StopCheck`, `StopKill`, `StopLast`, `SanityProcs`, `SanityFix`,
`SanityStrays`, `Disable`, `Enable`, `Cleanup` follow the commands; `WaitForLead`,
`OpenPidFile`, `WritePid`, `RunFlow`, `EndInstance`, `OutOfMemory` and `Exec` an
instance. A pid may be used again once nothing knows it any more.

`QueueState`: three parsers of one configuration (the command line, the lead
instance, a worker) read and write `subscriptions.json` and the `.qname` files in
the steps of `_resolveQueueName` and `finalize`, where a file can be read half
written.

### Contents: Relay, FileIdentity, Configurations

`Placement` has the operators on a message (a function on the names of its fields):
`updateFieldsAccepted` with `Stripped`, `Flattened`, `Rebased` and `Unbased`,
`updatePaths`, `work_message_adjust`, `fromFileInfo`. A string is a sequence of
tokens, so that a prefix of a string need not be a prefix of a path, as in the code.
`Relay` has `exportMine` and `importMine` of v02, v03, WIS and SWIM, and `mine`,
which tells them apart, and sends a tree along hosts with these operators: it
checks where the files end up, not how they are transferred.

`FileIdentity`: `ComputeIdentity`, `ReadChunk`, `Calculate`, `Persist`, `Inlined`,
`Post` of several processes; a checksum is the sequence of units that went into it. The
attributes that the next process goes by are excused in two ways: `misled` when they were
written for another content (two writes in one tick, two processes at once), `mispaired` when
the code itself writes a time beside a checksum of something else (a failing read, a file in
parts, `md5name`).

`Configurations` reads a text line by line into `cfg`, with includes as frames, and
lets the manager read several texts from copies of the same
defaults, then the instance read its own, then look up URLs. The reference the
results are compared with is stated on the text alone (`SaidSubscriptions`,
`SaidPublishers`, `SaidMasks`): the options in force at a line are those set by the
lines before it.

## 3. Runs

| run | result | what it shows |
|---|---|---|
| `diskqueue` | passes | with kills anywhere, nothing accepted is lost (`OwedOnDisk`), the counter is exact and keys are distinct (`QueueFileRight`), and the files implement `RetryQueue` |
| `diskqueue_live` | passes | with torn lines and failing housekeepings the counter is never too small, every interval ends and no entry waits for ever (`IntervalsServe`) |
| `redisqueue` | passes | two instances: nothing is lost but what a cut housekeeping had moved, no key is offered twice, nobody waits for ever; and no message is tried more often than `retryCountMax` |
| `retry_count` | violation | a message is given up without one more attempt (`retryCountMax 1`): the counter is raised twice for each |
| `nodupe` | passes | entries are in the file before the work begins, no file passes twice within the time to live, a rejected message has a duplicate; with Redis, a file that keeps coming passes once |
| `flow` | passes | no acknowledged message is dropped, all are acknowledged by the end of a pass and nothing stays in memory (`PassEndsClean`), nothing is posted twice without cause |
| `flow_live` | passes | batch of one, two publishers, renames: a stop ends the instance and what is put aside is tried again (`FlowServes`), no copy is dropped |
| `clients` | passes | `Consumed`: what the broker forgets was worked on, and neither messages nor link credit nor the receive window leak, but for what a raising `newMessages` had in hand. `PostingKnown`: what `putNewMessage` returns is so, nothing arrives twice without a failure, `pending_publishes` is what is unanswered. `ClientsServe`, `CloseLosesNothing` |
| `transfers` | passes | `WholeFiles`: readers see nothing or a whole version, downloaded, uploaded or put together from blocks. `TreesRight`: both ends agree when all was dealt with. `AnnouncedIsDone`: what is reported as done was done, but for what a protocol is known to report without. `GapIsOwed`: what the rename of sftp took away before it broke comes back, or is still owed. `ConnectionRight`, `TransfersEnd` |
| `management` | passes | `InstancesKnown`: an instance is one process, the one of its pid file. `StoppedProperly`: stop leaves nothing running, kills nothing it has not asked to end, and what it ended is not started again. `QueuesRight`. `SanityRepairs`: no mark outlives its command, and when sanity has done its work every instance that was started has a process that does not hang |
| `sources` | passes | `NothingMissed` (changes, appointments, bulletins), `NothingTwice` (appointments, versions, instance numbers), `SourcesSettle` |
| `contents` | passes | `PlacesRight`: what is announced can be fetched, and trees agree. `ContentsRight`: checksums, blocks and inlined contents. `AsWritten`, `UnderstoodAlike`: subscriptions, publishers and masks are those of the text, for the manager and the instance alike, and look-ups do not depend on one another |

A property of a composed module is the conjunction of the properties of its
components, each stated beside the actions it is about. For every property
`PROJECT.json` names a mutant, a definition changed the way a plausible bug would
change the code, under which TLC refutes it. A type invariant is defined in every
module with state; the one of `DiskQueue` is checked in a run and proved.

Bounds, and why they are enough:

* `DiskQueue`: three messages, two of them with the same key and one that
  expires at the second tick; `.new` of up to three lines, batches of up to two.
  Duplicates inside one file and across files, expiry between put and
  housekeeping, equal and different modification times, and a second kill before
  the first has been recovered from (`MaxEnds = 2`; 1 in the liveness run) all
  happen.
* `RedisQueue`: two instances, `MaxFaults = 2` kills or failing commands in any
  mixture, `.new` of `MaxNew` entries. The code treats instances alike and knows
  one lock, so a third adds only another waiter. `Retries`: two messages,
  `retryCountMax` off, 1 and 3, with and without `retry_refilter`, batches of 1 and 3.
* `Flow`: two messages, so that one can fail while the other goes on and a batch
  can be full or not; one publisher with a batch of two, a kill, a lost
  connection and a restart; in the liveness run two publishers with a batch of
  one, the value at which the rounding of `batch / 2` matters.
* `NoDupe`: three messages, two of which announce the same file, one can arrive
  too young and one can become too old; `nodupe_ttl = 1` and a clock to 2, so that
  an entry can be inside, at and beyond its time to live; one kill or stop. With
  Redis, two instances.
* `Moth`: two subscriptions on one AMQP broker, one lost connection, failed set-up, stop
  or kill for the AMQP consumer and for that of AMQP 1.0, two for MQTT, three for
  the publishers, whose state is small; messages that are good, that raise when
  they are decoded, that are discarded and (MQTT) that cannot be taken apart. `MaxConn`, `MaxReceiver` and `NMid` only
  name what is in use at once, and are larger than the faults can make them.
* `Transfers`: two instances and versions of one and two chunks, of growing,
  shrinking and equal length; two attempts; scripts of up to seven events that make,
  replace, rename and remove files, directories and links below one another; two
  blocks and a second version of one; four files over two servers and two
  directories with a batch of two.
* `Management`: two instances, six pids, three commands of the operator beside the
  regular sanity, one crash, hang or restart for memory, one interrupted command. For the
  queues: one subscription, two of one user, two of two users; two commands, one
  kill or edit.
* `Sources`: scripts in which events overtake what they are about; appointments at
  the ends and in the middle of a day of three minutes, over three days, and an interval
  as long as a day and a half; links that move, to a file and to nothing; two nodes and a move of the address; three
  connections, one of which is not let in, with bulletins cut up anywhere, and good
  ones before and behind those that cannot be read.
* `Contents`: layouts of three hosts that strip, flatten, rename, mask, use
  other base directories and put the path of the URL before the place; a file of five
  units, read two at a time, in blocks of several sizes, so that a read can go
  beyond the end of a block; texts of up to four lines beside another configuration, chosen to
  have each option before and behind the lines that it applies to.

`Management.cfg` has the constraint `Informed` (defined in `Management`): behaviours are not followed any
further once sanity and another command were at work at once, or a command looked
while an instance had no pid file yet. Nothing is claimed after that (`Orderly` is
a condition of the properties, all of which are safety properties), and the constraint
keeps the run short. There is no liveness property of the commands: a start can wait for ever
for the pid file of an instance that died (`sr.py:2395`), and sanity leaves alone what a start is at
work on, so that "in the end" would be true of the behaviours without such a wait only.

Deadlock is checked for the queues. In the other runs the system may stop: an
instance has been closed and may not be started again within the bounds, the clock has
reached its bound, or all messages, events or lines of the instance have been dealt with.

Fairness. A thread of the program that can go on goes on, since each is a loop that never
waits without a limit, or waits for a condition that the liveness property
mentions; weak fairness of its steps taken together says no more than this.
Strong fairness is assumed of what a loop attempts in every pass while something
else makes it impossible now and then: beginning a `get` or a housekeeping of
`RedisQueue` while others hold the lock, new and retried messages in turn in
`Sender`, locking a file in `BlockReassembly`, a stop between two posts. The parent of the AM server goes on accepting until
an exception ends it (`flowcb/gather/am.py:179`), after which nothing is claimed of connections that
have no child yet. Of the environment it is assumed that a stopped
instance is started again, that back-offs and intervals elapse, that a broker
delivers and answers on a connection that stays up, that Redis expires a lock that
is not renewed (`expire=30`), and that watchdog hands over what it has seen. Faults
are bounded in number and never fair. `Contents` states no fairness: its
properties are about what has been read and written.

## 4. Proofs

The theorems hold for every value of the constants: every set of messages, keys,
publication times and entries, every number of instances, publishers, kills,
lost connections and restarts, every batch, time to live and `retryCountMax`.
Each rests on the assumptions of its module (`ConstantsAssumption`,
`RedisAssumption`, `RetriesAssumption`, `FlowAssumption`, `NoDupeAssumption`,
`ClientsAssumption`; `DownloadAssumption`, `SenderAssumption`, `BlockAssumption`
and `ConnectionAssumption` of `Transfers`; `ScheduleAssumption`, `PollAssumption` and
`AmAssumption` of `Sources`; `ManagementAssumption`: there is an instance, and the operator
gives commands of sr3), which say what kind of value each constant is; sets of messages
are finite, since the models make lists of sets of them. Where a theorem has another hypothesis
it is given below, with what refutes the property without it.

| theorem | property | holds |
|---|---|---|
| `StateFilesProofs!TypeCorrect` | `TypeOK` | with every fault |
| `StateFilesProofs!NoLoss` | `OwedOnDisk` | `Faults = {}`: kills and restarts, no torn line, no failing system call |
| `StateFilesProofs!QueueFileAsCounted` | `QueueFileRight` | `Faults = {}` |
| `StateFilesProofs!OfferedOnce` | `QueueKeysDistinct` | with every fault |
| `StateFilesProofs!CounterCovers` | `CountCovers` | with every fault |
| `StateFilesProofs!Refinement` | `ImplementsRetryQueue` | `Faults = {}` |
| `RedisRetriesProofs!NothingElseLost` | `LostOnlyInFlight` | with every fault |
| `RedisRetriesProofs!OfferedOnce` | `OfferedKeysDistinct` | with every fault |
| `RedisRetriesProofs!TriedAtMost` | `NotMoreOften` | |
| `FlowProofs!NothingLeft` | `NothingLeftInMemory` | |
| `FlowProofs!NothingDropped` | `Accounted` | `KeysTellPublisher` |
| `FlowProofs!PassClean` | `PassEndsClean` | `RenameAway = {}` |
| `FlowProofs!GivenOnce` | `PostedOnce` | `NothingRenamed` |
| `NoDupeProofs!TypeCorrect` | `TypeOK`, `RedisType` | both drivers |
| `NoDupeProofs!FileKnows` | `DurableBeforeWork` | |
| `NoDupeProofs!OnceWithinTtl` | `SuppressedWithinTtl`, an action property | |
| `NoDupeProofs!NoDuplicateOfNothing` | `DuplicateOfSomething` | both drivers |
| `NoDupeProofs!OnceForAll` | `OnceWhileItKeepsComing`, an action property | |
| `MothProofs!PostingIsKnown` | `PostingKnown` | the three publishers, with every fault |
| `MothProofs!NothingLostByClose` | `CloseLosesNothing`, an action property | |
| `MothProofs!AllAmqpConsumed` | `Consumed`, but for the part about MQTT | with every fault |
| `MothProofs!AllConsumed` | `Consumed` | `NoWrap` |
| `TransfersProofs!ReadersSeeWholeFiles` | `WholeFiles` | with every fault |
| `TransfersProofs!AnnouncedRight` | `AnnouncedIsDone` | with every fault |
| `TransfersProofs!ReplacedInTheEnd` | `GapIsOwed` | with every fault |
| `TransfersProofs!ConnectionServes` | `ConnectionRight` | with every fault |
| `SourcesProofs!NothingDoneTwice` | `NothingTwice` | with every fault |
| `StateFilesProofs!InstancesStayKnown` | `InstancesKnown` | with every fault |
| `StateFilesProofs!StopsProperly` | `StoppedProperly` | with every fault |
| `StateFilesProofs!QueuesStayRight` | `QueuesRight` | with every fault |

None of the invariants is inductive as it stands. What the proofs add, and why it
is so in the code:

* **Disk queue.** `OwedOnDisk` says nothing about `.hk`, which holds entries in the
  middle of housekeeping. `DurInv` adds `Copying` (what is owed is in `.hk` or in
  the part of `.new` that is still to be copied; `queue_file` has been removed, which
  follows from the exactness of the counter and the guard of `on_housekeeping`)
  and `Ages` (a `.new` that is older than `queue_file` is empty, but for the moment
  between rename and unlink, when all of it is in `queue_file`). `TypeInv` has that
  no file is open for `get` while housekeeping runs. `OfferInv` follows the keys
  through `retry_cache`: what is in `.hk` is in the cache, and what is in the cache
  is not appended again. `CoverInv` follows the counter: `N` counts at least the
  lines of `.hk`, also when a write fails half way.
* **`DiskQueue` implements `RetryQueue`**: `InitRefines`, and `StepRefines` with one
  step for each action. `Put`, `GetLine`, the end of the file, the rename, the
  unlink, the end of the process, `Restart` and `Cleanup` are the steps `Accept`,
  `HandOut`, `Forget`, `Compact`, `Dispose`, `Die`, `Recover` and `Purge`; the rest
  are stutters. The rename is the hard one: `CompactInv` says that `.hk` is `.new`
  with some lines left out (`Picked`), and that every line left out has its key in
  `.hk` or shares it with an expired one (`Represented`). `DurInv` is needed for a
  kill between rename and unlink, after which the same entries are in both files.
* **Redis queue.** `QInv` adds to `LostOnlyInFlight` that one instance at most is
  between `acquire` and `release` and holds the lock (`TypeOK`), what that instance
  has moved so far and which keys it has seen (`BuildInv`), and that a list nobody
  builds is what a cut housekeeping left (`LeftoversAtRisk`): it is `atRisk` before
  the next housekeeping deletes it.
* **Attempts.** `TriedInv` relates the counter in the message to the attempts made,
  by where the message is: `_isRetry` is ahead of them by what was put in and taken
  out of the queue. `retry_refilter` is excepted in the property itself.
* **Flow.** `StagesInv` says which worklists a stage may find something in, which is
  why nothing stays in memory. `CareInv` is `Accounted` with a queue's entries
  counted by whether the instance runs: what has been handed out is in the file
  still, but nobody reads it before the next start, so it counts only then.
  `UnackedInv` has a message that the broker waits for in a worklist, together with its
  `ack_id`. `OnceInv`: without a kill or a lost connection a message is in one place
  only, and a copy is posted or in one place or neither.
  `KeysTellPublisher` is `~sameUrl \/ NPub <= 1`; `NothingRenamed` is `RenameHere = {}`
  or a flow that does not download. Without these hypotheses, and without
  `RenameAway = {}`, TLC refutes the properties (section 5).
* **Duplicate suppression.** `CacheInv`: an entry that passed is in the dictionary
  (`InMemory`) and, with the lines still in the buffer added, in the file (`InFile`)
  with no older a time; the buffer is empty when the work begins (`Flushed`) and when
  the process has ended (`DownClean`). `forgotten` has the entries of which that is
  not so, after a kill in the middle of `save`. `HandsInv`: instances hold different
  messages. `RaceInv`: of two instances that are between `get` and `set` of one entry,
  the second has put it in `raced`. `CoveredInv`: whatever any part of the cache knows
  has a message that stands for it, which is what makes a later one its duplicate;
  it is an invariant of both drivers, since they share the flow around them.
* **Clients.** A step of `Moth` is one of the six sides of the clients, or a stutter of
  it (`ClientSteps`), so that each side has an invariant of its own.
  `PubInv` and `SendInv` (AMQP and AMQP 1.0, publishing): a transaction holds at most the
  message of the call in progress, and what was committed was reported, or its call
  failed or is still waiting for the answer.
  `PostInv` (MQTT, publishing): each packet id is in one of the places it can be
  (`IdsOnce`), and `InBetween` says what the other thread may have done between the two
  looks of `putNewMessage` at `unexpected_publishes` and `pending_publishes`.
  `SubInv` (AMQP, consuming): a connection id belongs to one client, and a message of the
  batch that has the id of a connection came over it (`ChannelOK`), so that an ack
  names what it means; every delivery the broker holds on an open connection is in
  `_raw_msg_q`, or in the batch where the two loops of `ack` have not come to it
  (`ToAck`, `Covered`). `FreshIdFacts` is a count: a uuid that nothing refers to exists
  where `MaxConn >= 2 * NSub`, since the batch has messages of one connection for
  each subscription (`OneConn`). The assumption stands for a uuid that is never taken.
  `LinkInv` (AMQP 1.0, consuming): tags are per receiver; what the current one holds is
  in `msg_q`, `ack_q` or the batch (`Listed`), and every tag in the `ack_q` of the
  receiver that gave it out names a message that was worked on or is unreadable (`Done`). The tags of a
  receiver that was replaced are the ones `misnamed` is for.
  `SessInv` (MQTT, consuming): an id names one message in the session, in `rx_msg_q` and
  in the batch (`Sent`). That is so as long as no more messages are published than there
  are packet ids (`NoWrap`, 65535 in the protocol), and the theorem needs it: see section 5
  for what happens when they start again. `WindowInv`: what the broker waits for on a live connection is in
  `rx_msg_q`, in the batch, still to be sent again, or was dropped by a `newMessages` that raised.
* **Transfers.** A step of `Transfers` is one of its components, or a stutter of it
  (`TransferSteps`). `ConnInv`: the object is at the server of the message once it is past the
  look at `sendTo`, in its directory once it is past `cd`, and `batch` is less than what it has
  served. `SendInv`: between the upload and the rename the temporary name holds a whole file, and
  whatever is reported without having been done is a case that the protocol hides (`KnownFalse`).
  `GapInv` is `GapIsOwed` with what it needs of the upload in progress: a name is gone by sftp only, and
  an upload that comes to its length has given the name back.
  `BlockInv`: as long as nobody breaks a lock that is in use, an instance that is between `lock`
  and `unlock` is the only one, what it has read of the manifest is what the manifest says, and a
  part file holds its block of one version (`Locks`, `Manifest`, `Parts`). `AnnounceInv`: a block
  that is no longer waited for has been copied (`InHand`), and somebody is on the way to announce
  the file once the last one was (`OnItsWay`). `DownInv`: one writer has the inflight file open,
  and only while it is the one under the inflight name (`OneWriter`, `OwnFile`); what it has
  written is what was read of one version (`AsRead`). `LatestInv` goes by the time in the file in
  place: it is that of a version together with the identity that was posted, or that of a local
  write, and the latest version is posted, in the queue, put aside, or under way.
* **Sources.** `SchedInv` has that the last appointment answered lies before the next one. `AmInv`:
  of two children with one number, both were forked while another had yet to write its `.conn`
  file; that `get_lowest_instance` finds a free one is a count (`LowestIsFree`: there are more
  numbers than connections). `PollInv` (`Counted`): a version of a file that was posted is in the
  duplicate suppression of some node; one that was not is held by at most one node, once, in its
  batch or its retry queue. That a listing has each file once is the one fact that needs
  induction: `P!Without` is defined over the indices of the list, so that `ListLemmas!UpTo` does.
* **Processes.** `ProcInv` holds what follows as long as the behaviour is `Orderly`: sanity and what
  the operator has begun are not at work at once (`Apart`); a process is in its pid file from
  when it has written it to its end (`InFile`); whoever has read the processes, and is about to act
  on that, knows all that run (`TrulyInformed`: all of them are in `procs`, then in what it is
  to stop, then in what it has told to stop; a status that is not active means that none runs).
  `Unmarked` is why sanity does not undo a stop: neither the mark, nor a pid file that is
  left, nor what a sanity has read already says that something is to run.
* **Queues.** `QueueInv` has the order in which the files come to be (`InOrder`: the lead before the
  worker, the first name before the second, names in `.qname` before queues at the broker), that
  all parsers agree on the names (`Agreed`), that a name that a parser has found is the one in
  the file (`FirstKnown`), and that the bindings at the broker are those of the file or of a parser that
  has yet to write it (`BindingsKnown`).

Every one of these was an invariant of a TLC run before it was proved. The proof of
`NoCreditLeak` used less than the property had conceded (deliveries that were named by
the tag of another), and the property now concedes nothing. The attempts also found two things that the constants of the runs leave out: with one URL for
two publishers, the retried copy for one is taken for a duplicate of the other's; and
a file that is renamed into place is posted twice.
`ListLemmas` has the facts about lists that the proofs share.

Later attempts found faults of the models, which were corrected there. In `BlockReassembly` the manifest was
written before the part file is removed; in `QueueState` a binding could be missed in more ways than
`missed` said; in `Processes` the name that `lastDone` gives to a stop that finds strays did not tell
whether sanity may revive them, which takes two faults to matter. Guards of `CASE` overlapped in
`Sender`, `Watch`, `Relay` and `Configurations`, where TLC takes the first that is true and the prover
takes none. In `FileIdentity` the invariant failed in three ways that the bounds had left out, all of them
things the code does: `md5name`, and parts of a file, leave a time beside a checksum of something
else (`ChecksumRemembered` in section 5); a file in parts without a checksum fails with a KeyError.

Only model-checked are:

* all liveness properties, for which the prover has neither fairness nor ENABLED;
* `TreesRight` and `NothingMissed`. They compare two trees once all was dealt with, and are claimed for
  the scripts of events that the runs are given (`MCEventLists`, `MCWatchScripts`). With a file `f`,
  a rename of it to `g` and another file `f`, the sender carries out the rename on what it has sent
  for the first message, which was the second `f` already: `g` is then a name that was
  `overtaken`, which `Sender!SentInOrder` excepts; the script is among those of the run. For `Watch` an event takes the
  place of an earlier one with its key, and there are scripts that come out wrong for it. What
  a script must not hold for `WatchMirrored` to be true is not said in the models, so that
  there is nothing yet to be proved;
* `SanityRepairs`;
* `Contents` and the modules it chooses from. They fold over sequences of lines or
  tokens, and what a fold computes for every input needs induction over data, for
  which the theorems of the library take an operator as a parameter that no
  installed prover can instantiate. TLC evaluates them on the inputs of the run.

## 5. Disagreements between the code and what it says

One is kept as a run and quoted under `findings` in `PROJECT.json`: `retry_count`
(`flowcb/retry.py` counts a retry when a message is put in the queue and again when
it is taken out, so that `retryCountMax` gives up early). The others were
found by the same means. The properties below are defined in the modules, with the
words of the code in their comments, or follow from changing one constant; TLC
refutes each within seconds to minutes.

| property | refuted by | the code, and what it says |
|---|---|---|
| `DiskQueue!OwedOnDisk` with `Faults = {"io"}` | a failing housekeeping removes `.new` with entries it has not copied | `diskqueue.py:478`, comment at 395 |
| `RedisQueue!Persisted` | the housekeeping after a killed one deletes what that had moved | `redisqueue.py:328`, docstring at 30 |
| `Flow!Accounted` with `sameUrl = TRUE`, `NPub = 2` | of the copies that two publishers with one baseUrl refused, housekeeping keeps one | `diskqueue.py:305`: the key has the URL of the copy, and nothing of the publisher |
| `Flow!PostedOnce` with `RenameHere = {m2}` | a file renamed into place is downloaded as well, and posted twice | `flow/__init__.py:1844` appends to `worklist.ok` and falls through to the download, which appends again; comment at 1839 |
| `Flow!AckedByEndOfPass` with `RenameAway = {m1}` | a rename to a rejected name is in no worklist | `flow/__init__.py:1096`, comment at 1095 |
| `NoDupe!DroppedIsProcessed` | a message delivered again after a kill is its own duplicate | `flowcb/nodupe/disk.py:188`, docstring at 22 |
| `NothingForgotten` of `MqttSub` with `NMid = 2`, three messages | a batch has a message twice, sent again after a lost connection; when the ids have started again between its two acks, the second frees another message | `moth/mqtt.py:105`: "queued messages have not been ack'd to the sender" |
| `Management!NotRevived` | stop found no process and left the mark by which sanity starts instances | `docs/source/How2Guides/UPGRADING.rst:111`: sanity "only restarts missing instances, not stopped ones" |
| `Management!OldBindingsRemoved` | a start writes the new bindings to the file before anybody undoes the old | `config/__init__.py:2121`: "old bindings get removed now" |
| `Sources!EveryDay` | the last appointment of a day is answered after midnight: a day is skipped | `flowcb/scheduled/__init__.py:160` |
| `FileIdentity!ChecksumRemembered` | an announcement in parts, or by `md5name`, leaves the time of the file beside a checksum that is not its own, and the next announcement takes it | `sarracenia/__init__.py:572`, `611`; docstring at 528: "set the file's extended attributes for the new value" |
| `Relay!ChecksumKept` with `format` `v02` and `identity` `sha512` | base64 text of more than 76 characters comes back with a newline in it, and is no longer the checksum that was posted | `postformat/v02.py:99`, which takes off only the one at the end |
| `FileIdentity!BlockChecksums` | the checksum of a block covers more than the block: the loop counts from the start of the file to the end of the block, and to the end of the last read; `ContentsRight` claims what is left of it (`BlocksCovered`) | `sarracenia/__init__.py:596`, `docs/source/Reference/sr_post.7.rst:112` |

Other disagreements are in the models as the code has them, named where a property excepts them:

* **Object stores.** `put` of s3 and azure writes the key `path/name`, with the path of the last `cd`;
  `delete`, `rmdir` and the `rename` of s3 take the bare name (`transfer/s3.py:210`, `302`, `330`, `336`,
  `transfer/azure.py:220`, `361`). As long as the remote directory is not the root, a removal of s3 is reported and
  removes nothing, one of azure fails, a directory is never removed, an `inflight` that asks for a
  rename fails at every attempt and is retried until the message expires (so it does with azure and
  no SAS token, `azure.py:346`), and a rename message is rejected. `put` of azure does not replace what is there.
  `OkMeansDone`, `Hopeless` and the exceptions of `SentInOrder` say so by protocol.
* **sftp.** A rename that fails after its delete (`transfer/sftp.py:567`) leaves readers without the file. For
  an upload `GapIsOwed` says that it is still owed; a rename message is rejected (`flow/__init__.py:2727`),
  and the file it deleted is lost.
* **MQTT.** A body that no format takes apart makes `importAny` return None, and `_msgDecode` then raises outside its `try`
  (`moth/mqtt.py:643`). `Flow.gather` logs it. What the call had in hand is neither worked on nor acknowledged, it
  takes its places in the receive window until the next connection, and when it fills the window nothing more
  is received (`sdropped`, `WindowFull`).
* **Flattening.** With `flatten -` a file `s/a/f` is placed as `s-a-f`, while the absolute path `/s/a/f` of a rename
  becomes `-s-a-f` (`flow/__init__.py:946`, `951`), which is not found: the file is downloaded under its new name and
  the old copy stays (`Relay!LeftBehind`). A link `../a/f` becomes `..-a-f` and leads nowhere; no layout of the run has a link
  behind a flattening host. The comment at 885 says that the names are mangled "to get locally resolvable links
  and renames".
* **Publishers.** `Publisher.__eq__` does not look at `baseUrl` (`config/publisher.py:102`), so that of two
  sections that differ in `post_baseUrl` alone the second is dropped (`Configurations!OnlyAnotherUrl`).
* **Poll.** With a `post_baseUrl` that begins with `file:` `poll_file_post` returns the message instead of a list of it
  (`flowcb/poll/__init__.py:503`), so that the caller adds the names of its fields, and a link raises a NameError; `Poll` has the other branch.
* **AM server.** Any exception of `accept` or of the search for an instance number ends the parent (`flowcb/gather/am.py:179`), and a failed
  bind, though the log says "Retrying", ends in it (134).
* **Commands.** `start` waits without limit for a pid file that nobody will write (`sr.py:2395`).

With `retry_refilter`, the counter is removed with the other computed fields, and
`retryCountMax` never applies (`flowcb/retry.py:91`): `NotMoreOften` is stated
without it.

## 6. Not modelled, and what is left out of the models

* Logging and reports (output and metrics), broker administration (calls of the
  management interface of RabbitMQ), and the plugins of particular sites, with the
  compatibility layer for version 2 plugins.
* The pika client, whose methods raise; the part of the MQTT set-up with which
  instance 0 only declares; the clean-up of queues at the broker.
* In `Flow`: the branches of the poll component (in `Poll`), `newname` messages,
  sleeping and rate limits, metrics, callbacks other than retry and message, an
  exception that escapes from a stage and ends `run`.
* In `RedisQueue`: a Redis error raised in `put` or `get`, and one between `acquire`
  and the `try` of `on_housekeeping`, which leaves the lock with a live process
  (`redisqueue.py:315`).
* In `Transfers`: throttling, accelerated commands, the parsing of directory
  listings, `dry_run`. What a protocol's library does is what its class expects of it.
* In `Configurations`: most of the options with one value, which are read the same
  way as those that are there; host matching in file names; `sr3 edit`, `add`,
  `convert` and `dump`.
* In `Sender`: a remote directory that is the root of the server, where the keys of the stores are the same.
* In `MqttSub`: several subscriptions of one instance. A call that raises then also loses what the clients
  before it had drained in the same gather.
* In `Watch`: `realpathPost`, and the messages of links (moved, or leading nowhere) that a subscriber has to fetch before it has
  what they lead to, with the retries that follow. In `Poll`: a `post_baseUrl` that begins with `file:`.
* In the flow, `please_stop` of the publishers' clients is never called, since `flowcb/post/message.py:131` tests an attribute that is
  never set; `MqttPub` and `Amqp` allow it, and have every behaviour without it.
* In `Placement`: `strip` by a pattern, and times in paths. In `Relay`: reports and topics.
* Text that a conversion would change character by character (percent encoding in
  URLs, dates, octal modes) is in the models only where two conversions meet.

Some behaviours are worth knowing and are in no property: `__len__` of the disk
queue after a restart without `queue_file` (`diskqueue.py:119`); `last_hk`, which
every start sets for all instances (`redisqueue.py:106`); a flow that gathers more
than half a batch at every pass never retries (`flowcb/retry.py:117`); `on_start` is
skipped when the first pass runs housekeeping (`flow/__init__.py:585`); a file
operation without `new_file` (`flow/__init__.py:1982`); an invalid mask is kept as
None (`config/__init__.py:1103`); one configuration that cannot be parsed fails every
`sr3` command (`sr.py:325`).

## 7. Plan

1. A condition on scripts under which `TreesRight` and `NothingMissed` hold, and its proof.
2. Larger instances of single components, by the modules' own specifications
   (`Download!FairSpec`, `MqttSub!FairSpec`, ...), which the composed runs do not use.
3. `Flow` on top of `Amqp` and `DiskQueue`, with the broker's redelivery in place
   of `Reconnect`.
