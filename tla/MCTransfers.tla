---------------------------- MODULE MCTransfers ----------------------------
(* Small instances of the transfers, for TLC. *)
EXTENDS Transfers

(* Versions of the same length, and of different ones. *)
MCDownloadOptions ==
    [scheme : {"sftp"}, inflight : {TRUE}, size : {<<1, 1>>, <<2, 1>>}]
    \cup [scheme : {"ftp", "file", "s3"}, inflight : {TRUE}, size : {<<1, 2>>}]
    \cup [scheme : {"sftp"}, inflight : {FALSE}, size : {<<1, 2>>}]

MCSenderOptions ==
    [scheme : {"sftp", "ftp", "s3"}, inflight : {"none", "rename"}]
    \cup [scheme : {"sftp", "ftp"}, inflight : {"umask"}]
    \cup [scheme : {"azure"}, inflight : {"none"}]
    \cup [scheme : {"azuresas"}, inflight : {"rename"}]

(* Things that happen to files, by name. *)
Event(op, name) == [op |-> op, name |-> name, old |-> name, v |-> 0]
Write(name, v) == [op |-> "file", name |-> name, old |-> name, v |-> v]
Rename(old, name) == [op |-> "rename", name |-> name, old |-> old, v |-> 0]
Hardlink(old, name) == [op |-> "hlink", name |-> name, old |-> old, v |-> 0]

MCEventLists ==
    {<<Write("f", 1), Write("f", 2), Event("remove", "f")>>,
     <<Write("f", 1), Rename("f", "g"), Write("f", 2)>>,
     <<Event("mkdir", "d"), Event("rmdir", "d"), Event("mkdir", "d")>>,
     <<Event("link", "g"), Hardlink("f", "f"), Event("remove", "g")>>}

MCMirrorOptions ==
    [inline : BOOLEAN, fileEvents : {{"remove", "rmdir", "mkdir", "link"}}]
    \cup [inline : {FALSE}, fileEvents : {{"remove", "link"}}]

MCMirrorEvents ==
    {<<Write("a", 1), Write("a", 2), Rename("a", "b"), Write("a", 3)>>,
     <<Write("a", 1), Rename("a", "b"), Event("remove", "b"), Write("b", 2)>>,
     <<Event("mkdir", "d"), Write("d/x", 1), Event("remove", "d/x"), Event("rmdir", "d"),
       Event("mkdir", "d")>>,
     <<Event("mkdir", "d"), Write("d/x", 1), Rename("d", "e"), Write("e/x", 2)>>,
     <<Event("link", "a"), Rename("a", "b"), Event("mkdir", "d"), Write("a", 1),
       Hardlink("a", "d/x")>>,
     <<Write("a", 1), Hardlink("a", "b"), Event("remove", "a"), Event("link", "a")>>,
     <<Event("mkdir", "d"), Write("d/x", 1), Event("mkdir", "e"), Rename("d/x", "e/x"),
       Event("rmdir", "d"), Rename("e", "d")>>}

MCBlockOptions ==
    {[blocks |-> <<2, 1>>, deleteManifest |-> FALSE],
     [blocks |-> <<2>>, deleteManifest |-> TRUE]}

MCConnOptions ==
    [scheme : {"sftp", "ftp"}, sends : BOOLEAN, batch : {2}]
    \cup [scheme : {"https", "s3"}, sends : {FALSE}, batch : {2}]
=============================================================================
