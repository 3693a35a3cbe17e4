----------------------------- MODULE MCSources -----------------------------
(* Small instances of the sources, for TLC. *)
EXTENDS Sources

AllEvents == {"create", "modify", "delete", "mkdir", "rmdir", "link"}

(* A watch with ages, one that follows links and skips what was there, and an sr_post. *)
MCWatchOptions ==
    {[fileEvents |-> AllEvents, postOnStart |-> TRUE, watch |-> TRUE, ageMin |-> TRUE,
      ageMax |-> TRUE, follow |-> FALSE, batch |-> 2],
     [fileEvents |-> {"create", "link"}, postOnStart |-> FALSE, watch |-> TRUE,
      ageMin |-> FALSE, ageMax |-> FALSE, follow |-> TRUE, batch |-> 1],
     [fileEvents |-> AllEvents, postOnStart |-> TRUE, watch |-> FALSE, ageMin |-> FALSE,
      ageMax |-> FALSE, follow |-> FALSE, batch |-> 1]}

On(op, name) == [op |-> op, name |-> name, old |-> name, v |-> 0]
Write(name, v) == [op |-> "write", name |-> name, old |-> name, v |-> v]
Import(name, v) == [op |-> "import", name |-> name, old |-> name, v |-> v]
Move(old, name) == [op |-> "move", name |-> name, old |-> old, v |-> 0]

MCWatchScripts ==
    {<<Write("a", 1), On("remove", "a"), Write("a", 2)>>,
     <<Write("a", 1), Move("a", "b"), Write("a", 2), On("remove", "b")>>,
     <<Write("b", 2), Move("b", "a"), Write("a", 1)>>,
     <<On("mkdir", "d"), Write("d/x", 1), Write("d/y", 2), Move("d", "e")>>,
     <<On("link", "l"), Import("a", 2), On("remove", "l")>>,
     <<Import("a", 1), On("link", "l"), Move("l", "c")>>,
     <<On("link", "l"), Move("l", "c"), On("remove", "c")>>,
     <<On("mkdir", "e"), On("rmdir", "e")>>}

MCScheduleOptions ==
    [interval : {0}, times : {{1}, {0, 2}, {1, 2}, {0, 1, 2}, {}}]
    \cup [interval : {3}, times : {{}, {1}}]

MCPollOptions ==
    {[vip |-> TRUE, batch |-> 2, fileEvents |-> {"create", "mkdir"}],
     [vip |-> FALSE, batch |-> 1, fileEvents |-> {"modify"}]}

MCRemoteFile ==
    [f |-> [dir |-> "d", kind |-> "file", readable |-> TRUE],
     g |-> [dir |-> "e", kind |-> "directory", readable |-> TRUE]]

Bulletin(length, form) == [length |-> length, form |-> form]

MCBulletins ==
    [c1 |-> <<Bulletin(1, "good"), Bulletin(0, "badHeader"), Bulletin(1, "good")>>,
     c2 |-> <<Bulletin(0, "garbled"), Bulletin(0, "good")>>,
     c3 |-> <<Bulletin(1, "good")>>]
=============================================================================
