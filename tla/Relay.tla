-------------------------------- MODULE Relay --------------------------------
(***************************************************************************)
(* Messages on the wire (postformat/*.py, flowcb/v2wrapper.py): the        *)
(* formats a flow posts in, and how a subscriber tells them apart and      *)
(* reads them.  A wire message has a content type, headers, and a body     *)
(* with its fields.  A checksum is [v, wrapped]: of which content, and     *)
(* whether its base64 text was broken in lines.  pubTime stands for what   *)
(* is announced: it is in the message in every format.                     *)
(*                                                                         *)
(* The second part sends a tree from host to host in these formats.        *)
(***************************************************************************)
EXTENDS Placement

(* Publication raises an exception: the message is not sent. *)
Crash == [ct |-> "crash", kind |-> "", body |-> <<>>, headers |-> <<>>]
Wire(ct, kind, body, headers) ==
    [ct |-> ct, kind |-> kind, body |-> body, headers |-> headers]

Swap(s, old, new) == [i \in 1 .. Len(s) |-> IF s[i] = old THEN new ELSE s[i]]

-----------------------------------------------------------------------------
(* v02: one line of text, and headers. *)
sum_algo_v3tov2 == {"arbitrary", "md5", "sha512", "md5name", "random", "link", "remove", "cod"}

(* Mutant of Base64Lines: the newline at the end of every text is not taken off. *)
Base64Unstripped(id) == [id EXCEPT !.value.wrapped = TRUE]

(* base64 as codecs writes it: in lines of 76 characters. *)
Base64Lines(id) ==
    IF id.method = "sha512" THEN [id EXCEPT !.value.wrapped = TRUE] ELSE id

(* v2wrapper.sumstrFromMessage: the kind of event, or the checksum. *)
sumstrFromMessage(m) ==
    LET op == IF Has(m, "fileOp") THEN DOMAIN m.fileOp ELSE {}
        id == IF Has(m, "identity") /\ m.identity.method \in sum_algo_v3tov2 THEN m.identity
              ELSE [method |-> "md5name", value |-> [v |-> 0, wrapped |-> FALSE]]
        event(kind) == [method |-> kind, value |-> [v |-> 0, wrapped |-> FALSE]]
    IN IF "link" \in op THEN event("link")
       ELSE IF "remove" \in op THEN event("remove")
       ELSE IF "directory" \in op THEN event("mkdir")
       ELSE id

(* v2wrapper.Message *)
v2Message(m) ==
    LET parts == IF Has(m, "blocks") THEN [parts |-> "i"]
                 ELSE IF Has(m, "size") THEN [parts |-> "1"] ELSE <<>>
        oldname == IF Has(m, "fileOp") /\ "rename" \in DOMAIN m.fileOp
                   THEN [oldname |-> m.fileOp.rename] ELSE <<>>
    IN [sum |-> sumstrFromMessage(m)] @@ parts @@ oldname @@ m

V02_exportMine(m) ==
    Wire("text/plain", "notice",
         [pubTime |-> m.pubTime, baseUrl |-> m.baseUrl, relPath |-> Swap(m.relPath, " ", "%20")],
         Without(v2Message(m), {"pubTime", "baseUrl", "fileOp", "relPath", "size", "blocks",
                                "content", "identity"}))

(* The event the sum of a v02 message stands for, or its checksum. *)
FromSum(h) ==
    LET sm == h.sum.method IN
    IF "oldname" \in DOMAIN h
    THEN CASE sm = "mkdir" -> [fileOp |-> [rename |-> h.oldname, mkdir |-> <<>>]]
           [] sm = "link" -> [fileOp |-> [rename |-> h.oldname]]
           [] OTHER -> [fileOp |-> [rename |-> h.oldname], identity |-> Base64Lines(h.sum)]
    ELSE IF sm = "remove" THEN [fileOp |-> [remove |-> <<>>]]
    ELSE IF sm = "mkdir" THEN [fileOp |-> [directory |-> <<>>]]
    ELSE IF sm = "rmdir" THEN [fileOp |-> [remove |-> <<>>, directory |-> <<>>]]
    ELSE IF "link" \in DOMAIN h THEN [fileOp |-> [link |-> h.link]]
    ELSE IF sm = "md5name" THEN <<>>
    ELSE [identity |-> Base64Lines(h.sum)]

V02_importMine(w) ==
    LET h == w.headers
        sized == IF Has(h, "parts") /\ h.parts = "1" THEN [size |-> 1] ELSE <<>>
    IN FromSum(h) @@ sized @@ [w.body EXCEPT !.baseUrl = Swap(@, "%20", " ")]
       @@ Without(h, {"sum", "parts", "oldname"})

-----------------------------------------------------------------------------
(* v03: the message itself. *)
V03_exportMine(m) == Wire("application/json", "json", m, <<>>)

V03_importMine(w) == w.body

-----------------------------------------------------------------------------
(* wis: a GeoJSON feature with a link to the data; the place comes from the topic. *)
NotProperties ==
    {"contentType", "size", "baseUrl", "relPath", "retrievePath", "pubTime", "mtime", "mode",
     "identity", "sundew_extension"}

Wis_exportMine(m, o) ==
    IF ~Has(m, "size") THEN Crash
    ELSE Wire("application/json", "json",
              [conformsTo |-> "wis.wmo.int",
               pubtime |-> m.pubTime,
               properties |-> Without(m, NotProperties),
               href |-> m.baseUrl \o Slash
                        \o (IF Has(m, "retrievePath") THEN m.retrievePath ELSE m.relPath),
               length |-> m.size],
              [topic |-> o.topic])

Wis_importMine(w) ==
    LET file == basename(Tail(w.body.href))
        topic == w.headers.topic
    IN [pubTime |-> w.body.pubtime,
        size |-> w.body.length,
        baseUrl |-> <<Head(w.body.href)>>,
        retrievePath |-> Tail(w.body.href),
        relPath |-> IF file = <<>> THEN topic
                    ELSE IF Last(topic) = "/" THEN topic \o file
                    ELSE topic \o Slash \o file]
       @@ w.body.properties

-----------------------------------------------------------------------------
(* swim: the data, or a link to it; the rest are headers. *)
Swim_exportMine(m, o) ==
    IF ~Has(m, "content") THEN Crash
    ELSE LET id == IF Has(m, "identity") THEN [integrity |-> m.identity] ELSE <<>>
             joined == Last(m.baseUrl) = "/" \/ Head(m.relPath) = "/"
         IN Wire("unknown", "data", m.content,
                 [conformsTo |-> "swim", pubtime |-> m.pubTime,
                  href |-> m.baseUrl \o (IF joined THEN <<>> ELSE Slash) \o m.relPath] @@ id)

(* The URL is cut after its host. *)
Swim_importMine(w) ==
    LET id == IF "integrity" \in DOMAIN w.headers THEN [identity |-> w.headers.integrity]
              ELSE <<>>
    IN [pubTime |-> w.headers.pubtime,
        baseUrl |-> <<Head(w.headers.href), "/">>,
        relPath |-> Tail(Tail(w.headers.href)),
        content |-> w.body,
        size |-> 1]
       @@ id

-----------------------------------------------------------------------------
(* PostFormat.exportAny *)
exportAny(m, o) ==
    CASE o.format = "v02" -> V02_exportMine(m)
      [] o.format = "v03" -> V03_exportMine(m)
      [] o.format = "wis" -> Wis_exportMine(m, o)
      [] o.format = "swim" -> Swim_exportMine(m, o)

(* Whose message it is: the formats are asked in this order. *)
Wis_mine(w) == w.kind = "json" /\ Has(w.body, "conformsTo") /\ w.body.conformsTo = "wis.wmo.int"
Swim_mine(w) == Has(w.headers, "conformsTo") /\ w.headers.conformsTo = "swim"
V03_mine(w) == w.ct = "application/json"
V02_mine(w) == w.ct = "text/plain" \/ w.kind = "notice"

(* PostFormat.importAny *)
importAny(w) ==
    CASE Wis_mine(w) -> Wis_importMine(w)
      [] ~Wis_mine(w) /\ Swim_mine(w) -> Swim_importMine(w)
      [] ~Wis_mine(w) /\ ~Swim_mine(w) /\ V03_mine(w) -> V03_importMine(w)
      [] OTHER -> V02_importMine(w)

-----------------------------------------------------------------------------
(***************************************************************************)
(* A tree that is announced from host to host (flow/__init__.py: filter,   *)
(* updateFieldsAccepted, work, and the fileOps of do_download).  Host 1    *)
(* has the files and announces what becomes of them; every other host      *)
(* fetches what the host before it announced, and announces its own copy.  *)
(* The order of events and the failures of transfers are in Mirror and     *)
(* Download; here it is places, and one event is dealt with at a time.     *)
(***************************************************************************)

CONSTANTS
    Layouts         \* [posts, hops, roots, script]: the options of the hosts, where their
                    \* servers have their root, and what happens on host 1

VARIABLES
    layout, rpc,
    rscript,        \* what is still to happen
    disks,          \* of every host: place -> [kind, v, to]
    channel,        \* after every host: the messages that wait
    version,        \* of the last file written
    rpast           \* history: dropped: a message that was neither worked on nor rejected;
                    \* unsent: one that could not be put in the format; gone: a download that
                    \* found nothing; left: copies that a rename did not find, by host and
                    \* place, behind a host that flattens

rVars == <<layout, rpc, rscript, disks, channel, version, rpast>>

NHosts == 1 + Len(layout.hops)
Host == 1 .. NHosts

Empty == [kind |-> "none", v |-> 0, to |-> <<>>]
FileOf(v) == [kind |-> "file", v |-> v, to |-> <<>>]
LinkTo(path) == [kind |-> "link", v |-> 0, to |-> path]

Look(disk, place) == IF place \in DOMAIN disk THEN disk[place] ELSE Empty
Write(disk, place, entry) == (place :> entry) @@ disk
Erase(disk, place) == Without(disk, {place})
IsDirectory(disk, place) == \E p \in DOMAIN disk : IsStrictPrefix(place, p)

(* A file, through a link. *)
Read(disk, place) ==
    LET e == Look(disk, place) IN
    IF e.kind = "link" THEN Look(disk, Place(Slash \o Join(Front(place), "/"), e.to)) ELSE e

-----------------------------------------------------------------------------
(* What a poster says of an event. *)
Op(e) ==
    CASE e.op = "rename" -> [fileOp |-> [rename |-> e.old]]
      [] e.op = "remove" -> [fileOp |-> [remove |-> <<>>]]
      [] e.op = "link" -> [fileOp |-> [link |-> e.old]]
      [] OTHER -> <<>>

(* post_file, post_delete, post_link: with the checksum, if it is a file. *)
PostOf(e, v, o) ==
    LET id == IF e.op \in {"file", "rename"} /\ o.identity # "None"
              THEN [identity |-> [method |-> o.identity, value |-> [v |-> v, wrapped |-> FALSE]]]
              ELSE <<>>
        data == IF e.op \in {"file", "rename"} THEN [size |-> 1] ELSE <<>>
        inlined == IF e.op = "file" /\ o.inline THEN [content |-> v] ELSE <<>>
    IN [pubTime |-> v] @@ id @@ data @@ inlined @@ Op(e) @@ fromFileInfo(e.path, o)

(* putNewMessage: the fields in _deleteOnPost stay here. *)
Local == {"new_dir", "new_file", "new_relPath", "new_baseUrl", "renameUnlink"}
Sent(m, o) == exportAny(Without(m, Local), o)

Happens(disk, e) ==
    LET at == Place(<<>>, e.path) IN
    CASE e.op = "file" -> Write(disk, at, FileOf(version + 1))
      [] e.op = "rename" -> Write(Erase(disk, Place(<<>>, e.old)), at,
                                  disk[Place(<<>>, e.old)])
      [] e.op = "remove" -> Erase(disk, at)
      [] e.op = "link" -> Write(disk, at, LinkTo(e.old))

Publish(h, m, o, past) ==
    LET wire == Sent(m, o) IN
    /\ channel' = IF wire = Crash THEN channel ELSE [channel EXCEPT ![h] = Append(@, wire)]
    /\ rpast' = [past EXCEPT !.unsent = @ \/ wire = Crash]

Happen ==
    /\ rpc = "idle" /\ rscript # <<>> /\ \A h \in Host : channel[h] = <<>>
    /\ LET e == Head(rscript)
           v == IF e.op = "rename" THEN disks[1][Place(<<>>, e.old)].v ELSE version + 1
       IN /\ disks' = [disks EXCEPT ![1] = Happens(@, e)]
          /\ Publish(1, PostOf(e, v, layout.posts), layout.posts, rpast)
    /\ version' = version + 1
    /\ rscript' = Tail(rscript)
    /\ UNCHANGED <<layout, rpc>>

-----------------------------------------------------------------------------
(* filter: the first mask that matches the URL. *)
Matches(mask, url) == mask.pattern = ".*" \/ \E i \in 1 .. Len(url) : url[i] = mask.pattern

FirstMask(masks, url) ==
    LET S == {i \in 1 .. Len(masks) : Matches(masks[i], url)} IN
    IF S = {} THEN 0 ELSE CHOOSE i \in S : \A j \in S : i <= j

(* The name before a rename is only held against the first mask. *)
OldNameMatched(m, masks) ==
    /\ Has(m, "fileOp") /\ "rename" \in DOMAIN m.fileOp
    /\ masks # <<>>
    /\ Matches(masks[1], m.baseUrl \o Slash \o m.fileOp.rename)
    /\ masks[1].accepting

(* What comes of a message: [verdict, m, dir], with the directory of the mask. *)
Filtered(m, o) ==
    LET i == FirstMask(o.masks, m.baseUrl \o Slash \o m.relPath)
        left == OldNameMatched(m, o.masks)
        accepted == IF i > 0 THEN o.masks[i].accepting ELSE left \/ o.acceptUnmatched
    IN [verdict |-> IF accepted THEN "accept" ELSE IF left THEN "drop" ELSE "reject",
        m |-> IF i = 0 /\ left THEN Put(m, "renameUnlink", TRUE) ELSE m,
        mask |-> IF i > 0 THEN o.masks[i] ELSE [dir |-> o.dir]]

-----------------------------------------------------------------------------
(* Where the server of a host has what a message offers. *)
Served(h, m) ==
    LET path == IF Has(m, "retrievePath") THEN UrlPath(m.baseUrl) \o Slash \o m.retrievePath
                ELSE UrlPath(m.baseUrl) \o Slash \o m.relPath
    IN Place(<<>>, layout.roots[h] \o Slash \o path)

(* do_download, do_fileOp: [disk, ok, gone], what becomes of a disk, whether the message is
   posted, and whether there was nothing to be fetched. *)
Done(disk, ok) == [disk |-> disk, ok |-> ok, gone |-> FALSE]

Download(disk, h, m, ok) ==
    LET at == Place(<<>>, m.new_dir \o Slash \o m.new_file)
        there == Read(disks[h - 1], Served(h - 1, m))
        same == /\ Has(m, "identity") /\ m.identity.method \in {"md5", "sha512"}
                /\ Look(disk, at).kind = "file"
                /\ m.identity.value = [v |-> Look(disk, at).v, wrapped |-> FALSE]
    IN IF same THEN Done(disk, ok)
       ELSE IF Has(m, "content") THEN Done(Write(disk, at, FileOf(m.content)), TRUE)
       ELSE IF there.kind = "file" THEN Done(Write(disk, at, FileOf(there.v)), TRUE)
       ELSE [disk |-> disk, ok |-> ok, gone |-> TRUE]

Work(disk, h, m) ==
    LET at == Place(<<>>, m.new_dir \o Slash \o m.new_file)
        op == IF Has(m, "fileOp") THEN DOMAIN m.fileOp ELSE {}
        old == Place(m.new_dir, m.fileOp.rename)
    IN IF Has(m, "renameUnlink") THEN Download(Erase(disk, old), h, m, TRUE)
       ELSE IF "rename" \in op
       THEN IF Look(disk, old) = Empty THEN Download(disk, h, m, FALSE)
            ELSE LET moved == Write(Erase(disk, old), at, disk[old])
                 IN IF op \cap {"link", "directory"} # {} THEN Done(moved, TRUE)
                    ELSE Download(moved, h, m, TRUE)
       ELSE IF "remove" \in op
       THEN Done(Erase(disk, at), IsDirectory(disk, Place(<<>>, m.new_dir)))
       ELSE IF "link" \in op THEN Done(Write(disk, at, LinkTo(m.fileOp.link)), TRUE)
       ELSE Download(disk, h, m, FALSE)

(* Is there a host on the way that makes long names of paths? *)
Flattens(h) == \E k \in 2 .. h : layout.hops[k - 1].flatten # "/"

(* The copy of a renamed file under its old name: the file was put in a-f, and the path in
   the message, /s/a/f, is made -s-a-f. *)
LeftBehind(h, m, disk) ==
    LET unfound == /\ Flattens(h) /\ Has(m, "fileOp") /\ "rename" \in DOMAIN m.fileOp
                   /\ Look(disks[h], Place(m.new_dir, m.fileOp.rename)) = Empty
    IN {l \in {<<h, p>> : p \in DOMAIN disks[h]} :
            /\ Look(disk, l[2]) = disks[h][l[2]]
            /\ \/ l \in rpast.left
               \/ /\ unfound /\ disks[h][l[2]] = FileOf(m.pubTime)
                  /\ l[2] # Place(<<>>, m.new_dir \o Slash \o m.new_file)}

(* A message that is accepted: worked on, and posted if that went well. *)
Accepted(h, m) ==
    \E done \in {Work(disks[h], h, m)} :
    \E wire \in {IF done.ok THEN Sent(work_message_adjust(m), layout.hops[h - 1]) ELSE Crash} :
        /\ disks' = [disks EXCEPT ![h] = done.disk]
        /\ channel' = LET taken == [channel EXCEPT ![h - 1] = Tail(@)]
                      IN IF wire = Crash THEN taken ELSE [taken EXCEPT ![h] = Append(@, wire)]
        /\ rpast' = [rpast EXCEPT !.unsent = @ \/ (done.ok /\ wire = Crash),
                                  !.gone = @ \/ done.gone,
                                  !.left = {l \in @ : l[1] # h} \cup LeftBehind(h, m, done.disk)]

NotAccepted(h, verdict) ==
    /\ channel' = [channel EXCEPT ![h - 1] = Tail(@)]
    /\ rpast' = [rpast EXCEPT !.dropped = @ \/ verdict = "drop"]
    /\ UNCHANGED disks

Relayed(h) ==
    /\ rpc = "idle" /\ channel[h - 1] # <<>>
    /\ \E f \in {Filtered(importAny(Head(channel[h - 1])), layout.hops[h - 1])} :
        IF f.verdict # "accept" THEN NotAccepted(h, f.verdict)
        ELSE \E m \in {updateFieldsAccepted(f.m, f.mask @@ layout.hops[h - 1], f.mask.dir)} :
                Accepted(h, m)
    /\ UNCHANGED <<layout, rpc, rscript, version>>

(* Who takes what the last host posts is not part of this. *)
Leave ==
    /\ rpc = "idle" /\ channel[NHosts] # <<>>
    /\ channel' = [channel EXCEPT ![NHosts] = Tail(@)]
    /\ UNCHANGED <<layout, rpc, rscript, disks, version, rpast>>

-----------------------------------------------------------------------------
RelayInitAs(pc) ==
    /\ layout \in (IF pc = "off" THEN {CHOOSE l \in Layouts : TRUE} ELSE Layouts)
    /\ rpc = pc
    /\ rscript = IF pc = "off" THEN <<>> ELSE layout.script
    /\ disks = [h \in Host |-> <<>>]
    /\ channel = [h \in Host |-> <<>>]
    /\ version = 0
    /\ rpast = [dropped |-> FALSE, unsent |-> FALSE, gone |-> FALSE, left |-> {}]

RelayNext == Happen \/ (\E h \in 2 .. NHosts : Relayed(h)) \/ Leave

-----------------------------------------------------------------------------
RelayTypeOK ==
    /\ layout \in Layouts /\ rpc \in {"off", "idle"}
    /\ \A h \in Host : \A p \in DOMAIN disks[h] :
           disks[h][p].kind \in {"file", "link"} /\ disks[h][p].v \in 0 .. version
    /\ DOMAIN rpast = {"dropped", "unsent", "gone", "left"}

Waiting(h) == {importAny(channel[h][i]) : i \in 1 .. Len(channel[h])}
AnnouncesFile(m) == Has(m, "fileOp") => DOMAIN m.fileOp = {"rename"}
Quiet == rpc = "idle" /\ \A h \in Host : channel[h] = <<>>

(* What a host announces can be had from it: at the URL of the message is the file the
   message is about.  Bases, stripping, flattening and renaming must agree on where a file
   was put and on what the server makes of the URL (updateFieldsAccepted, updatePaths,
   work_message_adjust, the formats). *)
Fetchable ==
    \A h \in Host : \A m \in Waiting(h) :
        AnnouncesFile(m) => Read(disks[h], Served(h, m)) = FileOf(m.pubTime)

(* Between events every host has the files and the links it accepts, as they are on host 1,
   each once, and nothing that was renamed or removed there (updateFieldsAccepted on the
   paths in fileOp, filter of a rename).  Except that what was renamed stays under its old
   name too behind a host that flattens: see LeftBehind. *)
Wanted(h) ==
    {p \in DOMAIN disks[1] :
        \A k \in 2 .. h :
            LET masks == layout.hops[k - 1].masks
                i == FirstMask(masks, FlattenSeq(p))
            IN IF i > 0 THEN masks[i].accepting ELSE layout.hops[k - 1].acceptUnmatched}
Image(h, places) == {<<disks[h][p].kind, Read(disks[h], p).v>> : p \in places}

Mirrored ==
    Quiet => \A h \in 2 .. NHosts :
                 LET copies == {p \in DOMAIN disks[h] : <<h, p>> \notin rpast.left} IN
                 /\ Image(h, copies) = Image(1, Wanted(h))
                 /\ Cardinality(copies) = Cardinality(Wanted(h))

(* The checksum in a message is the one of the file it is about, as the poster computed it:
   the formats it went through and the hosts that repeated it changed nothing. *)
ChecksumKept ==
    \A h \in Host : \A m \in Waiting(h) :
        Has(m, "identity") => m.identity.value = [v |-> m.pubTime, wrapped |-> FALSE]
=============================================================================
