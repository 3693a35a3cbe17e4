----------------------------- MODULE Placement -----------------------------
(***************************************************************************)
(* What a message says of places: where a file was put, where it will be   *)
(* put, and the URL it is announced with.  A message is a function on the  *)
(* names of its fields (a python dictionary); o is the options of the      *)
(* process that handles it.                                                *)
(***************************************************************************)
EXTENDS Naturals, Sequences, SequencesExt, FiniteSets, TLC

(***************************************************************************)
(* Strings as the code cuts and joins them.  A string is a sequence of     *)
(* tokens; "/", ":", "_" and " " are tokens, and a name may be several of  *)
(* them (<<"pub", "lic">>), so that a string can begin with another one    *)
(* without being below it.                                                 *)
(***************************************************************************)
Slash == <<"/">>

(* s.split(sep) *)
SplitAtEach(s, sep) ==
    FoldLeft(LAMBDA parts, c :
                 IF c = sep THEN Append(parts, <<>>)
                 ELSE Append(Front(parts), Append(Last(parts), c)),
             <<<<>>>>, s)

Split(s) == SplitAtEach(s, "/")

(* sep.join(parts) *)
Join(parts, sep) ==
    IF parts = <<>> THEN <<>>
    ELSE FoldLeft(LAMBDA s, part : s \o <<sep>> \o part, Head(parts), Tail(parts))

StartsWith(s, start) == IsPrefix(start, s)

(* s.replace(old, new, 1) *)
ReplaceOnce(s, old, new) ==
    LET At(i) == i + Len(old) <= Len(s) + 1 /\ SubSeq(s, i, i + Len(old) - 1) = old
    IN IF \E i \in 1 .. Len(s) : At(i)
       THEN LET i == CHOOSE j \in 1 .. Len(s) : At(j) /\ \A k \in 1 .. j - 1 : ~At(k)
            IN SubSeq(s, 1, i - 1) \o new \o SubSeq(s, i + Len(old), Len(s))
       ELSE s

(* s[1:] if s starts with one '/' *)
Unrooted(s) == IF StartsWith(s, Slash) THEN Tail(s) ELSE s

basename(s) == Last(Split(s))
dirname(s) ==
    LET parts == Split(s)
        head == Join(Front(parts), "/")
    IN IF head = <<>> /\ Len(parts) > 1 THEN Slash ELSE head

(* The place a path names, seen from directory cwd: the names from the root down. *)
Place(cwd, path) ==
    LET step(at, name) ==
            IF name \in {<<>>, <<".">>} THEN at
            ELSE IF name = <<"..">> THEN (IF at = <<>> THEN at ELSE Front(at))
            ELSE Append(at, name)
        start == IF StartsWith(path, Slash) THEN <<>> ELSE FoldLeft(step, <<>>, Split(cwd))
    IN FoldLeft(step, start, Split(path))

-----------------------------------------------------------------------------

None == <<"None">>      \* an option that is not set

Has(m, field) == field \in DOMAIN m
Put(m, field, value) == (field :> value) @@ m
Without(m, fields) == [f \in DOMAIN m \ fields |-> m[f]]

-----------------------------------------------------------------------------
(* sarracenia.baseUrlParse(url).path: the first token of a URL is its scheme and host. *)
UrlPath(url) ==
    LET path == Tail(url) IN
    IF Len(path) > 1 /\ path[1] = "/" /\ path[2] = "/" THEN Tail(path) ELSE path

(* config.variableExpansion: the directories and URLs of the options and the message. *)
variableExpansion(s, m, o) ==
    LET Value(token) ==
            CASE token = "${BD}" -> o.baseDir
              [] token = "${PBD}" -> o.post_baseDir
              [] token = "${BUP}" -> UrlPath(m.baseUrl)
              [] token = "${BUPL}" -> basename(UrlPath(m.baseUrl))
              [] token = "${SOURCE}" -> m.source
              [] OTHER -> <<token>>
    IN FlattenSeq([i \in 1 .. Len(s) |-> Value(s[i])])

(* config.sundew_dirPattern: without a pattern in it, empty parts of the directory go. *)
sundew_dirPattern(dir) ==
    IF dir = Slash \/ dir = <<>> THEN dir
    ELSE LET words == SelectSeq(Split(dir), LAMBDA w : w # <<>>)
         IN (IF StartsWith(dir, Slash) THEN Slash ELSE <<>>) \o Join(words, "/")

(* Mutant of CutBases: the base directory stays in the path. *)
CutUrlPathOnly(full, dir, file, pbd, url) ==
    LET path == UrlPath(url)
    IN IF Len(path) > 1 /\ StartsWith(full, path) THEN ReplaceOnce(full, path, <<>>) ELSE full

(* The path of a file as it is announced: the base directory goes, and then the path of
   the URL. *)
CutBases(full, dir, file, pbd, url) ==
    LET below == IF StartsWith(full, pbd) THEN ReplaceOnce(dir, pbd, <<>>) \o Slash \o file
                 ELSE full
        path == UrlPath(url)
    IN IF Len(path) > 1 /\ StartsWith(below, path) THEN ReplaceOnce(below, path, <<>>)
       ELSE below

(* Message.updatePaths *)
updatePaths(m, o, dir, file) ==
    LET full == dir \o Slash \o file
        url == IF Has(m, "post_baseUrl") THEN m.post_baseUrl
               ELSE IF o.post_baseUrl # None THEN variableExpansion(o.post_baseUrl, m, o)
               ELSE m.baseUrl
        rel == IF o.post_baseDir \notin {None, <<>>, Slash}
               THEN CutBases(full, dir, file, variableExpansion(o.post_baseDir, m, o), url)
               ELSE full
        new == [new_dir |-> dir, new_file |-> file, new_baseUrl |-> url,
                new_relPath |-> Unrooted(rel)]
    IN new @@ m @@ [relPath |-> new.new_relPath, baseUrl |-> url]

-----------------------------------------------------------------------------
(* flow.sundew_getDestInfos: the name a file gets, by the filename option. *)
DestName(spec, name, parts) ==
    CASE spec = "WHATFN" -> Head(parts)
      [] spec = "HEADFN" ->
             LET head == SplitAtEach(Head(parts), "_")
             IN IF Len(head) >= 2 THEN head[1] \o <<"_">> \o head[2] ELSE head[1]
      [] spec = "NONE" ->
             IF Len(parts) >= 6
             THEN Join(SubSeq(parts, 1, IF Len(parts[5]) # 1 THEN 5 ELSE 6), ":")
             ELSE name
      [] OTHER -> <<spec>>      \* DESTFN=spec

sundew_getDestInfos(m, option, filename) ==
    IF option = "None" THEN filename
    ELSE LET own == SplitAtEach(filename, ":")
             parts == IF Has(m, "sundew_extension") THEN <<own[1]>> \o m.sundew_extension ELSE own
         IN DestName(option, Join(parts, ":"), parts)

-----------------------------------------------------------------------------
(* flow.updateFieldsAccepted *)
OpsWithPath == <<"link", "hlink", "rename">>

PathOps(m) == IF Has(m, "fileOp") THEN DOMAIN m.fileOp \cap Range(OpsWithPath) ELSE {}

(* The paths in fileOp are rewritten along with the place of the file. *)
OnPaths(m, paths) == IF PathOps(m) = {} THEN m ELSE Put(m, "fileOp", paths @@ m.fileOp)

IsRooted(path) == StartsWith(path, Slash)

(* strip: a path of the message as seen from the directory the file goes to. *)
StrippedPath(value, n, depth) ==
    LET parts == Split(value)
        rest == SubSeq(parts, n + 1, Len(parts))
        climb == depth - Len(SelectSeq(rest, LAMBDA w : w = <<"..">>)) - 1
    IN IF Len(parts) > n
       THEN FlattenSeq([i \in 1 .. (IF climb > 0 THEN climb ELSE 0) |-> <<"..", "/">>])
            \o Join(rest, "/")
       ELSE value

(* One more is stripped for every rooted path so far. *)
Stripped(m, o, token) ==
    LET rooted(k) == {j \in 1 .. k : /\ OpsWithPath[j] \in DOMAIN m.fileOp
                                     /\ IsRooted(m.fileOp[OpsWithPath[j]])}
    IN IF o.strip = 0 \/ ~Has(m, "fileOp") THEN m
       ELSE Put(m, "fileOp",
                [f \in DOMAIN m.fileOp |->
                    IF f \notin Range(OpsWithPath) THEN m.fileOp[f]
                    ELSE LET k == CHOOSE j \in 1 .. 3 : OpsWithPath[j] = f
                         IN StrippedPath(m.fileOp[f], o.strip + Cardinality(rooted(k)),
                                         Len(token))])

Flattened(m, o) ==
    IF o.flatten = "/" THEN m ELSE OnPaths(m, [f \in PathOps(m) |-> Join(Split(m.fileOp[f]), o.flatten)])

(* Mutant of Rebased: only the path of the file itself is rewritten. *)
RebasedNot(m, o, dir) == m

(* The directory the files came from, in a path, becomes the one they go to. *)
Rebased(m, o, dir) ==
    LET there == IF o.baseDir # None THEN o.baseDir ELSE UrlPath(m.baseUrl) IN
    IF dir = <<>> \/ Len(there) <= 1 THEN m
    ELSE OnPaths(m, [f \in PathOps(m) |->
                        IF StartsWith(m.fileOp[f], there) THEN ReplaceOnce(m.fileOp[f], there, dir)
                        ELSE m.fileOp[f]])

(* baseDir is taken off relPath too, if it is there. *)
Unbased(o, token) ==
    LET base == IF o.baseDir = None THEN <<>> ELSE Tail(Split(o.baseDir)) IN
    IF Len(token) > Len(base) /\ StartsWith(token, base)
    THEN SubSeq(token, Len(base) + 1, Len(token))
    ELSE token

(* Where the message says the file is: a rename that was asked for goes before. *)
Announced(m, o) ==
    LET path == UrlPath(m.baseUrl) IN
    IF Has(m, "rename") THEN m.rename
    ELSE IF o.baseUrl_relPath THEN SubSeq(path, 2, Len(path)) \o Slash \o m.relPath
    ELSE m.relPath

updateFieldsAccepted(m, o, maskDir) ==
    LET all == Split(Announced(m, o))
        token == IF o.strip > 0 /\ o.strip < Len(all) THEN SubSeq(all, o.strip + 1, Len(all))
                 ELSE all
        filename == IF o.flatten = "/" THEN Last(token) ELSE Join(token, o.flatten)
        dir == IF maskDir # None THEN variableExpansion(maskDir, m, o)
               ELSE IF o.post_baseDir # None THEN variableExpansion(o.post_baseDir, m, o)
               ELSE <<>>
        kept == Without(m, {"rename"})
        saved == IF Has(m, "fileOp") THEN Put(kept, "post_fileOp", m.fileOp) ELSE kept
        moved == Rebased(Flattened(Stripped(saved, o, token), o), o, dir)
        below == Unbased(o, Append(Front(token), filename))
        new_dir == sundew_dirPattern(
                       IF o.mirror /\ Len(below) > 1 THEN dir \o Slash \o Join(Front(below), "/")
                       ELSE dir)
        placed == updatePaths(moved, o, new_dir, filename)
    IN IF o.filename = "None" THEN placed
       ELSE LET name == sundew_getDestInfos(m, o.filename, filename)
            IN [placed EXCEPT !.new_file = name,
                              !.new_relPath = Join(Append(Front(Split(@)), name), "/")]

-----------------------------------------------------------------------------
(* flow.work_message_adjust: what was done becomes what is announced. *)
work_message_adjust(m) ==
    LET fits == m.new_file = Last(Split(m.relPath))
        rel == IF fits THEN m.new_relPath
               ELSE IF Len(m.new_relPath) > 1
               THEN Join(Append(Front(Split(m.new_relPath)), m.new_file), "/")
               ELSE m.new_file
        op == IF Has(m, "post_fileOp") THEN [fileOp |-> m.post_fileOp] ELSE <<>>
    IN Without(op @@ [baseUrl |-> m.new_baseUrl, relPath |-> rel] @@ m,
               {"retrievePath", "post_fileOp"})

-----------------------------------------------------------------------------
(* Message.fromFileInfo: the message about a file that is there. *)
StripOfPost(path, strip) ==
    LET token == Split(path)
        n == IF IsRooted(path) THEN strip + 1 ELSE strip
    IN Slash \o Join(SubSeq(token, n + 1, Len(token)), "/")

fromFileInfo(path, o) ==
    LET m == updatePaths(<<>>, o, dirname(path), basename(path))
        asked == IF o.rename = None THEN m.new_relPath
                 ELSE IF Last(o.rename) = "/" THEN o.rename \o basename(path)
                 ELSE o.rename
        newname == IF o.strip > 0 THEN StripOfPost(path, o.strip) ELSE asked
    IN IF newname = m.new_relPath THEN m ELSE Put(m, "rename", newname)
=============================================================================
