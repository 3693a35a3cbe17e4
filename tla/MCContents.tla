----------------------------- MODULE MCContents -----------------------------
(* Small instances of the messages and the configurations, for TLC. *)
EXTENDS Contents

(* The options of a process that posts, and of one that relays and keeps the tree it gets. *)
Posts(dir, url) ==
    [post_baseDir |-> dir, post_baseUrl |-> url, baseDir |-> None, rename |-> None, strip |-> 0,
     flatten |-> "/", filename |-> "None", mirror |-> TRUE, baseUrl_relPath |-> FALSE,
     format |-> "v03",
     topic |-> <<"t">>, identity |-> "md5", inline |-> FALSE]

Relays(dir, url, from) ==
    [Posts(dir, url) EXCEPT !.baseDir = from]
    @@ [masks |-> <<>>, acceptUnmatched |-> TRUE, dir |-> dir]

Accept(pattern, dir) ==
    [pattern |-> pattern, accepting |-> TRUE, dir |-> dir, mirror |-> TRUE, strip |-> 0,
     flatten |-> "/", filename |-> "None"]

S == <<"/", "s">>
D == <<"/", "d">>
E == <<"/", "e">>
F == <<"/", "s", "/", "a", "/", "f">>
G == <<"/", "s", "/", "b", "/", "g">>
K == <<"/", "s", "/", "k">>

On(op, path, old) == [op |-> op, path |-> path, old |-> old]
File(path) == On("file", path, None)
Gone(path) == On("remove", path, None)

Twice == <<File(F), File(F)>>
Renames == <<File(F), File(K), On("rename", G, F), File(F), Gone(K)>>
Links == <<File(F), On("link", G, <<"..", "/", "a", "/", "f">>), On("link", K, F), Gone(K)>>

Layout(poster, hop2, hop3, roots, s) ==
    [posts |-> poster, hops |-> <<hop2, hop3>>, roots |-> roots, script |-> s]

(* Web servers whose root is the base directory of the files, and sftp servers whose root is
   "/", with and without the directory in the URL. *)
Web2 == Relays(D, <<"http://2">>, S)
Web3 == Relays(E, <<"http://3">>, S)
Web(poster, hop2, hop3, s) == Layout(poster, hop2, hop3, <<S, D, E>>, s)
WebPosts == Posts(S, <<"http://1">>)

Sftp2 == Relays(D, <<"sftp://2", "/", "d">>, S)
Sftp3 == Relays(E, <<"sftp://3", "/", "e">>, S)
Sftp(poster, hop2, hop3, s) == Layout(poster, hop2, hop3, <<<<>>, <<>>, <<>>>>, s)
RootPosts == Posts(None, <<"sftp://1", "/">>)
PathPosts == Posts(S, <<"sftp://1", "/", "s">>)

Plain ==
    {Web(WebPosts, Web2, Web3, s) : s \in {Renames, Links}}
    \cup {Sftp(poster, Sftp2, Sftp3, s) : poster \in {RootPosts, PathPosts}, s \in {Renames, Links}}

(* One option more on a poster or on the first hop. *)
Changed ==
    {Sftp(RootPosts, [Sftp2 EXCEPT !.strip = 1, !.baseDir = None], Sftp3, s) :
         s \in {Renames, Links}}
    \cup {Web(WebPosts, [Web2 EXCEPT !.filename = "WHATFN"], Web3, <<File(F \o <<":", "x">>), File(K)>>),
          Web(WebPosts, [Web2 EXCEPT !.masks = <<Accept("b", D)>>, !.acceptUnmatched = FALSE],
              Web3, Renames),
          Web(WebPosts, [Web2 EXCEPT !.flatten = "-", !.mirror = FALSE], Web3, Renames),
          Sftp(PathPosts, [Sftp2 EXCEPT !.baseUrl_relPath = TRUE], Sftp3, Renames),
          Web([WebPosts EXCEPT !.strip = 1], Web2, Web3, Renames),
          Web([WebPosts EXCEPT !.rename = <<"/", "n", "/">>], Web2, Web3, <<File(F), File(K)>>),
          Web(WebPosts, [Web2 EXCEPT !.dir = D \o <<"/", "${BUPL}">>, !.post_baseDir = D], Web3,
              Renames)}

(* Other formats. *)
Formats ==
    {Web([WebPosts EXCEPT !.format = "v02"], [Web2 EXCEPT !.format = "v02"], Web3, Renames),
     Web([WebPosts EXCEPT !.format = "wis"], Web2, Web3, Twice),
     Web([WebPosts EXCEPT !.format = "swim", !.inline = TRUE], Web2, Web3, Twice)}

MCLayouts == Plain \cup Changed \cup Formats

Option(method, blockSize, inline) ==
    [method |-> method, blockSize |-> blockSize, inline |-> inline]

(* Two that announce whole files, with the same method or another; one in parts. *)
MCIdOptions ==
    {"a" :> Option("md5", 1, TRUE) @@ "b" :> Option(method, 1, FALSE) :
         method \in {"md5", "sha512", "cod", "none"}}
    \cup {"a" :> Option("md5", 2, FALSE) @@ "b" :> Option("none", 2, FALSE),
          "a" :> Option("md5", 2, TRUE) @@ "b" :> Option("md5", 1, FALSE),
          "a" :> Option("md5name", 1, TRUE) @@ "b" :> Option("md5", 0, FALSE),
          "a" :> Option("md5name", 2, TRUE) @@ "b" :> Option("arbitrary", 2, FALSE)}

-----------------------------------------------------------------------------
(* Configurations. *)
Url(scheme, user, pass, host) == [scheme |-> scheme, user |-> user, pass |-> pass, host |-> host, port |-> NoValue]

Said(k, v) == [k |-> k, v |-> v]

FileLines == <<Url("amqp", "u", "p", "h1"), Url("amqp", "v", "q", "h2"), Url("amqp", "bad", NoValue, "h1"),
               Url("sftp", "al", "a", "h"), Url("sftp", "bo", "b", "h")>>

H1 == Url("amqp", "u", NoValue, "h1")
H2 == Url("amqp", "v", NoValue, "h2")
Mqtt == Url("mqtt", "u", "m", "h1")
Nobody == Url("amqp", NoValue, NoValue, "h1")
Ported == [Nobody EXCEPT !.port = "5672"]
Unknown == Url("amqp", "w", NoValue, "h1")

MCUrls == {H1, Url("amqp", "u", "other", "h1"), Url("sftp", NoValue, NoValue, "h"), Url("sftp", "bo", NoValue, "h"),
           Url("sftp", "al", "p%23", "h"), Url("ftp", "al", NoValue, "h")}

MCIncluded == [f \in {"in", "bad"} |->
    IF f = "in" THEN <<Said("broker", H2), Said("exchange", <<"x2">>)>>
    ELSE <<Said("topicPrefix", "p2"), Said("broker", Ported), Said("exchange", <<"x2">>)>>]

MCPluginKind == [k \in {"pluginList", "pluginStr"} |-> IF k = "pluginList" THEN "list" ELSE "str"]

Consumer == {Said("broker", H1), Said("broker", Mqtt), Said("broker", Unknown), Said("include", "in"), Said("include", "bad"),
             Said("exchange", <<"x1">>), Said("queue", "q1"), Said("subtopic", "a"), Said("topic", "b")}

Producer == {Said("post_broker", H1), Said("post_broker", Mqtt), Said("post_broker", Nobody), Said("post_broker", Ported),
             Said("post_exchange", <<"x1">>), Said("post_exchangeSplit", 2), Said("post_topicPrefix", "p1"),
             Said("post_base_url", "b1")}

Polled == {Said("broker", H1), Said("include", "in"), Said("post_exchange", <<"x1">>), Said("vip", TRUE), Said("subtopic", "a"),
           Said("post_broker", H2)}

Filter == {Said("accept", "e1"), Said("reject", "e2"), Said("accept", "bad"), Said("directory", "d1"),
           Said("directory", Variable), Said("declare", "d2"), Said("mirror", TRUE)}

Lists == {Said("callback", "c1"), Said("callback_prepend", "c1"), Said("suppress_duplicates_basis", "data"),
          Said("on_message", "msg_rawlog"), Said("logEvents", [op |-> "-", set |-> {"after_accept"}]),
          Said("logEvents", [op |-> "=", set |-> {}]), Said("pluginList", "i"), Said("pluginStr", "j"),
          Said("logStdout", TRUE)}

Texts(alphabet, n) == UNION {[1 .. m -> alphabet] : m \in 0 .. n}

Other == [component |-> "flow", text |-> <<Said("post_broker", H2), Said("accept", "e9"), Said("broker", H2),
                                         Said("exchange", <<"x9">>), Said("subtopic", "z"), Said("pluginList", "o")>>]

Teller == [component |-> "flow", text |-> <<Said("broker", Url("amqp", "w", "pw", "h1"))>>]

Site(component, text, others) ==
    [credentials |-> FileLines, defaults |-> <<Said("logStdout", TRUE), Said("topicPrefix", "p0")>>,
     inc |-> IF component = "poll" THEN <<>> ELSE <<Said("accept", "e0")>>,
     component |-> component, text |-> text, others |-> others]

MCSites ==
    {Site("flow", text, <<Other>>) : text \in Texts(Consumer, 4) \cup Texts(Producer, 3)}
    \cup {Site("flow", text, <<Other>>) : text \in Texts(Filter, 3) \cup Texts(Lists, 2)}
    \cup {Site("poll", text, <<Other>>) : text \in Texts(Polled, 4)}
    \cup {Site("flow", text, <<Teller>>) : text \in Texts({Said("broker", Unknown), Said("broker", H1), Said("topic", "b")}, 3)}
=============================================================================
