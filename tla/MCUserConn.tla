----------------------------- MODULE MCUserConn -----------------------------
(***************************************************************************)
(* Requests that take every way through the parser and the router, two of  *)
(* them on a connection; the shorter comes at times after the longer.      *)
(***************************************************************************)
EXTENDS UserConn

Get(uri, headers) == <<Line("GET", uri), CRLF>> \o headers \o <<CRLF>>
KeepAlive == <<Connection("keep-alive"), CRLF>>
Close == <<Connection("close"), CRLF>>

(* A file, a directory, a missing one, a file that cannot be opened. *)
MCGets ==
    {Get("file", KeepAlive), Get("file", <<>>), Get("dir", KeepAlive), Get("lost", Close),
     Get("locked", KeepAlive), Get("route", KeepAlive \o Close)}

(* A form of two cells, one that does not fit the buffer, a POST without. *)
MCPosts ==
    {<<Line("POST", "route"), CRLF, ContentLength(5), CRLF>> \o KeepAlive
         \o <<CRLF, Body, Body, Body, Body, Body>>} \cup
    {<<Line("POST", "route"), CRLF, ContentLength(2), CRLF>> \o KeepAlive \o <<CRLF, Body, Body>>,
     <<Line("POST", "route"), CRLF>> \o KeepAlive \o <<CRLF>>}

(* No method, no parameters, a method without support, a header without ": ". *)
MCBad ==
    {<<Line("UNKNOWN", "file"), CRLF, CRLF>>,
     <<Line("GET", "?"), CRLF, CRLF>>,
     <<Line("PUT", "file"), CRLF>> \o KeepAlive \o <<CRLF>>,
     <<Line("GET", "file"), CRLF>> \o KeepAlive \o <<Body, CRLF, CRLF>>}

MCSent == MCGets \cup MCPosts \cup MCBad

MCText ==
    {"UNKNOWN", "", "?", "none", "GET", "POST", "PUT", "route", "file", "dir", "lost",
     "locked", "keep-alive", "close"}

(* For the runs that look for one thing. *)
MCForm == {<<Line("POST", "route"), CRLF, ContentLength(2), CRLF, CRLF, Body, Body>>}
MCFile == {Get("file", KeepAlive)}
=============================================================================
