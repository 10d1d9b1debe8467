---------------------------- MODULE HttpRequest ----------------------------
(***************************************************************************)
(* HttpRequest::parse (httpdata.cpp): the state machine that reads a       *)
(* request out of a buffer, and can be called again when more has come.    *)
(*                                                                         *)
(* The text is abstracted to cells: a whole request line, a whole header,  *)
(* the "\r\n" after either, one piece of a body, a NUL.  data is the whole *)
(* buffer, the part nothing was received into included, as in the code.    *)
(***************************************************************************)
EXTENDS Integers, Sequences

CONSTANT Text   \* methods, paths and values of headers

ASSUME TextAssumption == {"UNKNOWN", "", "none"} \subseteq Text

Line(method, uri) == [k |-> "line", method |-> method, uri |-> uri]
Connection(val) == [k |-> "connection", val |-> val]
ContentLength(n) == [k |-> "length", val |-> n]
CRLF == [k |-> "crlf"]
Body == [k |-> "body"]
NUL == [k |-> "nul"]

(* "none" is no value of a header: it stands for one that is not there. *)
Cells ==
    [k : {"line"}, method : Text, uri : Text]
      \cup [k : {"connection"}, val : Text \ {"none"}]
      \cup [k : {"length"}, val : Nat]
      \cup {CRLF, Body, NUL}

(* HttpRequest::reset; "none" and -1 stand for headers that are not there. *)
NewRequest ==
    [state_ |-> "PARSE_REQ_LINE",
     is_bad_req_ |-> FALSE,
     method_ |-> "UNKNOWN",
     path_ |-> "",
     connection |-> "none",
     content_length |-> -1,
     body_ |-> 0]

Requests ==
    [state_ : {"PARSE_REQ_LINE", "PARSE_REQ_HEADER", "PARSE_BODY", "PARSE_SUCCESS"},
     is_bad_req_ : BOOLEAN,
     method_ : Text,
     path_ : Text,
     connection : Text,
     content_length : Nat \cup {-1},
     body_ : Nat]

set_bad_req(r) == [r EXCEPT !.is_bad_req_ = TRUE, !.state_ = "PARSE_SUCCESS"]

parse_complete(r) == r.state_ = "PARSE_SUCCESS"

(* What a parser returns: the request, and the cells it consumed. *)
Result(r, n) == [req |-> r, parsed |-> n]

-----------------------------------------------------------------------------
(* Lines of the data behind the first n cells. *)

Ends(data, n) == {e \in (n + 1)..Len(data) : data[e] = CRLF}

(* Where a line starts whose end is there as well. *)
Starts(data, n) ==
    {s \in (n + 1)..Len(data) :
        /\ s = n + 1 \/ data[s - 1] = CRLF
        /\ Ends(data, s - 1) # {}}

First(S) == CHOOSE x \in S : \A y \in S : x <= y
Last(S) == CHOOSE x \in S : \A y \in S : x >= y

IsHeader(cell) == cell.k \in {"connection", "length"}

-----------------------------------------------------------------------------
(* "GET /path HTTP/1.1\r\n".  A line that is anything else is bad; so is a
   uri of which parse_uri can make no path ("") or no parameters ("?").  What
   a bad line leaves in method_ and path_ is left out: only error handlers see
   it, and those of httpdata.cpp do not look. *)
parse_req_line(r, data, n) ==
    IF Ends(data, n) = {} THEN Result(r, 0)
    ELSE IF \/ First(Ends(data, n)) # n + 2
            \/ data[n + 1].k # "line"
            \/ data[n + 1].method = "UNKNOWN"
            \/ data[n + 1].uri \in {"", "?"}
    THEN Result(set_bad_req(r), 0)
    ELSE Result([r EXCEPT !.method_ = data[n + 1].method,
                          !.path_ = data[n + 1].uri,
                          !.state_ = "PARSE_REQ_HEADER"], 2)

OfKind(data, S, k) == {s \in S : data[s].k = k}

(* The first header of a name is the one that counts: headers_.emplace. *)
Emplace(r, data, S) ==
    LET connections == OfKind(data, S, "connection")
        lengths == OfKind(data, S, "length")
    IN  [r EXCEPT
           !.connection = IF @ = "none" /\ connections # {}
                          THEN data[First(connections)].val ELSE @,
           !.content_length = IF @ = -1 /\ lengths # {}
                              THEN data[First(lengths)].val ELSE @]

(* Fault: what has come of a header that is not complete counts as parsed. *)
parse_req_header_partial(r, data, n) ==
    LET starts == Starts(data, n)
        stops == {s \in starts : ~IsHeader(data[s])}
    IN  IF stops = {}
        THEN Result(Emplace(r, data, starts),
                    IF n = Len(data) THEN 0
                    ELSE IF starts = {} THEN 1
                    ELSE Last(Ends(data, n)) - n + 1)
        ELSE LET s == First(stops)
                 read == Emplace(r, data, {h \in starts : h < s})
             IN  IF data[s] = CRLF
                 THEN Result([read EXCEPT !.state_ = "PARSE_BODY"], s - n)
                 ELSE Result(set_bad_req(read), s - n - 1)

(* Fault: the headers end where the complete lines do. *)
parse_req_header_hasty(r, data, n) ==
    LET starts == {s \in Starts(data, n) : IsHeader(data[s])}
    IN  Result([Emplace(r, data, starts) EXCEPT !.state_ = "PARSE_BODY"],
               IF Ends(data, n) = {} THEN 0 ELSE Last(Ends(data, n)) - n)

(* Header lines up to the empty one, as far as complete lines are there; a
   line without ": " makes the request bad. *)
parse_req_header(r, data, n) ==
    LET starts == Starts(data, n)
        stops == {s \in starts : ~IsHeader(data[s])}
    IN  IF stops = {}
        THEN Result(Emplace(r, data, starts),
                    IF starts = {} THEN 0 ELSE Last(Ends(data, n)) - n)
        ELSE LET s == First(stops)
                 read == Emplace(r, data, {h \in starts : h < s})
             IN  IF data[s] = CRLF
                 THEN Result([read EXCEPT !.state_ = "PARSE_BODY"], s - n)
                 ELSE Result(set_bad_req(read), s - n - 1)

(* Fault: the end of the buffer is not looked at. *)
parse_req_body_uncapped(r, data, n) ==
    IF r.method_ = "GET" \/ r.content_length = -1
    THEN Result([r EXCEPT !.state_ = "PARSE_SUCCESS"], 0)
    ELSE Result([r EXCEPT !.body_ = r.content_length, !.state_ = "PARSE_SUCCESS"],
                r.content_length - r.body_)

(* A GET has no body; that of a POST is the next Content-Length cells of the
   buffer, as far as the buffer goes. *)
parse_req_body(r, data, n) ==
    CASE r.method_ = "GET" -> Result([r EXCEPT !.state_ = "PARSE_SUCCESS"], 0)
      [] r.method_ = "POST" /\ r.content_length = -1 ->
            Result([r EXCEPT !.state_ = "PARSE_SUCCESS"], 0)
      [] r.method_ = "POST" /\ r.content_length # -1 /\ n >= Len(data) -> Result(r, 0)
      [] r.method_ = "POST" /\ r.content_length # -1 /\ n < Len(data) ->
            LET remain == r.content_length - r.body_
                taken == IF remain > Len(data) - n THEN Len(data) - n ELSE remain
            IN  Result([r EXCEPT
                          !.body_ = @ + taken,
                          !.state_ = IF r.body_ + taken = r.content_length
                                     THEN "PARSE_SUCCESS" ELSE @], taken)
      [] OTHER -> Result(set_bad_req(r), 0)

-----------------------------------------------------------------------------
parse(r, data, start) ==
    IF parse_complete(r) \/ start >= Len(data) THEN Result(r, 0)
    ELSE
    LET line == IF r.state_ = "PARSE_REQ_LINE"
                THEN parse_req_line(r, data, start) ELSE Result(r, 0)
        header == IF line.req.state_ = "PARSE_REQ_HEADER"
                  THEN parse_req_header(line.req, data, start + line.parsed)
                  ELSE Result(line.req, 0)
        body == IF header.req.state_ = "PARSE_BODY"
                THEN parse_req_body(header.req, data, start + line.parsed + header.parsed)
                ELSE Result(header.req, 0)
    IN  Result(body.req, line.parsed + header.parsed + body.parsed)
=============================================================================
