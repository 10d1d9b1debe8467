------------------------------ MODULE UserConn ------------------------------
(***************************************************************************)
(* One connection: UserConn (userconn.cpp, userconn.h) with its request    *)
(* and its response (httpdata.cpp), its client, and the file it may serve. *)
(*                                                                         *)
(* The loop calls process_in when the socket is readable, process_out when *)
(* it is writable; each sends or receives as much as the socket takes at   *)
(* the moment, and is called again for the rest.  The loop closes the      *)
(* connection at any time between two calls (timeout, hang-up).            *)
(***************************************************************************)
EXTENDS HttpRequest

CONSTANTS
    BufLen,       \* BUFFER_MIN_SIZE_R, in cells
    Sent,         \* the requests a client may send, as sequences of cells
    MaxRequests,  \* how many it sends
    BodyLen,      \* cells of a response body or file
    JunkCap       \* bounds what is read past the end of the base response

ASSUME UserConnAssumption ==
    /\ BufLen \in Nat \ {0}
    /\ MaxRequests \in Nat
    /\ BodyLen \in Nat
    /\ JunkCap \in Nat

(* A request without a body ends with its headers. *)
ASSUME SentAssumption ==
    /\ Sent \subseteq Seq(Cells)
    /\ \A r \in Sent :
          LET p == parse(NewRequest, r, 0)
          IN  parse_complete(p.req) /\ ~p.req.is_bad_req_ /\ p.req.content_length = -1
                => p.parsed = Len(r)

VARIABLES
    armed,                \* what the socket is armed for: "in", "out"; "closed"
    buffer_r_,
    buffer_r_bytes_,
    req_,
    req_parsed_bytes_,
    rsp_,
    base_rsp_snd_,
    rsp_base_snd_bytes_,
    rsp_body_snd_bytes_,
    file_fd_,             \* whether it is not -1
    open_files,           \* descriptors opened and not closed by this object
    net,                  \* sent by the client and not received
    asked,                \* the request the client waits to have answered
    requests,             \* how many it sent
    answered,             \* responses sent to their end
    wire_base,            \* what the client got of the base response
    wire_body             \* what it got of the body: the offsets in order

vars == <<armed, buffer_r_, buffer_r_bytes_, req_, req_parsed_bytes_, rsp_, base_rsp_snd_,
          rsp_base_snd_bytes_, rsp_body_snd_bytes_, file_fd_, open_files,
          net, asked, requests, answered, wire_base, wire_body>>

inVars == <<buffer_r_, buffer_r_bytes_, req_, req_parsed_bytes_>>
outVars == <<rsp_, base_rsp_snd_, rsp_base_snd_bytes_, rsp_body_snd_bytes_, file_fd_,
             open_files>>
clientVars == <<net, asked, requests, answered, wire_base, wire_body>>

-----------------------------------------------------------------------------
(* The cells of base responses. *)
Words == {"200", "301", "400", "404", "405", "500", "Location", "Content-Length:", "n", "end"}

(* Responses.  base is what get_base_rsp makes of status and headers, body
   how many cells the body has. *)
Response(status, headers, file, n) ==
    [base |-> <<status>> \o headers \o <<"end">>, is_file |-> file, body |-> n]

NoResponse == Response("200", <<>>, TRUE, 0)   \* HttpResponse::reset

LengthHeader == <<"Content-Length:", "n">>

ErrorResponse(status) == Response(status, LengthHeader, FALSE, BodyLen)

(* route_path: an error, the answer of a registered handler, or a file, whose
   length is not known before it is open. *)
Route(r) ==
    CASE r.is_bad_req_ -> ErrorResponse("400")
      [] ~r.is_bad_req_ /\ r.path_ = "route" /\ r.method_ = "POST" ->
            Response("200", LengthHeader, FALSE, BodyLen)
      [] ~r.is_bad_req_ /\ r.path_ = "route" /\ r.method_ # "POST" -> ErrorResponse("405")
      [] ~r.is_bad_req_ /\ r.path_ # "route" -> Response("200", <<>>, TRUE, BodyLen)

(* What open and fstat make of it: a file, a directory, no such file, another
   error. *)
Opened(r) ==
    CASE r.path_ = "file" -> Response("200", LengthHeader, TRUE, BodyLen)
      [] r.path_ = "dir" -> Response("301", <<"Location">> \o LengthHeader, FALSE, 0)
      [] r.path_ = "lost" -> ErrorResponse("404")
      [] OTHER -> ErrorResponse("500")

(* The response to a request, as it is after the file was opened. *)
Answer(r) == IF Route(r).is_file THEN Opened(r) ELSE Route(r)

MaxBase == 5   \* cells of the longest base response

Offsets(n) == [i \in 1..n |-> i]

-----------------------------------------------------------------------------
TypeOK ==
    /\ armed \in {"in", "out", "closed"}
    /\ buffer_r_bytes_ \in 0..BufLen
    /\ buffer_r_ \in [1..BufLen -> Cells]
    /\ req_ \in Requests
    /\ req_parsed_bytes_ \in 0..BufLen
    /\ rsp_.is_file \in BOOLEAN
    /\ base_rsp_snd_ \in BOOLEAN
    /\ rsp_base_snd_bytes_ \in Nat
    /\ rsp_body_snd_bytes_ \in 0..BodyLen
    /\ file_fd_ \in BOOLEAN
    /\ open_files \in Nat
    /\ net \in Seq(Cells)
    /\ requests \in 0..MaxRequests
    /\ answered \in Nat

Init ==
    /\ armed = "in"
    /\ buffer_r_ = [i \in 1..BufLen |-> NUL]
    /\ buffer_r_bytes_ = 0
    /\ req_ = NewRequest
    /\ req_parsed_bytes_ = 0
    /\ rsp_ = NoResponse
    /\ base_rsp_snd_ = FALSE
    /\ rsp_base_snd_bytes_ = 0
    /\ rsp_body_snd_bytes_ = 0
    /\ file_fd_ = FALSE
    /\ open_files = 0
    /\ net = <<>>
    /\ asked = <<>>
    /\ requests = 0
    /\ answered = 0
    /\ wire_base = <<>>
    /\ wire_body = <<>>

-----------------------------------------------------------------------------
(* The client sends a request when it waits for no answer. *)
ClientSends ==
    /\ armed # "closed"
    /\ asked = <<>>
    /\ requests < MaxRequests
    /\ \E r \in Sent :
        /\ asked' = r
        /\ net' = net \o r
    /\ requests' = requests + 1
    /\ UNCHANGED <<armed, inVars, outVars, answered, wire_base, wire_body>>

-----------------------------------------------------------------------------
(* recv of n cells, behind those already there. *)
Received(n) ==
    [i \in 1..BufLen |->
        IF i \in (buffer_r_bytes_ + 1)..(buffer_r_bytes_ + n)
        THEN net[i - buffer_r_bytes_] ELSE buffer_r_[i]]

(* process_in: recv, parse the buffer from where the last parse got to, and
   arm the socket for the answer if the request is complete. *)
ProcessIn(n) ==
    /\ armed = "in"
    /\ n \in 1..Len(net)
    /\ buffer_r_bytes_ + n <= BufLen
    /\ buffer_r_' = Received(n)
    /\ buffer_r_bytes_' = buffer_r_bytes_ + n
    /\ net' = SubSeq(net, n + 1, Len(net))
    /\ LET p == parse(req_, Received(n), req_parsed_bytes_)
       IN  /\ req_' = p.req
           /\ req_parsed_bytes_' = req_parsed_bytes_ + p.parsed
           /\ armed' = IF parse_complete(p.req) THEN "out" ELSE "in"
    /\ wire_base' = <<>>
    /\ wire_body' = <<>>
    /\ UNCHANGED <<outVars, asked, requests, answered>>

(* recv fails, or there is no room in the buffer: armed for reading again. *)
ProcessInFails ==
    /\ armed = "in"
    /\ UNCHANGED vars

-----------------------------------------------------------------------------
(* process_out runs the handler each time, and opens the file the first. *)

(* Fault: the file is opened at each call. *)
OpenEachTime == Route(req_).is_file

Opens == Route(req_).is_file /\ ~file_fd_

Rebuilt == IF Opens THEN Opened(req_) ELSE Route(req_)

IsOpen == file_fd_ \/ (Opens /\ req_.path_ = "file")

(* send_base_rsp sends b cells of the base response from where the last call
   stopped, and leaves when all are sent or send takes no more. *)
SendBase(rsp, b) ==
    IF base_rsp_snd_ \/ rsp_base_snd_bytes_ = Len(rsp.base)
    THEN b = 0
    ELSE IF rsp_base_snd_bytes_ < Len(rsp.base)
    THEN b \in 0..(Len(rsp.base) - rsp_base_snd_bytes_)
    ELSE b \in 0..JunkCap /\ rsp_base_snd_bytes_ + b <= Len(rsp.base) + JunkCap

BaseCell(rsp, i) == IF i <= Len(rsp.base) THEN rsp.base[i] ELSE "junk"

SentBase(rsp, b) == [i \in 1..b |-> BaseCell(rsp, rsp_base_snd_bytes_ + i)]

BaseDone(rsp, b) == base_rsp_snd_ \/ rsp_base_snd_bytes_ + b = Len(rsp.base)

(* Fault: the body is sent from its start at each call. *)
SentBodyAgain(d) == [i \in 1..d |-> i]

(* send_body sends d cells of the body from rsp_body_snd_bytes_ on. *)
SentBody(d) == [i \in 1..d |-> rsp_body_snd_bytes_ + i]

SendBody(rsp, b, d) ==
    IF BaseDone(rsp, b)
    THEN d \in 0..(rsp.body - rsp_body_snd_bytes_)
    ELSE d = 0

BodyDone(rsp, b, d) ==
    BaseDone(rsp, b) /\ rsp_body_snd_bytes_ + d = rsp.body

(* What both calls put on the wire. *)
Sends(rsp, b, d) ==
    /\ SendBase(rsp, b)
    /\ SendBody(rsp, b, d)
    /\ wire_base' = wire_base \o SentBase(rsp, b)
    /\ wire_body' = wire_body \o SentBody(d)

(* The socket takes no more: armed for writing again. *)
ProcessOut(b, d) ==
    /\ armed = "out"
    /\ Sends(Rebuilt, b, d)
    /\ ~BodyDone(Rebuilt, b, d)
    /\ rsp_' = Rebuilt
    /\ base_rsp_snd_' = BaseDone(Rebuilt, b)
    /\ rsp_base_snd_bytes_' = rsp_base_snd_bytes_ + b
    /\ rsp_body_snd_bytes_' = rsp_body_snd_bytes_ + d
    /\ file_fd_' = IsOpen
    /\ open_files' = open_files + (IF Opens /\ req_.path_ = "file" THEN 1 ELSE 0)
    /\ UNCHANGED <<armed, inVars, net, asked, requests, answered>>

(* Fault: conn_state_reset leaves the parser's cursor where it was. *)
conn_state_reset_partly ==
    /\ buffer_r_bytes_' = 0
    /\ req_' = NewRequest
    /\ rsp_' = NoResponse
    /\ base_rsp_snd_' = FALSE
    /\ rsp_base_snd_bytes_' = 0
    /\ rsp_body_snd_bytes_' = 0
    /\ UNCHANGED req_parsed_bytes_

(* conn_state_reset: the buffer keeps what is in it. *)
conn_state_reset ==
    /\ buffer_r_bytes_' = 0
    /\ req_' = NewRequest
    /\ req_parsed_bytes_' = 0
    /\ rsp_' = NoResponse
    /\ base_rsp_snd_' = FALSE
    /\ rsp_base_snd_bytes_' = 0
    /\ rsp_body_snd_bytes_' = 0

(* close_file_fd, by whoever comes first: send_body at the end of a file,
   conn_state_reset, ~UserConn. *)
close_file_fd(opened) ==
    /\ file_fd_' = FALSE
    /\ open_files' = open_files + (IF opened THEN 1 ELSE 0)
                                - (IF file_fd_ \/ opened THEN 1 ELSE 0)

(* All is sent: the connection is used again only if the request said so. *)
ProcessOutEnds(b, d) ==
    /\ armed = "out"
    /\ Sends(Rebuilt, b, d)
    /\ BodyDone(Rebuilt, b, d)
    /\ close_file_fd(Opens /\ req_.path_ = "file")
    /\ \/ /\ req_.connection = "keep-alive"
          /\ conn_state_reset
          /\ armed' = "in"
       \/ /\ req_.connection # "keep-alive"
          /\ armed' = "closed"
          /\ UNCHANGED <<inVars, rsp_, base_rsp_snd_, rsp_base_snd_bytes_,
                         rsp_body_snd_bytes_>>
    /\ asked' = <<>>
    /\ answered' = answered + 1
    /\ UNCHANGED <<buffer_r_, net, requests>>

(* The loop closes the connection: ~UserConn closes the file. *)
ConnClose ==
    /\ armed # "closed"
    /\ armed' = "closed"
    /\ close_file_fd(FALSE)
    /\ UNCHANGED <<inVars, rsp_, base_rsp_snd_, rsp_base_snd_bytes_,
                   rsp_body_snd_bytes_, clientVars>>

-----------------------------------------------------------------------------
Next ==
    \/ ClientSends
    \/ \E n \in 1..BufLen : ProcessIn(n)
    \/ ProcessInFails
    \/ \E b \in 0..(MaxBase + JunkCap), d \in 0..BodyLen : ProcessOut(b, d) \/ ProcessOutEnds(b, d)
    \/ ConnClose

Spec == Init /\ [][Next]_vars

-----------------------------------------------------------------------------
(* The properties. *)

(* "If it is opened again, the old descriptor leaks" (userconn.cpp:79-83): at
   any time this object has the one file open that file_fd_ says, through all
   re-entries of process_out, and none when the connection is closed. *)
OneOpenFile == open_files = (IF file_fd_ THEN 1 ELSE 0) /\ (armed = "closed" => ~file_fd_)

(* What is promised the client: the answer to the request as it was understood,
   the head of a file apart, which is not the same each time it is rebuilt. *)
NoPromise == [fixed |-> FALSE, keep |-> FALSE, head |-> <<>>, body |-> <<>>]

Promised ==
    IF armed = "out"
    THEN [fixed |-> ~Answer(req_).is_file,
          keep  |-> req_.connection = "keep-alive",
          head  |-> Answer(req_).base,
          body  |-> Offsets(Answer(req_).body)]
    ELSE NoPromise

Promise == INSTANCE Exchange WITH
    Answers <- [fixed : BOOLEAN, keep : BOOLEAN, head : Seq(Words), body : Seq(Nat)],
    NoAnswer <- NoPromise,
    phase <- armed,
    answer <- Promised,
    head <- wire_base,
    body <- wire_body

(* However the sending is cut up (userconn.cpp:102-129, 200-330), the client
   gets the answer to the request that was read, from its first cell, in order
   and once, and the connection goes on to the next request only when it has
   all of it: nothing of one response is left in the next. *)
ExchangeSpec == Promise!Spec

(* A request that one recv brings whole into an empty buffer is understood as
   if nothing had ever been in that buffer: what earlier requests left there
   (userconn.cpp:58, userconn.h:74-75) lies behind it, and the parser, which is
   handed the whole buffer, stops in front of it. *)
WholePieceUnderstood ==
    [][LET w == parse(NewRequest, asked, 0)
       IN  /\ armed = "in" /\ buffer_r_bytes_ = 0 /\ net = asked /\ net' = <<>>
           /\ parse_complete(w.req)
           => req_' = w.req /\ armed' = "out"]_vars

(* The first request of a connection, if it has no body, is answered only when
   all of it was received. *)
FirstRequestWhole ==
    requests = 1 /\ answered = 0 /\ armed = "out" /\ ~req_.is_bad_req_
        /\ req_.content_length = -1 => net = <<>>

(* ... and what is understood of it does not depend on how it was cut up. *)
Padded(cells) == [i \in 1..BufLen |-> IF i <= Len(cells) THEN cells[i] ELSE NUL]

SplitIndependent ==
    requests = 1 /\ answered = 0 /\ armed = "out" /\ req_.content_length = -1 =>
        req_ = parse(NewRequest, Padded(asked), 0).req

(* "Parse the data of the read-buffer, see whether all was received; if not, go
   on receiving until it is" (THINKING.md:5): what is answered was received
   whole. *)
RequestWhole == armed = "out" /\ ~req_.is_bad_req_ => net = <<>>

(* "In theory remain_size < 0 does not occur" (userconn.cpp:209). *)
RemainNotNegative ==
    armed = "out" /\ ~base_rsp_snd_ => rsp_base_snd_bytes_ <= Len(rsp_.base)
=============================================================================
