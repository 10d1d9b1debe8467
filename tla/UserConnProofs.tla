--------------------------- MODULE UserConnProofs ---------------------------
(***************************************************************************)
(* Proofs about a connection, for any buffer, any requests and any length  *)
(* of the bodies, and however much the socket takes at each call.          *)
(***************************************************************************)
EXTENDS UserConn, HttpRequestProofs

USE UserConnAssumption

-----------------------------------------------------------------------------
(* The file: open only while a response made of it is being sent. *)
FileOK ==
    /\ OneOpenFile
    /\ file_fd_ \in BOOLEAN
    /\ file_fd_ => armed = "out" /\ Route(req_).is_file /\ req_.path_ = "file"

(* A kept connection reads its next request with nothing left of the last
   response, and never while one is being sent. *)
FreshWhileReading ==
    armed = "in" =>
        /\ ~parse_complete(req_)
        /\ rsp_ = NoResponse /\ ~base_rsp_snd_ /\ ~file_fd_
        /\ rsp_base_snd_bytes_ = 0 /\ rsp_body_snd_bytes_ = 0

LEMMA CloseFile ==
  ASSUME FileOK, NEW opened \in BOOLEAN, opened => ~file_fd_, close_file_fd(opened)
  PROVE  file_fd_' = FALSE /\ open_files' = 0
BY DEF FileOK, OneOpenFile, close_file_fd

LEMMA NextFile == FileOK /\ FreshWhileReading /\ [Next]_vars => FileOK'
<1> SUFFICES ASSUME FileOK, FreshWhileReading, [Next]_vars PROVE FileOK'
  OBVIOUS
<1> USE DEF FileOK, OneOpenFile
<1>1. CASE ClientSends
  BY <1>1 DEF ClientSends, inVars, outVars
<1>2. ASSUME NEW n \in 1..BufLen, ProcessIn(n) PROVE FileOK'
  <2>1. file_fd_ = FALSE
    BY <1>2 DEF ProcessIn
  <2>2. UNCHANGED <<file_fd_, open_files>>
    BY <1>2 DEF ProcessIn, outVars
  <2>3. armed' \in {"in", "out"}
    BY <1>2 DEF ProcessIn
  <2> QED BY <2>1, <2>2, <2>3
<1>3. ASSUME NEW b, NEW d, ProcessOut(b, d) PROVE FileOK'
  <2>1. req_' = req_ /\ armed' = "out"
    BY <1>3 DEF ProcessOut, inVars
  <2>2. Route(req_)' = Route(req_)
    BY <2>1
  <2>3. file_fd_' = IsOpen
    BY <1>3 DEF ProcessOut
  <2>4. open_files' = open_files + (IF Opens /\ req_.path_ = "file" THEN 1 ELSE 0)
    BY <1>3 DEF ProcessOut
  <2>5. CASE file_fd_
    <3>1. IsOpen /\ ~Opens
      BY <2>5 DEF IsOpen, Opens
    <3>2. file_fd_' = TRUE
      BY <2>3, <3>1, Zenon
    <3>3. open_files' = 1
      BY <2>4, <2>5, <3>1
    <3> QED BY <2>1, <2>2, <2>5, <3>2, <3>3
  <2>6. CASE ~file_fd_ /\ Route(req_).is_file /\ req_.path_ = "file"
    <3>1. IsOpen /\ Opens
      BY <2>6 DEF IsOpen, Opens
    <3>2. file_fd_' = TRUE
      BY <2>3, <3>1, Zenon
    <3>3. open_files' = 1
      BY <2>4, <2>6, <3>1
    <3> QED BY <2>1, <2>2, <2>6, <3>2, <3>3
  <2>7. CASE ~file_fd_ /\ ~(Route(req_).is_file /\ req_.path_ = "file")
    BY <2>1, <2>2, <2>3, <2>4, <2>7 DEF IsOpen, Opens
  <2> QED BY <2>5, <2>6, <2>7
<1>4. ASSUME NEW b, NEW d, ProcessOutEnds(b, d) PROVE FileOK'
  <2> DEFINE opened == Opens /\ req_.path_ = "file"
  <2>1. opened \in BOOLEAN /\ (opened => ~file_fd_) /\ close_file_fd(opened)
    BY <1>4 DEF ProcessOutEnds, Opens
  <2> HIDE DEF opened
  <2>2. file_fd_' = FALSE /\ open_files' = 0
    BY <2>1, CloseFile
  <2> QED BY <2>2
<1>5. CASE ConnClose
  <2>1. file_fd_' = FALSE /\ open_files' = 0
    BY <1>5, CloseFile DEF ConnClose
  <2> QED BY <2>1
<1>6. CASE ProcessInFails \/ UNCHANGED vars
  BY <1>6 DEF ProcessInFails, vars
<1> QED BY <1>1, <1>2, <1>3, <1>4, <1>5, <1>6 DEF Next

-----------------------------------------------------------------------------
(* Reading starts afresh. *)

LEMMA NewIncomplete == ~parse_complete(NewRequest)
BY DEF parse_complete, NewRequest

LEMMA NewWaits == Waits(NewRequest) /\ NewRequest.content_length = -1
BY DEF Waits, NewRequest

LEMMA NextFresh == FileOK /\ FreshWhileReading /\ [Next]_vars => FreshWhileReading'
<1> SUFFICES ASSUME FileOK, FreshWhileReading, [Next]_vars PROVE FreshWhileReading'
  OBVIOUS
<1> USE DEF FreshWhileReading
<1>1. CASE ClientSends
  BY <1>1 DEF ClientSends, inVars, outVars
<1>2. ASSUME NEW n \in 1..BufLen, ProcessIn(n) PROVE FreshWhileReading'
  <2>1. armed = "in" /\ UNCHANGED outVars
    BY <1>2 DEF ProcessIn
  <2>2. armed' = "in" => ~parse_complete(req_')
    BY <1>2 DEF ProcessIn
  <2> QED BY <2>1, <2>2 DEF outVars
<1>3. ASSUME NEW b, NEW d, ProcessOut(b, d) PROVE FreshWhileReading'
  BY <1>3 DEF ProcessOut
<1>4. ASSUME NEW b, NEW d, ProcessOutEnds(b, d) PROVE FreshWhileReading'
  <2>1. CASE armed' = "closed"
    BY <2>1
  <2>2. CASE conn_state_reset
    <3>1. req_' = NewRequest /\ rsp_' = NoResponse /\ base_rsp_snd_' = FALSE
          /\ rsp_base_snd_bytes_' = 0 /\ rsp_body_snd_bytes_' = 0
      BY <2>2 DEF conn_state_reset
    <3>2. file_fd_' = FALSE
      BY <1>4 DEF ProcessOutEnds, close_file_fd
    <3>3. ~parse_complete(req_')
      BY <3>1, NewIncomplete, Zenon
    <3>4. rsp_' = NoResponse'
      BY <3>1 DEF NoResponse, Response
    <3> QED BY <3>1, <3>2, <3>3, <3>4
  <2> QED BY <1>4, <2>1, <2>2 DEF ProcessOutEnds
<1>5. CASE ConnClose
  BY <1>5 DEF ConnClose
<1>6. CASE ProcessInFails \/ UNCHANGED vars
  BY <1>6 DEF ProcessInFails, vars
<1> QED BY <1>1, <1>2, <1>3, <1>4, <1>5, <1>6 DEF Next

LEMMA InitOK == Init => FileOK /\ FreshWhileReading
<1> SUFFICES ASSUME Init PROVE FileOK /\ FreshWhileReading
  OBVIOUS
<1>1. FileOK
  BY DEF Init, FileOK, OneOpenFile
<1>2. ~parse_complete(req_)
  BY NewIncomplete DEF Init
<1>3. FreshWhileReading
  BY <1>2 DEF Init, FreshWhileReading
<1> QED BY <1>1, <1>3

(* process_out can be entered again and again: one file is open at most. *)
THEOREM FilesClosed == Spec => []OneOpenFile
BY InitOK, NextFile, NextFresh, PTL DEF Spec, FileOK

(* A kept connection reads with nothing left of the last response. *)
THEOREM FreshKept == Spec => []FreshWhileReading
BY InitOK, NextFile, NextFresh, PTL DEF Spec

-----------------------------------------------------------------------------
(* What is on the wire is what the counters say. *)

FirstCells(base, n) == [i \in 1..n |-> base[i]]

LEMMA OffsetsGrow ==
  ASSUME NEW n \in Nat, NEW d \in Nat
  PROVE  Offsets(n) \o [i \in 1..d |-> n + i] = Offsets(n + d)
<1> DEFINE s == Offsets(n)
           t == [i \in 1..d |-> n + i]
           u == Offsets(n + d)
<1>1. s \in Seq(Nat) /\ t \in Seq(Nat) /\ u \in Seq(Nat)
  BY DEF Offsets
<1>2. Len(s) = n /\ Len(t) = d /\ Len(u) = n + d
  BY DEF Offsets
<1>3. Len(s \o t) = n + d /\ s \o t \in Seq(Nat)
  BY <1>1, <1>2
<1>4. ASSUME NEW i \in 1..(n + d) PROVE (s \o t)[i] = u[i]
  <2> HIDE DEF s, t, u
  <2>1. (s \o t)[i] = IF i <= Len(s) THEN s[i] ELSE t[i - Len(s)]
    BY <1>1, <1>2, <1>4, ConcatProperties
  <2> USE DEF s, t, u
  <2> QED BY <1>2, <2>1 DEF Offsets
<1>5. s \o t = u
  <2> HIDE DEF s, t, u
  <2> QED BY <1>1, <1>2, <1>3, <1>4, SeqEqual
<1> QED BY <1>5

LEMMA FirstCellsGrow ==
  ASSUME NEW base \in Seq(Words), NEW n \in Nat, NEW b \in Nat, n + b <= Len(base)
  PROVE  FirstCells(base, n) \o [i \in 1..b |-> base[n + i]] = FirstCells(base, n + b)
<1> DEFINE s == FirstCells(base, n)
           t == [i \in 1..b |-> base[n + i]]
           u == FirstCells(base, n + b)
<1>1. s \in Seq(Words) /\ t \in Seq(Words) /\ u \in Seq(Words)
  BY DEF FirstCells
<1>2. Len(s) = n /\ Len(t) = b /\ Len(u) = n + b
  BY DEF FirstCells
<1>3. Len(s \o t) = n + b /\ s \o t \in Seq(Words)
  BY <1>1, <1>2
<1>4. ASSUME NEW i \in 1..(n + b) PROVE (s \o t)[i] = u[i]
  <2> HIDE DEF s, t, u
  <2>1. (s \o t)[i] = IF i <= Len(s) THEN s[i] ELSE t[i - Len(s)]
    BY <1>1, <1>2, <1>4, ConcatProperties
  <2> USE DEF s, t, u
  <2> QED BY <1>2, <2>1 DEF FirstCells
<1>5. s \o t = u
  <2> HIDE DEF s, t, u
  <2> QED BY <1>1, <1>2, <1>3, <1>4, SeqEqual
<1> QED BY <1>5

LEMMA WordSeq ==
  ASSUME NEW S, NEW c \in S, NEW e \in S
  PROVE  <<>> \in Seq(S) /\ <<c>> \in Seq(S) /\ <<c, e>> \in Seq(S)
OBVIOUS

LEMMA ResponseFields ==
  ASSUME NEW status \in Words, NEW headers \in Seq(Words), NEW file \in BOOLEAN, NEW n \in Nat
  PROVE  /\ Response(status, headers, file, n).base \in Seq(Words)
         /\ Response(status, headers, file, n).is_file = file
         /\ Response(status, headers, file, n).body = n
<1>1. "end" \in Words
  BY DEF Words
<1>2. <<status>> \in Seq(Words) /\ <<"end">> \in Seq(Words)
  BY <1>1, WordSeq
<1>3. <<status>> \o headers \in Seq(Words)
  BY <1>2, ConcatProperties
<1>4. <<status>> \o headers \o <<"end">> \in Seq(Words)
  BY <1>2, <1>3, ConcatProperties
<1> QED BY <1>4 DEF Response

LEMMA Headers ==
  /\ <<>> \in Seq(Words)
  /\ LengthHeader \in Seq(Words)
  /\ <<"Location">> \o LengthHeader \in Seq(Words)
<1>1. "Location" \in Words /\ "Content-Length:" \in Words /\ "n" \in Words
  BY DEF Words
<1>2. <<>> \in Seq(Words) /\ <<"Location">> \in Seq(Words) /\ LengthHeader \in Seq(Words)
  BY <1>1, WordSeq DEF LengthHeader
<1> QED BY <1>2, ConcatProperties

LEMMA Errors ==
  ASSUME NEW status \in Words
  PROVE  /\ ErrorResponse(status).base \in Seq(Words)
         /\ ErrorResponse(status).is_file = FALSE
         /\ ErrorResponse(status).body = BodyLen
BY Headers, ResponseFields DEF ErrorResponse

LEMMA Codes == {"200", "301", "400", "404", "405", "500"} \subseteq Words
BY DEF Words

(* Where a file is served, its length is the same before and after open. *)
LEMMA Routes ==
  ASSUME NEW r
  PROVE  /\ Route(r).base \in Seq(Words) /\ Route(r).body = BodyLen
         /\ Route(r).is_file \in BOOLEAN
<1>1. CASE r.is_bad_req_
  BY <1>1, Codes, Errors DEF Route
<1>2. CASE ~r.is_bad_req_ /\ r.path_ = "route" /\ r.method_ = "POST"
  <2>1. Route(r) = Response("200", LengthHeader, FALSE, BodyLen)
    BY <1>2 DEF Route
  <2>2. "200" \in Words
    BY Codes
  <2>3. /\ Response("200", LengthHeader, FALSE, BodyLen).base \in Seq(Words)
        /\ Response("200", LengthHeader, FALSE, BodyLen).is_file = FALSE
        /\ Response("200", LengthHeader, FALSE, BodyLen).body = BodyLen
    BY <2>2, Headers, ResponseFields
  <2> QED BY <2>1, <2>3
<1>3. CASE ~r.is_bad_req_ /\ r.path_ = "route" /\ r.method_ # "POST"
  BY <1>3, Codes, Errors DEF Route
<1>4. CASE ~r.is_bad_req_ /\ r.path_ # "route"
  <2>1. Route(r) = Response("200", <<>>, TRUE, BodyLen)
    BY <1>4 DEF Route
  <2>2. "200" \in Words
    BY Codes
  <2>3. /\ Response("200", <<>>, TRUE, BodyLen).base \in Seq(Words)
        /\ Response("200", <<>>, TRUE, BodyLen).is_file = TRUE
        /\ Response("200", <<>>, TRUE, BodyLen).body = BodyLen
    BY <2>2, Headers, ResponseFields
  <2> QED BY <2>1, <2>3
<1> QED BY <1>1, <1>2, <1>3, <1>4

LEMMA Opening ==
  ASSUME NEW r
  PROVE  /\ Opened(r).base \in Seq(Words) /\ Opened(r).body \in {0, BodyLen}
         /\ Opened(r).is_file \in BOOLEAN
         /\ r.path_ = "file" => Opened(r).is_file /\ Opened(r).body = BodyLen
<1>1. CASE r.path_ = "file"
  <2>1. Opened(r) = Response("200", LengthHeader, TRUE, BodyLen)
    BY <1>1 DEF Opened
  <2>2. "200" \in Words
    BY Codes
  <2>3. /\ Response("200", LengthHeader, TRUE, BodyLen).base \in Seq(Words)
        /\ Response("200", LengthHeader, TRUE, BodyLen).is_file = TRUE
        /\ Response("200", LengthHeader, TRUE, BodyLen).body = BodyLen
    BY <2>2, Headers, ResponseFields
  <2> QED BY <1>1, <2>1, <2>3
<1>2. CASE r.path_ = "dir"
  <2> DEFINE h == <<"Location">> \o LengthHeader
  <2>1. Opened(r) = Response("301", h, FALSE, 0)
    BY <1>2 DEF Opened
  <2>2. "301" \in Words /\ h \in Seq(Words)
    BY Codes, Headers
  <2> HIDE DEF h
  <2>3. \A n \in Nat : /\ Response("301", h, FALSE, n).base \in Seq(Words)
                       /\ Response("301", h, FALSE, n).is_file = FALSE
                       /\ Response("301", h, FALSE, n).body = n
    BY <2>2, ResponseFields
  <2>4. Opened(r).base \in Seq(Words) /\ Opened(r).body = 0 /\ Opened(r).is_file = FALSE
    BY <2>1, <2>3
  <2>5. r.path_ # "file"
    BY <1>2
  <2> QED BY <2>4, <2>5
<1>3. CASE r.path_ = "lost"
  BY <1>3, Codes, Errors DEF Opened
<1>4. CASE r.path_ \notin {"file", "dir", "lost"}
  BY <1>4, Codes, Errors DEF Opened
<1> QED BY <1>1, <1>2, <1>3, <1>4

-----------------------------------------------------------------------------
(* A response as it is built at this call, compared with the answer. *)
LEMMA RebuiltNow ==
  ASSUME FileOK, armed = "out"
  PROVE  /\ Rebuilt.body = Answer(req_).body /\ Answer(req_).body \in Nat
         /\ Answer(req_).base \in Seq(Words)
         /\ ~Answer(req_).is_file => Rebuilt = Answer(req_)
<1>1. CASE file_fd_
  <2>1. Route(req_).is_file /\ req_.path_ = "file"
    BY <1>1 DEF FileOK
  <2>2. Rebuilt = Route(req_) /\ Answer(req_) = Opened(req_)
    BY <1>1, <2>1 DEF Rebuilt, Opens, Answer
  <2> QED BY <2>1, <2>2, Routes, Opening
<1>2. CASE ~file_fd_
  <2>1. Rebuilt = Answer(req_)
    BY <1>2 DEF Rebuilt, Opens, Answer
  <2>2. Answer(req_).base \in Seq(Words) /\ Answer(req_).body \in {0, BodyLen}
    BY Routes, Opening DEF Answer
  <2> QED BY <2>1, <2>2
<1> QED BY <1>1, <1>2 DEF FileOK

(* The counters and the wire: the body so far; the head so far, where it is
   the same at each call. *)
WireOK ==
    armed = "out" =>
        /\ rsp_body_snd_bytes_ \in 0..Answer(req_).body
        /\ wire_body = Offsets(rsp_body_snd_bytes_)
        /\ ~Answer(req_).is_file =>
               /\ rsp_base_snd_bytes_ \in 0..Len(Answer(req_).base)
               /\ wire_base = FirstCells(Answer(req_).base, rsp_base_snd_bytes_)
               /\ base_rsp_snd_ => rsp_base_snd_bytes_ = Len(Answer(req_).base)
               /\ rsp_body_snd_bytes_ > 0 => rsp_base_snd_bytes_ = Len(Answer(req_).base)

LEMMA BodySent ==
  ASSUME FileOK, WireOK, armed = "out",
         NEW b \in Nat, NEW d \in Nat, Sends(Rebuilt, b, d)
  PROVE  /\ wire_body' = Offsets(rsp_body_snd_bytes_ + d)
         /\ rsp_body_snd_bytes_ \in Nat /\ rsp_body_snd_bytes_ + d \in 0..Answer(req_).body
<1>1. rsp_body_snd_bytes_ \in 0..Answer(req_).body /\ Answer(req_).body \in Nat
      /\ Rebuilt.body = Answer(req_).body
  BY RebuiltNow DEF WireOK
<1>2. wire_body' = Offsets(rsp_body_snd_bytes_ + d)
  <2>1. rsp_body_snd_bytes_ \in Nat
    BY <1>1
  <2>2. wire_body' = Offsets(rsp_body_snd_bytes_) \o [i \in 1..d |-> rsp_body_snd_bytes_ + i]
    BY DEF Sends, SentBody, WireOK
  <2> QED BY <2>1, <2>2, OffsetsGrow
<1>3. d = 0 \/ d \in 0..(Rebuilt.body - rsp_body_snd_bytes_)
  BY DEF Sends, SendBody
<1> QED BY <1>1, <1>2, <1>3

LEMMA HeadSent ==
  ASSUME FileOK, WireOK, armed = "out", ~Answer(req_).is_file,
         NEW b \in Nat, NEW d \in Nat, Sends(Rebuilt, b, d)
  PROVE  /\ rsp_base_snd_bytes_ + b \in 0..Len(Answer(req_).base)
         /\ wire_base' = FirstCells(Answer(req_).base, rsp_base_snd_bytes_ + b)
         /\ BaseDone(Rebuilt, b) => rsp_base_snd_bytes_ + b = Len(Answer(req_).base)
         /\ rsp_body_snd_bytes_ + d > 0 => rsp_base_snd_bytes_ + b = Len(Answer(req_).base)
         /\ rsp_base_snd_bytes_ \in Nat
<1> DEFINE base == Answer(req_).base
           n == rsp_base_snd_bytes_
<1>1. Rebuilt = Answer(req_) /\ base \in Seq(Words) /\ Len(base) \in Nat
  BY RebuiltNow
<1>2. n \in 0..Len(base) /\ wire_base = FirstCells(base, n) /\ (base_rsp_snd_ => n = Len(base))
  BY DEF WireOK
<1>3. b = 0 \/ b \in 0..(Len(base) - n)
  BY <1>1, <1>2 DEF Sends, SendBase
<1>4. n + b \in 0..Len(base) /\ n \in Nat /\ n + b <= Len(base)
  BY <1>1, <1>2, <1>3
<1>5. SentBase(Rebuilt, b) = [i \in 1..b |-> base[n + i]]
  BY <1>1, <1>4 DEF SentBase, BaseCell
<1>6. wire_base' = FirstCells(base, n) \o [i \in 1..b |-> base[n + i]]
  BY <1>2, <1>5 DEF Sends
<1>7. wire_base' = FirstCells(base, n + b)
  BY <1>1, <1>4, <1>6, FirstCellsGrow
<1>8. BaseDone(Rebuilt, b) => n + b = Len(base)
  BY <1>1, <1>2, <1>3 DEF BaseDone, Sends, SendBase
<1>9. rsp_body_snd_bytes_ + d > 0 => n + b = Len(base)
  <2>1. ASSUME ~BaseDone(Rebuilt, b) PROVE d = 0
    BY <2>1 DEF Sends, SendBody
  <2>2. rsp_body_snd_bytes_ \in Nat
    BY BodySent
  <2>3. rsp_body_snd_bytes_ > 0 => n = Len(base)
    BY DEF WireOK
  <2>4. CASE BaseDone(Rebuilt, b)
    BY <1>8, <2>4
  <2>5. CASE ~BaseDone(Rebuilt, b)
    BY <1>1, <1>3, <1>4, <2>1, <2>2, <2>3, <2>5
  <2> QED BY <2>4, <2>5
<1> QED BY <1>2, <1>4, <1>7, <1>8, <1>9

LEMMA NextWire == FileOK /\ FreshWhileReading /\ WireOK /\ [Next]_vars => WireOK'
<1> SUFFICES ASSUME FileOK, FreshWhileReading, WireOK, [Next]_vars PROVE WireOK'
  OBVIOUS
<1>1. CASE ClientSends
  BY <1>1 DEF ClientSends, inVars, outVars, WireOK
<1>2. ASSUME NEW n \in 1..BufLen, ProcessIn(n) PROVE WireOK'
  <2>1. rsp_body_snd_bytes_' = 0 /\ rsp_base_snd_bytes_' = 0 /\ base_rsp_snd_' = FALSE
    BY <1>2 DEF ProcessIn, outVars, FreshWhileReading
  <2>2. wire_body' = <<>> /\ wire_base' = <<>>
    BY <1>2 DEF ProcessIn
  <2>3. Offsets(0) = <<>> /\ \A base : FirstCells(base, 0) = <<>>
    BY DEF Offsets, FirstCells
  <2>4. Answer(req_').base \in Seq(Words)
    BY Routes, Opening DEF Answer
  <2>5. Len(Answer(req_').base) \in Nat
    BY <2>4
  <2>6. Answer(req_').body \in {0, BodyLen} /\ BodyLen \in Nat
    BY Routes, Opening DEF Answer
  <2>7. 0 \in 0..Answer(req_').body
    BY <2>6
  <2> QED BY <2>1, <2>2, <2>3, <2>5, <2>7 DEF WireOK
<1>3. ASSUME NEW b \in Nat, NEW d \in Nat, ProcessOut(b, d) PROVE WireOK'
  <2>1. /\ armed = "out" /\ Sends(Rebuilt, b, d) /\ req_' = req_
        /\ rsp_body_snd_bytes_' = rsp_body_snd_bytes_ + d
        /\ rsp_base_snd_bytes_' = rsp_base_snd_bytes_ + b
        /\ base_rsp_snd_' = BaseDone(Rebuilt, b)
    BY <1>3 DEF ProcessOut, inVars
  <2>2. Answer(req_)' = Answer(req_)
    BY <2>1
  <2>3. base_rsp_snd_' => BaseDone(Rebuilt, b)
    BY <2>1, Zenon
  <2>4. rsp_body_snd_bytes_ + d \in 0..Answer(req_).body
    BY <2>1, BodySent
  <2> QED BY <2>1, <2>2, <2>3, <2>4, BodySent, HeadSent DEF WireOK
<1>4. ASSUME NEW b \in Nat, NEW d \in Nat, ProcessOutEnds(b, d) PROVE WireOK'
  BY <1>4 DEF ProcessOutEnds, WireOK
<1>5. CASE ConnClose
  BY <1>5 DEF ConnClose, WireOK
<1>6. CASE ProcessInFails \/ UNCHANGED vars
  BY <1>6 DEF ProcessInFails, vars, WireOK
<1> QED BY <1>1, <1>2, <1>3, <1>4, <1>5, <1>6 DEF Next, MaxBase

-----------------------------------------------------------------------------
(* Each step of the connection is a step of Exchange, or leaves its state alone. *)

LEMMA OffsetsBegin ==
  ASSUME NEW n \in Nat, NEW m \in 0..n
  PROVE  /\ Offsets(n) \in Seq(Nat) /\ Len(Offsets(n)) = n
         /\ Offsets(m) = SubSeq(Offsets(n), 1, m)
<1>1. Offsets(n) \in Seq(Nat) /\ Len(Offsets(n)) = n /\ Offsets(m) \in Seq(Nat)
      /\ Len(Offsets(m)) = m
  BY DEF Offsets
<1>2. /\ SubSeq(Offsets(n), 1, m) \in Seq(Nat) /\ Len(SubSeq(Offsets(n), 1, m)) = m
      /\ \A i \in 1..m : SubSeq(Offsets(n), 1, m)[i] = Offsets(n)[i]
  BY <1>1
<1>3. \A i \in 1..m : Offsets(n)[i] = i /\ Offsets(m)[i] = i
  BY DEF Offsets
<1> DEFINE s == SubSeq(Offsets(n), 1, m)
           t == Offsets(m)
<1>4. s = t
  <2>1. \A i \in 1..m : s[i] = t[i]
    BY <1>2, <1>3
  <2>2. s \in Seq(Nat) /\ t \in Seq(Nat) /\ Len(s) = m /\ Len(t) = m
    BY <1>1, <1>2
  <2> HIDE DEF s, t
  <2> QED BY <2>1, <2>2, SeqEqual
<1> QED BY <1>1, <1>4

LEMMA CellsBegin ==
  ASSUME NEW base \in Seq(Words), NEW m \in 0..Len(base)
  PROVE  /\ FirstCells(base, m) = SubSeq(base, 1, m) /\ Len(FirstCells(base, m)) = m
         /\ FirstCells(base, Len(base)) = base
<1>1. Len(base) \in Nat
  OBVIOUS
<1>2. ASSUME NEW k \in 0..Len(base)
      PROVE  FirstCells(base, k) = SubSeq(base, 1, k) /\ Len(FirstCells(base, k)) = k
  <2> DEFINE s == SubSeq(base, 1, k)
             t == FirstCells(base, k)
  <2>1. t \in Seq(Words) /\ Len(t) = k /\ \A i \in 1..k : t[i] = base[i]
    BY <1>1 DEF FirstCells
  <2>2. s \in Seq(Words) /\ Len(s) = k /\ \A i \in 1..k : s[i] = base[i]
    BY <1>1
  <2> HIDE DEF s, t
  <2>3. s = t
    BY <2>1, <2>2, SeqEqual
  <2> QED BY <2>1, <2>3 DEF s, t
<1>3. SubSeq(base, 1, Len(base)) = base
  OBVIOUS
<1> QED BY <1>1, <1>2, <1>3

LEMMA PromisedFields ==
  ASSUME armed = "out"
  PROVE  /\ Promised.fixed = ~Answer(req_).is_file
         /\ Promised.keep = (req_.connection = "keep-alive")
         /\ Promised.head = Answer(req_).base
         /\ Promised.body = Offsets(Answer(req_).body)
BY DEF Promised

LEMMA PromisedAnswer ==
  ASSUME NEW r
  PROVE  [fixed |-> ~Answer(r).is_file, keep |-> r.connection = "keep-alive",
          head |-> Answer(r).base, body |-> Offsets(Answer(r).body)]
           \in [fixed : BOOLEAN, keep : BOOLEAN, head : Seq(Words), body : Seq(Nat)]
<1>1. /\ Answer(r).base \in Seq(Words) /\ Answer(r).is_file \in BOOLEAN
      /\ Answer(r).body \in {0, BodyLen}
  BY Routes, Opening DEF Answer
<1>3. Offsets(Answer(r).body) \in Seq(Nat)
  BY <1>1, OffsetsBegin
<1> QED BY <1>1, <1>3

(* What a call of process_out sends continues what was sent before. *)
LEMMA OutGoes ==
  ASSUME FileOK, WireOK, armed = "out", NEW b \in Nat, NEW d \in Nat, Sends(Rebuilt, b, d)
  PROVE  Promise!Goes
<1> DEFINE k == rsp_body_snd_bytes_
           n == rsp_base_snd_bytes_
           base == Answer(req_).base
           len == Answer(req_).body
<1>1. /\ Promised.fixed = ~Answer(req_).is_file /\ Promised.head = base
      /\ Promised.body = Offsets(len)
  BY PromisedFields
<1>2. k \in Nat /\ k + d \in 0..len /\ wire_body' = Offsets(k + d) /\ len \in Nat
      /\ wire_body = Offsets(k) /\ k \in 0..len
  BY BodySent, RebuiltNow DEF WireOK
<1>3. Promise!Grows(wire_body, wire_body', Promised.body)
  <2>1. Len(wire_body) = k /\ Len(Promised.body) = len
    BY <1>1, <1>2, OffsetsBegin
  <2>2. wire_body' = SubSeq(Promised.body, 1, k + d)
    BY <1>1, <1>2, OffsetsBegin
  <2>3. k + d \in Len(wire_body)..Len(Promised.body)
    BY <1>2, <2>1
  <2> QED BY <2>2, <2>3 DEF Promise!Grows
<1>4. ASSUME Promised.fixed
      PROVE  /\ Promise!Grows(wire_base, wire_base', Promised.head)
             /\ wire_body' # <<>> => wire_base' = Promised.head
  <2>1. ~Answer(req_).is_file
    BY <1>1, <1>4
  <2>2. /\ base \in Seq(Words) /\ Len(base) \in Nat
        /\ n \in 0..Len(base) /\ wire_base = FirstCells(base, n)
        /\ n + b \in 0..Len(base) /\ wire_base' = FirstCells(base, n + b)
        /\ k + d > 0 => n + b = Len(base)
    BY <2>1, HeadSent, RebuiltNow DEF WireOK
  <2> HIDE DEF base, n, k
  <2>3. /\ Len(wire_base) = n /\ wire_base' = SubSeq(base, 1, n + b)
        /\ FirstCells(base, Len(base)) = base
    BY <2>2, CellsBegin
  <2>4. n + b \in Len(wire_base)..Len(base)
    BY <2>2, <2>3
  <2>5. Promise!Grows(wire_base, wire_base', base)
    BY <2>3, <2>4 DEF Promise!Grows
  <2>6. wire_body' # <<>> => k + d > 0
    <3>1. Offsets(0) = <<>>
      BY DEF Offsets
    <3> QED BY <1>2, <3>1
  <2> QED BY <1>1, <2>2, <2>3, <2>5, <2>6
<1> QED BY <1>3, <1>4 DEF Promise!Goes

LEMMA OutDelivers ==
  ASSUME FileOK, WireOK, NEW b \in Nat, NEW d \in Nat, ProcessOut(b, d)
  PROVE  Promise!Deliver
<1>1. armed = "out" /\ Sends(Rebuilt, b, d) /\ UNCHANGED <<armed, req_, answered>>
  BY DEF ProcessOut, inVars
<1>2. Promised' = Promised
  BY <1>1 DEF Promised
<1> QED BY <1>1, <1>2, OutGoes DEF Promise!Deliver

LEMMA OutFinishes ==
  ASSUME FileOK, WireOK, NEW b \in Nat, NEW d \in Nat, ProcessOutEnds(b, d)
  PROVE  Promise!Finish
<1> DEFINE base == Answer(req_).base
<1>1. /\ armed = "out" /\ Sends(Rebuilt, b, d) /\ BaseDone(Rebuilt, b)
      /\ rsp_body_snd_bytes_ + d = Rebuilt.body /\ answered' = answered + 1
  BY DEF ProcessOutEnds, BodyDone
<1>2. wire_body' = Promised.body
  BY <1>1, BodySent, RebuiltNow, PromisedFields
<1>3. ASSUME Promised.fixed PROVE wire_base' = Promised.head
  <2>1. ~Answer(req_).is_file
    BY <1>1, <1>3, PromisedFields
  <2>2. wire_base' = FirstCells(base, Len(base)) /\ base \in Seq(Words)
    BY <1>1, <2>1, HeadSent, RebuiltNow
  <2> HIDE DEF base
  <2>3. Len(base) \in 0..Len(base)
    BY <2>2
  <2>4. FirstCells(base, Len(base)) = base
    BY <2>2, <2>3, CellsBegin
  <2> QED BY <1>1, <2>2, <2>4, PromisedFields DEF base
<1>4. armed' = IF Promised.keep THEN "in" ELSE "closed"
  BY <1>1, PromisedFields DEF ProcessOutEnds
<1>5. Promised' = NoPromise
  <2>1. armed' # "out"
    BY <1>4
  <2> QED BY <2>1 DEF Promised, NoPromise
<1> QED BY <1>1, <1>2, <1>3, <1>4, <1>5, OutGoes DEF Promise!Finish

LEMMA ExchangeStep == FileOK /\ WireOK /\ [Next]_vars => [Promise!Next]_(Promise!vars)
<1> SUFFICES ASSUME FileOK, WireOK, [Next]_vars PROVE [Promise!Next]_(Promise!vars)
  OBVIOUS
<1>1. CASE ClientSends \/ ProcessInFails \/ UNCHANGED vars
  <2>1. UNCHANGED <<armed, req_, answered, wire_base, wire_body>>
    BY <1>1 DEF ClientSends, ProcessInFails, vars, inVars
  <2>2. Promised' = Promised
    BY <2>1 DEF Promised
  <2> QED BY <2>1, <2>2 DEF Promise!vars
<1>2. ASSUME NEW n \in 1..BufLen, ProcessIn(n) PROVE Promise!Next
  <2>1. /\ armed = "in" /\ armed' \in {"in", "out"} /\ answered' = answered
        /\ wire_base' = <<>> /\ wire_body' = <<>>
    BY <1>2 DEF ProcessIn
  <2>2. Promised = NoPromise
    BY <2>1 DEF Promised
  <2>3. CASE armed' = "in"
    <3>1. Promised' = NoPromise
      BY <2>3 DEF Promised, NoPromise
    <3> QED BY <2>1, <2>2, <2>3, <3>1 DEF Promise!Next, Promise!Receive
  <2>4. CASE armed' = "out"
    <3>1. Promised' \in [fixed : BOOLEAN, keep : BOOLEAN, head : Seq(Words), body : Seq(Nat)]
      BY <2>4, PromisedAnswer DEF Promised
    <3> QED BY <2>1, <2>4, <3>1 DEF Promise!Next, Promise!Understand
  <2> QED BY <2>1, <2>3, <2>4
<1>3. ASSUME NEW b \in Nat, NEW d \in Nat, ProcessOut(b, d) \/ ProcessOutEnds(b, d)
      PROVE  Promise!Next
  BY <1>3, OutDelivers, OutFinishes DEF Promise!Next
<1>4. CASE ConnClose
  <2>1. armed # "closed" /\ armed' = "closed" /\ UNCHANGED <<answered, wire_base, wire_body>>
    BY <1>4 DEF ConnClose, clientVars
  <2>2. Promised' = NoPromise
    BY <2>1 DEF Promised, NoPromise
  <2> QED BY <2>1, <2>2 DEF Promise!Next, Promise!Break
<1> QED BY <1>1, <1>2, <1>3, <1>4 DEF Next, MaxBase

(* The connection keeps the promise of Exchange: however the sending is cut
   up, the client gets each answer from its beginning, in order and once, and
   the next request is read only behind the end of it. *)
THEOREM ExchangeRefinement == Spec => ExchangeSpec
<1>1. Init => WireOK
  BY DEF Init, WireOK
<1>2. Init => Promise!Init
  BY DEF Init, Promise!Init, Promised
<1> QED BY InitOK, NextFile, NextFresh, NextWire, ExchangeStep, <1>1, <1>2, PTL
        DEF Spec, ExchangeSpec, Promise!Spec
-----------------------------------------------------------------------------
(* Types.  The parser keeps its cursor within the buffer. *)

LEMMA Buffers ==
  ASSUME NEW b \in [1..BufLen -> Cells]
  PROVE  b \in Seq(Cells) /\ Len(b) = BufLen
<1>1. BufLen \in Nat OBVIOUS
<1>2. b \in Seq(Cells) BY <1>1, SeqDef
<1>3. Len(b) \in Nat /\ DOMAIN b = 1..Len(b) BY <1>2, LenProperties
<1>4. DOMAIN b = 1..BufLen OBVIOUS
<1>5. Len(b) = BufLen BY <1>1, <1>3, <1>4
<1> QED BY <1>2, <1>5

LEMMA ReceivedType ==
  ASSUME TypeOK, NEW n \in 1..Len(net), buffer_r_bytes_ + n <= BufLen
  PROVE  /\ Received(n) \in [1..BufLen -> Cells]
         /\ Received(n) \in Seq(Cells) /\ Len(Received(n)) = BufLen
<1>1. /\ net \in Seq(Cells) /\ buffer_r_ \in [1..BufLen -> Cells] /\ buffer_r_bytes_ \in Nat
      /\ BufLen \in Nat
  BY DEF TypeOK
<1>2. Len(net) \in Nat BY <1>1, LenProperties
<1>3. ASSUME NEW i \in 1..BufLen
      PROVE  (IF i \in (buffer_r_bytes_ + 1)..(buffer_r_bytes_ + n)
              THEN net[i - buffer_r_bytes_] ELSE buffer_r_[i]) \in Cells
  <2>1. CASE i \in (buffer_r_bytes_ + 1)..(buffer_r_bytes_ + n)
    <3>1. i - buffer_r_bytes_ \in 1..Len(net) BY <1>1, <1>2, <2>1
    <3>2. net[i - buffer_r_bytes_] \in Cells BY <1>1, <3>1, ElementOfSeq
    <3> QED BY <2>1, <3>2
  <2>2. CASE i \notin (buffer_r_bytes_ + 1)..(buffer_r_bytes_ + n) BY <1>1, <2>2
  <2> QED BY <2>1, <2>2
<1>4. Received(n) \in [1..BufLen -> Cells] BY <1>3 DEF Received
<1> QED BY <1>4, Buffers

(* The answer of a rebuilt response is no longer than a body may be. *)
LEMMA RebuiltShort == Rebuilt.body \in 0..BodyLen /\ Rebuilt.is_file \in BOOLEAN
<1>1. Route(req_).body = BodyLen /\ Route(req_).is_file \in BOOLEAN BY Routes
<1>2. Opened(req_).body \in {0, BodyLen} /\ Opened(req_).is_file \in BOOLEAN BY Opening
<1>3. BodyLen \in Nat OBVIOUS
<1>4. Rebuilt = Opened(req_) \/ Rebuilt = Route(req_) BY DEF Rebuilt
<1> QED BY <1>1, <1>2, <1>3, <1>4

LEMMA NoResponseType == NoResponse.is_file \in BOOLEAN
<1>1. "200" \in Words /\ TRUE \in BOOLEAN /\ 0 \in Nat BY Codes
<1>2. NoResponse.is_file = TRUE BY <1>1, Headers, ResponseFields DEF NoResponse
<1> QED BY <1>2

Typed == TypeOK /\ BodyCounted(req_)

LEMMA InitTyped == Init => Typed
<1> SUFFICES ASSUME Init PROVE Typed OBVIOUS
<1>1. req_ \in Requests /\ BodyCounted(req_) BY NewRequestType DEF Init
<1>2. buffer_r_ \in [1..BufLen -> Cells] BY NulCell DEF Init
<1>3. rsp_.is_file \in BOOLEAN BY NoResponseType DEF Init
<1>4. net \in Seq(Cells) BY EmptySeq DEF Init
<1>5. 0 \in 0..BufLen /\ 0 \in 0..BodyLen /\ 0 \in 0..MaxRequests /\ 0 \in Nat OBVIOUS
<1> QED BY <1>1, <1>2, <1>3, <1>4, <1>5 DEF Init, Typed, TypeOK

LEMMA ClientTyped == Typed /\ ClientSends => Typed'
<1> SUFFICES ASSUME Typed, ClientSends PROVE Typed' OBVIOUS
<1>1. PICK r \in Sent : net' = net \o r BY DEF ClientSends
<1>2. r \in Seq(Cells) /\ net \in Seq(Cells) BY SentAssumption DEF Typed, TypeOK
<1>3. net' \in Seq(Cells) BY <1>1, <1>2, ConcatProperties
<1>4. requests' \in 0..MaxRequests
  <2>1. requests \in 0..MaxRequests /\ requests < MaxRequests /\ requests' = requests + 1
        /\ MaxRequests \in Nat
    BY DEF Typed, TypeOK, ClientSends
  <2> QED BY <2>1
<1>5. UNCHANGED <<armed, inVars, outVars, answered>> BY DEF ClientSends
<1> QED BY <1>3, <1>4, <1>5 DEF Typed, TypeOK, inVars, outVars

LEMMA InTyped ==
  ASSUME Typed, NEW n \in 1..BufLen, ProcessIn(n)
  PROVE  Typed'
<1> DEFINE d == Received(n)
           p == parse(req_, d, req_parsed_bytes_)
<1>1. n \in 1..Len(net) /\ buffer_r_bytes_ + n <= BufLen BY DEF ProcessIn
<1>2. /\ req_ \in Requests /\ BodyCounted(req_) /\ req_parsed_bytes_ \in 0..BufLen
      /\ net \in Seq(Cells) /\ buffer_r_bytes_ \in 0..BufLen
  BY DEF Typed, TypeOK
<1>3. TypeOK BY DEF Typed
<1>4. d \in [1..BufLen -> Cells] /\ d \in Seq(Cells) /\ Len(d) = BufLen
  BY <1>1, <1>3, ReceivedType
<1>5. buffer_r_' = d /\ req_' = p.req /\ req_parsed_bytes_' = req_parsed_bytes_ + p.parsed
      /\ buffer_r_bytes_' = buffer_r_bytes_ + n /\ net' = SubSeq(net, n + 1, Len(net))
      /\ armed' \in {"in", "out"}
  BY DEF ProcessIn
<1> HIDE DEF d
<1>6. Good(p, d, req_parsed_bytes_) BY <1>2, <1>4, ParserStaysInData
<1> HIDE DEF p
<1>7. req_' \in Requests /\ BodyCounted(req_)' /\ req_parsed_bytes_' \in 0..BufLen
  <2>1. p.req \in Requests /\ BodyCounted(p.req) /\ p.parsed \in Nat
        /\ req_parsed_bytes_ + p.parsed <= BufLen
    BY <1>4, <1>6 DEF Good
  <2>2. req_parsed_bytes_ + p.parsed \in 0..BufLen BY <1>2, <2>1
  <2> QED BY <1>5, <2>1, <2>2
<1>8. buffer_r_bytes_' \in 0..BufLen BY <1>1, <1>2, <1>5
<1>9. net' \in Seq(Cells)
  <2>1. Len(net) \in Nat BY <1>2, LenProperties
  <2>2. \A i \in (n + 1)..Len(net) : net[i] \in Cells
    <3> SUFFICES ASSUME NEW i \in (n + 1)..Len(net) PROVE net[i] \in Cells OBVIOUS
    <3>1. i \in 1..Len(net) BY <2>1
    <3> QED BY <1>2, <3>1, ElementOfSeq
  <2> QED BY <1>5, <2>1, <2>2, SubSeqProperties
<1>10. UNCHANGED <<outVars, requests, answered>> BY DEF ProcessIn
<1> QED BY <1>3, <1>4, <1>5, <1>7, <1>8, <1>9, <1>10 DEF Typed, TypeOK, outVars

LEMMA OutTyped ==
  ASSUME Typed, FileOK', NEW b \in Nat, NEW d \in Nat, ProcessOut(b, d) \/ ProcessOutEnds(b, d)
  PROVE  Typed'
<1>1. open_files' \in Nat /\ file_fd_' \in BOOLEAN BY DEF FileOK, OneOpenFile
<1>2. /\ rsp_base_snd_bytes_ \in Nat /\ rsp_body_snd_bytes_ \in 0..BodyLen /\ BodyLen \in Nat
      /\ answered \in Nat
  BY DEF Typed, TypeOK
<1>3. CASE ProcessOut(b, d)
  <2>1. /\ rsp_' = Rebuilt /\ base_rsp_snd_' = BaseDone(Rebuilt, b)
        /\ rsp_base_snd_bytes_' = rsp_base_snd_bytes_ + b
        /\ rsp_body_snd_bytes_' = rsp_body_snd_bytes_ + d
        /\ SendBody(Rebuilt, b, d)
        /\ UNCHANGED <<armed, inVars, net, requests, answered>>
    BY <1>3 DEF ProcessOut, Sends
  <2>2. rsp_.is_file' \in BOOLEAN BY <2>1, RebuiltShort
  <2>3. base_rsp_snd_ \in BOOLEAN BY DEF Typed, TypeOK
  <2>4. base_rsp_snd_' \in BOOLEAN
    <3>1. BaseDone(Rebuilt, b) \in BOOLEAN BY <2>3 DEF BaseDone
    <3> QED BY <2>1, <3>1
  <2>5. rsp_base_snd_bytes_' \in Nat BY <1>2, <2>1
  <2>6. rsp_body_snd_bytes_' \in 0..BodyLen
    <3>1. d = 0 \/ d \in 0..(Rebuilt.body - rsp_body_snd_bytes_) BY <2>1 DEF SendBody
    <3>2. Rebuilt.body \in 0..BodyLen BY RebuiltShort
    <3> QED BY <1>2, <2>1, <3>1, <3>2
  <2> QED BY <1>1, <2>1, <2>2, <2>4, <2>5, <2>6 DEF Typed, TypeOK, inVars
<1>4. CASE ProcessOutEnds(b, d)
  <2>1. answered' \in Nat BY <1>2, <1>4 DEF ProcessOutEnds
  <2>2. UNCHANGED <<buffer_r_, net, requests>> BY <1>4 DEF ProcessOutEnds
  <2>3. CASE conn_state_reset /\ armed' = "in"
    <3>1. req_' \in Requests /\ BodyCounted(req_)' BY <2>3, NewRequestType DEF conn_state_reset
    <3>2. rsp_'.is_file \in BOOLEAN BY <2>3, NoResponseType DEF conn_state_reset
    <3>3. buffer_r_bytes_' = 0 /\ req_parsed_bytes_' = 0 /\ base_rsp_snd_' = FALSE
          /\ rsp_base_snd_bytes_' = 0 /\ rsp_body_snd_bytes_' = 0 /\ armed' = "in"
      BY <2>3 DEF conn_state_reset
    <3>4. 0 \in 0..BufLen /\ 0 \in 0..BodyLen /\ 0 \in Nat OBVIOUS
    <3> QED BY <1>1, <2>1, <2>2, <3>1, <3>2, <3>3, <3>4 DEF Typed, TypeOK
  <2>4. CASE armed' = "closed" /\ UNCHANGED <<inVars, rsp_, base_rsp_snd_,
                                              rsp_base_snd_bytes_, rsp_body_snd_bytes_>>
    BY <1>1, <2>1, <2>2, <2>4 DEF Typed, TypeOK, inVars
  <2> QED BY <1>4, <2>3, <2>4 DEF ProcessOutEnds
<1> QED BY <1>3, <1>4

LEMMA NextTyped == Typed /\ FileOK' /\ [Next]_vars => Typed'
<1> SUFFICES ASSUME Typed, FileOK', [Next]_vars PROVE Typed' OBVIOUS
<1>1. CASE ClientSends BY <1>1, ClientTyped
<1>2. ASSUME NEW n \in 1..BufLen, ProcessIn(n) PROVE Typed' BY <1>2, InTyped
<1>3. ASSUME NEW b \in Nat, NEW d \in Nat, ProcessOut(b, d) \/ ProcessOutEnds(b, d)
      PROVE  Typed'
  BY <1>3, OutTyped
<1>4. CASE ConnClose
  <2>1. open_files' \in Nat /\ file_fd_' \in BOOLEAN BY DEF FileOK, OneOpenFile
  <2>2. armed' = "closed" /\ UNCHANGED <<inVars, rsp_, base_rsp_snd_, rsp_base_snd_bytes_,
                                         rsp_body_snd_bytes_, clientVars>>
    BY <1>4 DEF ConnClose
  <2> QED BY <2>1, <2>2 DEF Typed, TypeOK, inVars, clientVars
<1>5. CASE ProcessInFails \/ UNCHANGED vars
  BY <1>5 DEF ProcessInFails, vars, Typed, TypeOK
<1> QED BY <1>1, <1>2, <1>3, <1>4, <1>5 DEF Next, MaxBase

(* Every field keeps its type, whatever is received: the parser's cursor and the
   counts of cells sent stay within the buffer and the body. *)
THEOREM TypeCorrect == Spec => []TypeOK
BY InitOK, NextFile, NextFresh, InitTyped, NextTyped, PTL DEF Spec, Typed
-----------------------------------------------------------------------------
(* The first request, in whatever pieces it comes. *)

LEMMA ParseIsResult ==
  ASSUME NEW r, NEW data, NEW k
  PROVE  parse(r, data, k) = Result(parse(r, data, k).req, parse(r, data, k).parsed)
<1>1. \E q, m : parse(r, data, k) = Result(q, m) BY DEF parse
<1>2. PICK q, m : parse(r, data, k) = Result(q, m) BY <1>1
<1> QED BY <1>2, ResultIs

(* What the parser is at is what one parse of e gets to. *)
ParsedOf(e) ==
    LET w == parse(NewRequest, e, 0)
        p == parse(req_, e, req_parsed_bytes_)
    IN  /\ armed = "in" => p.req = w.req /\ req_parsed_bytes_ + p.parsed = w.parsed
        /\ armed = "out" => parse_complete(req_) /\ w = Result(req_, req_parsed_bytes_)

Asked ==
    /\ asked \in Sent
    /\ buffer_r_bytes_ <= Len(asked)
    /\ net = SubSeq(asked, buffer_r_bytes_ + 1, Len(asked))
    /\ \A i \in 1..BufLen : buffer_r_[i] = IF i <= buffer_r_bytes_ THEN asked[i] ELSE NUL
    /\ req_.content_length = -1 =>
           /\ req_parsed_bytes_ <= buffer_r_bytes_
           /\ armed = "in" => Waits(req_)
           /\ ParsedOf(asked) /\ ParsedOf(Padded(asked))

Unasked ==
    /\ armed = "in"
    /\ net = <<>>
    /\ \A i \in 1..BufLen : buffer_r_[i] = NUL
    /\ buffer_r_bytes_ = 0
    /\ req_ = NewRequest
    /\ req_parsed_bytes_ = 0

FirstOK ==
    requests <= 1 /\ answered = 0 /\ armed # "closed" =>
        (requests = 0 /\ Unasked) \/ (requests = 1 /\ Asked)

LEMMA PaddedType ==
  ASSUME NEW s \in Seq(Cells)
  PROVE  Padded(s) \in Seq(Cells) /\ Len(Padded(s)) = BufLen
<1>1. Len(s) \in Nat BY LenProperties
<1>2. ASSUME NEW i \in 1..BufLen PROVE (IF i <= Len(s) THEN s[i] ELSE NUL) \in Cells
  <2>1. CASE i <= Len(s)
    <3>1. i \in 1..Len(s) BY <1>1, <2>1
    <3>2. s[i] \in Cells BY <3>1, ElementOfSeq
    <3> QED BY <2>1, <3>2
  <2>2. CASE ~(i <= Len(s)) BY <2>2, NulCell
  <2> QED BY <2>1, <2>2
<1>3. Padded(s) \in [1..BufLen -> Cells] BY <1>2 DEF Padded
<1> QED BY <1>3, Buffers

LEMMA FirstSent ==
  ASSUME Typed, FirstOK, ClientSends
  PROVE  FirstOK'
<1> SUFFICES ASSUME requests' <= 1, answered' = 0, armed' # "closed"
             PROVE  requests' = 1 /\ Asked'
  BY DEF FirstOK
<1>1. PICK r \in Sent : asked' = r /\ net' = net \o r BY DEF ClientSends
<1>2. requests' = requests + 1 /\ answered' = answered /\ armed' = armed /\ UNCHANGED inVars
  BY DEF ClientSends
<1>3. requests = 0 BY <1>2 DEF Typed, TypeOK
<1>4. Unasked BY <1>2, <1>3 DEF FirstOK
<1>5. r \in Seq(Cells) /\ Len(r) \in Nat BY SentAssumption, LenProperties
<1>6. net' = SubSeq(r, 0 + 1, Len(r)) BY <1>1, <1>4, <1>5, ConcatEmptySeq, SubSeqFull DEF Unasked
<1>7. NewRequest.content_length = -1 /\ Waits(NewRequest)
      /\ NewRequest \in Requests /\ BodyCounted(NewRequest)
  BY NewWaits, NewRequestType
<1>8. ASSUME NEW e \in Seq(Cells) PROVE ParsedOf(e)'
  <2> DEFINE w == parse(NewRequest, e, 0)
  <2>1. 0 \in 0..Len(e) BY LenProperties
  <2>2. w.parsed \in Nat BY <1>7, <2>1, ParserStaysInData DEF Good
  <2>3. req_' = NewRequest /\ req_parsed_bytes_' = 0 /\ armed' = "in"
    BY <1>2, <1>4 DEF Unasked, inVars
  <2> HIDE DEF w
  <2>4. 0 + w.parsed = w.parsed BY <2>2
  <2> QED BY <2>3, <2>4 DEF ParsedOf, w
<1>9. Padded(r) \in Seq(Cells) BY <1>5, PaddedType
<1>10. Padded(asked)' = Padded(r) BY <1>1 DEF Padded
<1>11. ParsedOf(r)' /\ ParsedOf(Padded(r))' BY <1>5, <1>8, <1>9
<1>12. ParsedOf(asked)' /\ ParsedOf(Padded(asked))' BY <1>1, <1>10, <1>11 DEF ParsedOf
<1>13. /\ buffer_r_bytes_' = 0 /\ req_parsed_bytes_' = 0 /\ req_' = NewRequest
       /\ \A i \in 1..BufLen : buffer_r_'[i] = NUL
  BY <1>2, <1>4 DEF Unasked, inVars
<1>14. \A i \in 1..BufLen : ~(i <= 0) OBVIOUS
<1> QED BY <1>1, <1>2, <1>3, <1>5, <1>6, <1>7, <1>12, <1>13, <1>14 DEF Asked

(* What came of the request so far is a beginning of it. *)
LEMMA PieceReceived ==
  ASSUME TypeOK, Asked, NEW n \in 1..Len(net), buffer_r_bytes_ + n <= BufLen
  PROVE  LET m == buffer_r_bytes_ + n
         IN  /\ m \in 0..Len(asked)
             /\ SubSeq(net, n + 1, Len(net)) = SubSeq(asked, m + 1, Len(asked))
             /\ \A i \in 1..BufLen : Received(n)[i] = IF i <= m THEN asked[i] ELSE NUL
             /\ Cut(Received(n), asked, m)
             /\ Cut(Received(n), Padded(asked), m)
<1> DEFINE k == buffer_r_bytes_
           m == k + n
           N == Len(asked)
           d == Received(n)
<1>1. asked \in Seq(Cells) /\ N \in Nat /\ k \in Nat /\ BufLen \in Nat /\ k <= N
  BY SentAssumption, LenProperties DEF Asked, TypeOK
<1>2. \A i \in (k + 1)..N : asked[i] \in Cells
  <2> SUFFICES ASSUME NEW i \in (k + 1)..N PROVE asked[i] \in Cells OBVIOUS
  <2>1. i \in 1..N BY <1>1
  <2> QED BY <1>1, <2>1, ElementOfSeq
<1>3. /\ net = SubSeq(asked, k + 1, N) /\ net \in Seq(Cells)
      /\ Len(net) = N - k
      /\ \A i \in 1..(N - k) : net[i] = asked[k + i]
  <2>0. net = SubSeq(asked, k + 1, N) /\ k + 1 \in Int /\ N \in Int BY <1>1 DEF Asked
  <2>1. /\ net \in Seq(Cells)
        /\ Len(net) = IF k + 1 <= N THEN N - (k + 1) + 1 ELSE 0
        /\ \A i \in 1..(N - (k + 1) + 1) : net[i] = asked[(k + 1) + i - 1]
    BY <1>2, <2>0, SubSeqProperties
  <2>2. N - (k + 1) + 1 = N - k /\ \A i \in 1..(N - k) : (k + 1) + i - 1 = k + i BY <1>1
  <2>3. Len(net) = N - k BY <1>1, <2>1
  <2>4. \A i \in 1..(N - k) : net[i] = asked[k + i]
    <3> SUFFICES ASSUME NEW i \in 1..(N - k) PROVE net[i] = asked[k + i] OBVIOUS
    <3>1. (k + 1) + i - 1 = k + i /\ i \in 1..(N - (k + 1) + 1) BY <1>1, <2>2
    <3> QED BY <2>1, <3>1
  <2> QED BY <2>0, <2>1, <2>3, <2>4
<1>4. m \in 0..N /\ n \in Nat /\ n <= N - k /\ m <= BufLen /\ m \in Nat /\ m >= k
  BY <1>1, <1>3
<1>5. SubSeq(net, n + 1, Len(net)) = SubSeq(asked, m + 1, N)
  <2> DEFINE s == SubSeq(net, n + 1, N - k)
             t == SubSeq(asked, m + 1, N)
  <2>1. \A i \in (n + 1)..(N - k) : net[i] \in Cells
    <3> SUFFICES ASSUME NEW i \in (n + 1)..(N - k) PROVE net[i] \in Cells OBVIOUS
    <3>1. i \in 1..Len(net) BY <1>1, <1>3, <1>4
    <3> QED BY <1>3, <3>1, ElementOfSeq
  <2>2. \A i \in (m + 1)..N : asked[i] \in Cells BY <1>1, <1>2, <1>4
  <2>a. n + 1 \in Int /\ N - k \in Int /\ m + 1 \in Int /\ N \in Int BY <1>1, <1>4
  <2> HIDE DEF m
  <2>3. /\ s \in Seq(Cells)
        /\ Len(s) = IF n + 1 <= N - k THEN N - k - (n + 1) + 1 ELSE 0
        /\ \A i \in 1..(N - k - (n + 1) + 1) : s[i] = net[(n + 1) + i - 1]
    BY <2>1, <2>a, SubSeqProperties
  <2>4. /\ t \in Seq(Cells)
        /\ Len(t) = IF m + 1 <= N THEN N - (m + 1) + 1 ELSE 0
        /\ \A i \in 1..(N - (m + 1) + 1) : t[i] = asked[(m + 1) + i - 1]
    BY <2>2, <2>a, SubSeqProperties
  <2> HIDE DEF s, t
  <2>5. Len(s) = N - m /\ Len(t) = N - m BY <1>1, <1>4, <2>3, <2>4 DEF m
  <2>6. ASSUME NEW i \in 1..(N - m) PROVE s[i] = t[i]
    <3>1. /\ i \in 1..(N - k - (n + 1) + 1) /\ i \in 1..(N - (m + 1) + 1)
          /\ (n + 1) + i - 1 = n + i /\ (m + 1) + i - 1 = m + i
          /\ n + i \in 1..(N - k) /\ k + (n + i) = m + i
      BY <1>1, <1>4 DEF m
    <3>2. s[i] = net[n + i] /\ t[i] = asked[m + i] BY <2>3, <2>4, <3>1
    <3>3. net[n + i] = asked[k + (n + i)] BY <1>3, <3>1
    <3> QED BY <3>1, <3>2, <3>3
  <2>7. s = t BY <2>3, <2>4, <2>5, <2>6, SeqEqual
  <2> QED BY <1>3, <2>7 DEF s, t
<1>6. ASSUME NEW i \in 1..BufLen PROVE d[i] = IF i <= m THEN asked[i] ELSE NUL
  <2>1. d[i] = IF i \in (k + 1)..(k + n) THEN net[i - k] ELSE buffer_r_[i] BY DEF Received
  <2>2. buffer_r_[i] = IF i <= k THEN asked[i] ELSE NUL BY DEF Asked
  <2>3. CASE i \in (k + 1)..(k + n)
    <3>1. i - k \in 1..(N - k) /\ k + (i - k) = i /\ i <= m BY <1>1, <1>4, <2>3
    <3>2. net[i - k] = asked[k + (i - k)] BY <1>3, <3>1
    <3> QED BY <2>1, <2>3, <3>1, <3>2
  <2>4. CASE i \notin (k + 1)..(k + n)
    <3>1. i <= k <=> i <= m BY <1>1, <1>4, <2>4
    <3> QED BY <2>1, <2>2, <2>4, <3>1
  <2> QED BY <2>3, <2>4
<1>7. d \in Seq(Cells) /\ Len(d) = BufLen BY ReceivedType
<1> HIDE DEF d
<1>8. Len(Padded(asked)) = BufLen /\ \A i \in 1..N : i <= BufLen => Padded(asked)[i] = asked[i]
  BY <1>1, PaddedType DEF Padded
<1> HIDE DEF m
<1>9. \A i \in (m + 1)..BufLen : d[i] # CRLF
  <2> SUFFICES ASSUME NEW i \in (m + 1)..BufLen PROVE d[i] # CRLF OBVIOUS
  <2>1. i \in 1..BufLen /\ ~(i <= m) BY <1>1, <1>4
  <2>2. d[i] = NUL BY <1>6, <2>1
  <2> QED BY <2>2, NulCell
<1>10. \A i \in 1..m : d[i] = asked[i]
  <2> SUFFICES ASSUME NEW i \in 1..m PROVE d[i] = asked[i] OBVIOUS
  <2>1. i \in 1..BufLen /\ i <= m BY <1>1, <1>4
  <2> QED BY <1>6, <2>1
<1>11. \A i \in 1..m : d[i] = Padded(asked)[i]
  <2> SUFFICES ASSUME NEW i \in 1..m PROVE d[i] = Padded(asked)[i] OBVIOUS
  <2>1. i \in 1..N /\ i <= BufLen BY <1>1, <1>4
  <2> QED BY <1>8, <1>10, <2>1
<1>12. Cut(d, asked, m) BY <1>4, <1>7, <1>9, <1>10 DEF Cut
<1>13. Cut(d, Padded(asked), m) BY <1>4, <1>7, <1>8, <1>9, <1>11 DEF Cut
<1> QED BY <1>4, <1>5, <1>6, <1>12, <1>13 DEF m, d
(* A parse of the piece goes on where the last stopped. *)
LEMMA PieceParsed ==
  ASSUME Typed, armed = "in", req_.content_length = -1, Waits(req_),
         NEW d \in Seq(Cells), NEW e \in Seq(Cells), NEW m, Cut(d, e, m),
         req_parsed_bytes_ <= m, ParsedOf(e),
         NEW p, p = parse(req_, d, req_parsed_bytes_), p.req.content_length = -1
  PROVE  LET w == parse(NewRequest, e, 0)
             j == req_parsed_bytes_ + p.parsed
         IN  /\ j <= m
             /\ parse_complete(p.req) => w = Result(p.req, j)
             /\ ~parse_complete(p.req) =>
                   /\ Waits(p.req)
                   /\ parse(p.req, e, j).req = w.req
                   /\ j + parse(p.req, e, j).parsed = w.parsed
<1> DEFINE k == req_parsed_bytes_
           w == parse(NewRequest, e, 0)
           q == parse(req_, e, k)
           j == k + p.parsed
           x == parse(p.req, e, j)
<1>1. req_ \in Requests /\ BodyCounted(req_) /\ k \in Nat BY DEF Typed, TypeOK
<1>2. /\ m \in Nat /\ m <= Len(d) /\ m <= Len(e) /\ Len(d) \in Nat /\ Len(e) \in Nat
      /\ k \in 0..m /\ k \in 0..Len(d) /\ k \in 0..Len(e)
  <2>1. m \in Nat /\ m <= Len(d) /\ m <= Len(e) BY DEF Cut
  <2>2. Len(d) \in Nat /\ Len(e) \in Nat BY LenProperties
  <2> QED BY <1>1, <2>1, <2>2
<1>3. /\ j \in 0..m
      /\ parse_complete(p.req) => p = q
      /\ ~parse_complete(p.req) =>
            /\ Waits(p.req) /\ x.req = q.req /\ p.parsed + x.parsed = q.parsed
  BY <1>1, <1>2, ParseResumes
<1>4. Good(p, d, k) /\ Good(q, e, k) BY <1>1, <1>2, ParserStaysInData
<1>5. p.req \in Requests /\ BodyCounted(p.req) /\ p.parsed \in Nat /\ q.parsed \in Nat
  BY <1>4 DEF Good
<1>6. w.req = q.req /\ k + q.parsed = w.parsed BY DEF ParsedOf
<1>7. w = Result(w.req, w.parsed) BY ParseIsResult
<1>j. j = k + p.parsed OBVIOUS
<1> HIDE DEF q, w, j
<1>8. j <= m BY <1>2, <1>3
<1>9. ASSUME parse_complete(p.req) PROVE w = Result(p.req, j)
  <2>1. p.req = q.req /\ p.parsed = q.parsed BY <1>3, <1>9
  <2> QED BY <1>6, <1>7, <1>j, <2>1
<1>10. ASSUME ~parse_complete(p.req)
       PROVE  Waits(p.req) /\ x.req = w.req /\ j + x.parsed = w.parsed
  <2>1. j \in 0..Len(e) BY <1>2, <1>3
  <2>2. Good(x, e, j) BY <1>5, <2>1, ParserStaysInData
  <2>3. x.parsed \in Nat BY <2>2 DEF Good
  <2> HIDE DEF x
  <2>4. Waits(p.req) /\ x.req = q.req /\ p.parsed + x.parsed = q.parsed BY <1>3, <1>10
  <2>5. j + x.parsed = k + (p.parsed + x.parsed) BY <1>1, <1>5, <1>j, <2>3
  <2> QED BY <1>6, <2>4, <2>5
<1> QED BY <1>8, <1>9, <1>10 DEF w, j, x

LEMMA FirstReceived ==
  ASSUME Typed, FirstOK, NEW n \in 1..BufLen, ProcessIn(n)
  PROVE  FirstOK'
<1> SUFFICES ASSUME requests' <= 1, answered' = 0, armed' # "closed"
             PROVE  requests' = 1 /\ Asked'
  BY DEF FirstOK
<1>1. /\ armed = "in" /\ n \in 1..Len(net) /\ buffer_r_bytes_ + n <= BufLen
      /\ asked' = asked /\ requests' = requests /\ answered' = answered
      /\ buffer_r_' = Received(n) /\ buffer_r_bytes_' = buffer_r_bytes_ + n
      /\ net' = SubSeq(net, n + 1, Len(net))
  BY DEF ProcessIn
<1>2. requests = 1 /\ Asked
  <2>1. (requests = 0 /\ Unasked) \/ (requests = 1 /\ Asked) BY <1>1 DEF FirstOK
  <2>2. CASE Unasked
    <3>1. net = <<>> BY <2>2 DEF Unasked
    <3>2. n \in 1..0 BY <1>1, <3>1
    <3> QED BY <3>2
  <2> QED BY <2>1, <2>2
<1> DEFINE m == buffer_r_bytes_ + n
           d == Received(n)
           p == parse(req_, d, req_parsed_bytes_)
<1>t. TypeOK BY DEF Typed
<1>3. /\ m \in 0..Len(asked)
      /\ SubSeq(net, n + 1, Len(net)) = SubSeq(asked, m + 1, Len(asked))
      /\ \A i \in 1..BufLen : d[i] = IF i <= m THEN asked[i] ELSE NUL
      /\ Cut(d, asked, m) /\ Cut(d, Padded(asked), m)
  BY <1>1, <1>2, <1>t, PieceReceived
<1>4. d \in Seq(Cells) /\ Len(d) = BufLen BY <1>1, <1>t, ReceivedType
<1>5. req_' = p.req /\ req_parsed_bytes_' = req_parsed_bytes_ + p.parsed
      /\ armed' = IF parse_complete(p.req) THEN "out" ELSE "in"
  BY DEF ProcessIn
<1>6. req_ \in Requests /\ BodyCounted(req_) /\ req_parsed_bytes_ \in 0..BufLen
      /\ buffer_r_bytes_ \in Nat
  BY DEF Typed, TypeOK
<1>7. asked \in Seq(Cells) /\ Padded(asked) \in Seq(Cells)
  BY <1>2, SentAssumption, PaddedType DEF Asked
<1> HIDE DEF d
<1>8. ASSUME p.req.content_length = -1
      PROVE  /\ req_parsed_bytes_' <= m
             /\ armed' = "in" => Waits(req_)'
             /\ ParsedOf(asked)' /\ ParsedOf(Padded(asked))'
  <2>1. req_.content_length = -1 BY <1>4, <1>6, <1>8, ParserStaysInData
  <2>2. req_parsed_bytes_ <= buffer_r_bytes_ /\ Waits(req_)
        /\ ParsedOf(asked) /\ ParsedOf(Padded(asked))
    BY <1>1, <1>2, <2>1 DEF Asked
  <2>3. req_parsed_bytes_ <= m BY <1>6, <2>2
  <2> DEFINE W(e) == parse(NewRequest, e, 0)
             j == req_parsed_bytes_ + p.parsed
             X(e) == parse(p.req, e, j)
             Is(e) == /\ j <= m
                      /\ parse_complete(p.req) => W(e) = Result(p.req, j)
                      /\ ~parse_complete(p.req) =>
                            /\ Waits(p.req)
                            /\ X(e).req = W(e).req
                            /\ j + X(e).parsed = W(e).parsed
  <2> HIDE DEF m
  <2>4. ASSUME NEW e \in Seq(Cells), Cut(d, e, m), ParsedOf(e) PROVE Is(e)
    BY <1>1, <1>4, <1>8, <2>1, <2>2, <2>3, <2>4, PieceParsed
  <2>5. Is(asked) /\ Is(Padded(asked)) BY <1>3, <1>7, <2>2, <2>4
  <2>6. req_parsed_bytes_' = j BY <1>5
  <2> HIDE DEF p, j
  <2>7. ASSUME NEW e \in Seq(Cells), Is(e)
        PROVE  /\ armed' = "in" => /\ parse(req_', e, req_parsed_bytes_').req = W(e).req
                                   /\ req_parsed_bytes_'
                                        + parse(req_', e, req_parsed_bytes_').parsed
                                        = W(e).parsed
               /\ armed' = "out" => /\ parse_complete(req_')
                                    /\ W(e) = Result(req_', req_parsed_bytes_')
    BY <1>5, <2>6, <2>7
  <2>8. Padded(asked)' = Padded(asked) BY <1>1 DEF Padded
  <2>9. ParsedOf(asked)' BY <1>1, <1>7, <2>5, <2>7 DEF ParsedOf
  <2>10. ParsedOf(Padded(asked))' BY <1>7, <2>5, <2>7, <2>8 DEF ParsedOf
  <2>11. armed' = "in" => Waits(req_)' BY <1>5, <2>5 DEF Waits
  <2> QED BY <2>5, <2>6, <2>9, <2>10, <2>11
<1>9. requests' = 1 /\ asked' \in Sent BY <1>1, <1>2 DEF Asked
<1>10. buffer_r_bytes_' = m BY <1>1
<1> HIDE DEF m, p
<1>11. m <= Len(asked) BY <1>3
<1> QED BY <1>1, <1>3, <1>5, <1>8, <1>9, <1>10, <1>11 DEF Asked, d

LEMMA NextFirst == Typed /\ FirstOK /\ [Next]_vars => FirstOK'
<1> SUFFICES ASSUME Typed, FirstOK, [Next]_vars PROVE FirstOK' OBVIOUS
<1>1. CASE ClientSends BY <1>1, FirstSent
<1>2. ASSUME NEW n \in 1..BufLen, ProcessIn(n) PROVE FirstOK' BY <1>2, FirstReceived
<1>3. ASSUME NEW b, NEW d, ProcessOut(b, d) PROVE FirstOK'
  <2>1. UNCHANGED <<armed, inVars, net, asked, requests, answered>> BY <1>3 DEF ProcessOut
  <2>2. Padded(asked)' = Padded(asked) BY <2>1 DEF Padded
  <2>3. ParsedOf(asked)' = ParsedOf(asked) /\ ParsedOf(Padded(asked))' = ParsedOf(Padded(asked))
    BY <2>1, <2>2 DEF ParsedOf, inVars
  <2>4. Asked' = Asked BY <2>1, <2>3 DEF Asked, inVars, Waits
  <2>5. Unasked' = Unasked BY <2>1 DEF Unasked, inVars
  <2> QED BY <2>1, <2>4, <2>5 DEF FirstOK
<1>4. ASSUME NEW b, NEW d, ProcessOutEnds(b, d) PROVE FirstOK'
  <2>1. answered' = answered + 1 /\ answered \in Nat
    BY <1>4 DEF ProcessOutEnds, Typed, TypeOK
  <2>2. answered' # 0 BY <2>1
  <2> QED BY <2>2 DEF FirstOK
<1>5. CASE ConnClose BY <1>5 DEF ConnClose, FirstOK
<1>6. CASE ProcessInFails \/ UNCHANGED vars
  <2>1. UNCHANGED vars BY <1>6 DEF ProcessInFails
  <2>2. Padded(asked)' = Padded(asked) BY <2>1 DEF Padded, vars
  <2>3. ParsedOf(asked)' = ParsedOf(asked) /\ ParsedOf(Padded(asked))' = ParsedOf(Padded(asked))
    BY <2>1, <2>2 DEF ParsedOf, vars
  <2>4. Asked' = Asked BY <2>1, <2>3 DEF Asked, vars, Waits
  <2>5. Unasked' = Unasked BY <2>1 DEF Unasked, vars
  <2> QED BY <2>1, <2>4, <2>5 DEF FirstOK, vars
<1> QED BY <1>1, <1>2, <1>3, <1>4, <1>5, <1>6 DEF Next

LEMMA InitFirst == Init => FirstOK
BY DEF Init, FirstOK, Unasked

LEMMA FirstIsWhole == Typed /\ FirstOK => FirstRequestWhole
<1> SUFFICES ASSUME Typed, FirstOK, requests = 1, answered = 0, armed = "out",
                    ~req_.is_bad_req_, req_.content_length = -1
             PROVE  net = <<>>
  BY DEF FirstRequestWhole
<1>1. Asked BY DEF FirstOK
<1> DEFINE N == Len(asked)
           k == buffer_r_bytes_
           w == parse(NewRequest, asked, 0)
<1>2. /\ asked \in Sent /\ asked \in Seq(Cells) /\ N \in Nat /\ k <= N /\ k \in Nat
      /\ req_parsed_bytes_ \in Nat /\ req_parsed_bytes_ <= k
      /\ net = SubSeq(asked, k + 1, N)
  BY <1>1, SentAssumption, LenProperties DEF Asked, Typed, TypeOK
<1>3. parse_complete(req_) /\ w = Result(req_, req_parsed_bytes_) BY <1>1 DEF Asked, ParsedOf
<1>4. w.req = req_ /\ w.parsed = req_parsed_bytes_ BY <1>3, ResultIs
<1>5. w.parsed = N
  <2>1. parse_complete(w.req) /\ ~w.req.is_bad_req_ /\ w.req.content_length = -1
    BY <1>3, <1>4
  <2> QED BY <1>2, <2>1, SentAssumption
<1> HIDE DEF w
<1>6. N < k + 1 BY <1>2, <1>4, <1>5
<1> QED BY <1>2, <1>6, SubSeqEmpty

LEMMA FirstIsTheSame == FirstOK => SplitIndependent
<1> SUFFICES ASSUME FirstOK, requests = 1, answered = 0, armed = "out",
                    req_.content_length = -1
             PROVE  req_ = parse(NewRequest, Padded(asked), 0).req
  BY DEF SplitIndependent
<1>1. Asked BY DEF FirstOK
<1>2. parse(NewRequest, Padded(asked), 0) = Result(req_, req_parsed_bytes_)
  BY <1>1 DEF Asked, ParsedOf
<1> QED BY <1>2, ResultIs

(* However recv cuts the first request up, it is answered only when all of it
   was received. *)
THEOREM FirstReceivedWhole == Spec => []FirstRequestWhole
BY InitOK, NextFile, NextFresh, InitTyped, NextTyped, InitFirst, NextFirst, FirstIsWhole,
   PTL DEF Spec

(* ... and what the handlers see is what one recv would have given. *)
THEOREM SplitsAreNotSeen == Spec => []SplitIndependent
BY InitOK, NextFile, NextFresh, InitTyped, NextTyped, InitFirst, NextFirst, FirstIsTheSame,
   PTL DEF Spec
-----------------------------------------------------------------------------
(* Every request that comes in one piece. *)

(* With nothing received, the parser has nothing either. *)
EmptyIsNew == armed = "in" /\ buffer_r_bytes_ = 0 => req_ = NewRequest /\ req_parsed_bytes_ = 0

LEMMA NextEmpty == Typed /\ EmptyIsNew /\ [Next]_vars => EmptyIsNew'
<1> SUFFICES ASSUME Typed, EmptyIsNew, [Next]_vars PROVE EmptyIsNew'
  OBVIOUS
<1>1. CASE ClientSends \/ ProcessInFails \/ UNCHANGED vars
  BY <1>1 DEF ClientSends, ProcessInFails, vars, inVars, EmptyIsNew
<1>2. ASSUME NEW n \in 1..BufLen, ProcessIn(n) PROVE EmptyIsNew'
  <2>1. buffer_r_bytes_' = buffer_r_bytes_ + n
    BY <1>2 DEF ProcessIn
  <2>2. buffer_r_bytes_' # 0
    BY <2>1 DEF Typed, TypeOK
  <2> QED BY <2>2 DEF EmptyIsNew
<1>3. ASSUME NEW b \in Nat, NEW d \in Nat, ProcessOut(b, d) PROVE EmptyIsNew'
  BY <1>3 DEF ProcessOut, EmptyIsNew
<1>4. ASSUME NEW b \in Nat, NEW d \in Nat, ProcessOutEnds(b, d) PROVE EmptyIsNew'
  BY <1>4 DEF ProcessOutEnds, conn_state_reset, EmptyIsNew
<1>5. CASE ConnClose
  BY <1>5 DEF ConnClose, EmptyIsNew
<1> QED BY <1>1, <1>2, <1>3, <1>4, <1>5 DEF Next, MaxBase

(* What one recv brings into an empty buffer stands at its beginning. *)
LEMMA WholePieceBegins ==
  ASSUME Typed, NEW n \in 1..Len(net), n = Len(net), buffer_r_bytes_ = 0, n <= BufLen
  PROVE  /\ net \in Seq(Cells) /\ Received(n) \in Seq(Cells)
         /\ Begins(net, Received(n))
<1>1. net \in Seq(Cells) /\ BufLen \in Nat /\ buffer_r_bytes_ \in Nat
  BY DEF Typed, TypeOK
<1>2. Len(net) \in Nat
  BY <1>1, LenProperties
<1>3. buffer_r_bytes_ + n <= BufLen
  BY <1>1, <1>2
<1>4. Received(n) \in Seq(Cells) /\ Len(Received(n)) = BufLen
  BY <1>3, ReceivedType DEF Typed
<1>5. ASSUME NEW i \in 1..Len(net) PROVE net[i] = Received(n)[i]
  <2>1. i \in 1..BufLen /\ i \in (0 + 1)..(0 + n) /\ i - 0 = i
    BY <1>1, <1>2
  <2> QED BY <2>1 DEF Received
<1> QED BY <1>1, <1>2, <1>4, <1>5 DEF Begins

LEMMA WholePieceStep ==
  ASSUME Typed, EmptyIsNew, [Next]_vars,
         armed = "in", buffer_r_bytes_ = 0, net = asked, net' = <<>>,
         parse_complete(parse(NewRequest, asked, 0).req)
  PROVE  req_' = parse(NewRequest, asked, 0).req /\ armed' = "out"
<1>1. net \in Seq(Cells) /\ Len(net) \in Nat /\ req_ = NewRequest /\ req_parsed_bytes_ = 0
  BY LenProperties DEF Typed, TypeOK, EmptyIsNew
<1>2. NewRequest \in Requests /\ BodyCounted(NewRequest)
  BY NewRequestType
<1>3. Waits(NewRequest) /\ ~parse_complete(NewRequest)
  BY NewWaits, NewIncomplete
<1>4. net # <<>>
  <2> SUFFICES ASSUME net = <<>> PROVE FALSE
    OBVIOUS
  <2>1. Len(asked) = 0
    BY <2>1
  <2>2. parse(NewRequest, asked, 0) = Result(NewRequest, 0)
    BY <2>1 DEF parse
  <2> QED BY <1>3, <2>2, ResultIs
<1>5. PICK n \in 1..BufLen : ProcessIn(n)
  <2>1. ~UNCHANGED net
    BY <1>4
  <2>2. ~ClientSends
    BY <1>4 DEF ClientSends
  <2> QED BY <2>1, <2>2 DEF Next, vars, ProcessInFails, ProcessOut, ProcessOutEnds, ConnClose,
                           clientVars
<1>6. n \in 1..Len(net) /\ n <= BufLen /\ n = Len(net)
  <2>1. n \in 1..Len(net) /\ n <= BufLen /\ net' = SubSeq(net, n + 1, Len(net))
    BY <1>5 DEF ProcessIn
  <2>2. \A i \in (n + 1)..Len(net) : net[i] \in Cells
    <3>1. \A i \in (n + 1)..Len(net) : i \in 1..Len(net)
      BY <1>1, <2>1
    <3> QED BY <1>1, <3>1, ElementOfSeq
  <2>3. n < Len(net) => Len(SubSeq(net, n + 1, Len(net))) = Len(net) - n
    <3>1. n + 1 \in Int /\ Len(net) \in Int
      BY <1>1, <2>1
    <3>2. Len(SubSeq(net, n + 1, Len(net)))
            = IF n + 1 <= Len(net) THEN Len(net) - (n + 1) + 1 ELSE 0
      BY <2>2, <3>1, SubSeqProperties
    <3> QED BY <1>1, <2>1, <3>2
  <2>4. ~(n < Len(net))
    <3> SUFFICES ASSUME n < Len(net) PROVE FALSE
      OBVIOUS
    <3>1. Len(<<>>) = Len(net) - n
      BY <2>1, <2>3
    <3>2. Len(<<>>) = 0
      OBVIOUS
    <3> QED BY <1>1, <2>1, <3>1, <3>2
  <2> QED BY <1>1, <2>1, <2>4
<1>7. Received(n) \in Seq(Cells) /\ Begins(net, Received(n))
  BY <1>6, WholePieceBegins
<1>8. parse(NewRequest, Received(n), 0) = parse(NewRequest, net, 0)
  <2>1. 0 \in 0..Len(net)
    BY <1>1
  <2> QED BY <1>1, <1>2, <1>3, <1>7, <2>1, ParseOfWhole
<1>9. /\ req_' = parse(req_, Received(n), req_parsed_bytes_).req
      /\ armed' = IF parse_complete(req_') THEN "out" ELSE "in"
  BY <1>5 DEF ProcessIn
<1> QED BY <1>1, <1>8, <1>9

(* A request that comes in one piece is understood as it was sent, however
   many there were before it and whatever they left in the buffer; it may have
   a body, and may be a bad one. *)
THEOREM WholePieceCorrect == Spec => WholePieceUnderstood
<1>1. Init => EmptyIsNew
  BY DEF Init, EmptyIsNew
<1>2. Typed /\ EmptyIsNew /\ [Next]_vars =>
        [LET w == parse(NewRequest, asked, 0)
         IN  /\ armed = "in" /\ buffer_r_bytes_ = 0 /\ net = asked /\ net' = <<>>
             /\ parse_complete(w.req)
             => req_' = w.req /\ armed' = "out"]_vars
  BY WholePieceStep
<1> QED BY InitOK, NextFile, NextFresh, InitTyped, NextTyped, NextEmpty, <1>1, <1>2, PTL
        DEF Spec, WholePieceUnderstood
=============================================================================
