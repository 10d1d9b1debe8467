-------------------------- MODULE HttpRequestProofs --------------------------
(***************************************************************************)
(* Proofs about the parser, for data of any length: its cursor stays       *)
(* within the data, and a parse that is taken up again when more has come  *)
(* gives what one parse of everything gives.                               *)
(***************************************************************************)
EXTENDS HttpRequest, SequenceTheorems, WellFoundedInduction, TLAPS

-----------------------------------------------------------------------------
(* First and Last. *)

LEMMA Least ==
  ASSUME NEW S \in SUBSET Nat, S # {}
  PROVE  First(S) \in S /\ \A y \in S : First(S) <= y
<1> DEFINE R == OpToRel(<, Nat)
<1>1. IsWellFoundedOn(R, Nat) BY NatLessThanWellFounded
<1>2. \A x, y \in Nat : x < y <=> <<x, y>> \in R BY DEF OpToRel
<1> HIDE DEF R
<1>3. PICK x \in S : \A y \in S : ~(<<y, x>> \in R) BY <1>1, WFMin
<1>4. \A y \in S : x <= y
  <2> SUFFICES ASSUME NEW y \in S PROVE x <= y OBVIOUS
  <2>1. ~(y < x) BY <1>2, <1>3
  <2> QED BY <2>1
<1> QED BY <1>4 DEF First

LEMMA Greatest ==
  ASSUME NEW N \in Nat, NEW S \in SUBSET (1..N), S # {}
  PROVE  Last(S) \in S /\ \A y \in S : Last(S) >= y
<1> DEFINE T == {N - x : x \in S}
<1>1. T \in SUBSET Nat /\ T # {}
  <2>1. \A x \in S : N - x \in Nat OBVIOUS
  <2> QED BY <2>1
<1>2. First(T) \in T /\ \A t \in T : First(T) <= t BY <1>1, Least
<1>3. PICK x \in S : First(T) = N - x BY <1>2
<1>4. \A y \in S : x >= y
  <2> SUFFICES ASSUME NEW y \in S PROVE x >= y OBVIOUS
  <2>1. N - x <= N - y BY <1>2, <1>3
  <2> QED BY <2>1
<1> QED BY <1>4 DEF Last

(* One number is the first. *)
LEMMA FirstIs ==
  ASSUME NEW S \in SUBSET Nat, NEW x \in S, \A y \in S : x <= y
  PROVE  First(S) = x
<1>1. First(S) \in S /\ First(S) <= x /\ x <= First(S) BY Least
<1>2. First(S) \in Nat /\ x \in Nat BY <1>1
<1> QED BY <1>1, <1>2

LEMMA LastIs ==
  ASSUME NEW N \in Nat, NEW S \in SUBSET (1..N), NEW x \in S, \A y \in S : x >= y
  PROVE  Last(S) = x
<1>1. Last(S) \in S /\ Last(S) >= x /\ x >= Last(S) BY Greatest
<1>2. Last(S) \in 1..N /\ x \in 1..N BY <1>1
<1> QED BY <1>1, <1>2

-----------------------------------------------------------------------------
(* The line ends and the lines of some data. *)

LEMMA EndsAre ==
  ASSUME NEW data \in Seq(Cells), NEW n \in Nat
  PROVE  /\ Len(data) \in Nat
         /\ Ends(data, n) \in SUBSET ((n + 1)..Len(data))
         /\ Ends(data, n) \in SUBSET (1..Len(data))
         /\ Starts(data, n) \in SUBSET ((n + 1)..Len(data))
         /\ Starts(data, n) \in SUBSET Nat
         /\ Ends(data, n) # {} =>
              /\ First(Ends(data, n)) \in Ends(data, n)
              /\ Last(Ends(data, n)) \in Ends(data, n)
              /\ \A e \in Ends(data, n) : e <= Last(Ends(data, n))
              /\ n + 1 \in Starts(data, n)
         /\ Starts(data, n) # {} => Ends(data, n) # {}
<1>1. Len(data) \in Nat BY LenProperties
<1>2. Ends(data, n) \in SUBSET (1..Len(data)) /\ Ends(data, n) \in SUBSET ((n + 1)..Len(data))
  BY <1>1 DEF Ends
<1>3. Starts(data, n) \in SUBSET ((n + 1)..Len(data)) BY DEF Starts
<1>4. ASSUME Ends(data, n) # {}
      PROVE  /\ First(Ends(data, n)) \in Ends(data, n)
             /\ Last(Ends(data, n)) \in Ends(data, n)
             /\ \A e \in Ends(data, n) : e <= Last(Ends(data, n))
             /\ n + 1 \in Starts(data, n)
  <2>1. Ends(data, n) \in SUBSET Nat BY <1>1, <1>2
  <2>2. First(Ends(data, n)) \in Ends(data, n) BY <1>4, <2>1, Least
  <2>3. /\ Last(Ends(data, n)) \in Ends(data, n)
        /\ \A e \in Ends(data, n) : Last(Ends(data, n)) >= e
    BY <1>1, <1>2, <1>4, Greatest
  <2>4. n + 1 \in (n + 1)..Len(data) /\ (n + 1) - 1 = n BY <1>1, <1>2, <2>2
  <2>5. n + 1 \in Starts(data, n) BY <1>4, <2>4 DEF Starts
  <2> QED BY <1>2, <2>1, <2>2, <2>3, <2>5
<1>5. ASSUME NEW s \in Starts(data, n) PROVE Ends(data, n) # {}
  <2>1. PICK e \in s..Len(data) : data[e] = CRLF BY <1>3, <1>5 DEF Starts, Ends
  <2>2. e \in (n + 1)..Len(data) BY <1>1, <1>3, <2>1
  <2> QED BY <2>1, <2>2 DEF Ends
<1> QED BY <1>1, <1>2, <1>3, <1>4, <1>5

LEMMA CellFields ==
  ASSUME NEW c \in Cells
  PROVE  /\ c.k \in {"line", "connection", "length", "crlf", "body", "nul"}
         /\ c.k = "line" => c.method \in Text /\ c.uri \in Text
         /\ c.k = "connection" => c.val \in Text /\ c.val # "none"
         /\ c.k = "length" => c.val \in Nat
         /\ c.k = "crlf" <=> c = CRLF
<1>1. CASE c \in [k : {"line"}, method : Text, uri : Text]
  <2>1. c.k = "line" /\ c.method \in Text /\ c.uri \in Text BY <1>1
  <2> QED BY <2>1 DEF CRLF
<1>2. CASE c \in [k : {"connection"}, val : Text \ {"none"}]
  <2>1. c.k = "connection" /\ c.val \in Text /\ c.val # "none" BY <1>2
  <2> QED BY <2>1 DEF CRLF
<1>3. CASE c \in [k : {"length"}, val : Nat]
  <2>1. c.k = "length" /\ c.val \in Nat BY <1>3
  <2> QED BY <2>1 DEF CRLF
<1>4. CASE c \in {CRLF, Body, NUL} BY <1>4 DEF CRLF, Body, NUL
<1> QED BY <1>1, <1>2, <1>3, <1>4 DEF Cells

LEMMA NulCell == NUL \in Cells /\ NUL # CRLF
BY DEF Cells, CRLF, Body, NUL

-----------------------------------------------------------------------------
(* Types.  A body has at most as many cells as were announced. *)

BodyCounted(r) ==
    /\ r.content_length = -1 => r.body_ = 0
    /\ r.content_length # -1 => r.body_ <= r.content_length

LEMMA NewRequestType == NewRequest \in Requests /\ BodyCounted(NewRequest)
BY TextAssumption DEF NewRequest, Requests, BodyCounted

(* A step of the parser that consumes n cells of the data behind k. *)
Good(p, data, k) ==
    /\ p.req \in Requests
    /\ BodyCounted(p.req)
    /\ p.parsed \in Nat
    /\ k + p.parsed <= Len(data)

LEMMA SameBody ==
  ASSUME NEW r, NEW q, BodyCounted(r),
         q.content_length = r.content_length, q.body_ = r.body_
  PROVE  BodyCounted(q)
BY DEF BodyCounted

LEMMA SetBad ==
  ASSUME NEW r \in Requests, BodyCounted(r)
  PROVE  set_bad_req(r) \in Requests /\ BodyCounted(set_bad_req(r))
BY DEF set_bad_req, Requests, BodyCounted

(* What the headers in S leave in the two fields. *)
ConnectionOf(r, data, S) ==
    IF r.connection = "none" /\ OfKind(data, S, "connection") # {}
    THEN data[First(OfKind(data, S, "connection"))].val ELSE r.connection

LengthOf(r, data, S) ==
    IF r.content_length = -1 /\ OfKind(data, S, "length") # {}
    THEN data[First(OfKind(data, S, "length"))].val ELSE r.content_length

Given(r, val, n) == [r EXCEPT !.connection = val, !.content_length = n]

LEMMA EmplaceIs ==
  ASSUME NEW r \in Requests, NEW data, NEW S
  PROVE  Emplace(r, data, S) = Given(r, ConnectionOf(r, data, S), LengthOf(r, data, S))
BY DEF Emplace, Given, ConnectionOf, LengthOf, Requests

LEMMA GivenIs ==
  ASSUME NEW r \in Requests, NEW val, NEW n
  PROVE  /\ Given(r, val, n).state_ = r.state_
         /\ Given(r, val, n).method_ = r.method_
         /\ Given(r, val, n).body_ = r.body_
         /\ Given(r, val, n).connection = val
         /\ Given(r, val, n).content_length = n
         /\ val \in Text /\ n \in Nat \cup {-1} => Given(r, val, n) \in Requests
         /\ \A v, m : Given(Given(r, val, n), v, m) = Given(r, v, m)
         /\ Given(r, r.connection, r.content_length) = r
BY DEF Given, Requests

LEMMA FirstOf ==
  ASSUME NEW data \in Seq(Cells), NEW S \in SUBSET (1..Len(data)), NEW k,
         OfKind(data, S, k) # {}
  PROVE  LET f == First(OfKind(data, S, k))
         IN  /\ f \in S /\ data[f].k = k /\ data[f] \in Cells
             /\ \A s \in S : data[s].k = k => f <= s
<1> DEFINE K == OfKind(data, S, k)
<1>a. Len(data) \in Nat BY LenProperties
<1>b. K \subseteq S /\ \A s \in S : s \in K <=> data[s].k = k BY DEF OfKind
<1> HIDE DEF K
<1>1. K \in SUBSET Nat BY <1>a, <1>b
<1>2. First(K) \in K /\ \A s \in K : First(K) <= s BY <1>1, Least DEF K
<1>3. data[First(K)] \in Cells BY <1>b, <1>2, ElementOfSeq
<1> QED BY <1>b, <1>2, <1>3 DEF K

LEMMA EmplaceType ==
  ASSUME NEW r \in Requests, BodyCounted(r),
         NEW data \in Seq(Cells), NEW S \in SUBSET (1..Len(data))
  PROVE  /\ Emplace(r, data, S) \in Requests
         /\ BodyCounted(Emplace(r, data, S))
         /\ Emplace(r, data, S).state_ = r.state_
         /\ r.content_length # -1 => Emplace(r, data, S).content_length # -1
<1> DEFINE val == ConnectionOf(r, data, S)
           n == LengthOf(r, data, S)
           C == OfKind(data, S, "connection")
           L == OfKind(data, S, "length")
<1>1. val \in Text
  <2>1. CASE r.connection = "none" /\ C # {}
    <3>1. val = data[First(C)].val BY <2>1 DEF ConnectionOf
    <3>2. C # {} BY <2>1
    <3>3. data[First(C)].k = "connection" /\ data[First(C)] \in Cells BY <3>2, FirstOf, Zenon
    <3> QED BY <3>1, <3>3, CellFields
  <2>2. CASE ~(r.connection = "none" /\ C # {})
    BY <2>2 DEF ConnectionOf, Requests
  <2> QED BY <2>1, <2>2
<1>2. /\ n \in Nat \cup {-1}
      /\ n = r.content_length \/ (r.content_length = -1 /\ n \in Nat)
  <2>1. CASE r.content_length = -1 /\ L # {}
    <3>1. n = data[First(L)].val BY <2>1 DEF LengthOf
    <3>2. L # {} BY <2>1
    <3>3. data[First(L)].k = "length" /\ data[First(L)] \in Cells BY <3>2, FirstOf, Zenon
    <3> QED BY <2>1, <3>1, <3>3, CellFields
  <2>2. CASE ~(r.content_length = -1 /\ L # {})
    BY <2>2 DEF LengthOf, Requests
  <2> QED BY <2>1, <2>2
<1> HIDE DEF val, n
<1>3. Emplace(r, data, S) = Given(r, val, n) BY EmplaceIs DEF val, n
<1>4. Given(r, val, n) \in Requests BY <1>1, <1>2, GivenIs
<1>5. Given(r, val, n).body_ = r.body_ /\ Given(r, val, n).content_length = n
      /\ Given(r, val, n).state_ = r.state_
  BY GivenIs
<1>6. r.body_ \in Nat /\ r.content_length \in Nat \cup {-1} BY DEF Requests
<1>7. BodyCounted(Given(r, val, n)) BY <1>2, <1>5, <1>6 DEF BodyCounted
<1>8. r.content_length # -1 => n # -1 BY <1>2
<1> QED BY <1>3, <1>4, <1>5, <1>7, <1>8

(* The parser of each state keeps its cursor within the data. *)
LEMMA LineGood ==
  ASSUME NEW r \in Requests, BodyCounted(r), NEW data \in Seq(Cells), NEW k \in 0..Len(data)
  PROVE  /\ Good(parse_req_line(r, data, k), data, k)
         /\ parse_req_line(r, data, k).req.content_length = r.content_length
<1> DEFINE p == parse_req_line(r, data, k)
<1>1. Len(data) \in Nat /\ k \in Nat BY LenProperties
<1>2. CASE p = Result(r, 0)
  <2>1. p.req = r /\ p.parsed = 0 BY <1>2 DEF Result
  <2> QED BY <1>1, <2>1 DEF Good
<1>3. CASE p = Result(set_bad_req(r), 0)
  <2>1. p.req = set_bad_req(r) /\ p.parsed = 0 BY <1>3 DEF Result
  <2>2. set_bad_req(r).content_length = r.content_length BY DEF set_bad_req, Requests
  <2> QED BY <1>1, <2>1, <2>2, SetBad DEF Good
<1>4. CASE p # Result(r, 0) /\ p # Result(set_bad_req(r), 0)
  <2>1. /\ Ends(data, k) # {} /\ First(Ends(data, k)) = k + 2 /\ data[k + 1].k = "line"
        /\ p = Result([r EXCEPT !.method_ = data[k + 1].method,
                                !.path_ = data[k + 1].uri,
                                !.state_ = "PARSE_REQ_HEADER"], 2)
    BY <1>4 DEF parse_req_line
  <2>2. k + 2 <= Len(data) BY <1>1, <2>1, EndsAre
  <2>3. data[k + 1] \in Cells BY <1>1, <2>2, ElementOfSeq
  <2>4. data[k + 1].method \in Text /\ data[k + 1].uri \in Text BY <2>1, <2>3, CellFields
  <2>5. \A m, u \in Text :
            LET h == [r EXCEPT !.method_ = m, !.path_ = u, !.state_ = "PARSE_REQ_HEADER"]
            IN  h \in Requests /\ h.content_length = r.content_length /\ h.body_ = r.body_
    BY DEF Requests
  <2>6. p.req \in Requests /\ p.req.content_length = r.content_length /\ p.req.body_ = r.body_
        /\ p.parsed = 2
    <3> DEFINE h == [r EXCEPT !.method_ = data[k + 1].method, !.path_ = data[k + 1].uri,
                              !.state_ = "PARSE_REQ_HEADER"]
    <3>1. h \in Requests /\ h.content_length = r.content_length /\ h.body_ = r.body_
      BY <2>4, <2>5
    <3>2. p.req = h /\ p.parsed = 2 BY <2>1 DEF Result
    <3> HIDE DEF p, h
    <3> QED BY <3>1, <3>2
  <2> HIDE DEF p
  <2>7. BodyCounted(p.req) BY <2>6, SameBody
  <2>8. k + p.parsed <= Len(data) /\ p.parsed \in Nat BY <1>1, <2>2, <2>6
  <2> QED BY <2>6, <2>7, <2>8 DEF Good, p
<1> QED BY <1>2, <1>3, <1>4

LEMMA HeaderGood ==
  ASSUME NEW r \in Requests, BodyCounted(r), NEW data \in Seq(Cells), NEW k \in 0..Len(data)
  PROVE  /\ Good(parse_req_header(r, data, k), data, k)
         /\ r.content_length # -1 => parse_req_header(r, data, k).req.content_length # -1
<1> DEFINE starts == Starts(data, k)
           stops == {s \in starts : ~IsHeader(data[s])}
           p == parse_req_header(r, data, k)
<1>1. Len(data) \in Nat /\ k \in Nat BY LenProperties
<1>2. starts \in SUBSET (1..Len(data)) BY <1>1, EndsAre
<1>3. CASE stops = {}
  <2>1. p = Result(Emplace(r, data, starts),
                   IF starts = {} THEN 0 ELSE Last(Ends(data, k)) - k)
    BY <1>3 DEF parse_req_header
  <2>2. p.req = Emplace(r, data, starts)
        /\ p.parsed = IF starts = {} THEN 0 ELSE Last(Ends(data, k)) - k
    BY <2>1 DEF Result
  <2>3. starts # {} => Last(Ends(data, k)) \in (k + 1)..Len(data) BY <1>1, EndsAre
  <2>4. /\ Emplace(r, data, starts) \in Requests /\ BodyCounted(Emplace(r, data, starts))
        /\ r.content_length # -1 => Emplace(r, data, starts).content_length # -1
    BY <1>2, EmplaceType
  <2> HIDE DEF p, starts
  <2>5. p.parsed \in Nat /\ k + p.parsed <= Len(data) BY <1>1, <2>2, <2>3
  <2> QED BY <2>2, <2>4, <2>5 DEF Good, p
<1>4. CASE stops # {}
  <2> DEFINE s == First(stops)
             hs == {h \in starts : h < s}
             read == Emplace(r, data, hs)
  <2>1. stops \in SUBSET Nat BY <1>2
  <2>2. s \in stops BY <1>4, <2>1, Least
  <2>3. s \in (k + 1)..Len(data) BY <1>1, <2>2, EndsAre
  <2>4. hs \in SUBSET (1..Len(data)) BY <1>2
  <2>5. /\ read \in Requests /\ BodyCounted(read)
        /\ r.content_length # -1 => read.content_length # -1
    BY <2>4, EmplaceType
  <2> HIDE DEF read
  <2>6. p = IF data[s] = CRLF
            THEN Result([read EXCEPT !.state_ = "PARSE_BODY"], s - k)
            ELSE Result(set_bad_req(read), s - k - 1)
    BY <1>4 DEF parse_req_header, read
  <2>7. CASE data[s] = CRLF
    <3>1. p.req = [read EXCEPT !.state_ = "PARSE_BODY"] /\ p.parsed = s - k
      BY <2>6, <2>7 DEF Result
    <3>2. /\ [read EXCEPT !.state_ = "PARSE_BODY"] \in Requests
          /\ [read EXCEPT !.state_ = "PARSE_BODY"].content_length = read.content_length
          /\ [read EXCEPT !.state_ = "PARSE_BODY"].body_ = read.body_
      BY <2>5 DEF Requests
    <3> HIDE DEF p, s
    <3>3. BodyCounted(p.req) BY <2>5, <3>1, <3>2, SameBody
    <3>4. p.parsed \in Nat /\ k + p.parsed <= Len(data) BY <1>1, <2>3, <3>1
    <3> QED BY <2>5, <3>1, <3>2, <3>3, <3>4 DEF Good, p
  <2>8. CASE data[s] # CRLF
    <3>1. p.req = set_bad_req(read) /\ p.parsed = s - k - 1 BY <2>6, <2>8 DEF Result
    <3>2. set_bad_req(read).content_length = read.content_length
      BY <2>5 DEF Requests, set_bad_req
    <3>3. set_bad_req(read) \in Requests /\ BodyCounted(set_bad_req(read)) BY <2>5, SetBad
    <3> HIDE DEF p, s
    <3>4. p.parsed \in Nat /\ k + p.parsed <= Len(data) BY <1>1, <2>3, <3>1
    <3> QED BY <2>5, <3>1, <3>2, <3>3, <3>4 DEF Good, p
  <2> QED BY <2>7, <2>8
<1> QED BY <1>3, <1>4

LEMMA BodyGood ==
  ASSUME NEW r \in Requests, BodyCounted(r), NEW data \in Seq(Cells), NEW k \in 0..Len(data)
  PROVE  /\ Good(parse_req_body(r, data, k), data, k)
         /\ r.content_length # -1 => parse_req_body(r, data, k).req.content_length # -1
<1> DEFINE p == parse_req_body(r, data, k)
<1>1. Len(data) \in Nat /\ k \in Nat BY LenProperties
<1>2. CASE p = Result(r, 0)
  <2>1. p.req = r /\ p.parsed = 0 BY <1>2 DEF Result
  <2> QED BY <1>1, <2>1 DEF Good
<1>3. CASE p = Result([r EXCEPT !.state_ = "PARSE_SUCCESS"], 0)
  <2>1. p.req = [r EXCEPT !.state_ = "PARSE_SUCCESS"] /\ p.parsed = 0 BY <1>3 DEF Result
  <2>2. /\ p.req \in Requests
        /\ p.req.content_length = r.content_length
        /\ p.req.body_ = r.body_
    BY <2>1 DEF Requests
  <2> HIDE DEF p
  <2>3. BodyCounted(p.req) BY <2>2, SameBody
  <2>4. p.parsed \in Nat /\ k + p.parsed <= Len(data) BY <1>1, <2>1
  <2> QED BY <2>2, <2>3, <2>4 DEF Good, p
<1>4. CASE p = Result(set_bad_req(r), 0)
  <2>1. p.req = set_bad_req(r) /\ p.parsed = 0 BY <1>4 DEF Result
  <2>2. set_bad_req(r).content_length = r.content_length BY DEF set_bad_req, Requests
  <2> QED BY <1>1, <2>1, <2>2, SetBad DEF Good
<1>5. CASE r.method_ = "POST" /\ r.content_length # -1 /\ k < Len(data)
  <2> DEFINE remain == r.content_length - r.body_
             taken == IF remain > Len(data) - k THEN Len(data) - k ELSE remain
             state == IF r.body_ + taken = r.content_length THEN "PARSE_SUCCESS" ELSE r.state_
  <2>1. p = Result([r EXCEPT !.body_ = r.body_ + taken, !.state_ = state], taken)
    BY <1>5 DEF parse_req_body
  <2>2. r.body_ \in Nat /\ r.content_length \in Nat BY <1>5 DEF Requests
  <2>3. remain \in Nat BY <1>5, <2>2 DEF BodyCounted
  <2>4. taken \in Nat /\ taken <= remain /\ k + taken <= Len(data) BY <1>1, <1>5, <2>3
  <2>5. state \in {"PARSE_REQ_LINE", "PARSE_REQ_HEADER", "PARSE_BODY", "PARSE_SUCCESS"}
    BY DEF Requests
  <2> HIDE DEF state, taken
  <2>6. r.body_ + taken \in Nat BY <2>2, <2>4
  <2>7. p.req = [r EXCEPT !.body_ = r.body_ + taken, !.state_ = state] /\ p.parsed = taken
    BY <2>1 DEF Result
  <2>8. /\ p.req \in Requests
        /\ p.req.content_length = r.content_length
        /\ p.req.body_ = r.body_ + taken
    BY <2>5, <2>6, <2>7 DEF Requests
  <2> HIDE DEF p
  <2>9. p.req.body_ <= p.req.content_length
    <3>1. r.body_ + taken <= r.content_length
      <4>1. taken <= r.content_length - r.body_ BY <2>4
      <4> QED BY <2>2, <2>4, <4>1
    <3> QED BY <2>8, <3>1
  <2>10. p.req.content_length # -1 BY <1>5, <2>8
  <2>11. BodyCounted(p.req) BY <2>9, <2>10 DEF BodyCounted
  <2> QED BY <2>4, <2>7, <2>8, <2>10, <2>11 DEF Good, p
<1>6. \/ p = Result(r, 0)
      \/ p = Result([r EXCEPT !.state_ = "PARSE_SUCCESS"], 0)
      \/ p = Result(set_bad_req(r), 0)
      \/ r.method_ = "POST" /\ r.content_length # -1 /\ k < Len(data)
  <2>1. r.method_ = "GET" \/ r.method_ = "POST" \/ r.method_ \notin {"GET", "POST"} OBVIOUS
  <2> QED BY <1>1, <2>1 DEF parse_req_body
<1> QED BY <1>2, <1>3, <1>4, <1>5, <1>6
-----------------------------------------------------------------------------
(* The parsers one after the other. *)

LineStep(r, data, k) ==
    IF r.state_ = "PARSE_REQ_LINE" THEN parse_req_line(r, data, k) ELSE Result(r, 0)

HeaderStep(r, data, k) ==
    IF r.state_ = "PARSE_REQ_HEADER" THEN parse_req_header(r, data, k) ELSE Result(r, 0)

BodyStep(r, data, k) ==
    IF r.state_ = "PARSE_BODY" THEN parse_req_body(r, data, k) ELSE Result(r, 0)

(* From the headers on. *)
Rest(r, data, k) ==
    LET header == HeaderStep(r, data, k)
        body == BodyStep(header.req, data, k + header.parsed)
    IN  Result(body.req, header.parsed + body.parsed)

(* What parse does when it does anything. *)
Run(r, data, k) ==
    LET line == LineStep(r, data, k)
        rest == Rest(line.req, data, k + line.parsed)
    IN  Result(rest.req, line.parsed + rest.parsed)

LEMMA ResultIs ==
  ASSUME NEW r, NEW n
  PROVE  Result(r, n).req = r /\ Result(r, n).parsed = n
BY DEF Result

LEMMA NothingGood ==
  ASSUME NEW r \in Requests, BodyCounted(r), NEW data \in Seq(Cells), NEW k \in 0..Len(data)
  PROVE  Good(Result(r, 0), data, k)
<1>1. Len(data) \in Nat /\ k \in Nat BY LenProperties
<1> QED BY <1>1 DEF Good, Result

LEMMA StepsGood ==
  ASSUME NEW r \in Requests, BodyCounted(r), NEW data \in Seq(Cells), NEW k \in 0..Len(data)
  PROVE  /\ Good(LineStep(r, data, k), data, k)
         /\ Good(HeaderStep(r, data, k), data, k)
         /\ Good(BodyStep(r, data, k), data, k)
         /\ r.content_length # -1 =>
              /\ LineStep(r, data, k).req.content_length # -1
              /\ HeaderStep(r, data, k).req.content_length # -1
              /\ BodyStep(r, data, k).req.content_length # -1
<1>1. Good(Result(r, 0), data, k) /\ Result(r, 0).req = r BY NothingGood, ResultIs
<1>2. /\ Good(LineStep(r, data, k), data, k)
      /\ r.content_length # -1 => LineStep(r, data, k).req.content_length # -1
  BY <1>1, LineGood DEF LineStep
<1>3. /\ Good(HeaderStep(r, data, k), data, k)
      /\ r.content_length # -1 => HeaderStep(r, data, k).req.content_length # -1
  BY <1>1, HeaderGood DEF HeaderStep
<1>4. /\ Good(BodyStep(r, data, k), data, k)
      /\ r.content_length # -1 => BodyStep(r, data, k).req.content_length # -1
  BY <1>1, BodyGood DEF BodyStep
<1> QED BY <1>2, <1>3, <1>4

(* Two steps of the parser, the second behind the first. *)
LEMMA ThenGood ==
  ASSUME NEW data \in Seq(Cells), NEW k \in 0..Len(data), NEW p, NEW q,
         Good(p, data, k), Good(q, data, k + p.parsed)
  PROVE  /\ k + p.parsed \in 0..Len(data)
         /\ Good(Result(q.req, p.parsed + q.parsed), data, k)
<1>1. Len(data) \in Nat /\ k \in Nat BY LenProperties
<1>2. p.parsed \in Nat /\ q.parsed \in Nat /\ k + p.parsed <= Len(data)
      /\ (k + p.parsed) + q.parsed <= Len(data)
  BY DEF Good
<1>3. p.parsed + q.parsed \in Nat /\ k + (p.parsed + q.parsed) <= Len(data) BY <1>1, <1>2
<1> QED BY <1>1, <1>2, <1>3, ResultIs DEF Good

LEMMA Behind ==
  ASSUME NEW data \in Seq(Cells), NEW k \in 0..Len(data), NEW p, Good(p, data, k)
  PROVE  k + p.parsed \in 0..Len(data) /\ p.req \in Requests /\ BodyCounted(p.req)
<1>1. Len(data) \in Nat /\ k \in Nat BY LenProperties
<1> QED BY <1>1 DEF Good

LEMMA RestGood ==
  ASSUME NEW r \in Requests, BodyCounted(r), NEW data \in Seq(Cells), NEW k \in 0..Len(data)
  PROVE  /\ Good(Rest(r, data, k), data, k)
         /\ r.content_length # -1 => Rest(r, data, k).req.content_length # -1
<1> DEFINE header == HeaderStep(r, data, k)
           body == BodyStep(header.req, data, k + header.parsed)
<1>1. Good(header, data, k) /\ (r.content_length # -1 => header.req.content_length # -1)
  BY StepsGood
<1>2. k + header.parsed \in 0..Len(data) /\ header.req \in Requests /\ BodyCounted(header.req)
  BY <1>1, Behind
<1> HIDE DEF header
<1>3. /\ Good(body, data, k + header.parsed)
      /\ header.req.content_length # -1 => body.req.content_length # -1
  BY <1>2, StepsGood
<1> HIDE DEF body
<1>4. Rest(r, data, k) = Result(body.req, header.parsed + body.parsed) BY DEF Rest, header, body
<1> QED BY <1>1, <1>3, <1>4, ThenGood, ResultIs

LEMMA RunGood ==
  ASSUME NEW r \in Requests, BodyCounted(r), NEW data \in Seq(Cells), NEW k \in 0..Len(data)
  PROVE  /\ Good(Run(r, data, k), data, k)
         /\ r.content_length # -1 => Run(r, data, k).req.content_length # -1
<1> DEFINE line == LineStep(r, data, k)
           rest == Rest(line.req, data, k + line.parsed)
<1>1. Good(line, data, k) /\ (r.content_length # -1 => line.req.content_length # -1)
  BY StepsGood
<1>2. k + line.parsed \in 0..Len(data) /\ line.req \in Requests /\ BodyCounted(line.req)
  BY <1>1, Behind
<1> HIDE DEF line
<1>3. /\ Good(rest, data, k + line.parsed)
      /\ line.req.content_length # -1 => rest.req.content_length # -1
  BY <1>2, RestGood
<1> HIDE DEF rest
<1>4. Run(r, data, k) = Result(rest.req, line.parsed + rest.parsed) BY DEF Run, line, rest
<1> QED BY <1>1, <1>3, <1>4, ThenGood, ResultIs

LEMMA ParseRuns ==
  ASSUME NEW r \in Requests, BodyCounted(r), NEW data \in Seq(Cells), NEW k \in 0..Len(data)
  PROVE  parse(r, data, k) = IF parse_complete(r) \/ k >= Len(data)
                             THEN Result(r, 0) ELSE Run(r, data, k)
<1> DEFINE line == LineStep(r, data, k)
           header == HeaderStep(line.req, data, k + line.parsed)
           body == BodyStep(header.req, data, k + line.parsed + header.parsed)
<1>1. CASE parse_complete(r) \/ k >= Len(data) BY <1>1 DEF parse
<1>2. CASE ~(parse_complete(r) \/ k >= Len(data))
  <2>1. parse(r, data, k) = Result(body.req, line.parsed + header.parsed + body.parsed)
    BY <1>2 DEF parse, LineStep, HeaderStep, BodyStep
  <2>2. Rest(line.req, data, k + line.parsed)
          = Result(body.req, header.parsed + body.parsed)
    BY DEF Rest
  <2>3. Run(r, data, k) = Result(body.req, line.parsed + (header.parsed + body.parsed))
    BY <2>2, ResultIs DEF Run
  <2>4. line.parsed \in Nat /\ header.parsed \in Nat /\ body.parsed \in Nat
    <3> HIDE DEF line, header, body
    <3>1. Good(line, data, k) BY StepsGood DEF line
    <3>2. k + line.parsed \in 0..Len(data) /\ line.req \in Requests /\ BodyCounted(line.req)
      BY <3>1, Behind
    <3>3. Good(header, data, k + line.parsed) BY <3>2, StepsGood DEF header
    <3>4. /\ (k + line.parsed) + header.parsed \in 0..Len(data)
          /\ header.req \in Requests /\ BodyCounted(header.req)
      BY <3>2, <3>3, Behind
    <3>5. Good(body, data, (k + line.parsed) + header.parsed) BY <3>4, StepsGood DEF body
    <3> QED BY <3>1, <3>3, <3>5 DEF Good
  <2> HIDE DEF line, header, body
  <2>5. line.parsed + header.parsed + body.parsed = line.parsed + (header.parsed + body.parsed)
    BY <2>4
  <2> QED BY <1>2, <2>1, <2>3, <2>5
<1> QED BY <1>1, <1>2

(* Whatever the data, the parser keeps its cursor within them, takes no more of
   a body than was announced, and never forgets a Content-Length. *)
THEOREM ParserStaysInData ==
  ASSUME NEW r \in Requests, BodyCounted(r), NEW data \in Seq(Cells), NEW k \in 0..Len(data)
  PROVE  /\ Good(parse(r, data, k), data, k)
         /\ r.content_length # -1 => parse(r, data, k).req.content_length # -1
<1>1. Len(data) \in Nat /\ k \in Nat BY LenProperties
<1>2. CASE parse_complete(r) \/ k >= Len(data)
  <2>1. parse(r, data, k) = Result(r, 0) BY <1>1, <1>2, ParseRuns
  <2> QED BY <2>1, NothingGood, ResultIs
<1>3. CASE ~(parse_complete(r) \/ k >= Len(data))
  <2>1. parse(r, data, k) = Run(r, data, k) BY <1>1, <1>3, ParseRuns
  <2> QED BY <2>1, RunGood
<1> QED BY <1>2, <1>3
-----------------------------------------------------------------------------
(* A beginning: d has the first n cells of e and no line ends behind them. *)

Cut(d, e, n) ==
    /\ n \in Nat /\ n <= Len(d) /\ n <= Len(e)
    /\ \A i \in 1..n : d[i] = e[i]
    /\ \A i \in (n + 1)..Len(d) : d[i] # CRLF

LEMMA EndsCut ==
  ASSUME NEW d \in Seq(Cells), NEW e \in Seq(Cells), NEW n, Cut(d, e, n), NEW k \in 0..n
  PROVE  Ends(d, k) = {x \in Ends(e, k) : x <= n}
<1>1. Len(d) \in Nat /\ Len(e) \in Nat BY LenProperties
<1>2. n \in Nat /\ n <= Len(d) /\ n <= Len(e) BY DEF Cut
<1>3. ASSUME NEW x \in Ends(d, k) PROVE x \in Ends(e, k) /\ x <= n
  <2>1. x \in (k + 1)..Len(d) /\ d[x] = CRLF BY <1>3 DEF Ends
  <2>2. x <= n BY <1>1, <1>2, <2>1 DEF Cut
  <2>3. x \in 1..n BY <1>1, <1>2, <2>1, <2>2
  <2>4. e[x] = CRLF BY <2>1, <2>3 DEF Cut
  <2>5. x \in (k + 1)..Len(e) BY <1>1, <1>2, <2>1, <2>2
  <2> QED BY <2>2, <2>4, <2>5 DEF Ends
<1>4. ASSUME NEW x \in Ends(e, k), x <= n PROVE x \in Ends(d, k)
  <2>1. x \in (k + 1)..Len(e) /\ e[x] = CRLF BY <1>4 DEF Ends
  <2>2. x \in 1..n /\ x \in (k + 1)..Len(d) BY <1>1, <1>2, <1>4, <2>1
  <2>3. d[x] = CRLF BY <2>1, <2>2 DEF Cut
  <2> QED BY <2>2, <2>3 DEF Ends
<1> QED BY <1>3, <1>4

LEMMA StartsCut ==
  ASSUME NEW d \in Seq(Cells), NEW e \in Seq(Cells), NEW n, Cut(d, e, n), NEW k \in 0..n
  PROVE  /\ Starts(d, k) = {s \in Starts(e, k) : \E x \in Ends(e, s - 1) : x <= n}
         /\ Starts(d, k) \in SUBSET (1..n)
<1>1. Len(d) \in Nat /\ Len(e) \in Nat BY LenProperties
<1>2. n \in Nat /\ n <= Len(d) /\ n <= Len(e) BY DEF Cut
<1>3. ASSUME NEW s \in Starts(d, k)
      PROVE  s \in Starts(e, k) /\ s \in 1..n /\ \E x \in Ends(e, s - 1) : x <= n
  <2>1. s \in (k + 1)..Len(d) /\ (s = k + 1 \/ d[s - 1] = CRLF) /\ Ends(d, s - 1) # {}
    BY <1>3 DEF Starts
  <2>2. PICK x \in s..Len(d) : d[x] = CRLF BY <1>1, <2>1 DEF Ends
  <2>3. x <= n BY <1>1, <1>2, <2>1, <2>2 DEF Cut
  <2>4. s \in 1..n /\ s - 1 \in 0..n BY <1>1, <1>2, <2>1, <2>2, <2>3
  <2>5. Ends(d, s - 1) = {y \in Ends(e, s - 1) : y <= n} BY <2>4, EndsCut
  <2>6. s = k + 1 \/ e[s - 1] = CRLF
    <3> SUFFICES ASSUME s # k + 1 PROVE e[s - 1] = CRLF OBVIOUS
    <3>1. s - 1 \in 1..n BY <1>1, <1>2, <2>1, <2>4
    <3> QED BY <2>1, <3>1 DEF Cut
  <2>7. s \in (k + 1)..Len(e) BY <1>1, <1>2, <2>1, <2>4
  <2> QED BY <2>1, <2>4, <2>5, <2>6, <2>7 DEF Starts
<1>4. ASSUME NEW s \in Starts(e, k), NEW x \in Ends(e, s - 1), x <= n
      PROVE  s \in Starts(d, k)
  <2>1. s \in (k + 1)..Len(e) /\ (s = k + 1 \/ e[s - 1] = CRLF) BY <1>4 DEF Starts
  <2>2. x \in ((s - 1) + 1)..Len(e) BY <1>4 DEF Ends
  <2>3. s \in 1..n /\ s - 1 \in 0..n /\ s \in (k + 1)..Len(d)
    BY <1>1, <1>2, <1>4, <2>1, <2>2
  <2>4. x \in Ends(d, s - 1) BY <1>4, <2>3, EndsCut
  <2>5. s = k + 1 \/ d[s - 1] = CRLF
    <3> SUFFICES ASSUME s # k + 1 PROVE d[s - 1] = CRLF OBVIOUS
    <3>1. s - 1 \in 1..n BY <1>1, <1>2, <2>1, <2>3
    <3> QED BY <2>1, <3>1 DEF Cut
  <2> QED BY <2>3, <2>4, <2>5 DEF Starts
<1> QED BY <1>3, <1>4

(* What headers mean does not depend on what follows. *)
LEMMA EmplaceCut ==
  ASSUME NEW r \in Requests, NEW d \in Seq(Cells), NEW e \in Seq(Cells),
         NEW n, Cut(d, e, n), NEW S \in SUBSET (1..n)
  PROVE  Emplace(r, d, S) = Emplace(r, e, S)
<1>1. Len(d) \in Nat /\ n \in Nat /\ n <= Len(d) BY LenProperties DEF Cut
<1>2. \A s \in S : d[s] = e[s] BY DEF Cut
<1>3. \A k : OfKind(d, S, k) = OfKind(e, S, k) BY <1>2 DEF OfKind
<1>4. \A k : OfKind(d, S, k) # {} => First(OfKind(d, S, k)) \in S
  <2> SUFFICES ASSUME NEW k, OfKind(d, S, k) # {} PROVE First(OfKind(d, S, k)) \in S
    OBVIOUS
  <2>1. S \in SUBSET (1..Len(d)) BY <1>1
  <2> QED BY <2>1, FirstOf
<1>5. ConnectionOf(r, d, S) = ConnectionOf(r, e, S) BY <1>2, <1>3, <1>4 DEF ConnectionOf
<1>6. LengthOf(r, d, S) = LengthOf(r, e, S) BY <1>2, <1>3, <1>4 DEF LengthOf
<1> QED BY <1>5, <1>6, EmplaceIs

(* Headers may be read in two goes. *)
LEMMA FirstOfUnion ==
  ASSUME NEW data \in Seq(Cells), NEW A \in SUBSET (1..Len(data)), NEW B \in SUBSET (1..Len(data)),
         \A a \in A, b \in B : a < b, NEW k
  PROVE  /\ OfKind(data, A \cup B, k) = OfKind(data, A, k) \cup OfKind(data, B, k)
         /\ OfKind(data, A, k) # {} =>
              First(OfKind(data, A \cup B, k)) = First(OfKind(data, A, k))
         /\ OfKind(data, A, k) = {} => OfKind(data, A \cup B, k) = OfKind(data, B, k)
<1>1. OfKind(data, A \cup B, k) = OfKind(data, A, k) \cup OfKind(data, B, k) BY DEF OfKind
<1>2. ASSUME OfKind(data, A, k) # {}
      PROVE  First(OfKind(data, A \cup B, k)) = First(OfKind(data, A, k))
  <2> DEFINE f == First(OfKind(data, A, k))
             K == OfKind(data, A \cup B, k)
  <2>1. f \in A /\ data[f].k = k /\ \A s \in A : data[s].k = k => f <= s
    BY <1>2, FirstOf
  <2> HIDE DEF f
  <2>2. f \in K BY <2>1 DEF OfKind
  <2>3. \A s \in K : (s \in A \/ s \in B) /\ data[s].k = k BY DEF OfKind
  <2>4. \A s \in B : f <= s
    <3>1. \A s \in B : f < s BY <2>1
    <3>2. Len(data) \in Nat BY LenProperties
    <3>3. f \in Nat /\ \A s \in B : s \in Nat BY <2>1, <3>2
    <3> QED BY <3>1, <3>3
  <2>5. \A s \in K : f <= s BY <2>1, <2>3, <2>4
  <2>6. K \in SUBSET Nat
    <3>1. Len(data) \in Nat BY LenProperties
    <3>2. K \subseteq A \cup B BY DEF OfKind
    <3> HIDE DEF K
    <3> QED BY <3>1, <3>2
  <2> HIDE DEF K
  <2>7. First(K) = f BY <2>2, <2>5, <2>6, FirstIs
  <2> QED BY <2>7 DEF K, f
<1> QED BY <1>1, <1>2

LEMMA EmplaceUnion ==
  ASSUME NEW r \in Requests, BodyCounted(r), NEW data \in Seq(Cells),
         NEW A \in SUBSET (1..Len(data)), NEW B \in SUBSET (1..Len(data)),
         \A a \in A, b \in B : a < b
  PROVE  Emplace(Emplace(r, data, A), data, B) = Emplace(r, data, A \cup B)
<1> DEFINE q == Emplace(r, data, A)
           cA == ConnectionOf(r, data, A)
           nA == LengthOf(r, data, A)
<1>1. q = Given(r, cA, nA) /\ q \in Requests BY EmplaceIs, EmplaceType
<1> HIDE DEF q, cA, nA
<1>2. q.connection = cA /\ q.content_length = nA BY <1>1, GivenIs
<1>3. Emplace(q, data, B) = Given(q, ConnectionOf(q, data, B), LengthOf(q, data, B))
  BY <1>1, EmplaceIs
<1>4. Emplace(q, data, B) = Given(r, ConnectionOf(q, data, B), LengthOf(q, data, B))
  BY <1>1, <1>3, GivenIs
<1>5. Emplace(r, data, A \cup B)
        = Given(r, ConnectionOf(r, data, A \cup B), LengthOf(r, data, A \cup B))
  BY EmplaceIs
<1>6. ConnectionOf(q, data, B) = ConnectionOf(r, data, A \cup B)
  <2> DEFINE C(S) == OfKind(data, S, "connection")
  <2>1. CASE r.connection # "none"
    <3>1. cA = r.connection BY <2>1 DEF ConnectionOf, cA
    <3> QED BY <1>2, <2>1, <3>1 DEF ConnectionOf
  <2>2. CASE r.connection = "none" /\ C(A) # {}
    <3>1. cA = data[First(C(A))].val BY <2>2 DEF ConnectionOf, cA
    <3>a. OfKind(data, A, "connection") # {} BY <2>2
    <3>2. data[First(C(A))].k = "connection" /\ data[First(C(A))] \in Cells
      BY <3>a, FirstOf, Zenon
    <3>3. cA # "none" BY <3>1, <3>2, CellFields
    <3>4. ConnectionOf(q, data, B) = cA BY <1>2, <3>3 DEF ConnectionOf
    <3>b. First(C(A \cup B)) = First(C(A)) BY <3>a, FirstOfUnion, Zenon
    <3>c. C(A \cup B) = C(A) \cup C(B) BY DEF OfKind
    <3>5. C(A \cup B) # {} /\ First(C(A \cup B)) = First(C(A)) BY <3>a, <3>b, <3>c
    <3>6. ConnectionOf(r, data, A \cup B) = data[First(C(A))].val
      BY <2>2, <3>5 DEF ConnectionOf
    <3> QED BY <3>1, <3>4, <3>6
  <2>3. CASE r.connection = "none" /\ C(A) = {}
    <3>1. cA = r.connection BY <2>3 DEF ConnectionOf, cA
    <3>2. C(A \cup B) = C(B) BY <2>3, FirstOfUnion
    <3> QED BY <1>2, <3>1, <3>2 DEF ConnectionOf
  <2> QED BY <2>1, <2>2, <2>3
<1>7. LengthOf(q, data, B) = LengthOf(r, data, A \cup B)
  <2> DEFINE L(S) == OfKind(data, S, "length")
  <2>1. CASE r.content_length # -1
    <3>1. nA = r.content_length BY <2>1 DEF LengthOf, nA
    <3> QED BY <1>2, <2>1, <3>1 DEF LengthOf
  <2>2. CASE r.content_length = -1 /\ L(A) # {}
    <3>1. nA = data[First(L(A))].val BY <2>2 DEF LengthOf, nA
    <3>a. OfKind(data, A, "length") # {} BY <2>2
    <3>2. data[First(L(A))].k = "length" /\ data[First(L(A))] \in Cells
      BY <3>a, FirstOf, Zenon
    <3>3. nA \in Nat BY <3>1, <3>2, CellFields
    <3>4. LengthOf(q, data, B) = nA BY <1>2, <3>3 DEF LengthOf
    <3>b. First(L(A \cup B)) = First(L(A)) BY <3>a, FirstOfUnion, Zenon
    <3>c. L(A \cup B) = L(A) \cup L(B) BY DEF OfKind
    <3>5. L(A \cup B) # {} /\ First(L(A \cup B)) = First(L(A)) BY <3>a, <3>b, <3>c
    <3>6. LengthOf(r, data, A \cup B) = data[First(L(A))].val
      BY <2>2, <3>5 DEF LengthOf
    <3> QED BY <3>1, <3>4, <3>6
  <2>3. CASE r.content_length = -1 /\ L(A) = {}
    <3>1. nA = r.content_length BY <2>3 DEF LengthOf, nA
    <3>2. L(A \cup B) = L(B) BY <2>3, FirstOfUnion
    <3> QED BY <1>2, <3>1, <3>2 DEF LengthOf
  <2> QED BY <2>1, <2>2, <2>3
<1> QED BY <1>4, <1>5, <1>6, <1>7 DEF q

LEMMA EmplaceNothing ==
  ASSUME NEW r \in Requests, NEW data
  PROVE  Emplace(r, data, {}) = r
<1>1. \A k : OfKind(data, {}, k) = {} BY DEF OfKind
<1>2. ConnectionOf(r, data, {}) = r.connection /\ LengthOf(r, data, {}) = r.content_length
  BY <1>1 DEF ConnectionOf, LengthOf
<1> QED BY <1>2, EmplaceIs, GivenIs
-----------------------------------------------------------------------------
(* Resuming: d is what has come of e, and the parser is at k in both. *)

Stops(data, k) == {s \in Starts(data, k) : ~IsHeader(data[s])}

(* What the headers in front of s give, and the stop at s. *)
StopAt(r, data, k, s) ==
    LET read == Emplace(r, data, {h \in Starts(data, k) : h < s})
    IN  IF data[s] = CRLF
        THEN Result([read EXCEPT !.state_ = "PARSE_BODY"], s - k)
        ELSE Result(set_bad_req(read), s - k - 1)

LEMMA HeaderIs ==
  ASSUME NEW r, NEW data, NEW k
  PROVE  /\ Stops(data, k) = {} =>
              parse_req_header(r, data, k) =
                Result(Emplace(r, data, Starts(data, k)),
                       IF Starts(data, k) = {} THEN 0 ELSE Last(Ends(data, k)) - k)
         /\ Stops(data, k) # {} =>
              parse_req_header(r, data, k) = StopAt(r, data, k, First(Stops(data, k)))
BY DEF parse_req_header, Stops, StopAt

LEMMA LineCut ==
  ASSUME NEW r \in Requests, NEW d \in Seq(Cells), NEW e \in Seq(Cells),
         NEW n, Cut(d, e, n), NEW k \in 0..n
  PROVE  /\ Ends(d, k) = {} => parse_req_line(r, d, k) = Result(r, 0)
         /\ Ends(d, k) # {} => /\ parse_req_line(r, d, k) = parse_req_line(r, e, k)
                              /\ k + parse_req_line(r, d, k).parsed \in 0..n
<1>1. Len(d) \in Nat /\ Len(e) \in Nat /\ k \in Nat /\ n \in Nat BY LenProperties DEF Cut
<1>2. Ends(d, k) = {} => parse_req_line(r, d, k) = Result(r, 0) BY DEF parse_req_line
<1>3. ASSUME Ends(d, k) # {}
      PROVE  /\ parse_req_line(r, d, k) = parse_req_line(r, e, k)
             /\ k + parse_req_line(r, d, k).parsed \in 0..n
  <2> DEFINE f == First(Ends(d, k))
  <2>1. Ends(d, k) = {x \in Ends(e, k) : x <= n} BY EndsCut
  <2>2. Ends(d, k) \in SUBSET Nat /\ Ends(e, k) \in SUBSET Nat BY <1>1, EndsAre
  <2>3. f \in Ends(d, k) /\ \A x \in Ends(d, k) : f <= x BY <1>3, <2>2, Least
  <2> HIDE DEF f
  <2>4. f \in Ends(e, k) /\ f <= n /\ f \in Nat BY <2>1, <2>2, <2>3
  <2>5. \A x \in Ends(e, k) : f <= x
    <3> SUFFICES ASSUME NEW x \in Ends(e, k) PROVE f <= x OBVIOUS
    <3>1. CASE x <= n BY <2>1, <2>3, <3>1
    <3>2. CASE ~(x <= n)
      <4>1. x \in Nat BY <2>2
      <4> QED BY <1>1, <2>4, <3>2, <4>1
    <3> QED BY <3>1, <3>2
  <2>6. First(Ends(e, k)) = f BY <2>2, <2>4, <2>5, FirstIs
  <2>7. First(Ends(d, k)) = f /\ Ends(e, k) # {} BY <2>4 DEF f
  <2>8. f \in (k + 1)..Len(d) BY <1>1, <2>3, EndsAre
  <2>9. f = k + 2 => d[k + 1] = e[k + 1]
    <3> SUFFICES ASSUME f = k + 2 PROVE d[k + 1] = e[k + 1] OBVIOUS
    <3>1. k + 1 \in 1..n BY <1>1, <2>4
    <3> QED BY <3>1 DEF Cut
  <2>10. parse_req_line(r, d, k) = parse_req_line(r, e, k)
    BY <1>3, <2>6, <2>7, <2>9 DEF parse_req_line
  <2>11. parse_req_line(r, d, k).parsed \in {0, 2}
         /\ (parse_req_line(r, d, k).parsed = 2 => f = k + 2)
    <3> DEFINE p == parse_req_line(r, d, k)
    <3>1. \/ p = Result(set_bad_req(r), 0)
          \/ /\ f = k + 2
             /\ p = Result([r EXCEPT !.method_ = d[k + 1].method,
                                     !.path_ = d[k + 1].uri,
                                     !.state_ = "PARSE_REQ_HEADER"], 2)
      BY <1>3, <2>7 DEF parse_req_line
    <3>2. p.parsed = 0 \/ (f = k + 2 /\ p.parsed = 2) BY <3>1 DEF Result
    <3> QED BY <3>2
  <2>12. CASE parse_req_line(r, d, k).parsed = 0 BY <1>1, <2>10, <2>12
  <2>13. CASE parse_req_line(r, d, k).parsed = 2
    <3>1. k + 2 <= n BY <2>4, <2>11, <2>13
    <3> QED BY <1>1, <2>10, <2>13, <3>1
  <2> QED BY <2>11, <2>12, <2>13
<1> QED BY <1>2, <1>3

(* A stop that has come is the stop. *)
LEMMA StopCut ==
  ASSUME NEW r \in Requests, NEW d \in Seq(Cells), NEW e \in Seq(Cells),
         NEW n, Cut(d, e, n), NEW k \in 0..n, Stops(d, k) # {}
  PROVE  /\ parse_req_header(r, d, k) = parse_req_header(r, e, k)
         /\ k + parse_req_header(r, d, k).parsed \in 0..n
<1> DEFINE s == First(Stops(d, k))
<1>1. Len(d) \in Nat /\ Len(e) \in Nat /\ k \in Nat /\ n \in Nat BY LenProperties DEF Cut
<1>2. /\ Starts(d, k) = {t \in Starts(e, k) : \E x \in Ends(e, t - 1) : x <= n}
      /\ Starts(d, k) \in SUBSET (1..n)
  BY StartsCut
<1>3. Starts(e, k) \in SUBSET ((k + 1)..Len(e)) /\ Starts(d, k) \in SUBSET ((k + 1)..Len(d))
  BY <1>1, EndsAre
<1>4. Stops(d, k) \in SUBSET Nat /\ Stops(e, k) \in SUBSET Nat BY <1>1, <1>3 DEF Stops
<1>5. s \in Stops(d, k) /\ \A t \in Stops(d, k) : s <= t BY <1>4, Least
<1> HIDE DEF s
<1>6. s \in Starts(d, k) /\ s \in 1..n /\ s \in Starts(e, k) /\ ~IsHeader(d[s])
      /\ s \in (k + 1)..Len(d)
  BY <1>2, <1>3, <1>5 DEF Stops
<1>7. \A i \in 1..n : d[i] = e[i] BY DEF Cut
<1>8. s \in Stops(e, k) BY <1>6, <1>7 DEF Stops
<1>9. ASSUME NEW t \in Starts(e, k), t <= s PROVE t \in Starts(d, k)
  <2>1. PICK x \in Ends(e, s - 1) : x <= n BY <1>2, <1>6
  <2>2. x \in ((s - 1) + 1)..Len(e) /\ e[x] = CRLF BY <2>1 DEF Ends
  <2>3. t \in (k + 1)..Len(e) BY <1>3
  <2>4. x \in ((t - 1) + 1)..Len(e) BY <1>1, <1>6, <1>9, <2>2, <2>3
  <2>5. x \in Ends(e, t - 1) BY <2>2, <2>4 DEF Ends
  <2> QED BY <1>2, <2>1, <2>5
<1>10. \A t \in Stops(e, k) : s <= t
  <2> SUFFICES ASSUME NEW t \in Stops(e, k), ~(s <= t) PROVE FALSE OBVIOUS
  <2>1. t \in Nat /\ s \in Nat /\ t \in Starts(e, k) /\ ~IsHeader(e[t])
    BY <1>4, <1>6 DEF Stops
  <2>2. t <= s BY <2>1
  <2>3. t \in Starts(d, k) /\ t \in 1..n BY <1>2, <1>9, <2>1, <2>2
  <2>4. t \in Stops(d, k) BY <1>7, <2>1, <2>3 DEF Stops
  <2> QED BY <1>5, <2>4
<1>11. First(Stops(e, k)) = s BY <1>4, <1>8, <1>10, FirstIs
<1> DEFINE hd == {h \in Starts(d, k) : h < s}
           he == {h \in Starts(e, k) : h < s}
<1>12. hd = he
  <2>1. hd \subseteq he BY <1>2
  <2>2. ASSUME NEW h \in he PROVE h \in hd
    <3>1. h \in Starts(e, k) /\ h < s OBVIOUS
    <3>2. h \in Nat /\ s \in Nat BY <1>1, <1>3, <1>6, <3>1
    <3>3. h <= s BY <3>1, <3>2
    <3> QED BY <1>9, <3>1, <3>3
  <2> QED BY <2>1, <2>2
<1>13. hd \in SUBSET (1..n) BY <1>2
<1>14. Emplace(r, d, hd) = Emplace(r, e, hd) BY <1>13, EmplaceCut
<1>15. d[s] = e[s] BY <1>6, <1>7
<1>16. StopAt(r, d, k, s) = StopAt(r, e, k, s) BY <1>12, <1>14, <1>15 DEF StopAt
<1>17. parse_req_header(r, d, k) = StopAt(r, d, k, s) BY HeaderIs DEF s
<1>18. parse_req_header(r, e, k) = StopAt(r, e, k, s) BY <1>8, <1>11, HeaderIs
<1>19. StopAt(r, d, k, s).parsed \in {s - k, s - k - 1} BY ResultIs DEF StopAt
<1> QED BY <1>1, <1>6, <1>16, <1>17, <1>18, <1>19
(* No stop yet: the complete headers are read, and reading goes on behind them. *)
LEMMA HeaderResumes ==
  ASSUME NEW r \in Requests, BodyCounted(r), NEW d \in Seq(Cells), NEW e \in Seq(Cells),
         NEW n, Cut(d, e, n), NEW k \in 0..n, Stops(d, k) = {}
  PROVE  LET p == parse_req_header(r, d, k)
             q == parse_req_header(p.req, e, k + p.parsed)
             w == parse_req_header(r, e, k)
         IN  /\ p.req = Emplace(r, d, Starts(d, k))
             /\ k + p.parsed \in 0..n
             /\ q.req = w.req
             /\ p.parsed + q.parsed = w.parsed
<1> DEFINE A == Starts(d, k)
           p == parse_req_header(r, d, k)
           j == k + p.parsed
           r1 == Emplace(r, d, A)
           q == parse_req_header(r1, e, j)
           w == parse_req_header(r, e, k)
<1>1. Len(d) \in Nat /\ Len(e) \in Nat /\ k \in Nat /\ n \in Nat /\ n <= Len(e) /\ n <= Len(d)
  BY LenProperties DEF Cut
<1>2. A = {t \in Starts(e, k) : \E x \in Ends(e, t - 1) : x <= n} /\ A \in SUBSET (1..n)
  BY StartsCut
<1>3. Ends(d, k) = {x \in Ends(e, k) : x <= n} BY EndsCut
<1>4. p.req = r1 /\ p.parsed = IF A = {} THEN 0 ELSE Last(Ends(d, k)) - k
  BY HeaderIs DEF Result
<1>5. k \in 0..Len(d) /\ k \in 0..Len(e) BY <1>1
<1>6. Good(w, e, k) /\ w.parsed \in Nat BY <1>5, HeaderGood DEF Good
<1>7. CASE A = {}
  <2>1. r1 = r BY <1>7, EmplaceNothing
  <2>2. p.parsed = 0 /\ j = k BY <1>1, <1>4, <1>7
  <2>3. q = w BY <2>1, <2>2
  <2> HIDE DEF p, q, w, j, r1, A
  <2>4. 0 + w.parsed = w.parsed BY <1>6
  <2> QED BY <1>1, <1>4, <2>2, <2>3, <2>4 DEF p, q, w, j, r1, A
<1>8. CASE A # {}
  <2> DEFINE B == Starts(e, j)
             all == Starts(e, k)
  <2>1. j = Last(Ends(d, k)) /\ j \in Ends(d, k) /\ \A x \in Ends(d, k) : x <= j
    <3>1. /\ Last(Ends(d, k)) \in Ends(d, k)
          /\ Last(Ends(d, k)) \in (k + 1)..Len(d)
          /\ \A x \in Ends(d, k) : x <= Last(Ends(d, k))
      BY <1>1, <1>8, EndsAre
    <3>2. p.parsed = Last(Ends(d, k)) - k BY <1>4, <1>8
    <3> HIDE DEF p
    <3>3. j = Last(Ends(d, k)) BY <1>1, <3>1, <3>2
    <3> QED BY <3>1, <3>3
  <2>2. p.parsed = j - k
    <3>1. p.parsed = Last(Ends(d, k)) - k BY <1>4, <1>8
    <3> HIDE DEF p, j
    <3> QED BY <2>1, <3>1
  <2> HIDE DEF j
  <2>3. j \in (k + 1)..n /\ j \in Ends(e, k) /\ e[j] = CRLF /\ j \in Nat
    <3>1. j \in Ends(e, k) /\ j <= n BY <1>3, <2>1
    <3>2. j \in (k + 1)..Len(e) /\ e[j] = CRLF BY <3>1 DEF Ends
    <3> QED BY <1>1, <3>1, <3>2
  <2>4. all \in SUBSET ((k + 1)..Len(e)) /\ all \in SUBSET (1..Len(e)) BY <1>1, EndsAre
  <2>5. B \in SUBSET ((j + 1)..Len(e)) BY <2>3, EndsAre
  <2>6. A = {s \in all : s <= j}
    <3>1. ASSUME NEW s \in all, s <= j PROVE s \in A
      <4>1. s \in (k + 1)..Len(e) BY <2>4
      <4>2. j \in ((s - 1) + 1)..Len(e) BY <1>1, <2>3, <3>1, <4>1
      <4>3. j \in Ends(e, s - 1) BY <2>3, <4>2 DEF Ends
      <4>4. j <= n BY <2>3
      <4> QED BY <1>2, <4>3, <4>4
    <3>2. ASSUME NEW s \in A PROVE s \in all /\ s <= j
      <4>1. s \in all /\ s \in (k + 1)..Len(e) BY <1>2, <2>4
      <4>2. PICK x \in Ends(e, s - 1) : x <= n BY <1>2
      <4>3. x \in ((s - 1) + 1)..Len(e) /\ e[x] = CRLF BY <4>2 DEF Ends
      <4>4. x \in (k + 1)..Len(e) BY <1>1, <4>1, <4>3
      <4>5. x \in Ends(d, k) BY <1>3, <4>2, <4>3, <4>4 DEF Ends
      <4>6. x <= j BY <2>1, <4>5
      <4> QED BY <1>1, <2>3, <4>1, <4>3, <4>6
    <3> QED BY <3>1, <3>2
  <2>7. B = {s \in all : s > j}
    <3>1. ASSUME NEW s \in B PROVE s \in all /\ s > j
      <4>1. s \in (j + 1)..Len(e) /\ (s = j + 1 \/ e[s - 1] = CRLF) /\ Ends(e, s - 1) # {}
        BY DEF Starts
      <4>2. s \in (k + 1)..Len(e) BY <1>1, <2>3, <4>1
      <4>3. e[s - 1] = CRLF BY <2>3, <4>1
      <4> QED BY <2>3, <4>1, <4>2, <4>3 DEF Starts
    <3>2. ASSUME NEW s \in all, s > j PROVE s \in B
      <4>1. s \in (k + 1)..Len(e) /\ (s = k + 1 \/ e[s - 1] = CRLF) /\ Ends(e, s - 1) # {}
        BY DEF Starts
      <4>2. s \in (j + 1)..Len(e) /\ s # k + 1 BY <1>1, <2>3, <3>2, <4>1
      <4> QED BY <4>1, <4>2 DEF Starts
    <3> QED BY <3>1, <3>2
  <2> HIDE DEF A, B, all
  <2>8. A \in SUBSET (1..Len(e)) /\ B \in SUBSET (1..Len(e)) BY <2>4, <2>6, <2>7
  <2>9. A \cup B = all
    <3>1. \A s \in all : s \in Nat BY <1>1, <2>4
    <3> QED BY <2>3, <2>6, <2>7, <3>1
  <2>10. r1 = Emplace(r, e, A) /\ r1 \in Requests /\ BodyCounted(r1)
    <3>1. A \in SUBSET (1..Len(d)) BY <1>1, <1>2
    <3> QED BY <1>2, <3>1, EmplaceCut, EmplaceType
  <2> HIDE DEF r1
  <2>11. ASSUME NEW T \in SUBSET B
         PROVE  Emplace(r1, e, T) = Emplace(r, e, A \cup T)
    <3>1. T \in SUBSET (1..Len(e)) BY <2>8
    <3>2. \A a \in A, b \in T : a < b
      <4> SUFFICES ASSUME NEW a \in A, NEW b \in T PROVE a < b OBVIOUS
      <4>1. a <= j /\ b > j /\ a \in Nat /\ b \in Nat BY <1>1, <2>4, <2>6, <2>7
      <4> QED BY <2>3, <4>1
    <3> QED BY <2>8, <2>10, <3>1, <3>2, EmplaceUnion
  <2>12. Stops(e, j) = Stops(e, k)
    <3>1. ASSUME NEW s \in Stops(e, k) PROVE s \in B
      <4>1. s \in all /\ ~IsHeader(e[s]) BY DEF Stops, all
      <4>2. s \notin A
        <5> SUFFICES ASSUME s \in A PROVE FALSE OBVIOUS
        <5>1. s \in 1..n BY <1>2
        <5>2. d[s] = e[s] BY <5>1 DEF Cut
        <5>3. s \in Stops(d, k) BY <4>1, <5>2 DEF Stops, A
        <5> QED BY <5>3
      <4> QED BY <2>9, <4>1, <4>2
    <3>2. Stops(e, k) = {s \in all : ~IsHeader(e[s])} BY DEF Stops, all
    <3>3. Stops(e, j) = {s \in B : ~IsHeader(e[s])} BY DEF Stops, B
    <3> QED BY <2>7, <3>1, <3>2, <3>3
  <2>13. q.req = w.req /\ (j - k) + q.parsed = w.parsed
    <3>1. CASE Stops(e, k) = {}
      <4>1. w = Result(Emplace(r, e, all), IF all = {} THEN 0 ELSE Last(Ends(e, k)) - k)
        BY <3>1, HeaderIs DEF all
      <4>2. q = Result(Emplace(r1, e, B), IF B = {} THEN 0 ELSE Last(Ends(e, j)) - j)
        BY <2>12, <3>1, HeaderIs DEF B
      <4>3. Emplace(r1, e, B) = Emplace(r, e, all) BY <2>9, <2>11
      <4>4. all # {} BY <1>8, <2>9
      <4>5. w.parsed = Last(Ends(e, k)) - k /\ w.req = Emplace(r, e, all)
        BY <4>1, <4>4, ResultIs
      <4>6. q.req = Emplace(r1, e, B) /\ q.parsed = IF B = {} THEN 0 ELSE Last(Ends(e, j)) - j
        BY <4>2, ResultIs
      <4>7. Ends(e, j) = {x \in Ends(e, k) : x > j}
        <5>1. ASSUME NEW x \in Ends(e, j) PROVE x \in Ends(e, k) /\ x > j
          <6>1. x \in (j + 1)..Len(e) /\ e[x] = CRLF BY DEF Ends
          <6>2. x \in (k + 1)..Len(e) BY <1>1, <2>3, <6>1
          <6> QED BY <2>3, <6>1, <6>2 DEF Ends
        <5>2. ASSUME NEW x \in Ends(e, k), x > j PROVE x \in Ends(e, j)
          <6>1. x \in (k + 1)..Len(e) /\ e[x] = CRLF BY DEF Ends
          <6>2. x \in (j + 1)..Len(e) BY <1>1, <2>3, <5>2, <6>1
          <6> QED BY <6>1, <6>2 DEF Ends
        <5> QED BY <5>1, <5>2
      <4>8. Ends(e, k) \in SUBSET (1..Len(e)) BY <1>1, EndsAre
      <4>9. CASE B = {}
        <5>1. Ends(e, j) = {} BY <2>3, <4>9, EndsAre DEF B
        <5>2. \A x \in Ends(e, k) : j >= x
          <6> SUFFICES ASSUME NEW x \in Ends(e, k) PROVE j >= x OBVIOUS
          <6>1. ~(x > j) BY <4>7, <5>1
          <6>2. x \in 1..Len(e) BY <4>8
          <6> QED BY <1>1, <2>3, <6>1, <6>2
        <5>3. Last(Ends(e, k)) = j BY <1>1, <2>3, <4>8, <5>2, LastIs
        <5> HIDE DEF q, w
        <5> QED BY <1>1, <2>3, <4>3, <4>5, <4>6, <4>9, <5>3
      <4>10. CASE B # {}
        <5> DEFINE m == Last(Ends(e, j))
        <5>1. Ends(e, j) # {} BY <2>3, <4>10, EndsAre DEF B
        <5>2. m \in Ends(e, j) /\ \A x \in Ends(e, j) : x <= m BY <2>3, <5>1, EndsAre
        <5> HIDE DEF m
        <5>3. m \in Ends(e, k) /\ m > j /\ m \in 1..Len(e) BY <4>7, <4>8, <5>2
        <5>4. \A x \in Ends(e, k) : m >= x
          <6> SUFFICES ASSUME NEW x \in Ends(e, k) PROVE m >= x OBVIOUS
          <6>1. x \in 1..Len(e) BY <4>8
          <6>2. CASE x > j BY <1>1, <4>7, <5>2, <5>3, <6>1, <6>2
          <6>3. CASE ~(x > j) BY <1>1, <2>3, <5>3, <6>1, <6>3
          <6> QED BY <6>2, <6>3
        <5>5. Last(Ends(e, k)) = m BY <1>1, <4>8, <5>3, <5>4, LastIs
        <5>6. q.parsed = m - j BY <4>6, <4>10 DEF m
        <5> HIDE DEF q, w
        <5> QED BY <1>1, <2>3, <4>3, <4>5, <4>6, <5>3, <5>5, <5>6
      <4> QED BY <4>9, <4>10
    <3>2. CASE Stops(e, k) # {}
      <4> DEFINE s == First(Stops(e, k))
      <4>1. s \in Stops(e, k) /\ s \in B
        <5>1. Stops(e, k) \in SUBSET Nat BY <1>1, <2>4 DEF Stops, all
        <5>2. s \in Stops(e, k) BY <3>2, <5>1, Least
        <5> HIDE DEF s
        <5> QED BY <2>12, <5>2 DEF Stops, B
      <4>2. w = StopAt(r, e, k, s) BY <3>2, HeaderIs
      <4>3. q = StopAt(r1, e, j, s) BY <2>12, <3>2, HeaderIs
      <4> HIDE DEF s
      <4> DEFINE T == {h \in B : h < s}
      <4>4. Emplace(r1, e, T) = Emplace(r, e, A \cup T)
        <5>1. T \in SUBSET B OBVIOUS
        <5> HIDE DEF T
        <5> QED BY <2>11, <5>1
      <4>5. s > j /\ s \in Nat BY <1>1, <2>4, <2>7, <4>1
      <4>6. {h \in all : h < s} = A \cup T
        <5>1. ASSUME NEW h \in A PROVE h < s
          <6>1. h <= j /\ h \in Nat BY <1>1, <2>4, <2>6
          <6> QED BY <2>3, <4>5, <6>1
        <5> QED BY <2>9, <5>1
      <4>7. Emplace(r1, e, T) = Emplace(r, e, {h \in all : h < s}) BY <4>4, <4>6
      <4> DEFINE read == Emplace(r1, e, T)
      <4>8. q = IF e[s] = CRLF
                THEN Result([read EXCEPT !.state_ = "PARSE_BODY"], s - j)
                ELSE Result(set_bad_req(read), s - j - 1)
        BY <4>3 DEF StopAt, B
      <4>9. w = IF e[s] = CRLF
                THEN Result([read EXCEPT !.state_ = "PARSE_BODY"], s - k)
                ELSE Result(set_bad_req(read), s - k - 1)
        BY <4>2, <4>7 DEF StopAt, all
      <4> HIDE DEF read, q, w
      <4>10. q.req = w.req BY <4>8, <4>9, ResultIs
      <4>11. CASE e[s] = CRLF
        <5>1. q.parsed = s - j /\ w.parsed = s - k BY <4>8, <4>9, <4>11, ResultIs
        <5> QED BY <1>1, <2>3, <4>5, <4>10, <5>1
      <4>12. CASE e[s] # CRLF
        <5>1. q.parsed = s - j - 1 /\ w.parsed = s - k - 1 BY <4>8, <4>9, <4>12, ResultIs
        <5> QED BY <1>1, <2>3, <4>5, <4>10, <5>1
      <4> QED BY <4>11, <4>12
    <3> QED BY <3>1, <3>2
  <2>14. p.req = r1 /\ j \in 0..n BY <1>1, <1>4, <2>3
  <2>15. q = parse_req_header(p.req, e, k + p.parsed) BY <2>14 DEF j
  <2>16. k + p.parsed \in 0..n BY <2>14 DEF j
  <2>17. p.req = Emplace(r, d, Starts(d, k)) BY <2>14 DEF r1, A
  <2>18. p.parsed + q.parsed = w.parsed BY <2>2, <2>13
  <2> QED BY <2>13, <2>15, <2>16, <2>17, <2>18
<1> QED BY <1>7, <1>8
(* Without a Content-Length the body step takes nothing and ends the parse. *)
LEMMA BodylessStep ==
  ASSUME NEW r \in Requests, r.state_ = "PARSE_BODY", r.content_length = -1,
         NEW d, NEW e, NEW k, NEW m
  PROVE  /\ BodyStep(r, d, k) = BodyStep(r, e, m)
         /\ BodyStep(r, d, k).parsed = 0
         /\ parse_complete(BodyStep(r, d, k).req)
<1>1. CASE r.method_ \in {"GET", "POST"}
  <2>1. \A data, i : parse_req_body(r, data, i) = Result([r EXCEPT !.state_ = "PARSE_SUCCESS"], 0)
    BY <1>1 DEF parse_req_body
  <2>2. [r EXCEPT !.state_ = "PARSE_SUCCESS"].state_ = "PARSE_SUCCESS" BY DEF Requests
  <2> DEFINE x == Result([r EXCEPT !.state_ = "PARSE_SUCCESS"], 0)
  <2>3. BodyStep(r, d, k) = x /\ BodyStep(r, e, m) = x BY <2>1 DEF BodyStep
  <2>4. x.req = [r EXCEPT !.state_ = "PARSE_SUCCESS"] /\ x.parsed = 0 BY ResultIs
  <2>5. parse_complete(x.req) BY <2>2, <2>4 DEF parse_complete
  <2> HIDE DEF x
  <2> QED BY <2>3, <2>4, <2>5
<1>2. CASE r.method_ \notin {"GET", "POST"}
  <2>1. \A data, i : parse_req_body(r, data, i) = Result(set_bad_req(r), 0)
    BY <1>2 DEF parse_req_body
  <2>2. set_bad_req(r).state_ = "PARSE_SUCCESS" BY DEF set_bad_req, Requests
  <2> DEFINE x == Result(set_bad_req(r), 0)
  <2>3. BodyStep(r, d, k) = x /\ BodyStep(r, e, m) = x BY <2>1 DEF BodyStep
  <2>4. x.req = set_bad_req(r) /\ x.parsed = 0 BY ResultIs
  <2>5. parse_complete(x.req) BY <2>2, <2>4 DEF parse_complete
  <2> HIDE DEF x
  <2> QED BY <2>3, <2>4, <2>5
<1> QED BY <1>1, <1>2

(* Between two calls the parser waits for a line or for a header, unless it
   waits for the rest of a body that was announced. *)
Waits(r) == r.state_ \in {"PARSE_REQ_LINE", "PARSE_REQ_HEADER"}

LEMMA RestResumes ==
  ASSUME NEW r \in Requests, BodyCounted(r), r.state_ = "PARSE_REQ_HEADER",
         NEW d \in Seq(Cells), NEW e \in Seq(Cells), NEW n, Cut(d, e, n), NEW k \in 0..n,
         Rest(r, d, k).req.content_length = -1
  PROVE  LET p == Rest(r, d, k)
             w == Rest(r, e, k)
         IN  /\ k + p.parsed \in 0..n
             /\ parse_complete(p.req) => p = w
             /\ ~parse_complete(p.req) =>
                   /\ p.req.state_ = "PARSE_REQ_HEADER"
                   /\ Rest(p.req, e, k + p.parsed).req = w.req
                   /\ p.parsed + Rest(p.req, e, k + p.parsed).parsed = w.parsed
<1> DEFINE p == Rest(r, d, k)
           w == Rest(r, e, k)
           hd == parse_req_header(r, d, k)
           he == parse_req_header(r, e, k)
           bd == BodyStep(hd.req, d, k + hd.parsed)
           be == BodyStep(he.req, e, k + he.parsed)
<1>1. /\ Len(d) \in Nat /\ Len(e) \in Nat /\ n \in Nat /\ k \in Nat
      /\ k \in 0..Len(d) /\ k \in 0..Len(e) /\ n <= Len(e) /\ n <= Len(d)
  BY LenProperties DEF Cut
<1>2. HeaderStep(r, d, k) = hd /\ HeaderStep(r, e, k) = he BY DEF HeaderStep
<1>3. p = Result(bd.req, hd.parsed + bd.parsed) /\ w = Result(be.req, he.parsed + be.parsed)
  BY <1>2 DEF Rest
<1>4. Good(hd, d, k) /\ Good(he, e, k) BY <1>1, HeaderGood
<1> HIDE DEF hd, he
<1>5. /\ hd.req \in Requests /\ BodyCounted(hd.req) /\ k + hd.parsed \in 0..Len(d)
      /\ he.req \in Requests /\ BodyCounted(he.req) /\ k + he.parsed \in 0..Len(e)
      /\ hd.parsed \in Nat /\ he.parsed \in Nat
  BY <1>1, <1>4, Behind DEF Good
<1>6. /\ Good(bd, d, k + hd.parsed) /\ Good(be, e, k + he.parsed)
      /\ hd.req.content_length # -1 => bd.req.content_length # -1
  BY <1>5, StepsGood
<1>7. p.req = bd.req /\ p.parsed = hd.parsed + bd.parsed
      /\ w.req = be.req /\ w.parsed = he.parsed + be.parsed
  BY <1>3, ResultIs
<1>8. hd.req.content_length = -1 BY <1>6, <1>7
<1>9. CASE Stops(d, k) # {}
  <2>1. hd = he /\ k + hd.parsed \in 0..n BY <1>9, StopCut DEF hd, he
  <2>2. CASE hd.req.state_ = "PARSE_BODY"
    <3>1. bd = be /\ bd.parsed = 0 /\ parse_complete(bd.req)
      BY <1>5, <1>8, <2>1, <2>2, BodylessStep
    <3> HIDE DEF bd, be, p, w
    <3>2. p = w /\ parse_complete(p.req) BY <1>3, <1>7, <2>1, <3>1
    <3>3. k + p.parsed \in 0..n BY <1>5, <1>7, <2>1, <3>1
    <3> QED BY <3>2, <3>3 DEF p, w
  <2>3. CASE hd.req.state_ # "PARSE_BODY"
    <3>1. bd = Result(hd.req, 0) /\ be = Result(hd.req, 0) BY <2>1, <2>3 DEF BodyStep
    <3>2. hd.req.state_ = "PARSE_SUCCESS"
      <4> DEFINE s == First(Stops(d, k))
                 read == Emplace(r, d, {h \in Starts(d, k) : h < s})
      <4>1. hd = IF d[s] = CRLF
                 THEN Result([read EXCEPT !.state_ = "PARSE_BODY"], s - k)
                 ELSE Result(set_bad_req(read), s - k - 1)
        <5>1. hd = StopAt(r, d, k, First(Stops(d, k))) BY <1>9, HeaderIs DEF hd
        <5> QED BY <5>1 DEF StopAt
      <4>2. read \in Requests
        <5>1. {h \in Starts(d, k) : h < s} \in SUBSET (1..Len(d)) BY <1>1, EndsAre
        <5> QED BY <5>1, EmplaceType
      <4> HIDE DEF read, s
      <4>3. [read EXCEPT !.state_ = "PARSE_BODY"].state_ = "PARSE_BODY"
            /\ set_bad_req(read).state_ = "PARSE_SUCCESS"
        BY <4>2 DEF Requests, set_bad_req
      <4>4. hd.req = [read EXCEPT !.state_ = "PARSE_BODY"] \/ hd.req = set_bad_req(read)
        BY <4>1, ResultIs
      <4> QED BY <2>3, <4>3, <4>4
    <3>3. bd = be /\ bd.req = hd.req /\ bd.parsed = 0 BY <3>1, ResultIs
    <3> HIDE DEF bd, be, p, w
    <3>4. p = w /\ parse_complete(p.req) BY <1>3, <1>7, <2>1, <3>2, <3>3 DEF parse_complete
    <3>5. k + p.parsed \in 0..n BY <1>5, <1>7, <2>1, <3>3
    <3> QED BY <3>4, <3>5 DEF p, w
  <2> QED BY <2>2, <2>3
<1>10. CASE Stops(d, k) = {}
  <2> DEFINE hq == parse_req_header(hd.req, e, k + hd.parsed)
             bq == BodyStep(hq.req, e, (k + hd.parsed) + hq.parsed)
  <2>1. /\ hd.req = Emplace(r, d, Starts(d, k))
        /\ k + hd.parsed \in 0..n
        /\ hq.req = he.req
        /\ hd.parsed + hq.parsed = he.parsed
    BY <1>10, HeaderResumes DEF hd, he
  <2>2. hd.req.state_ = "PARSE_REQ_HEADER"
    <3>1. Starts(d, k) \in SUBSET (1..Len(d)) BY <1>1, StartsCut
    <3> QED BY <2>1, <3>1, EmplaceType
  <2>3. bd = Result(hd.req, 0) BY <2>2 DEF BodyStep
  <2>4. bd.req = hd.req /\ bd.parsed = 0 BY <2>3, ResultIs
  <2>5. p.req = hd.req /\ p.parsed = hd.parsed
    <3> HIDE DEF bd, p
    <3> QED BY <1>5, <1>7, <2>4
  <2>6. Rest(hd.req, e, k + hd.parsed) = Result(bq.req, hq.parsed + bq.parsed)
    BY <2>2 DEF Rest, HeaderStep
  <2>7. k + hd.parsed \in 0..Len(e) BY <1>1, <2>1
  <2>8. Good(hq, e, k + hd.parsed) BY <1>5, <2>7, HeaderGood
  <2>9. hq.parsed \in Nat BY <2>8 DEF Good
  <2> HIDE DEF hq
  <2>10. (k + hd.parsed) + hq.parsed = k + he.parsed BY <1>1, <1>5, <2>1, <2>9
  <2>11. bq = be BY <2>1, <2>10
  <2>12. be.parsed \in Nat BY <1>6 DEF Good
  <2>13. Rest(hd.req, e, k + hd.parsed).req = be.req
         /\ Rest(hd.req, e, k + hd.parsed).parsed = hq.parsed + be.parsed
    BY <2>6, <2>11, ResultIs
  <2>14. ~parse_complete(hd.req) BY <2>2 DEF parse_complete
  <2> HIDE DEF bd, be, bq, p, w
  <2>15. hd.parsed + (hq.parsed + be.parsed) = he.parsed + be.parsed
    BY <1>5, <2>1, <2>9, <2>12
  <2>16. /\ p.req.state_ = "PARSE_REQ_HEADER" /\ ~parse_complete(p.req)
         /\ Rest(p.req, e, k + p.parsed).req = w.req
         /\ p.parsed + Rest(p.req, e, k + p.parsed).parsed = w.parsed
         /\ k + p.parsed \in 0..n
    BY <1>7, <2>1, <2>2, <2>5, <2>13, <2>14, <2>15
  <2> QED BY <2>16 DEF p, w
<1> QED BY <1>9, <1>10
LEMMA RestStill ==
  ASSUME NEW r, NEW data, NEW k, r.state_ \notin {"PARSE_REQ_HEADER", "PARSE_BODY"}
  PROVE  Rest(r, data, k) = Result(r, 0)
<1>1. HeaderStep(r, data, k) = Result(r, 0) BY DEF HeaderStep
<1>2. HeaderStep(r, data, k).req = r /\ HeaderStep(r, data, k).parsed = 0 BY <1>1, ResultIs
<1>3. BodyStep(r, data, k + 0) = Result(r, 0) BY DEF BodyStep
<1>4. BodyStep(r, data, k + 0).req = r /\ BodyStep(r, data, k + 0).parsed = 0 BY <1>3, ResultIs
<1>5. Rest(r, data, k) = Result(r, 0 + 0) BY <1>2, <1>4 DEF Rest
<1> QED BY <1>5

LEMMA LineState ==
  ASSUME NEW r \in Requests, NEW data, NEW k, Ends(data, k) # {}
  PROVE  \/ parse_req_line(r, data, k).req.state_ = "PARSE_SUCCESS"
         \/ parse_req_line(r, data, k).req.state_ = "PARSE_REQ_HEADER"
<1> DEFINE h == [r EXCEPT !.method_ = data[k + 1].method,
                          !.path_ = data[k + 1].uri,
                          !.state_ = "PARSE_REQ_HEADER"]
<1>1. \/ parse_req_line(r, data, k) = Result(set_bad_req(r), 0)
      \/ parse_req_line(r, data, k) = Result(h, 2)
  BY DEF parse_req_line
<1>2. h.state_ = "PARSE_REQ_HEADER" BY DEF Requests
<1>3. set_bad_req(r).state_ = "PARSE_SUCCESS" BY DEF set_bad_req, Requests
<1> HIDE DEF h
<1>4. \/ parse_req_line(r, data, k).req = set_bad_req(r)
      \/ parse_req_line(r, data, k).req = h
  BY <1>1, ResultIs
<1> QED BY <1>2, <1>3, <1>4

(* A run that starts at a header. *)
LEMMA RunFromHeader ==
  ASSUME NEW r \in Requests, BodyCounted(r), r.state_ = "PARSE_REQ_HEADER",
         NEW data \in Seq(Cells), NEW k \in 0..Len(data)
  PROVE  Run(r, data, k) = Rest(r, data, k)
<1>1. Len(data) \in Nat /\ k \in Nat BY LenProperties
<1>2. LineStep(r, data, k) = Result(r, 0) BY DEF LineStep
<1>3. LineStep(r, data, k).req = r /\ LineStep(r, data, k).parsed = 0 BY <1>2, ResultIs
<1>4. k + 0 = k BY <1>1
<1>5. Run(r, data, k) = Result(Rest(r, data, k).req, 0 + Rest(r, data, k).parsed)
  BY <1>3, <1>4 DEF Run
<1>6. Rest(r, data, k).parsed \in Nat BY RestGood DEF Good
<1>7. 0 + Rest(r, data, k).parsed = Rest(r, data, k).parsed BY <1>6
<1>8. Rest(r, data, k) = Result(Rest(r, data, k).req, Rest(r, data, k).parsed)
  BY ResultIs DEF Rest
<1> QED BY <1>5, <1>7, <1>8

LEMMA RunResumes ==
  ASSUME NEW r \in Requests, BodyCounted(r), Waits(r),
         NEW d \in Seq(Cells), NEW e \in Seq(Cells), NEW n, Cut(d, e, n), NEW k \in 0..n,
         Run(r, d, k).req.content_length = -1
  PROVE  LET p == Run(r, d, k)
             w == Run(r, e, k)
         IN  /\ k + p.parsed \in 0..n
             /\ parse_complete(p.req) => p = w
             /\ ~parse_complete(p.req) =>
                   /\ Waits(p.req)
                   /\ Run(p.req, e, k + p.parsed).req = w.req
                   /\ p.parsed + Run(p.req, e, k + p.parsed).parsed = w.parsed
<1> DEFINE p == Run(r, d, k)
           w == Run(r, e, k)
<1>1. /\ Len(d) \in Nat /\ Len(e) \in Nat /\ n \in Nat /\ k \in Nat
      /\ k \in 0..Len(d) /\ k \in 0..Len(e) /\ n <= Len(e) /\ n <= Len(d)
  BY LenProperties DEF Cut
<1>2. CASE r.state_ = "PARSE_REQ_HEADER"
  <2>1. p = Rest(r, d, k) /\ w = Rest(r, e, k) BY <1>1, <1>2, RunFromHeader
  <2> HIDE DEF p, w
  <2>2. p.req.content_length = -1 BY DEF p
  <2>3. /\ k + p.parsed \in 0..n
        /\ parse_complete(p.req) => p = w
        /\ ~parse_complete(p.req) =>
              /\ p.req.state_ = "PARSE_REQ_HEADER"
              /\ Rest(p.req, e, k + p.parsed).req = w.req
              /\ p.parsed + Rest(p.req, e, k + p.parsed).parsed = w.parsed
    BY <1>2, <2>1, <2>2, RestResumes
  <2>4. p.req \in Requests /\ BodyCounted(p.req) BY <1>1, <2>1, RestGood DEF Good
  <2>5. k + p.parsed \in 0..Len(e) BY <1>1, <2>3
  <2>6. ~parse_complete(p.req) =>
          /\ Waits(p.req)
          /\ Run(p.req, e, k + p.parsed) = Rest(p.req, e, k + p.parsed)
    BY <2>3, <2>4, <2>5, RunFromHeader DEF Waits
  <2>7. /\ k + p.parsed \in 0..n
        /\ parse_complete(p.req) => p = w
        /\ ~parse_complete(p.req) =>
              /\ Waits(p.req)
              /\ Run(p.req, e, k + p.parsed).req = w.req
              /\ p.parsed + Run(p.req, e, k + p.parsed).parsed = w.parsed
    BY <2>3, <2>6
  <2> QED BY <2>7 DEF p, w
<1>3. CASE r.state_ = "PARSE_REQ_LINE" /\ Ends(d, k) = {}
  <2>1. LineStep(r, d, k) = Result(r, 0) BY <1>3, LineCut DEF LineStep
  <2>2. LineStep(r, d, k).req = r /\ LineStep(r, d, k).parsed = 0 BY <2>1, ResultIs
  <2>3. Rest(r, d, k + 0) = Result(r, 0) BY <1>3, RestStill
  <2>4. p = Result(r, 0 + 0) BY <2>2, <2>3, ResultIs DEF Run
  <2>5. p.req = r /\ p.parsed = 0 BY <2>4, ResultIs
  <2> HIDE DEF p
  <2>6. k + p.parsed = k BY <1>1, <2>5
  <2>7. Run(p.req, e, k + p.parsed) = w BY <2>5, <2>6
  <2>8. w.parsed \in Nat BY <1>1, RunGood DEF Good
  <2>9. ~parse_complete(p.req) /\ Waits(p.req) BY <1>3, <2>5 DEF parse_complete, Waits
  <2> HIDE DEF w
  <2>10. p.parsed + w.parsed = w.parsed BY <2>5, <2>8
  <2>11. /\ k + p.parsed \in 0..n
         /\ parse_complete(p.req) => p = w
         /\ ~parse_complete(p.req) =>
               /\ Waits(p.req)
               /\ Run(p.req, e, k + p.parsed).req = w.req
               /\ p.parsed + Run(p.req, e, k + p.parsed).parsed = w.parsed
    BY <1>1, <2>6, <2>7, <2>9, <2>10
  <2> QED BY <2>11 DEF p, w
<1>4. CASE r.state_ = "PARSE_REQ_LINE" /\ Ends(d, k) # {}
  <2> DEFINE l == parse_req_line(r, d, k)
             j == k + l.parsed
             rd == Rest(l.req, d, j)
             re == Rest(l.req, e, j)
  <2>1. l = parse_req_line(r, e, k) /\ j \in 0..n BY <1>4, LineCut
  <2>2. LineStep(r, d, k) = l /\ LineStep(r, e, k) = l BY <1>4, <2>1 DEF LineStep
  <2>3. p = Result(rd.req, l.parsed + rd.parsed) /\ w = Result(re.req, l.parsed + re.parsed)
    BY <2>2 DEF Run
  <2>4. l.req.state_ = "PARSE_SUCCESS" \/ l.req.state_ = "PARSE_REQ_HEADER"
    BY <1>4, LineState
  <2>5. Good(l, d, k) BY <1>1, LineGood
  <2> HIDE DEF l
  <2>6. l.req \in Requests /\ BodyCounted(l.req) /\ l.parsed \in Nat BY <2>5 DEF Good
  <2>7. CASE l.req.state_ = "PARSE_SUCCESS"
    <3>1. rd = Result(l.req, 0) /\ re = Result(l.req, 0) BY <2>7, RestStill
    <3>2. p = w BY <2>3, <3>1
    <3>3. p.req = l.req /\ p.parsed = l.parsed + 0 BY <2>3, <3>1, ResultIs
    <3> HIDE DEF p, w
    <3>4. k + p.parsed \in 0..n /\ parse_complete(p.req)
      BY <2>1, <2>6, <2>7, <3>3 DEF parse_complete
    <3> QED BY <3>2, <3>4 DEF p, w
  <2>8. CASE l.req.state_ = "PARSE_REQ_HEADER"
    <3>1. /\ p.req = rd.req /\ p.parsed = l.parsed + rd.parsed
          /\ w.req = re.req /\ w.parsed = l.parsed + re.parsed
      BY <2>3, ResultIs
    <3>2. rd.req.content_length = -1 BY <3>1
    <3>3. j \in 0..Len(d) /\ j \in 0..Len(e) BY <1>1, <2>1
    <3>4. Good(rd, d, j) /\ Good(re, e, j) BY <2>6, <3>3, RestGood
    <3>j. j = k + l.parsed OBVIOUS
    <3> DEFINE q == Rest(rd.req, e, j + rd.parsed)
    <3>5. /\ j + rd.parsed \in 0..n
          /\ parse_complete(rd.req) => rd = re
          /\ ~parse_complete(rd.req) =>
                /\ rd.req.state_ = "PARSE_REQ_HEADER"
                /\ q.req = re.req
                /\ rd.parsed + q.parsed = re.parsed
      BY <2>1, <2>6, <2>8, <3>2, RestResumes
    <3>6. rd.req \in Requests /\ BodyCounted(rd.req) /\ rd.parsed \in Nat /\ re.parsed \in Nat
      BY <3>4 DEF Good
    <3> HIDE DEF rd, re
    <3>7. j + rd.parsed \in 0..Len(e) BY <1>1, <3>5
    <3>8. q.parsed \in Nat BY <3>6, <3>7, RestGood DEF Good
    <3>9. rd.req.state_ = "PARSE_REQ_HEADER" => Run(rd.req, e, j + rd.parsed) = q
      BY <3>6, <3>7, RunFromHeader
    <3> HIDE DEF j, q
    <3>10. k + (l.parsed + rd.parsed) = j + rd.parsed BY <1>1, <2>6, <3>6, <3>j
    <3>11. CASE parse_complete(rd.req)
      <4>1. p = w BY <2>3, <3>5, <3>11
      <4> HIDE DEF p, w
      <4>2. parse_complete(p.req) /\ k + p.parsed \in 0..n BY <3>1, <3>5, <3>10, <3>11
      <4> QED BY <4>1, <4>2 DEF p, w
    <3>12. CASE ~parse_complete(rd.req)
      <4> HIDE DEF p, w
      <4>1. q.req = re.req /\ rd.parsed + q.parsed = re.parsed
            /\ rd.req.state_ = "PARSE_REQ_HEADER"
        BY <3>5, <3>12
      <4>2. k + p.parsed = j + rd.parsed BY <3>1, <3>10
      <4>3. Run(p.req, e, k + p.parsed) = q BY <3>1, <3>9, <4>1, <4>2
      <4>4. (l.parsed + rd.parsed) + q.parsed = l.parsed + re.parsed
        BY <2>6, <3>6, <3>8, <4>1
      <4>5. p.parsed + q.parsed = w.parsed BY <3>1, <4>4
      <4>6. Waits(p.req) /\ ~parse_complete(p.req) BY <3>1, <3>12, <4>1 DEF Waits
      <4>7. Run(p.req, e, k + p.parsed).req = w.req
            /\ p.parsed + Run(p.req, e, k + p.parsed).parsed = w.parsed
            /\ k + p.parsed \in 0..n
        BY <3>1, <3>5, <4>1, <4>2, <4>3, <4>5
      <4> QED BY <4>6, <4>7 DEF p, w
    <3> QED BY <3>11, <3>12
  <2> QED BY <2>4, <2>7, <2>8
<1> QED BY <1>2, <1>3, <1>4 DEF Waits
(* Where parse returns at once there is nothing to run through. *)
LEMMA ParseIsRun ==
  ASSUME NEW r \in Requests, BodyCounted(r), Waits(r),
         NEW data \in Seq(Cells), NEW k \in 0..Len(data)
  PROVE  parse(r, data, k) = Run(r, data, k)
<1>1. Len(data) \in Nat /\ k \in Nat BY LenProperties
<1>2. ~parse_complete(r) BY DEF Waits, parse_complete
<1>3. CASE k < Len(data)
  <2>1. ~(k >= Len(data)) BY <1>1, <1>3
  <2> QED BY <1>2, <2>1, ParseRuns
<1>4. CASE ~(k < Len(data))
  <2>1. k >= Len(data) /\ k = Len(data) BY <1>1, <1>4
  <2>2. parse(r, data, k) = Result(r, 0) BY <2>1, ParseRuns
  <2>3. Ends(data, k) = {} BY <1>1, <2>1, EndsAre
  <2>4. Starts(data, k) = {} BY <1>1, <2>1, EndsAre
  <2>5. Stops(data, k) = {} BY <2>4 DEF Stops
  <2>6. CASE r.state_ = "PARSE_REQ_HEADER"
    <3>0. Emplace(r, data, Starts(data, k)) = r BY <2>4, EmplaceNothing
    <3>1. parse_req_header(r, data, k) = Result(r, 0) BY <2>4, <2>5, <3>0, HeaderIs
    <3>2. HeaderStep(r, data, k).req = r /\ HeaderStep(r, data, k).parsed = 0
      BY <2>6, <3>1, ResultIs DEF HeaderStep
    <3>3. BodyStep(r, data, k + 0) = Result(r, 0) BY <2>6 DEF BodyStep
    <3>4. BodyStep(r, data, k + 0).req = r /\ BodyStep(r, data, k + 0).parsed = 0
      BY <3>3, ResultIs
    <3>5. Rest(r, data, k) = Result(r, 0 + 0) BY <3>2, <3>4 DEF Rest
    <3> QED BY <2>2, <2>6, <3>5, RunFromHeader
  <2>7. CASE r.state_ = "PARSE_REQ_LINE"
    <3>1. parse_req_line(r, data, k) = Result(r, 0) BY <2>3 DEF parse_req_line
    <3>2. LineStep(r, data, k).req = r /\ LineStep(r, data, k).parsed = 0
      BY <2>7, <3>1, ResultIs DEF LineStep
    <3>3. Rest(r, data, k + 0) = Result(r, 0) BY <2>7, RestStill
    <3>4. Run(r, data, k) = Result(r, 0 + 0) BY <3>2, <3>3, ResultIs DEF Run
    <3> QED BY <2>2, <3>4
  <2> QED BY <2>6, <2>7 DEF Waits
<1> QED BY <1>3, <1>4

(* A request without a body may come in any pieces.  d is what the buffer held
   when the first n cells of e had come.  If that ended the parse, it was the
   parse of e; if it did not, the parser waits for a line or a header and a
   parse of e from there gives the request, and in all the length, that one
   parse of e from the start gives. *)
THEOREM ParseResumes ==
  ASSUME NEW r \in Requests, BodyCounted(r), Waits(r),
         NEW d \in Seq(Cells), NEW e \in Seq(Cells), NEW n, Cut(d, e, n), NEW k \in 0..n,
         parse(r, d, k).req.content_length = -1
  PROVE  LET p == parse(r, d, k)
             w == parse(r, e, k)
         IN  /\ k + p.parsed \in 0..n
             /\ parse_complete(p.req) => p = w
             /\ ~parse_complete(p.req) =>
                   /\ Waits(p.req)
                   /\ parse(p.req, e, k + p.parsed).req = w.req
                   /\ p.parsed + parse(p.req, e, k + p.parsed).parsed = w.parsed
<1> DEFINE p == parse(r, d, k)
           w == parse(r, e, k)
<1>1. /\ Len(d) \in Nat /\ Len(e) \in Nat /\ n \in Nat /\ k \in Nat
      /\ k \in 0..Len(d) /\ k \in 0..Len(e) /\ n <= Len(e) /\ n <= Len(d)
  BY LenProperties DEF Cut
<1>2. p = Run(r, d, k) /\ w = Run(r, e, k) BY <1>1, ParseIsRun
<1>3. p.req \in Requests /\ BodyCounted(p.req) BY <1>1, ParserStaysInData DEF Good
<1> HIDE DEF p, w
<1>4. Run(r, d, k).req.content_length = -1 BY <1>2 DEF p
<1>5. /\ k + p.parsed \in 0..n
      /\ parse_complete(p.req) => p = w
      /\ ~parse_complete(p.req) =>
            /\ Waits(p.req)
            /\ Run(p.req, e, k + p.parsed).req = w.req
            /\ p.parsed + Run(p.req, e, k + p.parsed).parsed = w.parsed
  BY <1>2, <1>4, RunResumes
<1>6. k + p.parsed \in 0..Len(e) BY <1>1, <1>5
<1>7. Waits(p.req) => parse(p.req, e, k + p.parsed) = Run(p.req, e, k + p.parsed)
  BY <1>3, <1>6, ParseIsRun
<1>8. /\ k + p.parsed \in 0..n
      /\ parse_complete(p.req) => p = w
      /\ ~parse_complete(p.req) =>
            /\ Waits(p.req)
            /\ parse(p.req, e, k + p.parsed).req = w.req
            /\ p.parsed + parse(p.req, e, k + p.parsed).parsed = w.parsed
  BY <1>5, <1>7
<1> QED BY <1>8 DEF p, w
-----------------------------------------------------------------------------
(* A request that is there as a whole: d is the beginning of e, and the parse
   of d is complete.  Here the request may have a body. *)

Begins(d, e) == Len(d) <= Len(e) /\ \A i \in 1..Len(d) : d[i] = e[i]

LEMMA BeginsCut ==
  ASSUME NEW d \in Seq(Cells), NEW e \in Seq(Cells), Begins(d, e)
  PROVE  Cut(d, e, Len(d))
<1>1. Len(d) \in Nat
  BY LenProperties
<1>2. \A i \in (Len(d) + 1)..Len(d) : FALSE
  BY <1>1
<1> QED BY <1>1, <1>2 DEF Cut, Begins

(* All of the body is taken from d; e has the same to take. *)
LEMMA AnnouncedBodyOfBeginning ==
  ASSUME NEW r \in Requests, BodyCounted(r), r.state_ = "PARSE_BODY",
         r.method_ = "POST", r.content_length # -1,
         NEW d \in Seq(Cells), NEW e \in Seq(Cells), Begins(d, e), NEW k \in 0..Len(d),
         parse_complete(parse_req_body(r, d, k).req)
  PROVE  parse_req_body(r, e, k) = parse_req_body(r, d, k)
<1> DEFINE remain == r.content_length - r.body_
           taken(data) == IF remain > Len(data) - k THEN Len(data) - k ELSE remain
           end(n) == [r EXCEPT !.body_ = @ + n,
                               !.state_ = IF r.body_ + n = r.content_length
                                          THEN "PARSE_SUCCESS" ELSE @]
<1>1. Len(d) \in Nat /\ Len(e) \in Nat /\ k \in Nat /\ k <= Len(d) /\ Len(d) <= Len(e)
  BY LenProperties DEF Begins
<1>2. r.body_ \in Nat /\ r.content_length \in Nat
  BY DEF Requests
<1>3. ~parse_complete(r)
  BY DEF parse_complete
<1>4. k < Len(d)
  <2> SUFFICES ASSUME ~(k < Len(d)) PROVE FALSE
    OBVIOUS
  <2>1. k >= Len(d)
    BY <1>1
  <2>2. parse_req_body(r, d, k) = Result(r, 0)
    BY <2>1 DEF parse_req_body
  <2> QED BY <1>3, <2>2, ResultIs
<1>5. ASSUME NEW data, k < Len(data)
      PROVE  parse_req_body(r, data, k) = Result(end(taken(data)), taken(data))
  BY <1>5 DEF parse_req_body
<1>6. taken(d) = remain
  <2>1. parse_req_body(r, d, k).req = end(taken(d))
    <3> HIDE DEF taken, end
    <3> QED BY <1>4, <1>5, ResultIs
  <2>2. r.body_ + taken(d) = r.content_length
    <3> DEFINE n == taken(d)
    <3> HIDE DEF n
    <3>1. r.body_ + n # r.content_length => end(n).state_ = "PARSE_BODY"
      BY DEF Requests
    <3>2. end(n).state_ = "PARSE_SUCCESS"
      BY <2>1 DEF parse_complete, n
    <3> HIDE DEF end
    <3> QED BY <3>1, <3>2 DEF n
  <2>3. taken(d) \in Int
    BY <1>1, <1>2
  <2> HIDE DEF taken
  <2> QED BY <1>2, <2>2, <2>3
<1>7. remain <= Len(d) - k
  BY <1>1, <1>2, <1>6
<1>8. taken(e) = remain /\ k < Len(e)
  BY <1>1, <1>2, <1>4, <1>7
<1> HIDE DEF taken, end
<1> QED BY <1>4, <1>5, <1>6, <1>8

LEMMA BodyOfBeginning ==
  ASSUME NEW r \in Requests, BodyCounted(r),
         NEW d \in Seq(Cells), NEW e \in Seq(Cells), Begins(d, e), NEW k \in 0..Len(d),
         parse_complete(BodyStep(r, d, k).req)
  PROVE  BodyStep(r, e, k) = BodyStep(r, d, k)
<1>1. CASE r.state_ # "PARSE_BODY"
  BY <1>1 DEF BodyStep
<1>2. CASE r.state_ = "PARSE_BODY" /\ r.method_ = "POST" /\ r.content_length # -1
  BY <1>2, AnnouncedBodyOfBeginning DEF BodyStep
<1>3. CASE r.state_ = "PARSE_BODY" /\ r.method_ # "GET" /\ r.method_ # "POST"
  <2>1. \A data, i : parse_req_body(r, data, i) = Result(set_bad_req(r), 0)
    BY <1>3 DEF parse_req_body
  <2> QED BY <1>3, <2>1 DEF BodyStep
<1>4. CASE /\ r.state_ = "PARSE_BODY"
           /\ r.method_ = "GET" \/ (r.method_ = "POST" /\ r.content_length = -1)
  <2>1. \A data, i : parse_req_body(r, data, i) = Result([r EXCEPT !.state_ = "PARSE_SUCCESS"], 0)
    BY <1>4 DEF parse_req_body
  <2> QED BY <1>4, <2>1 DEF BodyStep
<1> QED BY <1>1, <1>2, <1>3, <1>4

LEMMA RestOfBeginning ==
  ASSUME NEW r \in Requests, BodyCounted(r), r.state_ = "PARSE_REQ_HEADER",
         NEW d \in Seq(Cells), NEW e \in Seq(Cells), Begins(d, e), NEW k \in 0..Len(d),
         parse_complete(Rest(r, d, k).req)
  PROVE  Rest(r, e, k) = Rest(r, d, k)
<1> DEFINE h == HeaderStep(r, d, k)
<1>1. h = parse_req_header(r, d, k) /\ HeaderStep(r, e, k) = parse_req_header(r, e, k)
  BY DEF HeaderStep
<1>2. Good(h, d, k)
  BY StepsGood
<1>3. h.req \in Requests /\ BodyCounted(h.req) /\ k + h.parsed \in 0..Len(d)
  BY <1>2, Behind
<1> HIDE DEF h
<1>4. Rest(r, d, k).req = BodyStep(h.req, d, k + h.parsed).req
  BY ResultIs DEF Rest, h
<1>5. Stops(d, k) # {}
  <2> SUFFICES ASSUME Stops(d, k) = {} PROVE FALSE
    OBVIOUS
  <2>1. h.req = Emplace(r, d, Starts(d, k))
    BY <1>1, HeaderIs, ResultIs
  <2>2. Len(d) \in Nat /\ k \in Nat
    BY LenProperties
  <2>3. Starts(d, k) \in SUBSET (1..Len(d))
    BY <2>2, EndsAre
  <2>4. h.req.state_ = "PARSE_REQ_HEADER"
    BY <2>1, <2>3, EmplaceType
  <2>5. BodyStep(h.req, d, k + h.parsed).req = h.req
    BY <2>4, ResultIs DEF BodyStep
  <2> QED BY <1>4, <2>4, <2>5 DEF parse_complete
<1>6. HeaderStep(r, e, k) = h
  <2>1. Cut(d, e, Len(d))
    BY BeginsCut
  <2> QED BY <1>1, <1>5, <2>1, StopCut
<1>7. BodyStep(h.req, e, k + h.parsed) = BodyStep(h.req, d, k + h.parsed)
  BY <1>3, <1>4, BodyOfBeginning
<1> QED BY <1>6, <1>7 DEF Rest, h

(* A parse that ends within the data does not see what lies behind them: the
   same request comes of any data that begin like this, and as much is taken.
   The buffer of a connection has the remains of earlier requests there. *)
THEOREM ParseOfWhole ==
  ASSUME NEW r \in Requests, BodyCounted(r), Waits(r),
         NEW d \in Seq(Cells), NEW e \in Seq(Cells), Begins(d, e), NEW k \in 0..Len(d),
         parse_complete(parse(r, d, k).req)
  PROVE  parse(r, e, k) = parse(r, d, k)
<1>1. Len(d) \in Nat /\ Len(e) \in Nat /\ k \in Nat /\ k \in 0..Len(e) /\ Len(d) <= Len(e)
  BY LenProperties DEF Begins
<1>2. Cut(d, e, Len(d))
  BY BeginsCut
<1>3. parse(r, d, k) = Run(r, d, k) /\ parse(r, e, k) = Run(r, e, k)
  BY <1>1, ParseIsRun
<1>4. CASE r.state_ = "PARSE_REQ_HEADER"
  <2>1. parse(r, d, k) = Rest(r, d, k) /\ parse(r, e, k) = Rest(r, e, k)
    BY <1>1, <1>3, <1>4, RunFromHeader
  <2> QED BY <1>4, <2>1, RestOfBeginning
<1>5. CASE r.state_ = "PARSE_REQ_LINE"
  <2> DEFINE l == parse_req_line(r, d, k)
  <2>1. LineStep(r, d, k) = l /\ LineStep(r, e, k) = parse_req_line(r, e, k)
    BY <1>5 DEF LineStep
  <2>2. Good(l, d, k)
    BY LineGood
  <2>3. l.req \in Requests /\ BodyCounted(l.req) /\ k + l.parsed \in 0..Len(d)
    BY <2>2, Behind
  <2> HIDE DEF l
  <2>4. parse(r, d, k).req = Rest(l.req, d, k + l.parsed).req
    BY <1>3, <2>1, ResultIs DEF Run
  <2>5. Ends(d, k) # {}
    <3> SUFFICES ASSUME Ends(d, k) = {} PROVE FALSE
      OBVIOUS
    <3>1. l.req = r
      BY <1>2, LineCut, ResultIs DEF l
    <3>2. Rest(l.req, d, k + l.parsed).req = r
      BY <1>5, <3>1, RestStill, ResultIs
    <3> QED BY <1>5, <2>4, <3>2 DEF parse_complete
  <2>6. LineStep(r, e, k) = l
    BY <1>2, <2>1, <2>5, LineCut DEF l
  <2>7. l.req.state_ = "PARSE_SUCCESS" \/ l.req.state_ = "PARSE_REQ_HEADER"
    BY <2>5, LineState DEF l
  <2>8. Rest(l.req, e, k + l.parsed) = Rest(l.req, d, k + l.parsed)
    <3>1. CASE l.req.state_ = "PARSE_SUCCESS"
      BY <3>1, RestStill
    <3>2. CASE l.req.state_ = "PARSE_REQ_HEADER"
      BY <2>3, <2>4, <3>2, RestOfBeginning
    <3> QED BY <2>7, <3>1, <3>2
  <2> QED BY <1>3, <2>1, <2>6, <2>8 DEF Run
<1> QED BY <1>4, <1>5 DEF Waits
=============================================================================
