------------------------------ MODULE Exchange ------------------------------
(***************************************************************************)
(* What a connection promises its client, whatever the socket takes at a   *)
(* time.  Answers come one at a time.  Each is decided before anything of  *)
(* it is sent and does not change while it is; it goes out in order, from  *)
(* its beginning, nothing twice, the head before the body; it ends only    *)
(* when all of it is out; and the connection is then used again if the     *)
(* request asked for it, and closed otherwise.  The connection may break   *)
(* at any time.  UserConn implements it (UserConn!ExchangeSpec).           *)
(***************************************************************************)
EXTENDS Naturals, Sequences

CONSTANTS
    Answers,    \* records: fixed, keep, head, body
    NoAnswer    \* in the place of one while none is decided

VARIABLES
    phase,      \* "in": a request is read; "out": it is answered; "closed"
    answer,     \* the answer being sent
    head, body, \* what the client got of it, or of the last one
    answered    \* how many it got to the end

vars == <<phase, answer, head, body, answered>>

Init ==
    /\ phase = "in"
    /\ answer = NoAnswer
    /\ head = <<>>
    /\ body = <<>>
    /\ answered = 0

(* Something of the next request is received. *)
Receive ==
    /\ phase = "in"
    /\ head' = <<>>
    /\ body' = <<>>
    /\ UNCHANGED <<phase, answer, answered>>

(* The request is understood, and with it what will be answered. *)
Understand ==
    /\ phase = "in"
    /\ phase' = "out"
    /\ answer' \in Answers
    /\ head' = <<>>
    /\ body' = <<>>
    /\ UNCHANGED answered

(* From one beginning of s to a longer one, or the same. *)
Grows(from, to, s) ==
    \E n \in Len(from)..Len(s) : to = SubSeq(s, 1, n)

(* More of the answer goes out.  The head of an answer that is not fixed, a
   file's, changes between two calls and is not promised. *)
Goes ==
    /\ phase = "out"
    /\ Grows(body, body', answer.body)
    /\ answer.fixed => Grows(head, head', answer.head)
    /\ answer.fixed /\ body' # <<>> => head' = answer.head

Deliver == Goes /\ UNCHANGED <<phase, answer, answered>>

Finish ==
    /\ Goes
    /\ body' = answer.body
    /\ answer.fixed => head' = answer.head
    /\ phase' = IF answer.keep THEN "in" ELSE "closed"
    /\ answer' = NoAnswer
    /\ answered' = answered + 1

Break ==
    /\ phase # "closed"
    /\ phase' = "closed"
    /\ answer' = NoAnswer
    /\ UNCHANGED <<head, body, answered>>

Next == Receive \/ Understand \/ Deliver \/ Finish \/ Break

Spec == Init /\ [][Next]_vars
=============================================================================
