------------------------------ MODULE HttpFiles ------------------------------
(***************************************************************************)
(* A kept-alive connection of the static file server: the task per         *)
(* connection of example/http_static_server, http_file_handler::           *)
(* handle_request() (http/file_handler.hpp), http_range and its parser     *)
(* (http/range_header.hpp), and transfer() under send_file() (asio/        *)
(* transfer.hpp, asio/send_file.hpp).                                      *)
(*                                                                         *)
(* A byte of the file is its index.  A request is what the handler looks   *)
(* at; a Range header is what its parser finds in it.  The file may change *)
(* while it is being sent.                                                 *)
(***************************************************************************)
EXTENDS Integers, Sequences, FiniteSets

CONSTANTS
    MaxSize,   \* of the file
    BufSize,   \* of the buffer of transfer()
    MaxReqs    \* requests on the connection

ServerAssumption == MaxSize \in Nat /\ BufSize \in Nat \ {0}

VARIABLES
    pc,      \* "read", "handle", "write", "all", "count", "failed", "handled", "closed"
    req,     \* the request
    size,    \* of the file now
    len,     \* of the file when it was opened
    res,     \* the response: status, Content-Length (-1: none), range
    pos,     \* position in the file
    left,    \* bytes transfer() still has to send
    body,    \* body bytes of the response that were written
    owed,    \* body bytes the peer still takes for this response's;
             \* -1: until the connection is closed; -2: it lost the step
    faults,  \* what happened that breaks the framing
    n        \* requests so far
vars == <<pc, req, size, len, res, pos, left, body, owed, faults, n>>

Ranges == {[kind |-> "none", a |-> 0, b |-> 0], [kind |-> "bad", a |-> 0, b |-> 0]}
          \cup [kind : {"suffix", "from"}, a : 0 .. MaxSize + 1, b : {0}]
          \cup [kind : {"both"}, a : 0 .. MaxSize, b : 0 .. MaxSize + 1]
Plain == CHOOSE r \in Ranges : r.kind = "none"
Requests ==
    [verb : {"get", "head"}, target : {"ok"}, match : {"none"}, range : Ranges,
     keep : {TRUE}]
    \cup [verb : {"get", "head", "post"}, target : {"ok", "missing", "illegal", "error"},
          match : {"none", "same", "other"}, range : {Plain}, keep : BOOLEAN]

Min2(a, b) == IF a < b THEN a ELSE b
None == [first |-> -1, last |-> -1]

\* parse_single_range_header() with http_range::valid()
ParseRange(r) ==
    CASE r.kind = "bad"    -> "parse_failed"
      [] r.kind = "suffix" -> IF r.a > 0 THEN "ok" ELSE "out_of_bound"
      [] r.kind = "from"   -> "ok"
      [] r.kind = "both"   -> IF r.b >= r.a THEN "ok" ELSE "out_of_bound"

\* Mutant: a range may end at the length of the file, one past its last byte.
LengthToRangePast(r, l) ==
    IF r.kind = "suffix" THEN [first |-> l - Min2(l, r.a), last |-> l - 1]
    ELSE IF r.a >= l THEN None
    ELSE [first |-> r.a, last |-> IF r.kind = "from" THEN l - 1 ELSE Min2(l, r.b)]

\* http_range::length_to_range(); None for out_of_bound
LengthToRange(r, l) ==
    IF r.kind = "suffix" THEN [first |-> l - Min2(l, r.a), last |-> l - 1]
    ELSE IF r.a >= l THEN None
    ELSE [first |-> r.a, last |-> IF r.kind = "from" THEN l - 1 ELSE Min2(l - 1, r.b)]

\* make_res(): the length is only set when there is a reason to send; it is
\* one byte here.
Reason(status, why) ==
    [status |-> status, length |-> IF why THEN 1 ELSE -1, range |-> None, file |-> FALSE]
File(status, length, range) ==
    [status |-> status, length |-> length, range |-> range, file |-> TRUE]

\* The response handle_request() settles on for a file of l bytes
Respond(r, l) ==
    CASE r.verb = "post"        -> Reason(400, TRUE)
      [] r.verb # "post" /\ r.target = "illegal" -> Reason(400, TRUE)
      [] r.verb # "post" /\ r.target = "missing" -> Reason(404, TRUE)
      [] OTHER ->
           IF r.match = "same" THEN File(304, l, None)
           ELSE IF r.match = "other" \/ r.range.kind = "none" THEN File(200, l, None)
           ELSE LET parsed == ParseRange(r.range)
                    g      == LengthToRange(r.range, l)
                IN  IF parsed = "parse_failed" THEN Reason(400, TRUE)
                    ELSE IF parsed = "out_of_bound" \/ g.first < 0 THEN Reason(416, FALSE)
                    ELSE File(206, g.last - g.first + 1, g)

\* conn.read(req)
ReadRequest ==
    /\ pc = "read" /\ n < MaxReqs
    /\ req' \in Requests
    /\ n' = n + 1 /\ pc' = "handle" /\ body' = <<>>
    /\ UNCHANGED <<size, len, res, pos, left, owed, faults>>

\* handle_request() up to its first write; opening the file may fail
HandleRequest ==
    /\ pc = "handle"
    /\ len' = size
    /\ IF req.verb # "post" /\ req.target = "error"
       THEN pc' = "failed" /\ UNCHANGED res
       ELSE res' = Respond(req, size) /\ pc' = "write"
    /\ UNCHANGED <<req, size, pos, left, body, owed, faults, n>>

\* A header is written: how long the peer takes the body to be.
NoBody(r)   == r.verb = "head" \/ res.status = 304
Owes(r)     == IF NoBody(r) THEN 0 ELSE res.length
Announce(o) == IF owed # 0 THEN -2 ELSE o

\* conn.write(make_res(...)), the body included, or conn.write_header(sr)
WriteResponse ==
    /\ pc = "write"
    /\ IF ~res.file
       THEN /\ body' = IF res.length > 0 THEN <<0>> ELSE <<>>
            /\ owed' = IF res.length > 0 /\ req.verb = "head" THEN -2
                       ELSE Announce(IF res.length > 0 THEN 0 ELSE Owes(req))
            /\ faults' = faults \cup (IF req.verb = "head" /\ res.length > 0
                                      THEN {"head"} ELSE {})
                                \cup (IF req.verb # "head" /\ res.length < 0
                                      THEN {"lengthless"} ELSE {})
            /\ pc' = "handled" /\ UNCHANGED <<pos, left>>
       ELSE /\ owed' = Announce(Owes(req)) /\ body' = <<>> /\ UNCHANGED faults
            /\ IF res.status # 304 /\ req.verb = "get"
               THEN IF res.status = 206
                    THEN pos' = res.range.first /\ left' = res.length /\ pc' = "count"
                    ELSE pos' = 0 /\ pc' = "all" /\ UNCHANGED left
               ELSE pc' = "handled" /\ UNCHANGED <<pos, left>>
    /\ UNCHANGED <<req, size, len, res, n>>

\* k bytes at pos are read and written
Sent(k) ==
    /\ body' = body \o [i \in 1 .. k |-> pos + i - 1]
    /\ pos' = pos + k
    /\ owed' = IF owed >= k THEN owed - k ELSE IF owed = -1 THEN -1 ELSE -2

\* transfer() until eof
TransferAll ==
    /\ pc = "all"
    /\ IF pos >= size THEN pc' = "handled" /\ UNCHANGED <<body, pos, owed>>
       ELSE \E k \in 1 .. Min2(BufSize, size - pos) : Sent(k) /\ UNCHANGED pc
    /\ UNCHANGED <<req, size, len, res, left, faults, n>>

\* transfer() of a number of bytes: the end of the file is a failure
TransferCount ==
    /\ pc = "count"
    /\ IF left = 0 THEN pc' = "handled" /\ UNCHANGED <<body, pos, owed, left>>
       ELSE IF pos >= size THEN pc' = "failed" /\ UNCHANGED <<body, pos, owed, left>>
       ELSE \E k \in 1 .. Min2(Min2(left, BufSize), size - pos) :
              Sent(k) /\ left' = left - k /\ UNCHANGED pc
    /\ UNCHANGED <<req, size, len, res, faults, n>>

\* The server's answer to a failed handle_request(): 500, of no length
ServerError ==
    /\ pc = "failed"
    /\ owed' = Announce(IF req.verb = "head" THEN 0 ELSE -1)
    /\ faults' = faults \cup {"lengthless"}
    /\ body' = <<>>
    /\ res' = Reason(500, FALSE)
    /\ pc' = "handled"
    /\ UNCHANGED <<req, size, len, pos, left, n>>

\* if(! req.keep_alive()) break; any failed read or write ends the task too
Handled ==
    /\ pc = "handled"
    /\ pc' = IF req.keep THEN "read" ELSE "closed"
    /\ UNCHANGED <<req, size, len, res, pos, left, body, owed, faults, n>>
ConnectionLost ==
    /\ pc \in {"read", "write", "all", "count"}
    /\ pc' = "closed"
    /\ UNCHANGED <<req, size, len, res, pos, left, body, owed, faults, n>>

\* Somebody writes to the file.
FileChanges ==
    /\ pc \in {"write", "all", "count"} /\ res.file /\ "changed" \notin faults
    /\ size' \in (0 .. MaxSize) \ {size}
    /\ faults' = faults \cup {"changed"}
    /\ UNCHANGED <<pc, req, len, res, pos, left, body, owed, n>>

Init ==
    /\ pc = "read" /\ size \in 0 .. MaxSize /\ len = 0
    /\ req = CHOOSE r \in Requests : TRUE
    /\ res = Reason(0, FALSE)
    /\ pos = 0 /\ left = 0 /\ body = <<>> /\ owed = 0 /\ faults = {} /\ n = 0

Next == \/ ReadRequest \/ HandleRequest \/ WriteResponse \/ TransferAll
        \/ TransferCount \/ ServerError \/ Handled \/ ConnectionLost \/ FileChanges

Spec == Init /\ [][Next]_vars

(***************************************************************************)
(* Properties.                                                             *)
(***************************************************************************)
\* The bytes a Range header asks for in a file of l bytes
Asked(r, l) ==
    {i \in 0 .. l - 1 : /\ r.kind = "suffix" => i >= l - r.a
                        /\ r.kind \in {"from", "both"} => i >= r.a
                        /\ r.kind = "both" => i <= r.b}

\* A client that takes every response to be as long as its header says is
\* at the start of a response whenever the server reads the next request,
\* and what a whole response carried are the bytes that were asked for, in
\* order; no transfer of an unchanged file fails.  Not so after a file
\* changed under the transfer, and after the responses of faults (see
\* EveryResponseFramed).
InStep ==
    faults = {} =>
        /\ owed >= 0
        /\ pc \in {"handled", "read"} => owed = 0
        /\ pc = "failed" => req.target = "error"
        /\ pc = "handled" /\ res.status \in {200, 206} /\ req.verb = "get" =>
             body = [i \in 1 .. Cardinality(Asked(req.range, len)) |->
                        res.range.first + i - (IF res.status = 206 THEN 1 ELSE 0)]
             /\ {body[i] : i \in DOMAIN body} = Asked(req.range, len)

\* http/conn.hpp:59 says of responses: "Remember to call
\* message.prepare_payload(...) or message.chunked(...), if 'Content-Length'
\* and 'Transfer-Encoding' are not set manually."  So a client that keeps the
\* connection can tell where a response ends, also the ones of errors.
EveryResponseFramed == pc = "read" /\ "changed" \notin faults => owed # -1
=============================================================================
