---------------------------- MODULE HttpFraming ----------------------------
(***************************************************************************)
(* How a worker cuts the byte stream of a connection into requests: the    *)
(* parser (runtime/http.c, orbit_http_parse_request_ex) and the receive    *)
(* loop around it (compiler/emit/route_runtime.orb).  The client pipelines *)
(* its requests; every recv returns some of the bytes that have arrived.   *)
(*                                                                         *)
(* A byte is a symbol.  CR, LF, SP, "?" and NUL are themselves, a header   *)
(* field is one symbol that stands for its name and value, every other     *)
(* byte is "x".                                                            *)
(***************************************************************************)
EXTENDS Naturals, FiniteSets, SequencesExt

CONSTANTS LengthOf,        \* the value of each Content-Length field
          Requests,        \* [line, fields, body] a client may send
          MaxSent,         \* bound: requests of one connection
          MaxLine, MaxHeaderBytes, MaxHeaders, MaxBody,  \* OrbitHttpLimits
          RecvBuf          \* bytes of a receive buffer (16384 - 1)

(* The fields the parser looks at: a Content-Length without a usable value *)
(* or with one, and Transfer-Encoding: chunked.                            *)
LineSymbols == {"SP", "?", "x"}
OtherFields == {"x", "lenBad", "chunked", "close"}
FieldSymbols == OtherFields \cup DOMAIN LengthOf
Symbols == {"CR", "LF", "NUL"} \cup LineSymbols \cup FieldSymbols

(* The fields of a request, and the length that lengths declare. *)
Declared(r) == {r.fields[i] : i \in 1 .. Len(r.fields)}
Lengths(r) == {LengthOf[f] : f \in Declared(r) \cap DOMAIN LengthOf}
LengthFrom(lengths) == IF lengths = {} THEN 0 ELSE Max(lengths)

(* A line is a line, and a body is as long as its request declares, unless *)
(* it declares two lengths.                                                *)
ASSUME HttpAssumption ==
  /\ LengthOf \in [DOMAIN LengthOf -> Nat]
  /\ DOMAIN LengthOf \cap ({"CR", "LF", "NUL"} \cup LineSymbols \cup OtherFields) = {}
  /\ Requests \subseteq [line : Seq(LineSymbols), fields : Seq(FieldSymbols), body : Nat]
  /\ \A r \in Requests : Cardinality(Lengths(r)) <= 1 => r.body = LengthFrom(Lengths(r))
  /\ {MaxSent, MaxBody} \subseteq Nat
  /\ {MaxLine, MaxHeaderBytes, MaxHeaders, RecvBuf} \subseteq Nat \ {0}

VARIABLES
  connPc,   \* "new", "recv", "loop", "shift" or "closed"
  sent,     \* what the client sends, as requests
  wire,     \* bytes sent and not received
  buf,      \* buffers[i], buffered[i] symbols of it
  parsed,   \* parsed of the receive loop
  keepConn, \* keep_alive of the receive loop
  handled,  \* history: the bytes of each request given to a route
  answers   \* history: the answers, by status

httpVars == <<connPc, sent, wire, buf, parsed, keepConn, handled, answers>>

Codes == {200, 400, 413, 414, 429, 431, 501, 503}

HttpTypeOK ==
  /\ connPc \in {"new", "recv", "loop", "shift", "closed"}
  /\ sent \in Seq(Requests) /\ wire \in Seq(Symbols)
  /\ buf \in Seq(Symbols) /\ Len(buf) <= RecvBuf /\ parsed \in 0 .. Len(buf)
  /\ keepConn \in BOOLEAN
  /\ handled \in Seq(Seq(Symbols)) /\ answers \in Seq(Codes)

HttpInit ==
  /\ connPc = "new" /\ sent = <<>> /\ wire = <<>>
  /\ buf = <<>> /\ parsed = 0 /\ keepConn = TRUE
  /\ handled = <<>> /\ answers = <<>>

-----------------------------------------------------------------------------
(* A request as bytes. *)

FieldLines(r) == FlattenSeq([i \in 1 .. Len(r.fields) |-> <<r.fields[i], "CR", "LF">>])
HeadBytes(r) == r.line \o <<"CR", "LF">> \o FieldLines(r) \o <<"CR", "LF">>
Bytes(r) == HeadBytes(r) \o [i \in 1 .. r.body |-> "x"]

-----------------------------------------------------------------------------
(* orbit_http_parse_request_ex on raw, which begins at the first byte that *)
(* was not consumed and ends with the bytes received so far.               *)

(* memchr: the first c in raw[from .. to], 0 for none. *)
Memchr(raw, c, from, to) == SelectInSubSeq(raw, from, to, LAMBDA x : x = c)

(* orbit_http_find_head_end: where the first CR LF CR LF begins, 0 for none. *)
HeadEnd(raw) ==
  SelectInSubSeq([i \in 1 .. Len(raw) |-> SubSeq(raw, i, i + 3)], 1, Len(raw) - 3,
                 LAMBDA x : x = <<"CR", "LF", "CR", "LF">>)

(* Mutant: the newline is looked for one byte short. *)
LineNlShort(raw) ==
  Memchr(raw, "LF", 1, IF Len(raw) < MaxLine + 1 THEN Len(raw) ELSE MaxLine + 1)

(* The end of the request line, looked for as far as the limit allows. *)
LineNl(raw) ==
  Memchr(raw, "LF", 1, IF Len(raw) < MaxLine + 2 THEN Len(raw) ELSE MaxLine + 2)

LineTooLong(raw) ==
  LET nl == LineNl(raw)
      line == IF nl > 1 /\ raw[nl - 1] = "CR" THEN nl - 2 ELSE nl - 1
  IN  IF nl > 0 THEN line > MaxLine ELSE Len(raw) > MaxLine + 1

(* Where the header lines begin and stop; without a terminator what was    *)
(* received so far counts.                                                 *)
HeadersFrom(raw) == IF LineNl(raw) > 0 THEN LineNl(raw) + 1 ELSE Len(raw) + 1
HeadersTo(raw) == IF HeadEnd(raw) > 0 THEN HeadEnd(raw) - 1 ELSE Len(raw)

HeadersTooLarge(raw) ==
  LET from == HeadersFrom(raw)
      to == HeadersTo(raw)
      lines == 1 + Cardinality({i \in from .. to : raw[i] = "LF"})
  IN  \/ to + 1 > from + MaxHeaderBytes
      \/ HeadEnd(raw) > 0 /\ to + 1 > from /\ lines > MaxHeaders

(* The first symbols of the lines of the head. *)
Fields(raw) == {raw[i] : i \in {j \in 1 .. HeadEnd(raw) + 3 : j = 1 \/ raw[j - 1] = "LF"}}

ContentLengths(raw) == {LengthOf[f] : f \in Fields(raw) \cap DOMAIN LengthOf}

(* No digits, a sign, or two lengths that differ (one without digits is 0). *)
LengthMalformed(raw) ==
  "lenBad" \in Fields(raw) \/ Cardinality(ContentLengths(raw)) > 1

ContentLength(raw) == LengthFrom(ContentLengths(raw))

Consumed(raw) == HeadEnd(raw) + 3 + ContentLength(raw)

(* What the parser decides: 0 is to wait for more bytes, 200 a request.    *)
(* The space after the method is looked for in everything received.        *)
Parse(raw) ==
  IF LineTooLong(raw) THEN 414
  ELSE IF HeadersTooLarge(raw) THEN 431
  ELSE IF HeadEnd(raw) = 0 THEN 0
  ELSE IF "chunked" \in Fields(raw) THEN 501
  ELSE IF LengthMalformed(raw) THEN 400
  ELSE IF ContentLength(raw) > MaxBody THEN 413
  ELSE IF Len(raw) < Consumed(raw) \/ "SP" \notin ToSet(raw) THEN 0
  ELSE 200

(* Mutant: the body is ended by a zero in the shared buffer, on the first  *)
(* byte of the next request.                                               *)
ZeroedAfterBody(raw) == {Memchr(raw, "SP", 1, Len(raw)), Consumed(raw) + 1}

(* The bytes overwritten with zeros: the first space, the second (or the   *)
(* byte after the first when there is none), and the "?" between them.     *)
Zeroed(raw) ==
  LET method == Memchr(raw, "SP", 1, Len(raw))
      second == Memchr(raw, "SP", method + 1, Len(raw))
      path == IF second = 0 THEN method + 1 ELSE second
  IN  {method, Memchr(raw, "?", method + 1, path - 1), path}

InPlace(raw) == [i \in 1 .. Len(raw) |-> IF i \in Zeroed(raw) THEN "NUL" ELSE raw[i]]

(* strstr(raw_request, "Connection: close"), on what the parser left: the  *)
(* search ends at the first zero.                                          *)
AsksToClose(raw) ==
  LET zero == Memchr(raw, "NUL", 1, Len(raw))
  IN  Memchr(raw, "close", 1, IF zero > 0 THEN zero - 1 ELSE Len(raw)) > 0

-----------------------------------------------------------------------------
(* The connection. *)

(* The client connects and sends all of it. *)
Connect(rs) ==
  /\ connPc = "new"
  /\ sent' = rs /\ wire' = FlattenSeq([i \in 1 .. Len(rs) |-> Bytes(rs[i])])
  /\ connPc' = "recv"
  /\ UNCHANGED <<buf, parsed, keepConn, handled, answers>>

Room == RecvBuf - Len(buf)

(* recv: n of the bytes that have arrived. *)
Recv(n) ==
  /\ connPc = "recv" /\ n <= Len(wire) /\ n <= Room
  /\ buf' = buf \o SubSeq(wire, 1, n)
  /\ wire' = SubSeq(wire, n + 1, Len(wire))
  /\ parsed' = 0 /\ keepConn' = TRUE
  /\ connPc' = "loop"
  /\ UNCHANGED <<sent, handled, answers>>

Rest == SubSeq(buf, parsed + 1, Len(buf))

(* Mutant: one request is taken out of the buffer per receive. *)
LoopOnce == parsed = 0

LoopAgain == parsed < Len(buf)

(* The loop ends, or the request is not complete. *)
LoopLeave ==
  /\ connPc = "loop" /\ (LoopAgain => Parse(Rest) = 0)
  /\ connPc' = "shift"
  /\ UNCHANGED <<sent, wire, buf, parsed, keepConn, handled, answers>>

(* A refused request consumes the buffer and the connection will close. *)
RefuseRequest ==
  /\ connPc = "loop" /\ LoopAgain /\ Parse(Rest) \notin {0, 200}
  /\ answers' = Append(answers, Parse(Rest))
  /\ parsed' = Len(buf) /\ keepConn' = FALSE
  /\ UNCHANGED <<connPc, sent, wire, buf, handled>>

(* A request goes to the router: answered, or denied by Kynx, which closes *)
(* the connection; either way the loop goes on with the next one.          *)
HandleRequest(code) ==
  /\ connPc = "loop" /\ LoopAgain /\ Parse(Rest) = 200
  /\ handled' = Append(handled, SubSeq(Rest, 1, Consumed(Rest)))
  /\ answers' = Append(answers, code)
  /\ buf' = SubSeq(buf, 1, parsed) \o InPlace(Rest)
  /\ parsed' = parsed + Consumed(Rest)
  /\ keepConn' = (keepConn /\ code = 200 /\ ~AsksToClose(InPlace(Rest)))
  /\ UNCHANGED <<connPc, sent, wire>>

(* A refused allocation leaves the loop through the boundary with nothing  *)
(* of the request consumed, and the connection will close.                 *)
OutOfMemory ==
  /\ connPc = "loop" /\ LoopAgain /\ Parse(Rest) = 200
  /\ answers' = Append(answers, 503)
  /\ keepConn' = FALSE
  /\ connPc' = "shift"
  /\ UNCHANGED <<sent, wire, buf, parsed, handled>>

(* memmove, the answer to a full buffer, and the close. *)
ShiftBuffer ==
  LET rest == Rest
      full == Len(rest) = RecvBuf
  IN  /\ connPc = "shift"
      /\ buf' = rest /\ parsed' = 0
      /\ answers' = IF full THEN Append(answers, IF HeadEnd(rest) > 0 THEN 413 ELSE 431)
                    ELSE answers
      /\ connPc' = IF full \/ ~keepConn THEN "closed" ELSE "recv"
      /\ UNCHANGED <<sent, wire, keepConn, handled>>

(* The client is gone: recv returns 0. *)
ClientGone ==
  /\ connPc = "recv"
  /\ connPc' = "closed"
  /\ UNCHANGED <<sent, wire, buf, parsed, keepConn, handled, answers>>

HttpNext ==
  \/ \E rs \in SeqOf(Requests, MaxSent) : Connect(rs)
  \/ \E n \in 1 .. RecvBuf : Recv(n)
  \/ LoopLeave \/ RefuseRequest \/ (\E code \in {200, 429} : HandleRequest(code))
  \/ OutOfMemory \/ ShiftBuffer \/ ClientGone

HttpSpec == HttpInit /\ [][HttpNext]_httpVars

-----------------------------------------------------------------------------
(* What the documentation says of a request by itself. *)

(* A request line with its two spaces. *)
WellFormed(r) == Cardinality({i \in 1 .. Len(r.line) : r.line[i] = "SP"}) >= 2

HeaderSize(r) == IF r.fields = <<>> THEN 0 ELSE Len(FieldLines(r)) - 2

(* The answer to it, from the limits it breaks; a request larger than the  *)
(* receive buffer is answered 431 when its head does not fit, else 413.    *)
Expected(r) ==
  IF Len(r.line) > MaxLine THEN 414
  ELSE IF HeaderSize(r) > MaxHeaderBytes THEN 431
  ELSE IF Len(HeadBytes(r)) > RecvBuf THEN 431
  ELSE IF Len(r.fields) > MaxHeaders THEN 431
  ELSE IF "chunked" \in Declared(r) THEN 501
  ELSE IF "lenBad" \in Declared(r) \/ Cardinality(Lengths(r)) > 1 THEN 400
  ELSE IF r.body > MaxBody \/ Len(Bytes(r)) > RecvBuf THEN 413
  ELSE 200

(* The requests up to the i-th all have a proper request line. *)
ProperUpTo(i) == i <= Len(sent) /\ \A j \in 1 .. i : WellFormed(sent[j])

(* The requests routes get are the requests the client sent, byte for byte *)
(* and in order, however recv cut the stream: no byte of a request is      *)
(* taken for one of its neighbour, and none is overwritten before it is    *)
(* looked at.  A request line without its two spaces ends the promise.     *)
FramedAsSent ==
  \A i \in 1 .. Len(handled) : ProperUpTo(i) => handled[i] = Bytes(sent[i])

(* Each request is answered by the limits it breaks, and not by how its    *)
(* bytes arrived: with what a handler may add (denied, out of memory, then *)
(* also of a full buffer), and except for headers within three bytes of    *)
(* their limit: part of the terminator counts when it arrives by itself.   *)
NearHeaderLimit(r) == HeaderSize(r) + 3 > MaxHeaderBytes
AnsweredByLimits ==
  \A i \in 1 .. Len(answers) : ProperUpTo(i) =>
    \/ answers[i] = Expected(sent[i])
    \/ Expected(sent[i]) = 200 /\ answers[i] \in {429, 503}
    \/ NearHeaderLimit(sent[i]) /\ answers[i] = 431
    \/ i > 1 /\ answers[i - 1] = 503 /\ answers[i] \in {413, 431}

(* A connection that waits for more bytes when all have arrived has had    *)
(* every request answered: none sits complete in the buffer.               *)
NoneLeftWaiting ==
  connPc = "recv" /\ wire = <<>> /\ ProperUpTo(Len(sent)) => Len(answers) = Len(sent)

(* With it, that the bytes received leave room for the terminating zero.   *)
HttpInv == HttpTypeOK /\ NoneLeftWaiting
=============================================================================
