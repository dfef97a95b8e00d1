---------------------------- MODULE Http1Stream ----------------------------
(***************************************************************************)
(* The incremental HTTP/1 parser (wardex-protocol/src/http1.rs).  A stream *)
(* is a sequence of units, the finest pieces a read can be split at: a     *)
(* head is two of them, a body unit one, a chunk-size line its number, CR  *)
(* and LF.  What a head says is in the table Messages.                     *)
(***************************************************************************)
EXTENDS Integers, Sequences, FiniteSets, SequencesExt

CONSTANTS
  Messages,     \* id -> [code, framing, body, trailer, method, request]
  BodyCap,      \* max_body_bytes, in units
  BufferCap     \* max_stream_buffer_bytes, in units

CR == <<"cr", 0>>
LF == <<"lf", 0>>
DataUnits(n) == [i \in 1 .. n |-> <<"d", 0>>]
Line(n) == <<<<"n", n>>, CR, LF>>

\* A message as it is on the wire; a chunked body is one chunk and the last one, and a
\* response that has no body by rule has none whatever its head says.
UnitsOf(id, bodiless) ==
  LET m == Messages[id]
      head == <<<<"h", 0>>, <<"H", id>>>>
  IN  CASE m.framing = "bad" -> <<<<"d", 0>>>>
        [] m.framing = "endless" -> [i \in 1 .. BufferCap + 2 |-> <<"h", 0>>]
        [] bodiless -> head
        [] m.framing = "chunked" ->
             head \o Line(m.body) \o DataUnits(m.body) \o <<CR, LF>>
                  \o Line(0) \o (IF m.trailer THEN <<<<"t", 0>>, CR, LF>> ELSE <<>>) \o <<CR, LF>>
        [] OTHER -> head \o DataUnits(m.body)

(***************************************************************************)
(* The parser: state, message in progress [id, got, cut], what is left of  *)
(* its body or chunk, the chunk decoder's state, the residue and the rule  *)
(* the next final response takes from its request.                         *)
(***************************************************************************)
NoMsg == [id |-> 0, got |-> 0, cut |-> FALSE, short |-> FALSE, odd |-> FALSE]
NewStream(request) == [request |-> request, st |-> "headers", msg |-> NoMsg, left |-> 0,
                       dec |-> "size", buf |-> <<>>, ans |-> "GET", reason |-> ""]

Idle(p) == p.st = "headers" /\ p.buf = <<>>
Off(p) == p.st = "off"
\* The method a head names: one read from past its first unit names none a client sends.
MethodOf(msg) == IF msg.odd THEN "OST" ELSE Messages[msg.id].method
MethodInFlight(p) == IF p.st \in {"body", "chunked"} THEN MethodOf(p.msg) ELSE "none"
ExpectResponseTo(p, method) == [p EXCEPT !.ans = method]

Consume(p, n) == [p EXCEPT !.buf = SubSeq(@, n + 1, Len(@))]
FailStream(p, why) == [p EXCEPT !.st = "off", !.buf = <<>>, !.reason = why]

\* A cap that does not count what it reads and drops.
AppendStops(p, n) ==
  LET room == BodyCap - p.msg.got
      take == IF n < room THEN n ELSE room
  IN  [Consume(p, n) EXCEPT !.msg.got = @ + take, !.msg.cut = @ \/ take < n, !.left = @ - take]

\* append_capped() and its callers: past the cap units are consumed and not stored.
AppendCapped(p, n) ==
  LET room == BodyCap - p.msg.got
      take == IF n < room THEN n ELSE room
  IN  [Consume(p, n) EXCEPT !.msg.got = @ + take, !.msg.cut = @ \/ take < n, !.left = @ - n]

Take(p) == IF p.left < Len(p.buf) THEN p.left ELSE Len(p.buf)

\* find_crlf(): where the first CR LF begins, 0 for nowhere.
FindCrlf(b) ==
  LET at == {i \in 1 .. Len(b) - 1 : b[i] = CR /\ b[i + 1] = LF}
  IN  IF at = {} THEN 0 ELSE CHOOSE i \in at : \A j \in at : i <= j

(***************************************************************************)
(* One step: [p, done, more]: the parser after it, the messages it         *)
(* completed and whether it can go on.                                     *)
(***************************************************************************)
NeedMore(p) == [p |-> p, done |-> <<>>, more |-> FALSE]
Goes(p) == [p |-> p, done |-> <<>>, more |-> TRUE]
Done(p, st) == [p |-> [p EXCEPT !.st = st, !.msg = NoMsg, !.left = 0], done |-> <<p.msg>>, more |-> TRUE]

Answered(p) == [p EXCEPT !.ans = "GET"]

StepHead(q, id, odd) ==
  LET m == Messages[id]
      p == [q EXCEPT !.msg = [NoMsg EXCEPT !.id = id, !.odd = odd]]
      interim == ~p.request /\ m.code \in {100, 101}
      f == IF p.request THEN p ELSE Answered(p)
  IN  IF interim THEN Done(p, "headers")
      ELSE IF ~p.request /\ p.ans = "CONNECT" /\ m.code = 200 THEN Done(f, "tunnel")
      ELSE IF ~p.request /\ (m.code = 204 \/ p.ans = "HEAD") THEN Done(f, "headers")
      ELSE CASE m.framing = "length" -> Goes([f EXCEPT !.st = "body", !.left = m.body])
             [] m.framing = "chunked" -> Goes([f EXCEPT !.st = "chunked", !.dec = "size"])
             [] OTHER -> IF p.request THEN Done(f, "headers") ELSE Goes([f EXCEPT !.st = "close"])

StepHeaders(p) ==
  LET rest == {i \in DOMAIN p.buf : p.buf[i][1] # "h"}
      j == CHOOSE i \in rest : \A k \in rest : i <= k
  IN  IF rest = {} THEN NeedMore(p)
      ELSE IF p.buf[j][1] # "H" THEN NeedMore(FailStream(p, "not_http"))
      ELSE StepHead(Consume(p, j), p.buf[j][2], j = 1)

StepBody(p) ==
  LET q == AppendCapped(p, Take(p)) IN IF q.left = 0 THEN Done(q, "headers") ELSE NeedMore(q)

StepUntilClose(p) == NeedMore([AppendCapped(p, Len(p.buf)) EXCEPT !.left = 0])

StepDataCrlf(p) == IF Len(p.buf) < 2 THEN NeedMore(p) ELSE Goes([Consume(p, 2) EXCEPT !.dec = "size"])

StepChunked(p) ==
  LET i == FindCrlf(p.buf)
  IN  CASE p.dec = "size" ->
             IF i = 0 THEN NeedMore(p)
             ELSE IF i # 2 \/ p.buf[1][1] # "n" THEN NeedMore(FailStream(p, "not_http"))
             ELSE LET n == p.buf[1][2]
                  IN  Goes([Consume(p, 3) EXCEPT !.dec = IF n = 0 THEN "trailer" ELSE "data", !.left = n])
        [] p.dec = "data" ->
             IF p.buf = <<>> THEN NeedMore(p)
             ELSE LET q == AppendCapped(p, Take(p)) IN Goes([q EXCEPT !.dec = IF q.left = 0 THEN "crlf" ELSE "data"])
        [] p.dec = "crlf" -> StepDataCrlf(p)
        [] OTHER ->
             IF i = 0 THEN NeedMore(p)
             ELSE IF i = 1 THEN Done(Consume(p, 2), "headers") ELSE Goes(Consume(p, i + 1))

Step(p) ==
  CASE p.st = "headers" -> StepHeaders(p)
    [] p.st = "body" -> StepBody(p)
    [] p.st = "chunked" -> StepChunked(p)
    [] p.st = "close" -> StepUntilClose(p)
    [] OTHER -> NeedMore([p EXCEPT !.buf = <<>>])

\* The loop of feed(): a step either stops or consumes, or enters a body.
RECURSIVE Passes(_)
Passes(acc) ==
  IF acc.more THEN LET s == Step(acc.p) IN Passes([s EXCEPT !.done = acc.done \o @]) ELSE acc

\* feed(): the bound is on what is left when nothing more can be parsed.
Bounded(s) ==
  [p |-> IF Len(s.p.buf) > BufferCap THEN FailStream(s.p, "stream_buffer_exceeded") ELSE s.p,
   done |-> s.done]

FeedStream(p, units) ==
  IF p.st \in {"off", "tunnel"} THEN [p |-> p, done |-> <<>>]
  ELSE Bounded(Passes(Goes([p EXCEPT !.buf = @ \o units])))

\* finish(): a response in flight is carved off; it is whole only when its end was seen.
Finish(p, peerClosed) ==
  LET whole == \/ p.st = "close" /\ peerClosed
               \/ p.st = "chunked" /\ p.dec = "trailer"
      msg == IF whole THEN p.msg ELSE [p.msg EXCEPT !.cut = TRUE, !.short = TRUE]
  IN  IF p.request \/ p.st \notin {"body", "chunked", "close"} THEN [p |-> p, done |-> <<>>]
      ELSE [p |-> [p EXCEPT !.st = "headers", !.msg = NoMsg, !.buf = <<>>], done |-> <<msg>>]
=============================================================================
