----------------------------- MODULE Http1Feeds -----------------------------
(***************************************************************************)
(* The HTTP/1 parser fed a script of messages in arbitrary pieces, and     *)
(* what must come out of it.                                               *)
(***************************************************************************)
EXTENDS Http1Stream

CONSTANT Scripts    \* streams a run feeds: [request, ids, answers]

(***************************************************************************)
(* A server answers what it was asked, one final response at a time: a     *)
(* read ends where one does.                                               *)
(***************************************************************************)
VARIABLES
  script,   \* the stream being fed
  fed,      \* units fed
  parser,
  parsed,   \* messages completed, in order
  closed    \* "no", "peer" or "local"

http1Vars == <<script, fed, parser, parsed, closed>>

Bodiless(i) == ~script.request /\ (script.answers[i] \in {"HEAD", "CONNECT"} \/ Messages[script.ids[i]].code \in {100, 204})
Sent(i) == UnitsOf(script.ids[i], Bodiless(i))
Upto(i) == FoldLeft(LAMBDA acc, j : acc \o Sent(j), <<>>, [j \in 1 .. i |-> j])
Stream == Upto(Len(script.ids))

\* The units up to the end of message i, as its framing really is.
FrameEnd(i) == Len(Upto(i))

Final(i) == script.request = FALSE /\ Messages[script.ids[i]].code # 100
Answering == LET open == {i \in DOMAIN script.ids : FrameEnd(i) > fed}
             IN  IF open = {} THEN "GET" ELSE script.answers[CHOOSE i \in open : \A j \in open : i <= j]

FeedPiece(n) ==
  /\ closed = "no" /\ fed + n <= Len(Stream)
  /\ \A i \in DOMAIN script.ids : Final(i) /\ FrameEnd(i) > fed => fed + n <= FrameEnd(i)
  /\ LET p == IF ~script.request /\ Idle(parser) THEN ExpectResponseTo(parser, Answering) ELSE parser
         r == FeedStream(p, SubSeq(Stream, fed + 1, fed + n))
     IN  parser' = r.p /\ parsed' = parsed \o r.done
  /\ fed' = fed + n
  /\ UNCHANGED <<script, closed>>

CloseStream(how) ==
  /\ closed = "no" /\ closed' = how
  /\ LET r == Finish(parser, how = "peer") IN parser' = r.p /\ parsed' = parsed \o r.done
  /\ UNCHANGED <<script, fed>>

Http1Init ==
  /\ script \in Scripts
  /\ fed = 0 /\ parsed = <<>> /\ closed = "no"
  /\ parser = NewStream(script.request)

Http1Next ==
  \/ \E n \in 1 .. Len(Stream) : FeedPiece(n)
  \/ \E how \in {"peer", "local"} : CloseStream(how)

-----------------------------------------------------------------------------
(***************************************************************************)
(* What should come out, from the script alone.                            *)
(***************************************************************************)
Ends(i) ==
  LET m == Messages[script.ids[i]]
  IN  IF m.framing \in {"bad", "endless"} THEN "fails"
      ELSE IF ~script.request /\ script.answers[i] = "CONNECT" /\ m.code = 200 THEN "tunnels"
      ELSE IF ~script.request /\ m.framing = "none" /\ m.code \notin {100, 204} /\ script.answers[i] # "HEAD"
      THEN "open" ELSE "done"

Comes(i) == \A j \in 1 .. i - 1 : Ends(j) = "done"
Expected(i) ==
  LET m == Messages[script.ids[i]]
      n == IF Bodiless(i) THEN 0 ELSE m.body
  IN  [id |-> script.ids[i], got |-> IF n < BodyCap THEN n ELSE BodyCap, cut |-> n > BodyCap, short |-> FALSE, odd |-> FALSE]
HeadEnd(i) == Len(Upto(i - 1)) + 2
WholeScript == {i \in DOMAIN script.ids : fed > 0 /\ Comes(i) /\ Ends(i) \in {"done", "tunnels"} /\ FrameEnd(i) <= fed}

\* Wherever the reads are cut, the parser has produced exactly the messages whose last
\* unit has arrived, each with its own body and cut only by the body cap: nothing is
\* framed twice, out of a tunnel, or after the stream stopped being HTTP.
MessagesAsSent ==
  closed = "no" => parsed = [i \in 1 .. Cardinality(WholeScript) |-> Expected(i)]

\* A response carved off at the end of its connection is called whole exactly when all of
\* its body came and, where only the end can say so, the end was the peer's.
EndIsHonest ==
  closed # "no" /\ Len(parsed) > Cardinality(WholeScript) =>
    LET i == Cardinality(WholeScript) + 1
        m == Messages[script.ids[i]]
        body == {k \in HeadEnd(i) + 1 .. fed : Stream[k][1] = "d"}
        seen == Cardinality(body)
        ended == IF m.framing = "none" THEN closed = "peer"
                 ELSE m.framing = "chunked" /\ fed >= HeadEnd(i) + m.body + 8
    IN  /\ parsed[i].id = script.ids[i]
        /\ parsed[i].short <=> ~ended
        /\ parsed[i].got = IF seen < BodyCap THEN seen ELSE BodyCap

\* What the parser holds between reads stays within its bound.
ResidueBounded == Len(parser.buf) <= BufferCap

\* Where a stream is cut into reads makes no difference: the messages are those that were
\* sent, the last one says how it ended, and what is held back is bounded.
ParsedIsSent == MessagesAsSent /\ EndIsHonest /\ ResidueBounded

=============================================================================
