---------------------------- MODULE Http1Pairing ----------------------------
(***************************************************************************)
(* Which request an HTTP/1 reply answers (_http1_requests.py) and the      *)
(* tracker that asks (_Http1Tracker, _trackers.py), over the parsers of    *)
(* Http1Stream.  A server may answer a request that is still being         *)
(* written, and a client may write where the seam cannot see.              *)
(***************************************************************************)
EXTENDS Http1Stream

CONSTANTS
  Reqs,       \* message ids a request may have, each used once
  Looks,      \* the ids whose body reads as another request
  Decoy,      \* that other request: no client sends it
  Interim,    \* the id of a 1xx that is no upgrade
  RepliesTo   \* for each place in the connection, the ids its reply may have

Places == DOMAIN RepliesTo
ClientMethods == {"GET", "POST", "HEAD", "CONNECT", "UPGRADE"}
HeadOf(id) == <<<<"h", 0>>, <<"H", id>>>>
BodyOf(id) == IF id \in Looks THEN HeadOf(Decoy) ELSE DataUnits(Messages[id].body)
RequestUnits(id) == HeadOf(id) \o BodyOf(id)

(***************************************************************************)
(* _Reading: one parse of the request bytes.  An issue is the place of the *)
(* request whose sender was running, 0 for none.                           *)
(***************************************************************************)
NewReading == [p |-> NewStream(TRUE), issue |-> 0, req |-> NoMsg, orphan |-> FALSE]
NoReading == [NewReading EXCEPT !.issue = -1]
Waiting(r) == r.req # NoMsg

\* _Reading.feed(): the first message that ends while orphaned is the late rest.
ReadingAfter(r, f, who) ==
  LET mine == IF r.orphan /\ f.done # <<>> THEN Tail(f.done) ELSE f.done
      orphan == r.orphan /\ f.done = <<>> /\ ~Off(f.p)
      req == IF mine = <<>> THEN r.req ELSE mine[Len(mine)]
      begun == ~r.orphan \/ (~orphan /\ (req # NoMsg \/ ~Idle(f.p)))
  IN  [p |-> f.p, orphan |-> orphan, req |-> req,
       issue |-> IF r.issue = 0 /\ begun THEN who ELSE r.issue]

FeedReading(r, units, who) == ReadingAfter(r, FeedStream(r.p, units), who)

Claim(r) ==
  LET m == MethodInFlight(r.p)
  IN  IF r.orphan THEN 0
      ELSE IF m # "none" THEN (IF m \in ClientMethods THEN 2 ELSE 1)
      ELSE IF ~Waiting(r) \/ ~Idle(r.p) THEN 0
      ELSE IF MethodOf(r.req) \in ClientMethods THEN 3 ELSE 1

Methods(r) == <<IF Waiting(r) THEN MethodOf(r.req) ELSE "none", MethodInFlight(r.p)>>

(***************************************************************************)
(* RequestSide: the reading, the other one while the stream has not        *)
(* decided, no byte yet since an orphaning reply, and a tie between two    *)
(* methods.                                                                *)
(***************************************************************************)
NewSide == [reading |-> NewReading, fresh |-> NoReading, just |-> FALSE, tied |-> FALSE]

OpensLikeARequest(units) == units[1][1] = "h"

\* The two readings fed: a dead one leaves the other alone.
SideAfter(s, fresh, reading) ==
  LET both == [s EXCEPT !.just = FALSE, !.fresh = fresh, !.reading = reading]
  IN  IF fresh = NoReading THEN both
      ELSE IF Off(fresh.p) THEN [both EXCEPT !.fresh = NoReading]
      ELSE IF Off(reading.p) THEN [both EXCEPT !.reading = fresh, !.fresh = NoReading]
      ELSE both

FeedSide(s, units, who) ==
  LET opened == IF s.just /\ OpensLikeARequest(units) THEN NewReading ELSE s.fresh
      fresh == IF opened = NoReading THEN NoReading ELSE FeedReading(opened, units, who)
  IN  SideAfter(s, fresh, FeedReading(s.reading, units, who))

\* A tie given to the bytes that look like a request.
DecideFresh(s) ==
  IF s.fresh = NoReading THEN s
  ELSE [s EXCEPT !.fresh = NoReading, !.reading = IF Claim(s.fresh) < Claim(s.reading) THEN @ ELSE s.fresh]

Decide(s) ==
  IF s.fresh = NoReading THEN s
  ELSE LET mine == Claim(s.reading)
           theirs == Claim(s.fresh)
           guess == mine = theirs /\ mine > 0 /\ Methods(s.reading) # Methods(s.fresh)
       IN  [s EXCEPT !.fresh = NoReading, !.tied = @ \/ guess,
                     !.reading = IF theirs <= mine THEN @ ELSE s.fresh]

MethodOfSide(s) == IF ~Waiting(s.reading) \/ s.tied THEN "" ELSE MethodOf(s.reading.req)

\* take(): [half, req, issue, how]: the pairing, and the counter it bumps.
How(r) ==
  CASE Waiting(r) \/ Off(r.p) -> "paired"
    [] r.issue = 0 -> "request_unobserved"
    [] OTHER -> "request_unfinished"

Taken(s, r, how) ==
  LET left == [r EXCEPT !.req = NoMsg, !.issue = 0, !.orphan = @ \/ how = "request_unfinished"]
  IN  [half |-> [s EXCEPT !.reading = left, !.tied = FALSE, !.just = @ \/ how = "request_unfinished"],
       req |-> r.req, issue |-> r.issue, how |-> how]

TakeRequest(s) == LET d == Decide(s) IN Taken(d, d.reading, How(d.reading))

ReleaseConn(s) == [s EXCEPT !.reading.req = NoMsg, !.reading.orphan = FALSE, !.just = FALSE,
                        !.tied = FALSE, !.fresh = NoReading]

(***************************************************************************)
(* _Http1Tracker: the request half, the response parser, the latch of an   *)
(* asked-for upgrade, what it emitted and what it only counted.            *)
(***************************************************************************)
VARIABLES
  half, resp, expectWs,
  emitted,      \* transactions: [reply, req, issue, short]
  uncounted,    \* replies that emitted nothing: "tunnel" or the counter they bumped
  asked,        \* the requests of the connection so far
  sent,         \* units of the current one that left
  hidden,       \* what left where the seam does not see: among "body", "request"
  replied,      \* for each request, the id of its final reply or 0
  arrived,          \* units of the current reply that arrived
  conn          \* "open", "closed", "upgraded" or "retired"

pairVars == <<half, resp, expectWs, emitted, uncounted, asked, sent, hidden, replied, arrived, conn>>

PairInit ==
  /\ half = NewSide /\ resp = NewStream(FALSE) /\ expectWs = FALSE
  /\ emitted = <<>> /\ uncounted = <<>>
  /\ asked = <<>> /\ sent = 0 /\ hidden = {} /\ replied = <<>> /\ arrived = 0 /\ conn = "open"

UpgradeRequested(s) == Waiting(s.reading) /\ MethodOf(s.reading.req) = "UPGRADE"
At == Len(asked)
WholeReply(id) == Len(RequestUnits(id))
Tunnels(id) == Messages[asked[At]].method = "CONNECT" /\ Messages[id].code = 200
BodilessReply(id) == Messages[asked[At]].method = "HEAD" \/ Tunnels(id) \/ Messages[id].code = 101
\* What a server may answer with: an upgrade only what asked for one.
MayAnswer(id) == id \in RepliesTo[At] /\ (Messages[id].code = 101 => Messages[asked[At]].method = "UPGRADE")
ReplyUnits == UnitsOf(replied[At], BodilessReply(replied[At]))
Framed == BodilessReply(replied[At]) \/ Messages[replied[At]].framing # "none"
Replied == replied # <<>> /\ Len(replied) = At /\ arrived = Len(ReplyUnits) /\ Framed
Quiet == asked = <<>> \/ (conn = "open" /\ Replied /\ ~Tunnels(replied[At]))

\* The seam sees units of the connection: the request half reads them.
SeeRequest(units, who) ==
  IF units = <<>> THEN UNCHANGED <<half, expectWs>>
  ELSE /\ half' = FeedSide(half, units, who)
       /\ expectWs' = UpgradeRequested(half')

\* More of the current request; a whole body may go by unseen (os.sendfile).
SendMore(n, seen) ==
  /\ conn = "open" /\ asked # <<>> /\ sent + n <= WholeReply(asked[At])
  /\ seen \/ (sent = 2 /\ sent + n = WholeReply(asked[At]))
  /\ IF seen THEN SeeRequest(SubSeq(RequestUnits(asked[At]), sent + 1, sent + n), At)
     ELSE UNCHANGED <<half, expectWs>>
  /\ hidden' = IF seen THEN hidden ELSE hidden \cup {"body"}
  /\ sent' = sent + n
  /\ UNCHANGED <<resp, emitted, uncounted, asked, replied, arrived, conn>>

\* The next request begins once the last was answered; what was left of that one goes
\* first, in the same write when the write queue held it.  A request may go by unseen whole
\* (os.write on the descriptor).
SendNext(id, n, seen) ==
  /\ At < Len(RepliesTo) /\ id \notin {asked[i] : i \in DOMAIN asked} /\ n <= WholeReply(id)
  /\ seen \/ n = WholeReply(id)
  /\ Quiet
  /\ LET rest == IF asked = <<>> THEN <<>> ELSE SubSeq(RequestUnits(asked[At]), sent + 1, WholeReply(asked[At]))
     IN  IF seen THEN SeeRequest(rest \o SubSeq(RequestUnits(id), 1, n), At + 1)
         ELSE UNCHANGED <<half, expectWs>>
  /\ asked' = Append(asked, id) /\ sent' = n /\ arrived' = 0
  /\ hidden' = IF seen THEN hidden ELSE hidden \cup {"request"}
  /\ UNCHANGED <<resp, emitted, uncounted, replied, conn>>

\* One final message: an upgrade, a tunnel, a transaction or a counted nothing.
Txn(msg, t, issue) == [reply |-> msg.id, req |-> t, issue |-> issue, short |-> msg.short]

AnswerWith(msg, s, t, upgrading) ==
  LET code == Messages[msg.id].code
  IN  IF upgrading /\ code = 101
      THEN /\ emitted' = Append(emitted, Txn(msg, s.reading.req, s.reading.issue))
           /\ half' = s /\ conn' = "upgraded" /\ UNCHANGED uncounted
      ELSE IF code = 101 THEN half' = s /\ UNCHANGED <<emitted, uncounted, conn>>
      ELSE /\ half' = t.half /\ UNCHANGED conn
           /\ IF MethodOfSide(s) = "CONNECT" /\ code = 200 THEN uncounted' = Append(uncounted, "tunnel") /\ UNCHANGED emitted
              ELSE IF t.how = "request_unobserved" THEN uncounted' = Append(uncounted, t.how) /\ UNCHANGED emitted
              ELSE emitted' = Append(emitted, Txn(msg, t.req, t.issue)) /\ UNCHANGED uncounted

\* The response parser after a read: what it read, and the final message in it if any.
Parsed(f, s, settled) ==
  /\ resp' = f.p
  /\ IF f.done = <<>> THEN half' = s /\ expectWs' = settled /\ UNCHANGED <<emitted, uncounted, conn>>
     ELSE AnswerWith(f.done[1], s, TakeRequest(s), settled) /\ expectWs' = FALSE

\* on_response_bytes(): the bytes of a reply settle which request waits.
RecvReply(id, n) ==
  /\ conn = "open" /\ asked # <<>> /\ sent >= 2
  /\ IF Len(replied) = At THEN id = replied[At] /\ ~Replied /\ UNCHANGED replied
     ELSE MayAnswer(id) /\ replied' = Append(replied, id)
  /\ LET units == UnitsOf(id, BodilessReply(id))
         s == Decide(half)
         p == IF Idle(resp) THEN ExpectResponseTo(resp, MethodOfSide(s)) ELSE resp
         settled == IF s.reading = half.reading THEN expectWs ELSE UpgradeRequested(s)
     IN  /\ arrived + n <= Len(units) /\ arrived' = arrived + n
         /\ Parsed(FeedStream(p, SubSeq(units, arrived + 1, arrived + n)), s, settled)
  /\ UNCHANGED <<asked, sent, hidden>>

\* An interim reply leaves its request waiting.
RecvInterim ==
  /\ conn = "open" /\ asked # <<>> /\ sent >= 2 /\ Len(replied) < At
  /\ LET s == Decide(half)
         p == IF Idle(resp) THEN ExpectResponseTo(resp, MethodOfSide(s)) ELSE resp
     IN  /\ resp' = FeedStream(p, HeadOf(Interim)).p
         /\ half' = s
         /\ expectWs' = IF s.reading = half.reading THEN expectWs ELSE UpgradeRequested(s)
  /\ UNCHANGED <<emitted, uncounted, asked, sent, hidden, replied, arrived, conn>>

\* The end of the connection: the peer's, seen by a read, or ours.
EndReply(peer) ==
  LET f == Finish(resp, peer)
  IN  /\ conn = "open"
      /\ IF f.done = <<>> THEN half' = ReleaseConn(half) /\ UNCHANGED <<emitted, uncounted>>
         ELSE LET t == TakeRequest(half)
              IN  /\ half' = ReleaseConn(t.half)
                  /\ IF t.how = "request_unobserved" THEN uncounted' = Append(uncounted, t.how) /\ UNCHANGED emitted
                     ELSE emitted' = Append(emitted, Txn(f.done[1], t.req, t.issue)) /\ UNCHANGED uncounted
      /\ resp' = f.p /\ conn' = "closed" /\ expectWs' = FALSE
      /\ UNCHANGED <<asked, sent, hidden, replied, arrived>>

\* The FIFO cap or uninstall(): nothing ended, nothing ships.
RetireConn ==
  /\ conn = "open" /\ conn' = "retired" /\ half' = ReleaseConn(half)
  /\ UNCHANGED <<resp, expectWs, emitted, uncounted, asked, sent, hidden, replied, arrived>>

PairNext ==
  \/ \E n \in 1 .. 4, seen \in BOOLEAN : SendMore(n, seen)
  \/ \E id \in Reqs, n \in 1 .. 4, seen \in BOOLEAN : SendNext(id, n, seen)
  \/ \E id \in UNION {RepliesTo[i] : i \in Places}, n \in 1 .. 4 : RecvReply(id, n)
  \/ RecvInterim
  \/ \E peer \in BOOLEAN : EndReply(peer)
  \/ RetireConn

-----------------------------------------------------------------------------
PlaceOf(reply) == CHOOSE i \in Places : reply \in RepliesTo[i]

\* What the bytes can tell apart: every request was begun in sight, and a body that went by
\* unseen did so on a connection whose bodies do not read as requests.
Telling == "request" \notin hidden /\ ("body" \in hidden => \A i \in DOMAIN asked : asked[i] \notin Looks)

\* Where the bytes can tell, a reply is paired with its own request or with none: never with
\* the late rest of an early-answered upload, with a body that reads like a request, or with
\* the tail of a request the parser took for the rest of one that went by unseen.
PairsWithItsRequest ==
  Telling => \A i \in DOMAIN emitted :
    emitted[i].req # NoMsg => emitted[i].req.id = asked[PlaceOf(emitted[i].reply)] /\ ~emitted[i].req.odd

\* A transaction whose request was begun in sight carries its own sender's identity, never
\* that of the request before or after it on the connection.
IssueIsOwn == Telling => \A i \in DOMAIN emitted : emitted[i].issue = PlaceOf(emitted[i].reply)

\* Every answered request comes out exactly once: emitted, counted as unseen, or a tunnel.
\* A reply is never swallowed as the body of the one before it.
RepliesAccounted ==
  Telling /\ Quiet => Len(emitted) + Len(uncounted) = Len(replied)

\* Early, interim and unseen traffic included, a reply is filed under the request it
\* answers with that request's issuer, or under none with the reason counted.
RepliesPaired == PairsWithItsRequest /\ IssueIsOwn /\ RepliesAccounted

=============================================================================
