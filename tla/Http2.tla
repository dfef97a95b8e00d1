------------------------------- MODULE Http2 -------------------------------
(***************************************************************************)
(* One HTTP/2 connection as the capture sees it: the stream table of the   *)
(* parser (wardex-protocol/src/http2.rs) and the parent latch of the       *)
(* tracker above it (_interceptors/_trackers.py, _Http2Tracker), both held *)
(* to max_streams, lowest id first.  The host opens streams in order and   *)
(* ends, answers and resets them in any order; capture may attach when     *)
(* some are open already.                                                  *)
(***************************************************************************)
EXTENDS Integers, FiniteSets, FiniteSetsExt

CONSTANTS
  H2Streams,    \* client stream ids: odd, increasing
  MaxStreams,   \* max_streams
  OldStreams,   \* bound: streams that may be open when capture attaches
  LateStreams,  \* bound: streams of a connection that had some open then
  Parented      \* bound: streams whose request may carry a parent

ASSUME Http2Assumption == H2Streams \subseteq Nat \ {0} /\ MaxStreams \in Nat \ {0}

VARIABLES
  wire,    \* wire[s]: what really happened to s: [req, resp, rst, parent, old]
  ent,     \* ent[s]: the parser's entry, in `streams`, in `orphans` or in none
  h2,      \* the parser: [attached, off, through, first, reset, pending];
           \* history: forgot, the resets its bounded memory dropped
  latch,   \* latch[s]: the tracker's entry: "none", "root" or "parent"
  mark,    \* the tracker's memory of evictions: [first, below, adm], and the
           \* streams its counter of forgotten parents stands for
  last     \* history: the transaction the last step made, if any

h2Vars == <<wire, ent, h2, latch, mark, last>>

NoEntry == [at |-> "none", method |-> FALSE, status |-> FALSE, reqEnded |-> FALSE,
            seen |-> FALSE, evicted |-> FALSE]
Held(e, where) == {s \in H2Streams : e[s].at = where}
Lowest(S) == IF Cardinality(S) > MaxStreams THEN {Min(S)} ELSE {}

(***************************************************************************)
(* The parser.                                                             *)
(***************************************************************************)

\* An id the table evicted with its request half: absent, and inside the marks.
WasEvicted(s) ==
  \/ ent[s].at = "orphans"
  \/ ent[s].at = "none" /\ h2.first # 0 /\ h2.first <= s /\ s <= h2.through

\* stream(): the entry, created in the table it belongs to.
Entry(s) ==
  IF ent[s].at # "none" THEN ent[s]
  ELSE [NoEntry EXCEPT !.at = IF WasEvicted(s) THEN "orphans" ELSE "streams", !.evicted = WasEvicted(s)]

\* A frame creates one entry at most, so one eviction per table is enough.
EvictPastBound(e) ==
  [s \in H2Streams |-> IF s \in Lowest(Held(e, "streams")) \union Lowest(Held(e, "orphans"))
                       THEN NoEntry ELSE e[s]]

EvictedThrough(e) == Max({h2.through} \union {s \in Lowest(Held(e, "streams")) : e[s].seen})

(***************************************************************************)
(* The tracker: an announced stream is latched, and the lowest id goes.    *)
(***************************************************************************)
\* A cap that drops a parent and does not remember that it did.
LatchForgets(l, m) ==
  LET gone == Lowest({s \in H2Streams : l[s] # "none"})
  IN  [latch |-> [s \in H2Streams |-> IF s \in gone THEN "none" ELSE l[s]],
       mark |-> [m EXCEPT !.below = Max({@} \union gone)]]

LatchEvict(l, m) ==
  LET gone == Lowest({s \in H2Streams : l[s] # "none"})
      adm == m.adm \union {s \in gone : l[s] = "parent"}
  IN  [latch |-> [s \in H2Streams |-> IF s \in gone THEN "none" ELSE l[s]],
       mark |-> [m EXCEPT !.below = Max({@} \union gone),
                          !.adm = adm \ Lowest(adm),
                          !.forgotten = @ \union Lowest(adm)]]

LatchOpened(s, p) ==
  LatchEvict([latch EXCEPT ![s] = IF p THEN "parent" ELSE "root"],
             [mark EXCEPT !.first = IF @ = 0 THEN s ELSE Min({@, s})])

\* _mk(): the latched parent or, without one, whether the cap took it and whether it
\* would have admitted the span.  early and cancelled are history.
Mk(s, e) ==
  LET none == latch[s] = "none"
  IN  [sid |-> s, method |-> e.method, status |-> e.status, evicted |-> e.evicted,
       parent |-> latch[s],
       pevicted |-> none /\ mark.first <= s /\ s <= mark.below,
       plost |-> none /\ s \in mark.adm,
       early |-> wire[s].req = "open", cancelled |-> wire[s].rst]

\* _ship(): a degenerate transaction and one whose request was never seen are left out.
Ships(t) == t.status /\ (t.method \/ t.evicted)

(***************************************************************************)
(* feed(): one frame through parser and tracker; e is the stream's entry   *)
(* with the frame applied.  mark_ended() announces a request's end once    *)
(* and completes the transaction at the end of the response.               *)
(***************************************************************************)
Watching == h2.attached /\ ~h2.off
Unseen == last' = {} /\ UNCHANGED <<ent, h2, latch, mark>>

Feed(client, s, e, end, p) ==
  LET done == end /\ ~client
      all == [ent EXCEPT ![s] = IF done THEN NoEntry ELSE [e EXCEPT !.reqEnded = @ \/ (end /\ client)]]
      l == LatchOpened(s, p)
  IN  /\ ent' = EvictPastBound(all)
      /\ h2' = [h2 EXCEPT !.through = EvictedThrough(all), !.pending = @ \ {s},
                          !.first = IF @ = 0 /\ client /\ e.seen THEN s ELSE @]
      /\ \/ /\ client /\ end /\ ~e.reqEnded
            /\ latch' = l.latch /\ mark' = l.mark
            /\ last' = {}
         \/ /\ done
            /\ last' = {Mk(s, e)}
            /\ latch' = [latch EXCEPT ![s] = "none"]
            /\ mark' = IF latch[s] = "none" THEN [mark EXCEPT !.adm = @ \ {s}] ELSE mark
         \/ /\ ~done /\ ~(client /\ end /\ ~e.reqEnded)
            /\ last' = {}
            /\ UNCHANGED <<latch, mark>>

\* A header block: one of a reset stream is decoded and dropped.
Block(client, s, end, p) ==
  IF ~Watching THEN Unseen
  ELSE IF s \in h2.reset
  THEN h2' = [h2 EXCEPT !.pending = @ \ {s}] /\ last' = {} /\ UNCHANGED <<ent, latch, mark>>
  ELSE LET e == Entry(s)
       IN  Feed(client, s, IF client THEN [e EXCEPT !.method = TRUE, !.seen = TRUE]
                           ELSE [e EXCEPT !.status = TRUE], end, p)

Data(client, s, end) ==
  IF ~Watching \/ s \in h2.reset THEN Unseen ELSE Feed(client, s, Entry(s), end, wire[s].parent)

(***************************************************************************)
(* Steps of the two peers.                                                 *)
(***************************************************************************)
ClientOpens(s, end, p) ==
  /\ wire[s].req = "none" /\ \A r \in H2Streams : r < s => wire[r].req # "none"
  /\ wire' = [wire EXCEPT ![s].req = IF end THEN "ended" ELSE "open", ![s].parent = p,
                          ![s].old = ~h2.attached]
  /\ h2.attached \/ s \in OldStreams
  /\ (\E r \in H2Streams : wire[r].old) => s \in LateStreams
  /\ Block(TRUE, s, end, p)

ClientData(s, end) ==
  /\ wire[s].req = "open" /\ ~wire[s].rst
  /\ wire' = [wire EXCEPT ![s].req = IF end THEN "ended" ELSE @]
  /\ Data(TRUE, s, end)

ServerHeaders(s, end) ==
  /\ wire[s].req # "none" /\ wire[s].resp = "none"
  /\ wire' = [wire EXCEPT ![s].resp = IF end THEN "ended" ELSE "open"]
  /\ Block(FALSE, s, end, FALSE)

ServerData(s, end) ==
  /\ wire[s].resp = "open"
  /\ wire' = [wire EXCEPT ![s].resp = IF end THEN "ended" ELSE @]
  /\ Data(FALSE, s, end)

RememberReset(s) == (h2.reset \union {s}) \ Lowest(h2.reset \union {s})

\* The client cancels; frames of the server may still be on their way.
ClientResets(s) ==
  /\ wire[s].req # "none" /\ ~wire[s].rst /\ wire[s].resp # "ended"
  /\ wire' = [wire EXCEPT ![s].rst = TRUE]
  /\ IF ~Watching THEN Unseen
     ELSE /\ ent' = [ent EXCEPT ![s] = NoEntry]
          /\ h2' = [h2 EXCEPT !.reset = RememberReset(s), !.pending = @ \ {s},
                              !.forgot = @ \union Lowest(h2.reset \union {s})]
          /\ last' = {}
          /\ UNCHANGED <<latch, mark>>

\* A header block in two frames waits for its second one; too many of them, or a
\* block that cannot be decoded, and the connection is off for good.
Disable == /\ h2' = [h2 EXCEPT !.off = TRUE, !.pending = {}]
           /\ ent' = [s \in H2Streams |-> NoEntry]

ServerSplitBlock(s) ==
  /\ Watching /\ wire[s].req # "none" /\ wire[s].resp = "none" /\ s \notin h2.pending
  /\ \/ /\ Cardinality(h2.pending) < MaxStreams
        /\ h2' = [h2 EXCEPT !.pending = @ \union {s}]
        /\ UNCHANGED ent
     \/ Cardinality(h2.pending) >= MaxStreams /\ Disable
  /\ last' = {} /\ UNCHANGED <<wire, latch, mark>>

BadBlock == Watching /\ Disable /\ last' = {} /\ UNCHANGED <<wire, latch, mark>>

H2Attach ==
  /\ ~h2.attached
  /\ h2' = [h2 EXCEPT !.attached = TRUE]
  /\ last' = {} /\ UNCHANGED <<wire, ent, latch, mark>>

\* on_connection_close(): the tables go with the connection.
H2Close ==
  /\ Watching
  /\ h2' = [h2 EXCEPT !.off = TRUE]
  /\ latch' = [s \in H2Streams |-> "none"]
  /\ mark' = [mark EXCEPT !.first = 0, !.below = 0, !.adm = {}]
  /\ last' = {} /\ UNCHANGED <<wire, ent>>

H2Init ==
  /\ wire = [s \in H2Streams |-> [req |-> "none", resp |-> "none", rst |-> FALSE, parent |-> FALSE, old |-> FALSE]]
  /\ ent = [s \in H2Streams |-> NoEntry]
  /\ h2 = [attached |-> FALSE, off |-> FALSE, through |-> 0, first |-> 0, reset |-> {}, pending |-> {},
           forgot |-> {}]
  /\ latch = [s \in H2Streams |-> "none"]
  /\ mark = [first |-> 0, below |-> 0, adm |-> {}, forgotten |-> {}]
  /\ last = {}

\* What passes on a connection that is off is not followed any further.
H2Next ==
  ~h2.off /\ (
  \/ \E s \in H2Streams, end \in BOOLEAN :
       \/ \E p \in BOOLEAN : (p => s \in Parented) /\ ClientOpens(s, end, p)
       \/ ClientData(s, end) \/ ServerHeaders(s, end) \/ ServerData(s, end)
  \/ \E s \in H2Streams : ClientResets(s) \/ ServerSplitBlock(s)
  \/ BadBlock \/ H2Attach \/ H2Close)

-----------------------------------------------------------------------------
\* Every table the connection grows stays within max_streams, whatever the peers do.
H2Bounded ==
  /\ \A where \in {"streams", "orphans"} : Cardinality(Held(ent, where)) <= MaxStreams
  /\ Cardinality({s \in H2Streams : latch[s] # "none"}) <= MaxStreams
  /\ \A S \in {h2.reset, h2.pending, mark.adm} : Cardinality(S) <= MaxStreams

\* A response that completes without its request says which loss that was: flagged as
\* evicted when the bound took a request the parser had seen, and counted as unobserved
\* only for a stream opened before capture attached.
LostRequestIsSaid ==
  \A t \in last : t.status /\ ~t.method /\ ~t.cancelled /\ ~wire[t.sid].old => t.evicted

\* A cancelled call never ships a span from frames that were still in flight, as long as
\* the parser's bounded memory holds the reset.
CancelledStaysSilent ==
  \A t \in last : t.cancelled /\ Ships(t) /\ ~wire[t.sid].old => t.sid \in h2.forgot

\* A call that ships without the parent it was issued under says that the cap took it,
\* and the capture gate is told unless the loss is counted.  Only an answer that
\* overtakes the end of its request has no latch to lose.
LostParentIsSaid ==
  \A t \in last :
    /\ Ships(t) /\ t.parent = "none" /\ ~t.early /\ ~t.cancelled /\ ~wire[t.sid].old
    => t.pevicted /\ (wire[t.sid].parent => t.plost \/ t.sid \in mark.forgotten)

\* With more streams than the tables hold, answers before the request's end and resets on
\* either side: the tables stay bounded and in step, and what they forgot is said.
StreamsAreTrue ==
  /\ H2Bounded
  /\ LostRequestIsSaid
  /\ CancelledStaysSilent
  /\ LostParentIsSaid

=============================================================================
