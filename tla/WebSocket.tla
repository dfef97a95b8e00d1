------------------------------ MODULE WebSocket ------------------------------
(***************************************************************************)
(* One WebSocket session: the frame parser of each direction               *)
(* (crates/wardex-protocol/src/websocket.rs, WsParser) and the tracker     *)
(* that counts, samples and ends the session (_interceptors/_trackers.py,  *)
(* _WebSocketTracker).                                                     *)
(*                                                                         *)
(* Each direction's bytes arrive in reads cut anywhere.  A frame is a      *)
(* header unit and its payload units; masking and length encodings are     *)
(* left out.  A payload unit is named by its frame and offset, so that     *)
(* what is kept can be compared with what was sent.                        *)
(***************************************************************************)
EXTENDS Naturals, Sequences, FiniteSets, SequencesExt, FiniteSetsExt

CONSTANTS
    WsScripts,     \* the frame sequences a direction may carry, by number
    MaxFrame,      \* max_ws_frame_bytes
    SampleCap,     \* ws_sample_bytes
    Issuers        \* the scopes a write may be issued under

ASSUME WsConstants == MaxFrame \in Nat /\ SampleCap \in Nat

Sides == {"sent", "received"}
DataOps == {"text", "binary"}

VARIABLES
    side,          \* each direction's script, parser and counts
    closeFrom,     \* _close_from
    wsScope,       \* _scope: who issued every message so far, or "unknown"
    wsWriters,     \* who really completed a message
    llm,           \* _llm_upgrade and what _decide_llm made of it
    wsSpans        \* the spans built

wsVars == <<side, closeFrom, wsScope, wsWriters, llm, wsSpans>>

FrameUnits(f) == 1 + f.len
Payload(i, f) == [j \in 1 .. f.len |-> <<i, j>>]
CapSeq(s, n) == SubSeq(s, 1, Min({Len(s), n}))

(***************************************************************************)
(* WsParser                                                                *)
(***************************************************************************)
\* append_frag: a message is reassembled only up to the sample cap.
AppendFrag(held, payload) == CapSeq(held \o payload, SampleCap)

\* The opcode arm of try_parse_one: a data frame opens a message, a continuation joins the open
\* one, and the final one completes it; control frames in between leave it alone.
Assemble(p, i) ==
    LET f == WsScripts[p.script][i]
        opens == f.op \in DataOps
        joins == f.op = "continuation" /\ p.fragOpen
        held == AppendFrag(IF opens THEN <<>> ELSE p.frag, Payload(i, f))
    IN IF ~(opens \/ joins) THEN p
       ELSE [p EXCEPT !.frag = IF f.fin THEN <<>> ELSE held,
                      !.fragOpen = ~f.fin,
                      !.out = IF f.fin THEN Append(@, held) ELSE @]

\* try_parse_one: an oversize frame is refused at its header; a frame is read when all of it is here.
TryParseOne(p) ==
    LET i == p.parsed + 1
        f == WsScripts[p.script][i]
    IN IF p.buf = 0 THEN p
       ELSE IF f.len > MaxFrame THEN [p EXCEPT !.off = TRUE, !.buf = 0]
       ELSE IF p.buf < FrameUnits(f) THEN p
       ELSE [Assemble(p, i) EXCEPT !.parsed = i, !.buf = @ - FrameUnits(f), !.bytes = @ + f.len,
                                   !.closed = @ \/ f.op = "close"]

Received(p, n) == [p EXCEPT !.buf = IF p.off THEN 0 ELSE @ + n, !.arrived = @ + n]

\* WsParser.feed: parse until more bytes are needed; a disabled parser takes none.  `out` holds
\* this read's messages.
WsFeed(p, n) ==
    FoldLeft(LAMBDA q, i : TryParseOne(q), Received(p, n), [i \in 1 .. Len(WsScripts[p.script]) |-> i])

(***************************************************************************)
(* What a session is by its frames, however they are read                  *)
(***************************************************************************)
Units(script, k) == FoldLeft(LAMBDA n, f : n + FrameUnits(f), 0, SubSeq(script, 1, k))

\* The frames of a script that are whole after n units; a frame past the bound ends it.
Whole(script, n) ==
    {k \in DOMAIN script : Units(script, k) <= n /\ \A j \in 1 .. k : script[j].len <= MaxFrame}

\* The first frame of the message frame k belongs to: the last data frame at or before it.
Opener(script, k) == Max({j \in 1 .. k : script[j].op \in DataOps})
InMessage(f) == f.op \in DataOps \cup {"continuation"}
EndsMessage(script, k) ==
    /\ script[k].fin /\ InMessage(script[k])
    /\ \E j \in 1 .. k : script[j].op \in DataOps
    /\ \A j \in Opener(script, k) .. k - 1 : InMessage(script[j]) => ~script[j].fin

Join(places, S, piece(_)) ==
    FoldLeft(LAMBDA acc, k : IF k \in S THEN acc \o piece(k) ELSE acc, <<>>, places)
Conversation(script, ends) ==
    LET places == [i \in DOMAIN script |-> i]
        message(k) == Join(places, {j \in Opener(script, k) .. k : InMessage(script[j])}, LAMBDA j : Payload(j, script[j]))
    IN Join(places, ends, message)

\* Counts, start of the conversation and Close of each script after each number of units.
Said ==
    [i \in DOMAIN WsScripts |-> [n \in 0 .. Units(WsScripts[i], Len(WsScripts[i])) |->
        LET script == WsScripts[i]
            whole == Whole(script, n)
            ends == {k \in whole : EndsMessage(script, k)}
        IN [bytes |-> MapThenSumSet(LAMBDA k : script[k].len, whole), msgs |-> Cardinality(ends),
            sample |-> CapSeq(Conversation(script, ends), SampleCap),
            closed |-> \E k \in whole : script[k].op = "close"]]]
SaidBy(p) == Said[p.script][p.arrived]

(***************************************************************************)
(* _WebSocketTracker                                                       *)
(***************************************************************************)
\* _append_sample: messages up to the cap, and whether something was left out.
AppendSample(p, messages) ==
    LET add(acc, m) ==
            LET room == SampleCap - Len(acc.sample)
            IN [acc EXCEPT !.sample = @ \o CapSeq(m, room),
                           !.cut = @ \/ room = 0 \/ Len(m) > room]
    IN FoldLeft(add, p, messages)

\* The counts of on_request_bytes and on_response_bytes.
Counted(p, n) ==
    LET read == WsFeed(p, n)
    IN [AppendSample(read, read.out) EXCEPT !.msgs = @ + Len(read.out)]

\* _build_txn: a span, with the marker of whatever ended the session.  `said`, `closers` and
\* `flushed` are history: what had crossed by then, and whether the connection was gone.
BuildTxn(sides, marker, flushed) ==
    [said |-> [s \in Sides |-> SaidBy(sides[s]).msgs], closers |-> {s \in Sides : SaidBy(sides[s]).closed},
     flushed |-> flushed,
     marker |-> marker, msgs |-> [s \in Sides |-> sides[s].msgs], bytes |-> [s \in Sides |-> sides[s].bytes],
     truncated |-> sides["sent"].cut \/ sides["received"].cut,
     failed |-> sides["sent"].off \/ sides["received"].off]

ClosesOf(sides) == {s \in Sides : sides[s].closed}

EmitAtFirstClose(sides) ==
    IF ClosesOf(sides) # {} /\ wsSpans = <<>> THEN <<BuildTxn(sides, "none", FALSE)>> ELSE wsSpans

\* _maybe_emit: the session ends when a Close has crossed in both directions.
MaybeEmit(sides) ==
    IF ClosesOf(sides) = Sides /\ wsSpans = <<>> THEN <<BuildTxn(sides, "none", FALSE)>> ELSE wsSpans

\* The issuer rule of on_request_bytes: a message completed under another scope names no one.
ScopeAfter(done, who) == IF done /\ wsScope # who THEN "unknown" ELSE wsScope

\* _decide_llm, on the first message or on the parser's death.
DecideLlm(p) ==
    IF llm = "undecided" /\ (p.out # <<>> \/ p.off) THEN "decided" ELSE llm

\* on_request_bytes, on_response_bytes: one read or write of n units, issued under `who`.  A flush
\* comes with the end of the connection's state, so nothing follows it.
WsBytes(s, n, who) ==
    /\ side[s].arrived + n <= Units(WsScripts[side[s].script], Len(WsScripts[side[s].script]))
    /\ \A span \in Range(wsSpans) : ~span.flushed
    /\ \E p \in {Counted(side[s], n)} :
        /\ side' = [side EXCEPT ![s] = [p EXCEPT !.out = <<>>]]
        /\ wsScope' = IF s = "sent" THEN ScopeAfter(p.out # <<>> \/ p.off, who) ELSE wsScope
        /\ wsWriters' = IF s = "sent" /\ p.out # <<>> THEN wsWriters \cup {who} ELSE wsWriters
        /\ llm' = IF s = "sent" THEN DecideLlm(p) ELSE llm
    /\ closeFrom' = ClosesOf(side')
    /\ wsSpans' = MaybeEmit(side')

\* flush (on_connection_close): WS_NO_CLOSE is not said of a session with a Close in it.
FlushMarker(marker) == IF marker = "no_close" /\ closeFrom # {} THEN "none" ELSE marker

WsFlush(marker) ==
    /\ wsSpans = <<>>
    /\ wsSpans' = <<BuildTxn(side, FlushMarker(marker), TRUE)>>
    /\ UNCHANGED <<side, closeFrom, wsScope, wsWriters, llm>>

FreshSide(script) ==
    [script |-> script, arrived |-> 0, buf |-> 0, parsed |-> 0, frag |-> <<>>, fragOpen |-> FALSE, out |-> <<>>,
     msgs |-> 0, bytes |-> 0, sample |-> <<>>, cut |-> FALSE, off |-> FALSE, closed |-> FALSE]

WsInit ==
    /\ \E a \in DOMAIN WsScripts, b \in DOMAIN WsScripts :
           side = [s \in Sides |-> FreshSide(IF s = "sent" THEN a ELSE b)]
    /\ closeFrom = {} /\ wsWriters = {} /\ wsSpans = <<>>
    /\ wsScope \in Issuers
    /\ llm = "undecided"

WsNext ==
    \/ \E n \in 1 .. 3, who \in Issuers : WsBytes("sent", n, who)
    \/ \E n \in 1 .. 3 : WsBytes("received", n, wsScope)
    \/ \E marker \in {"no_close", "evicted"} : WsFlush(marker)

\* However the bytes are cut into reads, the counts are those of the frames that arrived whole,
\* and the sample is the start of the conversation: every completed message in order, control
\* frames and fragments put right, up to the cap (WsParser, _append_sample).
WsAsSent ==
    \A s \in Sides : side[s].arrived > 0 =>
        LET p == side[s]
            said == SaidBy(p)
        IN p.bytes = said.bytes /\ p.msgs = said.msgs /\ p.sample = said.sample

\* One span ends the session and counts it to that point.  The one the tracker builds by itself
\* waits for a Close both ways, so data after the first Close is in it; one built when the
\* connection goes says WS_NO_CLOSE only if no Close crossed (_maybe_emit, flush, _close_from).
WsEndIsHonest ==
    /\ Len(wsSpans) <= 1
    /\ \A span \in Range(wsSpans) :
        /\ span.flushed \/ span.closers = Sides
        /\ span.marker = "no_close" => span.closers = {}
        /\ span.marker = "none" => span.closers # {}
        /\ \A s \in Sides : span.msgs[s] = span.said[s]

\* The session names an issuer only if every message was completed under it (on_request_bytes).
WsIssuerIsTrue == wsScope # "unknown" => wsWriters \subseteq {wsScope}

\* Two directions cut into any reads, control frames between fragments and a Close from
\* either side: counts, sample and issuer are those of the session, and so is its end.
WsSpanIsTrue == WsAsSent /\ WsEndIsHonest /\ WsIssuerIsTrue

=============================================================================
