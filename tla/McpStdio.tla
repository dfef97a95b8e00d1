------------------------------ MODULE McpStdio ------------------------------
(***************************************************************************)
(* The MCP stdio interceptor (_interceptors/_mcp_stdio.py) over its line   *)
(* parser (wardex-protocol/src/json_rpc.rs): one subprocess, its two pipes *)
(* teed, requests correlated with responses by id.  Lines reach a parser   *)
(* in reads cut anywhere; a line is [size, msgs], msgs a batch.            *)
(***************************************************************************)
EXTENDS Integers, Sequences, FiniteSets, SequencesExt

CONSTANTS
  Calls,         \* requests of the host, 1 .. n
  Spawners,      \* tasks that start a subprocess
  LineCap,       \* max_stream_buffer_bytes, in units
  PendingCaps,   \* values of MAX_PENDING_REQUESTS a run tries
  SniffLimit,    \* mcp_sniff_bytes, in units
  MaxNoise       \* bound: lines that are not JSON-RPC, and answers nobody waits for

ASSUME McpAssumption == PendingCaps \subseteq Nat \ {0} /\ LineCap \in Nat \ {0} /\ SniffLimit \in Nat

VARIABLES
  spawn,      \* spawn[t]: [how, at, inside, tees]: a subprocess on its way, and its tees
  pipe,       \* pipe[d]: lines the peer of direction d wrote that were not read yet, and
              \* the units of the first that were
  maxPending, \* MAX_PENDING_REQUESTS
  rpc,        \* rpc[d]: the parser, [off, held, over]
  pending,    \* _latch, in its order: [id, of]
  tee,        \* both tees are on
  rx,         \* the host's read: "idle", or begun with the tees on ("teed") or off ("bare")
  tally,      \* [bytes, msgs, said, evicted, stranded, over]; stranded counts stream ends
  call,       \* call[c]: "none", "sent", "asked", "answered", "gone"
  version,    \* _protocol_version
  rpcSpans,   \* spans handed over: [of, answer, err, ver]
  taken,      \* history: calls parsed on stdin
  sane,       \* history: a message came before the sniff budget was spent
  noise       \* history: lines of noise so far

mcpVars == <<spawn, maxPending, pipe, rpc, pending, tee, rx, tally, call, version, rpcSpans, taken, sane, noise>>
rpcVars == <<maxPending, pipe, rpc, pending, tee, rx, tally, call, version, rpcSpans, taken, sane, noise>>

(***************************************************************************)
(* Starting one: anyio's open_process calls asyncio's                      *)
(* create_subprocess_exec, and both are patched; a context variable of the *)
(* task keeps the inner patch from wrapping what the outer will.           *)
(***************************************************************************)

SkipInner(t) == spawn[t].inside

OpenProcess(t, how) ==
  /\ spawn[t].at = "none"
  /\ spawn' = [spawn EXCEPT ![t].how = how, ![t].at = "exec", ![t].inside = how = "anyio"]
  /\ UNCHANGED rpcVars

\* wrapped_cse() returns: the raw path wraps here.
ExecReturns(t) ==
  /\ spawn[t].at = "exec"
  /\ spawn' = [spawn EXCEPT ![t].at = IF spawn[t].how = "anyio" THEN "open" ELSE "done",
                            ![t].how = IF @ = "anyio" THEN @ ELSE "none",
                            ![t].tees = IF SkipInner(t) THEN @ ELSE @ + 1]
  /\ UNCHANGED rpcVars

OpenReturns(t) ==
  /\ spawn[t].at = "open"
  /\ spawn' = [spawn EXCEPT ![t].how = "none", ![t].at = "done", ![t].inside = FALSE, ![t].tees = @ + 1]
  /\ UNCHANGED rpcVars

\* A spawn that raises resets the variable and wraps nothing; the host tries again.
OpenRaises(t) ==
  /\ spawn[t].at \in {"exec", "open"} /\ spawn[t].tees = 0
  /\ spawn' = [spawn EXCEPT ![t].how = "none", ![t].at = "none", ![t].inside = FALSE]
  /\ UNCHANGED rpcVars

Running == \A t \in Spawners : spawn[t].at = "done"

(***************************************************************************)
(* JsonRpcStream.feed(): n units of the pipe.  The bound on a line is      *)
(* applied where it ends; the bound on what is held, after the read.       *)
(***************************************************************************)
Unit(r) ==
  LET line == Head(r.lines)
  IN  IF r.at < line.size THEN [r EXCEPT !.at = @ + 1, !.held = @ + 1]
      ELSE [r EXCEPT !.lines = Tail(@), !.at = 0, !.held = 0, !.ended = Append(@, line),
                     !.over = IF r.held > LineCap THEN @ + 1 ELSE @,
                     !.msgs = IF r.held > LineCap THEN @ ELSE @ \o line.msgs]

Read(d, n) ==
  LET p == rpc[d]
      start == [lines |-> pipe[d].lines, at |-> pipe[d].at, held |-> p.held, over |-> p.over,
                msgs |-> <<>>, ended |-> <<>>]
      r == FoldLeft(LAMBDA acc, i : Unit(acc), start, [i \in 1 .. n |-> i])
      off == r.held > LineCap
  IN  [pipe |-> [lines |-> r.lines, at |-> r.at],
       rpc |-> IF p.off THEN p ELSE [off |-> off, held |-> IF off THEN 0 ELSE r.held, over |-> r.over],
       msgs |-> IF p.off THEN <<>> ELSE r.msgs,
       ended |-> r.ended]

Available(d) == FoldLeft(LAMBDA acc, l : acc + l.size + 1, 0 - pipe[d].at, pipe[d].lines)

(***************************************************************************)
(* _ProcState.                                                             *)
(***************************************************************************)
Rpc(kind, id, of, err) == [kind |-> kind, id |-> id, of |-> of, err |-> err]

\* feed_request() for one message; a dict keeps the place of a key it has.
Latched(l, msg) ==
  IF msg.kind # "request" THEN l
  ELSE IF \E i \in DOMAIN l : l[i].id = msg.id
  THEN [i \in DOMAIN l |-> IF l[i].id = msg.id THEN [id |-> msg.id, of |-> msg.of] ELSE l[i]]
  ELSE Append(l, [id |-> msg.id, of |-> msg.of])

EvictPending(s) ==
  IF Len(s.latch) > maxPending THEN [s EXCEPT !.latch = Tail(@), !.evicted = @ + 1] ELSE s

FeedRequest(msgs) ==
  FoldLeft(LAMBDA s, msg : EvictPending([s EXCEPT !.latch = Latched(@, msg)]),
           [latch |-> pending, evicted |-> tally.evicted], msgs)

\* A response taken for the oldest request in flight.
PopOldest(l, id) == IF l = <<>> THEN <<>> ELSE <<l[1]>>

\* _latch.pop(id)
PopPending(l, id) == SelectSeq(l, LAMBDA p : p.id = id)

BuildMcpSpan(p, msg, ver) == [of |-> p.of, answer |-> msg.of, err |-> msg.err, ver |-> ver]

FeedResponse(msgs) ==
  FoldLeft(LAMBDA s, msg :
             LET p == PopPending(s.latch, msg.id)
                 ver == IF msg.kind = "response" /\ p # <<>> /\ p[1].of = 1 /\ ~msg.err THEN TRUE ELSE s.ver
             IN  IF msg.kind # "response" \/ p = <<>> THEN s
                 ELSE [latch |-> SelectSeq(s.latch, LAMBDA q : q # p[1]),
                       out |-> Append(s.out, BuildMcpSpan(p[1], msg, ver)),
                       ver |-> ver],
           [latch |-> pending, out |-> rpcSpans, ver |-> version], msgs)

CountMsgs(d, msgs) == Len(msgs)

ShouldDetach(t) == t.msgs = 0 /\ t.bytes > SniffLimit

\* The counters and lines both wrappers keep after a feed.
Tallied(d, r, n) ==
  LET t == [tally EXCEPT !.bytes = IF @ > SniffLimit THEN @ ELSE @ + n,
                         !.msgs = IF @ > 0 THEN 1 ELSE IF CountMsgs(d, r.msgs) > 0 THEN 1 ELSE 0,
                         !.over = r.rpc.over + rpc[IF d = "in" THEN "out" ELSE "in"].over]
  IN  [t EXCEPT !.said = @ \/ r.rpc.off \/ rpc["in"].off \/ rpc["out"].off]

Passed(r, kind) ==
  UNION {{l.msgs[j].of : j \in {k \in DOMAIN l.msgs : l.msgs[k].kind = kind}} : l \in {r.ended[i] : i \in DOMAIN r.ended}}

(***************************************************************************)
(* The host writes, the server answers; both may batch, and either may     *)
(* write lines that are none of ours.                                      *)
(***************************************************************************)
WriteLine(d, line) == pipe' = [pipe EXCEPT ![d].lines = Append(@, line)]

SendCall(c, size) ==
  /\ Running /\ call[c] = "none" /\ \A b \in Calls : b < c => call[b] # "none"
  /\ WriteLine("in", [size |-> size, msgs |-> <<Rpc("request", c, c, FALSE)>>])
  /\ call' = [call EXCEPT ![c] = "sent"]
  /\ UNCHANGED <<spawn, maxPending, rpc, pending, tee, rx, tally, version, rpcSpans, taken, sane, noise>>

Answer(cs, size, err) ==
  /\ cs # {} /\ (err => size = 1) /\ \A c \in cs : call[c] = "asked"
  /\ WriteLine("out", [size |-> size, msgs |-> SetToSeq({Rpc("response", c, c, err) : c \in cs})])
  /\ call' = [c \in Calls |-> IF c \in cs THEN "answered" ELSE call[c]]
  /\ UNCHANGED <<spawn, maxPending, rpc, pending, tee, rx, tally, version, rpcSpans, taken, sane, noise>>

\* Logs, notifications, the server's own requests, answers given twice.
OtherLine(d, msgs, size) ==
  /\ Running /\ noise < MaxNoise /\ noise' = noise + 1
  /\ WriteLine(d, [size |-> size, msgs |-> msgs])
  /\ UNCHANGED <<spawn, maxPending, rpc, pending, tee, rx, tally, call, version, rpcSpans, taken, sane>>

\* send(): the tee feeds what is written before it is written.
Send(n) ==
  /\ n <= Available("in")
  /\ LET r == Read("in", n)
         f == FeedRequest(r.msgs)
         t == [Tallied("in", r, n) EXCEPT !.evicted = f.evicted]
         asked == Passed(r, "request")
     IN  /\ pipe' = [pipe EXCEPT !["in"] = r.pipe]
         /\ call' = [c \in Calls |-> IF c \in asked THEN "asked" ELSE call[c]]
         /\ IF tee
            THEN /\ rpc' = [rpc EXCEPT !["in"] = r.rpc]
                 /\ pending' = f.latch /\ tally' = t
                 /\ tee' = ~ShouldDetach(t)
                 /\ taken' = taken \union {r.msgs[i].of : i \in {j \in DOMAIN r.msgs : r.msgs[j].kind = "request"}}
                 /\ sane' = (sane \/ (r.msgs # <<>> /\ tally.bytes <= SniffLimit))
            ELSE UNCHANGED <<rpc, pending, tally, tee, taken, sane>>
  /\ UNCHANGED <<spawn, maxPending, rx, version, rpcSpans, noise>>

BeginReceive ==
  /\ Running /\ rx = "idle"
  /\ rx' = IF tee THEN "teed" ELSE "bare"
  /\ UNCHANGED <<spawn, maxPending, pipe, rpc, pending, tee, tally, call, version, rpcSpans, taken, sane, noise>>

\* receive(): a read that began with the tee on is fed whatever happened since.
EndReceive(n) ==
  /\ rx # "idle" /\ n <= Available("out") /\ rx' = "idle"
  /\ LET r == Read("out", n)
         f == FeedResponse(r.msgs)
         t == Tallied("out", r, n)
     IN  /\ pipe' = [pipe EXCEPT !["out"] = r.pipe]
         /\ IF rx = "teed"
            THEN /\ rpc' = [rpc EXCEPT !["out"] = r.rpc]
                 /\ pending' = f.latch /\ rpcSpans' = f.out /\ version' = f.ver
                 /\ tally' = t
                 /\ tee' = (tee /\ ~ShouldDetach(t))
                 /\ sane' = (sane \/ (r.msgs # <<>> /\ tally.bytes <= SniffLimit))
            ELSE UNCHANGED <<rpc, pending, rpcSpans, version, tally, tee, sane>>
  /\ UNCHANGED <<spawn, maxPending, call, taken, noise>>

\* on_stream_end(): one count for all that is still latched.
DropStranded ==
  /\ pending' = <<>>
  /\ tally' = [tally EXCEPT !.stranded = IF pending # <<>> THEN @ + 1 ELSE @]

\* The server is gone: its output ends, and what it never answered stays unanswered.
StreamEnds ==
  /\ rx # "idle" /\ rx' = "idle"
  /\ \E c \in Calls : call[c] # "gone"
  /\ IF rx = "teed" THEN DropStranded /\ tee' = FALSE ELSE UNCHANGED <<pending, tally, tee>>
  /\ call' = [c \in Calls |-> "gone"]
  /\ pipe' = [d \in DOMAIN pipe |-> [lines |-> <<>>, at |-> 0]]
  /\ UNCHANGED <<spawn, maxPending, rpc, version, rpcSpans, taken, sane, noise>>

McpInit ==
  /\ maxPending \in PendingCaps
  /\ spawn = [t \in Spawners |-> [how |-> "none", at |-> "none", inside |-> FALSE, tees |-> 0]]
  /\ pipe = [d \in {"in", "out"} |-> [lines |-> <<>>, at |-> 0]]
  /\ rpc = [d \in {"in", "out"} |-> [off |-> FALSE, held |-> 0, over |-> 0]]
  /\ pending = <<>> /\ tee = TRUE /\ rx = "idle" /\ version = FALSE /\ rpcSpans = <<>>
  /\ tally = [bytes |-> 0, msgs |-> 0, said |-> FALSE, evicted |-> 0, stranded |-> 0, over |-> 0]
  /\ call = [c \in Calls |-> "none"] /\ taken = {} /\ sane = FALSE /\ noise = 0

Sizes == {1, LineCap + 1}
ReadSizes == {1, LineCap + 1, LineCap + 3}

McpNext ==
  \/ \E t \in Spawners : \/ \E how \in {"anyio", "asyncio"} : OpenProcess(t, how)
                         \/ ExecReturns(t) \/ OpenReturns(t) \/ OpenRaises(t)
  \/ \E c \in Calls, size \in Sizes : SendCall(c, size)
  \/ \E cs \in SUBSET Calls, size \in Sizes, err \in BOOLEAN : Answer(cs, size, err)
  \/ \E d \in {"in", "out"} : OtherLine(d, <<>>, LineCap + 1)
  \/ OtherLine("out", <<Rpc("notification", 0, 0, FALSE)>>, 1)
  \/ \E c \in Calls : call[c] = "asked" /\ OtherLine("out", <<Rpc("request", c, c, FALSE)>>, 1)
  \/ \E c \in Calls : call[c] = "answered" /\ OtherLine("out", <<Rpc("response", c, c, FALSE)>>, 1)
  \/ \E n \in ReadSizes : Send(n) \/ EndReceive(n)
  \/ BeginReceive \/ StreamEnds
-----------------------------------------------------------------------------
McpTypeOK ==
  /\ Len(pending) <= maxPending
  /\ \A i, j \in DOMAIN pending : pending[i].id = pending[j].id => i = j
  /\ \A d \in {"in", "out"} : rpc[d].held <= LineCap

\* A subprocess is teed by one of the two seams, however tasks that spawn interleave.
TeedOnce == \A t \in Spawners : spawn[t].at = "done" => spawn[t].tees = 1

\* Answers come in any order, in batches, twice, next to requests of the server with the
\* same ids: a span joins a call with the first answer to that call, once, and carries
\* the version that initialize settled on if it came before.
PairsOwn ==
  /\ \A i \in DOMAIN rpcSpans : rpcSpans[i].of = rpcSpans[i].answer
  /\ \A i, j \in DOMAIN rpcSpans :
       /\ rpcSpans[i].of = rpcSpans[j].of => i = j
       /\ i < j /\ rpcSpans[i].of = 1 /\ ~rpcSpans[i].err => rpcSpans[j].ver

\* Every request the parser saw is waiting, became a span or is counted as evicted, but
\* for those its stream's end left behind: nothing says how many they are, and one count
\* says that there were any.  Nothing waits for a server that is gone.
RequestsEnd ==
  LET left == Cardinality(taken) - Len(pending) - Len(rpcSpans) - tally.evicted
      gone == \E c \in Calls : call[c] = "gone"
  IN  /\ left >= 0 /\ tally.stranded = IF left > 0 THEN 1 ELSE 0
      /\ (left > 0 => gone) /\ (gone => pending = <<>>)

InPipe(c, d) == \E i \in DOMAIN pipe[d].lines : \E j \in DOMAIN pipe[d].lines[i].msgs :
                  pipe[d].lines[i].msgs[j].of = c

\* A call the parser never saw, or whose answer it never saw, is lost to a line over the
\* cap or to a stream that went off, and either is counted; or the seam had let go of a
\* subprocess that had said nothing in JSON-RPC.
McpLossSaid ==
  \A c \in Calls :
    /\ call[c] \in {"asked", "answered"} /\ c \notin taken => tally.over > 0 \/ tally.said \/ ~tee
    /\ call[c] = "answered" /\ ~InPipe(c, "out") /\ (\E i \in DOMAIN pending : pending[i].of = c)
         => tally.over > 0 \/ tally.said \/ ~tee

\* A server that spoke JSON-RPC on either pipe within the sniff budget is followed until
\* its output ends, whatever it writes after.
KeepsListening == sane /\ (\A c \in Calls : call[c] # "gone") => tee

\* Over two wrapped spawns and pipes read in any pieces: a request is recorded once, is
\* completed by its own response or lost with a word about it, and the tap goes on listening.
McpAccounted ==
  /\ McpTypeOK
  /\ TeedOnce
  /\ PairsOwn
  /\ RequestsEnd
  /\ McpLossSaid
  /\ KeepsListening

=============================================================================
