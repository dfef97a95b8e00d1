------------------------------- MODULE MC_Wire -------------------------------
(***************************************************************************)
(* What reads and writes bytes, on small instances: the seams and the     *)
(* patches they sit behind, the parsers and trackers of each protocol, and *)
(* the OTLP transport.  They share no state here, so one run takes one of  *)
(* them at a time: a behaviour belongs to the machine its first state      *)
(* picks, and leaves the others where they start.                          *)
(***************************************************************************)
EXTENDS Seams, Http2, H2Issuers, McpStdio, Http1Feeds, Http1Pairing, WebSocket, OtlpExport, PatchSet

VARIABLE machine

machines ==
  <<machine, seamVars, h2Vars, issuerVars, mcpVars, http1Vars, pairVars, wsVars, otlpVars, patchVars>>

\* Addresses and descriptors only name entries, so which ones the first socket
\* has makes no difference.
FirstNamed == sk[1].life # "none" => sk[1].addr = 1 /\ sk[1].fd = 1

\* A third socket is there for one thing: to be connected on a descriptor that a
\* wrapped socket gave back.
ThirdSocket ==
  sk[3].life # "none" =>
    /\ sk[2].from = 1 /\ sk[3].from = NoObj /\ sk[3].fd = sk[1].fd /\ sk[3].seen
    /\ \A o \in Objs : sk[o].proto = "http"

\* A connection nobody reads is the first there is.
OtherFirst == \A o \in Objs : sk[o].proto = "other" => o = 1

\* An uninstall and a fork are taken one at a time, and so are a fork and a third socket.
OneEnding == seamOn \/ crossed = {}
OneCrossing == crossed # {} => sk[3].life = "none"

\* Connections of the library are told apart by name only: the first to open a stream is named.
FirstIssuer == issuer[2] # <<>> => issuer[1] # <<>>

\* Patch sets are told apart by name only: the first to wrap something is named.
FirstSet ==
  \A w \in DOMAIN wrapper : wrapper[w].by = "B" => \E v \in 1 .. w : wrapper[v].by = "A"

-----------------------------------------------------------------------------
Msg(code, framing, body, trailer, method) ==
  [code |-> code, framing |-> framing, body |-> body, trailer |-> trailer, method |-> method]

MCMessages ==
  << \* 1 .. 10: one stream on its own
     Msg(200, "length", 2, FALSE, "POST"), Msg(200, "chunked", 3, FALSE, "POST"),
     Msg(200, "none", 1, FALSE, "GET"), Msg(100, "none", 0, FALSE, "GET"),
     Msg(204, "none", 0, FALSE, "GET"), Msg(0, "bad", 0, FALSE, "GET"),
     Msg(200, "chunked", 1, TRUE, "POST"), Msg(200, "length", 0, FALSE, "POST"),
     Msg(200, "none", 0, FALSE, "CONNECT"), Msg(0, "endless", 0, FALSE, "GET"),
     \* 11 .. 16: requests of a connection, the last one a decoy inside a body
     Msg(200, "length", 1, FALSE, "POST"), Msg(200, "length", 2, FALSE, "POST"),
     Msg(200, "none", 0, FALSE, "HEAD"), Msg(200, "none", 0, FALSE, "UPGRADE"),
     Msg(200, "none", 0, FALSE, "CONNECT"), Msg(0, "none", 0, FALSE, "GET"),
     \* 17 .. 22: their replies
     Msg(200, "length", 1, FALSE, "GET"), Msg(400, "length", 1, FALSE, "GET"),
     Msg(200, "length", 1, FALSE, "GET"), Msg(101, "none", 0, FALSE, "GET"),
     Msg(200, "none", 1, FALSE, "GET"), Msg(100, "none", 0, FALSE, "GET") >>

Script(request, ids, answers) == [request |-> request, ids |-> ids, answers |-> answers]
Gets(n) == [i \in 1 .. n |-> "GET"]

\* Framing by length, by chunks, by close and by method; a message that does
\* not parse; a tunnel; a line that never ends.
MCScripts ==
  { Script(TRUE, <<1, 2, 5>>, Gets(3)), Script(TRUE, <<2, 7, 1>>, Gets(3)),
    Script(TRUE, <<1, 6, 1>>, Gets(3)), Script(TRUE, <<9, 1>>, Gets(2)), Script(TRUE, <<1, 10>>, Gets(2)),
    Script(FALSE, <<4, 1, 2>>, Gets(3)), Script(FALSE, <<7, 5, 1>>, Gets(3)),
    Script(FALSE, <<1, 3>>, Gets(2)), Script(FALSE, <<8, 2>>, Gets(2)),
    Script(FALSE, <<6, 1>>, Gets(2)), Script(FALSE, <<1, 10>>, Gets(2)),
    Script(FALSE, <<4, 3, 1>>, <<"HEAD", "HEAD", "GET">>),
    Script(FALSE, <<5, 9, 1>>, <<"GET", "CONNECT", "GET">>) }

MCReplies == <<{17, 18}, {19, 20}, {21}>>

\* A fragmented message with a ping inside, a stray continuation, a frame past
\* a bound, a close in the middle.
Frame(op, fin, len) == [op |-> op, fin |-> fin, len |-> len]
MCWsScripts ==
  << << Frame("text", FALSE, 1), Frame("ping", TRUE, 0), Frame("continuation", TRUE, 1), Frame("close", TRUE, 1) >>,
     << Frame("text", TRUE, 2), Frame("continuation", TRUE, 1), Frame("binary", TRUE, 1), Frame("close", TRUE, 0) >>,
     << Frame("text", TRUE, 3) >>,
     << Frame("text", TRUE, 1), Frame("text", TRUE, 2), Frame("text", TRUE, 4) >>,
     << Frame("close", TRUE, 1), Frame("text", TRUE, 1) >> >>

\* Spans that fit, fit without their payload, fit never, or do not marshal.
Kinds ==
  { [meta |-> 1, load |-> 0, ok |-> TRUE], [meta |-> 1, load |-> 2, ok |-> TRUE],
    [meta |-> 1, load |-> 6, ok |-> TRUE], [meta |-> 7, load |-> 0, ok |-> TRUE],
    [meta |-> 1, load |-> 0, ok |-> FALSE] }
MCBatches ==
  { [i \in 1 .. n |-> [id |-> i, meta |-> f[i].meta, load |-> f[i].load, ok |-> f[i].ok]] :
    n \in 1 .. 4, f \in [1 .. 4 -> Kinds] }

\* PatchSet.  A class that inherits the attribute, an instance, and one that refuses.
MCKind == [s \in Slots |-> CASE s = "inh" -> "class" [] s = "inst" -> "instance" [] s = "ref" -> "refusing"]
MCHas == [s \in Slots |-> s # "inh"]

-----------------------------------------------------------------------------
\* The two with many first states, where they are not the machine of the run.
WsAside == WsInit /\ wsScope = "a" /\ \A s \in Sides : side[s].script = 3
OtlpAside == OtlpInit /\ Len(batch) = 1 /\ batch[1].meta = 7 /\ cap = 3 /\ ~compress

Init ==
  /\ machine \in {"seams", "http2", "issuers", "mcp", "http1", "pairing", "websocket", "otlp", "patches"}
  /\ SeamInit /\ H2Init /\ IssuersInit /\ PairInit /\ PatchInit
  /\ McpInit /\ (machine # "mcp" => maxPending = 1)
  /\ Http1Init /\ (machine # "http1" => script = Script(FALSE, <<6, 1>>, Gets(2)))
  /\ \/ machine = "websocket" /\ OtlpAside /\ WsInit /\ wsScope = "a"
     \/ machine # "websocket" /\ WsAside /\ (IF machine = "otlp" THEN OtlpInit ELSE OtlpAside)

Next ==
  \/ /\ machine = "seams" /\ SeamNext /\ FirstNamed' /\ ThirdSocket' /\ OtherFirst' /\ OneEnding' /\ OneCrossing'
     /\ UNCHANGED <<machine, h2Vars, issuerVars, mcpVars, http1Vars, pairVars, wsVars, otlpVars, patchVars>>
  \/ /\ machine = "http2" /\ H2Next
     /\ UNCHANGED <<machine, seamVars, issuerVars, mcpVars, http1Vars, pairVars, wsVars, otlpVars, patchVars>>
  \/ /\ machine = "issuers" /\ IssuersNext /\ FirstIssuer'
     /\ UNCHANGED <<machine, seamVars, h2Vars, mcpVars, http1Vars, pairVars, wsVars, otlpVars, patchVars>>
  \/ /\ machine = "mcp" /\ McpNext
     /\ UNCHANGED <<machine, seamVars, h2Vars, issuerVars, http1Vars, pairVars, wsVars, otlpVars, patchVars>>
  \/ /\ machine = "http1" /\ Http1Next
     /\ UNCHANGED <<machine, seamVars, h2Vars, issuerVars, mcpVars, pairVars, wsVars, otlpVars, patchVars>>
  \/ /\ machine = "pairing" /\ PairNext
     /\ UNCHANGED <<machine, seamVars, h2Vars, issuerVars, mcpVars, http1Vars, wsVars, otlpVars, patchVars>>
  \/ /\ machine = "websocket" /\ WsNext
     /\ UNCHANGED <<machine, seamVars, h2Vars, issuerVars, mcpVars, http1Vars, pairVars, otlpVars, patchVars>>
  \/ /\ machine = "otlp" /\ OtlpNext
     /\ UNCHANGED <<machine, seamVars, h2Vars, issuerVars, mcpVars, http1Vars, pairVars, wsVars, patchVars>>
  \/ /\ machine = "patches" /\ PatchNext /\ FirstSet'
     /\ UNCHANGED <<machine, seamVars, h2Vars, issuerVars, mcpVars, http1Vars, pairVars, wsVars, otlpVars>>

Spec == Init /\ [][Next]_machines
=============================================================================
