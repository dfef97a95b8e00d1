----------------------------- MODULE SessionTools -----------------------------
(***************************************************************************)
(* The tool and sub-agent spans of one Claude Agent SDK session, and the   *)
(* buffer that holds them for the CLI's own telemetry: SessionAssembler's  *)
(* _open_tool, _close_tool, _emit_tool, _on_stream_tool_result,            *)
(* _emit_subagent, _pend, _merge_bridge and _drain_children                *)
(* (_adapters/_assembler.py).                                              *)
(*                                                                         *)
(* A call is observed four times: its announcement and its result on the   *)
(* stream, PreToolUse and PostToolUse on the hooks.  A hook may find no    *)
(* session, a handler may claim the call while it runs, and every table is *)
(* bounded: an evicted open call ships as a stub and leaves a breadcrumb   *)
(* for its completion.                                                     *)
(***************************************************************************)
EXTENDS Naturals, Sequences, FiniteSets, SequencesExt

CONSTANTS
    Tools,         \* tool_use ids
    Agents,        \* agent_ids of sub-agents
    Root,          \* the session itself, as a parent
    AgentOf,       \* the sub-agent each call runs in, or Root
    Handled,       \* calls of in-process tools, which a handler wrapper claims
    Unnamed,       \* calls whose tool name _claim_key cannot attribute
    EntryCap       \* max_session_entries

ASSUME ToolConstants ==
    /\ Root \notin Agents
    /\ AgentOf \in [Tools -> Agents \cup {Root}]
    /\ Handled \subseteq Tools /\ Unnamed \subseteq Tools
    /\ EntryCap \in Nat \ {0}

VARIABLES
    openTools,     \* _Session.open_tools, oldest first, with the stream result seen meanwhile
    toolCrumbs,    \* _Session.evicted_tools, oldest first, with `completed`
    meta,          \* _Session.stream_tool_meta
    outbid,        \* the calls whose claim a handler outranks
    subs,          \* _Session.subagents, oldest first
    subCrumbs,     \* _Session.evicted_subagents, oldest first
    bridge,        \* is the session bound to the OTel bridge?
    pendingSpans,  \* _Session.pending
    toolSpans,     \* the spans each call has shipped
    subSpans,      \* the spans each sub-agent has shipped
    \* The CLI, and what has been forgotten.
    toolSeen,      \* how far each call is: its four observations
    agentSeen,     \* how far each sub-agent is
    lostCrumbs,    \* the calls and sub-agents whose breadcrumb was pushed out
    toolsClosed    \* the session was finalized or retired

toolVars == <<openTools, toolCrumbs, meta, outbid, subs, subCrumbs, bridge, pendingSpans, toolSpans,
              subSpans, toolSeen, agentSeen, lostCrumbs, toolsClosed>>

(***************************************************************************)
(* What one operation reads and changes, as one record.                    *)
(***************************************************************************)
Tables == [open |-> openTools, crumbs |-> toolCrumbs, meta |-> meta, subs |-> subs,
           subCrumbs |-> subCrumbs, pending |-> pendingSpans, tools |-> toolSpans,
           agents |-> subSpans, lost |-> lostCrumbs]

TablesBecome(s) ==
    /\ openTools' = s.open /\ toolCrumbs' = s.crumbs /\ meta' = s.meta
    /\ subs' = s.subs /\ subCrumbs' = s.subCrumbs
    /\ pendingSpans' = s.pending
    /\ toolSpans' = s.tools /\ subSpans' = s.agents
    /\ lostCrumbs' = s.lost

Keys(table) == {table[i].id : i \in DOMAIN table}
Without(table, id) == SelectSeq(table, LAMBDA e : e.id # id)
At(table, id) == table[CHOOSE i \in DOMAIN table : table[i].id = id]
Full(table) == Len(table) >= EntryCap

\* _capture: the span leaves.
ShipSpan(s, rec) ==
    LET span == [status |-> rec.status, mark |-> rec.mark, parent |-> rec.parent, merged |-> rec.merged]
    IN IF rec.kind = "tool" THEN [s EXCEPT !.tools[rec.id] = Append(@, span)]
       ELSE [s EXCEPT !.agents[rec.id] = Append(@, span)]

\* _pend, or the immediate path of a session with no bridge: overflow ships the oldest unmerged.
Pend(s, rec) ==
    IF ~bridge THEN ShipSpan(s, rec)
    ELSE LET room == IF Full(s.pending)
                     THEN ShipSpan([s EXCEPT !.pending = Tail(@)], s.pending[1]) ELSE s
         IN [room EXCEPT !.pending = Append(@, rec)]

\* _flush_pending.
FlushPending(s) == FoldLeft(ShipSpan, [s EXCEPT !.pending = <<>>], s.pending)

AnchorOpenOnly(s, t) == IF AgentOf[t] \in Keys(s.subs) THEN AgentOf[t] ELSE Root

\* The anchor _tool_draft takes: the call's sub-agent, open or remembered, else the session.
Anchor(s, t) ==
    IF AgentOf[t] \in Keys(s.subs) \cup Keys(s.subCrumbs) THEN AgentOf[t] ELSE Root

\* _emit_tool: nothing when a handler has outranked the claim since the call was opened.
EmitTool(s, t, status, mark, mergeable) ==
    IF t \in outbid THEN s
    ELSE Pend(s, [kind |-> "tool", id |-> t, status |-> status, mark |-> mark,
                  parent |-> Anchor(s, t), mergeable |-> mergeable, merged |-> FALSE])

\* _room_for over a breadcrumb table, then the new breadcrumb.
LeaveCrumb(table, lost, crumb) ==
    [table |-> Append(Without(IF Full(table) THEN Tail(table) ELSE table, crumb.id), crumb),
     lost  |-> IF Full(table) THEN lost \cup {table[1].id} ELSE lost]

\* _room_for in _open_tool: the oldest open call ships as a stub and leaves a breadcrumb.
EvictTool(s) ==
    IF ~Full(s.open) THEN s
    ELSE LET t == s.open[1].id
             stub == EmitTool([s EXCEPT !.open = Tail(@)], t, "unset", "full", FALSE)
             left == LeaveCrumb(stub.crumbs, stub.lost, [id |-> t, done |-> FALSE])
         IN [stub EXCEPT !.crumbs = left.table, !.lost = left.lost]

\* _open_tool (PreToolUse).
OpenTool(s, t) ==
    IF t \in Unnamed \cup outbid THEN s
    ELSE LET room == EvictTool(s)
         IN [room EXCEPT !.open = Append(@, [id |-> t, result |-> FALSE])]

\* The completion of a call that is not open: marked when it answers a breadcrumb.
Complete(s, t) ==
    LET crumbed == t \in Keys(s.crumbs)
        latched == [s EXCEPT !.crumbs = [i \in DOMAIN @ |->
                                            IF @[i].id = t THEN [@[i] EXCEPT !.done = TRUE] ELSE @[i]]]
    IN EmitTool(latched, t, "done", IF crumbed THEN "full" ELSE "none", TRUE)

CompletedCrumb(s, t) == t \in Keys(s.crumbs) /\ At(s.crumbs, t).done
\* _close_tool (PostToolUse): the hook is the authority on an open call.
CloseTool(s, t) ==
    LET popped == [s EXCEPT !.meta = @ \ {t}, !.open = Without(@, t)]
    IN IF t \in Keys(s.open) THEN EmitTool(popped, t, "done", "none", TRUE)
       ELSE IF CompletedCrumb(s, t) \/ t \in Unnamed THEN popped
       ELSE Complete(popped, t)

\* _on_stream_tool_result: kept for the drain while the call is open; else the stream's own
\* completion, which needs the announcement or the breadcrumb.
StreamToolResult(s, t) ==
    IF t \in Keys(s.open)
    THEN [s EXCEPT !.open = [i \in DOMAIN @ |-> IF @[i].id = t THEN [@[i] EXCEPT !.result = TRUE] ELSE @[i]]]
    ELSE LET popped == [s EXCEPT !.meta = @ \ {t}]
             known == t \in s.meta \cup Keys(s.crumbs)
         IN IF CompletedCrumb(s, t) \/ ~known \/ t \in Unnamed THEN popped
            ELSE Complete(popped, t)

\* _emit_subagent_entry.
EmitSub(s, a, status, mark) ==
    Pend(s, [kind |-> "subagent", id |-> a, status |-> status, mark |-> mark, parent |-> Root,
             mergeable |-> TRUE, merged |-> FALSE])

\* The SubagentStart arm of on_hook.
StartSub(s, a) ==
    IF ~Full(s.subs) THEN [s EXCEPT !.subs = Append(@, [id |-> a])]
    ELSE LET old == s.subs[1].id
             stub == EmitSub([s EXCEPT !.subs = Tail(@)], old, "unset", "full")
             left == LeaveCrumb(stub.subCrumbs, stub.lost, [id |-> old])
         IN [stub EXCEPT !.subs = Append(@, [id |-> a]), !.subCrumbs = left.table, !.lost = left.lost]

\* _emit_subagent (SubagentStop): a miss after an eviction builds nothing.
StopSub(s, a) ==
    IF a \notin Keys(s.subs) THEN s
    ELSE EmitSub([s EXCEPT !.subs = Without(@, a)], a, "done", "none")

\* _drain_children: a call the stream answered completes, the others are left unclosed.
DrainChildren(s) ==
    LET drained == FoldLeft(LAMBDA acc, e :
                        IF e.result THEN EmitTool([acc EXCEPT !.meta = @ \ {e.id}], e.id, "done", "none", TRUE)
                        ELSE EmitTool(acc, e.id, "unset", "unclosed", TRUE),
                        [s EXCEPT !.open = <<>>], s.open)
    IN FoldLeft(LAMBDA acc, e : StopSub(acc, e.id), drained, s.subs)

\* _merge_bridge: each call and sub-agent the CLI timed joins the first record it may join.
MergeBridge(s, cli) ==
    LET join(acc, rec) ==
            LET hit == rec.id \in acc.left /\ (rec.kind = "tool" => rec.mergeable)
            IN [left |-> IF hit /\ rec.kind = "tool" THEN acc.left \ {rec.id} ELSE acc.left,
                recs |-> Append(acc.recs, [rec EXCEPT !.merged = hit])]
    IN [s EXCEPT !.pending = FoldLeft(join, [left |-> cli, recs |-> <<>>], @).recs]

(***************************************************************************)
(* The CLI's observations                                                  *)
(***************************************************************************)
CliIs(t, what, value) ==
    /\ toolSeen' = [toolSeen EXCEPT ![t][what] = value]
    /\ UNCHANGED <<outbid, bridge, agentSeen, toolsClosed>>

\* A tool_use block of an assistant line; a full table refuses it.
Announce(t) ==
    /\ ~toolsClosed /\ toolSeen[t].use = "no"
    /\ AgentOf[t] \in {Root} \cup {a \in Agents : agentSeen[a] = "running"}
    /\ TablesBecome([Tables EXCEPT !.meta = IF Cardinality(@) < EntryCap THEN @ \cup {t} ELSE @])
    /\ CliIs(t, "use", "yes")

\* PreToolUse, PostToolUse: found is FALSE when _session_for_hook resolves nothing.
PreToolUse(t, found) ==
    /\ ~toolsClosed /\ toolSeen[t].use = "yes" /\ toolSeen[t].pre = "no"
    /\ TablesBecome(IF found THEN OpenTool(Tables, t) ELSE Tables)
    /\ CliIs(t, "pre", IF found THEN "yes" ELSE "lost")

PostToolUse(t, found) ==
    /\ ~toolsClosed /\ toolSeen[t].pre # "no" /\ toolSeen[t].post = "no"
    /\ TablesBecome(IF found THEN CloseTool(Tables, t) ELSE Tables)
    /\ CliIs(t, "post", IF found THEN "yes" ELSE "lost")

ToolResult(t) ==
    /\ ~toolsClosed /\ toolSeen[t].pre # "no" /\ toolSeen[t].result = "no"
    /\ TablesBecome(StreamToolResult(Tables, t))
    /\ CliIs(t, "result", IF t \in Keys(openTools) THEN "held" ELSE "yes")

\* The handler wrapper claims the call's key, at a higher rank, while the tool's body runs.
HandlerClaims(t) ==
    /\ ~toolsClosed /\ t \in Handled \ outbid
    /\ toolSeen[t].pre # "no" /\ toolSeen[t].post = "no" /\ toolSeen[t].result = "no"
    /\ outbid' = outbid \cup {t}
    /\ UNCHANGED <<openTools, toolCrumbs, meta, subs, subCrumbs, bridge, pendingSpans, toolSpans,
                   subSpans, toolSeen, agentSeen, lostCrumbs, toolsClosed>>

SubagentStart(a) ==
    /\ ~toolsClosed /\ agentSeen[a] = "no"
    /\ TablesBecome(StartSub(Tables, a))
    /\ agentSeen' = [agentSeen EXCEPT ![a] = "running"]
    /\ UNCHANGED <<outbid, bridge, toolSeen, toolsClosed>>

\* A sub-agent stops when its calls are over.
SubagentStop(a) ==
    /\ ~toolsClosed /\ agentSeen[a] = "running"
    /\ \A t \in Tools : AgentOf[t] = a /\ toolSeen[t].use = "yes"
                            => toolSeen[t].post # "no" /\ toolSeen[t].result # "no"
    /\ TablesBecome(StopSub(Tables, a))
    /\ agentSeen' = [agentSeen EXCEPT ![a] = "over"]
    /\ UNCHANGED <<outbid, bridge, toolSeen, toolsClosed>>

\* _finalize: merge what the CLI exported, drain, flush.
Finalize(cli) ==
    /\ ~toolsClosed
    /\ bridge \/ cli = {}
    /\ TablesBecome(FlushPending(DrainChildren(IF bridge THEN MergeBridge(Tables, cli) ELSE Tables)))
    /\ toolsClosed' = TRUE
    /\ UNCHANGED <<outbid, bridge, toolSeen, agentSeen>>

\* _live_session's retirement: the registry evicted the root, and nothing is merged.
Retire ==
    /\ ~toolsClosed
    /\ TablesBecome(FlushPending(DrainChildren(Tables)))
    /\ toolsClosed' = TRUE
    /\ UNCHANGED <<outbid, bridge, toolSeen, agentSeen>>

ToolInit ==
    /\ openTools = <<>> /\ toolCrumbs = <<>> /\ meta = {} /\ outbid = {}
    /\ subs = <<>> /\ subCrumbs = <<>> /\ pendingSpans = <<>>
    /\ bridge \in BOOLEAN
    /\ toolSpans = [t \in Tools |-> <<>>]
    /\ subSpans = [a \in Agents |-> <<>>]
    /\ toolSeen = [t \in Tools |-> [use |-> "no", pre |-> "no", post |-> "no", result |-> "no"]]
    /\ agentSeen = [a \in Agents |-> "no"]
    /\ lostCrumbs = {}
    /\ toolsClosed = FALSE

ToolNext ==
    \/ \E t \in Tools :
        \/ Announce(t) \/ ToolResult(t) \/ HandlerClaims(t)
        \/ \E found \in BOOLEAN : PreToolUse(t, found) \/ PostToolUse(t, found)
    \/ \E a \in Agents : SubagentStart(a) \/ SubagentStop(a)
    \/ \E cli \in SUBSET Tools : Finalize(cli)
    \/ Retire

(***************************************************************************)
(* Properties                                                              *)
(***************************************************************************)
AllSpans(t) ==
    toolSpans[t] \o SelectSeq(pendingSpans, LAMBDA r : r.kind = "tool" /\ r.id = t)
Done(t) == SelectSeq(AllSpans(t), LAMBDA r : r.status = "done")
Unset(t) == SelectSeq(AllSpans(t), LAMBDA r : r.status = "unset")

\* A call opened by its hook completes once, however its hook, its result, an eviction and the
\* drain interleave; only a breadcrumb the bound pushed out, which is counted, is an exception
\* (_EvictedTool.completed, _close_tool, _on_stream_tool_result).
OneCompletion ==
    \A t \in Tools : toolSeen[t].pre = "yes" /\ t \notin lostCrumbs => Len(Done(t)) <= 1 /\ Len(Unset(t)) <= 1

\* The two halves of a call the bound split both say so, and hang under one parent
\* (_EvictedTool, _tool_draft).
HalvesAgree ==
    \A t \in Tools :
        LET ours == AllSpans(t)
        IN Len(ours) > 1 /\ toolSeen[t].pre = "yes" /\ {t, AgentOf[t]} \cap lostCrumbs = {} =>
            \A i \in DOMAIN ours : ours[i].mark = "full" /\ ours[i].parent = ours[1].parent

Stub(t) == SelectSeq(Unset(t), LAMBDA r : r.mark = "full") # <<>>

\* At the end, a call seen to open has a span, and one seen to complete, by its hook, by a
\* result after the call was evicted, or by a result held while it was open, a completed one;
\* unless a handler's claim took it over or its name could not be attributed (_drain_children,
\* _flush_pending, _pend).
CallsShip ==
    toolsClosed => \A t \in Tools \ (outbid \cup Unnamed) :
        /\ toolSeen[t].post = "yes" => Len(Done(t)) >= 1
        /\ toolSeen[t].pre = "yes" => Len(AllSpans(t)) >= 1
        /\ toolSeen[t].pre = "yes" /\ t \notin lostCrumbs =>
                /\ toolSeen[t].result = "yes" => Len(Done(t)) >= 1
                /\ toolSeen[t].result = "held" /\ ~Stub(t) => Len(Done(t)) >= 1

\* The CLI's measurement of a whole call never lands on the stub an eviction shipped, which
\* covers only the part wardex watched (_PendingSpan.mergeable).
MergedIsWhole ==
    \A t \in Tools : \A i \in DOMAIN AllSpans(t) :
        AllSpans(t)[i].merged => AllSpans(t)[i].mark # "full" \/ AllSpans(t)[i].status = "done"

\* A sub-agent ships exactly one span, stopped, drained or evicted (_emit_subagent).
SubsOnce ==
    \A a \in Agents :
        LET held == SelectSeq(pendingSpans, LAMBDA r : r.kind = "subagent" /\ r.id = a)
            n == Len(subSpans[a]) + Len(held)
        IN n + (IF a \in Keys(subs) THEN 1 ELSE 0) = IF agentSeen[a] = "no" THEN 0 ELSE 1

\* In whatever order stream, hooks, handler and telemetry report a call, and whichever
\* table forgets it meanwhile: one completion, one parent, a whole measurement.
ToolsAccounted ==
    /\ OneCompletion
    /\ HalvesAgree
    /\ CallsShip
    /\ MergedIsWhole
    /\ SubsOnce

=============================================================================
