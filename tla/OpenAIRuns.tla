----------------------------- MODULE OpenAIRuns -----------------------------
(***************************************************************************)
(* The OpenAI Agents adapter (_adapters/_openai_agents.py, _kinds, _entry):*)
(* what it reads from the framework's trace and span callbacks and from    *)
(* the Runner entry points.  The current agent, the pending handoff and    *)
(* the entry-point call are context variables, so each task has its own    *)
(* and a task started in another begins with a copy.  A run's root is one  *)
(* per framework trace: opened by the host around its calls, or by the     *)
(* framework inside a call.                                                *)
(***************************************************************************)
EXTENDS Integers, Sequences, FiniteSets, SequencesExt

CONSTANTS
  Roster,        \* agent names
  ModelResponses, \* the tool calls a model response asks for, by (name, arguments)
  AbortsHandoff, \* the framework may fail between a handoff and its receiver's start
  MaxTasks, MaxTraces, MaxCalls, MaxAgents, MaxTools

VARIABLES
  tasks,   \* [stack, trace, call, agent, pending, raised]: the framework's frames, innermost
           \* last, its current trace, the three variables and the exception in flight
  traces,  \* run states: [open, call, openedIn, err, status]
  calls,   \* RunCall: [root, ok, held], how the call ended and whether that was said, whether it
           \* failed after its root was over, and whether a tool made it inside another run
  agents,  \* agent entries: [name, trace, top, outer, fatal, calls, out, from, true, done]
  tools,   \* tool entries: [calls, did, got, done]
  handoffs, asked

runVars == <<tasks, traces, calls, agents, tools, handoffs, asked>>

NoHandoff == [id |-> 0, to |-> CHOOSE n \in Roster : TRUE, trace |-> 0]
Task(stack, of) ==
  [stack |-> stack, trace |-> of.trace, call |-> of.call, agent |-> of.agent, pending |-> of.pending, raised |-> "no"]

RunInit ==
  /\ tasks = <<[stack |-> <<>>, trace |-> 0, call |-> 0, agent |-> 0, pending |-> NoHandoff, raised |-> "no"]>>
  /\ traces = <<>> /\ calls = <<>> /\ agents = <<>> /\ tools = <<>> /\ handoffs = <<>> /\ asked = <<>>

-----------------------------------------------------------------------------
(* The framework's frames. *)
Frame(kind, id, prev) == [kind |-> kind, id |-> id, prev |-> prev, own |-> 0, went |-> FALSE, ended |-> FALSE, next |-> 0]
Stack(k) == tasks[k].stack
Top(k) == IF Stack(k) = <<>> THEN Frame("idle", 0, 0) ELSE Last(Stack(k))
Push(st, f) == Append(st, f)
Pop(st) == Front(st)
SetTop(st, f) == Append(Front(st), f)
Quiet(k) == tasks[k].raised = "no"
InHost(k) == Quiet(k) /\ Top(k).kind \in {"idle", "host", "tool"} /\ (k # 1 => Stack(k) # <<>>)

IsOpen(t) == t # 0 /\ traces[t].open

-----------------------------------------------------------------------------
(* Roots. *)

\* _host_root(), host_opened(): a root no call opened, with the agent current at its open.
HostRoot(k) ==
  LET t == tasks[k].trace
  IN  IF IsOpen(t) /\ traces[t].call = 0 /\ traces[t].openedIn = tasks[k].agent THEN t ELSE 0

\* open_root(): the trace of a call that has no root, when no other trace is current.
OwnerCall(k) ==
  LET c == tasks[k].call
  IN  IF c # 0 /\ calls[c].root = 0 /\ tasks[k].trace = 0 THEN c ELSE 0

\* on_trace_start: the pending handoff of an earlier run is dropped.
TraceStart(k, frame) ==
  LET t == Len(traces) + 1
      c == OwnerCall(k)
  IN  /\ t <= MaxTraces
      /\ traces' = Append(traces, [open |-> TRUE, call |-> c, openedIn |-> tasks[k].agent, err |-> FALSE, status |-> "none"])
      /\ calls' = IF c = 0 THEN calls ELSE [calls EXCEPT ![c].root = t]
      /\ tasks' = [tasks EXCEPT ![k].trace = t, ![k].pending = NoHandoff, ![k].stack = frame]
      /\ UNCHANGED <<agents, tools, handoffs, asked>>

\* with trace() in the host's code or in a tool.
HostTrace(k) ==
  /\ InHost(k) /\ TraceStart(k, Push(Stack(k), Frame("host", Len(traces) + 1, tasks[k].trace)))

\* The framework opens a trace for a call that finds none current.
OwnTrace(k) ==
  /\ Quiet(k) /\ Top(k).kind = "call" /\ tasks[k].trace = 0 /\ ~Top(k).went /\ ~Top(k).ended
  /\ TraceStart(k, SetTop(Stack(k), [Top(k) EXCEPT !.own = Len(traces) + 1]))

\* _close_run(): the call learns how its own root closed.
CloseRun(t, err) ==
  /\ traces' = [traces EXCEPT ![t].open = FALSE, ![t].err = FALSE, ![t].status = IF err THEN "error" ELSE "ok"]
  /\ calls' = IF traces[t].call = 0 THEN calls ELSE [calls EXCEPT ![traces[t].call].ok = IF err THEN "bad" ELSE "ok"]

\* on_trace_end: only a call's own root reads the failure leaving it.
Leaving(k, t) == traces[t].call # 0 /\ tasks[k].raised = "fails"

TraceEnd(k, t, frame, prev) ==
  /\ CloseRun(t, traces[t].err \/ Leaving(k, t))
  /\ tasks' = [tasks EXCEPT ![k].trace = prev, ![k].pending = NoHandoff, ![k].stack = frame]
  /\ UNCHANGED <<agents, tools, handoffs, asked>>

HostTraceEnd(k) ==
  /\ Top(k).kind = "host" /\ Quiet(k)
  /\ TraceEnd(k, Top(k).id, Pop(Stack(k)), Top(k).prev)

\* The framework closes its trace once the agents are through, or on an exception's way out.
OwnTraceEnd(k) ==
  /\ Top(k).kind = "call" /\ Top(k).own # 0
  /\ (Top(k).went /\ Top(k).next = 0) \/ ~Quiet(k)
  /\ TraceEnd(k, Top(k).own, SetTop(Stack(k), [Top(k) EXCEPT !.own = 0, !.ended = TRUE]), 0)

-----------------------------------------------------------------------------
(* Entry-point calls. *)
\* Held: the run's config keeps its model responses from the processors, whole or their content.
Call(k, held) ==
  [root |-> HostRoot(k), ok |-> "none", held |-> held, end |-> "running", said |-> FALSE, late |-> FALSE,
   nested |-> Top(k).kind = "tool"]

\* _Reader.enter() of run() and run_sync().
EnterCall(k, held) ==
  LET c == Len(calls) + 1
  IN  /\ InHost(k) /\ c <= MaxCalls
      /\ calls' = Append(calls, Call(k, held))
      /\ tasks' = [tasks EXCEPT ![k].call = c, ![k].stack = Push(@, Frame("call", c, tasks[k].call))]
      /\ UNCHANGED <<traces, agents, tools, handoffs, asked>>

\* run_streamed(): entered, left at once and driven by a task started inside it.
StreamCall(k, held) ==
  LET c == Len(calls) + 1
  IN  /\ InHost(k) /\ c <= MaxCalls /\ Len(tasks) < MaxTasks
      /\ calls' = Append(calls, Call(k, held))
      /\ tasks' = Append(tasks, Task(<<Frame("call", c, 0)>>, [tasks[k] EXCEPT !.call = c]))
      /\ UNCHANGED <<traces, agents, tools, handoffs, asked>>

\* RunCall.undecided()
Undecided(c) ==
  LET t == calls[c].root IN calls[c].ok = "ok" \/ (IsOpen(t) /\ ~traces[t].err)

\* settle(): an open root takes the failure; one that closed OK is counted and said.
Settle(c) ==
  LET t == calls[c].root
      closedOk == calls[c].ok = "ok"
  IN  /\ calls' = [calls EXCEPT ![c].end = "fails", ![c].said = closedOk,
                     ![c].late = @ \/ (t # 0 /\ ~IsOpen(t) /\ calls[c].ok = "none")]
      /\ traces' = IF Undecided(c) /\ ~closedOk THEN [traces EXCEPT ![t].err = TRUE] ELSE traces

\* leave(), and the done callback of a streamed call's task (watch()).  The caller handles
\* what was raised.
LeaveCall(k) ==
  LET f == Top(k)
  IN  /\ f.kind = "call" /\ f.own = 0 /\ ((f.went /\ f.next = 0) \/ ~Quiet(k))
      /\ tasks' = [tasks EXCEPT ![k].call = f.prev, ![k].raised = "no", ![k].stack = Pop(@)]
      /\ IF tasks[k].raised = "fails" THEN Settle(f.id)
         ELSE calls' = [calls EXCEPT ![f.id].end = tasks[k].raised] /\ UNCHANGED traces
      /\ UNCHANGED <<agents, tools, handoffs, asked>>

\* The framework raises, or its task is cancelled.
Raise(k, how) ==
  /\ Quiet(k) /\ Top(k).kind \in {"call", "agent"}
  /\ Top(k).next # 0 => AbortsHandoff
  /\ tasks' = [tasks EXCEPT ![k].raised = how]
  /\ calls' = IF Top(k).ended THEN [calls EXCEPT ![Top(k).id].late = TRUE] ELSE calls
  /\ UNCHANGED <<traces, agents, tools, handoffs, asked>>

-----------------------------------------------------------------------------
(* Agents and handoffs. *)

\* _agent_start(): the handoff this agent receives, 0 for none: of this run and to this name.
Received(k, name) ==
  LET p == tasks[k].pending IN IF p.trace = tasks[k].trace /\ p.to = name THEN p.id ELSE 0

\* What stays pending past an agent's start: a handoff of this run to another name.
StillPending(k, name) ==
  LET p == tasks[k].pending IN IF p.trace = tasks[k].trace /\ p.to # name THEN p ELSE NoHandoff

\* Next is the handoff the framework follows; a span of an ended run is dropped and said.
StartAgent(k, name) ==
  LET f == Top(k)
      a == Len(agents) + 1
      t == tasks[k].trace
      went == SetTop(Stack(k), [f EXCEPT !.went = TRUE, !.next = 0])
      entry == [name |-> name, trace |-> t, top |-> tasks[k].agent = 0, outer |-> tasks[k].agent, fatal |-> FALSE,
                calls |-> <<>>, out |-> 0, from |-> Received(k, name), true |-> f.next, done |-> FALSE]
  IN  /\ Quiet(k) /\ f.kind = "call" /\ ~f.ended /\ t # 0
      /\ IF f.next # 0 THEN handoffs[f.next].to = name ELSE ~f.went
      /\ a <= MaxAgents
      /\ IF IsOpen(t)
         THEN /\ agents' = Append(agents, entry)
              /\ tasks' = [tasks EXCEPT ![k].agent = a, ![k].pending = StillPending(k, name),
                             ![k].stack = Push(went, Frame("agent", a, 0))]
         ELSE /\ tasks' = [tasks EXCEPT ![k].stack = Push(went, Frame("agent", 0, 0))]
              /\ UNCHANGED agents
      /\ UNCHANGED <<traces, calls, tools, handoffs, asked>>

\* Published on this task at once.
HandoffEndAtOnce(k, name) ==
  LET f == Top(k)
      h == Len(handoffs) + 1
  IN  /\ Quiet(k) /\ f.kind = "agent" /\ f.id # 0 /\ f.next = 0 /\ Len(agents) < MaxAgents
      /\ IsOpen(tasks[k].trace)
      /\ handoffs' = Append(handoffs, [to |-> name])
      /\ agents' = [agents EXCEPT ![tasks[k].agent].out = h]
      /\ tasks' = [tasks EXCEPT ![k].stack = SetTop(@, [f EXCEPT !.next = h]),
                     ![k].pending = [id |-> h, to |-> name, trace |-> tasks[k].trace]]
      /\ UNCHANGED <<traces, calls, tools, asked>>

\* _handoff_end(): kept on the sender's entry; the agent's end publishes it.
HandoffEnd(k, name) ==
  LET f == Top(k)
      h == Len(handoffs) + 1
  IN  /\ Quiet(k) /\ f.kind = "agent" /\ f.id # 0 /\ f.next = 0 /\ Len(agents) < MaxAgents
      /\ IsOpen(tasks[k].trace)
      /\ handoffs' = Append(handoffs, [to |-> name])
      /\ agents' = [agents EXCEPT ![tasks[k].agent].out = h]
      /\ tasks' = [tasks EXCEPT ![k].stack = SetTop(@, [f EXCEPT !.next = h])]
      /\ UNCHANGED <<traces, calls, tools, asked>>

\* The framework puts a fatal error on the span of the agent or of its turn, as it does before
\* it asks the host's handler: what is raised after it, if anything, is another matter.
MarkSpan(k) ==
  LET a == Top(k).id
  IN  /\ Top(k).kind = "agent" /\ a # 0 /\ ~agents[a].fatal
      /\ agents' = [agents EXCEPT ![a].fatal = TRUE]
      /\ UNCHANGED <<tasks, traces, calls, tools, handoffs, asked>>

\* _agent_end(): the failure leaving a top-level agent is the run's, and so is a fatal error on
\* its span.
FailsRun(k, a) == (tasks[k].raised = "fails" \/ agents[a].fatal) /\ agents[a].top

\* The agent's frame is off the stack and the frame under it follows the handoff.
Unwind(k, how) ==
  LET st == Pop(Stack(k)) IN SetTop(st, [Last(st) EXCEPT !.next = IF how THEN Top(k).next ELSE 0])

EndAgent(k) ==
  LET f == Top(k)
      a == f.id
      t == agents[a].trace
      h == agents[a].out
      under == Unwind(k, Quiet(k))
  IN  /\ f.kind = "agent"
      /\ IF a # 0 /\ IsOpen(t)
         THEN /\ tasks' = [tasks EXCEPT ![k].stack = under, ![k].agent = agents[a].outer,
                  ![k].pending = IF h = 0 THEN NoHandoff ELSE [id |-> h, to |-> handoffs[h].to, trace |-> t]]
              /\ traces' = [traces EXCEPT ![t].err = @ \/ FailsRun(k, a)]
              /\ agents' = [agents EXCEPT ![a].done = TRUE]
         ELSE tasks' = [tasks EXCEPT ![k].stack = under] /\ UNCHANGED <<traces, agents>>
      /\ UNCHANGED <<calls, tools, handoffs, asked>>

-----------------------------------------------------------------------------
(* Model responses and the tools they ask for. *)

\* _model_end(): the calls of this response alone.
Remember(a, new) == new

Ids(n) == [i \in 1..n |-> Len(asked) + i]
Waiting(a) == \E f \in DOMAIN tools : ~tools[f].done /\ asked[tools[f].did].by = a

ModelEnd(k, keys) ==
  LET a == tasks[k].agent
      held == calls[tasks[k].call].held
  IN  /\ Quiet(k) /\ Top(k).kind = "agent" /\ Top(k).id # 0 /\ Top(k).next = 0 /\ IsOpen(tasks[k].trace)
      /\ ~Waiting(Top(k).id) /\ Len(asked) + Len(keys) <= MaxTools + 1
      /\ asked' = asked \o [i \in DOMAIN keys |-> [key |-> keys[i], by |-> Top(k).id, at |-> Len(asked), seen |-> ~held, started |-> FALSE]]
      /\ agents' = [agents EXCEPT ![a].calls = Remember(a, IF held THEN <<>> ELSE Ids(Len(keys)))]
      /\ UNCHANGED <<tasks, traces, calls, tools, handoffs>>

\* _function_start() on a task of its own: the calls of the agent current there.
StartsTool(k, i) ==
  /\ Quiet(k) /\ Top(k).kind = "agent" /\ Top(k).id # 0
  /\ Len(tasks) < MaxTasks /\ Len(tools) < MaxTools /\ IsOpen(tasks[k].trace)
  /\ tools' = Append(tools, [calls |-> agents[tasks[k].agent].calls, did |-> i, got |-> 0, done |-> FALSE])
  /\ tasks' = Append(tasks, Task(<<Frame("tool", Len(tools) + 1, 0)>>, tasks[k]))
  /\ UNCHANGED <<traces, calls, agents, handoffs>>

\* A call of the agent's latest response.
ToolStart(k, i) ==
  /\ asked[i].by = Top(k).id /\ ~asked[i].started
  /\ \A j \in DOMAIN asked : asked[j].by = Top(k).id => asked[j].at <= asked[i].at
  /\ StartsTool(k, i)
  /\ asked' = [asked EXCEPT ![i].started = TRUE]

ApprovedKeys == UNION {Range(keys) : keys \in ModelResponses}

\* A resumed run first runs the call the host approved: no response asked for it here.
ApprovedTool(k, key) ==
  /\ \A i \in DOMAIN asked : asked[i].by # Top(k).id
  /\ StartsTool(k, Len(asked) + 1) /\ agents[Top(k).id].true = 0
  /\ asked' = Append(asked, [key |-> key, by |-> Top(k).id, at |-> Len(asked), seen |-> FALSE, started |-> TRUE])

Matches(f) == SelectSeq(tools[f].calls, LAMBDA i : asked[i].key = asked[tools[f].did].key)

\* _function_end(): an exact and unique (name, arguments) match, or none.
Matched(f) == IF Len(Matches(f)) = 1 THEN Matches(f)[1] ELSE 0

ToolEnd(k) ==
  LET f == Top(k).id
  IN  /\ Quiet(k) /\ Top(k).kind = "tool"
      /\ tools' = [tools EXCEPT ![f].done = TRUE, ![f].got = IF IsOpen(tasks[k].trace) THEN Matched(f) ELSE 0]
      /\ tasks' = [tasks EXCEPT ![k].stack = Pop(@)]
      /\ UNCHANGED <<traces, calls, agents, handoffs, asked>>

RunNext ==
  \/ \E k \in DOMAIN tasks : HostTrace(k)
  \/ \E k \in DOMAIN tasks : HostTraceEnd(k)
  \/ \E k \in DOMAIN tasks : OwnTrace(k)
  \/ \E k \in DOMAIN tasks : OwnTraceEnd(k)
  \/ \E k \in DOMAIN tasks, held \in BOOLEAN : EnterCall(k, held)
  \/ \E k \in DOMAIN tasks, held \in BOOLEAN : StreamCall(k, held)
  \/ \E k \in DOMAIN tasks : LeaveCall(k)
  \/ \E k \in DOMAIN tasks, how \in {"fails", "cancelled"} : Raise(k, how)
  \/ \E k \in DOMAIN tasks, n \in Roster : StartAgent(k, n)
  \/ \E k \in DOMAIN tasks, n \in Roster : HandoffEnd(k, n)
  \/ \E k \in DOMAIN tasks : MarkSpan(k)
  \/ \E k \in DOMAIN tasks : EndAgent(k)
  \/ \E k \in DOMAIN tasks, keys \in ModelResponses : ModelEnd(k, keys)
  \/ \E k \in DOMAIN tasks, i \in DOMAIN asked : ToolStart(k, i)
  \/ \E k \in DOMAIN tasks, key \in ApprovedKeys : ApprovedTool(k, key)
  \/ \E k \in DOMAIN tasks : ToolEnd(k)

-----------------------------------------------------------------------------
\* A call that raised to its caller fails its root.  A root that was over before the failure
\* cannot: where the call opened it, the miss is said.
FailureIsSaid ==
  \A c \in DOMAIN calls : calls[c].end = "fails" /\ calls[c].root # 0 =>
    LET t == traces[calls[c].root]
    IN  t.err \/ t.status = "error" \/ (calls[c].late /\ (calls[c].ok = "ok" => calls[c].said))

Running(c) == \E k \in DOMAIN tasks : tasks[k].raised = "fails" /\ \E i \in DOMAIN Stack(k) : Stack(k)[i].kind = "call" /\ Stack(k)[i].id = c

\* The framework marked an agent of the run itself, and the agent closed under it.
Marked(t) == \E a \in DOMAIN agents : agents[a].trace = t /\ agents[a].top /\ agents[a].fatal /\ agents[a].done

\* A root fails only for a failure that leaves a call made directly under it, or for a fatal error
\* on an agent of its own, which fails it with nothing raised and is never lost: what a nested run
\* raised, which the tool around it handles, and what marked its agents, is not the run's.
RootFailsForCause ==
  \A t \in DOMAIN traces :
    LET failed == traces[t].err \/ traces[t].status = "error"
        left == \E c \in DOMAIN calls : calls[c].root = t /\ ~calls[c].nested /\ (calls[c].end = "fails" \/ Running(c))
    IN  (failed => left \/ Marked(t)) /\ (Marked(t) => failed)

\* An agent links to the handoff the framework followed to it, and to none it did not.
HandoffIsTrue == \A a \in DOMAIN agents : agents[a].from = agents[a].true

\* The call id on a tool span is the one executed.  It is missing only where the response asked
\* for the same call twice, where the processor never saw it asked (the run's config holds the
\* responses, or a resumed run carries out what an earlier one was asked), or where the run of
\* the agent was over first.
CallIdIsTrue ==
  \A f \in DOMAIN tools : tools[f].done =>
    LET i == tools[f].did
        twins == {j \in Range(tools[f].calls) : asked[j].key = asked[i].key}
    IN  /\ tools[f].got \in {0, i}
        /\ tools[f].got = 0 =>
             Cardinality(twins) > 1 \/ ~asked[i].seen \/ ~traces[agents[asked[i].by].trace].open

\* Tasks copy the variables that hold agent, handoff and call: still a failure is on the
\* run that failed, a handoff is the one that happened, and a tool call has its own id.
RunsAreTrue ==
  /\ FailureIsSaid
  /\ RootFailsForCause
  /\ HandoffIsTrue
  /\ CallIdIsTrue

=============================================================================
