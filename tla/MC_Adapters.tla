----------------------------- MODULE MC_Adapters -----------------------------
(***************************************************************************)
(* What the framework adapters assemble, on small instances: a Claude      *)
(* session's responses, its tools and its place among the sessions, and    *)
(* the runs of openai-agents.  They share no state here, so one run takes  *)
(* one of them at a time: a behaviour belongs to the machine its first     *)
(* state picks, and leaves the others where they start.                    *)
(***************************************************************************)
EXTENDS SessionChats, SessionTools, Sessions, OpenAIRuns

CONSTANTS k1, k2, k3, t1, a1, rt

VARIABLE machine

machines == <<machine, chatVars, toolVars, sessionVars, runVars>>

\* One call belongs to a sub-agent, the others to the session itself.
MCAgentOf == [t \in Tools |-> IF t = t1 THEN a1 ELSE rt]

\* A response with one tool call, and one with the same call twice.
MCResponses == {<<"p">>, <<"p", "p">>}

\* Agents are told apart by name only, so which name the first one has makes
\* no difference.
FirstNamed == agents # <<>> => agents[1].name = "x"

\* A config that holds a run's responses, a fatal mark and a second call are taken one at a time:
\* they touch different fields of the run.
Marks == \E a \in DOMAIN agents : agents[a].fatal
HoldsBack == \E c \in DOMAIN calls : calls[c].held
OneThing == (Marks => asked = <<>> /\ ~HoldsBack) /\ (HoldsBack => Len(calls) = 1)

\* Tasks other than the main thread are first heard of in order: their names make no difference.
Heard(th) == th \in threads \cup overThreads \/ responding[th] # None
InOrder ==
  /\ Heard(k2)' /\ ~Heard(k2) => Heard(k1)
  /\ Heard(k3)' /\ ~Heard(k3) => Heard(k2)

\* The bound evicts, the CLI starts a turn by itself, or a prompt comes in a turn's way, with at
\* most one task beside the main thread; without them there are three.
Few ==
  \/ evictions = 0 /\ unasked = {} /\ mixed = {} /\ turn # OwnTurn
  \/ Cardinality({th \in Tasks : Heard(th)}) <= 1

\* One hook of one call may find no session.
OneLost ==
  Cardinality({<<t, hook>> \in Tools \X {"pre", "post"} : toolSeen[t][hook] = "lost"}) <= 1

\* Transports are told apart by name only: the first that has a session is named.
FirstTransport == roots[1].status # "none" => roots[1].of = "k1"

Init ==
  /\ machine \in {"chats", "tools", "sessions", "runs"}
  /\ SessionInit /\ RunInit
  /\ ChatInit /\ (machine # "chats" => mode = "hooks")
  /\ ToolInit /\ (machine # "tools" => bridge)

Next ==
  \/ /\ machine = "chats" /\ ChatNext /\ Few' /\ InOrder
     /\ UNCHANGED <<machine, toolVars, sessionVars, runVars>>
  \/ /\ machine = "tools" /\ ToolNext /\ OneLost'
     /\ UNCHANGED <<machine, chatVars, sessionVars, runVars>>
  \/ /\ machine = "sessions" /\ SessionNext /\ FirstTransport'
     /\ UNCHANGED <<machine, chatVars, toolVars, runVars>>
  \/ /\ machine = "runs" /\ RunNext /\ FirstNamed' /\ OneThing'
     /\ UNCHANGED <<machine, chatVars, toolVars, sessionVars>>

Spec == Init /\ [][Next]_machines
=============================================================================
