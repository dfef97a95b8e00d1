------------------------------ MODULE Carriers ------------------------------
(***************************************************************************)
(* What is ambient in a Context: the current scope (_hub.py, _scope.py,    *)
(* context/_contextvar.py, the blocks of _tracing.py) and the logical unit *)
(* beside it (the carriers and pins of _assembly/_units.py).  A Context is *)
(* the marker _hub.here() keeps for it.  A block held open by a generator  *)
(* may end in another Context than it began in; a unit may die on another  *)
(* task than the one it is pinned on; work started in a block copies what  *)
(* is ambient.                                                             *)
(***************************************************************************)
EXTENDS Integers, Sequences, FiniteSets, SequencesExt

CONSTANTS
  Ctxs,        \* Contexts
  Loop,        \* the event loop a Context's task runs on, 0 for a thread
  First,       \* the Context that runs at the start
  LUnits,      \* logical units
  Under,       \* the unit a unit is opened under, or Unitless
  Unitless,
  Interleaved, \* generators of one Context may end in any order
  MaxScopes, MaxInits

VARIABLES
  scopes,    \* every fork: [span, to, by, prev, owner, was, kind, open, left]
  cur,       \* the current-scope variable of each Context, 0 for a blank scope
  amb,       \* the ambient-unit variable: [unit, owner]
  inherited, \* what each Context was started with: the labels its scope had
  running,   \* Contexts that exist
  unit,      \* "new", "live" or "dead"
  registry,       \* the registry that opened the unit
  pins,      \* UnitRegistry._pins: the fork of the unit's pin, or 0
  handle,    \* the fork a PinToken or an activation still holds, or 0
  inits,     \* the registry of the last init()
  gen        \* a decorated generator: what its next step runs under (0 before it is called),
             \* and during a step the Context it runs in with that Context's own scope

carrierVars == <<scopes, cur, amb, inherited, running, unit, registry, pins, handle, inits, gen>>

NoEntry == [unit |-> Unitless, owner |-> First]
Forks == DOMAIN scopes
SpanOf(s) == IF s = 0 THEN Unitless ELSE scopes[s].span
Retired(ss, s, c) == s # 0 /\ ss[s].to # -1 /\ ss[s].by = c

\* _settled(): past every scope retired for this Context, and no other.
Follow(ss, s, c) == FoldLeft(LAMBDA acc, i : IF Retired(ss, acc, c) THEN ss[acc].to ELSE acc, s, ss)

\* What get_current_scope() returns in c.
Reads(c) == Follow(scopes, cur[c], c)

CarrierInit ==
  /\ scopes = <<>> /\ cur = [c \in Ctxs |-> 0] /\ amb = [c \in Ctxs |-> NoEntry]
  /\ inherited = [c \in Ctxs |-> {}] /\ running = {First}
  /\ unit = [u \in LUnits |-> "new"] /\ registry = [u \in LUnits |-> 0]
  /\ pins = [u \in LUnits |-> 0] /\ handle = [u \in LUnits |-> 0] /\ inits = 1
  /\ gen = [scope |-> 0, at |-> {}, outer |-> 0]

\* The forks a scope was made over, itself included.
Chain(s) == FoldLeft(LAMBDA acc, i : acc \cup {scopes[t].prev : t \in acc \ {0}}, {s}, scopes) \ {0}

\* A task, a thread under bind_context() or a callback: a copy of the Context.  What it is
\* started with are the blocks around it, and one ended elsewhere that its starter has not
\* read past yet, where it could not be settled at once (the limit _settle_from_afar() states).
Spawn(c, d) ==
  /\ c \in running /\ d \notin running
  /\ running' = running \cup {d}
  /\ cur' = [cur EXCEPT ![d] = cur[c]] /\ amb' = [amb EXCEPT ![d] = amb[c]]
  /\ inherited' = [inherited EXCEPT ![d] = inherited[c] \cup {s \in Chain(cur[c]) : scopes[s].open \/ scopes[s].left}]
  /\ UNCHANGED <<scopes, unit, registry, pins, handle, inits, gen>>

\* _fork() and the set() of _Installed, install_span() and activate_span().
Fork(c, span, kind) ==
  [span |-> span, to |-> -1, by |-> First, prev |-> Reads(c), owner |-> c, was |-> amb[c],
   kind |-> kind, open |-> TRUE, left |-> FALSE]
Install(c, span, kind) ==
  /\ Len(scopes) < MaxScopes
  /\ scopes' = Append(scopes, Fork(c, span, kind))
  /\ cur' = [cur EXCEPT ![c] = Len(scopes) + 1]

\* with wardex.span(), conversation() or new_scope(), in a function, a generator or the body of
\* a decorated one.  Its span is the block itself.
OpenBlock(c, kind) ==
  /\ c \in running /\ (c \in gen.at <=> kind = "body")
  /\ Install(c, Len(scopes) + 1, kind)
  /\ UNCHANGED <<amb, inherited, running, unit, registry, pins, handle, inits, gen>>

\* retire(): prev is followed past what the same Context already retired.
Retire(ss, s) ==
  LET to == Follow(ss, ss[s].prev, ss[s].owner)
  IN  IF to = s THEN ss ELSE [ss EXCEPT ![s].to = to, ![s].by = ss[s].owner]

SameLoop(c, d) == Loop[c] = Loop[d] /\ Loop[c] # 0

\* _settle_from_afar(): only from the installer's own event loop.
Lends(c, d) == SameLoop(c, d)

\* A plain set() where the Token is refused.
TakeDownHere(s, d) ==
  /\ cur' = [cur EXCEPT ![d] = scopes[s].prev]
  /\ scopes' = [scopes EXCEPT ![s].open = FALSE]

NewestOf(ss) == IF ss = {} THEN 0 ELSE CHOOSE s \in ss : \A t \in ss : t <= s
Body == {s \in Forks : scopes[s].open /\ scopes[s].kind \in {"steps", "body"}}
Own(c) == {s \in Forks : scopes[s].open /\ scopes[s].owner = c} \ Body
\* With statements of one Context end innermost first; pins are no with statements.
Innermost(c) == NewestOf({s \in Own(c) : scopes[s].kind # "pin"})

\* take_down(): by the Token at home, by retire() elsewhere.
TakeDown(s, d) ==
  LET c == scopes[s].owner
      prev == scopes[s].prev
      back(e) == IF cur[e] = s THEN prev ELSE cur[e]
  IN  IF d = c
      THEN /\ cur' = [cur EXCEPT ![c] = prev]
           /\ scopes' = [scopes EXCEPT ![s].open = FALSE]
      ELSE /\ cur' = [cur EXCEPT ![d] = back(d), ![c] = IF Lends(c, d) THEN back(c) ELSE @]
           /\ scopes' = [Retire(scopes, s) EXCEPT ![s].open = FALSE, ![s].left = ~(SameLoop(c, d) /\ cur[c] = s)]

\* A plain block ends where it began, innermost first; a generator's anywhere; a decorated
\* body's in a step.
CloseBlock(s, d) ==
  /\ d \in running /\ s \in Forks /\ scopes[s].open
  /\ (d \in gen.at <=> scopes[s].kind = "body")
  /\ \/ scopes[s].kind = "body" /\ s = NewestOf(Body)
     \/ scopes[s].kind = "block" /\ d = scopes[s].owner /\ Innermost(d) = s
     \/ scopes[s].kind = "generator" /\ (d = scopes[s].owner => Interleaved \/ Innermost(d) = s)
  /\ TakeDown(s, d)
  /\ UNCHANGED <<amb, inherited, running, unit, registry, pins, handle, inits, gen>>

(***************************************************************************)
(* A decorated generator (_decorators.py): its span is current for one     *)
(* step at a time, whichever Context the step runs in.                     *)
(***************************************************************************)
Decorate(c) ==
  /\ c \in running /\ gen.scope = 0 /\ Len(scopes) < MaxScopes
  /\ scopes' = Append(scopes, Fork(c, Len(scopes) + 1, "steps"))
  /\ gen' = [gen EXCEPT !.scope = Len(scopes) + 1]
  /\ UNCHANGED <<cur, amb, inherited, running, unit, registry, pins, handle, inits>>

\* _Steps.__enter__()
StepIn(d) ==
  /\ d \in running /\ gen.scope # 0 /\ gen.at = {}
  /\ gen' = [gen EXCEPT !.at = {d}, !.outer = cur[d]]
  /\ cur' = [cur EXCEPT ![d] = gen.scope]
  /\ UNCHANGED <<scopes, amb, inherited, running, unit, registry, pins, handle, inits>>

\* _Steps.__exit__(): what the body left installed is what its next step resumes under.
StepOut(d) ==
  /\ gen.at = {d}
  /\ gen' = [gen EXCEPT !.at = {}, !.scope = cur[d]]
  /\ cur' = [cur EXCEPT ![d] = gen.outer]
  /\ UNCHANGED <<scopes, amb, inherited, running, unit, registry, pins, handle, inits>>

(***************************************************************************)
(* Units: opened under their parent, installed by a pin or an activation,  *)
(* closed with their children from any task.                               *)
(***************************************************************************)
OpenUnit(u) ==
  /\ unit[u] = "new" /\ (Under[u] # Unitless => unit[Under[u]] = "live")
  /\ unit' = [unit EXCEPT ![u] = "live"] /\ registry' = [registry EXCEPT ![u] = inits]
  /\ UNCHANGED <<scopes, cur, amb, inherited, running, pins, handle, inits, gen>>

\* _Carrier: the scope fork and the ambient entry.  The frameworks report a run before the
\* agent and the tool inside it, so a unit is carried before the units under it are opened;
\* an adapter pins from callbacks or activates around calls, never both in one tree, and not
\* in the body of a decorated generator.
Carry(u, c, kind) ==
  /\ c \in running \ gen.at /\ unit[u] = "live" /\ handle[u] = 0 /\ pins[u] = 0
  /\ \A v \in LUnits : Under[v] = u => unit[v] = "new"
  /\ \A s \in Forks : Under[u] # Unitless /\ handle[Under[u]] = s => scopes[s].kind = kind
  /\ Install(c, u, kind)
  /\ amb' = [amb EXCEPT ![c] = [unit |-> u, owner |-> c]]
  /\ handle' = [handle EXCEPT ![u] = Len(scopes) + 1]
  /\ UNCHANGED <<inherited, running, unit, registry, inits, gen>>

Pin(u, c) == Carry(u, c, "pin") /\ pins' = [pins EXCEPT ![u] = Len(scopes) + 1]
Activate(u, c) == Carry(u, c, "activation") /\ UNCHANGED pins

\* restore_scope(): only while the fork is current, else the fork is retired.
Restore(st, s) ==
  LET c == st.scopes[s].owner
  IN  IF st.cur[c] = s THEN [st EXCEPT !.cur[c] = st.scopes[s].prev, !.scopes[s].open = FALSE]
      ELSE [st EXCEPT !.scopes = [Retire(st.scopes, s) EXCEPT ![s].open = FALSE, ![s].left = TRUE]]

\* _Carrier.remove() at home: the ambient entry and the scope, each by what it was.
TakenOff(st, s) ==
  LET c == st.scopes[s].owner
      at == [st EXCEPT !.amb[c] = st.scopes[s].was]
  IN  IF st.scopes[s].kind = "pin" THEN Restore(at, s)
      ELSE [at EXCEPT !.cur[c] = st.scopes[s].prev, !.scopes[s].open = FALSE]

Now == [cur |-> cur, scopes |-> scopes, amb |-> amb]
Becomes(st) == cur' = st.cur /\ scopes' = st.scopes /\ amb' = st.amb

\* unpin() and the exit of activate(); away from home both halves are refused and counted,
\* and what was installed stays.  On one task the framework ends a span after those inside it.
TakeOff(u, d) ==
  LET s == handle[u]
  IN  /\ s # 0 /\ d \in running \ gen.at
      /\ scopes[s].kind = "activation" /\ d = scopes[s].owner => Innermost(d) = s
      /\ \A v \in LUnits : Under[v] = u /\ handle[v] # 0 => scopes[handle[v]].owner # scopes[s].owner
      /\ handle' = [handle EXCEPT ![u] = 0] /\ pins' = [pins EXCEPT ![u] = 0]
      /\ IF d = scopes[s].owner THEN Becomes(TakenOff(Now, s)) ELSE Becomes([Now EXCEPT !.scopes[s].left = TRUE])
      /\ UNCHANGED <<inherited, running, unit, registry, inits, gen>>

\* _collect_locked(): parents before their children.
Doomed(us) == SetToSortSeq(us, LAMBDA u, v : Under[v] = u)

\* _detach_locked(): a pin standing on another task reads as what it was installed over.
RetirePin(ss, u, d) ==
  LET s == pins[u]
      under == IF ss[s].prev = 0 THEN Unitless ELSE ss[ss[s].prev].span
  IN  IF s = 0 THEN ss
      ELSE IF ss[s].owner = d THEN ss ELSE [ss EXCEPT ![s].span = under]

Detached(ss, us, d) == FoldLeft(LAMBDA acc, u : RetirePin(acc, u, d), ss, Doomed(us))
Dying(us) == [u \in LUnits |-> IF u \in us THEN "dead" ELSE unit[u]]

\* close(), from any task: a root as it stands, a nested run after its unpin.
CloseUnit(u, d) ==
  LET us == {v \in LUnits : unit[v] = "live" /\ (v = u \/ Under[v] = u)}
  IN  /\ unit[u] = "live" /\ d \in running /\ (Under[u] # Unitless => pins[u] = 0)
      /\ scopes' = Detached(scopes, us, d) /\ unit' = Dying(us)
      /\ pins' = [v \in LUnits |-> IF v \in us THEN 0 ELSE pins[v]]
      /\ UNCHANGED <<cur, amb, inherited, running, registry, handle, inits, gen>>

\* _unpin_held(): the pins of this task, as a stack unwinds.
HeldPins(d) == {s \in Forks : scopes[s].kind = "pin" /\ scopes[s].owner = d /\ \E u \in LUnits : handle[u] = s}
Unwound(d) == FoldLeft(TakenOff, Now, SetToSortSeq(HeldPins(d), LAMBDA s, t : s > t))

\* close() and init() of the SDK: every unit closed, a new registry.
ReInit(d) ==
  LET us == {v \in LUnits : unit[v] = "live"}
      st == Unwound(d)
  IN  /\ inits < MaxInits /\ d \in running \ gen.at /\ inits' = inits + 1
      /\ Becomes([st EXCEPT !.scopes = Detached(@, us, d)])
      /\ unit' = Dying(us) /\ pins' = [v \in LUnits |-> 0]
      /\ handle' = [v \in LUnits |-> IF handle[v] \in HeldPins(d) THEN 0 ELSE handle[v]]
      /\ UNCHANGED <<inherited, running, registry, gen>>

\* current(): a dead entry of another registry is taken off its own task.
Current(c) ==
  /\ c \in running /\ amb[c].unit # Unitless
  /\ registry[amb[c].unit] # inits /\ unit[amb[c].unit] = "dead" /\ amb[c].owner = c
  /\ amb' = [amb EXCEPT ![c] = NoEntry]
  /\ UNCHANGED <<scopes, cur, inherited, running, unit, registry, pins, handle, inits, gen>>

\* Any read settles the variable.
Read(c) ==
  /\ c \in running /\ Reads(c) # cur[c]
  /\ cur' = [cur EXCEPT ![c] = Reads(c)]
  /\ UNCHANGED <<scopes, amb, inherited, running, unit, registry, pins, handle, inits, gen>>

CarrierNext ==
  \/ \E c, d \in Ctxs : Spawn(c, d)
  \/ \E c \in Ctxs, kind \in {"block", "generator", "body"} : OpenBlock(c, kind)
  \/ \E s \in Forks, d \in Ctxs : CloseBlock(s, d)
  \/ \E c \in Ctxs : Decorate(c)
  \/ \E d \in Ctxs : StepIn(d)
  \/ \E d \in Ctxs : StepOut(d)
  \/ \E u \in LUnits : OpenUnit(u)
  \/ \E u \in LUnits, c \in Ctxs : Pin(u, c)
  \/ \E u \in LUnits, c \in Ctxs : Activate(u, c)
  \/ \E u \in LUnits, d \in Ctxs : TakeOff(u, d)
  \/ \E u \in LUnits, d \in Ctxs : CloseUnit(u, d)
  \/ \E d \in Ctxs : ReInit(d)
  \/ \E c \in Ctxs : Current(c)
  \/ \E c \in Ctxs : Read(c)

-----------------------------------------------------------------------------
Parent(c) == SpanOf(Reads(c))

\* A block that ended, wherever it ended, is no longer the scope a Context reads unless it
\* was started inside it: what is opened next is not charged to a finished block.
EndedBlockIsGone ==
  \A c \in running : \A s \in Forks :
    scopes[s].kind \in {"block", "generator", "body"} /\ ~scopes[s].open /\ Reads(c) = s => s \in inherited[c]

DiedWith(u, v) == u # Unitless /\ unit[u] = "dead" /\ v \in {u, Under[u]}

\* A dead unit of the registry in use is never a parent beside a live unit or none: where its
\* span is still in scope, the ambient entry is its own or that of a dead unit under it (a fork left
\* standing by a refused unpin, or taken down and not settled yet, excepted).
DeadUnitIsSaid ==
  \A c \in running : \A u \in LUnits :
    unit[u] = "dead" /\ registry[u] = inits /\ Parent(c) = u /\ ~scopes[Reads(c)].left => DiedWith(amb[c].unit, u)

\* A block that is still open and innermost in its Context is what that Context reads,
\* whatever other Contexts took down.
OpenBlockIsKept ==
  \A c \in running \ gen.at :
    LET s == NewestOf(Own(c)) IN s # 0 /\ scopes[s].kind = "block" => Reads(c) = s

\* A step of a decorated generator runs under what the body holds open, and between its steps
\* no Context but one started in the body reads the generator's scopes.
StepsKeepToThemselves ==
  /\ \A d \in gen.at : Reads(d) = NewestOf(Body)
  /\ \A c \in running \ gen.at : Reads(c) \notin Body \ inherited[c]

\* What a Context reads as current is the innermost block open in it, wherever blocks
\* begin and end, generators step and units die.
AmbientIsTrue ==
  /\ EndedBlockIsGone
  /\ OpenBlockIsKept
  /\ DeadUnitIsSaid
  /\ StepsKeepToThemselves

=============================================================================
