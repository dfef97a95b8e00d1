----------------------------- MODULE MC_Assembly -----------------------------
(***************************************************************************)
(* The machinery beneath the observers, on small instances: units and      *)
(* their names, scopes, header injection, init() and close(), the signal   *)
(* table, the units of an adapter.  They share no state here, so one run   *)
(* takes one of them at a time: a behaviour belongs to the machine its     *)
(* first state picks, and leaves the others where they start.              *)
(***************************************************************************)
EXTENDS Units, UnitAliases, Carriers, Propagation, Lifecycle, SignalTable, AdapterScopes

CONSTANTS c1, c2, c3, u1, u2

VARIABLE machine

machines == <<machine, unitVars, aliasVars, carrierVars, propVars, lifeVars, sigVars, scopeVars>>

-----------------------------------------------------------------------------
\* Units.  Each host meets one bound, or the competition for one event.
MCHosts ==
  { [units |-> 1, entries |-> 2, opened |-> 4, spans |-> 1, calls |-> {"open", "close", "span"}],
    [units |-> 3, entries |-> 1, opened |-> 3, spans |-> 1, calls |-> {"open", "close", "closeall", "span"}],
    [units |-> 2, entries |-> 1, opened |-> 1, spans |-> 2, calls |-> {"open", "claim", "span", "close"}],
    [units |-> 1, entries |-> 2, opened |-> 3, spans |-> 1, calls |-> {"open", "fork", "closeall", "span"}] }

\* Carriers.  Two tasks of one loop and a thread; a unit under a unit.
MCLoop == [c \in Ctxs |-> IF c = c3 THEN 0 ELSE 1]
MCUnder == [u \in LUnits |-> IF u = u2 THEN u1 ELSE Unitless]

\* Propagation.  A library with two attributes, and one that merges late.
MCLibs == <<"httpx", "aiohttp">>
MCSlots == [httpx |-> <<"send", "asend">>, aiohttp |-> <<"req">>]

\* Lifecycle
MCSeams == <<"ssl", "mcp">>
MCAdapters == <<"graph", "agents">>

\* Scopes.  Tools where nothing fails, failures where there are none; three calls, two runs and
\* what they make, in one Context.
MCScopeHosts ==
  { [traced |-> FALSE, tools |-> TRUE, tasks |-> TRUE, calls |-> 2, faults |-> 0],
    [traced |-> TRUE, tools |-> FALSE, tasks |-> TRUE, calls |-> 2, faults |-> 1],
    [traced |-> TRUE, tools |-> FALSE, tasks |-> FALSE, calls |-> 3, faults |-> 0] }

\* A failure meets a second Context, a teardown or neither, by what it can leave there: a scope
\* that stands, a unit that lives.  No teardown where three calls end out of turn.
OneTrouble ==
  /\ Cardinality(DOMAIN begun) > 1 /\ faults # {} => \E f \in faults : f[2] \in {"activate", "close"}
  /\ sweep # "no" /\ faults # {} => \E f \in faults : f[2] \in {"open", "close", "close_all"}
  /\ sweep # "no" => shost.calls < 3

-----------------------------------------------------------------------------
Init ==
  /\ machine \in {"units", "aliases", "carriers", "propagation", "lifecycle", "signals", "scopes"}
  /\ UnitsInit /\ AliasInit /\ CarrierInit /\ PropInit /\ LifeInit /\ SigInit /\ ScopeInit
  /\ machine # "units" => uhost = CHOOSE h \in UHosts : TRUE
  /\ machine # "scopes" => shost = CHOOSE h \in ScopeHosts : TRUE

Next ==
  \/ /\ machine = "units" /\ UnitsNext
     /\ UNCHANGED <<machine, aliasVars, carrierVars, propVars, lifeVars, sigVars, scopeVars>>
  \/ /\ machine = "aliases" /\ AliasNext
     /\ UNCHANGED <<machine, unitVars, carrierVars, propVars, lifeVars, sigVars, scopeVars>>
  \/ /\ machine = "carriers" /\ CarrierNext
     /\ UNCHANGED <<machine, unitVars, aliasVars, propVars, lifeVars, sigVars, scopeVars>>
  \/ /\ machine = "propagation" /\ PropNext
     /\ UNCHANGED <<machine, unitVars, aliasVars, carrierVars, lifeVars, sigVars, scopeVars>>
  \/ /\ machine = "lifecycle" /\ LifeNext
     /\ UNCHANGED <<machine, unitVars, aliasVars, carrierVars, propVars, sigVars, scopeVars>>
  \/ /\ machine = "signals" /\ SigNext
     /\ UNCHANGED <<machine, unitVars, aliasVars, carrierVars, propVars, lifeVars, scopeVars>>
  \/ /\ machine = "scopes" /\ ScopeNext /\ OneTrouble'
     /\ UNCHANGED <<machine, unitVars, aliasVars, carrierVars, propVars, lifeVars, sigVars>>

Spec == Init /\ [][Next]_machines
=============================================================================
