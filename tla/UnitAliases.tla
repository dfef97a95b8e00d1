---------------------------- MODULE UnitAliases ----------------------------
(***************************************************************************)
(* Names of units and the edges they give (_assembly/_units.py,            *)
(* _assembly/_forgotten.py): the alias table, the bounded list of keys     *)
(* each unit is known by, the memory of closed link targets, the record of *)
(* ids the bound threw away, and the resolution of a call that names one.  *)
(* Every operation holds the registry's lock and is one step.              *)
(***************************************************************************)
EXTENDS Parentage, Sequences, FiniteSets, SequencesExt

CONSTANTS
  AKeys,          \* ids units are known by
  MaxAliasUnits,  \* bound: units opened
  MaxEntries,     \* max_entries_per_unit
  MaxLinkTargets  \* max_link_targets

ASSUME AliasAssumption == MaxEntries \in Nat \ {0} /\ MaxLinkTargets \in Nat \ {0}

VARIABLES
  au,        \* au[u]: [parent, kind, trace, alive, evicted, keys, remembered]
  byAlias,   \* byAlias[k]: the unit k resolves to, 0 for none
  linkMem,   \* closed link targets, oldest first: [key, unit]
  lostBy,    \* ForgottenAliases._by_key
  ring,      \* ForgottenAliases._by_unit: ring[u]
  holder,    \* history: the last unit each key was bound to
  overflow   \* history: keys a full ring no longer records

aliasVars == <<au, byAlias, linkMem, lostBy, ring, holder, overflow>>

Live == {u \in DOMAIN au : au[u].alive}
CtxOf(u) == [trace |-> au[u].trace, span |-> u, remote |-> FALSE]
\* A span the host made itself, in a trace of its own.
HostCtx == [trace |-> -1, span |-> -1, remote |-> FALSE]

\* The chain of parents of a unit, nearest first; a parent has a smaller number.
Ancestors(u) ==
  LET f[x \in 0 .. Len(au)] == IF x = 0 THEN {} ELSE {x} \union f[au[x].parent]
  IN  f[au[u].parent]

(***************************************************************************)
(* Binding.  s is the tables' state as one record, so that open() can bind *)
(* several keys in a row.                                                  *)
(***************************************************************************)
Tables == [au |-> au, by |-> byAlias, mem |-> linkMem, lost |-> lostBy, ring |-> ring, over |-> overflow]

\* ForgottenAliases.rebound: the key resolves again, so its record goes, unless
\* the binding unit was opened on the very loss.
Rebound(s, k, u, carries) ==
  IF s.lost[k] = 0 \/ (carries /\ s.lost[k] # u) THEN s
  ELSE LET o == s.lost[k]
       IN  [s EXCEPT !.lost[k] = 0,
                     !.ring[o] = IF Contains(@, k) THEN RemoveAt(@, CHOOSE i \in DOMAIN @ : @[i] = k) ELSE @]

\* ForgottenAliases.forget: the oldest record of the unit makes room.
Forget(s, k, u) ==
  LET full == Len(s.ring[u]) >= MaxEntries
      old == Head(s.ring[u])
  IN  [s EXCEPT !.ring[u] = Append(IF full THEN Tail(@) ELSE @, k),
                !.lost = [x \in AKeys |-> IF x = k THEN u
                                          ELSE IF full /\ x = old /\ s.lost[x] = u THEN 0 ELSE s.lost[x]],
                !.over = IF full THEN (@ \union {old}) \ {k} ELSE @ \ {k}]

EvictAlias(s, u) ==
  LET old == Head(s.au[u].keys)
      popped == [s EXCEPT !.au[u].keys = Tail(@), !.au[u].remembered = @ \ {old}]
  IN  IF Len(s.au[u].keys) < MaxEntries THEN s
      ELSE IF s.by[old] = u THEN Forget([popped EXCEPT !.by[old] = 0], old, u)
      ELSE popped

Bind(s, k, u, carries) ==
  LET a == Rebound(s, k, u, carries)
      b == IF Contains(a.au[u].keys, k) THEN a
           ELSE [EvictAlias(a, u) EXCEPT !.au[u].keys = Append(@, k)]
  IN  [b EXCEPT !.by[k] = u, !.mem = SelectSeq(@, LAMBDA e : e.key # k)]

Put(s) == /\ au' = s.au /\ byAlias' = s.by /\ linkMem' = s.mem
          /\ lostBy' = s.lost /\ ring' = s.ring /\ overflow' = s.over

(***************************************************************************)
(* _detach_locked, one unit: remembered keys it still holds become link    *)
(* targets (the oldest make room), its records and its names go.           *)
(***************************************************************************)
Remember(s, u) ==
  LET keep == {k \in s.au[u].remembered : s.by[k] = u}
      order == SelectSeq(s.au[u].keys, LAMBDA k : k \in keep)
      mem == FoldLeft(LAMBDA acc, k : Append(SelectSeq(acc, LAMBDA e : e.key # k), [key |-> k, unit |-> u]),
                      s.mem, order)
  IN  IF Len(mem) <= MaxLinkTargets THEN mem
      ELSE SubSeq(mem, Len(mem) - MaxLinkTargets + 1, Len(mem))

\* A unit that goes without its record of lost ids.
DropUnitKeepsLost(s, u) == s

DropUnit(s, u) == [s EXCEPT !.lost = [k \in AKeys |-> IF s.lost[k] = u THEN 0 ELSE s.lost[k]],
                            !.ring[u] = <<>>]

DetachNames(s, u) ==
  LET r == DropUnit([s EXCEPT !.mem = Remember(s, u)], u)
  IN  [r EXCEPT !.au[u].alive = FALSE, !.au[u].remembered = {}, !.au[u].keys = <<>>,
                !.by = [k \in AKeys |-> IF r.by[k] = u /\ Contains(r.au[u].keys, k) THEN 0 ELSE r.by[k]]]

(***************************************************************************)
(* What the caller's context holds: the span that is current, and the unit *)
(* whose activation or pin put it there (0 for none).                      *)
(***************************************************************************)
Ambients ==
  {[ctx |-> NoCtx, entry |-> 0], [ctx |-> HostCtx, entry |-> 0]}
  \union {[ctx |-> CtxOf(u), entry |-> u] : u \in DOMAIN au}

Poisoned(a) == a.entry # 0 /\ ~au[a.entry].alive /\ a.ctx # NoCtx /\ a.ctx = CtxOf(a.entry)

RefusedMarker(a) == IF au[a.entry].evicted THEN "INSTRUMENTATION_DEGRADED" ELSE "CORRELATION_CONFLICT"

SoleLive == LET s == {u \in Live : au[u].kind = "SESSION"}
            IN  IF Cardinality(s) = 1 THEN CHOOSE u \in s : TRUE ELSE 0

\* Would the id, still bound to o, have given this edge anyway?
LostNothing(o, ctx) ==
  /\ ctx # NoCtx /\ ctx.trace = au[o].trace
  /\ ctx.span \notin Ancestors(o)

ForgottenEdge(ctx, o) ==
  LET cross == ctx.trace # au[o].trace
      edge == IF SoleLive # 0 THEN Edge(CtxOf(SoleLive), "UNIT_SOLE", Unsupplied)
              ELSE IF ctx # NoCtx
              THEN LET e == ResolveParentage(ctx, "CONTEXTVAR", CapAtAliasTier(IF cross THEN 8 ELSE Unsupplied))
                   IN  IF cross THEN WithLimitation(e, "CORRELATION_CONFLICT") ELSE e
              ELSE ResolveParentage(NoCtx, "UNRESOLVED", Unsupplied)
  IN  WithLimitation(edge, "ALIAS_FORGOTTEN")

\* _edge(): the ladder for the unit the id names (0: the id resolves to nothing).
Ladder(u, lost, ctx) ==
  IF u # 0 /\ ctx # NoCtx
  THEN IF au[u].trace = ctx.trace
       THEN IF ctx.span \in Ancestors(u) THEN Edge(CtxOf(u), "UNIT_ALIAS", Unsupplied)
            ELSE ResolveParentage(ctx, "CONTEXTVAR", Unsupplied)
       ELSE WithLimitation(ResolveParentage(ctx, "CONTEXTVAR", 8), "CORRELATION_CONFLICT")
  ELSE IF u # 0 THEN Edge(CtxOf(u), "UNIT_ALIAS", Unsupplied)
  ELSE IF lost # 0 /\ ~LostNothing(lost, ctx) THEN ForgottenEdge(ctx, lost)
  ELSE IF ctx # NoCtx THEN ResolveParentage(ctx, "CONTEXTVAR", Unsupplied)
  ELSE IF SoleLive # 0 THEN Edge(CtxOf(SoleLive), "UNIT_SOLE", Unsupplied)
  ELSE ResolveParentage(NoCtx, "UNRESOLVED", Unsupplied)

\* resolve(): a scope that shows a closed unit is refused, and the edge says so.
ResolveUnit(u, lost, a) ==
  IF Poisoned(a) THEN WithLimitation(Ladder(u, lost, NoCtx), RefusedMarker(a))
  ELSE Ladder(u, lost, a.ctx)

(***************************************************************************)
(* Operations.                                                             *)
(***************************************************************************)
AliasOpen(p, kind, k, a, carries) ==
  /\ Len(au) < MaxAliasUnits
  /\ LET u == Len(au) + 1
         edge == IF p # 0 THEN Edge(CtxOf(p), "UNIT_ACTIVE", Unsupplied)
                 ELSE ResolveParentage(IF Poisoned(a) THEN NoCtx ELSE a.ctx, "CONTEXTVAR", Unsupplied)
         unit == [parent |-> p, kind |-> kind, alive |-> TRUE, evicted |-> FALSE, keys |-> <<>>,
                  remembered |-> {}, trace |-> IF edge.parent = NoCtx THEN u ELSE edge.parent.trace]
         s == [Tables EXCEPT !.au = Append(@, unit), !.ring = Append(@, <<>>)]
     IN  Put(Bind(s, k, u, carries))
  /\ holder' = [holder EXCEPT ![k] = Len(au) + 1]

\* bind_alias(), and alias() through a key that resolves already.
AliasBind(u, k, remember) ==
  /\ u \in Live
  /\ LET s == Bind(Tables, k, u, FALSE)
     IN  Put(IF remember THEN [s EXCEPT !.au[u].remembered = @ \union {k}] ELSE s)
  /\ holder' = [holder EXCEPT ![k] = u]

AliasOf(k, alias) ==
  /\ byAlias[k] # 0
  /\ AliasBind(byAlias[k], alias, FALSE)

\* close() of a unit with everything live below it, or its eviction at a bound.
AliasClose(u, evicted) ==
  /\ u \in Live
  /\ LET below == {v \in Live : v = u \/ u \in Ancestors(v)}
         s == FoldLeft(LAMBDA acc, v : DetachNames(acc, v), Tables, SetToSortSeq(below, <))
     IN  Put([s EXCEPT !.au[u].evicted = evicted])
  /\ UNCHANGED holder

\* resolve_link_target(): a live holder, else the memory of a closed one.
LinkTarget(k) ==
  IF byAlias[k] # 0 THEN byAlias[k]
  ELSE LET m == SelectSeq(linkMem, LAMBDA e : e.key = k) IN IF m = <<>> THEN 0 ELSE m[1].unit

AliasInit ==
  /\ au = <<>> /\ linkMem = <<>> /\ ring = <<>>
  /\ byAlias = [k \in AKeys |-> 0] /\ lostBy = [k \in AKeys |-> 0]
  /\ holder = [k \in AKeys |-> 0]
  /\ overflow = {}

AliasNext ==
  \/ \E p \in {0} \union DOMAIN au, kind \in {"SESSION", "CALL"}, k \in AKeys, a \in Ambients, c \in BOOLEAN :
       AliasOpen(p, kind, k, a, c)
  \/ \E u \in DOMAIN au, k \in AKeys, r \in BOOLEAN : AliasBind(u, k, r)
  \/ \E k, alias \in AKeys : AliasOf(k, alias)
  \/ \E u \in DOMAIN au, e \in BOOLEAN : AliasClose(u, e)

-----------------------------------------------------------------------------
\* However long the units live and however often they are renamed, no table grows
\* past its bound: the names of a unit, its record of lost ids, the link targets.
AliasesBounded ==
  /\ \A u \in DOMAIN au : Len(au[u].keys) <= MaxEntries /\ Len(ring[u]) <= MaxEntries
  /\ Len(linkMem) <= MaxLinkTargets

\* A name resolves only to a live unit that still lists it, so that the unit's end
\* takes the name with it, however often the name was rebound or evicted before.
NamesAreLive ==
  \A k \in AKeys : byAlias[k] # 0 => au[byAlias[k]].alive /\ Contains(au[byAlias[k]].keys, k)

\* A link follows a name to its most recent holder or nowhere: a rebound name never
\* answers for the unit that held it before.
LinksAreLatest == \A k \in AKeys : LinkTarget(k) # 0 => LinkTarget(k) = holder[k]

\* The record of a lost id names a live unit whose ring lists it.
LostAreLive == \A k \in AKeys : lostBy[k] # 0 => au[lostBy[k]].alive /\ Contains(ring[lostBy[k]], k)

\* resolve() changes nothing, so its answers are stated for every state and caller.
Answer(k, a) == ResolveUnit(byAlias[k], lostBy[k], a)

\* Losing an id to the bound never makes an edge more certain than the id made it, and
\* never moves it to another parent without saying so (as long as the ring records it).
LossIsSaid ==
  \A k \in AKeys \ overflow, a \in Ambients :
    byAlias[k] = 0 /\ holder[k] \in Live =>
      LET kept == ResolveUnit(holder[k], 0, a)
      IN  /\ Answer(k, a).parent # kept.parent => Answer(k, a).marks # {}
          /\ Answer(k, a).conf <= kept.conf

\* No call is filed below a unit that is closed because a stale activation or pin of it
\* is still in scope.
NoClosedParent ==
  au # <<>> => \A k \in AKeys, a \in Ambients :
    LET p == Answer(k, a).parent.span IN p > 0 => au[p].alive

\* The five tables a name goes through agree, whatever is bound again, evicted, closed or
\* forgotten: a name gives the unit it was last bound to, or the edge says what was lost.
NamesAreTrue ==
  /\ AliasesBounded
  /\ NamesAreLive
  /\ LinksAreLatest
  /\ LostAreLive
  /\ LossIsSaid
  /\ NoClosedParent

=============================================================================
