------------------------------- MODULE Units -------------------------------
(***************************************************************************)
(* The registry of logical units (_assembly/_units.py): a bounded forest   *)
(* of live units, each with a bounded table of open spans and a bounded    *)
(* table of claims.  Every method works under the registry's lock and is   *)
(* one step; what it finished is handed to the sink afterwards, one draft  *)
(* at a time, without the lock (todo[t]).                                  *)
(*                                                                         *)
(* A unit is its number in opening order; a draft is its number in         *)
(* drafting order, a unit's own draft included.                            *)
(***************************************************************************)
EXTENDS Integers, Sequences, FiniteSets, SequencesExt

CONSTANTS
  UThreads,     \* threads of the host that drive the registry
  UKeys,        \* keys two observers of one event claim
  URanks,       \* ranks of observers
  UOwners,      \* adapters
  UHosts,       \* hosts: [units, entries: limits; calls; opened, spans: bounds]
  Unbuildable   \* drafts whose finalisation raises inside its guard

NoUnit == 0
NoKey == "nokey"

ASSUME UnitsAssumption ==
  /\ URanks \subseteq Nat
  /\ NoKey \notin UKeys
  /\ \A h \in UHosts : h.units \in Nat \ {0} /\ h.entries \in Nat \ {0}

VARIABLES
  uhost,     \* the host this behaviour belongs to
  reg,       \* [unit, draft: sequences; roots: sequence; live: set]
  todo,      \* todo[t]: drafts t finished under the lock and has not emitted
  grant,     \* grant[t]: the claim t was granted and has not opened a span for
  ufork      \* [on, units, drafts]: in a forked child, how many of each it inherited

unitVars == <<uhost, reg, todo, grant, ufork>>

(***************************************************************************)
(* Records.  `marks` are the limitations a forced end leaves.  History:    *)
(* `out` is where the draft ended ("" as long as it has not), `outbid`     *)
(* whether a higher rank took its key ("before" or "after" it opened),     *)
(* `lostclaim` the keys whose claim a full table forgot.                   *)
(***************************************************************************)
NewDraft(u, k, beaten) == [status |-> "open", marks |-> {}, latch |-> FALSE, sent |-> 0,
                           out |-> "", unit |-> u, key |-> k, outbid |-> beaten]

NewUnit(d, p, o) == [draft |-> d, parent |-> p, owner |-> o, alive |-> TRUE, evicted |-> FALSE,
                     children |-> <<>>, open |-> <<>>, claims |-> <<>>, lostclaim |-> {}]

NoGrant == [unit |-> NoUnit, key |-> NoKey, rank |-> 0]

Without(s, x) == SelectSeq(s, LAMBDA y : y # x)
Note(r, d, m) == [r EXCEPT !.draft[d].marks = @ \union {m}]

MaxTotal == uhost.units * uhost.entries

(***************************************************************************)
(* Claims: the rank that owns a key, and whether it has outbid an entry of *)
(* the open table.                                                         *)
(***************************************************************************)
OwnerRank(u, k) == LET c == SelectSeq(u.claims, LAMBDA e : e.key = k)
                   IN  IF c = <<>> THEN -1 ELSE c[1].rank

Superseded(u, e) == e.key # NoKey /\ OwnerRank(u, e.key) > e.rank

\* A forced end: marker, UNSET.  It replaces whatever status the draft had.
ForceClose(r, d, m) == [Note(r, d, m) EXCEPT !.draft[d].status = "UNSET"]

(***************************************************************************)
(* _close_locked: collect the subtree's drafts, children first, then       *)
(* detach every unit of it.  An entry the arbitration rejected is          *)
(* discarded; a draft that cannot be built costs its own span only.        *)
(***************************************************************************)
\* The subtree of each unit, children before their parent.
Subtree(r) ==
  LET f[u \in 1 .. Len(r.unit)] ==
        FoldLeft(LAMBDA acc, c : IF r.unit[c].alive THEN acc \o f[c] ELSE acc,
                 <<>>, r.unit[u].children) \o <<u>>
  IN  f

\* What one unit of the subtree adds to the drafts to emit.
Collected(r, u) ==
  LET unit == r.unit[u]
      kept == SelectSeq(unit.open, LAMBDA e : ~Superseded(unit, e) /\ e.draft \notin Unbuildable)
  IN  [i \in 1 .. Len(kept) |-> kept[i].draft]
      \o (IF unit.draft \in Unbuildable THEN <<>> ELSE <<unit.draft>>)

Ended(r, top, members, status) ==
  LET spans(d) == {u \in members : \E i \in DOMAIN r.unit[u].open : r.unit[u].open[i].draft = d}
      entry(d) == LET u == CHOOSE u \in spans(d) : TRUE
                  IN  [unit |-> r.unit[u],
                       e |-> CHOOSE e \in Range(r.unit[u].open) : e.draft = d]
      own(d) == \E u \in members : r.unit[u].draft = d
      end(d) ==
        IF spans(d) # {}
        THEN IF Superseded(entry(d).unit, entry(d).e)
             THEN [r.draft[d] EXCEPT !.out = "superseded"]
             ELSE IF d \in Unbuildable
             THEN [r.draft[d] EXCEPT !.out = "raised"]
             ELSE ForceClose(r, d, "CHILD_SPAN_UNCLOSED").draft[d]
        ELSE IF ~own(d) THEN r.draft[d]
        ELSE IF d \in Unbuildable THEN [r.draft[d] EXCEPT !.out = "raised"]
        ELSE IF d = r.unit[top].draft THEN [r.draft[d] EXCEPT !.status = status]
        ELSE [r.draft[d] EXCEPT !.status = "UNSET", !.marks = @ \union {"CHILD_SPAN_UNCLOSED"}]
  IN  [d \in DOMAIN r.draft |-> end(d)]

\* _detach_locked for every unit of the subtree.
Detach(r, members) ==
  [r EXCEPT
     !.unit = [u \in DOMAIN r.unit |->
        IF u \in members
        THEN [r.unit[u] EXCEPT !.alive = FALSE, !.children = <<>>, !.open = <<>>]
        ELSE [r.unit[u] EXCEPT !.children = SelectSeq(@, LAMBDA c : c \notin members)]],
     !.roots = SelectSeq(@, LAMBDA u : u \notin members),
     !.live = @ \ members]

CloseLocked(r, u, status) ==
  IF ~r.unit[u].alive THEN [r |-> r, pending |-> <<>>]
  ELSE LET order == Subtree(r)[u]
           members == Range(order)
       IN  [r |-> Detach([r EXCEPT !.draft = Ended(r, u, members, status)], members),
            pending |-> FoldLeft(LAMBDA acc, x : acc \o Collected(r, x), <<>>, order)]

(***************************************************************************)
(* Eviction.  Room is made before the new unit is attached: the oldest     *)
(* root goes, whole, while a bound is reached.                             *)
(***************************************************************************)
EvictUnit(s, u, m) ==
  LET c == CloseLocked([Note(s.r, s.r.unit[u].draft, m) EXCEPT !.unit[u].evicted = TRUE], u, "UNSET")
  IN  [r |-> c.r, pending |-> s.pending \o c.pending]

EvictRoot(s) == EvictUnit(s, Head(s.r.roots), "UNIT_EVICTED")

\* The while loops of open(): at most one pass per root there is.
EvictWhile(s, Full(_)) ==
  LET f[i \in 0 .. Len(s.r.roots)] ==
        IF i = 0 THEN s
        ELSE IF Full(f[i - 1].r) /\ f[i - 1].r.roots # <<>> THEN EvictRoot(f[i - 1]) ELSE f[i - 1]
  IN  f[Len(s.r.roots)]

TotalFull(r) == Cardinality(r.live) >= MaxTotal
RootsFull(r) == Len(r.roots) >= uhost.units

\* Attach u below p, or as a root when p is dead or there is none.
Attach(s, u, p) ==
  IF p # NoUnit /\ s.r.unit[p].alive
  THEN LET full == Len(s.r.unit[p].children) >= uhost.entries
           oldest == Head(s.r.unit[p].children)
           e == IF full
                THEN EvictUnit([s EXCEPT !.r.unit[p].children = Tail(@)], oldest, "UNIT_TABLE_FULL")
                ELSE s
       IN  [e EXCEPT !.r.unit[p].children = Append(@, u)]
  ELSE LET e == EvictWhile(s, RootsFull) IN [e EXCEPT !.r.roots = Append(@, u)]

\* Attaching first: the new unit can go with the subtree its arrival evicts.
AttachFirst(r, u, p) ==
  EvictWhile(Attach([r |-> r, pending |-> <<>>], u, p), TotalFull)

MakeRoom(r, u, p) ==
  Attach(EvictWhile([r |-> r, pending |-> <<>>], TotalFull), u, p)

(***************************************************************************)
(* Operations.  A thread begins one when it has nothing left to flush.     *)
(***************************************************************************)
Free(t, call) == call \in uhost.calls /\ todo[t] = <<>>

Hand(t, pending) == todo' = [todo EXCEPT ![t] = pending]

UnitOpen(t, p, o) ==
  /\ Len(reg.unit) < uhost.opened
  /\ p \in 0 .. Len(reg.unit)
  /\ LET u == Len(reg.unit) + 1
         d == Len(reg.draft) + 1
         fresh == [reg EXCEPT !.unit = Append(@, NewUnit(d, p, o)),
                              !.draft = Append(@, NewDraft(u, NoKey, "no"))]
         s == MakeRoom(fresh, u, p)
     IN  /\ reg' = [s.r EXCEPT !.live = @ \union {u}]
         /\ Hand(t, s.pending)
  /\ UNCHANGED <<uhost, grant, ufork>>

UnitClose(t, u) ==
  /\ u \in 1 .. Len(reg.unit)
  /\ LET s == CloseLocked(reg, u, "OK") IN reg' = s.r /\ Hand(t, s.pending)
  /\ UNCHANGED <<uhost, grant, ufork>>

\* Every root of the owner, with the caller's reason; owner "all" sweeps them all.
Swept(r, o) == SelectSeq(r.roots, LAMBDA u : o = "all" \/ r.unit[u].owner = o)

CloseAll(t, o) ==
  /\ LET s == FoldLeft(LAMBDA acc, u :
                         LET c == CloseLocked(Note(acc.r, acc.r.unit[u].draft, "UNIT_INTERRUPTED"),
                                              u, "UNSET")
                         IN  [r |-> c.r, pending |-> acc.pending \o c.pending],
                       [r |-> reg, pending |-> <<>>], Swept(reg, o))
     IN  reg' = s.r /\ Hand(t, s.pending)
  /\ UNCHANGED <<uhost, grant, ufork>>

\* claim(): the highest rank owns the key; a full table forgets its oldest key.
\* outbid and lostclaim are history.
Claim(t, u, k, rank) ==
  /\ u \in 1 .. Len(reg.unit) /\ grant[t] = NoGrant
  /\ LET unit == reg.unit[u]
         best == OwnerRank(unit, k)
         room == IF best = -1 /\ Len(unit.claims) >= uhost.entries THEN Tail(unit.claims) ELSE unit.claims
         beaten == {unit.open[i].draft : i \in {j \in DOMAIN unit.open :
                       unit.open[j].key = k /\ unit.open[j].rank < rank}}
     IN  /\ rank > best
         /\ reg' = [reg EXCEPT
              !.unit[u].claims =
                 IF best = -1 THEN Append(room, [key |-> k, rank |-> rank])
                 ELSE [i \in DOMAIN @ |-> IF @[i].key = k THEN [@[i] EXCEPT !.rank = rank] ELSE @[i]],
              !.unit[u].lostclaim = IF room = unit.claims THEN @ ELSE @ \union {Head(unit.claims).key},
              !.draft = [d \in DOMAIN @ |->
                           IF d \in beaten THEN [@[d] EXCEPT !.outbid = "after"] ELSE @[d]]]
         /\ grant' = [grant EXCEPT ![t] = [unit |-> u, key |-> k, rank |-> rank]]
  /\ UNCHANGED <<uhost, todo, ufork>>

\* open_span(): a full table force-closes its oldest entry; a dead unit's span
\* is not tracked.  The rank recorded is the one that owns the key by now.
OpenSpan(t, u, k) ==
  /\ u \in 1 .. Len(reg.unit)
  /\ Len(reg.draft) - Len(reg.unit) < uhost.spans
  /\ IF k = NoKey THEN grant[t] = NoGrant ELSE grant[t].unit = u /\ grant[t].key = k
  /\ LET d == Len(reg.draft) + 1
         unit == reg.unit[u]
         full == Len(unit.open) >= uhost.entries
         e == Head(unit.open)
         kept == IF full THEN Tail(unit.open) ELSE unit.open
         rank == IF k = NoKey \/ OwnerRank(unit, k) = -1 THEN 0 ELSE OwnerRank(unit, k)
         beaten == IF k # NoKey /\ grant[t].rank < rank THEN "before" ELSE "no"
         r0 == [reg EXCEPT !.draft = Append(@, NewDraft(u, k, beaten))]
         r1 == [r0 EXCEPT !.unit[u].open = Append(kept, [draft |-> d, key |-> k, rank |-> rank])]
         loses == Superseded(unit, e)
     IN  IF ~unit.alive
         THEN reg' = [r0 EXCEPT !.draft[d].out = "untracked"] /\ UNCHANGED todo
         ELSE IF ~full THEN reg' = r1 /\ UNCHANGED todo
         ELSE IF loses
         THEN reg' = [r1 EXCEPT !.draft[e.draft].out = "superseded"] /\ UNCHANGED todo
         ELSE reg' = ForceClose(r1, e.draft, "UNIT_TABLE_FULL") /\ Hand(t, <<e.draft>>)
  /\ grant' = [grant EXCEPT ![t] = NoGrant]
  /\ UNCHANGED <<uhost, ufork>>

\* close_span(): an entry that is not in the table any more was ended by
\* somebody else; one that was outbid is discarded.
CloseTracked(t, u, i) ==
  LET e == reg.unit[u].open[i]
      r == [reg EXCEPT !.unit[u].open = RemoveAt(@, i)]
  IN  IF Superseded(reg.unit[u], e)
      THEN reg' = [r EXCEPT !.draft[e.draft].out = "superseded"] /\ UNCHANGED todo
      ELSE reg' = [r EXCEPT !.draft[e.draft].status = "OK"] /\ Hand(t, <<e.draft>>)

CloseMissing(t, d) == UNCHANGED <<reg, todo>>

CloseSpan(t, d) ==
  /\ d \in 1 .. Len(reg.draft)
  /\ \A u \in 1 .. Len(reg.unit) : reg.unit[u].draft # d
  /\ \/ \E u \in 1 .. Len(reg.unit) : \E i \in DOMAIN reg.unit[u].open :
          reg.unit[u].open[i].draft = d /\ CloseTracked(t, u, i)
     \/ /\ \A u \in 1 .. Len(reg.unit) : \A i \in DOMAIN reg.unit[u].open :
             reg.unit[u].open[i].draft # d
        /\ CloseMissing(t, d)
  /\ UNCHANGED <<uhost, grant, ufork>>

\* _flush(): the latch under the lock, the sink outside it.  A sink that raises
\* costs that draft only.
Flush(t) ==
  /\ todo[t] # <<>>
  /\ todo' = [todo EXCEPT ![t] = Tail(@)]
  /\ LET d == Head(todo[t])
     IN  reg' = IF reg.draft[d].latch THEN reg
                ELSE [reg EXCEPT !.draft[d].latch = TRUE, !.draft[d].sent = @ + 1,
                                 !.draft[d].out = "shipped"]
  /\ UNCHANGED <<uhost, grant, ufork>>

\* The child forgets the tables and emits nothing of them.  The unit objects the
\* host holds stay as they were; only the forking thread goes on.
ForgetTables == reg' = [reg EXCEPT !.roots = <<>>, !.live = {}]

UnitFork(t) ==
  /\ ~ufork.on /\ grant[t] = NoGrant
  /\ ufork' = [on |-> TRUE, units |-> Len(reg.unit), drafts |-> Len(reg.draft)]
  /\ ForgetTables
  /\ todo' = [x \in UThreads |-> <<>>]
  /\ grant' = [x \in UThreads |-> NoGrant]
  /\ UNCHANGED uhost

UnitsInit ==
  /\ uhost \in UHosts
  /\ reg = [unit |-> <<>>, draft |-> <<>>, roots |-> <<>>, live |-> {}]
  /\ todo = [t \in UThreads |-> <<>>]
  /\ grant = [t \in UThreads |-> NoGrant]
  /\ ufork = [on |-> FALSE, units |-> 0, drafts |-> 0]

UnitsNext ==
  \E t \in UThreads :
    \/ Free(t, "open") /\ \E p \in 0 .. Len(reg.unit), o \in UOwners : UnitOpen(t, p, o)
    \/ Free(t, "close") /\ \E u \in 1 .. Len(reg.unit) : UnitClose(t, u)
    \/ Free(t, "closeall") /\ \E o \in UOwners \union {"all"} : CloseAll(t, o)
    \/ Free(t, "claim") /\ \E u \in 1 .. Len(reg.unit), k \in UKeys, rank \in URanks : Claim(t, u, k, rank)
    \/ Free(t, "span") /\ \E u \in 1 .. Len(reg.unit), k \in UKeys \union {NoKey} : OpenSpan(t, u, k)
    \/ Free(t, "span") /\ \E d \in 1 .. Len(reg.draft) : CloseSpan(t, d)
    \/ Flush(t)
    \/ Free(t, "fork") /\ UnitFork(t)

-----------------------------------------------------------------------------
Handed == UNION {Range(todo[t]) : t \in UThreads}
Inherited == 1 .. ufork.drafts

\* Every unit the registry counts as live answers as live and hangs off a root
\* through parents that are live: a bound can evict it and close_all() finds it.
\* open() must make room before it attaches, and look at the parent after that.
Reachable ==
  ~ufork.on =>
    /\ reg.live = {u \in 1 .. Len(reg.unit) : reg.unit[u].alive}
    /\ Range(reg.roots) \subseteq reg.live
    /\ \A u \in reg.live :
         \/ u \in Range(reg.roots)
         \/ LET p == reg.unit[u].parent
            IN  p # NoUnit /\ p \in reg.live /\ u \in Range(reg.unit[p].children)

\* The roots, the live units, and each unit's children, open spans and claims stay
\* within their limits, whatever is opened under whom.
UnitsBounded ==
  /\ Len(reg.roots) <= uhost.units
  /\ ~ufork.on => Cardinality(reg.live) <= MaxTotal
  /\ \A u \in 1 .. Len(reg.unit) :
       /\ Len(reg.unit[u].children) <= uhost.entries
       /\ Len(reg.unit[u].open) <= uhost.entries
       /\ Len(reg.unit[u].claims) <= uhost.entries

\* No draft is finished twice: not by two closers of overlapping subtrees, not by
\* an eviction and the owner's own close.  The latch of _flush never has to decide.
FinishedOnce ==
  /\ \A t, v \in UThreads : \A i \in DOMAIN todo[t], j \in DOMAIN todo[v] :
       todo[t][i] = todo[v][j] => t = v /\ i = j
  /\ \A d \in Handed : ~reg.draft[d].latch

\* What ships says how it ended: a draft somebody else ended carries the marker and
\* never OK, one its owner ended carries no such marker.
HonestEnd ==
  \A d \in 1 .. Len(reg.draft) :
    d \in Handed \/ reg.draft[d].latch =>
      /\ reg.draft[d].status \in {"OK", "UNSET"}
      /\ reg.draft[d].status = "OK" <=> reg.draft[d].marks = {}

\* Nothing opened vanishes: a draft that has not ended is tracked by a live unit or
\* waits in some thread's flush (a forked child leaves the parent's to the parent).
DraftsTracked ==
  \A d \in 1 .. Len(reg.draft) :
    reg.draft[d].out = "" /\ d \notin Inherited =>
      \/ d \in Handed
      \/ \E u \in 1 .. Len(reg.unit) :
           /\ reg.unit[u].alive
           /\ reg.unit[u].draft = d \/ \E i \in DOMAIN reg.unit[u].open : reg.unit[u].open[i].draft = d

\* An observer outbid while its span is open never ships it, on any of the paths a
\* span can end by, as long as the unit remembers the claim.
OutbidIsDropped ==
  \A d \in 1 .. Len(reg.draft) :
    /\ reg.draft[d].outbid = "after"
    /\ d \in Handed \/ reg.draft[d].latch
    => reg.draft[d].key \in reg.unit[reg.draft[d].unit].lostclaim

\* What a forked child may sweep or evict is what it opened: the parent ends its own.
ChildSweepsItsOwn ==
  ufork.on => (reg.live \union Range(reg.roots)) \cap (1 .. ufork.units) = {}

\* Whatever owners, outbidders, evictions, sweeps and a fork do to overlapping subtrees:
\* live units are found and bounded, and a draft is tracked until it ends, ends once,
\* says how, and does not ship when it was outbid.
DraftsAccounted ==
  /\ Reachable
  /\ UnitsBounded
  /\ FinishedOnce
  /\ HonestEnd
  /\ DraftsTracked
  /\ OutbidIsDropped
  /\ ChildSweepsItsOwn

=============================================================================
