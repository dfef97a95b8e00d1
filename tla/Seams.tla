------------------------------- MODULE Seams -------------------------------
(***************************************************************************)
(* Connections as the byte seams see them (_interceptors/_seam.py, _ssl.py,*)
(* _socket.py, _close_hook.py, _conn_timing.py): the table of connection   *)
(* states and the registry of close hooks are keyed by id(obj), the store  *)
(* of connect and handshake times by file descriptor, and both numbers are *)
(* handed out again.  None of the three has a lock: the steps of an object *)
(* that is being collected are apart, and anything may come between them.  *)
(***************************************************************************)
EXTENDS Integers, Sequences, FiniteSets, SequencesExt

CONSTANTS
  Objs,        \* sockets, 1 .. n, used in this order
  Addrs,       \* values of id()
  Fds,         \* file descriptors
  MaxConns,    \* max_connections: states of a seam, and slots of the store
  MaxSpans     \* bound: exchanges per socket

ASSUME SeamsAssumption == MaxConns \in Nat \ {0}

VARIABLES
  sk,         \* sk[o]: [life, addr, fd, from, proto, seen, begun], from the socket it wraps
  conns,      \* _conns, oldest first
  hooks,      \* hooks[a]: the entry of CloseRegistry, <<>> for none
  slots,      \* ConnTimingStore, oldest first
  resetIds,   \* _reset_at_fork_ids
  seamOn,     \* the seam is installed
  shipped,    \* history: spans handed over, in order
  crossed     \* history: sockets tracked at the fork, and not evicted since

seamVars == <<sk, conns, hooks, slots, resetIds, seamOn, shipped, crossed>>

NoObj == 0
Unborn == [life |-> "none", addr |-> 0, fd |-> 0, from |-> NoObj, proto |-> "none", seen |-> FALSE, begun |-> 0]

\* An address or descriptor is in use until its socket is gone, or has closed.
AddrFree(a) == \A o \in Objs : sk[o].addr = a => sk[o].life \in {"none", "dead"}
FdFree(f) == \A o \in Objs : sk[o].fd = f => sk[o].life # "open"

ConnAt(cs, a) == SelectSeq(cs, LAMBDA c : c.addr = a)
SlotAt(ss, f) == SelectSeq(ss, LAMBDA s : s.fd = f)
DropConn(cs, a) == SelectSeq(cs, LAMBDA c : c.addr # a)
DropSlot(ss, f) == SelectSeq(ss, LAMBDA s : s.fd # f)

(***************************************************************************)
(* The timing store.  A connect always begins a new slot.                  *)
(***************************************************************************)
NewSlot(ss, f, o, saw) ==
  LET kept == DropSlot(ss, f)
  IN  Append(IF Len(kept) >= MaxConns THEN Tail(kept) ELSE kept,
             [fd |-> f, connect |-> IF saw THEN o ELSE NoObj, hs |-> NoObj, done |-> FALSE])

SetConnect(ss, f, o) == NewSlot(ss, f, o, TRUE)

\* handshake_attempt(), the one that completes: only the first counts.
HandshakeAttempt(ss, f, o) ==
  LET s == IF SlotAt(ss, f) = <<>> THEN NewSlot(ss, f, o, FALSE) ELSE ss
  IN  [i \in DOMAIN s |-> IF s[i].fd = f /\ ~s[i].done THEN [s[i] EXCEPT !.hs = o, !.done = TRUE] ELSE s[i]]

(***************************************************************************)
(* Close hooks.  One entry per id; the same hook registers once.           *)
(***************************************************************************)
OnClose(hs, o, hook) ==
  LET a == sk[o].addr
  IN  [hs EXCEPT ![a] = IF @ = <<>> THEN <<[of |-> o, run |-> {hook}]>> ELSE <<[@[1] EXCEPT !.run = @ \union {hook}]>>]

SeamHook == [kind |-> "seam", fd |-> 0]
FdHook(f) == [kind |-> "fd", fd |-> f]

\* A finalizer that runs every hook of the entry.
FiringAlways(entry, finalizing) == entry.run

\* A finalizer runs only the hooks whose key the object still owns when dead.
Firing(entry, finalizing) ==
  IF finalizing THEN {h \in entry.run : h.kind = "seam"} ELSE entry.run

(***************************************************************************)
(* What a tracker ships when its connection's state goes.                  *)
(***************************************************************************)
Span(c, kind, slot, marks) ==
  [of |-> c.of, kind |-> kind, marks |-> marks \union (IF c.reset THEN {"TRACKING_RESET_AT_FORK"} ELSE {}),
   connect |-> IF slot = <<>> THEN NoObj ELSE slot[1].connect,
   hs |-> IF slot = <<>> THEN NoObj ELSE slot[1].hs]

Retire(c, marker, stillOpen) ==
  IF c.kind = "ws" /\ ~c.emitted THEN <<Span(c, "ws", <<>>, {marker})>>
  ELSE IF c.kind = "http" /\ c.partial /\ ~stillOpen THEN <<Span(c, "http", <<>>, {"FRAME_PARSE_FAILED"})>>
  ELSE <<>>

(***************************************************************************)
(* _state(): the connection's state, a new one when there is none; the cap *)
(* evicts the oldest.                                                      *)
(***************************************************************************)
NewConn(o) == [addr |-> sk[o].addr, of |-> o, gate |-> "none", kind |-> "http", req |-> FALSE,
               partial |-> FALSE, emitted |-> FALSE, timed |-> FALSE, reset |-> sk[o].addr \in resetIds]

\* A state without a close hook.
HookNothing(o) == hooks

HookState(o) == OnClose(hooks, o, SeamHook)

Room(cs) == IF Len(cs) >= MaxConns THEN Tail(cs) ELSE cs

WithState(o) ==
  LET a == sk[o].addr
      full == Len(conns) >= MaxConns
  IN  IF ConnAt(conns, a) # <<>>
      THEN [conns |-> conns, hooks |-> hooks, ids |-> resetIds, out |-> <<>>, gone |-> {}]
      ELSE [conns |-> Append(Room(conns), NewConn(o)),
            hooks |-> HookState(o),
            ids |-> resetIds \ {a},
            out |-> IF full THEN Retire(Head(conns), "CONNECTION_EVICTED", TRUE) ELSE <<>>,
            gone |-> IF full THEN {Head(conns).of} ELSE {}]

Mine(cs, a) == ConnAt(cs, a)[1]
Store(cs, c) == [i \in DOMAIN cs |-> IF cs[i].addr = c.addr THEN c ELSE cs[i]]

Open(o) == sk[o].life = "open"

\* _gate(): the first bytes rule a connection in or out for good; bytes of a response
\* cannot be the first of a connection that is followed from its start.
Gate(c, o, direction) ==
  IF c.gate # "none" THEN c.gate
  ELSE IF direction = "response" \/ sk[o].proto = "other" THEN "ignore" ELSE "http"
\* _capture_possible: a state ruled out by its first bytes is skipped.
Capturing(o) ==
  /\ seamOn /\ Open(o)
  /\ LET c == ConnAt(conns, sk[o].addr) IN IF c = <<>> THEN TRUE ELSE c[1].gate # "ignore"

(***************************************************************************)
(* Steps of the host.                                                      *)
(***************************************************************************)
NextSocket == {o \in Objs : sk[o].life = "none" /\ \A p \in Objs : p < o => sk[p].life # "none"}

Connect(o, a, f, proto, seen) ==
  /\ AddrFree(a) /\ FdFree(f)
  /\ sk' = [sk EXCEPT ![o] = [life |-> "open", addr |-> a, fd |-> f, from |-> NoObj, proto |-> proto,
                              seen |-> seen /\ seamOn, begun |-> 0]]
  /\ IF seen /\ seamOn
     THEN /\ slots' = SetConnect(slots, f, o)
          /\ hooks' = [hooks EXCEPT ![a] = IF @ = <<>> THEN <<[of |-> o, run |-> {FdHook(f)}]>>
                                           ELSE <<[@[1] EXCEPT !.run = @ \union {FdHook(f)}]>>]
     ELSE UNCHANGED <<slots, hooks>>
  /\ UNCHANGED <<conns, resetIds, seamOn, shipped, crossed>>

\* wrap_socket(): a new object takes the descriptor over, and the plain one is detached
\* with its hooks: a handoff, not an end.
Wrap(o, w, a, proto) ==
  /\ Open(o) /\ sk[o].from = NoObj /\ AddrFree(a)
  /\ sk' = [sk EXCEPT ![o].life = "detached",
                      ![w] = [sk[o] EXCEPT !.addr = a, !.from = o, !.proto = proto, !.begun = 0]]
  /\ UNCHANGED <<conns, hooks, slots, resetIds, seamOn, shipped, crossed>>

Handshake(o) ==
  /\ Open(o) /\ seamOn
  /\ slots' = HandshakeAttempt(slots, sk[o].fd, o)
  /\ hooks' = OnClose(hooks, o, FdHook(sk[o].fd))
  /\ UNCHANGED <<sk, conns, resetIds, seamOn, shipped, crossed>>

\* Request bytes: the first ones decide the gate.
SendBytes(o) ==
  /\ Capturing(o) /\ sk[o].begun < MaxSpans
  /\ LET s == WithState(o)
         c == Mine(s.conns, sk[o].addr)
         gate == Gate(c, o, "request")
     IN  /\ ~c.req /\ c.kind = "http"
         /\ conns' = Store(s.conns, [c EXCEPT !.gate = gate, !.req = gate = "http"])
         /\ hooks' = s.hooks /\ resetIds' = s.ids /\ crossed' = crossed \ s.gone
         /\ shipped' = shipped \o s.out
         /\ sk' = [sk EXCEPT ![o].begun = IF gate = "http" THEN @ + 1 ELSE @]
  /\ UNCHANGED <<slots, seamOn>>

\* Response bytes: a state whose first bytes these are is ruled out; the head of an
\* upgrade replaces the tracker; a whole response ships, with the connection's
\* timing if nobody took it yet.
RecvBytes(o, whole) ==
  /\ Capturing(o)
  /\ \E s \in {WithState(o)} : \E c \in {Mine(s.conns, sk[o].addr)} :
         /\ hooks' = s.hooks /\ resetIds' = s.ids /\ crossed' = crossed \ s.gone
         /\ \/ /\ c.gate = "none"
               /\ conns' = Store(s.conns, [c EXCEPT !.gate = Gate(c, o, "response")])
               /\ shipped' = shipped \o s.out
               /\ UNCHANGED slots
            \/ /\ c.gate = "http" /\ c.kind = "http" /\ c.req /\ sk[o].proto = "ws"
               /\ conns' = Store(s.conns, [c EXCEPT !.kind = "ws", !.req = FALSE])
               /\ shipped' = shipped \o s.out
               /\ UNCHANGED slots
            \/ /\ c.gate = "http" /\ c.kind = "http" /\ c.req /\ sk[o].proto = "http"
               /\ IF whole
                  THEN /\ conns' = Store(s.conns, [c EXCEPT !.req = FALSE, !.partial = FALSE, !.timed = TRUE, !.reset = FALSE])
                       /\ shipped' = Append(shipped \o s.out,
                            Span(c, "http", IF c.timed THEN <<>> ELSE SlotAt(slots, sk[o].fd), {}))
                       /\ slots' = IF c.timed THEN slots ELSE DropSlot(slots, sk[o].fd)
                  ELSE /\ ~c.partial
                       /\ conns' = Store(s.conns, [c EXCEPT !.partial = TRUE])
                       /\ shipped' = shipped \o s.out
                       /\ UNCHANGED slots
  /\ UNCHANGED <<sk, seamOn>>

\* Close frames from both sides end a websocket session while its socket lives.
WsClose(o) ==
  /\ Capturing(o) /\ ConnAt(conns, sk[o].addr) # <<>>
  /\ LET c == Mine(conns, sk[o].addr)
     IN  /\ c.kind = "ws" /\ ~c.emitted
         /\ conns' = Store(conns, [c EXCEPT !.emitted = TRUE, !.reset = FALSE])
         /\ shipped' = Append(shipped, Span(c, "ws", <<>>, {}))
  /\ UNCHANGED <<sk, hooks, slots, resetIds, seamOn, crossed>>

\* CloseRegistry._fire(): the entry leaves the table first.
Fire(o, finalizing) ==
  LET a == sk[o].addr
      run == IF hooks[a] = <<>> THEN {} ELSE Firing(hooks[a][1], finalizing)
      c == ConnAt(conns, a)
      seam == SeamHook \in run /\ c # <<>>
      fds == {h.fd : h \in {x \in run : x.kind = "fd"}}
  IN  /\ hooks' = [hooks EXCEPT ![a] = <<>>]
      /\ conns' = IF seam THEN DropConn(conns, a) ELSE conns
      /\ shipped' = IF seam THEN shipped \o Retire(c[1], "WS_NO_CLOSE", FALSE) ELSE shipped
      /\ slots' = SelectSeq(slots, LAMBDA s : s.fd \notin fds)

\* close(), of a socket that owns its descriptor or of one that gave it away.
CloseObj(o) ==
  /\ sk[o].life \in {"open", "detached"}
  /\ Fire(o, FALSE)
  /\ sk' = [sk EXCEPT ![o].life = "closed"]
  /\ UNCHANGED <<resetIds, seamOn, crossed>>

\* The last reference goes: the descriptor is closed, and then the finalizer runs.
Release(o) ==
  /\ sk[o].life \in {"open", "detached"}
  /\ sk' = [sk EXCEPT ![o].life = "released"]
  /\ UNCHANGED <<conns, hooks, slots, resetIds, seamOn, shipped, crossed>>

Finalize(o) ==
  /\ sk[o].life \in {"released", "closed"}
  /\ IF sk[o].life = "released" /\ hooks[sk[o].addr] # <<>> THEN Fire(o, TRUE)
     ELSE UNCHANGED <<hooks, conns, shipped, slots>>
  /\ sk' = [sk EXCEPT ![o].life = "dead"]
  /\ UNCHANGED <<resetIds, seamOn, crossed>>

\* uninstall(): states are retired as still open, hooks and slots go unrun.
Uninstall ==
  /\ seamOn /\ seamOn' = FALSE
  /\ shipped' = FoldLeft(LAMBDA acc, c : acc \o Retire(c, "WS_NO_CLOSE", TRUE), shipped, conns)
  /\ conns' = <<>> /\ slots' = <<>>
  /\ hooks' = [a \in Addrs |-> <<>>]
  /\ UNCHANGED <<sk, resetIds, crossed>>

LatchIds == resetIds' = {conns[i].addr : i \in DOMAIN conns}

\* The child keeps the patches, drops the tables and remembers the ids.
SeamFork ==
  /\ seamOn /\ crossed = {} /\ conns # <<>>
  /\ LatchIds
  /\ crossed' = {conns[i].of : i \in DOMAIN conns}
  /\ conns' = <<>> /\ slots' = <<>> /\ hooks' = [a \in Addrs |-> <<>>]
  /\ shipped' = <<>>
  /\ UNCHANGED <<sk, seamOn>>

SeamInit ==
  /\ sk = [o \in Objs |-> Unborn]
  /\ conns = <<>> /\ slots = <<>> /\ hooks = [a \in Addrs |-> <<>>]
  /\ resetIds = {} /\ seamOn = TRUE /\ shipped = <<>> /\ crossed = {}

SeamNext ==
  \/ \E o \in NextSocket : \E a \in Addrs, f \in Fds, p \in {"http", "ws", "other"}, s \in BOOLEAN : Connect(o, a, f, p, s)
  \/ \E w \in NextSocket : \E o \in Objs, a \in Addrs, p \in {"http", "ws"} : Wrap(o, w, a, p)
  \/ \E o \in Objs : \/ Handshake(o) \/ SendBytes(o) \/ WsClose(o)
                     \/ \E w \in BOOLEAN : RecvBytes(o, w)
                     \/ CloseObj(o) \/ Release(o) \/ Finalize(o)
  \/ Uninstall \/ SeamFork

-----------------------------------------------------------------------------
SeamTypeOK ==
  /\ Len(conns) <= MaxConns /\ Len(slots) <= MaxConns
  /\ \A a \in Addrs : Len(hooks[a]) <= 1
  /\ \A i, j \in DOMAIN conns : conns[i].addr = conns[j].addr => i = j

\* The state and the hooks under an id belong to the object that lives at that address
\* now: a dead connection's tracker and verdict never serve the next one.
StateIsOwn ==
  /\ \A i \in DOMAIN conns : LET o == conns[i].of
                             IN  sk[o].addr = conns[i].addr /\ sk[o].life \in {"open", "detached", "released"}
  /\ \A a \in Addrs : hooks[a] # <<>> => sk[hooks[a][1].of].life \in {"open", "detached", "released"}

\* A span never reports a connect or a handshake that was measured on another
\* connection, provided its own connect was seen: the descriptor's last owner left
\* nothing behind.
TimingIsOwn ==
  \A i \in DOMAIN shipped :
    LET s == shipped[i]
        own == {NoObj, s.of, sk[s.of].from}
    IN  sk[s.of].seen => s.connect \in own /\ s.hs \in own

\* The slot of a descriptor in use goes when its owner closes or ships with it, at the
\* cap, at a new connect, with an uninstall or a fork, and never from a finalizer, which
\* runs when the number may be another's.  The exception is a socket that was wrapped:
\* its hook outlives its descriptor, and its close takes the slot of whoever owns the
\* descriptor by then.
ObjEnds(o) == sk[o].life # "closed" /\ sk'[o].life = "closed"

SlotIsKept ==
  \A i \in DOMAIN slots : \A o \in Objs :
    Open(o) /\ sk[o].fd = slots[i].fd /\ SlotAt(slots', slots[i].fd) = <<>> =>
      \/ ObjEnds(o)
      \/ Len(shipped') > Len(shipped) /\ Last(shipped').of = o
      \/ Len(slots) = MaxConns /\ slots' # <<>>
      \/ ~seamOn' \/ SeamFork
      \/ \E w \in Objs : ObjEnds(w) /\ sk[w].life = "detached" /\ sk[w].fd = sk[o].fd

WsSpans(o) == {i \in DOMAIN shipped : shipped[i].of = o /\ shipped[i].kind = "ws"}
IsWs(o) == \E i \in DOMAIN conns : conns[i].of = o /\ conns[i].kind = "ws"

\* A websocket session ships one span, when both sides closed it or when its state went
\* for whatever reason, and never a second one.
WsOnce ==
  \A o \in Objs :
    /\ Cardinality(WsSpans(o)) <= 1
    /\ \A i \in DOMAIN conns :
         conns[i].of = o /\ conns[i].kind = "ws" => (conns[i].emitted <=> WsSpans(o) # {})

\* No session's state goes unshipped, except into a forked child (the parent ships it).
WsNotLost == \A o \in Objs : IsWs(o) /\ ~IsWs(o)' => WsSpans(o)' # {} \/ SeamFork

\* In a forked child the first span of a connection that was tracked before the fork says
\* so, unless the cap evicted the connection's new state (and its mark) first.
ForkIsSaid ==
  \A o \in crossed : \A i \in DOMAIN shipped :
    /\ shipped[i].of = o
    /\ \A j \in 1 .. (i - 1) : shipped[j].of # o
    => "TRACKING_RESET_AT_FORK" \in shipped[i].marks

\* Ids and descriptors are handed out again, and what is kept under them is still the
\* connection's own: its state, its hook, its times, its one websocket span and the mark
\* of the fork it crossed.
ConnectionsAreOwn ==
  /\ SeamTypeOK
  /\ StateIsOwn
  /\ TimingIsOwn
  /\ WsOnce
  /\ ForkIsSaid

\* The end of a socket takes away what is its own and nothing else, and a websocket's
\* state does not go without its span.
EndsTakeTheirOwn == [][SlotIsKept /\ WsNotLost]_seamVars

=============================================================================
