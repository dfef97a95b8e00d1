----------------------------- MODULE H2Issuers -----------------------------
(***************************************************************************)
(* Which task issued each HTTP/2 stream (_interceptors/_h2_issuer.py).     *)
(* Tasks of one thread share the connections of a client library: one      *)
(* queues a stream's frames, any of them may write all that is queued.     *)
(* The library's state machine of a connection is linked to the seam's     *)
(* tracker of that connection when a chunk it handed out is the very       *)
(* object the seam is given.  Objects are recycled: an address is the key  *)
(* of the index, the object's own number is its identity.                  *)
(***************************************************************************)
EXTENDS Integers, Sequences, FiniteSets, FiniteSetsExt

CONSTANTS
  H2Conns,      \* connections
  H2Tasks,      \* tasks that issue streams
  ChunkAddrs,   \* addresses of bytes objects
  IssuerCap,    \* streams a table remembers (max_streams, _UNLINKED_CAP)
  MaxOpened,    \* bound: streams per connection
  MaxChunks     \* bound: bytes objects made

VARIABLES
  libc,      \* libc[c]: [rec, out, offered, linked], the library's side
  chunkOf,   \* chunkOf[c]: the chunk c's writer holds, <<>> for none
  index,     \* index[a]: the connection whose offer was indexed at a, 0 for none
  link,      \* link[c]: the connection whose table c's tracker reads, 0 for none
  got,       \* got[c]: latched streams in order: [sid, task, proven]
  issuer,    \* history: issuer[c], the task of each opened stream
  made       \* history: bytes objects made so far

issuerVars == <<libc, chunkOf, index, link, got, issuer, made>>

\* Addresses no live bytes object has: held by a writer, or kept by an offer.
FreeAddrs ==
  {a \in ChunkAddrs : \A c \in H2Conns :
     /\ \A i \in DOMAIN chunkOf[c] : chunkOf[c][i].addr # a
     /\ libc[c].offered = 0 \/ libc[c].offaddr # a}

ForgetStream(rec, sid) == {r \in rec : r.sid # sid}

\* record(): once per stream; the lowest id makes room.
RecordStream(rec, sid, t) ==
  IF \E r \in rec : r.sid = sid THEN rec
  ELSE LET all == rec \union {[sid |-> sid, task |-> t]}
       IN  IF Cardinality(all) > IssuerCap THEN {r \in all : r.sid # Min({x.sid : x \in all})} ELSE all

\* send_headers(): recorded before the frame is queued; a call that raises opens nothing,
\* and its stream id is the next call's.
SendHeaders(c, t, ok) ==
  LET sid == Len(issuer[c]) + 1
      known == \E r \in libc[c].rec : r.sid = sid
      rec == RecordStream(libc[c].rec, sid, t)
  IN  /\ sid <= MaxOpened
      /\ \/ /\ ok
            /\ libc' = [libc EXCEPT ![c].rec = rec, ![c].out = Append(@, sid)]
            /\ issuer' = [issuer EXCEPT ![c] = Append(@, t)]
         \/ /\ ~ok
            /\ libc' = [libc EXCEPT ![c].rec = IF known THEN rec ELSE ForgetStream(rec, sid)]
            /\ UNCHANGED issuer
      /\ UNCHANGED <<chunkOf, index, link, got, made>>

\* data_to_send(): what is queued, as one object; offered while no tracker is linked.
DataToSend(c, a, offerable) ==
  /\ libc[c].out # <<>> /\ chunkOf[c] = <<>> /\ a \in FreeAddrs /\ made < MaxChunks
  /\ chunkOf' = [chunkOf EXCEPT ![c] = <<[addr |-> a, id |-> made + 1, sids |-> libc[c].out]>>]
  /\ made' = made + 1
  /\ IF offerable /\ ~libc[c].linked
     THEN /\ libc' = [libc EXCEPT ![c].out = <<>>, ![c].offered = made + 1, ![c].offaddr = a]
          /\ index' = [index EXCEPT ![a] = c]
     ELSE libc' = [libc EXCEPT ![c].out = <<>>] /\ UNCHANGED index
  /\ UNCHANGED <<link, got, issuer>>

\* A link by address alone.
ClaimByAddress(id, a) == index[a]

\* claim(): the object at this address, and really that object.
ClaimOffer(id, a) == IF index[a] # 0 /\ libc[index[a]].offered = id THEN index[a] ELSE 0

(***************************************************************************)
(* The writer gives the seam the chunk, or a copy of it made elsewhere.    *)
(* An unlinked tracker claims; the streams the chunk ends are latched with *)
(* their recorded issuer, or with the writer as a guess.                   *)
(***************************************************************************)
Seen(c, t, id, a, sids) ==
  LET found == IF link[c] # 0 THEN 0 ELSE ClaimOffer(id, a)
      src == IF link[c] # 0 THEN link[c] ELSE found
      rec == IF src = 0 THEN {} ELSE libc[src].rec
      latched(s) == IF \E r \in rec : r.sid = s
                    THEN [sid |-> s, task |-> (CHOOSE r \in rec : r.sid = s).task, proven |-> TRUE]
                    ELSE [sid |-> s, task |-> t, proven |-> FALSE]
  IN  /\ link' = [link EXCEPT ![c] = src]
      /\ index' = IF link[c] # 0 THEN index ELSE [index EXCEPT ![a] = 0]
      /\ libc' = [x \in H2Conns |->
                    LET l == [libc[x] EXCEPT !.rec = IF x = src THEN {r \in @ : r.sid \notin {sids[i] : i \in DOMAIN sids}} ELSE @]
                    IN  IF x = found THEN [l EXCEPT !.offered = 0, !.offaddr = 0, !.linked = TRUE] ELSE l]
      /\ got' = [got EXCEPT ![c] = @ \o [i \in DOMAIN sids |-> latched(sids[i])]]

Write(c, t, copy, a) ==
  /\ chunkOf[c] # <<>>
  /\ LET k == chunkOf[c][1]
     IN  IF copy
         THEN /\ a \in FreeAddrs /\ made < MaxChunks
              /\ made' = made + 1 /\ Seen(c, t, made + 1, a, k.sids)
         ELSE a = k.addr /\ Seen(c, t, k.id, a, k.sids) /\ UNCHANGED made
  /\ chunkOf' = [chunkOf EXCEPT ![c] = <<>>]
  /\ UNCHANGED issuer

IssuersInit ==
  /\ libc = [c \in H2Conns |-> [rec |-> {}, out |-> <<>>, offered |-> 0, offaddr |-> 0, linked |-> FALSE]]
  /\ chunkOf = [c \in H2Conns |-> <<>>]
  /\ index = [a \in ChunkAddrs |-> 0]
  /\ link = [c \in H2Conns |-> 0]
  /\ got = [c \in H2Conns |-> <<>>]
  /\ issuer = [c \in H2Conns |-> <<>>]
  /\ made = 0

IssuersNext ==
  \E c \in H2Conns :
    \/ \E t \in H2Tasks, ok \in BOOLEAN : SendHeaders(c, t, ok)
    \/ \E a \in ChunkAddrs, o \in BOOLEAN : DataToSend(c, a, o)
    \/ \E t \in H2Tasks, copy \in BOOLEAN, a \in ChunkAddrs : Write(c, t, copy, a)

-----------------------------------------------------------------------------
\* A call's conversation and identity are stamped only from the task that issued it: a
\* proven issuer is the issuer, whoever wrote the frames, whatever call failed before and
\* wherever a recycled object lands.
ProvenIssuerIsTrue ==
  \A c \in H2Conns : \A i \in DOMAIN got[c] :
    got[c][i].proven => got[c][i].task = issuer[c][got[c][i].sid]

\* A tracker never reads another connection's table.
LinkIsOwn == \A c \in H2Conns : link[c] \in {0, c}

\* Neither a reused chunk address nor a reused stream number gives a stream another
\* task's issuer, or a byte stream another connection.
IssuerIsTrue == ProvenIssuerIsTrue /\ LinkIsOwn

=============================================================================
