------------------------------- MODULE Outbox -------------------------------
(***************************************************************************)
(* What the client promises a host, with no threads, locks or drains: a    *)
(* lossy first-in first-out outbox that never loses in silence.  An item   *)
(* that is offered is queued, or counted as lost; a queue is sent from its *)
(* front, in order; what is lost on the way, wherever it stands, is        *)
(* counted; what the host's own filter takes out is set aside.  Nothing is *)
(* ever in two of these places.                                            *)
(***************************************************************************)
EXTENDS Naturals, Sequences, SequencesExt

CONSTANTS Items, Kinds, KindOf

VARIABLES
  offered,   \* the items the host captured
  queue,     \* per kind, what waits to be sent
  wire,      \* what was sent, in order
  counted,   \* what was counted as lost
  filtered   \* what the host's filter took out

outbox == <<offered, queue, wire, counted, filtered>>

Queued == UNION {ToSet(queue[k]) : k \in Kinds}
InHand == offered \ (Queued \cup ToSet(wire) \cup counted \cup filtered)

\* A place in each of the queues.
Places ==
  {n \in [Kinds -> 0 .. Len(queue["span"]) + Len(queue["snapshot"])] :
     \A k \in Kinds : n[k] <= Len(queue[k])}

\* What a filter may leave of a sequence.
Picks(n, m)     == {p \in [1 .. n -> 1 .. m] : \A a, b \in 1 .. n : a < b => p[a] < p[b]}
Subsequences(s) == UNION {{[j \in 1 .. n |-> s[p[j]]] : p \in Picks(n, Len(s))} : n \in 0 .. Len(s)}

Init ==
  /\ offered = {} /\ wire = <<>> /\ counted = {} /\ filtered = {}
  /\ queue = [k \in Kinds |-> <<>>]

\* A capture call; a closed client counts the item at once.
Offer(i) ==
  /\ i \notin offered
  /\ offered' = offered \cup {i}
  /\ counted' \in {counted, counted \cup {i}}
  /\ UNCHANGED <<queue, wire, filtered>>

Put(i) ==
  /\ i \in InHand
  /\ queue' = [queue EXCEPT ![KindOf[i]] = Append(@, i)]
  /\ UNCHANGED <<offered, wire, counted, filtered>>

\* An item that never came as far as the queue, counted as it is lost.
LoseInHand(i) ==
  /\ i \in InHand
  /\ counted' = counted \cup {i}
  /\ UNCHANGED <<offered, queue, wire, filtered>>

\* Evictions and dropped batches: what stands behind the first from[k] items and before the
\* rest, of each queue, is lost, and is counted as it is.
LoseQueued(from, to) ==
  LET lost(k) == {queue[k][n] : n \in from[k] + 1 .. to[k]}
  IN  /\ \A k \in Kinds : from[k] <= to[k]
      /\ counted' = counted \cup UNION {lost(k) : k \in Kinds}
      /\ queue' = [k \in Kinds |-> SubSeq(queue[k], 1, from[k])
                                     \o SubSeq(queue[k], to[k] + 1, Len(queue[k]))]
      /\ UNCHANGED <<offered, wire, filtered>>

First(k, n) == SubSeq(queue[k], 1, n[k])

\* One export takes the front n[k] items of each queue.  The filter lets `spans` and `states`
\* of them through; the transport sends those, or fails and counts them.
Export(n, spans, states) ==
  LET taken == ToSet(First("span", n)) \cup ToSet(First("snapshot", n))
      kept  == ToSet(spans) \cup ToSet(states)
  IN  /\ queue' = [k \in Kinds |-> SubSeq(queue[k], n[k] + 1, Len(queue[k]))]
      /\ filtered' = filtered \cup (taken \ kept)
      /\ \/ wire' = wire \o spans \o states /\ UNCHANGED counted
         \/ counted' = counted \cup kept /\ UNCHANGED wire
      /\ UNCHANGED offered

Next ==
  \/ \E i \in Items : Offer(i) \/ Put(i) \/ LoseInHand(i)
  \/ \E from, to \in Places : LoseQueued(from, to)
  \/ \E n \in Places :
       \E spans \in Subsequences(First("span", n)), states \in Subsequences(First("snapshot", n)) :
         Export(n, spans, states)

Spec == Init /\ [][Next]_outbox
=============================================================================
