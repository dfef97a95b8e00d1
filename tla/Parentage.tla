----------------------------- MODULE Parentage -----------------------------
(***************************************************************************)
(* The one rule that turns what was observed into a parent                 *)
(* (_assembly/_parentage.py).  A span context is [trace, span, remote]; an *)
(* edge is what a Parentage ships of it.  Confidence is in tenths.         *)
(***************************************************************************)
EXTENDS Integers

NoCtx == [trace |-> 0, span |-> 0, remote |-> FALSE]
Unsupplied == -1

Confidence ==
  [CONTEXTVAR |-> 10, UNIT_ACTIVE |-> 10, HEADER |-> 10, UNIT_ALIAS |-> 9,
   UNIT_SOLE |-> 5, TRACE_ROOT |-> 10, UNRESOLVED |-> 0]

Marker(source) ==
  CASE source = "UNIT_SOLE" -> {"UNIT_INFERRED_SOLE"}
    [] source = "UNRESOLVED" -> {"PARENT_UNRESOLVED"}
    [] OTHER -> {}

\* A supplied confidence lowers the source's own, never raises it.
ConfidenceFor(source, supplied) ==
  IF supplied = Unsupplied \/ supplied > Confidence[source] THEN Confidence[source]
  ELSE IF supplied < 0 THEN 0 ELSE supplied

CapAtAliasTier(supplied) ==
  IF supplied = Unsupplied \/ supplied > Confidence["UNIT_ALIAS"]
  THEN Confidence["UNIT_ALIAS"] ELSE supplied

Edge(ctx, source, supplied) ==
  [parent |-> ctx, source |-> source, conf |-> ConfidenceFor(source, supplied),
   marks |-> Marker(source)]

\* resolve_parentage(): no context is a root of a new trace, a remote one is a header.
ResolveParentage(ctx, source, supplied) ==
  LET src == IF source # "CONTEXTVAR" THEN source
             ELSE IF ctx = NoCtx THEN "TRACE_ROOT"
             ELSE IF ctx.remote THEN "HEADER" ELSE source
  IN  Edge(ctx, src, supplied)

WithLimitation(edge, m) == [edge EXCEPT !.marks = @ \union {m}]

=============================================================================
