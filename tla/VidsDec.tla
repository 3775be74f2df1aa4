------------------------------ MODULE VidsDec ------------------------------
(***************************************************************************)
(* conf_vids_dec of src/mstpd_conf.c: a `vids` value such as "1,3-5" is    *)
(* written into the table vid2mstid[MAX_VID + 2].  The value is given as   *)
(* the sequence of elements strtoul extracts from it: a VID, a range, or   *)
(* text that is neither.                                                   *)
(***************************************************************************)
EXTENDS Integers, Sequences

CONSTANT MaxVid                    \* MAX_VID of the model

ASSUME MaxVid \in Nat

Vids == 0..MaxVid + 1              \* __u16 vid2mstid[MAX_VID + 2]

\* The elements of a `vids` argument, as conf_vids_dec meets them.
One(a) == [kind |-> "one", a |-> a, b |-> a]
Span(a, b) == [kind |-> "range", a |-> a, b |-> b]
Junk == [kind |-> "bad", a |-> 0, b |-> 0]

\* aval = (xval <= MAX_VID) ? xval : MAX_VID
VidOf(n) == IF n <= MaxVid THEN n ELSE MaxVid

\* One element: rejected, or written to vid2mstid.
ElemRejected(e) == e.kind = "bad" \/ (e.kind = "range" /\ VidOf(e.a) > VidOf(e.b))
WriteElem(tbl, e, t) ==
  [v \in DOMAIN tbl |-> IF VidOf(e.a) <= v /\ v <= VidOf(e.b) THEN t ELSE tbl[v]]

\* conf_vids_dec: elements are written one by one until one is rejected.
RECURSIVE conf_vids_dec(_, _, _)
conf_vids_dec(tbl, es, t) ==
  IF es = <<>> THEN [tbl |-> tbl, ok |-> TRUE]
  ELSE IF ElemRejected(Head(es)) THEN [tbl |-> tbl, ok |-> FALSE]
  ELSE conf_vids_dec(WriteElem(tbl, Head(es), t), Tail(es), t)

\* The VIDs a table maps to tree t.
VidsOf(tbl, t) == {v \in DOMAIN tbl : tbl[v] = t}

=============================================================================
