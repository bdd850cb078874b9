--------------------------------- MODULE YMap ---------------------------------
(***************************************************************************)
(* A Y.Map of the Yjs library as the code in src/ uses it: one entry per   *)
(* key, set whole, deleted, and merged with another replica's map in any   *)
(* order and any number of times.                                          *)
(*                                                                         *)
(* A write is an item placed after the entry's current item.  Its path is  *)
(* the chain of the clients that wrote it and every item before it, so     *)
(* items written at the same time are siblings.  Replicas agree on the     *)
(* order of the items: an item comes after the one it was placed behind,   *)
(* and of two siblings (with all that was placed behind them) the greater  *)
(* client's comes last.  The entry's value is its last item's, if that     *)
(* item has not been deleted.                                              *)
(***************************************************************************)
EXTENDS Naturals, Sequences

EmptyMap == [items |-> {}, dead |-> {}]

\* Path p comes after path q.
Behind(p, q) ==
    \/ Len(p) > Len(q) /\ SubSeq(p, 1, Len(q)) = q
    \/ \E i \in 1 .. Len(p) :
         /\ i <= Len(q)
         /\ SubSeq(p, 1, i - 1) = SubSeq(q, 1, i - 1)
         /\ p[i] > q[i]

Keys(m) == {i.key : i \in m.items}

LastItem(m, k) ==
    LET of == {i \in m.items : i.key = k}
    IN  CHOOSE i \in of : \A j \in of : j = i \/ Behind(i.path, j.path)

Has(m, k) == k \in Keys(m) /\ <<k, LastItem(m, k).path>> \notin m.dead

Get(m, k) == LastItem(m, k).val

Put(m, client, k, v) ==
    LET after == IF k \in Keys(m) THEN LastItem(m, k).path ELSE << >>
    IN  [m EXCEPT !.items = @ \cup {[key |-> k, path |-> Append(after, client), val |-> v]}]

Delete(m, k) ==
    IF Has(m, k) THEN [m EXCEPT !.dead = @ \cup {<<k, LastItem(m, k).path>>}] ELSE m

Merge(m, n) == [items |-> m.items \cup n.items, dead |-> m.dead \cup n.dead]
===============================================================================
