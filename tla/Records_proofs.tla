----------------------------- MODULE Records_proofs -----------------------------
(***************************************************************************)
(* Proofs about the teacher's records: whatever the devices write, merge   *)
(* and miss, what a record says is what its audit trail says, the caseload *)
(* stays whole, a removal sticks, a score is never lost, and a validated   *)
(* point never comes back onto the queue.                                  *)
(*                                                                         *)
(* A device reads a key as the last of its items in the order of Behind,   *)
(* which is well-founded because an item's path is: so a map that has a    *)
(* key reads one of its items (LastExists, GetIs). What the reading says   *)
(* therefore follows from what every item says, and nothing has to be      *)
(* known of which write wins. That is the invariant's first part           *)
(* (MasterInv): each value written to a replica fits its key, beside the   *)
(* keys of the replica it is in. Documents only grow, so it stays fit when *)
(* it spreads. The second part (PointsInv) is about data points, which are *)
(* alone in being written over from copies taken earlier and in being      *)
(* deleted: all the copies of a point, on replicas, queues and open        *)
(* sheets, say the same, so no write undoes a score, and only placeholders *)
(* die. The third (ScreensInv) types what the screens hold.                *)
(*                                                                         *)
(* The library of materials shares no state with the caseload; the last    *)
(* section is about it. Its store writes a material with its revisions at  *)
(* once, so a chain of revisions only has to be carried on by one.         *)
(***************************************************************************)
EXTENDS Caseload, Materials, FiniteSetTheorems, WellFoundedInduction, TLAPS

-----------------------------------------------------------------------------
(* Maps *)

\* Induction over a set of naturals: it has a least element.
LEMMA LeastNat == \A T \in SUBSET Nat : T # {} => \E x \in T : \A y \in T : x <= y
  <1> DEFINE R == OpToRel(<, Nat)
  <1>1. IsWellFoundedOn(R, Nat)
    BY NatLessThanWellFounded
  <1>2. \A x, y \in Nat : y < x => <<y, x>> \in R
    BY DEF OpToRel
  <1> HIDE DEF R
  <1>3. \A T \in SUBSET Nat : T # {} => \E x \in T : \A y \in T : ~(<<y, x>> \in R)
    BY <1>1, WFMin
  <1> TAKE T \in SUBSET Nat
  <1> HAVE T # {}
  <1>4. PICK x \in T : \A y \in T : ~(<<y, x>> \in R)
    BY <1>3
  <1>5. \A y \in T : x <= y
    <2> TAKE y \in T
    <2>1. x \in Nat /\ y \in Nat
      OBVIOUS
    <2>2. ~(y < x)
      BY <1>2, <1>4, <2>1
    <2> QED
      BY <2>1, <2>2
  <1> QED
    BY <1>4, <1>5

\* The first n clients of two paths are the same.
Alike(p, q, n) == \A k \in 1 .. n : p[k] = q[k]

Longer(p, q) == Len(q) < Len(p) /\ Alike(p, q, Len(q))
Greater(p, q, i) == i \in 1 .. Len(p) /\ i <= Len(q) /\ Alike(p, q, i - 1) /\ q[i] < p[i]

\* Behind, place by place.
LEMMA BehindIs ==
  ASSUME NEW p \in Seq(Nat), NEW q \in Seq(Nat)
  PROVE  Behind(p, q) <=> Longer(p, q) \/ \E i \in Nat : Greater(p, q, i)
  <1>1. ASSUME NEW n \in Nat, n <= Len(p), n <= Len(q)
        PROVE  SubSeq(p, 1, n) = SubSeq(q, 1, n) <=> Alike(p, q, n)
    BY <1>1 DEF Alike
  <1>2. ASSUME Len(p) > Len(q) PROVE SubSeq(p, 1, Len(q)) = q <=> Alike(p, q, Len(q))
    BY <1>2 DEF Alike
  <1>3. \A i \in 1 .. Len(p) :
          i <= Len(q) => (SubSeq(p, 1, i - 1) = SubSeq(q, 1, i - 1) <=> Alike(p, q, i - 1))
    <2> TAKE i \in 1 .. Len(p)
    <2> HAVE i <= Len(q)
    <2>1. i - 1 \in Nat /\ i - 1 <= Len(p) /\ i - 1 <= Len(q)
      OBVIOUS
    <2> QED
      BY <1>1, <2>1
  <1> QED
    BY <1>2, <1>3 DEF Behind, Longer, Greater

\* Behind is a strict order, and of two paths one is behind the other.
LEMMA BehindOrders ==
  /\ \A p, q, r \in Seq(Nat) : Behind(p, q) /\ Behind(q, r) => Behind(p, r)
  /\ \A p, q \in Seq(Nat) : p = q \/ Behind(p, q) \/ Behind(q, p)
  /\ \A p \in Seq(Nat), n \in Nat : ~Behind(p, Append(p, n))
  <1>1. ASSUME NEW p \in Seq(Nat), NEW q \in Seq(Nat), NEW r \in Seq(Nat),
               Behind(p, q), Behind(q, r)
        PROVE  Behind(p, r)
    <2>1. CASE Longer(p, q) /\ Longer(q, r)
      <3>1. Longer(p, r)
        BY <2>1 DEF Longer, Alike
      <3> QED
        BY <3>1, BehindIs
    <2>2. ASSUME Longer(p, q), NEW i \in Nat, Greater(q, r, i) PROVE Behind(p, r)
      <3>a. /\ i \in 1 .. Len(q) /\ i <= Len(r) /\ r[i] < q[i]
            /\ \A k \in 1 .. i - 1 : q[k] = r[k]
        BY <2>2 DEF Greater, Alike
      <3>b. Len(q) < Len(p) /\ \A k \in 1 .. Len(q) : p[k] = q[k]
        BY <2>2 DEF Longer, Alike
      <3>c. i \in 1 .. Len(p) /\ \A k \in 1 .. i - 1 : k \in 1 .. Len(q)
        BY <3>a, <3>b
      <3>d. r[i] < p[i] /\ \A k \in 1 .. i - 1 : p[k] = r[k]
        BY <3>a, <3>b, <3>c
      <3>1. Greater(p, r, i)
        BY <3>a, <3>c, <3>d DEF Greater, Alike
      <3> QED
        BY <3>1, BehindIs
    <2>3. ASSUME NEW i \in Nat, Greater(p, q, i), Longer(q, r) PROVE Behind(p, r)
      <3>1. CASE i <= Len(r)
        <4>1. Greater(p, r, i)
          BY <2>3, <3>1 DEF Longer, Greater, Alike
        <4> QED
          BY <4>1, BehindIs
      <3>2. CASE ~(i <= Len(r))
        <4>1. Longer(p, r)
          BY <2>3, <3>2 DEF Longer, Greater, Alike
        <4> QED
          BY <4>1, BehindIs
      <3> QED
        BY <3>1, <3>2
    <2>4. ASSUME NEW i \in Nat, Greater(p, q, i), NEW j \in Nat, Greater(q, r, j)
          PROVE  Behind(p, r)
      <3>a. /\ i \in 1 .. Len(p) /\ i \in 1 .. Len(q) /\ q[i] < p[i]
            /\ \A k \in 1 .. i - 1 : p[k] = q[k]
        BY <2>4 DEF Greater, Alike
      <3>b. /\ j \in 1 .. Len(q) /\ j \in 1 .. Len(r) /\ r[j] < q[j]
            /\ \A k \in 1 .. j - 1 : q[k] = r[k]
        BY <2>4 DEF Greater, Alike
      <3>1. CASE i < j
        <4>1. i \in 1 .. j - 1 /\ \A k \in 1 .. i - 1 : k \in 1 .. j - 1
          BY <3>a, <3>1
        <4>2. r[i] < p[i] /\ \A k \in 1 .. i - 1 : p[k] = r[k]
          BY <3>a, <3>b, <4>1
        <4>3. i <= Len(r)
          BY <3>a, <3>b, <3>1
        <4>4. Greater(p, r, i)
          BY <3>a, <4>2, <4>3 DEF Greater, Alike
        <4> QED
          BY <4>4, BehindIs
      <3>2. CASE j < i
        <4>1. j \in 1 .. i - 1 /\ \A k \in 1 .. j - 1 : k \in 1 .. i - 1
          BY <3>b, <3>2
        <4>2. r[j] < p[j] /\ \A k \in 1 .. j - 1 : p[k] = r[k]
          BY <3>a, <3>b, <4>1
        <4>3. j \in 1 .. Len(p) /\ j <= Len(r)
          BY <3>a, <3>b, <3>2
        <4>4. Greater(p, r, j)
          BY <4>2, <4>3 DEF Greater, Alike
        <4> QED
          BY <4>4, BehindIs
      <3>3. CASE i = j
        <4>a. /\ i \in 1 .. Len(q) /\ i \in 1 .. Len(r) /\ r[i] < q[i]
              /\ \A k \in 1 .. i - 1 : q[k] = r[k]
          BY <3>b, <3>3
        <4>b. \A s \in Seq(Nat) : \A k \in 1 .. Len(s) : s[k] \in Nat
          OBVIOUS
        <4>1. p[i] \in Nat /\ q[i] \in Nat /\ r[i] \in Nat
          BY <3>a, <4>a, <4>b
        <4>c. \A x, y, z \in Nat : x < y /\ y < z => x < z
          OBVIOUS
        <4>d. r[i] < p[i]
          BY <3>a, <4>a, <4>c, <4>1
        <4>2. r[i] < p[i] /\ \A k \in 1 .. i - 1 : p[k] = r[k]
          BY Zenon, <3>a, <4>a, <4>d
        <4>3. i <= Len(r)
          BY <4>a
        <4>4. Greater(p, r, i)
          BY <3>a, <4>2, <4>3 DEF Greater, Alike
        <4> QED
          BY <4>4, BehindIs
      <3> QED
        BY <3>1, <3>2, <3>3
    <2> QED
      BY <1>1, <2>1, <2>2, <2>3, <2>4, BehindIs
  <1>2. ASSUME NEW p \in Seq(Nat), NEW q \in Seq(Nat), p # q
        PROVE  Behind(p, q) \/ Behind(q, p)
    <2> DEFINE T == {k \in Nat : k \in 1 .. Len(p) /\ k \in 1 .. Len(q) /\ p[k] # q[k]}
    <2>1. CASE T = {}
      <3>1. \A k \in 1 .. Len(p) : k <= Len(q) => p[k] = q[k]
        BY <2>1
      <3>2. Len(p) # Len(q)
        BY <1>2, <3>1
      <3>3. Longer(p, q) \/ Longer(q, p)
        BY <3>1, <3>2 DEF Longer, Alike
      <3> QED
        BY <3>3, BehindIs
    <2>2. CASE T # {}
      <3>1. PICK i \in T : \A k \in T : i <= k
        BY <2>2, LeastNat
      <3>2. ASSUME NEW k \in 1 .. i - 1 PROVE p[k] = q[k]
        <4>1. k \in Nat /\ k \in 1 .. Len(p) /\ k \in 1 .. Len(q) /\ ~(i <= k)
          BY <3>1
        <4> QED
          BY <3>1, <4>1
      <3>3. p[i] \in Nat /\ q[i] \in Nat /\ p[i] # q[i]
        BY <3>1
      <3>4. Greater(p, q, i) \/ Greater(q, p, i)
        BY <3>1, <3>2, <3>3 DEF Greater, Alike
      <3> QED
        BY <3>4, BehindIs
    <2> QED
      BY <2>1, <2>2
  <1>3. ASSUME NEW p \in Seq(Nat), NEW n \in Nat PROVE ~Behind(p, Append(p, n))
    <2> DEFINE q == Append(p, n)
    <2>1. q \in Seq(Nat) /\ Len(q) = Len(p) + 1 /\ \A k \in 1 .. Len(p) : q[k] = p[k]
      OBVIOUS
    <2> HIDE DEF q
    <2>2. ~Longer(p, q) /\ \A i \in Nat : ~Greater(p, q, i)
      BY <2>1 DEF Longer, Greater
    <2> QED
      BY <2>1, <2>2, BehindIs DEF q
  <1> QED
    BY <1>1, <1>2, <1>3

\* Items of one key with paths of their own.
Distinct(S) ==
    /\ IsFiniteSet(S)
    /\ \A x \in S : x.path \in Seq(Nat)
    /\ \A x, y \in S : x.path = y.path => x = y

IsLast(S, x) == x \in S /\ \A y \in S : y = x \/ Behind(x.path, y.path)

\* Finitely many of them have a last one.
LEMMA LastExists == \A S : Distinct(S) /\ S # {} => \E x : IsLast(S, x)
  <1> SUFFICES ASSUME NEW S, Distinct(S), S # {} PROVE \E x : IsLast(S, x)
    OBVIOUS
  <1> DEFINE Bad(U) == Distinct(U) /\ U # {} /\ ~\E x : IsLast(U, x)
             T == {n \in Nat : \E U \in SUBSET S : Bad(U) /\ Cardinality(U) = n}
  <1>1. ASSUME T # {} PROVE FALSE
    <2>1. PICK n \in T : \A k \in T : n <= k
      BY <1>1, LeastNat
    <2>2. PICK U \in SUBSET S : Bad(U) /\ Cardinality(U) = n
      BY <2>1
    <2>3. PICK x \in U : TRUE
      BY <2>2
    <2> DEFINE V == U \ {x}
    <2>4. IsFiniteSet(U) /\ IsFiniteSet(V) /\ Cardinality(V) = Cardinality(U) - 1
      BY <2>2, <2>3, FS_RemoveElement DEF Distinct
    <2>5. Cardinality(V) \in Nat /\ V \in SUBSET S /\ Cardinality(V) < n
      BY <2>2, <2>4, FS_CardinalityType
    <2>6. Distinct(V) /\ ~Bad(V)
      <3>1. Distinct(V)
        BY <2>2, <2>4 DEF Distinct
      <3>2. ~(n <= Cardinality(V))
        BY <2>1, <2>5
      <3>3. Bad(V) => Cardinality(V) \in T
        BY <2>5
      <3> HIDE DEF Bad
      <3> QED
        BY <2>1, <3>1, <3>2, <3>3
    <2>7. CASE V = {}
      <3>1. IsLast(U, x)
        BY <2>3, <2>7 DEF IsLast
      <3> QED
        BY <2>2, <3>1
    <2>8. CASE V # {}
      <3>1. PICK y : IsLast(V, y)
        BY <2>6, <2>8
      <3>2. x.path \in Seq(Nat) /\ y.path \in Seq(Nat) /\ y \in U /\ x.path # y.path
            /\ \A z \in U : z.path \in Seq(Nat)
        BY <2>2, <2>3, <3>1 DEF Distinct, IsLast
      <3>3. CASE Behind(y.path, x.path)
        BY <2>2, <3>1, <3>2, <3>3 DEF IsLast
      <3>4. CASE Behind(x.path, y.path)
        <4>1. \A z \in V : Behind(x.path, z.path)
          BY <3>1, <3>2, <3>4, BehindOrders DEF IsLast
        <4>2. IsLast(U, x)
          BY <2>3, <4>1 DEF IsLast
        <4> QED
          BY <2>2, <4>2
      <3> QED
        BY <3>2, <3>3, <3>4, BehindOrders
    <2> QED
      BY <2>7, <2>8
  <1>2. Cardinality(S) \in Nat
    BY FS_CardinalityType DEF Distinct
  <1> QED
    BY <1>1, <1>2
-----------------------------------------------------------------------------
(* What every replica holds *)

\* Everything written to the master document, and to the para document, on any device.
Written == UNION {doc[d].items : d \in Device}
ParaWritten ==
    prelay.items \cup UNION {pdoc[d].items \cup pside[d].items \cup disk[d].items : d \in Device}

Author(x) == x.path[Len(x.path)]

\* Replicas of one document: an item is known by its key and its path, and is on the
\* device that wrote it.
Replicas(R) ==
    /\ DOMAIN R = Device
    /\ \A d \in Device : DOMAIN R[d] = {"items", "dead"} /\ IsFiniteSet(R[d].items)
    /\ \A d \in Device : \A x \in R[d].items :
          /\ x.path \in Seq(Nat) \ {<< >>}
          /\ Author(x) \in Device => x \in R[Author(x)].items
    /\ \A d, e \in Device : \A x \in R[d].items, y \in R[e].items :
          x.key = y.key /\ x.path = y.path => x = y

-----------------------------------------------------------------------------
(* What the records say *)

MaybeScore == (Nat \X Nat) \cup {None}
BaselineRevision ==
    [kind : {"fixed", "removed", "kept"}, old : MaybeScore, new : MaybeScore,
     dates : (Date \X Date) \cup {None}]
BaselineRecord ==
    [score : Nat \X Nat, date : Date, mismatch : BOOLEAN, kept : BOOLEAN, removed : BOOLEAN,
     corrected : BOOLEAN, revisions : Seq(BaselineRevision)]

BaselineOK(p) == p \in BaselineRecord /\ p.mismatch = Mismatched(p.score) /\ Explained(p)

Labels == {form.label : form \in Form} \cup {None}
GoalRevision == [kind : {"label", "adopted"}, old : Labels, new : Labels]
GoalRecord ==
    [student : Id, gaps : {form.gaps : form \in Form}, arc : {None}, label : Labels,
     status : {"active", "proposed"}, source : {"eval", None},
     baseline : {<< >>, DeriveBaseline(Gathered)}, revisions : Seq(GoalRevision)]

\* A goal is whole: nothing but the baseline may be missing, and that only at first.
GoalOK(g) ==
    /\ g \in GoalRecord /\ g.gaps = {}
    /\ Chained(g.revisions, Trail(g, "label"), g.label)
    /\ g.status = "proposed" => Trail(g, "adopted") = {} /\ g.source = None
    /\ g.status = "active" =>
         /\ IF Trail(g, "adopted") = {} THEN g.source = "eval"
            ELSE g.source = None /\ g.baseline # << >>
         /\ \A j, k \in Trail(g, "adopted") : j = k
         /\ g.label = None => Trail(g, "label") # {}

\* What a value of the master document is under its key, beside the keys of a map.
Fits(m, k, v) ==
    /\ k[1] = "baseline" =>
         /\ BaselineOK(v)
         /\ v.removed => <<"removal", k[2]>> \in Keys(m)
    /\ k[1] = "removal" => v \in BaselineRevision /\ v.kind = "removed"
    /\ k[1] = "goal" /\ k[2] \in Id =>
         /\ GoalOK(v)
         /\ <<"student", v.student>> \in Keys(m) /\ <<"probe", k[2]>> \in Keys(m)

AllFit(m) == \A x \in m.items : Fits(m, x.key, x.val)

MasterInv ==
    /\ Replicas(doc)
    /\ \A d \in Device : AllFit(doc[d])
    /\ DOMAIN relay = {"items", "dead"}
    /\ relay.items \subseteq Written /\ IsFiniteSet(relay.items)
    /\ AllFit(relay)
    /\ DOMAIN shown = Device
    /\ \A d \in Device : shown[d].items \subseteq doc[d].items

-----------------------------------------------------------------------------
(* The copies of a data point *)

MaybePointScore == Score \cup {None}
Elections == {None} \cup UNION {Bound[t].elections : t \in Topic}
PointRecord ==
    [goal : Goal, state : {"scored", "no_data", "queued", "pending"},
     scorer : {"teacher", "para"}, score : MaybePointScore, basis : {ProbeTotal, None},
     mismatch : BOOLEAN, election : Elections, validated : BOOLEAN,
     revisions : Seq([old : MaybePointScore, new : MaybePointScore])]

PointOK(p) ==
    /\ p \in PointRecord
    /\ p.state # "no_data" => Chained(p.revisions, DOMAIN p.revisions, p.score)
    /\ p.election # None => D!OffBasis(p.basis, p.score)

Recorded(i) == {x.val : x \in {y \in Written : y.key = <<"point", i>>}}
Pending(i) == {x.val : x \in {y \in ParaWritten : y.key = <<"pending", i>>}}
Queued(i) == {queue[d][i] : d \in {e \in Device : i \in DOMAIN queue[e]}}
OnSheets(i) == {sheet[d].copy : d \in {e \in Device : sheet[e].existing = i}}
InFixes(i) == {paraFix[d].copy : d \in {e \in Device : paraFix[e].id = i}}
Copies(i) == Recorded(i) \cup Pending(i) \cup Queued(i) \cup OnSheets(i) \cup InFixes(i)

\* What a point says once it is validated.
Says(p) == IF p.state = "pending" THEN "scored" ELSE p.state

\* Every copy of a data point says the same; only a placeholder is taken away; and a
\* pending point is written once.
CopiesInv ==
    \A i \in Id :
        /\ \A p, q \in Copies(i) : Says(p) = Says(q)
        /\ \A p \in Copies(i) : PointOK(p)
        /\ Copies(i) # {} => i <= minted

RecordedInv == \A i \in Id : \A p \in Recorded(i) : p.state # "pending"

Removable(e) == \E i \in Id : e[1] = <<"point", i>> /\ \E p \in Recorded(i) : p.state = "queued"
DeadInv ==
    /\ \A d \in Device : \A e \in doc[d].dead : Removable(e)
    /\ \A e \in relay.dead : Removable(e)

PendingInv == \A x, y \in ParaWritten : x.key = y.key /\ x.key[1] = "pending" => x = y

PointsInv == CopiesInv /\ RecordedInv /\ DeadInv /\ PendingInv

\* The types of the rest, and that a para's point is on the sheet only to be fixed.
ScreensInv ==
    /\ topic \in Topic /\ minted \in Nat
    /\ DOMAIN sheet = Device /\ DOMAIN paraFix = Device /\ DOMAIN queue = Device
    /\ DOMAIN pdoc = Device /\ DOMAIN pside = Device /\ DOMAIN disk = Device
    /\ \A d \in Device :
         /\ DOMAIN pdoc[d] = {"items", "dead"} /\ DOMAIN pside[d] = {"items", "dead"}
         /\ DOMAIN disk[d] = {"items", "dead"}
         /\ DOMAIN queue[d] \subseteq Id
         /\ sheet[d] = NoSheet \/ (sheet[d].goal \in Goal /\ sheet[d].existing \in Id \cup {None})
         /\ paraFix[d] = NoFix \/ paraFix[d].id \in Id
         /\ sheet[d].existing # None /\ sheet[d].copy.state = "pending" => paraFix[d] # NoFix
    /\ DOMAIN prelay = {"items", "dead"}

RecordsInv == MasterInv /\ PointsInv /\ ScreensInv

-----------------------------------------------------------------------------
(* What a write makes of a map *)

IsMap(m) == DOMAIN m = {"items", "dead"}

\* The item a Put adds.
NewItem(m, c, k, v) ==
    [key |-> k, path |-> Append(IF k \in Keys(m) THEN LastItem(m, k).path ELSE << >>, c), val |-> v]

\* A put adds its one item to a map and kills nothing.
LEMMA PutIs ==
  ASSUME NEW m, IsMap(m), NEW c, NEW k, NEW v
  PROVE  /\ IsMap(Put(m, c, k, v))
         /\ Put(m, c, k, v).items = m.items \cup {NewItem(m, c, k, v)}
         /\ Put(m, c, k, v).dead = m.dead
         /\ Keys(Put(m, c, k, v)) = Keys(m) \cup {k}
  <1>1. /\ IsMap(Put(m, c, k, v))
        /\ Put(m, c, k, v).items = m.items \cup {NewItem(m, c, k, v)}
        /\ Put(m, c, k, v).dead = m.dead
    BY DEF IsMap, Put, NewItem
  <1>2. NewItem(m, c, k, v).key = k
    BY DEF NewItem
  <1> QED
    BY <1>1, <1>2 DEF Keys

\* A delete leaves the items, and kills only what is under its key.
LEMMA DeleteIs ==
  ASSUME NEW m, IsMap(m), NEW k
  PROVE  /\ IsMap(Delete(m, k)) /\ Delete(m, k).items = m.items
         /\ \A e \in Delete(m, k).dead : e \in m.dead \/ (e[1] = k /\ Has(m, k))
  BY DEF IsMap, Delete

\* A merge is the union of both maps.
LEMMA MergeIs ==
  ASSUME NEW m, NEW n
  PROVE  /\ IsMap(Merge(m, n)) /\ Merge(m, n).items = m.items \cup n.items
         /\ Merge(m, n).dead = m.dead \cup n.dead
  BY DEF IsMap, Merge

\* The current item of a key is one of its items, behind all the others.
LEMMA LastItemIs ==
  ASSUME NEW R, Replicas(R), NEW d \in Device, NEW m, m.items \subseteq R[d].items,
         NEW k \in Keys(m)
  PROVE  /\ LastItem(m, k) \in m.items /\ LastItem(m, k).key = k
         /\ \A y \in m.items : y.key = k =>
               y = LastItem(m, k) \/ Behind(LastItem(m, k).path, y.path)
  <1> DEFINE S == {i \in m.items : i.key = k}
  <1>1. Distinct(S)
    <2>1. IsFiniteSet(S)
      <3>1. IsFiniteSet(R[d].items) /\ S \subseteq R[d].items
        BY DEF Replicas
      <3> QED
        BY <3>1, FS_Subset
    <2>2. \A x \in S : x.path \in Seq(Nat)
      BY DEF Replicas
    <2>3. \A x, y \in S : x.path = y.path => x = y
      BY DEF Replicas
    <2> QED
      BY <2>1, <2>2, <2>3 DEF Distinct
  <1>2. S # {}
    BY DEF Keys
  <1>3. \E x \in S : \A y \in S : y = x \/ Behind(x.path, y.path)
    BY <1>1, <1>2, LastExists DEF IsLast
  <1>4. LastItem(m, k) = CHOOSE x \in S : \A y \in S : y = x \/ Behind(x.path, y.path)
    BY DEF LastItem
  <1> HIDE DEF S
  <1>5. LastItem(m, k) \in S
          /\ \A y \in S : y = LastItem(m, k) \/ Behind(LastItem(m, k).path, y.path)
    BY <1>3, <1>4
  <1> QED
    BY <1>5 DEF S

\* An item on no replica yet, of this device and under this key.
IsNew(n, R, d, k) ==
    /\ n.path \in Seq(Nat) \ {<< >>} /\ Author(n) = d /\ n.key = k
    /\ \A e \in Device : \A y \in R[e].items : y.key = k => y.path # n.path

\* What d writes is new: no replica has an item of its key with its path.
LEMMA NewItemIsNew ==
  ASSUME NEW R, Replicas(R), NEW d \in Device, NEW k, NEW v, d \in Nat,
         NEW n, n = NewItem(R[d], d, k, v)
  PROVE  IsNew(n, R, d, k)
  <1> DEFINE after == IF k \in Keys(R[d]) THEN LastItem(R[d], k).path ELSE << >>
  <1>1. after \in Seq(Nat)
    <2>1. CASE k \in Keys(R[d])
      BY <2>1, LastItemIs DEF Replicas
    <2>2. CASE k \notin Keys(R[d])
      BY <2>2
    <2> QED
      BY <2>1, <2>2
  <1>2. n.path = Append(after, d) /\ n.key = k /\ n.val = v
    BY DEF NewItem
  <1> HIDE DEF after
  <1>3. n.path \in Seq(Nat) \ {<< >>} /\ Author(n) = d
    BY <1>1, <1>2 DEF Author
  <1>4. ASSUME NEW e \in Device, NEW y \in R[e].items, y.key = k, y.path = n.path PROVE FALSE
    <2>1. Author(y) = d
      BY <1>3, <1>4 DEF Author
    <2>2. y \in R[d].items
      BY <1>4, <2>1 DEF Replicas
    <2>3. k \in Keys(R[d])
      BY <1>4, <2>2 DEF Keys
    <2>4. y = LastItem(R[d], k) \/ Behind(LastItem(R[d], k).path, y.path)
      BY <1>4, <2>2, <2>3, LastItemIs
    <2>5. y.path = after \/ Behind(after, y.path)
      BY <2>3, <2>4 DEF after
    <2>6. y.path # after
      BY <1>1, <1>2, <1>4
    <2> QED
      BY <1>1, <1>2, <1>4, <2>5, <2>6, BehindOrders
  <1> QED
    BY <1>2, <1>3, <1>4 DEF IsNew

\* Replicas stay replicas when one of them is written to, deleted from or merged with what
\* others have.
LEMMA PutKeepsReplicas ==
  ASSUME NEW R, Replicas(R), NEW d \in Device, d \in Nat, NEW k, NEW v
  PROVE  Replicas([R EXCEPT ![d] = Put(R[d], d, k, v)])
  <1> DEFINE Q == [R EXCEPT ![d] = Put(R[d], d, k, v)]
  <1>0. PICK n : n = NewItem(R[d], d, k, v)
    OBVIOUS
  <1>1. /\ n.path \in Seq(Nat) \ {<< >>} /\ Author(n) = d
        /\ \A e \in Device : \A y \in R[e].items : y.key = n.key => y.path # n.path
    <2>1. IsNew(n, R, d, k)
      BY <1>0, NewItemIsNew
    <2> HIDE DEF Q
    <2> QED
      BY <2>1 DEF IsNew
  <1>2. /\ DOMAIN Q = Device
        /\ \A e \in Device : e # d => Q[e] = R[e]
        /\ Q[d] = Put(R[d], d, k, v)
    BY DEF Replicas
  <1>3. DOMAIN Q[d] = {"items", "dead"} /\ Q[d].items = R[d].items \cup {n}
    <2>1. IsMap(R[d])
      BY DEF Replicas, IsMap
    <2> QED
      BY <1>0, <1>2, <2>1, PutIs DEF IsMap
  <1> HIDE DEF Q
  <1>4. \A e \in Device : DOMAIN Q[e] = {"items", "dead"} /\ IsFiniteSet(Q[e].items)
    <2>1. IsFiniteSet(Q[d].items)
      <3>1. IsFiniteSet(R[d].items)
        BY DEF Replicas
      <3> QED
        BY <1>3, <3>1, FS_AddElement
    <2> QED
      BY <1>2, <1>3, <2>1 DEF Replicas
  <1>5. \A e \in Device : \A x \in Q[e].items : x \in R[e].items \/ (x = n /\ e = d)
    BY <1>2, <1>3
  <1>6. \A e \in Device : R[e].items \subseteq Q[e].items
    BY <1>2, <1>3
  <1>7. \A e \in Device : \A x \in Q[e].items :
          /\ x.path \in Seq(Nat) \ {<< >>}
          /\ Author(x) \in Device => x \in Q[Author(x)].items
    <2> TAKE e \in Device
    <2> TAKE x \in Q[e].items
    <2>1. CASE x \in R[e].items
      BY <1>6, <2>1 DEF Replicas
    <2>2. CASE x = n
      BY <1>1, <1>3, <2>2
    <2> QED
      BY <1>5, <2>1, <2>2
  <1>8. \A e, f \in Device : \A x \in Q[e].items, y \in Q[f].items :
          x.key = y.key /\ x.path = y.path => x = y
    BY <1>1, <1>5 DEF Replicas
  <1>9. Replicas(Q)
    BY <1>2, <1>4, <1>7, <1>8 DEF Replicas
  <1> QED
    BY <1>9 DEF Q

\* A replica that takes in items of the others leaves the replicas what they are.
LEMMA GrowKeepsReplicas ==
  ASSUME NEW R, Replicas(R), NEW d \in Device, NEW m, IsMap(m), IsFiniteSet(m.items),
         R[d].items \subseteq m.items, m.items \subseteq UNION {R[e].items : e \in Device}
  PROVE  Replicas([R EXCEPT ![d] = m])
  <1> DEFINE Q == [R EXCEPT ![d] = m]
  <1>1. /\ DOMAIN Q = Device
        /\ \A e \in Device : e # d => Q[e] = R[e]
        /\ Q[d] = m
    BY DEF Replicas
  <1> HIDE DEF Q
  <1>2. \A e \in Device : \A x \in Q[e].items : \E f \in Device : x \in R[f].items
    BY <1>1
  <1>3. \A e \in Device : R[e].items \subseteq Q[e].items
    BY <1>1
  <1>4. \A e \in Device : DOMAIN Q[e] = {"items", "dead"} /\ IsFiniteSet(Q[e].items)
    BY <1>1 DEF Replicas, IsMap
  <1>5. \A e \in Device : \A x \in Q[e].items :
          /\ x.path \in Seq(Nat) \ {<< >>}
          /\ Author(x) \in Device => x \in Q[Author(x)].items
    BY <1>2, <1>3 DEF Replicas
  <1>6. \A e, f \in Device : \A x \in Q[e].items, y \in Q[f].items :
          x.key = y.key /\ x.path = y.path => x = y
    <2> TAKE e, f \in Device
    <2> TAKE x \in Q[e].items, y \in Q[f].items
    <2>1. PICK e1 \in Device : x \in R[e1].items
      BY <1>2
    <2>2. PICK f1 \in Device : y \in R[f1].items
      BY <1>2
    <2> QED
      BY <2>1, <2>2 DEF Replicas
  <1>7. Replicas(Q)
    BY <1>1, <1>4, <1>5, <1>6 DEF Replicas
  <1> QED
    BY <1>7 DEF Q

-----------------------------------------------------------------------------
(* What the rules make of a record *)

\* A chain goes on with a revision that starts from where it ends, and with none.
LEMMA ChainGrows ==
  ASSUME NEW X, NEW r \in Seq(X), NEW s, NEW places, places \subseteq 1 .. Len(r), NEW value,
         Chained(r, places, value), \A i \in 1 .. Len(r) : s[i] = r[i]
  PROVE  /\ Chained(s, places, value)
         /\ s[Len(r) + 1].old = value =>
               Chained(s, places \cup {Len(r) + 1}, s[Len(r) + 1].new)
  <1>1. \A i \in places : i \in Nat /\ i <= Len(r) /\ s[i] = r[i]
    OBVIOUS
  <1>2. Chained(s, places, value)
    BY <1>1 DEF Chained
  <1>3. ASSUME s[Len(r) + 1].old = value
        PROVE  Chained(s, places \cup {Len(r) + 1}, s[Len(r) + 1].new)
    <2> DEFINE n == Len(r) + 1
               more == places \cup {n}
    <2>0. n \in Nat /\ \A i \in places : i < n
      BY <1>1
    <2>1. ASSUME NEW i \in more, \A j \in more : j <= i PROVE s[i].new = s[n].new
      BY <2>0, <2>1, <1>1
    <2>2. ASSUME NEW i \in more, NEW j \in more, i < j,
                 \A k \in more : k <= i \/ j <= k
          PROVE  s[i].new = s[j].old
      <3>1. i \in places
        BY <2>0, <2>2, <1>1
      <3>2. CASE j \in places
        BY <1>2, <2>2, <3>1, <3>2 DEF Chained
      <3>3. CASE j = n
        <4>1. \A k \in places : k <= i
          BY <2>0, <2>2, <3>3, <1>1
        <4> QED
          BY <1>2, <1>3, <3>1, <3>3, <4>1 DEF Chained
      <3> QED
        BY <3>2, <3>3
    <2> QED
      BY <2>1, <2>2 DEF Chained
  <1> QED
    BY <1>2, <1>3

\* A record is not None; what is new is explained.
LEMMA NewBaselineOK ==
  ASSUME NEW s \in Nat \X Nat
  PROVE  BaselineOK(NewBaselinePoint(s)) /\ ~NewBaselinePoint(s).removed
  <1> DEFINE p == NewBaselinePoint(s)
  <1>1. p \in BaselineRecord
    BY DEF NewBaselinePoint, BaselineRecord, Mismatched, Date
  <1>2. p.revisions = << >> /\ ~p.removed /\ ~p.kept /\ p.mismatch = Mismatched(p.score)
    BY DEF NewBaselinePoint
  <1> HIDE DEF p
  <1>3. \A kind : Trail(p, kind) = {}
    BY <1>2 DEF Trail
  <1> QED
    BY <1>1, <1>2, <1>3 DEF BaselineOK, Explained, Chained, p

\* Record q is p with one more revision, its n-th.
OneMore(p, q, e, n) ==
    /\ n \in Nat /\ \A kind : \A i \in Trail(p, kind) : i \in Nat /\ i < n
    /\ \A i \in DOMAIN p.revisions : q.revisions[i] = p.revisions[i]
    /\ q.revisions[n] = e /\ Len(q.revisions) = n
    /\ \A kind : Trail(q, kind) = IF e.kind = kind THEN Trail(p, kind) \cup {n} ELSE Trail(p, kind)

\* A record with one more revision has its trails, one of them with one more entry.
LEMMA OneMoreIs ==
  ASSUME NEW X, NEW p, NEW q, p.revisions \in Seq(X), NEW e \in X,
         q.revisions = Append(p.revisions, e)
  PROVE  OneMore(p, q, e, Len(p.revisions) + 1)
  <1> DEFINE n == Len(p.revisions) + 1
  <1>1. /\ DOMAIN p.revisions = 1 .. Len(p.revisions)
        /\ DOMAIN q.revisions = DOMAIN p.revisions \cup {n}
        /\ Len(q.revisions) = n
        /\ \A i \in 1 .. Len(p.revisions) : q.revisions[i] = p.revisions[i]
        /\ q.revisions[n] = e
    OBVIOUS
  <1>2. n \in Nat /\ \A kind : \A i \in Trail(p, kind) : i \in Nat /\ i < n
    BY <1>1 DEF Trail
  <1>3. \A kind : Trail(q, kind) = IF e.kind = kind THEN Trail(p, kind) \cup {n}
                                  ELSE Trail(p, kind)
    BY <1>1 DEF Trail
  <1> QED
    BY <1>1, <1>2, <1>3 DEF OneMore

\* The chain of a kind goes on with it, or is left as it was.
LEMMA ChainGoesOn ==
  ASSUME NEW X, NEW p, NEW q, p.revisions \in Seq(X), NEW e \in X,
         q.revisions = Append(p.revisions, e), NEW kind, NEW value,
         Chained(p.revisions, Trail(p, kind), value)
  PROVE  /\ e.kind # kind => Chained(q.revisions, Trail(q, kind), value)
         /\ e.kind = kind /\ e.old = value => Chained(q.revisions, Trail(q, kind), e.new)
  <1> DEFINE n == Len(p.revisions) + 1
  <1>1. DOMAIN p.revisions = 1 .. Len(p.revisions)
    OBVIOUS
  <1>0. OneMore(p, q, e, n)
    BY OneMoreIs
  <1> HIDE DEF n
  <1>2. Trail(p, kind) \subseteq 1 .. Len(p.revisions)
    BY <1>1 DEF Trail
  <1>3. /\ Chained(q.revisions, Trail(p, kind), value)
        /\ e.old = value => Chained(q.revisions, Trail(p, kind) \cup {n}, e.new)
    <2>1. q.revisions[n] = e /\ \A i \in 1 .. Len(p.revisions) : q.revisions[i] = p.revisions[i]
      BY <1>0, <1>1 DEF OneMore
    <2> QED
      BY <1>2, <2>1, ChainGrows DEF n
  <1> QED
    BY <1>0, <1>3 DEF OneMore

\* A fix is explained, and neither removes a point nor brings it back.
LEMMA FixOK ==
  ASSUME NEW p, BaselineOK(p), NEW g, NEW b, NEW s, s = <<s[1], s[2]>>, NEW date \in Date
  PROVE  LET q == FixBaselinePoint(p, g, b, s, date)
         IN  BaselineOK(q) /\ (q # p => ~q.removed)
  <1> DEFINE q == FixBaselinePoint(p, g, b, s, date)
             dates == IF date = p.date THEN None ELSE <<p.date, date>>
             e == [kind |-> "fixed", old |-> p.score, new |-> s, dates |-> dates]
  <1>1. CASE p.removed \/ ~IsScore(s) \/ (s = p.score /\ date = p.date)
    BY <1>1 DEF FixBaselinePoint
  <1>2. CASE ~(p.removed \/ ~IsScore(s) \/ (s = p.score /\ date = p.date))
    <2>1. /\ p \in BaselineRecord /\ s \in Nat \X Nat /\ p.score \in Nat \X Nat
          /\ p.date \in Date
      BY <1>2 DEF IsScore, BaselineOK, BaselineRecord
    <2>2. e \in BaselineRevision
      BY <2>1 DEF BaselineRevision, MaybeScore
    <2>3. q = [p EXCEPT !.score = s, !.date = date, !.mismatch = Mismatched(s),
                        !.kept = p.kept /\ Mismatched(s) /\ s[2] = p.score[2],
                        !.corrected = p.corrected \/ (s # p.score /\ WasAdoptedFrom(g, b)),
                        !.revisions = Append(p.revisions, e)]
      BY <1>2 DEF FixBaselinePoint, Revised
    <2>4. Append(p.revisions, e) \in Seq(BaselineRevision)
      BY <2>1, <2>2 DEF BaselineRecord
    <2>5. /\ q \in BaselineRecord /\ q.score = s /\ q.mismatch = Mismatched(s)
          /\ q.kept = (p.kept /\ Mismatched(s) /\ s[2] = p.score[2])
          /\ q.removed = p.removed /\ q.revisions = Append(p.revisions, e)
      BY <2>1, <2>3, <2>4 DEF BaselineRecord, Mismatched, WasAdoptedFrom
    <2> DEFINE n == Len(p.revisions) + 1
    <2> HIDE DEF q, e, n
    <2>6. e.kind = "fixed" /\ e.old = p.score /\ e.new = s
      BY DEF e
    <2>7a. p.revisions \in Seq(BaselineRevision)
      BY <2>1 DEF BaselineRecord
    <2>7b. OneMore(p, q, e, n)
      BY <2>2, <2>5, <2>7a, OneMoreIs DEF n
    <2>7c. Chained(q.revisions, Trail(q, "fixed"), s)
      <3>1. Chained(p.revisions, Trail(p, "fixed"), p.score)
        BY DEF BaselineOK, Explained
      <3>2. Chained(q.revisions, Trail(q, "fixed"), e.new)
        BY <2>2, <2>5, <2>6, <2>7a, <3>1, ChainGoesOn
      <3> QED
        BY <2>6, <3>2
    <2>7. /\ n \in Nat /\ \A kind : \A i \in Trail(p, kind) : i \in Nat /\ i < n
          /\ \A i \in DOMAIN p.revisions : q.revisions[i] = p.revisions[i]
          /\ q.revisions[n] = e
          /\ Trail(q, "fixed") = Trail(p, "fixed") \cup {n}
          /\ Trail(q, "removed") = Trail(p, "removed") /\ Trail(q, "kept") = Trail(p, "kept")
      BY <2>6, <2>7b DEF OneMore
    <2>8. ASSUME q.kept
          PROVE  \E k \in Trail(q, "kept") : \A i \in Trail(q, "fixed") :
                    k <= i => q.revisions[i].new[2] = q.revisions[i].old[2]
      <3>1. PICK k \in Trail(p, "kept") : \A i \in Trail(p, "fixed") :
                    k <= i => p.revisions[i].new[2] = p.revisions[i].old[2]
        BY <2>5, <2>8 DEF BaselineOK, Explained
      <3>2. s[2] = p.score[2]
        BY <2>5, <2>8
      <3>3. \A i \in Trail(p, "fixed") : i \in DOMAIN p.revisions
        BY DEF Trail
      <3> QED
        BY <2>6, <2>7, <3>1, <3>2, <3>3
    <2>9. Explained(q)
      BY <2>5, <2>7, <2>7c, <2>8 DEF Explained, BaselineOK
    <2> QED
      BY <1>2, <2>5, <2>9 DEF BaselineOK, q
  <1> QED
    BY <1>1, <1>2

\* A removed point says so, once, at the end of its trail.
LEMMA RemovedOK ==
  ASSUME NEW p, BaselineOK(p), ~p.removed, NEW e \in BaselineRevision, e.kind = "removed"
  PROVE  LET q == [p EXCEPT !.removed = TRUE, !.revisions = Append(p.revisions, e)]
         IN  BaselineOK(q) /\ q.removed /\ q.revisions[Len(q.revisions)] = e
  <1> DEFINE q == [p EXCEPT !.removed = TRUE, !.revisions = Append(p.revisions, e)]
             n == Len(p.revisions) + 1
  <1>1. p \in BaselineRecord /\ p.revisions \in Seq(BaselineRevision)
    BY DEF BaselineOK, BaselineRecord
  <1>2. /\ q \in BaselineRecord /\ q.score = p.score /\ q.mismatch = p.mismatch
        /\ q.kept = p.kept /\ q.removed /\ q.revisions = Append(p.revisions, e)
    <2>1. Append(p.revisions, e) \in Seq(BaselineRevision)
      BY <1>1
    <2> QED
      BY <1>1, <2>1 DEF BaselineRecord
  <1> HIDE DEF q, n
  <1>3a. OneMore(p, q, e, n)
    BY <1>1, <1>2, OneMoreIs DEF n
  <1>3b. Chained(q.revisions, Trail(q, "fixed"), p.score)
    BY <1>1, <1>2, ChainGoesOn DEF BaselineOK, Explained
  <1>3. /\ n \in Nat /\ \A kind : \A i \in Trail(p, kind) : i \in Nat /\ i < n
        /\ \A i \in DOMAIN p.revisions : q.revisions[i] = p.revisions[i]
        /\ q.revisions[n] = e /\ Len(q.revisions) = n
        /\ Trail(q, "removed") = Trail(p, "removed") \cup {n}
        /\ Trail(q, "fixed") = Trail(p, "fixed") /\ Trail(q, "kept") = Trail(p, "kept")
    BY <1>3a DEF OneMore
  <1>4. Trail(p, "removed") = {}
    BY DEF BaselineOK, Explained
  <1>5. \A i \in Trail(p, "fixed") : i \in DOMAIN p.revisions
    BY DEF Trail
  <1>6. Explained(q)
    <2>1. q.removed <=> Trail(q, "removed") # {}
      BY <1>2, <1>3
    <2>2. \A i, j \in Trail(q, "removed") : i = j
      BY <1>3, <1>4
    <2>3. ASSUME q.kept
          PROVE  /\ Mismatched(q.score)
                 /\ \E k \in Trail(q, "kept") : \A i \in Trail(q, "fixed") :
                       k <= i => q.revisions[i].new[2] = q.revisions[i].old[2]
      <3>1. /\ Mismatched(p.score)
            /\ \E k \in Trail(p, "kept") : \A i \in Trail(p, "fixed") :
                  k <= i => p.revisions[i].new[2] = p.revisions[i].old[2]
        BY <1>2, <2>3 DEF BaselineOK, Explained
      <3> QED
        BY <1>2, <1>3, <1>5, <3>1
    <2> QED
      BY <1>2, <1>3b, <2>1, <2>2, <2>3 DEF Explained
  <1> QED
    BY <1>2, <1>3, <1>6 DEF BaselineOK, q

\* "Keep" is explained.
LEMMA KeepOK ==
  ASSUME NEW p, BaselineOK(p)
  PROVE  LET q == KeepBaselineTotal(p)
         IN  BaselineOK(q) /\ (q # p => ~q.removed)
  <1> DEFINE q == KeepBaselineTotal(p)
             e == [kind |-> "kept", old |-> None, new |-> None, dates |-> None]
             n == Len(p.revisions) + 1
  <1>1. CASE p.removed \/ ~p.mismatch \/ p.kept
    BY <1>1 DEF KeepBaselineTotal
  <1>2. CASE ~(p.removed \/ ~p.mismatch \/ p.kept)
    <2>1. p \in BaselineRecord /\ p.revisions \in Seq(BaselineRevision)
      BY DEF BaselineOK, BaselineRecord
    <2>2. e \in BaselineRevision
      BY DEF BaselineRevision, MaybeScore
    <2>3. q = [p EXCEPT !.kept = TRUE, !.revisions = Append(p.revisions, e)]
      BY <1>2 DEF KeepBaselineTotal, Revised
    <2>4. /\ q \in BaselineRecord /\ q.score = p.score /\ q.mismatch = p.mismatch
          /\ q.removed = p.removed /\ q.revisions = Append(p.revisions, e)
      <3>1. Append(p.revisions, e) \in Seq(BaselineRevision)
        BY <2>1, <2>2
      <3> HIDE DEF e
      <3> QED
        BY <2>1, <2>3, <3>1 DEF BaselineRecord
    <2>5. e.kind = "kept"
      OBVIOUS
    <2> HIDE DEF q, e, n
    <2>6a. OneMore(p, q, e, n)
      BY <2>1, <2>2, <2>4, OneMoreIs DEF n
    <2>6b. Chained(q.revisions, Trail(q, "fixed"), p.score)
      BY <2>1, <2>2, <2>4, <2>5, ChainGoesOn DEF BaselineOK, Explained
    <2>6. /\ n \in Nat /\ \A kind : \A i \in Trail(p, kind) : i \in Nat /\ i < n
          /\ Trail(q, "kept") = Trail(p, "kept") \cup {n}
          /\ Trail(q, "fixed") = Trail(p, "fixed") /\ Trail(q, "removed") = Trail(p, "removed")
      BY <2>5, <2>6a DEF OneMore
    <2>7. \A i \in Trail(q, "fixed") : ~(n <= i)
      BY <2>6
    <2>8. Mismatched(q.score)
      BY <1>2, <2>4 DEF BaselineOK
    <2>9. Explained(q)
      BY <2>4, <2>6, <2>6b, <2>7, <2>8 DEF Explained, BaselineOK
    <2> QED
      BY <1>2, <2>4, <2>9 DEF BaselineOK, q
  <1> QED
    BY <1>1, <1>2

\* A removal is explained, and its Revision is the last.
Removal(p) ==
    LET e == p.revisions[Len(p.revisions)]
    IN  e \in BaselineRevision /\ e.kind = "removed"

\* What may be stored for a baseline point.
Storable(p) == BaselineOK(p) /\ (p.removed => Removal(p))

\* A removal is explained, and its entry is what the removal record keeps.
LEMMA RemoveOK ==
  ASSUME NEW p, BaselineOK(p), NEW g
  PROVE  LET q == RemoveBaselinePoint(p, g)
         IN  BaselineOK(q) /\ (q # p => Removal(q))
  <1> DEFINE e == [kind |-> "removed", old |-> p.score, new |-> None, dates |-> None]
             r == [p EXCEPT !.removed = TRUE, !.revisions = Append(p.revisions, e)]
             q == RemoveBaselinePoint(p, g)
  <1>1. CASE p.removed \/ g.status # "proposed"
    BY <1>1 DEF RemoveBaselinePoint
  <1>2. CASE ~(p.removed \/ g.status # "proposed")
    <2>1. e \in BaselineRevision /\ e.kind = "removed"
      BY DEF BaselineOK, BaselineRecord, BaselineRevision, MaybeScore
    <2>2. q = r
      BY <1>2 DEF RemoveBaselinePoint, Revised
    <2> HIDE DEF e
    <2>3. BaselineOK(r) /\ r.removed /\ r.revisions[Len(r.revisions)] = e
      BY <1>2, <2>1, RemovedOK
    <2> HIDE DEF r, q
    <2> QED
      BY <2>1, <2>2, <2>3 DEF Removal, q
  <1> QED
    BY <1>1, <1>2

-----------------------------------------------------------------------------
(* Data points *)

\* What RecordsAssumption says of the scores the screens offer.
LEMMA ScoresAre ==
  /\ ProbeTotal \in Nat /\ ProbeTotal # None
  /\ \A s \in Score : s \in Nat \X Nat /\ s = <<s[1], s[2]>>
  /\ SeedScore \in Score /\ ~Mismatched(SeedScore)
  <1>1. ProbeTotal \in Nat /\ ProbeTotal # None /\ \A s \in Score : s \in Nat \X Nat
    BY RecordsAssumption
  <1>2. \E s \in Score : ~Mismatched(s)
    BY RecordsAssumption DEF Mismatched
  <1>3. SeedScore \in Score /\ ~Mismatched(SeedScore)
    BY <1>2 DEF SeedScore
  <1> QED
    BY <1>1, <1>3

\* A point without a revision.
LEMMA FreshPointOK ==
  ASSUME NEW p \in PointRecord, p.revisions = << >>,
         p.election # None => D!OffBasis(p.basis, p.score)
  PROVE  PointOK(p)
  BY DEF PointOK, Chained

\* The elections of every topic are among the elections a point may carry.
LEMMA ElectionsAre ==
  None \in Elections /\ \A t \in Topic : Bound[t].elections \subseteq Elections
  <1> DEFINE E == UNION {Bound[t].elections : t \in Topic}
  <1>1. \A t \in Topic : Bound[t].elections \subseteq E
    OBVIOUS
  <1>2. Elections = E \cup {None}
    BY DEF Elections
  <1> HIDE DEF E
  <1> QED
    BY <1>1, <1>2

\* Every constructor of data-point.ts makes a sound point, in the state it names.
LEMMA NewPointsOK ==
  ASSUME NEW g \in Goal
  PROVE  /\ \A s \in Score, e \in Elections :
              LET p == D!CaptureScoredPoint(g, s, e) IN PointOK(p) /\ p.state = "scored"
         /\ \A s \in Score :
              LET p == D!BuildParaPendingPoint(g, s) IN PointOK(p) /\ p.state = "pending"
         /\ PointOK(D!RecordNoData(g)) /\ D!RecordNoData(g).state = "no_data"
         /\ PointOK(D!BookmarkForLater(g)) /\ D!BookmarkForLater(g).state = "queued"
         /\ PointOK(D!ParaNoDataPoint(g)) /\ D!ParaNoDataPoint(g).state = "no_data"
  <1>1. ASSUME NEW state \in {"scored", "no_data", "queued", "pending"},
               NEW scorer \in {"teacher", "para"}
        PROVE  /\ D!Point(state, scorer, g) \in PointRecord
               /\ D!Point(state, scorer, g).revisions = << >>
               /\ D!Point(state, scorer, g).election = None
               /\ D!Point(state, scorer, g).state = state
    BY ElectionsAre DEF D!Point, PointRecord, MaybePointScore
  <1>2. ASSUME NEW s \in Score, NEW e \in Elections
        PROVE  LET p == D!CaptureScoredPoint(g, s, e) IN PointOK(p) /\ p.state = "scored"
    <2> DEFINE n == D!Point("scored", "teacher", g)
               p == D!CaptureScoredPoint(g, s, e)
               off == D!OffBasis(ProbeTotal, s)
    <2>1. p = [n EXCEPT !.score = s, !.basis = ProbeTotal, !.mismatch = off,
                        !.election = IF off THEN e ELSE None]
      BY DEF D!CaptureScoredPoint
    <2>2. off \in BOOLEAN
      BY DEF D!OffBasis
    <2>3. n \in PointRecord /\ n.revisions = << >> /\ n.state = "scored"
      BY <1>1
    <2> HIDE DEF p, n, off
    <2>4. /\ p \in PointRecord /\ p.revisions = << >> /\ p.state = "scored"
          /\ p.score = s /\ p.basis = ProbeTotal /\ (p.election # None => off)
      BY <2>1, <2>2, <2>3, ElectionsAre DEF PointRecord, MaybePointScore
    <2>5. p.election # None => D!OffBasis(p.basis, p.score)
      BY <2>4 DEF off
    <2> QED
      BY <2>4, <2>5, FreshPointOK DEF p
  <1>3. ASSUME NEW s \in Score
        PROVE  LET p == D!BuildParaPendingPoint(g, s) IN PointOK(p) /\ p.state = "pending"
    <2> DEFINE n == D!Point("pending", "para", g)
               p == D!BuildParaPendingPoint(g, s)
               off == D!OffBasis(ProbeTotal, s)
    <2>1. p = [n EXCEPT !.score = s, !.basis = ProbeTotal, !.mismatch = off]
      BY DEF D!BuildParaPendingPoint
    <2>2. off \in BOOLEAN
      BY DEF D!OffBasis
    <2>3. /\ n \in PointRecord /\ n.revisions = << >> /\ n.state = "pending"
          /\ n.election = None
      BY <1>1
    <2> HIDE DEF p, n, off
    <2>4. /\ p \in PointRecord /\ p.revisions = << >> /\ p.state = "pending"
          /\ p.election = None
      BY <2>1, <2>2, <2>3 DEF PointRecord, MaybePointScore
    <2> QED
      BY <2>4, FreshPointOK DEF p
  <1>4. /\ PointOK(D!RecordNoData(g)) /\ D!RecordNoData(g).state = "no_data"
        /\ PointOK(D!BookmarkForLater(g)) /\ D!BookmarkForLater(g).state = "queued"
        /\ PointOK(D!ParaNoDataPoint(g)) /\ D!ParaNoDataPoint(g).state = "no_data"
    BY <1>1, FreshPointOK DEF D!RecordNoData, D!BookmarkForLater, D!ParaNoDataPoint
  <1> QED
    BY <1>2, <1>3, <1>4

\* An edit is explained, and leaves a point in its state.
LEMMA EditOK ==
  ASSUME NEW p, PointOK(p), NEW s \in Score
  PROVE  LET q == D!ApplyEdit(p, s)
         IN  /\ PointOK(q) /\ q.state = p.state
             /\ q.mismatch => D!OffBasis(q.basis, q.score)
  <1> DEFINE e == [old |-> p.score, new |-> s]
             q == D!ApplyEdit(p, s)
             E == [old : MaybePointScore, new : MaybePointScore]
  <1>1. p \in PointRecord /\ p.revisions \in Seq(E)
    BY DEF PointOK, PointRecord
  <1>2. e \in E /\ s \in MaybePointScore /\ None \in Elections /\ None \in MaybePointScore
    BY <1>1, ElectionsAre DEF PointRecord, MaybePointScore
  <1>3. Append(p.revisions, e) \in Seq(E)
    BY <1>1, <1>2
  <1>4. CASE p.state = "no_data"
    <2>1. q = [p EXCEPT !.score = None, !.basis = None, !.mismatch = FALSE, !.election = None,
                        !.revisions = Append(p.revisions, e)]
      BY <1>4 DEF D!ApplyEdit
    <2>2. q \in PointRecord /\ q.state = p.state /\ q.election = None /\ q.mismatch = FALSE
      <3> HIDE DEF q, e
      <3> QED
        BY <1>1, <1>2, <1>3, <2>1 DEF PointRecord
    <2> QED
      BY <1>4, <2>2 DEF PointOK
  <1>5. CASE p.state # "no_data"
    <2>1. q = [p EXCEPT !.score = s, !.mismatch = D!OffBasis(p.basis, s),
                        !.election = IF D!OffBasis(p.basis, s) THEN p.election ELSE None,
                        !.revisions = Append(p.revisions, e)]
      BY <1>5 DEF D!ApplyEdit
    <2>2. /\ q \in PointRecord /\ q.state = p.state /\ q.score = s /\ q.basis = p.basis
          /\ q.mismatch = D!OffBasis(q.basis, s)
          /\ q.election # None => D!OffBasis(q.basis, s)
          /\ q.revisions = Append(p.revisions, e)
      <3> HIDE DEF q, e
      <3>1. D!OffBasis(p.basis, s) \in BOOLEAN
        BY DEF D!OffBasis
      <3> QED
        BY <1>1, <1>2, <1>3, <2>1, <3>1 DEF PointRecord
    <2>3. e.old = p.score /\ e.new = s
      OBVIOUS
    <2> HIDE DEF q, e
    <2>4. /\ \A i \in 1 .. Len(p.revisions) : q.revisions[i] = p.revisions[i]
          /\ q.revisions[Len(p.revisions) + 1] = e
          /\ DOMAIN q.revisions = DOMAIN p.revisions \cup {Len(p.revisions) + 1}
          /\ DOMAIN p.revisions = 1 .. Len(p.revisions)
      BY <1>1, <1>3, <2>2
    <2>5. Chained(p.revisions, DOMAIN p.revisions, p.score)
      BY <1>5 DEF PointOK
    <2> DEFINE n == Len(p.revisions) + 1
    <2>6. Chained(q.revisions, DOMAIN q.revisions, s)
      <3>1. DOMAIN p.revisions \subseteq 1 .. Len(p.revisions)
        BY <2>4
      <3>2. Chained(q.revisions, DOMAIN p.revisions \cup {n}, q.revisions[n].new)
        <4> HIDE DEF E
        <4> QED
          BY <1>1, <2>3, <2>4, <2>5, <3>1, ChainGrows
      <3> QED
        BY <2>3, <2>4, <3>2
    <2> QED
      BY <2>2, <2>6 DEF PointOK, q
  <1> QED
    BY <1>4, <1>5

\* A fix with its election keeps a point sound and in its state (applyEdit, applyElection).
LEMMA FixedOK ==
  ASSUME NEW p, PointOK(p), NEW s \in Score, NEW c \in Elections
  PROVE  LET q == D!FixedPoint(p, s, c) IN PointOK(q) /\ q.state = p.state
  <1> DEFINE p1 == [p EXCEPT !.basis = IF p.basis = None THEN ProbeTotal ELSE p.basis]
             q1 == D!ApplyEdit(p1, s)
             q == D!FixedPoint(p, s, c)
  <1>1. p \in PointRecord
    BY DEF PointOK
  <1>2. /\ p1 \in PointRecord /\ p1.revisions = p.revisions /\ p1.score = p.score
        /\ p1.state = p.state /\ p1.election = p.election
        /\ p.basis # None => p1.basis = p.basis
    BY <1>1 DEF PointRecord
  <1>3. q = IF q1.mismatch /\ c # None THEN [q1 EXCEPT !.election = c] ELSE q1
    BY DEF D!FixedPoint
  <1> HIDE DEF p1
  <1>4. PointOK(p1)
    BY <1>1, <1>2 DEF PointOK, D!OffBasis
  <1>5. PointOK(q1) /\ q1.state = p.state /\ (q1.mismatch => D!OffBasis(q1.basis, q1.score))
    BY <1>2, <1>4, EditOK
  <1> HIDE DEF q1, q
  <1>6. CASE q1.mismatch /\ c # None
    <2>1. q1 \in PointRecord
      BY <1>5 DEF PointOK
    <2>2. /\ q \in PointRecord /\ q.state = q1.state /\ q.basis = q1.basis /\ q.score = q1.score
          /\ q.revisions = q1.revisions
      BY <1>3, <1>6, <2>1 DEF PointRecord
    <2> QED
      BY <1>5, <1>6, <2>2 DEF PointOK, q
  <1>7. CASE ~(q1.mismatch /\ c # None)
    BY <1>3, <1>5, <1>7 DEF q
  <1> QED
    BY <1>6, <1>7

\* A validated point says what it said before.
LEMMA ValidatedOK ==
  ASSUME NEW p, PointOK(p)
  PROVE  LET q == D!ValidateParaPoint(p)
         IN  PointOK(q) /\ Says(q) = Says(p) /\ q.state # "pending"
  <1> DEFINE q == D!ValidateParaPoint(p)
  <1>1. q = [p EXCEPT !.state = IF p.state = "pending" THEN "scored" ELSE p.state,
                      !.validated = TRUE]
    BY DEF D!ValidateParaPoint
  <1> HIDE DEF q
  <1>2. /\ q \in PointRecord /\ q.revisions = p.revisions /\ q.score = p.score
        /\ q.election = p.election /\ q.basis = p.basis
        /\ q.state = IF p.state = "pending" THEN "scored" ELSE p.state
    BY <1>1 DEF PointOK, PointRecord
  <1> QED
    BY <1>2 DEF PointOK, Says, q

-----------------------------------------------------------------------------
(* Goals *)

\* Minted identities are positive numbers, and none of them is None.
LEMMA IdsAre == Id \subseteq Nat \ {0} /\ None \notin Id
  BY RecordsAssumption DEF Id, Topic

\* The baseline of an adoption is not empty.
LEMMA AdoptionHasABaseline == DeriveBaseline(Gathered) # << >>
  <1> DEFINE f == DeriveBaseline(Gathered)
  <1>1. NewBaselinePoint(SeedScore).removed = FALSE
        /\ NewBaselinePoint(SeedScore).mismatch = FALSE
    BY ScoresAre DEF NewBaselinePoint
  <1>2. 1 \in DOMAIN Gathered /\ Gathered[1] = NewBaselinePoint(SeedScore)
    BY RecordsAssumption DEF Gathered
  <1>3. 1 \in DOMAIN f
    BY <1>1, <1>2 DEF DeriveBaseline, IsCountedBaselinePoint, NeedsTotalDecision
  <1> HIDE DEF f
  <1>4. DOMAIN << >> = {}
    OBVIOUS
  <1> QED
    BY <1>3, <1>4 DEF f

\* What the gate lets through is a whole goal.
LEMMA AssembledOK ==
  ASSUME NEW form \in Form, FormReady(form), NEW s \in Id
  PROVE  GoalOK(AssembleGoal(form, s)) /\ AssembleGoal(form, s).student = s
  <1> DEFINE g == AssembleGoal(form, s)
             h == AssembleGoal(form, None)
  <1>1. /\ g.revisions = << >> /\ g.student = s /\ g.gaps = form.gaps
        /\ g.label = UsableGoalLabel(form.label)
        /\ g.status = IF form.path = "adopt" THEN "active" ELSE "proposed"
        /\ g.source = IF form.path = "adopt" THEN ParseBaseline(form.baseline) ELSE None
    BY DEF AssembleGoal
  <1>0. h.gaps = g.gaps /\ h.source = g.source
    BY DEF AssembleGoal
  <1>2. g \in GoalRecord
    BY DEF AssembleGoal, GoalRecord, Labels, UsableGoalLabel, ParseBaseline
  <1> HIDE DEF g, h
  <1>3. "baseline" \notin form.gaps
    BY CaseloadAssumption
  <1>6. \A kind : Trail(g, kind) = {} /\ Chained(g.revisions, Trail(g, kind), g.label)
    BY <1>1 DEF Trail, Chained
  <1>4. CASE form.path = "adopt"
    <2>1. Missing(h) = {} /\ LabelReady(form.path, form.label)
      BY <1>4 DEF FormReady, h
    <2>2. g.gaps = {} /\ g.source # None
      BY <1>0, <1>1, <2>1 DEF Missing
    <2>3. g.source = "eval"
      BY <1>1, <1>4, <2>2 DEF ParseBaseline
    <2>4. g.label # None
      BY <1>1, <1>4, <2>1 DEF LabelReady
    <2> QED
      BY <1>1, <1>2, <1>4, <1>6, <2>2, <2>3, <2>4 DEF GoalOK, g
  <1>5. CASE form.path # "adopt"
    <2>1. Missing(h) \subseteq {"baseline"}
      BY <1>5 DEF FormReady, DraftReady, h
    <2>2. g.gaps = {}
      BY <1>0, <1>1, <1>3, <2>1 DEF Missing
    <2> QED
      BY <1>1, <1>2, <1>5, <1>6, <2>2 DEF GoalOK, g
  <1> QED
    BY <1>4, <1>5

\* An adopted draft is a whole goal of the same student (adoptGoal).
LEMMA AdoptedOK ==
  ASSUME NEW g, GoalOK(g), CanAdopt(g, Gathered)
  PROVE  GoalOK(AdoptGoal(g, Gathered)) /\ AdoptGoal(g, Gathered).student = g.student
  <1> DEFINE e == [kind |-> "adopted", old |-> None, new |-> None]
             q == AdoptGoal(g, Gathered)
             n == Len(g.revisions) + 1
  <1>1. g \in GoalRecord /\ g.revisions \in Seq(GoalRevision)
    BY DEF GoalOK, GoalRecord
  <1>2. e \in GoalRevision
    BY DEF GoalRevision, Labels
  <1>3. Append(g.revisions, e) \in Seq(GoalRevision)
    BY <1>1, <1>2
  <1>4. q = [g EXCEPT !.status = "active", !.baseline = DeriveBaseline(Gathered),
                      !.revisions = Append(g.revisions, e)]
    BY DEF AdoptGoal
  <1>5. e.kind = "adopted"
    OBVIOUS
  <1> HIDE DEF e, q, n
  <1>6. /\ q \in GoalRecord /\ q.status = "active" /\ q.baseline = DeriveBaseline(Gathered)
        /\ q.revisions = Append(g.revisions, e) /\ q.label = g.label /\ q.gaps = g.gaps
        /\ q.source = g.source /\ q.student = g.student
    BY <1>1, <1>3, <1>4 DEF GoalRecord
  <1>7. OneMore(g, q, e, n)
    BY <1>1, <1>2, <1>6, OneMoreIs DEF n
  <1>8. /\ g.status = "proposed" /\ g.label # None /\ Trail(g, "adopted") = {}
        /\ g.source = None /\ g.gaps = {}
    BY DEF CanAdopt, GoalOK
  <1>9. Trail(q, "adopted") = {n}
    BY <1>5, <1>7, <1>8 DEF OneMore
  <1>10. Chained(q.revisions, Trail(q, "label"), g.label)
    BY <1>1, <1>2, <1>5, <1>6, ChainGoesOn DEF GoalOK
  <1> QED
    BY <1>6, <1>8, <1>9, <1>10, AdoptionHasABaseline DEF GoalOK, q

\* A relabelled goal is a whole goal of the same student (setGoalLabel).
LEMMA RelabelledOK ==
  ASSUME NEW g, GoalOK(g), NEW label \in Labels
  PROVE  GoalOK(SetGoalLabel(g, label)) /\ SetGoalLabel(g, label).student = g.student
  <1> DEFINE e == [kind |-> "label", old |-> g.label, new |-> label]
             q == SetGoalLabel(g, label)
             n == Len(g.revisions) + 1
  <1>1. CASE label = g.label
    BY <1>1 DEF SetGoalLabel
  <1>2. CASE label # g.label
    <2>1. g \in GoalRecord /\ g.revisions \in Seq(GoalRevision)
      BY DEF GoalOK, GoalRecord
    <2>2. e \in GoalRevision
      BY <2>1 DEF GoalRevision, GoalRecord
    <2>3. Append(g.revisions, e) \in Seq(GoalRevision)
      BY <2>1, <2>2
    <2>4. q = [g EXCEPT !.label = label, !.revisions = Append(g.revisions, e)]
      BY <1>2 DEF SetGoalLabel
    <2>5. e.kind = "label" /\ e.old = g.label /\ e.new = label
      OBVIOUS
    <2> HIDE DEF e, q, n
    <2>6. /\ q \in GoalRecord /\ q.status = g.status /\ q.baseline = g.baseline
          /\ q.revisions = Append(g.revisions, e) /\ q.label = label /\ q.gaps = g.gaps
          /\ q.source = g.source /\ q.student = g.student
      BY <2>1, <2>3, <2>4 DEF GoalRecord
    <2>7. OneMore(g, q, e, n)
      BY <2>1, <2>2, <2>6, OneMoreIs DEF n
    <2>8. Trail(q, "adopted") = Trail(g, "adopted") /\ Trail(q, "label") # {}
      BY <2>5, <2>7 DEF OneMore
    <2>9. Chained(q.revisions, Trail(q, "label"), label)
      <3>1. Chained(g.revisions, Trail(g, "label"), g.label)
        BY DEF GoalOK
      <3>2. Chained(q.revisions, Trail(q, "label"), e.new)
        BY <2>1, <2>2, <2>5, <2>6, <3>1, ChainGoesOn
      <3> QED
        BY <2>5, <3>2
    <2> QED
      BY <2>6, <2>8, <2>9 DEF GoalOK, q
  <1> QED
    BY <1>1, <1>2

-----------------------------------------------------------------------------
(* Reading *)

\* A key that a map has is read from one of the map's items.
LEMMA GetIs ==
  ASSUME NEW R, Replicas(R), NEW d \in Device, NEW m, m.items \subseteq R[d].items,
         NEW k \in Keys(m)
  PROVE  \E x \in m.items : x.key = k /\ x.val = Get(m, k)
  <1>1. LastItem(m, k) \in m.items /\ LastItem(m, k).key = k
    BY LastItemIs
  <1> QED
    BY <1>1 DEF Get

\* Only data points are ever taken out of a map.
OnlyPointsDie(m) == \A e \in m.dead : e[1][1] = "point"

\* Nothing but data points is ever deleted: any other key written is there to read.
LEMMA HasIs ==
  ASSUME NEW m, OnlyPointsDie(m), NEW k, k[1] # "point"
  PROVE  Has(m, k) <=> k \in Keys(m)
  <1>1. \A path : <<k, path>>[1] = k
    OBVIOUS
  <1> QED
    BY <1>1 DEF Has, OnlyPointsDie

\* What is read of a baseline point is explained, and a removal is known by its marker.
LEMMA ReadIs ==
  ASSUME NEW R, Replicas(R), NEW d \in Device, NEW m, m.items \subseteq R[d].items,
         AllFit(m), OnlyPointsDie(m), NEW b, <<"baseline", b>> \in Keys(m)
  PROVE  /\ BaselineOK(ReadBaselinePoint(m, b))
         /\ ReadBaselinePoint(m, b).removed <=> <<"removal", b>> \in Keys(m)
  <1> DEFINE p == Get(m, <<"baseline", b>>)
             e == Get(m, <<"removal", b>>)
  <1>1. BaselineOK(p) /\ (p.removed => <<"removal", b>> \in Keys(m))
    <2>1. PICK x \in m.items : x.key = <<"baseline", b>> /\ x.val = p
      BY GetIs
    <2>2. Fits(m, x.key, x.val)
      BY DEF AllFit
    <2> QED
      BY <2>1, <2>2 DEF Fits
  <1>2. Removed(m, b) <=> <<"removal", b>> \in Keys(m)
    BY HasIs DEF Removed
  <1>3. ASSUME <<"removal", b>> \in Keys(m) PROVE e \in BaselineRevision /\ e.kind = "removed"
    <2>1. PICK x \in m.items : x.key = <<"removal", b>> /\ x.val = e
      BY <1>3, GetIs
    <2>2. Fits(m, x.key, x.val)
      BY DEF AllFit
    <2> QED
      BY <2>1, <2>2 DEF Fits
  <1>4. ReadBaselinePoint(m, b) =
          IF Removed(m, b) /\ ~p.removed
          THEN [p EXCEPT !.removed = TRUE, !.revisions = Append(p.revisions, e)]
          ELSE p
    BY DEF ReadBaselinePoint
  <1> HIDE DEF p, e
  <1>5. CASE Removed(m, b)
    <2>1. e \in BaselineRevision /\ e.kind = "removed"
      BY <1>2, <1>3, <1>5
    <2>2. /\ p.removed => ReadBaselinePoint(m, b) = p
          /\ ~p.removed => ReadBaselinePoint(m, b) =
                [p EXCEPT !.removed = TRUE, !.revisions = Append(p.revisions, e)]
      BY <1>4, <1>5
    <2>3. CASE p.removed
      BY <1>1, <1>2, <1>5, <2>2, <2>3
    <2>4. CASE ~p.removed
      <3>1. LET q == [p EXCEPT !.removed = TRUE, !.revisions = Append(p.revisions, e)]
            IN  BaselineOK(q) /\ q.removed
        BY <1>1, <2>1, <2>4, RemovedOK
      <3> QED
        BY <1>2, <1>5, <2>2, <2>4, <3>1
    <2> QED
      BY <2>3, <2>4
  <1>6. CASE ~Removed(m, b)
    BY <1>1, <1>2, <1>4, <1>6 DEF BaselineOK, BaselineRecord
  <1> QED
    BY <1>5, <1>6

-----------------------------------------------------------------------------
(* Writes to the master document *)

\* Device d's map has become m, by writing these values under their keys.
Grew(R, d, m, S) ==
    /\ IsMap(m) /\ Replicas([R EXCEPT ![d] = m])
    /\ R[d].items \subseteq m.items
    /\ \A x \in m.items : x \in R[d].items \/ <<x.key, x.val>> \in S
    /\ \A s \in S : s[1] \in Keys(m)

\* A map as it was has grown by nothing.
LEMMA GrewNothing ==
  ASSUME NEW R, Replicas(R), NEW d \in Device, NEW m, IsMap(m), m.items = R[d].items
  PROVE  Grew(R, d, m, {})
  <1>1. IsFiniteSet(m.items) /\ m.items \subseteq UNION {R[e].items : e \in Device}
    BY DEF Replicas
  <1>2. Replicas([R EXCEPT ![d] = m])
    BY <1>1, GrowKeepsReplicas
  <1> QED
    BY <1>2 DEF Grew

\* One more put is one more key written, and no deletion.
LEMMA GrewByPut ==
  ASSUME NEW R, Replicas(R), NEW d \in Device, NEW m, NEW S, Grew(R, d, m, S), NEW k, NEW v
  PROVE  Grew(R, d, Put(m, d, k, v), S \cup {<<k, v>>}) /\ Put(m, d, k, v).dead = m.dead
  <1> DEFINE Q == [R EXCEPT ![d] = m]
             n == Put(m, d, k, v)
  <1>1. d \in Nat
    BY RecordsAssumption
  <1>2. Replicas(Q) /\ Q[d] = m /\ [Q EXCEPT ![d] = n] = [R EXCEPT ![d] = n]
    BY DEF Grew, Replicas
  <1> HIDE DEF Q
  <1>3. Replicas([R EXCEPT ![d] = n])
    BY <1>1, <1>2, PutKeepsReplicas
  <1>4. /\ IsMap(n) /\ n.items = m.items \cup {NewItem(m, d, k, v)} /\ n.dead = m.dead
        /\ Keys(n) = Keys(m) \cup {k}
    BY PutIs DEF Grew
  <1>5. NewItem(m, d, k, v).key = k /\ NewItem(m, d, k, v).val = v
    BY DEF NewItem
  <1> HIDE DEF n
  <1> QED
    BY <1>3, <1>4, <1>5 DEF Grew, n

\* More keys beside it leave a value fit.
LEMMA FitsGrows ==
  ASSUME NEW m, NEW n, Keys(m) \subseteq Keys(n), NEW k, NEW v, Fits(m, k, v)
  PROVE  Fits(n, k, v)
  BY DEF Fits

\* More items are more keys.
LEMMA ItemsGrowKeysGrow ==
  ASSUME NEW m, NEW n, m.items \subseteq n.items
  PROVE  Keys(m) \subseteq Keys(n)
  BY DEF Keys

\* A write that fits.
FitWrite(R, d, m, S) == Grew(R, d, m, S) /\ \A s \in S : Fits(m, s[1], s[2])

\* One that is not about a data point.
OtherWrite(R, d, m) ==
    /\ m.dead = R[d].dead
    /\ \E S : FitWrite(R, d, m, S) /\ \A s \in S : s[1][1] # "point"

\* The put of a data point writes that point alone.
LEMMA PointWriteFits ==
  ASSUME NEW R, Replicas(R), NEW d \in Device, NEW m, Grew(R, d, m, {}), NEW i, NEW p
  PROVE  /\ FitWrite(R, d, PutPoint(m, d, i, p), {<<<<"point", i>>, p>>})
         /\ PutPoint(m, d, i, p).dead = m.dead
  <1> DEFINE k == <<"point", i>>
             n == Put(m, d, k, p)
  <1>1. Grew(R, d, n, {} \cup {<<k, p>>}) /\ n.dead = m.dead
    BY GrewByPut
  <1>2. {} \cup {<<k, p>>} = {<<k, p>>}
    OBVIOUS
  <1>3. Fits(n, k, p)
    BY DEF Fits
  <1>4. PutPoint(m, d, i, p) = n
    BY DEF PutPoint
  <1> HIDE DEF k, n
  <1>5. \A s \in {<<k, p>>} : Fits(n, s[1], s[2])
    BY <1>3
  <1>6. FitWrite(R, d, n, {<<k, p>>})
    BY <1>1, <1>2, <1>5 DEF FitWrite
  <1> QED
    BY <1>1, <1>4, <1>6 DEF k

\* A mutator that gives up has written nothing.
LEMMA UnwrittenFits ==
  ASSUME NEW R, Replicas(R), NEW d \in Device
  PROVE  OtherWrite(R, d, R[d])
  <1>1. IsMap(R[d])
    BY DEF Replicas, IsMap
  <1>2. Grew(R, d, R[d], {})
    BY <1>1, GrewNothing
  <1> QED
    BY <1>2 DEF OtherWrite, FitWrite

\* Writing a sound baseline point, with its removal record, leaves every value fit.
LEMMA BaselineWriteFits ==
  ASSUME NEW R, Replicas(R), NEW d \in Device, NEW b, NEW p, Storable(p)
  PROVE  OtherWrite(R, d, UpsertBaselinePoint(R[d], d, b, p))
  <1> DEFINE k == <<"baseline", b>>
             n == Put(R[d], d, k, p)
             r == <<"removal", b>>
             e == p.revisions[Len(p.revisions)]
             o == Put(n, d, r, e)
  <1>1. IsMap(R[d]) /\ Grew(R, d, R[d], {})
    <2>1. IsMap(R[d])
      BY DEF Replicas, IsMap
    <2> QED
      BY <2>1, GrewNothing
  <1>2. Grew(R, d, n, {<<k, p>>}) /\ n.dead = R[d].dead
    <2>1. Grew(R, d, n, {} \cup {<<k, p>>}) /\ n.dead = R[d].dead
      BY <1>1, GrewByPut
    <2>2. {} \cup {<<k, p>>} = {<<k, p>>}
      OBVIOUS
    <2> QED
      BY <2>1, <2>2
  <1>3. Grew(R, d, o, {<<k, p>>} \cup {<<r, e>>}) /\ o.dead = n.dead
    <2> HIDE DEF n, k, r, e
    <2> QED
      BY <1>2, GrewByPut
  <1>4. UpsertBaselinePoint(R[d], d, b, p) = IF p.removed THEN o ELSE n
    BY DEF UpsertBaselinePoint
  <1>5. k[1] = "baseline" /\ k[2] = b /\ r[1] = "removal" /\ r[2] = b
    OBVIOUS
  <1> HIDE DEF n, o, e, k
  <1>6. CASE p.removed
    <2>1. r \in Keys(o)
      <3>1. <<r, e>> \in {<<k, p>>} \cup {<<r, e>>}
        OBVIOUS
      <3> QED
        BY <1>3, <3>1 DEF Grew
    <2>2. Fits(o, k, p)
      BY <1>5, <2>1 DEF Fits, Storable
    <2>3. Fits(o, r, e)
      BY <1>5, <1>6 DEF Fits, Storable, Removal, e
    <2>4. FitWrite(R, d, o, {<<k, p>>} \cup {<<r, e>>})
      BY <1>3, <2>2, <2>3 DEF FitWrite
    <2>5. \A s \in {<<k, p>>} \cup {<<r, e>>} : s[1][1] # "point"
      BY <1>5
    <2> QED
      BY <1>2, <1>3, <1>4, <1>6, <2>4, <2>5 DEF OtherWrite
  <1>7. CASE ~p.removed
    <2>1. Fits(n, k, p)
      BY <1>5, <1>7 DEF Fits, Storable
    <2>2. FitWrite(R, d, n, {<<k, p>>})
      BY <1>2, <2>1 DEF FitWrite
    <2>3. \A s \in {<<k, p>>} : s[1][1] # "point"
      BY <1>5
    <2> QED
      BY <1>2, <1>4, <1>7, <2>2, <2>3 DEF OtherWrite
  <1> QED
    BY <1>6, <1>7

\* An audited edit of what is read stores what the rules return, or nothing.
LEMMA EditWriteFits ==
  ASSUME NEW R, Replicas(R), NEW d \in Device, NEW b, NEW p,
         p # ReadBaselinePoint(R[d], b) => Storable(p)
  PROVE  OtherWrite(R, d, EditBaselinePoint(R[d], d, b, p))
  BY UnwrittenFits, BaselineWriteFits DEF EditBaselinePoint

\* Writing a whole goal beside its student and its probe leaves every value fit.
LEMMA GoalWriteFits ==
  ASSUME NEW R, Replicas(R), NEW d \in Device, NEW i, NEW g,
         i \in Id => /\ GoalOK(g)
                     /\ <<"student", g.student>> \in Keys(R[d]) /\ <<"probe", i>> \in Keys(R[d])
  PROVE  OtherWrite(R, d, UpsertGoal(R[d], d, i, g))
  <1> DEFINE k == <<"goal", i>>
             n == Put(R[d], d, k, g)
  <1>1. IsMap(R[d]) /\ Grew(R, d, R[d], {})
    <2>1. IsMap(R[d])
      BY DEF Replicas, IsMap
    <2> QED
      BY <2>1, GrewNothing
  <1>2. Grew(R, d, n, {} \cup {<<k, g>>}) /\ n.dead = R[d].dead
    BY <1>1, GrewByPut
  <1>3. k[1] = "goal" /\ k[2] = i
    OBVIOUS
  <1>4. Keys(R[d]) \subseteq Keys(n)
    BY <1>1, PutIs
  <1>5. UpsertGoal(R[d], d, i, g) = n
    BY DEF UpsertGoal
  <1> HIDE DEF n, k
  <1>6. Fits(n, k, g)
    BY <1>3, <1>4 DEF Fits
  <1>7. FitWrite(R, d, n, {} \cup {<<k, g>>}) /\ \A s \in {} \cup {<<k, g>>} : s[1][1] # "point"
    BY <1>2, <1>3, <1>6 DEF FitWrite
  <1> QED
    BY <1>2, <1>5, <1>7 DEF OtherWrite

\* A new goal comes with its probe, and with its student unless the roster has one.
LEMMA NewGoalFits ==
  ASSUME NEW R, Replicas(R), NEW d \in Device, NEW i \in Id, NEW g, GoalOK(g), NEW initials,
         g.student = i \/ <<"student", g.student>> \in Keys(R[d])
  PROVE  OtherWrite(R, d, CreateGoalMutator(R[d], d, i, g, initials))
  <1> DEFINE sk == <<"student", i>>
             gk == <<"goal", i>>
             pk == <<"probe", i>>
             a == IF g.student = i THEN Put(R[d], d, sk, initials) ELSE R[d]
             A == IF g.student = i THEN {<<sk, initials>>} ELSE {}
             n == Put(a, d, gk, g)
             o == Put(n, d, pk, i)
             S == (A \cup {<<gk, g>>}) \cup {<<pk, i>>}
  <1>1. IsMap(R[d]) /\ Grew(R, d, R[d], {})
    <2>1. IsMap(R[d])
      BY DEF Replicas, IsMap
    <2> QED
      BY <2>1, GrewNothing
  <1>2. Grew(R, d, a, A) /\ a.dead = R[d].dead /\ Keys(R[d]) \subseteq Keys(a)
    <2>1. CASE g.student = i
      <3>1. /\ Grew(R, d, Put(R[d], d, sk, initials), {} \cup {<<sk, initials>>})
            /\ Put(R[d], d, sk, initials).dead = R[d].dead
        BY <1>1, GrewByPut
      <3>2. {} \cup {<<sk, initials>>} = A /\ a = Put(R[d], d, sk, initials)
        BY <2>1
      <3>3. Keys(R[d]) \subseteq Keys(Put(R[d], d, sk, initials))
        BY <1>1, PutIs
      <3> HIDE DEF a, A
      <3> QED
        BY <3>1, <3>2, <3>3
    <2>2. CASE g.student # i
      BY <1>1, <2>2
    <2> QED
      BY <2>1, <2>2
  <1>3. <<"student", g.student>> \in Keys(a)
    <2>1. CASE g.student = i
      <3>1. <<sk, initials>> \in A /\ <<sk, initials>>[1] = sk
        BY <2>1
      <3>2. sk \in Keys(a)
        BY <1>2, <3>1 DEF Grew
      <3> QED
        BY <2>1, <3>2
    <2>2. CASE g.student # i
      BY <1>2, <2>2
    <2> QED
      BY <2>1, <2>2
  <1> HIDE DEF a, A
  <1>4. Grew(R, d, n, A \cup {<<gk, g>>}) /\ n.dead = a.dead /\ Keys(a) \subseteq Keys(n)
    <2>1. Keys(a) \subseteq Keys(n)
      BY <1>2, PutIs DEF Grew
    <2> QED
      BY <1>2, <2>1, GrewByPut
  <1> HIDE DEF n
  <1>5. Grew(R, d, o, S) /\ o.dead = n.dead /\ Keys(o) = Keys(n) \cup {pk}
    <2>1. Keys(o) = Keys(n) \cup {pk}
      BY <1>4, PutIs DEF Grew
    <2> QED
      BY <1>4, <2>1, GrewByPut
  <1> HIDE DEF o
  <1>6. CreateGoalMutator(R[d], d, i, g, initials) = o
    BY DEF CreateGoalMutator, UpsertStudent, UpsertGoal, UpsertProbe, o, n, a
  <1>7. \A s \in S : s = <<sk, initials>> \/ s = <<gk, g>> \/ s = <<pk, i>>
    BY DEF A
  <1>8. /\ Fits(o, sk, initials) /\ Fits(o, pk, i) /\ Fits(o, gk, g)
        /\ sk[1] # "point" /\ pk[1] # "point" /\ gk[1] # "point"
    BY <1>3, <1>4, <1>5 DEF Fits
  <1> HIDE DEF S, sk, gk, pk
  <1>9. \A s \in S : Fits(o, s[1], s[2]) /\ s[1][1] # "point"
    BY <1>7, <1>8
  <1>10. FitWrite(R, d, o, S)
    BY <1>5, <1>9 DEF FitWrite
  <1> QED
    BY <1>2, <1>4, <1>5, <1>6, <1>9, <1>10 DEF OtherWrite

\* A write that fits keeps what is known of the master document.
LEMMA WriteKeepsMaster ==
  ASSUME MasterInv, NEW d \in Device, NEW m, NEW S, FitWrite(doc, d, m, S),
         doc' = [doc EXCEPT ![d] = m], relay' = relay, shown' = shown
  PROVE  /\ MasterInv'
         /\ \A e \in Device : doc[e].items \subseteq doc'[e].items
  <1>1. /\ DOMAIN doc = Device /\ doc'[d] = m /\ \A e \in Device : e # d => doc'[e] = doc[e]
        /\ Replicas(doc')
    BY DEF MasterInv, Replicas, FitWrite, Grew
  <1>2. \A e \in Device : doc[e].items \subseteq doc'[e].items
    BY <1>1 DEF FitWrite, Grew
  <1>3. AllFit(m)
    <2> SUFFICES ASSUME NEW x \in m.items PROVE Fits(m, x.key, x.val)
      BY DEF AllFit
    <2>1. CASE x \in doc[d].items
      <3>1. Fits(doc[d], x.key, x.val)
        BY <2>1 DEF MasterInv, AllFit
      <3>2. Keys(doc[d]) \subseteq Keys(m)
        BY ItemsGrowKeysGrow DEF FitWrite, Grew
      <3> QED
        BY <3>1, <3>2, FitsGrows
    <2>2. CASE <<x.key, x.val>> \in S
      BY <2>2 DEF FitWrite
    <2> QED
      BY <2>1, <2>2 DEF FitWrite, Grew
  <1>4. \A e \in Device : AllFit(doc'[e])
    BY <1>1, <1>3 DEF MasterInv
  <1>5. UNION {doc[e].items : e \in Device} \subseteq UNION {doc'[e].items : e \in Device}
    BY <1>2
  <1>6. /\ DOMAIN relay' = {"items", "dead"} /\ IsFiniteSet(relay'.items) /\ AllFit(relay')
        /\ relay'.items \subseteq UNION {doc'[e].items : e \in Device}
    BY <1>5 DEF MasterInv, Written
  <1>7. DOMAIN shown' = Device /\ \A e \in Device : shown'[e].items \subseteq doc'[e].items
    BY <1>2 DEF MasterInv
  <1> QED
    BY <1>1, <1>2, <1>4, <1>6, <1>7 DEF MasterInv, Written

-----------------------------------------------------------------------------
(* Steps *)

\* The copies there are of a data point.
LEMMA RecordedIs ==
  ASSUME NEW i, NEW p
  PROVE  p \in Recorded(i) <=>
           \E d \in Device : \E x \in doc[d].items : x.key = <<"point", i>> /\ x.val = p
  BY DEF Recorded, Written

\* Pending(i), spelled out.
LEMMA PendingIs ==
  ASSUME NEW i, NEW p
  PROVE  p \in Pending(i) <=> \E x \in ParaWritten : x.key = <<"pending", i>> /\ x.val = p
  BY DEF Pending

\* A step that makes at most one copy of a data point, of one there is or of a new one.
Copying(i0, p0) ==
    /\ \A i \in Id : \A p \in Copies(i)' : p \in Copies(i) \/ (i = i0 /\ p = p0)
    /\ i0 \in Id => /\ PointOK(p0)
                    /\ \/ \E q \in Copies(i0) : Says(q) = Says(p0)
                       \/ i0 = minted + 1 /\ minted' = i0
    /\ minted \in Nat /\ minted' \in Nat /\ minted <= minted'

\* Copies of one more point that say what its copies say, or of a new one, disturb nothing.
LEMMA CopiesGrow ==
  ASSUME CopiesInv, NEW i0, NEW p0, Copying(i0, p0)
  PROVE  CopiesInv'
  <1> SUFFICES ASSUME NEW i \in Id
               PROVE  /\ \A p, q \in Copies(i)' : Says(p) = Says(q)
                      /\ \A p \in Copies(i)' : PointOK(p)
                      /\ Copies(i)' # {} => i <= minted'
    BY DEF CopiesInv
  <1> USE DEF Copying
  <1>0. i \in Nat
    BY IdsAre
  <1>1. CASE i # i0
    BY <1>0, <1>1 DEF CopiesInv
  <1>2. CASE i = i0
    <2>1. CASE \E q \in Copies(i0) : Says(q) = Says(p0)
      BY <1>0, <1>2, <2>1 DEF CopiesInv
    <2>2. CASE i0 = minted + 1 /\ minted' = i0
      <3>1. Copies(i) = {}
        BY <1>0, <1>2, <2>2 DEF CopiesInv
      <3> QED
        BY <1>0, <1>2, <2>2, <3>1
    <2> QED
      BY <1>2, <2>1, <2>2
  <1> QED
    BY <1>1, <1>2

\* A placeholder that may go may go ever after.
LEMMA RemovableStays ==
  ASSUME NEW e, Removable(e), \A i \in Id : Recorded(i) \subseteq Recorded(i)'
  PROVE  Removable(e)'
  BY DEF Removable

\* A step outside the two documents at rest makes no copy that was not there.
LEMMA ScreenStepKeeps ==
  ASSUME RecordsInv, UNCHANGED <<doc, relay, minted>>, ScreensInv',
         DOMAIN shown' = Device, \A d \in Device : shown'[d].items \subseteq doc[d].items,
         \A i \in Id : Copies(i)' \subseteq Copies(i),
         \A x \in ParaWritten' : x.key[1] = "pending" => x \in ParaWritten
  PROVE  RecordsInv'
  <1>1. MasterInv'
    BY DEF RecordsInv, MasterInv, Written
  <1>2. \A i \in Id : Recorded(i)' = Recorded(i)
    BY DEF Recorded, Written
  <1>3. CopiesInv'
    <2>1. 0 \notin Id /\ minted \in Nat /\ minted <= minted
      BY IdsAre DEF RecordsInv, ScreensInv
    <2>2. Copying(0, 0)
      BY <2>1 DEF Copying
    <2> QED
      BY <2>2, CopiesGrow DEF RecordsInv, PointsInv
  <1>4. RecordedInv' /\ DeadInv'
    BY <1>2 DEF RecordsInv, PointsInv, RecordedInv, DeadInv, Removable
  <1>5. PendingInv'
    BY DEF RecordsInv, PointsInv, PendingInv
  <1> QED
    BY <1>1, <1>3, <1>4, <1>5 DEF RecordsInv, PointsInv

\* What a write to the master document leaves alone.
Elsewhere == UNCHANGED <<topic, relay, shown, prelay, sheet, paraFix, pdoc, pside, disk, queue>>

\* A write to the master document on device d, of at most one data point.
Writing(d, m, S, i0, p0) ==
    /\ FitWrite(doc, d, m, S)
    /\ \A e \in m.dead : Removable(e)
    /\ \A s \in S : s[1][1] = "point" => s[1] = <<"point", i0>> /\ s[2] = p0
    /\ i0 \in Id => /\ PointOK(p0) /\ p0.state # "pending"
                    /\ \/ \E q \in Copies(i0) : Says(q) = Says(p0)
                       \/ i0 = minted + 1 /\ minted' = i0
    /\ minted' \in Nat /\ minted <= minted'
    /\ doc' = [doc EXCEPT ![d] = m] /\ Elsewhere

DocsGrow == \A e \in Device : doc[e].items \subseteq doc'[e].items

\* A write of the master document that fits keeps the invariant, and the document grows.
LEMMA WriteKeeps ==
  ASSUME RecordsInv, NEW d \in Device, NEW m, NEW S, NEW i0, NEW p0, Writing(d, m, S, i0, p0)
  PROVE  RecordsInv' /\ DocsGrow
  <1> USE DEF Writing
  <1>1. MasterInv' /\ \A e \in Device : doc[e].items \subseteq doc'[e].items
    BY WriteKeepsMaster DEF RecordsInv, Elsewhere
  <1>2. /\ DOMAIN doc = Device /\ doc'[d] = m /\ \A e \in Device : e # d => doc'[e] = doc[e]
    BY DEF RecordsInv, MasterInv, Replicas
  <1>3. \A i \in Id : \A p \in Recorded(i)' : p \in Recorded(i) \/ (i = i0 /\ p = p0)
    <2> SUFFICES ASSUME NEW i \in Id, NEW p \in Recorded(i)', p \notin Recorded(i)
                 PROVE  i = i0 /\ p = p0
      OBVIOUS
    <2>1. PICK e \in Device : \E x \in doc'[e].items : x.key = <<"point", i>> /\ x.val = p
      BY DEF Recorded, Written
    <2>2. PICK x \in doc'[e].items : x.key = <<"point", i>> /\ x.val = p
      BY <2>1
    <2>3. x \notin doc[e].items
      BY <2>2, RecordedIs
    <2>4. e = d /\ <<x.key, x.val>> \in S
      BY <1>2, <2>3 DEF FitWrite, Grew
    <2>5. x.key[1] = "point"
      BY <2>2
    <2>6. x.key = <<"point", i0>> /\ x.val = p0
      BY <2>4, <2>5
    <2> QED
      BY <2>2, <2>6
  <1>4. \A i \in Id : Recorded(i) \subseteq Recorded(i)'
    BY <1>1 DEF Recorded, Written
  <1>5. CopiesInv'
    <2>1. \A i \in Id : \A p \in Copies(i)' : p \in Copies(i) \/ (i = i0 /\ p = p0)
      <3>1. \A i \in Id : /\ Pending(i)' = Pending(i) /\ Queued(i)' = Queued(i)
                          /\ OnSheets(i)' = OnSheets(i) /\ InFixes(i)' = InFixes(i)
        BY DEF Elsewhere, Pending, ParaWritten, Queued, OnSheets, InFixes
      <3> QED
        BY <1>3, <3>1 DEF Copies
    <2>2. minted \in Nat /\ CopiesInv
      BY DEF RecordsInv, ScreensInv, PointsInv
    <2>3. Copying(i0, p0)
      BY <2>1, <2>2 DEF Copying
    <2> QED
      BY <2>2, <2>3, CopiesGrow
  <1>6. RecordedInv'
    BY <1>3 DEF RecordsInv, PointsInv, RecordedInv
  <1>7. DeadInv'
    <2>1. \A e \in Device : \A x \in doc'[e].dead : Removable(x)
      BY <1>2 DEF RecordsInv, PointsInv, DeadInv
    <2>2. \A x \in relay'.dead : Removable(x)
      BY DEF RecordsInv, PointsInv, DeadInv, Elsewhere
    <2> QED
      BY <1>4, <2>1, <2>2, RemovableStays DEF DeadInv
  <1>8. PendingInv'
    BY DEF RecordsInv, PointsInv, PendingInv, ParaWritten, Elsewhere
  <1>9. ScreensInv'
    BY DEF RecordsInv, ScreensInv, Elsewhere
  <1> QED
    BY <1>1, <1>5, <1>6, <1>7, <1>8, <1>9 DEF RecordsInv, PointsInv, DocsGrow

\* The three ways it is used: no data point is written, one is taken away, one is put in.
LEMMA OtherWriteKeeps ==
  ASSUME RecordsInv, NEW d \in Device, NEW m, OtherWrite(doc, d, m),
         minted' \in Nat, minted <= minted', doc' = [doc EXCEPT ![d] = m], Elsewhere
  PROVE  RecordsInv' /\ DocsGrow
  <1>1. PICK S : FitWrite(doc, d, m, S) /\ \A s \in S : s[1][1] # "point"
    BY DEF OtherWrite
  <1>2. \A e \in m.dead : Removable(e)
    BY DEF OtherWrite, RecordsInv, PointsInv, DeadInv
  <1>3. 0 \notin Id /\ \A s \in S : s[1][1] = "point" => s[1] = <<"point", 0>> /\ s[2] = 0
    BY <1>1, IdsAre
  <1>4. Writing(d, m, S, 0, 0)
    BY <1>1, <1>2, <1>3 DEF Writing
  <1> QED
    BY <1>4, WriteKeeps

\* So does the put of a data point, new or saying what its copies say.
LEMMA PointWriteKeeps ==
  ASSUME RecordsInv, NEW d \in Device, NEW m, Grew(doc, d, m, {}),
         \A e \in m.dead : Removable(e),
         NEW i \in Id, NEW p, PointOK(p), p.state # "pending",
         (\E q \in Copies(i) : Says(q) = Says(p)) \/ (i = minted + 1 /\ minted' = i),
         minted' \in Nat, minted <= minted',
         doc' = [doc EXCEPT ![d] = PutPoint(m, d, i, p)], Elsewhere
  PROVE  RecordsInv' /\ DocsGrow
  <1> DEFINE S == {<<<<"point", i>>, p>>}
             n == PutPoint(m, d, i, p)
  <1>1. Replicas(doc)
    BY DEF RecordsInv, MasterInv
  <1>2. FitWrite(doc, d, n, S) /\ n.dead = m.dead
    BY <1>1, PointWriteFits
  <1>3. \A s \in S : s[1][1] = "point" => s[1] = <<"point", i>> /\ s[2] = p
    OBVIOUS
  <1> HIDE DEF S
  <1>4. doc' = [doc EXCEPT ![d] = n] /\ \A e \in n.dead : Removable(e)
    BY <1>2
  <1> HIDE DEF n
  <1>5. Writing(d, n, S, i, p)
    BY <1>2, <1>3, <1>4 DEF Writing
  <1> QED
    BY <1>5, WriteKeeps

\* Un-bookmarking takes nothing but a placeholder away.
LEMMA UnbookmarkIs ==
  ASSUME RecordsInv, NEW d \in Device, NEW i \in Id, NEW q \in Copies(i), q.state = "queued"
  PROVE  /\ Grew(doc, d, UnbookmarkMutator(doc[d], i), {})
         /\ \A e \in UnbookmarkMutator(doc[d], i).dead : Removable(e)
  <1> DEFINE k == <<"point", i>>
             n == Delete(doc[d], k)
  <1>1. Replicas(doc) /\ IsMap(doc[d])
    BY DEF RecordsInv, MasterInv, Replicas, IsMap
  <1>2. /\ IsMap(n) /\ n.items = doc[d].items
        /\ \A e \in n.dead : e \in doc[d].dead \/ (e[1] = k /\ Has(doc[d], k))
    BY <1>1, DeleteIs
  <1>3. Grew(doc, d, n, {})
    BY <1>1, <1>2, GrewNothing
  <1>4. ASSUME Has(doc[d], k) PROVE \E p \in Recorded(i) : p.state = "queued"
    <2>1. PICK x \in doc[d].items : x.key = k
      BY <1>4 DEF Has, Keys
    <2>2. x.val \in Recorded(i)
      BY <2>1, RecordedIs
    <2>3. x.val \in Copies(i)
      BY <2>2 DEF Copies
    <2>4. Says(x.val) = Says(q) /\ x.val.state # "pending"
      BY <2>2, <2>3 DEF RecordsInv, PointsInv, CopiesInv, RecordedInv
    <2> QED
      BY <2>2, <2>4 DEF Says
  <1>5. \A e \in n.dead : Removable(e)
    BY <1>2, <1>4 DEF Removable, RecordsInv, PointsInv, DeadInv
  <1>6. UnbookmarkMutator(doc[d], i) = n
    BY DEF UnbookmarkMutator
  <1> QED
    BY <1>3, <1>5, <1>6

\* So does the deletion of a placeholder (unbookmark).
LEMMA UnbookmarkKeeps ==
  ASSUME RecordsInv, NEW d \in Device, NEW i \in Id, NEW q \in Copies(i), q.state = "queued",
         minted' = minted, doc' = [doc EXCEPT ![d] = UnbookmarkMutator(doc[d], i)], Elsewhere
  PROVE  RecordsInv' /\ DocsGrow
  <1> DEFINE m == UnbookmarkMutator(doc[d], i)
  <1>1. Grew(doc, d, m, {}) /\ \A e \in m.dead : Removable(e)
    BY UnbookmarkIs
  <1> HIDE DEF m
  <1>2. FitWrite(doc, d, m, {})
    BY <1>1 DEF FitWrite
  <1>3. 0 \notin Id /\ minted' \in Nat /\ minted <= minted'
    BY IdsAre DEF RecordsInv, ScreensInv
  <1>4. \A s \in {} : s[1][1] = "point" => s[1] = <<"point", 0>> /\ s[2] = 0
    OBVIOUS
  <1>5. doc' = [doc EXCEPT ![d] = m]
    BY DEF m
  <1>6. Writing(d, m, {}, 0, 0)
    BY <1>1, <1>2, <1>3, <1>4, <1>5 DEF Writing
  <1> QED
    BY <1>6, WriteKeeps

\* A pending point has one item, whichever copy of the para document is read.
LEMMA PendingGet ==
  ASSUME PendingInv, NEW m, m.items \subseteq ParaWritten, NEW i, <<"pending", i>> \in Keys(m)
  PROVE  Get(m, <<"pending", i>>) \in Pending(i)
  <1> DEFINE k == <<"pending", i>>
             of == {x \in m.items : x.key = k}
  <1>1. PICK x \in m.items : x.key = k
    BY DEF Keys
  <1>2. of = {x}
    <2>1. k[1] = "pending"
      OBVIOUS
    <2> HIDE DEF k
    <2> QED
      BY <1>1, <2>1 DEF PendingInv
  <1>3. LastItem(m, k) = CHOOSE y \in of : \A z \in of : z = y \/ Behind(y.path, z.path)
    BY DEF LastItem
  <1> HIDE DEF of
  <1>4. LastItem(m, k) = x
    BY <1>2, <1>3
  <1> QED
    BY <1>1, <1>4, PendingIs DEF Get

\* So a queue shows what is pending.
LEMMA QueueIs ==
  ASSUME PendingInv, NEW d \in Device, NEW m, m.items \subseteq ParaWritten
  PROVE  /\ DOMAIN QueueOn(d, m) \subseteq Id
         /\ \A i \in DOMAIN QueueOn(d, m) :
              QueueOn(d, m)[i] \in Pending(i) /\ i \notin PointsOf(doc[d])
  <1>1. DOMAIN QueueOn(d, m) = DeriveParaQueue(doc[d], m)
        /\ \A i \in DeriveParaQueue(doc[d], m) : QueueOn(d, m)[i] = Get(m, <<"pending", i>>)
    BY DEF QueueOn
  <1>2. \A i \in DeriveParaQueue(doc[d], m) :
          i \in Id /\ i \notin PointsOf(doc[d]) /\ <<"pending", i>> \in Keys(m)
    BY DEF DeriveParaQueue, PendingOf, Has
  <1> QED
    BY <1>1, <1>2, PendingGet

-----------------------------------------------------------------------------
(* The write actions *)

Kept == RecordsInv' /\ DocsGrow

\* What the invariant says of one device's document and of what its screen shows.
LEMMA DocIs ==
  ASSUME RecordsInv, NEW d \in Device
  PROVE  /\ Replicas(doc) /\ AllFit(doc[d]) /\ OnlyPointsDie(doc[d]) /\ IsMap(doc[d])
         /\ shown[d].items \subseteq doc[d].items /\ Keys(shown[d]) \subseteq Keys(doc[d])
         /\ minted \in Nat
  <1>1. Replicas(doc) /\ AllFit(doc[d]) /\ IsMap(doc[d]) /\ minted \in Nat
    BY DEF RecordsInv, MasterInv, ScreensInv, Replicas, IsMap
  <1>2. OnlyPointsDie(doc[d])
    BY DEF RecordsInv, PointsInv, DeadInv, Removable, OnlyPointsDie
  <1>3. shown[d].items \subseteq doc[d].items
    BY DEF RecordsInv, MasterInv
  <1> QED
    BY <1>1, <1>2, <1>3, ItemsGrowKeysGrow

\* What the screens show of a key is in the document.
LEMMA ShownIs ==
  ASSUME RecordsInv, NEW d \in Device, NEW k, Has(shown[d], k)
  PROVE  \E x \in doc[d].items : x.key = k /\ x.val = Get(shown[d], k)
  <1>1. k \in Keys(shown[d])
    BY DEF Has
  <1>2. \E x \in shown[d].items : x.key = k /\ x.val = Get(shown[d], k)
    BY <1>1, DocIs, GetIs
  <1> QED
    BY <1>2, DocIs

\* A data point on the screen is a recorded one.
LEMMA ShownPointIs ==
  ASSUME RecordsInv, NEW d \in Device, NEW i \in PointsOf(shown[d])
  PROVE  i \in Id /\ ReadPoint(shown[d], i) \in Recorded(i)
         /\ ReadPoint(shown[d], i) \in Copies(i)
  <1>1. i \in Id /\ Has(shown[d], <<"point", i>>)
    BY DEF PointsOf
  <1>2. PICK x \in doc[d].items : x.key = <<"point", i>> /\ x.val = ReadPoint(shown[d], i)
    BY <1>1, ShownIs DEF ReadPoint
  <1> QED
    BY <1>1, <1>2, RecordedIs DEF Copies

\* The points on the screen have a newest.
LEMMA NewestIs ==
  ASSUME RecordsInv, NEW d \in Device, NEW ids, ids \subseteq PointsOf(shown[d]), ids # {}
  PROVE  Newest(ids) \in ids
  <1>1. \A i \in ids : i \in Nat /\ i <= minted
    <2> TAKE i \in ids
    <2>1. i \in Id /\ Copies(i) # {}
      BY ShownPointIs
    <2> QED
      BY <2>1, IdsAre DEF RecordsInv, PointsInv, CopiesInv
  <1>2. minted \in Nat
    BY DocIs
  <1> DEFINE T == {n \in Nat : \E i \in ids : n = minted - i}
  <1>3. PICK j \in ids : TRUE
    OBVIOUS
  <1>4. minted - j \in T
    BY <1>1, <1>2
  <1>5. PICK n \in T : \A k \in T : n <= k
    BY <1>4, LeastNat
  <1>6. PICK i \in ids : n = minted - i
    BY <1>5
  <1>7. \A k \in ids : k <= i
    <2> TAKE k \in ids
    <2>1. minted - k \in T
      BY <1>1, <1>2
    <2> QED
      BY <1>1, <1>2, <1>5, <1>6, <2>1
  <1> QED
    BY <1>7 DEF Newest

\* A write of anything but data points keeps the invariant.
LEMMA OtherStep ==
  ASSUME RecordsInv, NEW d \in Device, NEW m, OtherWrite(doc, d, m), Apply(d, m),
         NoNewId \/ \E i \in Id : NewId(i), OnlyMaster
  PROVE  Kept
  <1>1. minted' \in Nat /\ minted <= minted'
    BY DocIs DEF NoNewId, NewId
  <1>2. doc' = [doc EXCEPT ![d] = m]
    BY DEF Apply, Capture
  <1>3. Elsewhere
    BY DEF OnlyMaster, Untouched, paraVars, Elsewhere
  <1> QED
    BY <1>1, <1>2, <1>3, OtherWriteKeeps DEF Kept

\* Every step of the baseline track keeps the invariant.
LEMMA BaselineSteps ==
  ASSUME RecordsInv, NEW d \in Device, BaselineTrack(d)
  PROVE  Kept
  <1>0. Replicas(doc) /\ AllFit(doc[d]) /\ OnlyPointsDie(doc[d])
    BY DocIs
  <1>a. ASSUME NEW b \in Listed(d)
        PROVE  BaselineOK(ReadBaselinePoint(doc[d], b))
    <2>1. <<"baseline", b>> \in Keys(doc[d])
      BY DocIs DEF Listed, BaselineOf, Has
    <2> QED
      BY <1>0, <2>1, ReadIs
  <1>b. ASSUME NEW b \in Listed(d), NEW fix, fix[3] \in Date \cup {None},
               FixBaseline(d, b, fix)
        PROVE  Kept
    <2> DEFINE p == ReadBaselinePoint(doc[d], b)
               s == <<IF fix[1] = None THEN p.score[1] ELSE fix[1], fix[2]>>
               date == IF fix[3] = None THEN p.date ELSE fix[3]
               q == FixBaselinePoint(p, ReadGoal(doc[d]), b, s, date)
    <2>1. s = <<s[1], s[2]>>
      OBVIOUS
    <2>2. FixBaselinePointMutator(doc[d], d, b, fix) = EditBaselinePoint(doc[d], d, b, q)
      BY DEF FixBaselinePointMutator
    <2>3. BaselineOK(p)
      BY <1>a
    <2> HIDE DEF p, s
    <2>3a. date \in Date
      BY <1>b, <2>3 DEF BaselineOK, BaselineRecord
    <2> HIDE DEF date
    <2>4. BaselineOK(q) /\ (q # p => ~q.removed)
      BY <2>1, <2>3, <2>3a, FixOK
    <2> HIDE DEF q
    <2>5. OtherWrite(doc, d, EditBaselinePoint(doc[d], d, b, q))
      <3>1. q # ReadBaselinePoint(doc[d], b) => Storable(q)
        BY <2>4 DEF p, Storable
      <3> QED
        BY <1>0, <3>1, EditWriteFits
    <2> QED
      BY <1>b, <2>2, <2>5, OtherStep DEF FixBaseline
  <1>c. ASSUME NEW g, OtherWrite(doc, d, UpsertGoal(doc[d], d, 0, g)) => Kept PROVE Kept
    BY <1>0, <1>c, GoalWriteFits, IdsAre
  <1>1. ASSUME NEW b \in Baseline, NEW s \in Score, AddBaselinePoint(d, b, s) PROVE Kept
    <2>1. Storable(NewBaselinePoint(s))
      BY NewBaselineOK, ScoresAre DEF Storable
    <2>2. OtherWrite(doc, d, AddBaselinePointMutator(doc[d], d, b, NewBaselinePoint(s)))
      BY <1>0, <2>1, BaselineWriteFits DEF AddBaselinePointMutator
    <2> QED
      BY <1>1, <2>2, OtherStep DEF AddBaselinePoint
  <1>2. ASSUME NEW b \in Baseline, NEW s \in Score, NEW date \in Date,
               FixDialog(d, b, s, date)
        PROVE  Kept
    <2> DEFINE fix == <<s[1], s[2], date>>
    <2>1. fix[3] \in Date \cup {None} /\ b \in Listed(d) /\ FixBaseline(d, b, fix)
      BY <1>2 DEF FixDialog
    <2> HIDE DEF fix
    <2> QED
      BY <2>1, <1>b
  <1>3. ASSUME NEW b \in Baseline, UseProbeTotal(d, b) PROVE Kept
    <2> DEFINE fix == <<None, ProbeTotal, None>>
    <2>1. fix[3] \in Date \cup {None} /\ b \in Listed(d) /\ FixBaseline(d, b, fix)
      BY <1>3 DEF UseProbeTotal, TotalDecision
    <2> HIDE DEF fix
    <2> QED
      BY <2>1, <1>b
  <1>4. ASSUME NEW b \in Baseline, RemoveBaseline(d, b) PROVE Kept
    <2> DEFINE p == ReadBaselinePoint(doc[d], b)
               q == RemoveBaselinePoint(p, ReadGoal(doc[d]))
    <2>1. BaselineOK(p)
      BY <1>4, <1>a DEF RemoveBaseline, RemoveDialog
    <2>2. BaselineOK(q) /\ (q # p => Removal(q))
      <3> HIDE DEF p
      <3> QED
        BY <2>1, RemoveOK
    <2>3. OtherWrite(doc, d, EditBaselinePoint(doc[d], d, b, q))
      <3> HIDE DEF q
      <3>1. q # ReadBaselinePoint(doc[d], b) => Storable(q)
        BY <2>2 DEF Storable
      <3> QED
        BY <1>0, <3>1, EditWriteFits
    <2>4. RemoveBaselinePointMutator(doc[d], d, b) = EditBaselinePoint(doc[d], d, b, q)
      BY DEF RemoveBaselinePointMutator
    <2> HIDE DEF q
    <2> QED
      BY <1>4, <2>3, <2>4, OtherStep DEF RemoveBaseline
  <1>5. ASSUME NEW b \in Baseline, KeepBaseline(d, b) PROVE Kept
    <2> DEFINE p == ReadBaselinePoint(doc[d], b)
               q == KeepBaselineTotal(p)
    <2>1. BaselineOK(p)
      BY <1>5, <1>a DEF KeepBaseline, TotalDecision
    <2>2. BaselineOK(q) /\ (q # p => ~q.removed)
      <3> HIDE DEF p
      <3> QED
        BY <2>1, KeepOK
    <2>3. OtherWrite(doc, d, EditBaselinePoint(doc[d], d, b, q))
      <3> HIDE DEF q
      <3>1. q # ReadBaselinePoint(doc[d], b) => Storable(q)
        BY <2>2 DEF Storable
      <3> QED
        BY <1>0, <3>1, EditWriteFits
    <2>4. KeepBaselineTotalMutator(doc[d], d, b) = EditBaselinePoint(doc[d], d, b, q)
      BY DEF KeepBaselineTotalMutator
    <2> HIDE DEF q
    <2> QED
      BY <1>5, <2>3, <2>4, OtherStep DEF KeepBaseline
  <1>6. CASE Adopt(d)
    <2> DEFINE g == AdoptGoal(ShownGoal(d), ReadBaseline(shown[d]))
    <2>1. Apply(d, UpsertGoal(doc[d], d, 0, g)) /\ NoNewId /\ OnlyMaster
      BY <1>6 DEF Adopt, AdoptGoalMutator
    <2> HIDE DEF g
    <2> QED
      BY <1>c, <2>1, OtherStep
  <1>7. ASSUME NEW date \in {1, 2}, EditArc(d, date) PROVE Kept
    <2> DEFINE g == EditArcDate(ShownGoal(d), date)
    <2>1. Apply(d, UpsertGoal(doc[d], d, 0, g)) /\ NoNewId /\ OnlyMaster
      BY <1>7 DEF EditArc, UpsertGoalMutator
    <2> HIDE DEF g
    <2> QED
      BY <1>c, <2>1, OtherStep
  <1>8. ASSUME NEW label \in Label, SaveGoalLabel(d, label) PROVE Kept
    <2> DEFINE g == SetGoalLabel(ShownGoal(d), label)
    <2>1. Apply(d, UpsertGoal(doc[d], d, 0, g)) /\ NoNewId /\ OnlyMaster
      BY <1>8 DEF SaveGoalLabel, UpsertGoalMutator
    <2> HIDE DEF g
    <2> QED
      BY <1>c, <2>1, OtherStep
  <1> QED
    BY <1>1, <1>2, <1>3, <1>4, <1>5, <1>6, <1>7, <1>8 DEF BaselineTrack

\* Every step of the caseload keeps the invariant.
LEMMA CaseloadSteps ==
  ASSUME RecordsInv, NEW d \in Device, CaseloadTrack(d)
  PROVE  Kept
  <1>0. Replicas(doc) /\ AllFit(doc[d])
    BY DocIs
  <1>a. ASSUME NEW i \in Id, i \in GoalsOf(shown[d])
        PROVE  /\ GoalOK(OnScreen(d, i))
               /\ <<"student", OnScreen(d, i).student>> \in Keys(doc[d])
               /\ <<"probe", i>> \in Keys(doc[d])
    <2>1. PICK x \in doc[d].items : x.key = <<"goal", i>> /\ x.val = OnScreen(d, i)
      BY <1>a, ShownIs DEF GoalsOf, OnScreen
    <2>2. Fits(doc[d], x.key, x.val)
      BY <1>0 DEF AllFit
    <2> QED
      BY <2>1, <2>2 DEF Fits
  <1>1. ASSUME NEW form \in Form, SubmitNewGoal(d, form) PROVE Kept
    <2> DEFINE known == StudentForInitials(shown[d], form.initials)
    <2>1. PICK i \in Id : \E s \in IF known = {} THEN {i} ELSE known :
            /\ NewId(i)
            /\ Apply(d, CreateGoalMutator(doc[d], d, i, AssembleGoal(form, s), form.initials))
      BY <1>1 DEF SubmitNewGoal
    <2>1a. PICK s \in IF known = {} THEN {i} ELSE known :
            /\ NewId(i)
            /\ Apply(d, CreateGoalMutator(doc[d], d, i, AssembleGoal(form, s), form.initials))
      BY <2>1
    <2>2. \A t \in known : t \in Id /\ <<"student", t>> \in Keys(doc[d])
      BY DocIs DEF StudentForInitials, StudentsOf, Has
    <2>3. s \in Id /\ (s = i \/ <<"student", s>> \in Keys(doc[d]))
      BY <2>1a, <2>2
    <2>4. GoalOK(AssembleGoal(form, s)) /\ AssembleGoal(form, s).student = s
      BY <1>1, <2>3, AssembledOK DEF SubmitNewGoal
    <2>5. OtherWrite(doc, d,
            CreateGoalMutator(doc[d], d, i, AssembleGoal(form, s), form.initials))
      BY <1>0, <2>3, <2>4, NewGoalFits
    <2>6. OnlyMaster /\ \E j \in Id : NewId(j)
      BY <1>1, <2>1a DEF SubmitNewGoal
    <2> QED
      BY <2>1a, <2>5, <2>6, OtherStep
  <1>2. ASSUME NEW i \in Id, AdoptDraft(d, i) PROVE Kept
    <2> DEFINE g == AdoptGoal(OnScreen(d, i), Gathered)
    <2>1. Apply(d, UpsertGoal(doc[d], d, i, g)) /\ NoNewId /\ OnlyMaster
      BY <1>2 DEF AdoptDraft, AdoptGoalMutator
    <2>2. GoalOK(g) /\ g.student = OnScreen(d, i).student
      BY <1>2, <1>a, AdoptedOK DEF AdoptDraft
    <2> HIDE DEF g
    <2>3. OtherWrite(doc, d, UpsertGoal(doc[d], d, i, g))
      BY <1>0, <1>2, <1>a, <2>2, GoalWriteFits DEF AdoptDraft
    <2> QED
      BY <2>1, <2>3, OtherStep
  <1>3. ASSUME NEW i \in Id, NEW raw \in {form.label : form \in Form}, Relabel(d, i, raw)
        PROVE  Kept
    <2> DEFINE g == SetGoalLabel(OnScreen(d, i), UsableGoalLabel(raw))
    <2>1. Apply(d, UpsertGoal(doc[d], d, i, g)) /\ NoNewId /\ OnlyMaster
      BY <1>3 DEF Relabel, UpsertGoalMutator
    <2>2. UsableGoalLabel(raw) \in Labels
      BY DEF UsableGoalLabel, Labels
    <2>3. GoalOK(g) /\ g.student = OnScreen(d, i).student
      BY <1>3, <1>a, <2>2, RelabelledOK DEF Relabel
    <2> HIDE DEF g
    <2>4. OtherWrite(doc, d, UpsertGoal(doc[d], d, i, g))
      BY <1>0, <1>3, <1>a, <2>3, GoalWriteFits DEF Relabel
    <2> QED
      BY <2>1, <2>4, OtherStep
  <1> QED
    BY <1>1, <1>2, <1>3 DEF CaseloadTrack

\* A document not yet written has grown by nothing.
LEMMA PlainIs ==
  ASSUME RecordsInv, NEW d \in Device
  PROVE  Grew(doc, d, doc[d], {}) /\ \A e \in doc[d].dead : Removable(e)
  <1>1. Grew(doc, d, doc[d], {})
    BY DocIs, GrewNothing
  <1> QED
    BY <1>1 DEF RecordsInv, PointsInv, DeadInv

\* Capturing a point under a new id keeps the invariant.
LEMMA NewPointStep ==
  ASSUME RecordsInv, NEW d \in Device, NEW m, Grew(doc, d, m, {}),
         \A e \in m.dead : Removable(e),
         NEW i \in Id, NewId(i), NEW p, PointOK(p), p.state # "pending",
         NEW rest, Capture(d, PutPoint(m, d, i, p), rest), OnlyMaster
  PROVE  Kept
  <1>1. minted' \in Nat /\ minted <= minted' /\ i = minted + 1 /\ minted' = i
    BY DocIs, IdsAre DEF NewId
  <1>2. doc' = [doc EXCEPT ![d] = PutPoint(m, d, i, p)]
    BY DEF Capture
  <1>3. Elsewhere
    BY DEF OnlyMaster, Untouched, paraVars, Elsewhere
  <1> QED
    BY <1>1, <1>2, <1>3, PointWriteKeeps DEF Kept

\* Writing a point over itself, saying what it said, keeps the invariant.
LEMMA SamePointStep ==
  ASSUME RecordsInv, NEW d \in Device, NEW i \in Id, NoNewId,
         NEW p, PointOK(p), p.state # "pending", NEW q \in Copies(i), Says(q) = Says(p),
         NEW rest, Capture(d, PutPoint(doc[d], d, i, p), rest), OnlyMaster
  PROVE  Kept
  <1>1. minted' \in Nat /\ minted <= minted'
    BY DocIs DEF NoNewId
  <1>2. doc' = [doc EXCEPT ![d] = PutPoint(doc[d], d, i, p)]
    BY DEF Capture
  <1>3. Elsewhere
    BY DEF OnlyMaster, Untouched, paraVars, Elsewhere
  <1> QED
    BY <1>1, <1>2, <1>3, PlainIs, PointWriteKeeps DEF Kept

\* What is on an open sheet.
LEMMA SheetIs ==
  ASSUME RecordsInv, NEW d \in Device, sheet[d] # NoSheet
  PROVE  /\ sheet[d].goal \in Goal
         /\ sheet[d].existing # None =>
              /\ sheet[d].existing \in Id
              /\ sheet[d].copy \in Copies(sheet[d].existing) /\ PointOK(sheet[d].copy)
              /\ sheet[d].copy.goal \in Goal
              /\ paraFix[d] = NoFix => sheet[d].copy.state # "pending"
  <1>1. /\ sheet[d].goal \in Goal /\ sheet[d].existing \in Id \cup {None}
        /\ sheet[d].existing # None /\ paraFix[d] = NoFix => sheet[d].copy.state # "pending"
    BY DEF RecordsInv, ScreensInv
  <1>2. ASSUME sheet[d].existing # None
        PROVE  /\ sheet[d].existing \in Id
               /\ sheet[d].copy \in Copies(sheet[d].existing) /\ PointOK(sheet[d].copy)
               /\ sheet[d].copy.goal \in Goal
    <2>1. sheet[d].existing \in Id /\ sheet[d].copy \in OnSheets(sheet[d].existing)
      BY <1>1, <1>2 DEF OnSheets
    <2>2. sheet[d].copy \in Copies(sheet[d].existing) /\ PointOK(sheet[d].copy)
      BY <2>1 DEF Copies, RecordsInv, PointsInv, CopiesInv
    <2> QED
      BY <2>1, <2>2 DEF PointOK, PointRecord
  <1> QED
    BY <1>1, <1>2

\* A dialog offers only elections a point may carry.
LEMMA ElectionIs ==
  ASSUME RecordsInv, NEW e \in Election \cup {None}
  PROVE  e \in Elections
  BY ElectionsAre DEF Election, RecordsInv, ScreensInv

\* The Quick-Score sheet saves a new point, completes a queued one, or fixes one.
LEMMA SaveScoreStep ==
  ASSUME RecordsInv, NEW d \in Device, NEW s \in Score, NEW e \in Election \cup {None},
         SaveScore(d, s, e)
  PROVE  Kept
  <1> DEFINE at == sheet[d]
             rest == Republish \o <<To("show"), To("close")>>
  <1>1. e \in Elections /\ sheet[d] # NoSheet /\ paraFix[d] = NoFix /\ OnlyMaster
    BY ElectionIs DEF SaveScore
  <1>2. ASSUME NEW i \in Id, NewId(i), at.existing = None,
               Commit(d, ScoreMutator(doc[d], d, i, at.goal, s, e))
        PROVE  Kept
    <2> DEFINE p == D!CaptureScoredPoint(at.goal, s, e)
    <2>1. PointOK(p) /\ p.state # "pending"
      BY <1>1, SheetIs, NewPointsOK
    <2> HIDE DEF p
    <2>2. Capture(d, PutPoint(doc[d], d, i, p), rest)
      BY <1>2 DEF Commit, ScoreMutator, p
    <2> QED
      BY <1>1, <1>2, <2>1, <2>2, PlainIs, NewPointStep
  <1>3. ASSUME NEW i \in Id, NewId(i), at.existing # None, at.copy.state = "queued",
               Commit(d, CompleteQueuedMutator(doc[d], d, at.existing, i, at.copy.goal, s, e))
        PROVE  Kept
    <2> DEFINE p == D!CaptureScoredPoint(at.copy.goal, s, e)
               m == UnbookmarkMutator(doc[d], at.existing)
    <2>1. at.existing \in Id /\ at.copy \in Copies(at.existing) /\ at.copy.goal \in Goal
      BY <1>1, <1>3, SheetIs
    <2>2. PointOK(p) /\ p.state # "pending"
      BY <1>1, <2>1, NewPointsOK
    <2>3. Capture(d, PutPoint(m, d, i, p), rest)
      BY <1>3 DEF Commit, CompleteQueuedMutator, ScoreMutator
    <2>4. Grew(doc, d, m, {}) /\ \A x \in m.dead : Removable(x)
      BY <1>3, <2>1, UnbookmarkIs
    <2> HIDE DEF p, m
    <2> QED
      BY <1>1, <1>3, <2>2, <2>3, <2>4, NewPointStep
  <1>4. ASSUME at.existing # None, at.copy.state # "queued",
               Commit(d, EditMutator(doc[d], d, at.existing, at.copy, s, e)), NoNewId
        PROVE  Kept
    <2> DEFINE p == D!FixedPoint(at.copy, s, e)
               i == at.existing
    <2>1. /\ i \in Id /\ at.copy \in Copies(i) /\ PointOK(at.copy)
          /\ at.copy.state # "pending"
      BY <1>1, <1>4, SheetIs
    <2>2. PointOK(p) /\ p.state = at.copy.state
      BY <1>1, <2>1, FixedOK
    <2>3. Says(at.copy) = Says(p) /\ p.state # "pending"
      BY <2>1, <2>2 DEF Says
    <2>4. Capture(d, PutPoint(doc[d], d, i, p), rest)
      BY <1>4 DEF Commit, EditMutator
    <2> HIDE DEF p, i
    <2> QED
      BY <1>1, <1>4, <2>1, <2>2, <2>3, <2>4, SamePointStep
  <1> QED
    BY <1>2, <1>3, <1>4 DEF SaveScore

\* The sheet's other two writes put a new point (recordNoData, bookmarkForLater).
LEMMA SheetWrites ==
  ASSUME RecordsInv, NEW d \in Device, SaveNoData(d) \/ BookmarkFromSheet(d)
  PROVE  Kept
  <1> DEFINE rest == Republish \o <<To("show"), To("close")>>
  <1>1. CASE SaveNoData(d)
    <2> DEFINE p == D!RecordNoData(sheet[d].goal)
    <2>1. PICK i \in Id : NewId(i) /\ Capture(d, PutPoint(doc[d], d, i, p), rest)
      BY <1>1 DEF SaveNoData, Commit, NoDataMutator
    <2>2. PointOK(p) /\ p.state # "pending" /\ OnlyMaster
      BY <1>1, SheetIs, NewPointsOK DEF SaveNoData
    <2> HIDE DEF p
    <2> QED
      BY <2>1, <2>2, PlainIs, NewPointStep
  <1>2. CASE BookmarkFromSheet(d)
    <2> DEFINE p == D!BookmarkForLater(sheet[d].goal)
    <2>1. PICK i \in Id : NewId(i) /\ Capture(d, PutPoint(doc[d], d, i, p), rest)
      BY <1>2 DEF BookmarkFromSheet, Commit, BookmarkMutator
    <2>2. PointOK(p) /\ p.state # "pending" /\ OnlyMaster
      BY <1>2, SheetIs, NewPointsOK DEF BookmarkFromSheet
    <2> HIDE DEF p
    <2> QED
      BY <2>1, <2>2, PlainIs, NewPointStep
  <1> QED
    BY <1>1, <1>2

\* A row's points are recorded ones in the state the row asked for, never pending.
LEMMA ShownInIs ==
  ASSUME RecordsInv, NEW d \in Device, NEW g, NEW state, NEW i \in ShownIn(d, g, state)
  PROVE  /\ i \in Id /\ ReadPoint(shown[d], i) \in Copies(i)
         /\ ReadPoint(shown[d], i).state = state /\ ReadPoint(shown[d], i).state # "pending"
  <1>1. i \in PointsOf(shown[d]) /\ ReadPoint(shown[d], i).state = state
    BY DEF ShownIn
  <1>2. /\ i \in Id /\ ReadPoint(shown[d], i) \in Recorded(i)
        /\ ReadPoint(shown[d], i) \in Copies(i)
    BY <1>1, ShownPointIs
  <1> QED
    BY <1>1, <1>2 DEF RecordsInv, PointsInv, RecordedInv

\* The newest of a row's points is one of them.
LEMMA NewestShownIs ==
  ASSUME RecordsInv, NEW d \in Device, NEW g, NEW state, ShownIn(d, g, state) # {}
  PROVE  Newest(ShownIn(d, g, state)) \in ShownIn(d, g, state)
  <1>1. ShownIn(d, g, state) \subseteq PointsOf(shown[d])
    BY DEF ShownIn
  <1> QED
    BY <1>1, NewestIs

\* The bookmark button takes the newest placeholder away or puts a new one.
LEMMA ToggleLaterStep ==
  ASSUME RecordsInv, NEW d \in Device, NEW g \in Goal, ToggleLater(d, g)
  PROVE  Kept
  <1> DEFINE queued == ShownIn(d, g, "queued")
  <1>1. CASE queued # {} /\ Apply(d, UnbookmarkMutator(doc[d], Newest(queued))) /\ NoNewId
    <2> DEFINE i == Newest(queued)
               q == ReadPoint(shown[d], i)
    <2>1. i \in Id /\ q \in Copies(i) /\ q.state = "queued"
      <3>1. i \in queued
        BY <1>1, NewestShownIs
      <3> HIDE DEF i
      <3> QED
        BY <3>1, ShownInIs
    <2>2. doc' = [doc EXCEPT ![d] = UnbookmarkMutator(doc[d], i)] /\ minted' = minted
      BY <1>1 DEF Apply, Capture, NoNewId
    <2>3. Elsewhere
      BY DEF ToggleLater, OnlyMaster, Untouched, paraVars, Elsewhere
    <2> HIDE DEF i, q
    <2> QED
      BY <2>1, <2>2, <2>3, UnbookmarkKeeps DEF Kept
  <1>2. ASSUME NEW i \in Id, NewId(i), Apply(d, BookmarkMutator(doc[d], d, i, g)) PROVE Kept
    <2> DEFINE p == D!BookmarkForLater(g)
               rest == Republish \o <<To("show")>>
    <2>1. Capture(d, PutPoint(doc[d], d, i, p), rest) /\ OnlyMaster
      BY <1>2 DEF ToggleLater, Apply, BookmarkMutator
    <2>2. PointOK(p) /\ p.state # "pending"
      BY NewPointsOK
    <2> HIDE DEF p, rest
    <2> QED
      BY <1>2, <2>1, <2>2, PlainIs, NewPointStep
  <1> QED
    BY <1>1, <1>2 DEF ToggleLater

\* Both validations put the point's own id, saying what it said.
LEMMA ValidationWrites ==
  ASSUME RecordsInv, NEW d \in Device,
         \/ \E i \in Id : ConfirmPara(d, i)
         \/ \E s \in Score, e \in Election \cup {None} : CommitParaFix(d, s, e)
  PROVE  Kept
  <1>1. ASSUME NEW i \in Id, ConfirmPara(d, i) PROVE Kept
    <2> DEFINE c == queue[d][i]
               p == D!ValidateParaPoint(c)
    <2>1. c \in Copies(i) /\ PointOK(c)
      <3>1. c \in Queued(i)
        BY <1>1 DEF ConfirmPara, Queued
      <3> QED
        BY <3>1 DEF Copies, RecordsInv, PointsInv, CopiesInv
    <2>2. PointOK(p) /\ Says(c) = Says(p) /\ p.state # "pending"
      <3> HIDE DEF c
      <3> QED
        BY <2>1, ValidatedOK
    <2>3. PICK rest : Capture(d, PutPoint(doc[d], d, i, p), rest) /\ NoNewId /\ OnlyMaster
      BY <1>1 DEF ConfirmPara, MasterFirstThenTombstone
    <2> HIDE DEF p, c
    <2> QED
      BY <2>1, <2>2, <2>3, SamePointStep
  <1>2. ASSUME NEW s \in Score, NEW e \in Election \cup {None}, CommitParaFix(d, s, e)
        PROVE  Kept
    <2> DEFINE i == paraFix[d].id
               c == paraFix[d].copy
               a == D!ApplyEdit(c, s)
               p == D!ValidateParaPoint(a)
    <2>1. i \in Id /\ c \in Copies(i) /\ PointOK(c)
      <3>1. i \in Id
        BY <1>2 DEF CommitParaFix, RecordsInv, ScreensInv
      <3>2. c \in InFixes(i)
        BY DEF InFixes
      <3>3. c \in Copies(i)
        BY <3>2 DEF Copies
      <3> HIDE DEF i, c
      <3> QED
        BY <3>1, <3>3 DEF RecordsInv, PointsInv, CopiesInv
    <2>2. PointOK(a) /\ a.state = c.state
      <3> HIDE DEF c
      <3> QED
        BY <2>1, EditOK
    <2>3. PointOK(p) /\ Says(p) = Says(a) /\ p.state # "pending"
      <3> HIDE DEF a
      <3> QED
        BY <2>2, ValidatedOK
    <2>4. PICK rest : Capture(d, PutPoint(doc[d], d, i, p), rest) /\ NoNewId /\ OnlyMaster
      BY <1>2 DEF CommitParaFix, MasterFirstThenTombstone
    <2> HIDE DEF p, a, c, i
    <2>5. Says(c) = Says(p)
      BY <2>2, <2>3 DEF Says
    <2> QED
      BY <2>1, <2>3, <2>4, <2>5, SamePointStep
  <1> QED
    BY <1>1, <1>2

-----------------------------------------------------------------------------
(* The steps of the screens, of the para documents and of a sync *)

\* A step that changes a sheet, or the point it was opened to fix.
SheetStep(d, s, f) ==
    /\ DOMAIN sheet' = Device /\ sheet'[d] = s /\ \A e \in Device \ {d} : sheet'[e] = sheet[e]
    /\ DOMAIN paraFix' = Device /\ paraFix'[d] = f
    /\ \A e \in Device \ {d} : paraFix'[e] = paraFix[e]
    /\ s = NoSheet \/ (s.goal \in Goal /\ s.existing \in Id \cup {None})
    /\ s.existing \in Id => s.copy \in Copies(s.existing)
    /\ s.existing # None /\ s.copy.state = "pending" => f # NoFix
    /\ f = NoFix \/ f.id \in Id
    /\ f.id \in Id => f.copy \in Copies(f.id)
    /\ UNCHANGED <<topic, doc, relay, shown, minted, pdoc, pside, disk, prelay, queue>>

\* Opening or closing a sheet on a copy that is there keeps the invariant.
LEMMA SheetStepKeeps ==
  ASSUME RecordsInv, NEW d \in Device, NEW s, NEW f, SheetStep(d, s, f)
  PROVE  Kept
  <1> USE DEF SheetStep
  <1>1. \A i \in Id : Copies(i)' \subseteq Copies(i)
    <2> SUFFICES ASSUME NEW i \in Id, NEW p \in Copies(i)' PROVE p \in Copies(i)
      OBVIOUS
    <2>1. /\ Recorded(i)' = Recorded(i) /\ Pending(i)' = Pending(i) /\ Queued(i)' = Queued(i)
      BY DEF Recorded, Written, Pending, ParaWritten, Queued
    <2>2. CASE p \in OnSheets(i)'
      <3>1. PICK e \in Device : sheet'[e].existing = i /\ p = sheet'[e].copy
        BY <2>2 DEF OnSheets
      <3>2. CASE e = d
        BY <3>1, <3>2
      <3>3. CASE e # d
        BY <3>1, <3>3 DEF OnSheets, Copies
      <3> QED
        BY <3>2, <3>3
    <2>3. CASE p \in InFixes(i)'
      <3>1. PICK e \in Device : paraFix'[e].id = i /\ p = paraFix'[e].copy
        BY <2>3 DEF InFixes
      <3>2. CASE e = d
        BY <3>1, <3>2
      <3>3. CASE e # d
        BY <3>1, <3>3 DEF InFixes, Copies
      <3> QED
        BY <3>2, <3>3
    <2> QED
      BY <2>1, <2>2, <2>3 DEF Copies
  <1>2. ScreensInv'
    <2>1. \A e \in Device :
            /\ sheet'[e] = NoSheet
               \/ (sheet'[e].goal \in Goal /\ sheet'[e].existing \in Id \cup {None})
            /\ paraFix'[e] = NoFix \/ paraFix'[e].id \in Id
            /\ sheet'[e].existing # None /\ sheet'[e].copy.state = "pending"
                 => paraFix'[e] # NoFix
      <3> TAKE e \in Device
      <3>1. CASE e = d
        BY <3>1
      <3>2. CASE e # d
        BY <3>2 DEF RecordsInv, ScreensInv
      <3> QED
        BY <3>1, <3>2
    <2> QED
      BY <2>1 DEF RecordsInv, ScreensInv
  <1>3. /\ UNCHANGED <<doc, relay, minted>> /\ DOMAIN shown' = Device
        /\ \A e \in Device : shown'[e].items \subseteq doc[e].items
    BY DEF RecordsInv, MasterInv
  <1>4. ParaWritten' = ParaWritten
    BY DEF ParaWritten
  <1>5. RecordsInv'
    BY <1>1, <1>2, <1>3, <1>4, ScreenStepKeeps
  <1> QED
    BY <1>5 DEF Kept, DocsGrow

\* A closed sheet and a closed fix name no point.
LEMMA NothingOpen ==
  NoSheet.existing = None /\ NoSheet.existing \notin Id /\ NoFix.id = None /\ NoFix.id \notin Id
  BY IdsAre DEF NoSheet, NoFix

\* The sheet is closed, with what was to be fixed or without.
LEMMA CloseKeeps ==
  ASSUME RecordsInv, NEW d \in Device, sheet' = [sheet EXCEPT ![d] = NoSheet],
         paraFix' = paraFix \/ paraFix' = [paraFix EXCEPT ![d] = NoFix],
         UNCHANGED <<topic, doc, relay, shown, minted, pdoc, pside, disk, prelay, queue>>
  PROVE  Kept
  <1>0. DOMAIN sheet = Device /\ DOMAIN paraFix = Device
        /\ (paraFix[d] = NoFix \/ paraFix[d].id \in Id)
    BY DEF RecordsInv, ScreensInv
  <1>a. paraFix[d].id \in Id => paraFix[d].copy \in Copies(paraFix[d].id)
    BY DEF InFixes, Copies
  <1>1. CASE paraFix' = paraFix
    <2>1. SheetStep(d, NoSheet, paraFix[d])
      BY <1>0, <1>1, <1>a, NothingOpen DEF SheetStep
    <2> QED
      BY <2>1, SheetStepKeeps
  <1>2. CASE paraFix' = [paraFix EXCEPT ![d] = NoFix]
    <2>1. SheetStep(d, NoSheet, NoFix)
      BY <1>0, <1>2, NothingOpen DEF SheetStep
    <2> QED
      BY <2>1, SheetStepKeeps
  <1> QED
    BY <1>1, <1>2

\* Opening the sheet on a goal, or on one of its shown points, keeps the invariant.
LEMMA OpenKeeps ==
  ASSUME RecordsInv, NEW d \in Device, NEW g \in Goal, NEW i, OpenSheet(d, g, i),
         i = None \/ \E state : i \in ShownIn(d, g, state)
  PROVE  Kept
  <1> DEFINE s == [goal |-> g, existing |-> i,
                   copy |-> IF i = None THEN None ELSE ReadPoint(shown[d], i)]
  <1>0. DOMAIN sheet = Device /\ DOMAIN paraFix = Device
        /\ (paraFix[d] = NoFix \/ paraFix[d].id \in Id)
    BY DEF RecordsInv, ScreensInv
  <1>a. paraFix[d].id \in Id => paraFix[d].copy \in Copies(paraFix[d].id)
    BY DEF InFixes, Copies
  <1>1. /\ sheet' = [sheet EXCEPT ![d] = s] /\ paraFix' = paraFix
        /\ UNCHANGED <<topic, doc, relay, shown, minted, pdoc, pside, disk, prelay, queue>>
    BY DEF OpenSheet, masterVars, paraVars, Untouched
  <1>2. s.goal = g /\ s.existing = i /\ (i # None => s.copy = ReadPoint(shown[d], i))
    OBVIOUS
  <1>3. i # None => i \in Id /\ s.copy \in Copies(i) /\ s.copy.state # "pending"
    BY <1>2, ShownInIs
  <1> HIDE DEF s
  <1>4. SheetStep(d, s, paraFix[d])
    BY <1>0, <1>1, <1>2, <1>3, <1>a, IdsAre DEF SheetStep
  <1> QED
    BY <1>4, SheetStepKeeps

\* Opening a para's queued point to be fixed keeps the invariant.
LEMMA FixParaKeeps ==
  ASSUME RecordsInv, NEW d \in Device, NEW i \in Id, FixPara(d, i)
  PROVE  Kept
  <1> DEFINE c == queue[d][i]
             s == [goal |-> c.goal, existing |-> i, copy |-> c]
             f == [id |-> i, copy |-> c]
  <1>0. DOMAIN sheet = Device /\ DOMAIN paraFix = Device /\ i # None
    BY IdsAre DEF RecordsInv, ScreensInv
  <1>1. c \in Copies(i) /\ c.goal \in Goal
    <2>1. c \in Queued(i)
      BY DEF FixPara, Queued
    <2> HIDE DEF c
    <2>2. c \in Copies(i)
      BY <2>1 DEF Copies
    <2>3. PointOK(c)
      BY <2>2 DEF RecordsInv, PointsInv, CopiesInv
    <2> QED
      BY <2>2, <2>3 DEF PointOK, PointRecord
  <1>2. /\ sheet' = [sheet EXCEPT ![d] = s] /\ paraFix' = [paraFix EXCEPT ![d] = f]
        /\ UNCHANGED <<topic, doc, relay, shown, minted, pdoc, pside, disk, prelay, queue>>
    BY DEF FixPara, masterVars, paraVars, Untouched
  <1> HIDE DEF c
  <1>3. /\ s.goal = c.goal /\ s.existing = i /\ s.copy = c /\ f.id = i /\ f.copy = c
        /\ f # NoFix
    BY <1>0, NothingOpen
  <1> HIDE DEF s, f
  <1>4. SheetStep(d, s, f)
    BY <1>0, <1>1, <1>2, <1>3 DEF SheetStep
  <1> QED
    BY <1>4, SheetStepKeeps

\* A step of the para documents that spreads what is there and writes no pending point.
ParaStep(d, m) ==
    /\ IsMap(m) /\ \A x \in m.items : x.key[1] = "pending" => x \in ParaWritten
    /\ pdoc' = pdoc \/ pdoc' = [pdoc EXCEPT ![d] = m]
    /\ pside' = pside \/ pside' = [pside EXCEPT ![d] = m]
    /\ disk' = disk \/ disk' = [disk EXCEPT ![d] = m]
    /\ prelay' = prelay \/ prelay' = m
    /\ UNCHANGED <<topic, doc, relay, shown, minted, sheet, paraFix, queue>>

\* A step that spreads the para documents keeps the invariant.
LEMMA ParaStepKeeps ==
  ASSUME RecordsInv, NEW d \in Device, NEW m, ParaStep(d, m)
  PROVE  Kept
  <1> USE DEF ParaStep
  <1>0. /\ DOMAIN pdoc = Device /\ DOMAIN pside = Device /\ DOMAIN disk = Device
        /\ \A e \in Device : IsMap(pdoc[e]) /\ IsMap(pside[e]) /\ IsMap(disk[e])
        /\ IsMap(prelay)
    BY DEF RecordsInv, ScreensInv, IsMap
  <1>1. /\ DOMAIN pdoc' = Device /\ DOMAIN pside' = Device /\ DOMAIN disk' = Device
        /\ \A e \in Device : /\ pdoc'[e] = pdoc[e] \/ pdoc'[e] = m
                             /\ pside'[e] = pside[e] \/ pside'[e] = m
                             /\ disk'[e] = disk[e] \/ disk'[e] = m
    BY <1>0
  <1>2. \A x \in ParaWritten' : x \in ParaWritten \/ x \in m.items
    BY <1>1 DEF ParaWritten
  <1>3. \A x \in ParaWritten' : x.key[1] = "pending" => x \in ParaWritten
    BY <1>2
  <1>4. ScreensInv'
    <2>1. \A e \in Device : IsMap(pdoc'[e]) /\ IsMap(pside'[e]) /\ IsMap(disk'[e])
      BY <1>0, <1>1
    <2> QED
      BY <1>0, <1>1, <2>1 DEF RecordsInv, ScreensInv, IsMap
  <1>5. \A i \in Id : Copies(i)' \subseteq Copies(i)
    <2> TAKE i \in Id
    <2>1. <<"pending", i>>[1] = "pending"
      OBVIOUS
    <2>2. Pending(i)' \subseteq Pending(i)
      BY <1>3, <2>1 DEF Pending
    <2>3. /\ Recorded(i)' = Recorded(i) /\ Queued(i)' = Queued(i)
          /\ OnSheets(i)' = OnSheets(i) /\ InFixes(i)' = InFixes(i)
      BY DEF Recorded, Written, Queued, OnSheets, InFixes
    <2> QED
      BY <2>2, <2>3 DEF Copies
  <1>6. /\ UNCHANGED <<doc, relay, minted>> /\ DOMAIN shown' = Device
        /\ \A e \in Device : shown'[e].items \subseteq doc[e].items
    BY DEF RecordsInv, MasterInv
  <1>7. RecordsInv'
    BY <1>3, <1>4, <1>5, <1>6, ScreenStepKeeps
  <1> QED
    BY <1>7 DEF Kept, DocsGrow

\* The para document's copies are maps of what was written to it.
LEMMA ParaMapsAre ==
  ASSUME RecordsInv, NEW d \in Device
  PROVE  /\ IsMap(pdoc[d]) /\ IsMap(pside[d]) /\ IsMap(disk[d]) /\ IsMap(prelay)
         /\ pdoc[d].items \subseteq ParaWritten /\ pside[d].items \subseteq ParaWritten
         /\ disk[d].items \subseteq ParaWritten /\ prelay.items \subseteq ParaWritten
  BY DEF RecordsInv, ScreensInv, IsMap, ParaWritten

\* So is the merge of any two of them.
LEMMA ParaMerges ==
  ASSUME RecordsInv, NEW d \in Device, NEW m, NEW n,
         m.items \subseteq ParaWritten, n.items \subseteq ParaWritten
  PROVE  IsMap(Merge(m, n)) /\ \A x \in Merge(m, n).items : x \in ParaWritten
  BY MergeIs

\* The para's write is of a point of its own.
LEMMA ParaCaptureKeeps ==
  ASSUME RecordsInv, NEW d \in Device, NEW p, PointOK(p), ParaCapture(d, p)
  PROVE  Kept
  <1>0. PICK j \in Id :
          /\ NewId(j)
          /\ pside' = [pside EXCEPT ![d] = ParaCaptureMutator(pside[d], 10 + d, j, p)]
    BY DEF ParaCapture
  <1> DEFINE k == <<"pending", j>>
             n == Put(pside[d], 10 + d, k, p)
             x0 == NewItem(pside[d], 10 + d, k, p)
  <1>1. /\ IsMap(n) /\ n.items = pside[d].items \cup {x0}
    BY ParaMapsAre, PutIs
  <1>2. x0.key = k /\ x0.val = p /\ k[1] = "pending" /\ \A i : <<"pending", i>> = k => i = j
    BY DEF NewItem
  <1>3. /\ pside' = [pside EXCEPT ![d] = n] /\ disk' = [disk EXCEPT ![d] = pside'[d]]
        /\ UNCHANGED <<doc, sheet, paraFix, pdoc, queue, topic, relay, shown, prelay>>
    BY <1>0 DEF ParaCapture, ParaCaptureMutator, Untouched
  <1>4. minted \in Nat /\ j = minted + 1 /\ minted' = j /\ minted' \in Nat /\ j \in Nat
    BY <1>0, DocIs, IdsAre DEF NewId
  <1> HIDE DEF k, n, x0
  <1>5. /\ DOMAIN pside = Device /\ DOMAIN disk = Device /\ DOMAIN pdoc = Device
        /\ DOMAIN pside' = Device /\ DOMAIN disk' = Device
        /\ \A e \in Device : /\ pside'[e] = pside[e] \/ pside'[e] = n
                             /\ disk'[e] = disk[e] \/ disk'[e] = n
    BY <1>3 DEF RecordsInv, ScreensInv
  <1>6. \A x \in ParaWritten' : x \in ParaWritten \/ x = x0
    <2>1. \A x \in n.items : x \in ParaWritten \/ x = x0
      BY <1>1, ParaMapsAre
    <2>2. \A x \in ParaWritten' : \/ x \in prelay.items
                                  \/ \E e \in Device : \/ x \in pdoc[e].items
                                                       \/ x \in pside'[e].items
                                                       \/ x \in disk'[e].items
      BY <1>3 DEF ParaWritten
    <2> QED
      BY <1>5, <2>1, <2>2 DEF ParaWritten
  <1>7. ScreensInv'
    <2>1. \A e \in Device : IsMap(pside'[e]) /\ IsMap(disk'[e])
      BY <1>1, <1>5, ParaMapsAre
    <2> QED
      BY <1>3, <1>4, <1>5, <2>1 DEF RecordsInv, ScreensInv, IsMap
  <1>8. Copies(j) = {}
    BY <1>4 DEF RecordsInv, PointsInv, CopiesInv
  <1>9. CopiesInv'
    <2>1. \A i \in Id : \A q \in Copies(i)' : q \in Copies(i) \/ (i = j /\ q = p)
      <3> SUFFICES ASSUME NEW i \in Id, NEW q \in Copies(i)', q \notin Copies(i)
                   PROVE  i = j /\ q = p
        OBVIOUS
      <3>1. /\ Recorded(i)' = Recorded(i) /\ Queued(i)' = Queued(i)
            /\ OnSheets(i)' = OnSheets(i) /\ InFixes(i)' = InFixes(i)
        BY <1>3 DEF Recorded, Written, Queued, OnSheets, InFixes
      <3>2. q \in Pending(i)' /\ q \notin Pending(i)
        BY <3>1 DEF Copies
      <3>3. PICK x \in ParaWritten' : x.key = <<"pending", i>> /\ x.val = q
        BY <3>2 DEF Pending
      <3>4. x = x0
        BY <1>6, <3>2, <3>3, PendingIs
      <3> QED
        BY <1>2, <3>3, <3>4
    <2>2. Copying(j, p)
      BY <1>4, <2>1 DEF Copying
    <2> QED
      BY <2>2, CopiesGrow DEF RecordsInv, PointsInv
  <1>10. PendingInv'
    <2>1. \A x \in ParaWritten : x.key # k
      <3> SUFFICES ASSUME NEW x \in ParaWritten, x.key = k PROVE FALSE
        OBVIOUS
      <3>1. x.val \in Pending(j)
        BY PendingIs DEF k
      <3> QED
        BY <1>8, <3>1 DEF Copies
    <2> QED
      BY <1>2, <1>6, <2>1 DEF PendingInv, RecordsInv, PointsInv
  <1>11. MasterInv' /\ RecordedInv' /\ DeadInv'
    <2>1. \A i \in Id : Recorded(i)' = Recorded(i)
      BY <1>3 DEF Recorded, Written
    <2>2. MasterInv'
      BY <1>3 DEF RecordsInv, MasterInv, Written
    <2> QED
      BY <1>3, <2>1, <2>2
         DEF RecordsInv, PointsInv, RecordedInv, DeadInv, Removable
  <1> QED
    BY <1>3, <1>7, <1>9, <1>10, <1>11 DEF Kept, DocsGrow, RecordsInv, PointsInv

\* Showing the document as it is keeps the invariant.
LEMMA ShowKeeps ==
  ASSUME RecordsInv, NEW d \in Device, shown' = [shown EXCEPT ![d] = doc[d]],
         UNCHANGED <<topic, doc, relay, minted, pdoc, pside, disk, prelay, sheet, paraFix, queue>>
  PROVE  Kept
  <1>1. DOMAIN shown' = Device /\ \A e \in Device : shown'[e].items \subseteq doc[e].items
    BY DEF RecordsInv, MasterInv
  <1>2. ScreensInv'
    BY DEF RecordsInv, ScreensInv
  <1>3. (\A i \in Id : Copies(i)' = Copies(i)) /\ ParaWritten' = ParaWritten
    BY DEF Copies, Recorded, Written, Pending, ParaWritten, Queued, OnSheets, InFixes
  <1>4. RecordsInv'
    BY <1>1, <1>2, <1>3, ScreenStepKeeps
  <1> QED
    BY <1>4 DEF Kept, DocsGrow

\* Deriving the queue again keeps the invariant (deriveParaQueue).
LEMMA QueueKeeps ==
  ASSUME RecordsInv, NEW d \in Device, queue' = [queue EXCEPT ![d] = QueueOn(d, pdoc[d])],
         UNCHANGED <<topic, doc, relay, shown, minted, pdoc, pside, disk, prelay, sheet, paraFix>>
  PROVE  Kept
  <1> DEFINE q == QueueOn(d, pdoc[d])
  <1>1. DOMAIN q \subseteq Id /\ \A i \in DOMAIN q : q[i] \in Pending(i)
    BY ParaMapsAre, QueueIs DEF RecordsInv, PointsInv
  <1>2. queue' = [queue EXCEPT ![d] = q]
    OBVIOUS
  <1> HIDE DEF q
  <1>3. DOMAIN queue = Device /\ DOMAIN queue' = Device
        /\ \A e \in Device : queue'[e] = queue[e] \/ (e = d /\ queue'[e] = q)
    BY <1>2 DEF RecordsInv, ScreensInv
  <1>4. ScreensInv'
    BY <1>1, <1>3 DEF RecordsInv, ScreensInv
  <1>5. \A i \in Id : Copies(i)' \subseteq Copies(i)
    <2> SUFFICES ASSUME NEW i \in Id, NEW p \in Copies(i)' PROVE p \in Copies(i)
      OBVIOUS
    <2>1. /\ Recorded(i)' = Recorded(i) /\ Pending(i)' = Pending(i)
          /\ OnSheets(i)' = OnSheets(i) /\ InFixes(i)' = InFixes(i)
      BY DEF Recorded, Written, Pending, ParaWritten, OnSheets, InFixes
    <2>2. CASE p \in Queued(i)'
      <3>1. PICK e \in Device : i \in DOMAIN queue'[e] /\ p = queue'[e][i]
        BY <2>2 DEF Queued
      <3>2. CASE queue'[e] = queue[e]
        BY <3>1, <3>2 DEF Queued, Copies
      <3>3. CASE queue'[e] = q
        BY <1>1, <3>1, <3>3 DEF Copies
      <3> QED
        BY <1>3, <3>2, <3>3
    <2> QED
      BY <2>1, <2>2 DEF Copies
  <1>6. /\ UNCHANGED <<doc, relay, minted>> /\ DOMAIN shown' = Device
        /\ \A e \in Device : shown'[e].items \subseteq doc[e].items
    BY DEF RecordsInv, MasterInv
  <1>7. ParaWritten' = ParaWritten
    BY DEF ParaWritten
  <1>8. RecordsInv'
    BY <1>4, <1>5, <1>6, <1>7, ScreenStepKeeps
  <1> QED
    BY <1>8 DEF Kept, DocsGrow

\* Reopening reads everything again from what is at rest.
LEMMA ReopenKeeps ==
  ASSUME RecordsInv, NEW d \in Device, Reopen(d)
  PROVE  Kept
  <1> DEFINE q == QueueOn(d, disk[d])
  <1>1. DOMAIN q \subseteq Id /\ \A i \in DOMAIN q : q[i] \in Pending(i)
    BY ParaMapsAre, QueueIs DEF RecordsInv, PointsInv
  <1>2. queue' = [queue EXCEPT ![d] = q]
    BY DEF Reopen
  <1> HIDE DEF q
  <1>3. /\ sheet' = [sheet EXCEPT ![d] = NoSheet] /\ paraFix' = [paraFix EXCEPT ![d] = NoFix]
        /\ shown' = [shown EXCEPT ![d] = doc[d]]
        /\ pdoc' = [pdoc EXCEPT ![d] = disk[d]] /\ pside' = [pside EXCEPT ![d] = disk[d]]
        /\ UNCHANGED <<topic, doc, minted, relay, disk, prelay>>
    BY DEF Reopen, masterVars
  <1>4. /\ DOMAIN queue' = Device /\ DOMAIN sheet' = Device /\ DOMAIN paraFix' = Device
        /\ DOMAIN pdoc' = Device /\ DOMAIN pside' = Device
        /\ \A e \in Device :
             /\ queue'[e] = queue[e] \/ queue'[e] = q
             /\ \/ sheet'[e] = sheet[e] /\ paraFix'[e] = paraFix[e]
                \/ sheet'[e] = NoSheet /\ paraFix'[e] = NoFix
             /\ pdoc'[e] = pdoc[e] \/ pdoc'[e] = disk[e]
             /\ pside'[e] = pside[e] \/ pside'[e] = disk[e]
    BY <1>2, <1>3 DEF RecordsInv, ScreensInv
  <1>5. ScreensInv'
    <2>1. \A e \in Device :
            /\ DOMAIN queue'[e] \subseteq Id
            /\ sheet'[e] = NoSheet
               \/ (sheet'[e].goal \in Goal /\ sheet'[e].existing \in Id \cup {None})
            /\ paraFix'[e] = NoFix \/ paraFix'[e].id \in Id
            /\ sheet'[e].existing # None /\ sheet'[e].copy.state = "pending"
                 => paraFix'[e] # NoFix
      <3> TAKE e \in Device
      <3>1. DOMAIN queue'[e] \subseteq Id
        BY <1>1, <1>4 DEF RecordsInv, ScreensInv
      <3>2. CASE sheet'[e] = sheet[e] /\ paraFix'[e] = paraFix[e]
        BY <3>1, <3>2 DEF RecordsInv, ScreensInv
      <3>3. CASE sheet'[e] = NoSheet /\ paraFix'[e] = NoFix
        BY <3>1, <3>3, NothingOpen
      <3> QED
        BY <1>4, <3>2, <3>3
    <2>2. \A e \in Device : /\ DOMAIN pdoc'[e] = {"items", "dead"}
                            /\ DOMAIN pside'[e] = {"items", "dead"}
                            /\ DOMAIN disk'[e] = {"items", "dead"}
      BY <1>3, <1>4 DEF RecordsInv, ScreensInv
    <2> QED
      BY <1>3, <1>4, <2>1, <2>2 DEF RecordsInv, ScreensInv
  <1>6. \A x \in ParaWritten' : x \in ParaWritten
    BY <1>3, <1>4 DEF ParaWritten
  <1>7. \A i \in Id : Copies(i)' \subseteq Copies(i)
    <2> SUFFICES ASSUME NEW i \in Id, NEW p \in Copies(i)' PROVE p \in Copies(i)
      OBVIOUS
    <2>1. CASE p \in Queued(i)'
      <3>1. PICK e \in Device : i \in DOMAIN queue'[e] /\ p = queue'[e][i]
        BY <2>1 DEF Queued
      <3>2. CASE queue'[e] = queue[e]
        BY <3>1, <3>2 DEF Queued, Copies
      <3>3. CASE queue'[e] = q
        BY <1>1, <3>1, <3>3 DEF Copies
      <3> QED
        BY <1>4, <3>2, <3>3
    <2>2. CASE p \in OnSheets(i)'
      <3>1. PICK e \in Device : sheet'[e].existing = i /\ p = sheet'[e].copy
        BY <2>2 DEF OnSheets
      <3>2. sheet'[e] = sheet[e]
        BY <1>4, <3>1, NothingOpen
      <3> QED
        BY <3>1, <3>2 DEF OnSheets, Copies
    <2>3. CASE p \in InFixes(i)'
      <3>1. PICK e \in Device : paraFix'[e].id = i /\ p = paraFix'[e].copy
        BY <2>3 DEF InFixes
      <3>2. paraFix'[e] = paraFix[e]
        BY <1>4, <3>1, NothingOpen
      <3> QED
        BY <3>1, <3>2 DEF InFixes, Copies
    <2>4. Recorded(i)' = Recorded(i) /\ Pending(i)' \subseteq Pending(i)
      BY <1>3, <1>6 DEF Recorded, Written, Pending
    <2> QED
      BY <2>1, <2>2, <2>3, <2>4 DEF Copies
  <1>8. /\ UNCHANGED <<doc, relay, minted>> /\ DOMAIN shown' = Device
        /\ \A e \in Device : shown'[e].items \subseteq doc[e].items
    BY <1>3 DEF RecordsInv, MasterInv
  <1>9. RecordsInv'
    BY <1>5, <1>6, <1>7, <1>8, ScreenStepKeeps
  <1> QED
    BY <1>3, <1>9 DEF Kept, DocsGrow

\* Syncing the master document with the relay keeps the invariant.
LEMMA SyncMasterKeeps ==
  ASSUME RecordsInv, NEW d \in Device, SyncMaster(d)
  PROVE  Kept
  <1> DEFINE m == Merge(doc[d], relay)
  <1>1. /\ doc' = [doc EXCEPT ![d] = m] /\ relay' = m
        /\ UNCHANGED <<topic, minted, shown, sheet, paraFix, pdoc, pside, disk, prelay, queue>>
    BY DEF SyncMaster, paraVars
  <1>2. IsMap(m) /\ m.items = doc[d].items \cup relay.items /\ m.dead = doc[d].dead \cup relay.dead
    BY MergeIs
  <1> HIDE DEF m
  <1>3. /\ Replicas(doc) /\ relay.items \subseteq Written /\ IsFiniteSet(m.items)
        /\ m.items \subseteq Written /\ doc[d].items \subseteq m.items
    <2>1. Replicas(doc) /\ relay.items \subseteq Written /\ IsFiniteSet(relay.items)
      BY DEF RecordsInv, MasterInv
    <2>2. IsFiniteSet(doc[d].items) /\ doc[d].items \subseteq Written
      BY <2>1 DEF Replicas, Written
    <2> QED
      BY <1>2, <2>1, <2>2, FS_Union
  <1>4. Replicas(doc')
    BY <1>1, <1>2, <1>3, GrowKeepsReplicas DEF Written
  <1>5. /\ DOMAIN doc = Device /\ doc'[d] = m /\ \A e \in Device : e # d => doc'[e] = doc[e]
    BY <1>1, <1>3 DEF Replicas
  <1>6. \A e \in Device : doc[e].items \subseteq doc'[e].items
    BY <1>3, <1>5
  <1>7. Written' = Written
    BY <1>3, <1>5, <1>6 DEF Written
  <1>8. AllFit(m)
    <2>1. Keys(doc[d]) \subseteq Keys(m) /\ Keys(relay) \subseteq Keys(m)
      BY <1>2, ItemsGrowKeysGrow
    <2>2. AllFit(doc[d]) /\ AllFit(relay)
      BY DEF RecordsInv, MasterInv
    <2> QED
      BY <1>2, <2>1, <2>2, FitsGrows DEF AllFit
  <1>9. MasterInv'
    <2>1. \A e \in Device : AllFit(doc'[e])
      BY <1>5, <1>8 DEF RecordsInv, MasterInv
    <2>2. /\ DOMAIN relay' = {"items", "dead"} /\ IsFiniteSet(relay'.items) /\ AllFit(relay')
          /\ relay'.items \subseteq Written'
      BY <1>1, <1>2, <1>3, <1>7, <1>8 DEF IsMap
    <2>3. DOMAIN shown' = Device /\ \A e \in Device : shown'[e].items \subseteq doc'[e].items
      BY <1>1, <1>6 DEF RecordsInv, MasterInv
    <2> QED
      BY <1>4, <2>1, <2>2, <2>3 DEF MasterInv
  <1>10. \A i \in Id : Recorded(i)' = Recorded(i) /\ Copies(i)' = Copies(i)
    <2>1. \A i \in Id : Recorded(i)' = Recorded(i)
      BY <1>7 DEF Recorded
    <2> QED
      BY <1>1, <2>1 DEF Copies, Pending, ParaWritten, Queued, OnSheets, InFixes
  <1>11. CopiesInv' /\ RecordedInv' /\ PendingInv'
    BY <1>1, <1>10 DEF RecordsInv, PointsInv, CopiesInv, RecordedInv, PendingInv, ParaWritten
  <1>12. DeadInv'
    <2>1. \A e \in m.dead : Removable(e)
      BY <1>2 DEF RecordsInv, PointsInv, DeadInv
    <2>2. \A e \in Device : \A x \in doc'[e].dead : Removable(x)
      BY <1>5, <2>1 DEF RecordsInv, PointsInv, DeadInv
    <2> QED
      BY <1>1, <1>10, <2>1, <2>2, RemovableStays DEF DeadInv
  <1>13. ScreensInv'
    BY <1>1 DEF RecordsInv, ScreensInv
  <1> QED
    BY <1>6, <1>9, <1>11, <1>12, <1>13 DEF Kept, DocsGrow, RecordsInv, PointsInv

\* Every step of an asynchronous job keeps the invariant.
LEMMA AdvanceKeeps ==
  ASSUME RecordsInv, NEW d \in Device, NEW n, Advance(d, n)
  PROVE  Kept
  <1> DEFINE step == Head(jobs[d][n])
  <1>1. Step(d, step) /\ UNCHANGED <<topic, relay, prelay, doc, minted>>
    BY DEF Advance, masterVars
  <1> HIDE DEF step
  <1>2. CASE step = To("show") /\ shown' = [shown EXCEPT ![d] = doc[d]]
             /\ UNCHANGED <<sheet, paraFix, paraVars, queue>>
    BY <1>1, <1>2, ShowKeeps DEF paraVars
  <1>3. CASE sheet' = [sheet EXCEPT ![d] = NoSheet]
             /\ (paraFix' = paraFix \/ paraFix' = [paraFix EXCEPT ![d] = NoFix])
             /\ UNCHANGED <<shown, paraVars, queue>>
    BY <1>1, <1>3, CloseKeeps DEF paraVars
  <1>4. CASE pdoc' = [pdoc EXCEPT ![d] = Merge(pdoc[d], disk[d])]
             /\ UNCHANGED <<shown, sheet, paraFix, pside, disk, ploaded, queue>>
    <2> DEFINE m == Merge(pdoc[d], disk[d])
    <2>1. IsMap(m) /\ \A x \in m.items : x \in ParaWritten
      BY ParaMapsAre, ParaMerges
    <2>2. pdoc' = [pdoc EXCEPT ![d] = m]
      BY <1>4
    <2> HIDE DEF m
    <2>3. ParaStep(d, m)
      BY <1>1, <1>4, <2>1, <2>2 DEF ParaStep
    <2> QED
      BY <2>3, ParaStepKeeps
  <1>5. CASE Saved(d, pdoc[d]) /\ UNCHANGED <<shown, sheet, paraFix, pside, ploaded, queue>>
    <2>1. ParaStep(d, pdoc[d])
      BY <1>1, <1>5, ParaMapsAre DEF ParaStep, Saved
    <2> QED
      BY <2>1, ParaStepKeeps
  <1>6. CASE queue' = [queue EXCEPT ![d] = QueueOn(d, pdoc[d])]
             /\ UNCHANGED <<shown, sheet, paraFix, paraVars>>
    BY <1>1, <1>6, QueueKeeps DEF paraVars
  <1>7. ASSUME NEW i \in Id, Saved(d, SetParaTombstone(pdoc[d], d, i)),
               UNCHANGED <<shown, sheet, paraFix, pside, ploaded, queue>>
        PROVE  Kept
    <2> DEFINE m == SetParaTombstone(pdoc[d], d, i)
               x0 == NewItem(pdoc[d], d, <<"tombstone", i>>, None)
    <2>1. IsMap(m) /\ m.items = pdoc[d].items \cup {x0}
      BY ParaMapsAre, PutIs DEF SetParaTombstone
    <2>2. x0.key[1] # "pending"
      BY DEF NewItem
    <2> HIDE DEF x0
    <2>3. \A x \in m.items : x.key[1] = "pending" => x \in ParaWritten
      BY <2>1, <2>2, ParaMapsAre
    <2>4. Saved(d, m)
      BY <1>7
    <2> HIDE DEF m
    <2>5. ParaStep(d, m)
      BY <1>1, <1>7, <2>1, <2>3, <2>4 DEF ParaStep, Saved
    <2> QED
      BY <2>5, ParaStepKeeps
  <1> QED
    BY <1>1, <1>2, <1>3, <1>4, <1>5, <1>6, <1>7 DEF Step

-----------------------------------------------------------------------------
(* The specification *)

\* Every step of the Quick-Score sheet keeps the invariant.
LEMMA QuickScoreSteps ==
  ASSUME RecordsInv, NEW d \in Device, QuickScore(d)
  PROVE  Kept
  <1>1. ASSUME NEW g \in Goal, OpenRow(d, g) PROVE Kept
    <2>1. PICK i : OpenSheet(d, g, i) /\ (i = None \/ \E state : i \in ShownIn(d, g, state))
      BY <1>1, NewestShownIs DEF OpenRow
    <2> QED
      BY <2>1, OpenKeeps
  <1>2. ASSUME NEW g \in Goal, OpenFromGoalDetail(d, g) \/ OpenQueued(d, g) PROVE Kept
    <2>1. PICK i : OpenSheet(d, g, i) /\ (i = None \/ \E state : i \in ShownIn(d, g, state))
      BY <1>2 DEF OpenFromGoalDetail, OpenQueued
    <2> QED
      BY <2>1, OpenKeeps
  <1>3. ASSUME NEW g \in Goal, ToggleLater(d, g) PROVE Kept
    BY <1>3, ToggleLaterStep
  <1>4. ASSUME NEW s \in Score, NEW e \in Election \cup {None}, SaveScore(d, s, e) PROVE Kept
    BY <1>4, SaveScoreStep
  <1>5. CASE SaveNoData(d) \/ BookmarkFromSheet(d)
    BY <1>5, SheetWrites
  <1>6. CASE CloseSheet(d)
    BY <1>6, CloseKeeps DEF CloseSheet, masterVars, paraVars, Untouched
  <1> QED
    BY <1>1, <1>2, <1>3, <1>4, <1>5, <1>6 DEF QuickScore

\* Every step of the para's session, and of the validation, keeps the invariant.
LEMMA ParaSteps ==
  ASSUME RecordsInv, NEW d \in Device, ParaSession(d) \/ Validation(d)
  PROVE  Kept
  <1>1. CASE ParaRefresh(d)
    <2> DEFINE m == Merge(pside[d], disk[d])
    <2>1. IsMap(m) /\ \A x \in m.items : x \in ParaWritten
      BY ParaMapsAre, ParaMerges
    <2>2. /\ pside' = [pside EXCEPT ![d] = m]
          /\ UNCHANGED <<topic, doc, relay, shown, minted, sheet, paraFix, queue, pdoc, disk,
                         prelay>>
      BY <1>1 DEF ParaRefresh, masterVars, Untouched
    <2> HIDE DEF m
    <2>3. ParaStep(d, m)
      BY <2>1, <2>2 DEF ParaStep
    <2> QED
      BY <2>3, ParaStepKeeps
  <1>2. ASSUME NEW g \in Goal, NEW s \in Score, ParaCapture(d, D!BuildParaPendingPoint(g, s))
        PROVE  Kept
    <2>1. PointOK(D!BuildParaPendingPoint(g, s))
      BY NewPointsOK
    <2> QED
      BY <1>2, <2>1, ParaCaptureKeeps
  <1>3. ASSUME NEW g \in Goal, ParaCapture(d, D!ParaNoDataPoint(g)) PROVE Kept
    <2>1. PointOK(D!ParaNoDataPoint(g))
      BY NewPointsOK
    <2> QED
      BY <1>3, <2>1, ParaCaptureKeeps
  <1>4. CASE RefreshQueue(d)
    <2>1. UNCHANGED <<topic, doc, relay, shown, minted, sheet, paraFix, queue, pdoc, pside, disk,
                      prelay>>
      BY <1>4 DEF RefreshQueue, masterVars, paraVars, Untouched
    <2>2. ParaStep(d, pdoc[d])
      BY <2>1, ParaMapsAre DEF ParaStep
    <2> QED
      BY <2>2, ParaStepKeeps
  <1>5. ASSUME NEW i \in Id, FixPara(d, i) PROVE Kept
    BY <1>5, FixParaKeeps
  <1> QED
    BY <1>1, <1>2, <1>3, <1>4, <1>5, ValidationWrites DEF ParaSession, Validation

\* Syncing the para document keeps the invariant.
LEMMA SyncParaKeeps ==
  ASSUME RecordsInv, NEW d \in Device, SyncPara(d)
  PROVE  Kept
  <1> DEFINE m == Merge(pdoc[d], prelay)
  <1>1. IsMap(m) /\ \A x \in m.items : x \in ParaWritten
    BY ParaMapsAre, ParaMerges
  <1>2. /\ prelay' = m /\ Saved(d, m)
        /\ UNCHANGED <<topic, doc, relay, shown, minted, sheet, paraFix, pside, queue>>
    BY DEF SyncPara, masterVars
  <1> HIDE DEF m
  <1>3. ParaStep(d, m)
    BY <1>1, <1>2 DEF ParaStep, Saved
  <1> QED
    BY <1>3, ParaStepKeeps

\* Every step keeps the invariant, lets no document shrink and reuses no identity.
LEMMA RecordsStep ==
  ASSUME RecordsInv, [RecordsNext]_vars
  PROVE  Kept
  <1>1. CASE UNCHANGED vars
    <2>1. (\A i \in Id : Copies(i)' = Copies(i)) /\ ParaWritten' = ParaWritten
      BY <1>1 DEF vars, Copies, Recorded, Written, Pending, ParaWritten, Queued, OnSheets, InFixes
    <2>2. ScreensInv'
      BY <1>1 DEF vars, RecordsInv, ScreensInv
    <2>3. /\ UNCHANGED <<doc, relay, minted>> /\ DOMAIN shown' = Device
          /\ \A e \in Device : shown'[e].items \subseteq doc[e].items
      BY <1>1 DEF vars, RecordsInv, MasterInv
    <2>4. RecordsInv'
      BY <2>1, <2>2, <2>3, ScreenStepKeeps
    <2> QED
      BY <2>3, <2>4 DEF Kept, DocsGrow
  <1>2. CASE RecordsNext
    <2>1. Bound[topic].devices \subseteq Device
      BY RecordsAssumption DEF RecordsInv, ScreensInv
    <2>2. PICK d \in Device :
            \/ BaselineTrack(d) \/ QuickScore(d) \/ ParaSession(d) \/ Validation(d)
            \/ \E n \in 1 .. Bound[topic].jobs : Advance(d, n)
            \/ SyncMaster(d) \/ SyncPara(d) \/ Reopen(d) \/ CaseloadTrack(d)
      BY <1>2, <2>1 DEF RecordsNext, Next
    <2>3. CASE BaselineTrack(d) \/ CaseloadTrack(d)
      BY <2>3, BaselineSteps, CaseloadSteps
    <2>4. CASE QuickScore(d)
      BY <2>4, QuickScoreSteps
    <2>5. CASE ParaSession(d) \/ Validation(d)
      BY <2>5, ParaSteps
    <2>6. ASSUME NEW n, Advance(d, n) PROVE Kept
      BY <2>6, AdvanceKeeps
    <2>7. CASE SyncMaster(d) \/ SyncPara(d) \/ Reopen(d)
      BY <2>7, SyncMasterKeeps, SyncParaKeeps, ReopenKeeps
    <2> QED
      BY <2>2, <2>3, <2>4, <2>5, <2>6, <2>7
  <1> QED
    BY <1>1, <1>2

\* What every device starts with.
LEMMA SeedIs ==
  ASSUME NEW t
  PROVE  LET m == Seed(t)
         IN  /\ IsMap(m) /\ m.dead = {} /\ IsFiniteSet(m.items) /\ AllFit(m)
             /\ \A x \in m.items :
                  /\ x.path = <<0>>
                  /\ x.key[1] = "point" =>
                       /\ t = "scoring" /\ x.key[2] = 1
                       /\ x.val = D!BookmarkForLater(First(Goal))
             /\ \A x, y \in m.items : x.key = y.key => x = y
  <1>1. IsMap(EmptyMap) /\ EmptyMap.items = {} /\ EmptyMap.dead = {} /\ Keys(EmptyMap) = {}
    BY DEF IsMap, EmptyMap, Keys
  <1>2. CASE t = "baseline"
    <2> DEFINE k == GoalKey
               v == NewGoal("1")
               l == <<"baseline", First(Baseline)>>
               w == NewBaselinePoint(SeedScore)
               a == Put(EmptyMap, 0, k, v)
               m == Put(a, 0, l, w)
    <2>1. Seed(t) = m
      BY <1>2 DEF Seed
    <2>2. k[1] = "goal" /\ k[2] = 0 /\ l[1] = "baseline" /\ k # l
      BY DEF GoalKey
    <2>3. BaselineOK(w) /\ ~w.removed
      BY ScoresAre, NewBaselineOK
    <2> HIDE DEF k, v, l, w
    <2>4. NewItem(EmptyMap, 0, k, v) = [key |-> k, path |-> <<0>>, val |-> v]
      BY <1>1 DEF NewItem
    <2>5. IsMap(a) /\ a.items = {NewItem(EmptyMap, 0, k, v)} /\ a.dead = {} /\ Keys(a) = {k}
      BY <1>1, PutIs
    <2> HIDE DEF a
    <2>6. NewItem(a, 0, l, w) = [key |-> l, path |-> <<0>>, val |-> w]
      BY <2>2, <2>5 DEF NewItem
    <2>7. /\ IsMap(m) /\ m.dead = {}
          /\ m.items = {NewItem(EmptyMap, 0, k, v), NewItem(a, 0, l, w)}
      BY <2>5, PutIs
    <2> HIDE DEF m
    <2>8. \A x \in m.items : (x.key = k \/ (x.key = l /\ x.val = w)) /\ x.path = <<0>>
      BY <2>4, <2>6, <2>7
    <2>9. AllFit(m)
      BY <2>2, <2>3, <2>8, IdsAre DEF AllFit, Fits
    <2>10. \A x, y \in m.items : x.key = y.key => x = y
      BY <2>2, <2>4, <2>6, <2>7
    <2>11. IsFiniteSet(m.items)
      <3>1. m.items = {NewItem(EmptyMap, 0, k, v)} \cup {NewItem(a, 0, l, w)}
        BY <2>7
      <3>2. IsFiniteSet({NewItem(EmptyMap, 0, k, v)}) /\ IsFiniteSet({NewItem(a, 0, l, w)})
        BY FS_Singleton
      <3> QED
        BY <3>1, <3>2, FS_Union
    <2>12. \A x \in m.items : x.path = <<0>> /\ x.key[1] # "point"
      BY <2>2, <2>8
    <2> QED
      BY <2>1, <2>7, <2>9, <2>10, <2>11, <2>12
  <1>3. CASE t = "scoring"
    <2> DEFINE k == <<"point", 1>>
               v == D!BookmarkForLater(First(Goal))
               m == Put(EmptyMap, 0, k, v)
    <2>1. Seed(t) = m
      BY <1>3 DEF Seed
    <2>2. k[1] = "point" /\ k[2] = 1
      OBVIOUS
    <2> HIDE DEF k, v
    <2>3. NewItem(EmptyMap, 0, k, v) = [key |-> k, path |-> <<0>>, val |-> v]
      BY <1>1 DEF NewItem
    <2>4. IsMap(m) /\ m.items = {NewItem(EmptyMap, 0, k, v)} /\ m.dead = {}
      BY <1>1, PutIs
    <2> HIDE DEF m
    <2>5. \A x \in m.items : x.key = k /\ x.val = v /\ x.path = <<0>>
      BY <2>3, <2>4
    <2>6. IsFiniteSet(m.items)
      BY <2>4, FS_Singleton
    <2>7. AllFit(m)
      BY <2>2, <2>5 DEF AllFit, Fits
    <2>8. \A x, y \in m.items : x.key = y.key => x = y
      BY <2>4
    <2> QED
      BY <1>3, <2>1, <2>2, <2>4, <2>5, <2>6, <2>7, <2>8 DEF v
  <1>4. CASE t # "baseline" /\ t # "scoring"
    <2>1. Seed(t) = EmptyMap
      BY <1>4 DEF Seed
    <2> QED
      BY <1>1, <2>1, FS_EmptySet DEF AllFit
  <1> QED
    BY <1>2, <1>3, <1>4

\* The para document starts empty, or with the one pending point of its topic.
LEMMA ParaSeedIs ==
  ASSUME NEW t
  PROVE  LET m == ParaSeed(t)
         IN  /\ IsMap(m)
             /\ \A x \in m.items :
                  /\ t = "para" /\ x.key = <<"pending", 1>>
                  /\ x.val = D!BuildParaPendingPoint(First(Goal), SeedScore)
             /\ \A x, y \in m.items : x = y
  <1> DEFINE k == <<"pending", 1>>
             v == D!BuildParaPendingPoint(First(Goal), SeedScore)
             m == Put(EmptyMap, 0, k, v)
  <1>1. IsMap(EmptyMap) /\ EmptyMap.items = {}
    BY DEF IsMap, EmptyMap
  <1>2. IsMap(m) /\ m.items = {NewItem(EmptyMap, 0, k, v)}
    BY <1>1, PutIs
  <1>3. NewItem(EmptyMap, 0, k, v).key = k /\ NewItem(EmptyMap, 0, k, v).val = v
    BY DEF NewItem
  <1>4. ParaSeed(t) = IF t = "para" THEN m ELSE EmptyMap
    BY DEF ParaSeed
  <1> HIDE DEF k, v, m
  <1> QED
    BY <1>1, <1>2, <1>3, <1>4 DEF k, v

\* The invariant holds at the start.
LEMMA RecordsStart ==
  ASSUME Init
  PROVE  RecordsInv
  <1> DEFINE s == Seed(topic)
             r == ParaSeed(topic)
             B == D!BookmarkForLater(First(Goal))
             P == D!BuildParaPendingPoint(First(Goal), SeedScore)
  <1>1. /\ topic \in Topic /\ relay = s /\ prelay = r
        /\ DOMAIN doc = Device /\ DOMAIN shown = Device /\ DOMAIN sheet = Device
        /\ DOMAIN paraFix = Device /\ DOMAIN queue = Device
        /\ DOMAIN pdoc = Device /\ DOMAIN pside = Device /\ DOMAIN disk = Device
        /\ \A d \in Device :
             /\ doc[d] = s /\ shown[d] = s /\ sheet[d] = NoSheet /\ paraFix[d] = NoFix
             /\ pdoc[d] = r /\ pside[d] = r /\ disk[d] = r
             /\ queue[d] = QueueOn(d, pdoc[d])
        /\ minted = IF topic \in {"scoring", "para"} THEN 1 ELSE 0
    BY DEF Init, Scoring
  <1>2. /\ IsMap(s) /\ s.dead = {} /\ IsFiniteSet(s.items) /\ AllFit(s)
        /\ \A x \in s.items :
             /\ x.path = <<0>>
             /\ x.key[1] = "point" => topic = "scoring" /\ x.key[2] = 1 /\ x.val = B
        /\ \A x, y \in s.items : x.key = y.key => x = y
    BY SeedIs
  <1>3. /\ IsMap(r)
        /\ \A x \in r.items : topic = "para" /\ x.key = <<"pending", 1>> /\ x.val = P
        /\ \A x, y \in r.items : x = y
    BY ParaSeedIs
  <1>4. PointOK(B) /\ B.state = "queued" /\ PointOK(P)
    <2>1. First(Goal) \in Goal
      <3>1. \E g \in Goal : \A h \in Goal : g <= h
        BY LeastNat, RecordsAssumption
      <3> QED
        BY <3>1 DEF First
    <2> QED
      BY <2>1, ScoresAre, NewPointsOK
  <1> HIDE DEF s, r, B, P
  <1>5. MasterInv
    <2>1. \A d \in Device : \A x \in doc[d].items :
            /\ x \in s.items /\ x.path \in Seq(Nat) \ {<< >>} /\ Author(x) \notin Device
      <3>1. <<0>> \in Seq(Nat) \ {<< >>} /\ <<0>>[Len(<<0>>)] = 0 /\ 0 \notin Device
        BY RecordsAssumption
      <3>2. \A d \in Device : doc[d].items = s.items
        BY <1>1
      <3>3. \A x \in s.items : x.path \in Seq(Nat) \ {<< >>} /\ Author(x) \notin Device
        BY <1>2, <3>1 DEF Author
      <3> QED
        BY <3>2, <3>3
    <2>2. Replicas(doc)
      BY <1>1, <1>2, <2>1 DEF Replicas, IsMap
    <2>3. relay.items \subseteq Written
      <3>1. PICK d \in Device : TRUE
        BY RecordsAssumption
      <3>2. relay.items = doc[d].items
        BY <1>1, <3>1
      <3> QED
        BY <3>1, <3>2 DEF Written
    <2> QED
      BY <1>1, <1>2, <2>2, <2>3 DEF MasterInv, IsMap
  <1>6. \A x \in ParaWritten : x \in r.items
    BY <1>1 DEF ParaWritten
  <1>7. PendingInv
    BY <1>3, <1>6 DEF PendingInv
  <1>8. \A d \in Device :
          /\ DOMAIN queue[d] \subseteq Id
          /\ \A i \in DOMAIN queue[d] : queue[d][i] \in Pending(i)
    <2> TAKE d \in Device
    <2>1. pdoc[d].items \subseteq ParaWritten
      BY DEF ParaWritten
    <2> QED
      BY <1>1, <1>7, <2>1, QueueIs
  <1>9. \A i \in Id : \A p \in Copies(i) :
          i = 1 /\ ((topic = "scoring" /\ p = B) \/ (topic = "para" /\ p = P))
    <2> TAKE i \in Id
    <2> TAKE p \in Copies(i)
    <2>1. p \in Recorded(i) \/ p \in Pending(i)
      <3>1. OnSheets(i) = {} /\ InFixes(i) = {}
        BY <1>1, NothingOpen DEF OnSheets, InFixes
      <3>2. p \in Queued(i) => p \in Pending(i)
        BY <1>8 DEF Queued
      <3> QED
        BY <3>1, <3>2 DEF Copies
    <2>2. CASE p \in Recorded(i)
      <3>1. PICK d \in Device : \E x \in doc[d].items : x.key = <<"point", i>> /\ x.val = p
        BY <2>2 DEF Recorded, Written
      <3>2. PICK x \in s.items : x.key = <<"point", i>> /\ x.val = p
        BY <1>1, <3>1
      <3>3. x.key[1] = "point" /\ x.key[2] = i
        BY <3>2
      <3> QED
        BY <1>2, <3>2, <3>3
    <2>3. CASE p \in Pending(i)
      <3>1. PICK x \in r.items : x.key = <<"pending", i>> /\ x.val = p
        BY <1>6, <2>3, PendingIs
      <3> QED
        BY <1>3, <3>1
    <2> QED
      BY <2>1, <2>2, <2>3
  <1>10. CopiesInv
    BY <1>1, <1>4, <1>9 DEF CopiesInv
  <1>11. RecordedInv
    <2> SUFFICES ASSUME NEW i \in Id, NEW p \in Recorded(i) PROVE p.state # "pending"
      BY DEF RecordedInv
    <2>0. \E d \in Device : \E x \in doc[d].items : x.key = <<"point", i>> /\ x.val = p
      BY DEF Recorded, Written
    <2>1. PICK d \in Device : \E x \in doc[d].items : x.key = <<"point", i>> /\ x.val = p
      BY <2>0
    <2>2. PICK x \in s.items : x.key = <<"point", i>> /\ x.val = p
      BY <1>1, <2>1
    <2>3. x.key[1] = "point"
      BY <2>2
    <2> QED
      BY <1>2, <1>4, <2>2, <2>3
  <1>12. DeadInv
    BY <1>1, <1>2 DEF DeadInv
  <1>13. ScreensInv
    <2>1. minted \in Nat
      BY <1>1
    <2> QED
      BY <1>1, <1>3, <1>8, <2>1, NothingOpen DEF ScreensInv, IsMap
  <1> QED
    BY <1>5, <1>7, <1>10, <1>11, <1>12, <1>13 DEF RecordsInv, PointsInv

-----------------------------------------------------------------------------
(* Theorems *)

\* The inductive invariant holds in every reachable state of the records.
LEMMA RecordsInvariant == RecordsSpec => []RecordsInv
  <1>1. Init => RecordsInv
    BY RecordsStart
  <1>2. RecordsInv /\ [RecordsNext]_vars => RecordsInv'
    BY RecordsStep DEF Kept
  <1> QED
    BY <1>1, <1>2, PTL DEF RecordsSpec

\* What a record says is what its audit trail says, on every device and after every merge
\* (data/repository.ts withRemoval, baseline-edit.ts, data-point.ts).
THEOREM TrailsExplainRecords == RecordsSpec => []RecordsExplainThemselves
  <1>1. RecordsInv => RecordsExplainThemselves
    <2> SUFFICES ASSUME RecordsInv, NEW d \in Device
                 PROVE  /\ \A b \in BaselineOf(doc[d]) : Explained(ReadBaselinePoint(doc[d], b))
                        /\ \A i \in PointsOf(doc[d]) :
                             LET p == ReadPoint(doc[d], i)
                             IN  /\ p.state = "scored" =>
                                      Chained(p.revisions, DOMAIN p.revisions, p.score)
                                 /\ p.election # None => D!OffBasis(p.basis, p.score)
      BY DEF RecordsExplainThemselves
    <2>1. ASSUME NEW b \in BaselineOf(doc[d]) PROVE Explained(ReadBaselinePoint(doc[d], b))
      <3>1. <<"baseline", b>> \in Keys(doc[d])
        BY DEF BaselineOf, Has
      <3>2. BaselineOK(ReadBaselinePoint(doc[d], b))
        BY <3>1, DocIs, ReadIs
      <3> QED
        BY <3>2 DEF BaselineOK
    <2>2. ASSUME NEW i \in PointsOf(doc[d]) PROVE PointOK(ReadPoint(doc[d], i))
      <3>1. i \in Id /\ <<"point", i>> \in Keys(doc[d])
        BY DEF PointsOf, Has
      <3>2. \E x \in doc[d].items : x.key = <<"point", i>> /\ x.val = ReadPoint(doc[d], i)
        BY <3>1, DocIs, GetIs DEF ReadPoint
      <3>3. ReadPoint(doc[d], i) \in Copies(i)
        BY <3>2, RecordedIs DEF Copies
      <3> QED
        BY <3>1, <3>3 DEF RecordsInv, PointsInv, CopiesInv
    <2> QED
      BY <2>1, <2>2 DEF PointOK
  <1> QED
    BY <1>1, RecordsInvariant, PTL

\* A goal has its student and its probe; one that is monitored can be; and it has an IEP
\* goal # unless its trail says that it was cleared (goal.ts, NewGoalScreen.tsx).
THEOREM CaseloadStaysWhole == RecordsSpec => []CaseloadIsWhole
  <1>1. RecordsInv => CaseloadIsWhole
    <2> SUFFICES ASSUME RecordsInv, NEW d \in Device, NEW i \in GoalsOf(doc[d])
                 PROVE  LET g == Get(doc[d], <<"goal", i>>)
                        IN  /\ g.student \in StudentsOf(doc[d]) /\ Has(doc[d], <<"probe", i>>)
                            /\ Chained(g.revisions, Trail(g, "label"), g.label)
                            /\ g.status = "active" =>
                                 /\ g.gaps = {}
                                 /\ IF Trail(g, "adopted") = {} THEN g.source = "eval"
                                    ELSE g.source = None /\ g.baseline # << >>
                                 /\ \A j, k \in Trail(g, "adopted") : j = k
                                 /\ g.label = None => Trail(g, "label") # {}
      BY DEF CaseloadIsWhole
    <2> DEFINE g == Get(doc[d], <<"goal", i>>)
    <2>1. i \in Id /\ <<"goal", i>> \in Keys(doc[d])
      BY DEF GoalsOf, Has
    <2>2. PICK x \in doc[d].items : x.key = <<"goal", i>> /\ x.val = g
      BY <2>1, DocIs, GetIs
    <2>3. Fits(doc[d], <<"goal", i>>, g)
      BY <2>2, DocIs DEF AllFit
    <2> HIDE DEF g
    <2>4. /\ GoalOK(g) /\ <<"student", g.student>> \in Keys(doc[d])
          /\ <<"probe", i>> \in Keys(doc[d])
      BY <2>1, <2>3 DEF Fits
    <2>5. Has(doc[d], <<"student", g.student>>) /\ Has(doc[d], <<"probe", i>>)
      <3>1. <<"student", g.student>>[1] # "point" /\ <<"probe", i>>[1] # "point"
        OBVIOUS
      <3> QED
        BY <2>4, <3>1, DocIs, HasIs
    <2>6. g.student \in Id
      BY <2>4 DEF GoalOK, GoalRecord
    <2>7. g.student \in StudentsOf(doc[d])
      BY <2>5, <2>6 DEF StudentsOf
    <2>8. /\ Chained(g.revisions, Trail(g, "label"), g.label)
          /\ g.status = "active" =>
               /\ g.gaps = {}
               /\ IF Trail(g, "adopted") = {} THEN g.source = "eval"
                  ELSE g.source = None /\ g.baseline # << >>
               /\ \A j, k \in Trail(g, "adopted") : j = k
               /\ g.label = None => Trail(g, "label") # {}
      BY <2>4 DEF GoalOK
    <2> QED
      BY Zenon, <2>5, <2>7, <2>8 DEF g
  <1> QED
    BY <1>1, RecordsInvariant, PTL

\* A baseline point that a device knows to be removed stays removed on it, whatever is
\* written over it elsewhere (withRemoval of data/repository.ts).
THEOREM RemovalsStick == RecordsSpec => RemovalSticks
  <1>1. RecordsInv /\ [RecordsNext]_vars =>
          \A d \in Rewritten : \A b \in BaselineOf(doc[d]) :
            ReadBaselinePoint(doc[d], b).removed => ReadBaselinePoint(doc'[d], b).removed
    <2> SUFFICES ASSUME RecordsInv, [RecordsNext]_vars, NEW d \in Device,
                        NEW b \in BaselineOf(doc[d]), ReadBaselinePoint(doc[d], b).removed
                 PROVE  ReadBaselinePoint(doc'[d], b).removed
      BY DEF Rewritten
    <2>1. RecordsInv' /\ doc[d].items \subseteq doc'[d].items
      BY RecordsStep DEF Kept, DocsGrow
    <2>2. <<"baseline", b>> \in Keys(doc[d])
      BY DEF BaselineOf, Has
    <2>3. <<"removal", b>> \in Keys(doc[d])
      BY <2>2, DocIs, ReadIs
    <2>4. <<"baseline", b>> \in Keys(doc'[d]) /\ <<"removal", b>> \in Keys(doc'[d])
      BY <2>1, <2>2, <2>3, ItemsGrowKeysGrow
    <2>5. Replicas(doc') /\ AllFit(doc'[d]) /\ OnlyPointsDie(doc'[d])
      BY <2>1 DEF RecordsInv, MasterInv, PointsInv, DeadInv, Removable, OnlyPointsDie
    <2> QED
      BY <2>4, <2>5, ReadIs
  <1> QED
    BY <1>1, RecordsInvariant, PTL DEF RecordsSpec, RemovalSticks

\* A scored data point is never un-scored nor taken away (data/writes.ts).
THEOREM ScoresNeverGo == RecordsSpec => ScoresStay
  <1>1. RecordsInv /\ [RecordsNext]_vars =>
          \A d \in Rewritten : \A i \in PointsOf(doc[d]) :
            ReadPoint(doc[d], i).state = "scored" =>
              i \in PointsOf(doc'[d]) /\ ReadPoint(doc'[d], i).state = "scored"
    <2> SUFFICES ASSUME RecordsInv, [RecordsNext]_vars, NEW d \in Device,
                        NEW i \in PointsOf(doc[d]), ReadPoint(doc[d], i).state = "scored"
                 PROVE  i \in PointsOf(doc'[d]) /\ ReadPoint(doc'[d], i).state = "scored"
      BY DEF Rewritten
    <2> DEFINE k == <<"point", i>>
    <2>1. RecordsInv' /\ doc[d].items \subseteq doc'[d].items
      BY RecordsStep DEF Kept, DocsGrow
    <2>2. i \in Id /\ k \in Keys(doc[d])
      BY DEF PointsOf, Has
    <2>3. PICK x \in doc[d].items : x.key = k /\ x.val.state = "scored"
      <3>1. \E x \in doc[d].items : x.key = k /\ x.val = ReadPoint(doc[d], i)
        BY <2>2, DocIs, GetIs DEF ReadPoint
      <3> QED
        BY <3>1
    <2>4. \A p \in Recorded(i)' : Says(p) = "scored" /\ p.state # "pending"
      <3>1. x.val \in Recorded(i)'
        BY <2>1, <2>3 DEF Recorded, Written
      <3>2. \A p \in Recorded(i)' : p \in Copies(i)'
        BY DEF Copies
      <3>3. Says(x.val) = "scored"
        BY <2>3 DEF Says
      <3> QED
        BY <2>1, <2>2, <3>1, <3>2, <3>3 DEF RecordsInv, PointsInv, CopiesInv, RecordedInv
    <2>5. \A p \in Recorded(i)' : p.state = "scored"
      BY <2>4 DEF Says
    <2>6. k \in Keys(doc'[d])
      BY <2>1, <2>2, ItemsGrowKeysGrow
    <2>7. \A e \in doc'[d].dead : e[1] # k
      <3> SUFFICES ASSUME NEW e \in doc'[d].dead, e[1] = k PROVE FALSE
        OBVIOUS
      <3>1. Removable(e)'
        BY <2>1 DEF RecordsInv, PointsInv, DeadInv
      <3>2. PICK j \in Id : e[1] = <<"point", j>> /\ \E p \in Recorded(j)' : p.state = "queued"
        BY <3>1 DEF Removable
      <3>3. j = i
        BY <3>2
      <3> QED
        BY <2>5, <3>2, <3>3
    <2>8. i \in PointsOf(doc'[d])
      <3>1. \A path : <<k, path>>[1] = k
        OBVIOUS
      <3> HIDE DEF k
      <3>2. Has(doc'[d], k)
        BY <2>6, <2>7, <3>1 DEF Has
      <3> QED
        BY <2>2, <3>2 DEF PointsOf, k
    <2>9. ReadPoint(doc'[d], i) \in Recorded(i)'
      <3>1. Replicas(doc')
        BY <2>1 DEF RecordsInv, MasterInv
      <3>2. PICK y \in doc'[d].items : y.key = k /\ y.val = Get(doc'[d], k)
        BY <2>6, <3>1, GetIs
      <3> QED
        BY <3>2 DEF Recorded, Written, ReadPoint
    <2> QED
      BY <2>5, <2>8, <2>9
  <1> QED
    BY <1>1, RecordsInvariant, PTL DEF RecordsSpec, ScoresStay

\* No point with a record in the device's master document comes onto its queue
\* (deriveParaQueue and masterFirstThenTombstone of data/session.ts).
THEOREM ValidatedStaysOff == RecordsSpec => ValidatedIsNotOffered
  <1>1. RecordsInv /\ [RecordsNext]_vars =>
          \A d \in Requeued : \A i \in PointsOf(doc[d]) :
            i \in DOMAIN queue'[d] => i \in DOMAIN queue[d]
    <2> SUFFICES ASSUME RecordsInv, RecordsNext, NEW d \in Device, queue'[d] # queue[d],
                        NEW i \in PointsOf(doc[d]), i \in DOMAIN queue'[d]
                 PROVE  FALSE
      BY DEF Requeued, vars
    <2>1. DOMAIN queue = Device
      BY DEF RecordsInv, ScreensInv
    <2>2. PICK e \in Bound[topic].devices :
            \/ BaselineTrack(e) \/ QuickScore(e) \/ ParaSession(e) \/ Validation(e)
            \/ \E n \in 1 .. Bound[topic].jobs : Advance(e, n)
            \/ SyncMaster(e) \/ SyncPara(e) \/ Reopen(e) \/ CaseloadTrack(e)
      BY DEF RecordsNext, Next
    <2>3. \E m : queue' = [queue EXCEPT ![e] = QueueOn(e, m)]
      <3> USE DEF OnlyMaster, Untouched
      <3>1. ~BaselineTrack(e)
        BY DEF BaselineTrack, AddBaselinePoint, FixDialog, FixBaseline, UseProbeTotal,
               RemoveBaseline, KeepBaseline, Adopt, EditArc, SaveGoalLabel
      <3>2. ~CaseloadTrack(e)
        BY DEF CaseloadTrack, SubmitNewGoal, AdoptDraft, Relabel
      <3>3. ~QuickScore(e)
        BY DEF QuickScore, OpenRow, OpenFromGoalDetail, OpenQueued, OpenSheet, ToggleLater,
               SaveScore, SaveNoData, BookmarkFromSheet, CloseSheet
      <3>4. ~(ParaSession(e) \/ Validation(e))
        BY DEF ParaSession, ParaRefresh, ParaCapture, Validation, RefreshQueue, ConfirmPara,
               FixPara, CommitParaFix
      <3>5. ~(SyncMaster(e) \/ SyncPara(e))
        BY DEF SyncMaster, SyncPara
      <3>6. ASSUME NEW n, Advance(e, n) PROVE queue' = [queue EXCEPT ![e] = QueueOn(e, pdoc[e])]
        BY <3>6 DEF Advance, Step
      <3>7. Reopen(e) => queue' = [queue EXCEPT ![e] = QueueOn(e, disk[e])]
        BY DEF Reopen
      <3> QED
        BY <2>2, <3>1, <3>2, <3>3, <3>4, <3>5, <3>6, <3>7
    <2>4. PICK m : queue' = [queue EXCEPT ![e] = QueueOn(e, m)]
      BY <2>3
    <2>5. e = d /\ queue'[d] = QueueOn(d, m)
      BY <2>1, <2>4
    <2> QED
      BY <2>5 DEF QueueOn, DeriveParaQueue
  <1> QED
    BY <1>1, RecordsInvariant, PTL DEF RecordsSpec, ValidatedIsNotOffered

-----------------------------------------------------------------------------
(* The library of materials *)

\* What a material was before its i-th revision, and what it is after the last one.
Stage(m, i) == IF i = Len(m.revisions) + 1 THEN Snapshot(m) ELSE m.revisions[i].old

\* A material that its revisions explain.
MaterialOK(m) ==
    /\ m = [facets |-> m.facets, active |-> m.active, created |-> m.created,
            revisions |-> m.revisions]
    /\ \E S : m.revisions \in Seq(S)
    /\ Stage(m, 1).active
    /\ \A i \in 1 .. Len(m.revisions) + 1 :
          /\ Accepted(Stage(m, i).facets)
          /\ Stage(m, i).created = m.created
          /\ i > 1 => m.revisions[i - 1].new = Stage(m, i)
          /\ i > 1 => (Stage(m, i).active => Stage(m, i - 1).active)

LibraryInv ==
    /\ records = [id \in DOMAIN records |-> records[id]]
    /\ \A id \in DOMAIN records : MaterialOK(records[id])

\* A material is made with no revision, and keeps the rules.
LEMMA MadeIsExplained ==
    ASSUME NEW facets, Accepted(facets), NEW when
    PROVE  MaterialOK([facets |-> facets, active |-> TRUE, created |-> when,
                       revisions |-> <<>>])
  <1> DEFINE m == [facets |-> facets, active |-> TRUE, created |-> when, revisions |-> <<>>]
  <1>1. m.revisions \in Seq({}) /\ Len(m.revisions) = 0
    OBVIOUS
  <1>2. /\ m.facets = facets /\ m.active = TRUE /\ m.created = when
        /\ m = [facets |-> m.facets, active |-> m.active, created |-> m.created,
                revisions |-> m.revisions]
    OBVIOUS
  <1> HIDE DEF m
  <1>3. \A i \in 1 .. Len(m.revisions) + 1 : i = 1
    BY <1>1
  <1>4. Stage(m, 1) = Snapshot(m)
    BY <1>1 DEF Stage
  <1>5. Stage(m, 1).active /\ Accepted(Stage(m, 1).facets) /\ Stage(m, 1).created = m.created
    BY <1>2, <1>4 DEF Snapshot
  <1>6. MaterialOK(m)
    BY <1>1, <1>2, <1>3, <1>5 DEF MaterialOK
  <1> QED
    BY <1>6 DEF m

\* A revision carries the chain on by one: from what the material was to what it is.
LEMMA RevisedIsExplained ==
    ASSUME NEW m, MaterialOK(m), NEW facets, Accepted(facets), NEW active, active => m.active
    PROVE  MaterialOK(RevisedMaterial(m, [m EXCEPT !.facets = facets, !.active = active]))
  <1> DEFINE next == [m EXCEPT !.facets = facets, !.active = active]
             r == RevisedMaterial(m, next)
             e == [old |-> Snapshot(m), new |-> Snapshot(next)]
             n == Len(m.revisions)
  <1>1. PICK S : m.revisions \in Seq(S)
    BY DEF MaterialOK
  <1>2. n \in Nat
    BY <1>1
  <1>3. /\ next.facets = facets /\ next.active = active /\ next.created = m.created
        /\ next = [facets |-> facets, active |-> active, created |-> m.created,
                   revisions |-> m.revisions]
    <2>1. m = [facets |-> m.facets, active |-> m.active, created |-> m.created,
               revisions |-> m.revisions]
      BY DEF MaterialOK
    <2>2. DOMAIN m = {"facets", "active", "created", "revisions"}
      BY <2>1
    <2>3. DOMAIN next = DOMAIN m
      OBVIOUS
    <2>4. next.facets = facets /\ next.active = active
      BY <2>2
    <2>5. next.created = m.created /\ next.revisions = m.revisions
      BY <2>2
    <2>6. next = [x \in DOMAIN m |-> next[x]]
      OBVIOUS
    <2> HIDE DEF next
    <2>7. next = [facets |-> facets, active |-> active, created |-> m.created,
                  revisions |-> m.revisions]
      BY <2>2, <2>3, <2>4, <2>5, <2>6
    <2> QED
      BY <2>4, <2>5, <2>7
  <1> HIDE DEF next, e
  <1>4. r = [facets |-> facets, active |-> active, created |-> m.created,
             revisions |-> Append(m.revisions, e)]
    <2>1. r = [next EXCEPT !.revisions = Append(m.revisions, e)]
      BY DEF RevisedMaterial, e
    <2> DEFINE longer == Append(m.revisions, e)
    <2> HIDE DEF r, longer
    <2>2. r = [next EXCEPT !.revisions = longer]
      BY <2>1 DEF longer
    <2>3. r = [facets |-> facets, active |-> active, created |-> m.created,
               revisions |-> longer]
      BY <1>3, <2>2
    <2> QED
      BY <2>3 DEF longer
  <1>5. /\ r.facets = facets /\ r.active = active /\ r.created = m.created
        /\ r.revisions = Append(m.revisions, e)
    BY <1>4
  <1>6. r.revisions \in Seq(S \cup {e}) /\ Len(r.revisions) = n + 1
    BY <1>1, <1>5
  <1>7. r.revisions[n + 1] = e /\ \A i \in 1 .. n : r.revisions[i] = m.revisions[i]
    BY <1>1, <1>5
  <1>8. Snapshot(r) = Snapshot(next)
    BY <1>3, <1>5 DEF Snapshot
  <1>9. e.old = Snapshot(m) /\ e.new = Snapshot(r)
    BY <1>8 DEF e
  <1> HIDE DEF r, n
  <1>10. \A i \in 1 .. n + 1 : Stage(r, i) = Stage(m, i)
    <2> SUFFICES ASSUME NEW i \in 1 .. n + 1 PROVE Stage(r, i) = Stage(m, i)
      OBVIOUS
    <2>1. Stage(r, i) = r.revisions[i].old
      BY <1>2, <1>6 DEF Stage
    <2>2. CASE i = n + 1
      BY <1>7, <1>9, <2>1, <2>2 DEF Stage, n
    <2>3. CASE i # n + 1
      <3>1. i \in 1 .. n
        BY <1>2, <2>3
      <3> QED
        BY <1>7, <2>1, <2>3, <3>1 DEF Stage, n
    <2> QED
      BY <2>2, <2>3
  <1>11. Stage(r, n + 2) = Snapshot(r)
    BY <1>2, <1>6 DEF Stage
  <1>12. Stage(m, n + 1) = Snapshot(m)
    BY DEF Stage, n
  <1>13. Stage(r, 1).active
    BY <1>2, <1>10 DEF MaterialOK
  <1>14. ASSUME NEW i \in 1 .. Len(r.revisions) + 1
         PROVE  /\ Accepted(Stage(r, i).facets)
                /\ Stage(r, i).created = r.created
                /\ i > 1 => r.revisions[i - 1].new = Stage(r, i)
                /\ i > 1 => (Stage(r, i).active => Stage(r, i - 1).active)
    <2>1. CASE i = n + 2
      <3>1. i - 1 = n + 1 /\ n + 1 \in 1 .. n + 1
        BY <1>2, <2>1
      <3>2. Stage(r, i) = Snapshot(r) /\ Stage(r, i - 1) = Snapshot(m)
        BY <1>10, <1>11, <1>12, <2>1, <3>1
      <3>3. /\ Snapshot(r).facets = facets /\ Snapshot(r).active = active
            /\ Snapshot(r).created = m.created /\ Snapshot(m).active = m.active
        BY <1>5 DEF Snapshot
      <3>4. r.revisions[i - 1].new = Snapshot(r)
        BY <1>7, <1>9, <3>1
      <3> QED
        BY <1>5, <3>2, <3>3, <3>4
    <2>2. CASE i # n + 2
      <3>1. i \in 1 .. n + 1
        BY <1>2, <1>6, <2>2
      <3>2. Stage(r, i) = Stage(m, i)
        BY <1>10, <3>1
      <3>3. /\ Accepted(Stage(m, i).facets)
            /\ Stage(m, i).created = m.created
            /\ i > 1 => m.revisions[i - 1].new = Stage(m, i)
            /\ i > 1 => (Stage(m, i).active => Stage(m, i - 1).active)
        BY <3>1 DEF MaterialOK, n
      <3>4. i > 1 => i - 1 \in 1 .. n
        BY <1>2, <3>1
      <3>5. i > 1 => r.revisions[i - 1] = m.revisions[i - 1] /\ Stage(r, i - 1) = Stage(m, i - 1)
        <4>1. i > 1 => i - 1 \in 1 .. n + 1
          BY <1>2, <3>1
        <4> QED
          BY <1>7, <1>10, <3>4, <4>1
      <3> QED
        BY <1>5, <3>2, <3>3, <3>5
    <2> QED
      BY <2>1, <2>2
  <1>15. MaterialOK(r)
    <2>1. r = [facets |-> r.facets, active |-> r.active, created |-> r.created,
               revisions |-> r.revisions]
      BY <1>4
    <2> QED
      BY <1>6, <1>13, <1>14, <2>1 DEF MaterialOK
  <1> QED
    BY <1>15 DEF r, next

\* A material is written that its revisions explain.
LEMMA MaterialWritten ==
    ASSUME LibraryInv, NEW id, NEW m, MaterialOK(m),
           records' = Persisted(records, id, m)
    PROVE  LibraryInv'
  <1>1. /\ DOMAIN records' = DOMAIN records \cup {id}
        /\ records' = [x \in DOMAIN records' |-> records'[x]]
        /\ \A x \in DOMAIN records' : records'[x] = IF x = id THEN m ELSE records[x]
    BY DEF Persisted
  <1>2. \A x \in DOMAIN records' : MaterialOK(records'[x])
    BY <1>1 DEF LibraryInv
  <1> QED
    BY <1>1, <1>2 DEF LibraryInv

\* A material is rewritten by one that its own revisions explain.
LEMMA CommitKeeps ==
    ASSUME LibraryInv, NEW id \in DOMAIN records,
           NEW facets, Accepted(facets), NEW active, active => records[id].active,
           CommitMaterial(id, [records[id] EXCEPT !.facets = facets, !.active = active])
    PROVE  LibraryInv'
  <1> DEFINE m == RevisedMaterial(records[id],
                      [records[id] EXCEPT !.facets = facets, !.active = active])
  <1>1. MaterialOK(m)
    BY RevisedIsExplained DEF LibraryInv
  <1> HIDE DEF m
  <1>2. records' = [records EXCEPT ![id] = m]
    BY DEF CommitMaterial, m
  <1>3. records' = Persisted(records, id, m)
    BY <1>2 DEF LibraryInv, Persisted
  <1> QED
    BY <1>1, <1>2, <1>3, MaterialWritten

\* An edit or a retirement carries the revisions on.
LEMMA EditsKeep ==
    ASSUME LibraryInv, Edits
    PROVE  LibraryInv'
  <1>1. PICK id \in Material :
            \/ \E input \in Input, when \in Time : CreateMaterial(id, input, when)
            \/ \E seed \in CatalogSeed, mod \in AccomMods, when \in Time :
                  ImportSeed(id, seed, mod, when)
            \/ \E patch \in Patch : EditMaterial(id, patch)
            \/ \E patch \in Patch : RetagMaterial(id, patch)
            \/ RetireMaterial(id)
    BY DEF Edits
  <1>2. ASSUME NEW input, NEW when, CreateMaterial(id, input, when) PROVE LibraryInv'
    <2>1. /\ Accepted(input)
          /\ records' = Persisted(records, id,
                [facets |-> input, active |-> TRUE, created |-> when, revisions |-> <<>>])
      BY <1>2 DEF CreateMaterial
    <2> QED
      BY <2>1, MadeIsExplained, MaterialWritten
  <1>3. ASSUME NEW patch, ApplyMaterialEdit(id, patch) PROVE LibraryInv'
    <2> DEFINE facets == MergeFields(records[id].facets, patch)
    <2>1. /\ id \in DOMAIN records /\ Accepted(facets)
          /\ CommitMaterial(id, [records[id] EXCEPT !.facets = facets])
      BY <1>3 DEF ApplyMaterialEdit, Known
    <2> HIDE DEF facets
    <2>2. [records[id] EXCEPT !.facets = facets] =
          [records[id] EXCEPT !.facets = facets, !.active = records[id].active]
      BY <2>1 DEF LibraryInv, MaterialOK
    <2>3. CommitMaterial(id, [records[id] EXCEPT !.facets = facets, !.active = records[id].active])
      BY <2>1, <2>2
    <2> QED
      BY <2>1, <2>3, CommitKeeps
  <1>4. ASSUME RetireMaterial(id) PROVE LibraryInv'
    <2>1. /\ id \in DOMAIN records /\ records[id].active
          /\ CommitMaterial(id, [records[id] EXCEPT !.active = FALSE])
      BY <1>4 DEF RetireMaterial, Known
    <2>2. MaterialOK(records[id])
      BY <2>1 DEF LibraryInv
    <2>3. [records[id] EXCEPT !.active = FALSE] =
          [records[id] EXCEPT !.facets = records[id].facets, !.active = FALSE]
      BY <2>2 DEF MaterialOK
    <2>4. Accepted(records[id].facets)
      <3>1. PICK S : records[id].revisions \in Seq(S)
        BY <2>2 DEF MaterialOK
      <3>2. Len(records[id].revisions) + 1 \in 1 .. Len(records[id].revisions) + 1
        BY <3>1
      <3>3. Stage(records[id], Len(records[id].revisions) + 1) = Snapshot(records[id])
        BY DEF Stage
      <3> QED
        BY <2>2, <3>2, <3>3 DEF MaterialOK, Snapshot
    <2>5. CommitMaterial(id, [records[id] EXCEPT !.facets = records[id].facets, !.active = FALSE])
      BY <2>1, <2>3
    <2> QED
      BY <2>1, <2>4, <2>5, CommitKeeps
  <1> QED
    BY <1>1, <1>2, <1>3, <1>4 DEF ImportSeed, EditMaterial, RetagMaterial

\* The invariant holds of every behaviour of the stores.
LEMMA LibraryInvariant == MaterialsSpec => []LibraryInv
  <1>1. MaterialsInit => LibraryInv
    BY DEF MaterialsInit, LibraryInv
  <1>2. LibraryInv /\ [MaterialsNext]_materialVars => LibraryInv'
    <2> SUFFICES ASSUME LibraryInv, [MaterialsNext]_materialVars PROVE LibraryInv'
      OBVIOUS
    <2>1. CASE UNCHANGED materialVars
      BY <2>1 DEF materialVars, LibraryInv
    <2> QED
      <3>1. CASE Attaches \/ Detaches
        <4>1. UNCHANGED records
          BY <3>1 DEF Attaches, Detaches, AttachMaterialToGoal, AttachMaterialToStudent,
                      DetachMaterialFromGoal, DetachMaterialFromStudent
        <4> QED
          BY <4>1 DEF LibraryInv
      <3> QED
        BY <2>1, <3>1, EditsKeep DEF MaterialsNext
  <1> QED
    BY <1>1, <1>2, PTL DEF MaterialsSpec

(***************************************************************************)
(* The audit trail of every material of the library (#commit of            *)
(* material-store.ts) leads from the material as it was made to the one it *)
(* is, through materials that keep the rules, whatever is edited, retagged *)
(* and retired, however often.                                             *)
(***************************************************************************)
THEOREM RevisionsAlwaysExplain == MaterialsSpec => []RevisionsExplainMaterials
  <1>1. LibraryInv => RevisionsExplainMaterials
    BY DEF LibraryInv, MaterialOK, Stage, RevisionsExplainMaterials
  <1> QED
    BY <1>1, LibraryInvariant, PTL
=============================================================================
