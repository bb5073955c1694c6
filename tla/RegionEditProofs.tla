-------------------------- MODULE RegionEditProofs --------------------------
(***************************************************************************)
(* The undo history of the selector, for any bounds, positions, sizes and  *)
(* regions: it can be walked back and forth without loss, an annotation    *)
(* has one owner, annotations stay in the order they were drawn in, and    *)
(* undoing everything leads back to the selector as it was opened.         *)
(***************************************************************************)
EXTENDS RegionEdit, FiniteSetTheorems, FunctionTheorems, SequenceTheorems, WellFoundedInduction,
        TLAPS

-----------------------------------------------------------------------------
(* Induction and recursion along a part of the numbers, in terms of sets.  *)

LEMMA Steps ==
  ASSUME NEW n \in Nat, NEW S, 0 \in S, \A k \in 0 .. n - 1 : k \in S => k + 1 \in S
  PROVE  0 .. n \subseteq S
<1> DEFINE T == {k \in 0 .. n : k \notin S}
<1> SUFFICES ASSUME T # {} PROVE FALSE
  OBVIOUS
<1>1. T \subseteq Nat
  OBVIOUS
<1>2. PICK x \in T : \A y \in T : ~(<<y, x>> \in OpToRel(<, Nat))
  BY <1>1, NatLessThanWellFounded, WFMin
<1>3. \A y \in T : ~(y < x)
  BY <1>1, <1>2 DEF OpToRel
<1>4. x \in 1 .. n
  <2>1. x \in 0 .. n /\ x \notin S
    BY <1>2
  <2> QED
    BY <2>1
<1>5. x - 1 \in S
  BY <1>3, <1>4
<1>6. x - 1 \in 0 .. n - 1 /\ x - 1 + 1 = x
  BY <1>4
<1> QED
  BY <1>2, <1>5, <1>6

\* What takes the values of V to values of V, at each of n steps; and the walks from v.
Moves(V, n)       == [1 .. n -> [V -> V]]
Walks(V, n, v, F) == {w \in [0 .. n -> V] : w[0] = v /\ \A k \in 1 .. n : w[k] = F[k][w[k - 1]]}

LEMMA WalkExists ==
  ASSUME NEW V, NEW n \in Nat, NEW v \in V, NEW F \in Moves(V, n)
  PROVE  Walks(V, n, v, F) # {}
<1> USE DEF Moves
<1> DEFINE Good(m, w) == w[0] = v /\ \A k \in 1 .. m : w[k] = F[k][w[k - 1]]
           S == {m \in 0 .. n : \E w \in [0 .. m -> V] : Good(m, w)}
<1>1. 0 \in S
  <2>1. [i \in 0 .. 0 |-> v] \in [0 .. 0 -> V]
    OBVIOUS
  <2>2. Good(0, [i \in 0 .. 0 |-> v])
    OBVIOUS
  <2>3. \E w \in [0 .. 0 -> V] : Good(0, w)
    BY <2>1, <2>2
  <2> QED
    BY <2>3
<1>2. ASSUME NEW m \in 0 .. n - 1, m \in S PROVE m + 1 \in S
  <2>1. PICK w \in [0 .. m -> V] : Good(m, w)
    BY <1>2
  <2> DEFINE u == [i \in 0 .. m + 1 |-> IF i <= m THEN w[i] ELSE F[m + 1][w[m]]]
  <2>2. w[m] \in V /\ m + 1 \in 1 .. n
    OBVIOUS
  <2>3. F[m + 1][w[m]] \in V
    BY <2>2
  <2>4. u \in [0 .. m + 1 -> V]
    BY <2>3
  <2>5. u[0] = v
    BY <2>1
  <2>6. \A k \in 1 .. m : u[k] = w[k] /\ u[k - 1] = w[k - 1]
    OBVIOUS
  <2>7. u[m + 1] = F[m + 1][w[m]] /\ u[m] = w[m]
    OBVIOUS
  <2>8. ASSUME NEW k \in 1 .. m + 1 PROVE u[k] = F[k][u[k - 1]]
    <3>1. CASE k \in 1 .. m
      BY <3>1, <2>1, <2>6
    <3>2. CASE k = m + 1
      <4>1. k - 1 = m
        BY <3>2
      <4> HIDE DEF u
      <4> QED
        BY <4>1, <3>2, <2>7
    <3> QED
      BY <3>1, <3>2
  <2> HIDE DEF u
  <2>9. m + 1 \in 0 .. n
    OBVIOUS
  <2> QED
    BY <2>4, <2>5, <2>8, <2>9
<1>3. 0 .. n \subseteq S
  <2> HIDE DEF S
  <2> QED
    BY <1>1, <1>2, Steps
<1>4. n \in S
  BY <1>3
<1>5. PICK w \in [0 .. n -> V] : Good(n, w)
  BY <1>4
<1> QED
  BY <1>5 DEF Walks

LEMMA IsSeq ==
  ASSUME NEW X, NEW n \in Nat, NEW s \in [1 .. n -> X]
  PROVE  s \in Seq(X) /\ Len(s) = n
OBVIOUS

\* The walks of the model are walks: n undos, n redos, the items of a group.
UndoClosed(D) == \A x \in D : UndoPop(x) \in D
UndoWalks(D, d, n) ==
  {w \in [0 .. n -> D] : /\ w[0] = d /\ Undos(d, n) = w[n]
                         /\ \A k \in 1 .. n : w[k] = UndoPop(w[k - 1])}
LEMMA UndosWalk ==
  ASSUME NEW D, NEW d \in D, NEW n \in Nat, UndoClosed(D)
  PROVE  UndoWalks(D, d, n) # {}
<1> USE DEF UndoClosed
<1> DEFINE F == [k \in 1 .. n |-> [x \in D |-> UndoPop(x)]]
           G(f) == [i \in 0 .. n |-> IF i = 0 THEN d ELSE UndoPop(f[i - 1])]
           u == CHOOSE f : f = G(f)
<1>1. F \in Moves(D, n)
  BY DEF Moves
<1>2. PICK w : w \in Walks(D, n, d, F)
  <2> HIDE DEF F
  <2> QED
    BY <1>1, WalkExists
<1>3. w \in [0 .. n -> D] /\ w[0] = d /\ \A k \in 1 .. n : w[k] = UndoPop(w[k - 1])
  <2>1. w \in [0 .. n -> D] /\ w[0] = d /\ \A k \in 1 .. n : w[k] = F[k][w[k - 1]]
    <3> HIDE DEF F
    <3> QED
      BY <1>2 DEF Walks
  <2>2. \A k \in 1 .. n : w[k - 1] \in D
    BY <2>1
  <2> QED
    BY <2>1, <2>2
<1>4. w = G(w)
  <2>1. \A i \in 0 .. n : w[i] = G(w)[i]
    BY <1>3
  <2> QED
    BY <2>1, <1>3
<1>5. u = G(u)
  BY <1>4
<1>6. Undos(d, n) = u[n]
  BY DEF Undos
<1> HIDE DEF u
<1>7. u[0] = d /\ \A k \in 1 .. n : u[k] = UndoPop(u[k - 1])
  BY <1>5
<1> DEFINE S == {k \in 0 .. n : u[k] \in D}
<1>8. 0 .. n \subseteq S
  <2>1. 0 \in S
    BY <1>7
  <2>2. ASSUME NEW k \in 0 .. n - 1, k \in S PROVE k + 1 \in S
    <3>1. k + 1 \in 1 .. n /\ k + 1 - 1 = k /\ k + 1 \in 0 .. n
      OBVIOUS
    <3>2. u[k + 1] = UndoPop(u[k])
      BY <1>7, <3>1
    <3> QED
      BY <3>1, <3>2, <2>2
  <2> HIDE DEF S
  <2> QED
    BY <2>1, <2>2, Steps
<1>9. u \in [0 .. n -> D]
  BY <1>5, <1>8
<1> QED
  BY <1>6, <1>7, <1>9 DEF UndoWalks

RedoClosed(D) == \A x \in D : RedoPop(x) \in D
RedoWalks(D, d, n) ==
  {w \in [0 .. n -> D] : /\ w[0] = d /\ Redos(d, n) = w[n]
                         /\ \A k \in 1 .. n : w[k] = RedoPop(w[k - 1])}
LEMMA RedosWalk ==
  ASSUME NEW D, NEW d \in D, NEW n \in Nat, RedoClosed(D)
  PROVE  RedoWalks(D, d, n) # {}
<1> USE DEF RedoClosed
<1> DEFINE F == [k \in 1 .. n |-> [x \in D |-> RedoPop(x)]]
           G(f) == [i \in 0 .. n |-> IF i = 0 THEN d ELSE RedoPop(f[i - 1])]
           u == CHOOSE f : f = G(f)
<1>1. F \in Moves(D, n)
  BY DEF Moves
<1>2. PICK w : w \in Walks(D, n, d, F)
  <2> HIDE DEF F
  <2> QED
    BY <1>1, WalkExists
<1>3. w \in [0 .. n -> D] /\ w[0] = d /\ \A k \in 1 .. n : w[k] = RedoPop(w[k - 1])
  <2>1. w \in [0 .. n -> D] /\ w[0] = d /\ \A k \in 1 .. n : w[k] = F[k][w[k - 1]]
    <3> HIDE DEF F
    <3> QED
      BY <1>2 DEF Walks
  <2>2. \A k \in 1 .. n : w[k - 1] \in D
    BY <2>1
  <2> QED
    BY <2>1, <2>2
<1>4. w = G(w)
  <2>1. \A i \in 0 .. n : w[i] = G(w)[i]
    BY <1>3
  <2> QED
    BY <2>1, <1>3
<1>5. u = G(u)
  BY <1>4
<1>6. Redos(d, n) = u[n]
  BY DEF Redos
<1> HIDE DEF u
<1>7. u[0] = d /\ \A k \in 1 .. n : u[k] = RedoPop(u[k - 1])
  BY <1>5
<1> DEFINE S == {k \in 0 .. n : u[k] \in D}
<1>8. 0 .. n \subseteq S
  <2>1. 0 \in S
    BY <1>7
  <2>2. ASSUME NEW k \in 0 .. n - 1, k \in S PROVE k + 1 \in S
    <3>1. k + 1 \in 1 .. n /\ k + 1 - 1 = k /\ k + 1 \in 0 .. n
      OBVIOUS
    <3>2. u[k + 1] = RedoPop(u[k])
      BY <1>7, <3>1
    <3> QED
      BY <3>1, <3>2, <2>2
  <2> HIDE DEF S
  <2> QED
    BY <2>1, <2>2, Steps
<1>9. u \in [0 .. n -> D]
  BY <1>5, <1>8
<1> QED
  BY <1>6, <1>7, <1>9 DEF RedoWalks

-----------------------------------------------------------------------------
(* The shapes of annotations, undo items and documents.                    *)

Places  == Nat \ {0}
AnnoSet == [id : Nat, at : Int, attr : Attrs, sel : BOOLEAN]
Items ==
  [k : {"region"}, old : Regions] \cup [k : {"add"}] \cup [k : {"readd"}, a : AnnoSet]
    \cup [k : {"delete"}, i : Places, a : AnnoSet] \cup [k : {"redelete"}, i : Places]
    \cup [k : {"move"}, i : Places, d : Int] \cup [k : {"geom"}, i : Places, at : Int]
    \cup [k : {"attr"}, i : Places, v : Attrs]
Docs == [annos : Seq(AnnoSet), region : Regions, sel : Nat, undo : Seq(Seq(Items)),
         redo : Seq(Seq(Items)), snap : SUBSET Regions]

LEMMA ItemShapes ==
  ASSUME NEW it \in Items
  PROVE  /\ it.k \in {"region", "add", "readd", "delete", "redelete", "move", "geom", "attr"}
         /\ it.k = "region" => it \in [k : {"region"}, old : Regions]
         /\ it.k = "add" => it \in [k : {"add"}]
         /\ it.k = "readd" => it \in [k : {"readd"}, a : AnnoSet]
         /\ it.k = "delete" => it \in [k : {"delete"}, i : Places, a : AnnoSet]
         /\ it.k = "redelete" => it \in [k : {"redelete"}, i : Places]
         /\ it.k = "move" => it \in [k : {"move"}, i : Places, d : Int]
         /\ it.k = "geom" => it \in [k : {"geom"}, i : Places, at : Int]
         /\ it.k = "attr" => it \in [k : {"attr"}, i : Places, v : Attrs]
BY DEF Items

LEMMA AnnoChanged ==
  ASSUME NEW a \in AnnoSet
  PROVE  /\ a.id \in Nat /\ a.at \in Int /\ a.attr \in Attrs /\ a.sel \in BOOLEAN
         /\ \A v \in Int : /\ [a EXCEPT !.at = v] \in AnnoSet
                           /\ [a EXCEPT !.at = v].id = a.id /\ [a EXCEPT !.at = v].at = v
         /\ \A v \in Attrs : /\ [a EXCEPT !.attr = v] \in AnnoSet
                             /\ [a EXCEPT !.attr = v].id = a.id /\ [a EXCEPT !.attr = v].attr = v
         /\ \A v \in BOOLEAN : /\ [a EXCEPT !.sel = v] \in AnnoSet
                               /\ [a EXCEPT !.sel = v].id = a.id /\ [a EXCEPT !.sel = v].sel = v
         /\ \A v, u : [[a EXCEPT !.at = v] EXCEPT !.at = u] = [a EXCEPT !.at = u]
         /\ \A v, u : [[a EXCEPT !.attr = v] EXCEPT !.attr = u] = [a EXCEPT !.attr = u]
         /\ [a EXCEPT !.at = a.at] = a /\ [a EXCEPT !.attr = a.attr] = a
BY DEF AnnoSet

LEMMA BlankIsAnno == Blank \in AnnoSet
BY BoundsAssumption DEF Blank, AnnoSet

\* x with a at place i; and without what is at place i.
Put(x, i, a) == [j \in 1 .. Len(x) + 1 |-> IF j < i THEN x[j] ELSE IF j = i THEN a ELSE x[j - 1]]
Cut(x, i)    == [j \in 1 .. Len(x) - 1 |-> IF j < i THEN x[j] ELSE x[j + 1]]

LEMMA PutIsSeq ==
  ASSUME NEW X, NEW x \in Seq(X), NEW a \in X, NEW i \in 1 .. Len(x) + 1
  PROVE  Put(x, i, a) \in Seq(X) /\ Len(Put(x, i, a)) = Len(x) + 1
<1>1. \A j \in 1 .. Len(x) + 1 : (IF j < i THEN x[j] ELSE IF j = i THEN a ELSE x[j - 1]) \in X
  OBVIOUS
<1>2. Put(x, i, a) \in [1 .. Len(x) + 1 -> X]
  BY <1>1 DEF Put
<1> QED
  BY <1>2, IsSeq

LEMMA CutIsSeq ==
  ASSUME NEW X, NEW x \in Seq(X), NEW i \in 1 .. Len(x)
  PROVE  Cut(x, i) \in Seq(X) /\ Len(Cut(x, i)) = Len(x) - 1
<1>1. \A j \in 1 .. Len(x) - 1 : (IF j < i THEN x[j] ELSE x[j + 1]) \in X
  OBVIOUS
<1>2. Cut(x, i) \in [1 .. Len(x) - 1 -> X]
  BY <1>1 DEF Cut
<1> QED
  BY <1>2, IsSeq

\* The two take each other back.
LEMMA CutOfPut ==
  ASSUME NEW X, NEW x \in Seq(X), NEW a \in X, NEW i \in 1 .. Len(x) + 1
  PROVE  Cut(Put(x, i, a), i) = x /\ Put(x, i, a)[i] = a
<1>1. Put(x, i, a) \in Seq(X) /\ Len(Put(x, i, a)) = Len(x) + 1
  BY PutIsSeq
<1>2. Cut(Put(x, i, a), i) \in Seq(X) /\ Len(Cut(Put(x, i, a), i)) = Len(x)
  BY <1>1, CutIsSeq
<1>3. \A j \in 1 .. Len(x) : Cut(Put(x, i, a), i)[j] = x[j]
  BY <1>1 DEF Cut, Put
<1>4. Cut(Put(x, i, a), i) = x
  BY <1>2, <1>3, SeqEqual
<1> QED
  BY <1>4 DEF Put

LEMMA PutOfCut ==
  ASSUME NEW X, NEW x \in Seq(X), NEW i \in 1 .. Len(x)
  PROVE  Put(Cut(x, i), i, x[i]) = x
<1>1. Cut(x, i) \in Seq(X) /\ Len(Cut(x, i)) = Len(x) - 1
  BY CutIsSeq
<1>2. x[i] \in X /\ i \in 1 .. Len(Cut(x, i)) + 1
  BY <1>1
<1>3. Put(Cut(x, i), i, x[i]) \in Seq(X) /\ Len(Put(Cut(x, i), i, x[i])) = Len(x)
  BY <1>1, <1>2, PutIsSeq
<1>4. \A j \in 1 .. Len(x) : Put(Cut(x, i), i, x[i])[j] = x[j]
  BY <1>1 DEF Cut, Put
<1> QED
  BY <1>3, <1>4, SeqEqual

\* The operators on sequences that the model has, in these terms.
LEMMA AppendIsPut ==
  ASSUME NEW X, NEW x \in Seq(X), NEW a \in X
  PROVE  Append(x, a) = Put(x, Len(x) + 1, a)
<1>1. Put(x, Len(x) + 1, a) \in Seq(X) /\ Len(Put(x, Len(x) + 1, a)) = Len(x) + 1
  BY PutIsSeq
<1>2. \A j \in 1 .. Len(x) + 1 : Append(x, a)[j] = Put(x, Len(x) + 1, a)[j]
  BY DEF Put
<1>3. Append(x, a) \in Seq(X) /\ Len(Append(x, a)) = Len(x) + 1
  OBVIOUS
<1> QED
  BY <1>1, <1>2, <1>3, SeqEqual

LEMMA PrefixIs ==
  ASSUME NEW X, NEW x \in Seq(X), NEW i \in 1 .. Len(x) + 1
  PROVE  /\ SubSeq(x, 1, i - 1) \in Seq(X) /\ Len(SubSeq(x, 1, i - 1)) = i - 1
         /\ \A j \in 1 .. i - 1 : SubSeq(x, 1, i - 1)[j] = x[j]
OBVIOUS

LEMMA FrontIsCut ==
  ASSUME NEW X, NEW x \in Seq(X), x # <<>>
  PROVE  /\ Len(x) \in 1 .. Len(x) /\ Last(x) = x[Len(x)] /\ Last(x) \in X
         /\ Front(x) = Cut(x, Len(x)) /\ Front(x) \in Seq(X) /\ Len(Front(x)) = Len(x) - 1
         /\ \A j \in 1 .. Len(x) - 1 : Front(x)[j] = x[j]
<1>1. Len(x) \in 1 .. Len(x) /\ Len(x) \in 1 .. Len(x) + 1
  OBVIOUS
<1>2. Cut(x, Len(x)) \in Seq(X) /\ Len(Cut(x, Len(x))) = Len(x) - 1
  BY <1>1, CutIsSeq
<1>3. /\ Front(x) \in Seq(X) /\ Len(Front(x)) = Len(x) - 1
      /\ \A j \in 1 .. Len(x) - 1 : Front(x)[j] = x[j]
  BY <1>1, PrefixIs DEF Front
<1>4. \A j \in 1 .. Len(x) - 1 : Front(x)[j] = Cut(x, Len(x))[j]
  BY <1>1, <1>3 DEF Cut
<1>5. Front(x) = Cut(x, Len(x))
  BY <1>2, <1>3, <1>4, SeqEqual
<1> QED
  BY <1>1, <1>3, <1>5 DEF Last

LEMMA InsertIsPut ==
  ASSUME NEW X, NEW x \in Seq(X), NEW a \in X, NEW i \in 1 .. Len(x) + 1
  PROVE  InsertAt(x, i, a) = Put(x, i, a)
<1>1. Put(x, i, a) \in Seq(X) /\ Len(Put(x, i, a)) = Len(x) + 1
  BY PutIsSeq
<1> DEFINE l == SubSeq(x, 1, i - 1)
           r == SubSeq(x, i, Len(x))
<1>2. /\ l \in Seq(X) /\ Len(l) = i - 1 /\ \A j \in 1 .. i - 1 : l[j] = x[j]
      /\ r \in Seq(X) /\ Len(r) = Len(x) + 1 - i /\ \A j \in 1 .. Len(x) + 1 - i : r[j] = x[i + j - 1]
  OBVIOUS
<1> HIDE DEF l, r
<1> DEFINE m == l \o <<a>>
<1>3. m \in Seq(X) /\ Len(m) = i /\ m[i] = a /\ \A j \in 1 .. i - 1 : m[j] = x[j]
  <2>1. <<a>> \in Seq(X) /\ Len(<<a>>) = 1 /\ <<a>>[1] = a
    OBVIOUS
  <2>2. /\ m \in Seq(X) /\ Len(m) = Len(l) + Len(<<a>>)
        /\ \A j \in 1 .. Len(l) + Len(<<a>>) : m[j] = IF j <= Len(l) THEN l[j] ELSE <<a>>[j - Len(l)]
    BY <1>2, <2>1, ConcatProperties
  <2>3. Len(l) + Len(<<a>>) = i
    BY <1>2, <2>1
  <2> HIDE DEF m
  <2>4. \A j \in 1 .. i : m[j] = IF j <= i - 1 THEN l[j] ELSE <<a>>[j - (i - 1)]
    BY <2>2, <2>3, <1>2
  <2>5. m[i] = a
    BY <2>4, <2>1
  <2>6. \A j \in 1 .. i - 1 : m[j] = l[j]
    BY <2>4
  <2> QED
    BY <1>2, <2>2, <2>3, <2>5, <2>6
<1> HIDE DEF m
<1>4. m \o r \in Seq(X) /\ Len(m \o r) = Len(x) + 1
  BY <1>2, <1>3
<1>5. \A j \in 1 .. Len(x) + 1 : (m \o r)[j] = Put(x, i, a)[j]
  <2> TAKE j \in 1 .. Len(x) + 1
  <2>1. CASE j <= i
    BY <2>1, <1>2, <1>3 DEF Put
  <2>2. CASE j > i
    <3>1. (m \o r)[j] = r[j - i] /\ j - i \in 1 .. Len(x) + 1 - i
      BY <2>2, <1>2, <1>3
    <3>2. r[j - i] = x[j - 1]
      BY <3>1, <1>2
    <3> QED
      BY <2>2, <3>1, <3>2 DEF Put
  <2>3. j <= i \/ j > i
    OBVIOUS
  <2> QED
    BY <2>1, <2>2, <2>3
<1>6. m \o r = Put(x, i, a)
  <2>1. Len(m \o r) = Len(Put(x, i, a)) /\ \A j \in 1 .. Len(m \o r) : (m \o r)[j] = Put(x, i, a)[j]
    BY <1>1, <1>4, <1>5
  <2> QED
    BY <1>1, <1>4, <2>1, SeqEqual
<1> QED
  BY <1>6 DEF InsertAt, m, l, r

LEMMA RemoveIsCut ==
  ASSUME NEW X, NEW x \in Seq(X), NEW i \in 1 .. Len(x)
  PROVE  RemoveAt(x, i) = Cut(x, i)
<1>1. Cut(x, i) \in Seq(X) /\ Len(Cut(x, i)) = Len(x) - 1
  BY CutIsSeq
<1> DEFINE l == SubSeq(x, 1, i - 1)
           r == SubSeq(x, i + 1, Len(x))
<1>2. /\ l \in Seq(X) /\ Len(l) = i - 1 /\ \A j \in 1 .. i - 1 : l[j] = x[j]
      /\ r \in Seq(X) /\ Len(r) = Len(x) - i /\ \A j \in 1 .. Len(x) - i : r[j] = x[i + j]
  OBVIOUS
<1> HIDE DEF l, r
<1>3. Len(x) \in Nat /\ (i - 1) + (Len(x) - i) = Len(x) - 1
  OBVIOUS
<1>4. l \o r \in Seq(X) /\ Len(l \o r) = Len(x) - 1
  <2>1. l \o r \in Seq(X) /\ Len(l \o r) = Len(l) + Len(r)
    BY <1>2, ConcatProperties, Zenon
  <2> QED
    BY <1>2, <1>3, <2>1
<1>5. \A j \in 1 .. Len(x) - 1 : (l \o r)[j] = Cut(x, i)[j]
  BY <1>2 DEF Cut
<1>6. l \o r = Cut(x, i)
  BY <1>1, <1>4, <1>5, SeqEqual
<1> QED
  BY <1>6 DEF RemoveAt, l, r


-----------------------------------------------------------------------------
(* One item of a group, and the item that takes it back.                   *)

Grows   == {"readd", "delete"}
Shrinks == {"add", "redelete"}
Plain   == {"region", "move", "geom", "attr"}
\* where the item adds to a list of n or takes from it
Place(it, n) == IF it.k = "readd" THEN n + 1 ELSE IF it.k = "add" THEN n ELSE it.i
IdsOf(s) == [i \in 1 .. Len(s) |-> s[i].id]

\* the item is about a list of n
FitsIn(it, n) ==
  /\ it.k \in Grows => Place(it, n) \in 1 .. n + 1
  /\ it.k \in Shrinks => Place(it, n) \in 1 .. n
  /\ it.k \in Plain \ {"region"} => it.i \in 1 .. n

LEMMA AppliedIs ==
  ASSUME NEW d \in Docs, NEW it \in Items
  PROVE  /\ Applied(d, it).annos = ItemAnnos(d, it)
         /\ Applied(d, it).region = IF it.k = "region" THEN it.old ELSE d.region
         /\ Applied(d, it).sel = IF d.sel > Len(ItemAnnos(d, it)) THEN 0 ELSE d.sel
         /\ Applied(d, it).undo = d.undo /\ Applied(d, it).redo = d.redo
         /\ Applied(d, it).snap = d.snap
BY DEF Applied, Docs

LEMMA GrownIs ==
  ASSUME NEW d \in Docs, NEW it \in Items, it.k \in Grows, FitsIn(it, Len(d.annos))
  PROVE  LET p == Place(it, Len(d.annos)) IN
         /\ p \in 1 .. Len(d.annos) + 1 /\ it.a \in AnnoSet
         /\ ItemAnnos(d, it) = Put(d.annos, p, it.a)
         /\ Inverted(d, it) \in Items /\ Inverted(d, it).k \in Shrinks
         /\ Place(Inverted(d, it), Len(d.annos) + 1) = p
<1> DEFINE s == d.annos
           p == Place(it, Len(s))
<1>0. s \in Seq(AnnoSet)
  BY DEF Docs
<1>1. p \in 1 .. Len(s) + 1
  BY DEF FitsIn
<1>2. CASE it.k = "readd"
  <2>1. p = Len(s) + 1 /\ it.a \in AnnoSet
    BY <1>2, ItemShapes DEF Place
  <2>2. ItemAnnos(d, it) = Append(s, it.a)
    BY <1>2 DEF ItemAnnos
  <2>3. ItemAnnos(d, it) = Put(s, p, it.a)
    BY <1>0, <2>1, <2>2, AppendIsPut
  <2>4. Inverted(d, it) = [k |-> "add"]
    BY <1>2 DEF Inverted
  <2> QED
    BY <1>1, <2>1, <2>3, <2>4 DEF Items, Shrinks, Place
<1>3. CASE it.k = "delete"
  <2>1. p = it.i /\ it.a \in AnnoSet /\ it.i \in Places
    BY <1>3, ItemShapes DEF Place
  <2>2. ItemAnnos(d, it) = InsertAt(s, IF p > Len(s) THEN Len(s) + 1 ELSE p, it.a)
    BY <1>3, <2>1 DEF ItemAnnos, InsertAnno
  <2>3. (IF p > Len(s) THEN Len(s) + 1 ELSE p) = p
    BY <1>0, <1>1
  <2>4. ItemAnnos(d, it) = Put(s, p, it.a)
    BY <1>0, <1>1, <2>1, <2>2, <2>3, InsertIsPut
  <2>5. Inverted(d, it) = [k |-> "redelete", i |-> it.i]
    BY <1>3 DEF Inverted
  <2> QED
    BY <1>1, <2>1, <2>4, <2>5 DEF Items, Shrinks, Place
<1> QED
  BY <1>2, <1>3 DEF Grows

LEMMA ShrunkIs ==
  ASSUME NEW d \in Docs, NEW it \in Items, it.k \in Shrinks, FitsIn(it, Len(d.annos))
  PROVE  LET p == Place(it, Len(d.annos)) IN
         /\ p \in 1 .. Len(d.annos)
         /\ ItemAnnos(d, it) = Cut(d.annos, p)
         /\ Inverted(d, it) \in Items /\ Inverted(d, it).k \in Grows
         /\ Inverted(d, it).a = d.annos[p]
         /\ Place(Inverted(d, it), Len(d.annos) - 1) = p
<1> DEFINE s == d.annos
           p == Place(it, Len(s))
<1>0. s \in Seq(AnnoSet)
  BY DEF Docs
<1>1. p \in 1 .. Len(s)
  BY DEF FitsIn
<1>1a. s # <<>> /\ DOMAIN s = 1 .. Len(s) /\ s[p] \in AnnoSet
  BY <1>0, <1>1
<1>2. CASE it.k = "add"
  <2>1. p = Len(s)
    BY <1>2 DEF Place
  <2>2. ItemAnnos(d, it) = Front(s)
    BY <1>2, <1>1a DEF ItemAnnos
  <2>3. Front(s) = Cut(s, p) /\ Last(s) = s[p]
    BY <1>0, <1>1a, <2>1, FrontIsCut
  <2>4. Inverted(d, it) = [k |-> "readd", a |-> s[p]]
    BY <1>2, <1>1a, <2>3 DEF Inverted
  <2> QED
    BY <1>0, <1>1, <1>1a, <2>1, <2>2, <2>3, <2>4 DEF Items, Grows, Place
<1>3. CASE it.k = "redelete"
  <2>1. p = it.i /\ it.i \in Places
    BY <1>3, ItemShapes DEF Place
  <2>2. Fits(d, it)
    BY <1>1, <1>1a, <2>1 DEF Fits
  <2>3. ItemAnnos(d, it) = RemoveAt(s, p)
    BY <1>3, <2>1, <2>2 DEF ItemAnnos
  <2>4. RemoveAt(s, p) = Cut(s, p)
    BY <1>0, <1>1, RemoveIsCut
  <2>5. Inverted(d, it) = [k |-> "delete", i |-> it.i, a |-> s[p]]
    BY <1>3, <2>1, <2>2 DEF Inverted
  <2> QED
    BY <1>1, <1>1a, <2>1, <2>3, <2>4, <2>5 DEF Items, Grows, Place
<1> QED
  BY <1>2, <1>3 DEF Shrinks

LEMMA PlainIs ==
  ASSUME NEW d \in Docs, NEW it \in Items, it.k \in Plain, FitsIn(it, Len(d.annos))
  PROVE  /\ it.k # "region" => it.i \in 1 .. Len(d.annos) /\ d.annos[it.i] \in AnnoSet
         /\ ItemAnnos(d, it) \in Seq(AnnoSet) /\ Len(ItemAnnos(d, it)) = Len(d.annos)
         /\ IdsOf(ItemAnnos(d, it)) = IdsOf(d.annos)
         /\ Inverted(d, it) \in Items /\ Inverted(d, it).k = it.k
         /\ it.k # "region" => Inverted(d, it).i = it.i
<1> DEFINE s == d.annos
<1>0. s \in Seq(AnnoSet) /\ d.region \in Regions /\ DOMAIN s = 1 .. Len(s)
  BY DEF Docs
<1>1. CASE it.k = "region"
  <2>1. ItemAnnos(d, it) = s /\ Inverted(d, it) = [it EXCEPT !.old = d.region]
    BY <1>1 DEF ItemAnnos, Inverted
  <2>2. it \in [k : {"region"}, old : Regions]
    BY <1>1, ItemShapes
  <2>3. Inverted(d, it) \in [k : {"region"}, old : Regions] /\ Inverted(d, it).k = "region"
    BY <1>0, <2>1, <2>2
  <2> QED
    BY <1>0, <1>1, <2>1, <2>3 DEF Items
<1>2. CASE it.k = "move"
  <2>1. it \in [k : {"move"}, i : Places, d : Int] /\ it.i \in 1 .. Len(s)
    BY <1>2, ItemShapes DEF FitsIn, Plain
  <2>1a. s[it.i] \in AnnoSet
    BY <1>0, <2>1
  <2>2. ItemAnnos(d, it) = [s EXCEPT ![it.i].at = @ - it.d]
    BY <1>0, <1>2, <2>1 DEF ItemAnnos, Fits
  <2>3. Inverted(d, it) = [it EXCEPT !.d = -it.d]
    BY <1>2 DEF Inverted
  <2>4. /\ Inverted(d, it) \in [k : {"move"}, i : Places, d : Int] /\ Inverted(d, it).k = "move"
        /\ Inverted(d, it).i = it.i
    BY <2>1, <2>3
  <2>4a. s[it.i].at - it.d \in Int
    <3>1. s[it.i].at \in Int
      BY <2>1a, AnnoChanged
    <3>2. it.d \in Int
      BY <2>1
    <3> QED
      BY <3>1, <3>2
  <2>5. [s[it.i] EXCEPT !.at = @ - it.d] \in AnnoSet /\ [s[it.i] EXCEPT !.at = @ - it.d].id = s[it.i].id
    <3> DEFINE v == s[it.i].at - it.d
    <3>1. v \in Int
      BY <2>4a
    <3> HIDE DEF v
    <3>2. [s[it.i] EXCEPT !.at = v] \in AnnoSet /\ [s[it.i] EXCEPT !.at = v].id = s[it.i].id
      BY <2>1a, <3>1, AnnoChanged
    <3> QED
      BY <3>2 DEF v
  <2>6. ItemAnnos(d, it) \in Seq(AnnoSet) /\ Len(ItemAnnos(d, it)) = Len(s)
    BY <1>0, <2>1, <2>2, <2>5
  <2>7. IdsOf(ItemAnnos(d, it)) = IdsOf(s)
    BY <1>0, <2>1, <2>2, <2>5, <2>6 DEF IdsOf
  <2> QED
    BY <1>2, <2>1, <2>1a, <2>4, <2>6, <2>7 DEF Items
<1>3. CASE it.k = "geom"
  <2>1. it \in [k : {"geom"}, i : Places, at : Int] /\ it.i \in 1 .. Len(s)
    BY <1>3, ItemShapes DEF FitsIn, Plain
  <2>1a. s[it.i] \in AnnoSet
    BY <1>0, <2>1
  <2>2. ItemAnnos(d, it) = [s EXCEPT ![it.i].at = it.at]
    BY <1>0, <1>3, <2>1 DEF ItemAnnos, Fits
  <2>3. Inverted(d, it) = [it EXCEPT !.at = s[it.i].at] /\ s[it.i].at \in Int
    BY <1>0, <1>3, <2>1, <2>1a, AnnoChanged DEF Inverted, Fits
  <2>4. /\ Inverted(d, it) \in [k : {"geom"}, i : Places, at : Int] /\ Inverted(d, it).k = "geom"
        /\ Inverted(d, it).i = it.i
    BY <2>1, <2>3
  <2>4a. it.at \in Int
    BY <2>1, <2>1a, AnnoChanged
  <2>5. [s[it.i] EXCEPT !.at = it.at] \in AnnoSet /\ [s[it.i] EXCEPT !.at = it.at].id = s[it.i].id
    BY <2>1a, <2>4a, AnnoChanged
  <2>6. ItemAnnos(d, it) \in Seq(AnnoSet) /\ Len(ItemAnnos(d, it)) = Len(s)
    BY <1>0, <2>1, <2>2, <2>5
  <2>7. IdsOf(ItemAnnos(d, it)) = IdsOf(s)
    BY <1>0, <2>1, <2>2, <2>5, <2>6 DEF IdsOf
  <2> QED
    BY <1>3, <2>1, <2>1a, <2>4, <2>6, <2>7 DEF Items
<1>4. CASE it.k = "attr"
  <2>1. it \in [k : {"attr"}, i : Places, v : Attrs] /\ it.i \in 1 .. Len(s)
    BY <1>4, ItemShapes DEF FitsIn, Plain
  <2>1a. s[it.i] \in AnnoSet
    BY <1>0, <2>1
  <2>2. ItemAnnos(d, it) = [s EXCEPT ![it.i].attr = it.v]
    BY <1>0, <1>4, <2>1 DEF ItemAnnos, Fits
  <2>3. Inverted(d, it) = [it EXCEPT !.v = s[it.i].attr] /\ s[it.i].attr \in Attrs
    BY <1>0, <1>4, <2>1, <2>1a, AnnoChanged DEF Inverted, Fits
  <2>4. /\ Inverted(d, it) \in [k : {"attr"}, i : Places, v : Attrs] /\ Inverted(d, it).k = "attr"
        /\ Inverted(d, it).i = it.i
    BY <2>1, <2>3
  <2>4a. it.v \in Attrs
    BY <2>1, <2>1a, AnnoChanged
  <2>5. [s[it.i] EXCEPT !.attr = it.v] \in AnnoSet /\ [s[it.i] EXCEPT !.attr = it.v].id = s[it.i].id
    BY <2>1a, <2>4a, AnnoChanged
  <2>6. ItemAnnos(d, it) \in Seq(AnnoSet) /\ Len(ItemAnnos(d, it)) = Len(s)
    BY <1>0, <2>1, <2>2, <2>5
  <2>7. IdsOf(ItemAnnos(d, it)) = IdsOf(s)
    BY <1>0, <2>1, <2>2, <2>5, <2>6 DEF IdsOf
  <2> QED
    BY <1>4, <2>1, <2>1a, <2>4, <2>6, <2>7 DEF Items
<1> QED
  BY <1>1, <1>2, <1>3, <1>4 DEF Plain


\* Whether it fits or not, an item leaves a document, and there is an item to take it back.
LEMMA ItemTotal ==
  ASSUME NEW d \in Docs, NEW it \in Items
  PROVE  Applied(d, it) \in Docs /\ Inverted(d, it) \in Items
<1> DEFINE s == d.annos
<1>0. s \in Seq(AnnoSet) /\ d.region \in Regions /\ DOMAIN s = 1 .. Len(s)
  BY DEF Docs
<1>1. ItemAnnos(d, it) \in Seq(AnnoSet) /\ Inverted(d, it) \in Items
  <2>1. CASE FitsIn(it, Len(s))
    <3>1. CASE it.k \in Grows
      BY <1>0, <2>1, <3>1, GrownIs, PutIsSeq
    <3>2. CASE it.k \in Shrinks
      BY <1>0, <2>1, <3>2, ShrunkIs, CutIsSeq
    <3>3. CASE it.k \in Plain
      BY <1>0, <2>1, <3>3, PlainIs
    <3> QED
      BY <3>1, <3>2, <3>3, ItemShapes DEF Grows, Shrinks, Plain
  <2>2. CASE ~FitsIn(it, Len(s))
    <3>1. it.k \notin {"region", "readd"}
      BY <1>0, <2>2 DEF FitsIn, Grows, Shrinks, Plain, Place
    <3>2. CASE it.k = "add"
      <4>1. s = <<>>
        BY <1>0, <2>2, <3>2 DEF FitsIn, Grows, Shrinks, Plain, Place
      <4> QED
        BY <1>0, <3>2, <4>1 DEF ItemAnnos, Inverted
    <3>3. CASE it.k = "delete"
      <4>1. it \in [k : {"delete"}, i : Places, a : AnnoSet]
        BY <3>3, ItemShapes
      <4>2. it.i > Len(s) /\ it.a \in AnnoSet
        BY <1>0, <2>2, <3>3, <4>1 DEF FitsIn, Grows, Shrinks, Plain, Place, Places
      <4>3. ItemAnnos(d, it) = InsertAt(s, Len(s) + 1, it.a)
        BY <3>3, <4>2 DEF ItemAnnos, InsertAnno
      <4>4. Len(s) + 1 \in 1 .. Len(s) + 1
        BY <1>0
      <4>5. ItemAnnos(d, it) \in Seq(AnnoSet)
        BY <1>0, <4>2, <4>3, <4>4, InsertIsPut, PutIsSeq
      <4>6. Inverted(d, it) = [k |-> "redelete", i |-> it.i]
        BY <3>3 DEF Inverted
      <4> QED
        BY <4>1, <4>5, <4>6 DEF Items
    <3>4. CASE it.k = "redelete"
      <4>1. it \in [k : {"redelete"}, i : Places]
        BY <3>4, ItemShapes
      <4>2. ~Fits(d, it)
        BY <1>0, <2>2, <3>4, <4>1 DEF FitsIn, Grows, Shrinks, Plain, Place, Fits
      <4>3. ItemAnnos(d, it) = s /\ Inverted(d, it) = [k |-> "delete", i |-> it.i, a |-> Blank]
        BY <3>4, <4>2 DEF ItemAnnos, Inverted
      <4> QED
        BY <1>0, <4>1, <4>3, BlankIsAnno DEF Items
    <3>5. CASE it.k \in {"move", "geom", "attr"}
      <4>1. ~Fits(d, it)
        BY <1>0, <2>2, <3>5 DEF FitsIn, Grows, Shrinks, Plain, Place, Fits
      <4>2. ItemAnnos(d, it) = s
        BY <3>5, <4>1 DEF ItemAnnos
      <4>3. CASE it.k = "move"
        <5>1. it \in [k : {"move"}, i : Places, d : Int] /\ Inverted(d, it) = [it EXCEPT !.d = -it.d]
          BY <4>3, ItemShapes DEF Inverted
        <5>2. Inverted(d, it) \in [k : {"move"}, i : Places, d : Int]
          BY <5>1
        <5> QED
          BY <1>0, <4>2, <5>2 DEF Items
      <4>4. CASE it.k = "geom"
        <5>1. it \in [k : {"geom"}, i : Places, at : Int] /\ Inverted(d, it) = [it EXCEPT !.at = 0]
          BY <4>1, <4>4, ItemShapes DEF Inverted
        <5>2. Inverted(d, it) \in [k : {"geom"}, i : Places, at : Int]
          BY <5>1
        <5> QED
          BY <1>0, <4>2, <5>2 DEF Items
      <4>5. CASE it.k = "attr"
        <5>1. it \in [k : {"attr"}, i : Places, v : Attrs] /\ Inverted(d, it) = [it EXCEPT !.v = it.v]
          BY <4>1, <4>5, ItemShapes DEF Inverted
        <5>2. Inverted(d, it) \in [k : {"attr"}, i : Places, v : Attrs]
          BY <5>1
        <5> QED
          BY <1>0, <4>2, <5>2 DEF Items
      <4> QED
        BY <3>5, <4>3, <4>4, <4>5
    <3> QED
      BY <3>1, <3>2, <3>3, <3>4, <3>5, ItemShapes
  <2> QED
    BY <2>1, <2>2
<1>2. Applied(d, it).region \in Regions /\ Applied(d, it).sel \in Nat
  <2>1. it.k = "region" => it.old \in Regions
    BY ItemShapes
  <2>2. d.sel \in Nat
    BY DEF Docs
  <2> QED
    BY <1>0, <2>1, <2>2, AppliedIs
<1>3. Applied(d, it) = [d EXCEPT !.annos = Applied(d, it).annos, !.region = Applied(d, it).region,
                                 !.sel = Applied(d, it).sel]
  BY DEF Applied, Docs
<1>4. Applied(d, it).annos \in Seq(AnnoSet)
  BY <1>1, AppliedIs
<1> QED
  BY <1>1, <1>2, <1>3, <1>4 DEF Docs

\* The lists of ids that lead back: it takes the list x of ids to y.
IdStep(x, it, y) ==
  /\ FitsIn(it, Len(x))
  /\ it.k \in Grows => y = Put(x, Place(it, Len(x)), it.a.id)
  /\ it.k \in Shrinks => y = Cut(x, Place(it, Len(x)))
  /\ it.k \in Plain => y = x

LEMMA IdsIs ==
  ASSUME NEW s \in Seq(AnnoSet)
  PROVE  /\ IdsOf(s) \in Seq(Nat) /\ Len(IdsOf(s)) = Len(s)
         /\ \A i \in 1 .. Len(s) : IdsOf(s)[i] = s[i].id /\ s[i].id \in Nat
<1>1. \A i \in 1 .. Len(s) : s[i].id \in Nat
  <2>1. \A i \in 1 .. Len(s) : s[i] \in AnnoSet
    OBVIOUS
  <2> QED
    BY <2>1, AnnoChanged
<1>2. IdsOf(s) \in [1 .. Len(s) -> Nat]
  BY <1>1 DEF IdsOf
<1> QED
  BY <1>1, <1>2, IsSeq DEF IdsOf

LEMMA IdsOfPut ==
  ASSUME NEW s \in Seq(AnnoSet), NEW a \in AnnoSet, NEW p \in 1 .. Len(s) + 1
  PROVE  IdsOf(Put(s, p, a)) = Put(IdsOf(s), p, a.id)
<1>1. Put(s, p, a) \in Seq(AnnoSet) /\ Len(Put(s, p, a)) = Len(s) + 1
  BY PutIsSeq
<1>2. IdsOf(Put(s, p, a)) \in Seq(Nat) /\ Len(IdsOf(Put(s, p, a))) = Len(s) + 1
  BY <1>1, IdsIs
<1>3. IdsOf(s) \in Seq(Nat) /\ Len(IdsOf(s)) = Len(s) /\ a.id \in Nat
  BY IdsIs, AnnoChanged
<1>4. Put(IdsOf(s), p, a.id) \in Seq(Nat) /\ Len(Put(IdsOf(s), p, a.id)) = Len(s) + 1
  <2> DEFINE x == IdsOf(s)
             b == a.id
  <2>1. x \in Seq(Nat) /\ Len(x) = Len(s) /\ b \in Nat /\ p \in 1 .. Len(x) + 1
    BY <1>3
  <2> HIDE DEF x, b
  <2>2. Put(x, p, b) \in Seq(Nat) /\ Len(Put(x, p, b)) = Len(x) + 1
    BY <2>1, PutIsSeq
  <2> QED
    BY <2>1, <2>2 DEF x, b
<1>5. \A j \in 1 .. Len(s) + 1 : IdsOf(Put(s, p, a))[j] = Put(IdsOf(s), p, a.id)[j]
  <2> TAKE j \in 1 .. Len(s) + 1
  <2>1. IdsOf(Put(s, p, a))[j] = Put(s, p, a)[j].id
    BY <1>1, IdsIs
  <2>2. Put(IdsOf(s), p, a.id)[j] = IF j < p THEN IdsOf(s)[j] ELSE IF j = p THEN a.id ELSE IdsOf(s)[j - 1]
    BY <1>3 DEF Put
  <2>3. Put(s, p, a)[j] = IF j < p THEN s[j] ELSE IF j = p THEN a ELSE s[j - 1]
    BY DEF Put
  <2>4. (j < p => j \in 1 .. Len(s)) /\ (j > p => j - 1 \in 1 .. Len(s))
    OBVIOUS
  <2>5. /\ j < p => IdsOf(s)[j] = s[j].id
        /\ j > p => IdsOf(s)[j - 1] = s[j - 1].id
    BY <2>4, IdsIs
  <2>6. CASE j < p
    BY <2>1, <2>2, <2>3, <2>5, <2>6
  <2>7. CASE j = p
    BY <2>1, <2>2, <2>3, <2>7
  <2>8. CASE j > p
    BY <2>1, <2>2, <2>3, <2>5, <2>8
  <2> QED
    BY <2>6, <2>7, <2>8
<1> QED
  BY <1>2, <1>4, <1>5, SeqEqual

LEMMA IdsOfCut ==
  ASSUME NEW s \in Seq(AnnoSet), NEW p \in 1 .. Len(s)
  PROVE  IdsOf(Cut(s, p)) = Cut(IdsOf(s), p)
<1>1. Cut(s, p) \in Seq(AnnoSet) /\ Len(Cut(s, p)) = Len(s) - 1
  BY CutIsSeq
<1>2. IdsOf(Cut(s, p)) \in Seq(Nat) /\ Len(IdsOf(Cut(s, p))) = Len(s) - 1
  BY <1>1, IdsIs
<1>3. IdsOf(s) \in Seq(Nat) /\ Len(IdsOf(s)) = Len(s)
  BY IdsIs
<1>4. Cut(IdsOf(s), p) \in Seq(Nat) /\ Len(Cut(IdsOf(s), p)) = Len(s) - 1
  BY <1>3, CutIsSeq
<1>5. \A j \in 1 .. Len(s) - 1 : IdsOf(Cut(s, p))[j] = Cut(IdsOf(s), p)[j]
  <2> TAKE j \in 1 .. Len(s) - 1
  <2>1. IdsOf(Cut(s, p))[j] = Cut(s, p)[j].id
    BY <1>1, IdsIs
  <2>2. Cut(IdsOf(s), p)[j] = IF j < p THEN IdsOf(s)[j] ELSE IdsOf(s)[j + 1]
    BY <1>3 DEF Cut
  <2>3. Cut(s, p)[j] = IF j < p THEN s[j] ELSE s[j + 1]
    BY DEF Cut
  <2>4. j \in 1 .. Len(s) /\ j + 1 \in 1 .. Len(s)
    OBVIOUS
  <2>5. IdsOf(s)[j] = s[j].id /\ IdsOf(s)[j + 1] = s[j + 1].id
    BY <2>4, IdsIs
  <2> QED
    BY <2>1, <2>2, <2>3, <2>5
<1> QED
  BY <1>2, <1>4, <1>5, SeqEqual


\* The item that takes a step back leads back, for the ids and for the document: in
\* any state with the same annotations and the same region.
LEMMA StepForth ==
  ASSUME NEW d \in Docs, NEW it \in Items, NEW y, IdStep(IdsOf(d.annos), it, y)
  PROVE  /\ FitsIn(it, Len(d.annos))
         /\ IdsOf(Applied(d, it).annos) = y
         /\ FitsIn(Inverted(d, it), Len(Applied(d, it).annos))
         /\ IdStep(y, Inverted(d, it), IdsOf(d.annos))
<1> DEFINE s == d.annos
           x == IdsOf(s)
           z == ItemAnnos(d, it)
           v == Inverted(d, it)
           p == Place(it, Len(s))
<1>0. s \in Seq(AnnoSet) /\ x \in Seq(Nat) /\ Len(x) = Len(s)
  BY IdsIs DEF Docs
<1>1. FitsIn(it, Len(s))
  BY <1>0 DEF IdStep
<1>2. Applied(d, it).annos = z
  BY AppliedIs
<1>3. CASE it.k \in Grows
  <2>1. /\ p \in 1 .. Len(s) + 1 /\ it.a \in AnnoSet /\ z = Put(s, p, it.a)
        /\ v \in Items /\ v.k \in Shrinks /\ Place(v, Len(s) + 1) = p
    BY <1>1, <1>3, GrownIs
  <2>2. y = Put(x, p, it.a.id)
    BY <1>0, <1>3 DEF IdStep
  <2> DEFINE b == it.a
             c == b.id
  <2>2a. b \in AnnoSet /\ c \in Nat
    BY <2>1, AnnoChanged
  <2>2b. y = Put(x, p, c)
    BY <2>2
  <2>3. IdsOf(z) = y
    <3>1. z = Put(s, p, b)
      BY <2>1
    <3> HIDE DEF b, z, p
    <3>2. IdsOf(Put(s, p, b)) = Put(IdsOf(s), p, b.id)
      BY <1>0, <2>1, <2>2a, IdsOfPut
    <3> QED
      BY <3>1, <3>2, <2>2b
  <2>4. z \in Seq(AnnoSet) /\ Len(z) = Len(s) + 1 /\ Len(y) = Len(s) + 1 /\ y \in Seq(Nat)
    <3>1. z = Put(s, p, b) /\ p \in 1 .. Len(x) + 1
      BY <1>0, <2>1
    <3> HIDE DEF b, z, p, c, x
    <3>2. z \in Seq(AnnoSet) /\ Len(z) = Len(s) + 1
      BY <1>0, <2>1, <2>2a, <3>1, PutIsSeq
    <3>3. y \in Seq(Nat) /\ Len(y) = Len(x) + 1
      BY <1>0, <2>2a, <2>2b, <3>1, PutIsSeq
    <3> QED
      BY <1>0, <3>2, <3>3
  <2>5. FitsIn(v, Len(s) + 1)
    BY <1>0, <2>1 DEF FitsIn, Grows, Shrinks, Plain
  <2>6. Cut(y, p) = x
    <3>1. p \in 1 .. Len(x) + 1
      BY <1>0, <2>1
    <3> HIDE DEF b, z, p, c, x
    <3> QED
      BY <1>0, <2>2a, <2>2b, <3>1, CutOfPut
  <2>7. IdStep(y, v, x)
    BY <2>1, <2>4, <2>5, <2>6 DEF IdStep, Grows, Shrinks, Plain
  <2> QED
    BY <1>1, <1>2, <2>3, <2>4, <2>5, <2>7
<1>4. CASE it.k \in Shrinks
  <2>1. /\ p \in 1 .. Len(s) /\ z = Cut(s, p) /\ v \in Items /\ v.k \in Grows
        /\ v.a = s[p] /\ Place(v, Len(s) - 1) = p
    BY <1>1, <1>4, ShrunkIs
  <2>2. y = Cut(x, p)
    BY <1>0, <1>4 DEF IdStep
  <2>3. IdsOf(z) = y /\ x[p] = s[p].id
    BY <1>0, <2>1, <2>2, IdsOfCut, IdsIs
  <2>4. z \in Seq(AnnoSet) /\ Len(z) = Len(s) - 1 /\ Len(y) = Len(s) - 1 /\ y \in Seq(Nat)
    BY <1>0, <2>1, <2>2, CutIsSeq
  <2>5. FitsIn(v, Len(s) - 1)
    BY <1>0, <2>1 DEF FitsIn, Grows, Shrinks, Plain
  <2>6. Put(y, p, v.a.id) = x
    BY <1>0, <2>1, <2>2, <2>3, PutOfCut
  <2>7. IdStep(y, v, x)
    BY <2>1, <2>4, <2>5, <2>6 DEF IdStep, Grows, Shrinks, Plain
  <2> QED
    BY <1>1, <1>2, <2>3, <2>4, <2>5, <2>7
<1>5. CASE it.k \in Plain
  <2>1. /\ z \in Seq(AnnoSet) /\ Len(z) = Len(s) /\ IdsOf(z) = x /\ v \in Items /\ v.k = it.k
        /\ it.k # "region" => v.i = it.i
    BY <1>1, <1>5, PlainIs
  <2>2. y = x
    BY <1>5 DEF IdStep
  <2>3. FitsIn(v, Len(s))
    BY <1>1, <1>5, <2>1 DEF FitsIn, Grows, Shrinks, Plain
  <2>4. IdStep(y, v, x)
    BY <1>0, <1>5, <2>1, <2>2, <2>3 DEF IdStep, Grows, Shrinks, Plain
  <2> QED
    BY <1>1, <1>2, <2>1, <2>2, <2>3, <2>4
<1> QED
  BY <1>3, <1>4, <1>5, ItemShapes DEF Grows, Shrinks, Plain

LEMMA StepBack ==
  ASSUME NEW d \in Docs, NEW it \in Items, FitsIn(it, Len(d.annos)), NEW e \in Docs,
         e.annos = Applied(d, it).annos, e.region = Applied(d, it).region
  PROVE  LET v == Inverted(d, it) IN
         /\ Applied(e, v).annos = d.annos /\ Applied(e, v).region = d.region
         /\ Inverted(e, v) = it
<1> DEFINE s == d.annos
           z == ItemAnnos(d, it)
           v == Inverted(d, it)
           p == Place(it, Len(s))
<1>0. s \in Seq(AnnoSet) /\ DOMAIN s = 1 .. Len(s) /\ d.region \in Regions
  BY DEF Docs
<1>1. e.annos = z /\ e.region = IF it.k = "region" THEN it.old ELSE d.region
  BY AppliedIs
<1>2. v \in Items
  BY ItemTotal
<1>3. /\ Applied(e, v).annos = ItemAnnos(e, v)
      /\ Applied(e, v).region = IF v.k = "region" THEN v.old ELSE e.region
  BY <1>2, AppliedIs
<1>4. CASE it.k \in Grows
  <2>1. /\ p \in 1 .. Len(s) + 1 /\ it.a \in AnnoSet /\ z = Put(s, p, it.a)
        /\ v.k \in Shrinks /\ Place(v, Len(s) + 1) = p
    BY <1>4, GrownIs
  <2>2. z \in Seq(AnnoSet) /\ Len(z) = Len(s) + 1
    BY <1>0, <2>1, PutIsSeq
  <2>3. FitsIn(v, Len(e.annos))
    BY <1>0, <1>1, <2>1, <2>2 DEF FitsIn, Grows, Shrinks, Plain
  <2>4. ItemAnnos(e, v) = Cut(z, p)
    BY <1>1, <1>2, <2>1, <2>2, <2>3, ShrunkIs
  <2>5. ItemAnnos(e, v) = s /\ z[p] = it.a
    BY <1>0, <2>1, <2>4, CutOfPut
  <2>6. it.k # "region" /\ v.k # "region"
    BY <1>4, <2>1 DEF Grows, Shrinks
  <2>7. Inverted(e, v) = it
    <3>1. CASE it.k = "readd"
      <4>1. v = [k |-> "add"]
        BY <3>1 DEF Inverted
      <4>2. it \in [k : {"readd"}, a : AnnoSet]
        BY <3>1, ItemShapes
      <4>3. e.annos # <<>> /\ Last(e.annos) = z[Len(z)]
        BY <1>0, <1>1, <2>2 DEF Last
      <4>4. Len(z) = p
        BY <2>2, <3>1 DEF Place
      <4>4a. v.k = "add"
        BY <4>1
      <4>5. Inverted(e, v) = [k |-> "readd", a |-> it.a]
        <5> HIDE DEF v, z, p
        <5> QED
          BY <2>5, <4>4a, <4>3, <4>4 DEF Inverted
      <4> QED
        BY <3>1, <4>2, <4>5
    <3>2. CASE it.k = "delete"
      <4>1. v = [k |-> "redelete", i |-> it.i] /\ p = it.i
        BY <3>2 DEF Inverted, Place
      <4>2. it \in [k : {"delete"}, i : Places, a : AnnoSet]
        BY <3>2, ItemShapes
      <4>3. Fits(e, v)
        BY <1>0, <1>1, <2>1, <2>2, <4>1 DEF Fits
      <4>3a. v.k = "redelete" /\ v.i = it.i /\ p = it.i
        BY <4>1
      <4>4. Inverted(e, v) = [k |-> "delete", i |-> it.i, a |-> it.a]
        <5> HIDE DEF v, z, p
        <5> QED
          BY <1>1, <2>5, <4>3a, <4>3 DEF Inverted
      <4> QED
        BY <3>2, <4>2, <4>4
    <3> QED
      BY <1>4, <3>1, <3>2 DEF Grows
  <2> QED
    BY <1>1, <1>3, <2>5, <2>6, <2>7
<1>5. CASE it.k \in Shrinks
  <2>1. /\ p \in 1 .. Len(s) /\ z = Cut(s, p) /\ v.k \in Grows
        /\ v.a = s[p] /\ Place(v, Len(s) - 1) = p
    BY <1>5, ShrunkIs
  <2>2. z \in Seq(AnnoSet) /\ Len(z) = Len(s) - 1
    BY <1>0, <2>1, CutIsSeq
  <2>3. FitsIn(v, Len(e.annos))
    BY <1>0, <1>1, <2>1, <2>2 DEF FitsIn, Grows, Shrinks, Plain
  <2>4. ItemAnnos(e, v) = Put(z, p, s[p])
    BY <1>1, <1>2, <2>1, <2>2, <2>3, GrownIs
  <2>5. ItemAnnos(e, v) = s
    BY <1>0, <2>1, <2>4, PutOfCut
  <2>6. it.k # "region" /\ v.k # "region"
    BY <1>5, <2>1 DEF Grows, Shrinks
  <2>7. Inverted(e, v) = it
    <3>1. CASE it.k = "add"
      <4>1. s # <<>>
        BY <1>0, <2>1
      <4>2. v.k = "readd"
        BY <3>1, <4>1 DEF Inverted
      <4>3. Inverted(e, v) = [k |-> "add"]
        BY <4>2 DEF Inverted
      <4>4. it \in [k : {"add"}]
        BY <3>1, ItemShapes
      <4> QED
        BY <4>3, <4>4
    <3>2. CASE it.k = "redelete"
      <4>1. v.k = "delete" /\ v.i = it.i
        BY <3>2 DEF Inverted
      <4>2. Inverted(e, v) = [k |-> "redelete", i |-> it.i]
        BY <4>1 DEF Inverted
      <4>3. it \in [k : {"redelete"}, i : Places]
        BY <3>2, ItemShapes
      <4> QED
        BY <4>2, <4>3
    <3> QED
      BY <1>5, <3>1, <3>2 DEF Shrinks
  <2> QED
    BY <1>1, <1>3, <2>5, <2>6, <2>7
<1>6. CASE it.k = "region"
  <2>1. z = s /\ v = [it EXCEPT !.old = d.region]
    BY <1>6 DEF ItemAnnos, Inverted
  <2>2. it \in [k : {"region"}, old : Regions]
    BY <1>6, ItemShapes
  <2>3. v.k = "region" /\ v.old = d.region
    BY <2>1, <2>2
  <2>4. ItemAnnos(e, v) = z /\ Inverted(e, v) = [v EXCEPT !.old = it.old]
    BY <1>1, <1>6, <2>3 DEF ItemAnnos, Inverted
  <2> QED
    BY <1>3, <2>1, <2>2, <2>3, <2>4
<1>7. CASE it.k \in {"move", "geom", "attr"}
  <2>1. it.i \in 1 .. Len(s) /\ s[it.i] \in AnnoSet /\ it.i \in Places
    BY <1>7, PlainIs DEF Plain, Places
  <2>1a. Fits(d, it)
    BY <1>0, <2>1 DEF Fits
  <2> DEFINE a == s[it.i]
             c == z[it.i]
  <2>1b. it.k # "region" /\ e.region = d.region
    BY <1>1, <1>7
  <2>2. CASE it.k = "move"
    <3>1. it \in [k : {"move"}, i : Places, d : Int] /\ a.at \in Int
      BY <2>1, <2>2, ItemShapes, AnnoChanged
    <3>2. z = [s EXCEPT ![it.i].at = @ - it.d] /\ v = [it EXCEPT !.d = -it.d]
      BY <2>1a, <2>2 DEF ItemAnnos, Inverted
    <3>3. v.k = "move" /\ v.i = it.i /\ v.d = -it.d /\ Fits(e, v)
      BY <1>0, <1>1, <2>1, <3>1, <3>2 DEF Fits
    <3>4. ItemAnnos(e, v) = [z EXCEPT ![it.i].at = @ - -it.d] /\ Inverted(e, v) = [v EXCEPT !.d = - -it.d]
      BY <1>1, <3>3 DEF ItemAnnos, Inverted
    <3>4a. - -it.d = it.d /\ it.d \in Int
      BY <3>1
    <3>5. Inverted(e, v) = it
      BY <3>1, <3>2, <3>4, <3>4a
    <3>6. c = [a EXCEPT !.at = a.at - it.d]
      BY <1>0, <2>1, <3>2
    <3>7. [c EXCEPT !.at = c.at - -it.d] = a
      <4>1. c.at = a.at - it.d
        BY <2>1, <3>6 DEF AnnoSet
      <4>2. c.at - -it.d = a.at
        BY <3>1, <4>1
      <4>3. [[a EXCEPT !.at = a.at - it.d] EXCEPT !.at = a.at] = a
        BY <2>1 DEF AnnoSet
      <4> QED
        BY <3>6, <4>2, <4>3
    <3>8. [z EXCEPT ![it.i].at = @ - -it.d] = s
      BY <1>0, <2>1, <3>2, <3>7
    <3> QED
      BY <1>3, <2>1b, <3>3, <3>4, <3>5, <3>8
  <2>3. CASE it.k = "geom"
    <3>1. it \in [k : {"geom"}, i : Places, at : Int] /\ a.at \in Int
      BY <2>1, <2>3, ItemShapes, AnnoChanged
    <3>2. z = [s EXCEPT ![it.i].at = it.at] /\ v = [it EXCEPT !.at = a.at]
      BY <2>1a, <2>3 DEF ItemAnnos, Inverted
    <3>3. v.k = "geom" /\ v.i = it.i /\ v.at = a.at /\ Fits(e, v)
      BY <1>0, <1>1, <2>1, <3>1, <3>2 DEF Fits
    <3>6. c = [a EXCEPT !.at = it.at]
      BY <1>0, <2>1, <3>2
    <3>6a. c.at = it.at
      BY <2>1, <3>6 DEF AnnoSet
    <3>4. ItemAnnos(e, v) = [z EXCEPT ![it.i].at = a.at] /\ Inverted(e, v) = [v EXCEPT !.at = it.at]
      BY <1>1, <3>3, <3>6a DEF ItemAnnos, Inverted
    <3>5. Inverted(e, v) = it
      BY <3>1, <3>2, <3>4
    <3>7. [c EXCEPT !.at = a.at] = a
      BY <2>1, <3>6, AnnoChanged
    <3>8. [z EXCEPT ![it.i].at = a.at] = s
      BY <1>0, <2>1, <3>2, <3>7
    <3> QED
      BY <1>3, <2>1b, <3>3, <3>4, <3>5, <3>8
  <2>4. CASE it.k = "attr"
    <3>1. it \in [k : {"attr"}, i : Places, v : Attrs] /\ a.attr \in Attrs
      BY <2>1, <2>4, ItemShapes, AnnoChanged
    <3>2. z = [s EXCEPT ![it.i].attr = it.v] /\ v = [it EXCEPT !.v = a.attr]
      BY <2>1a, <2>4 DEF ItemAnnos, Inverted
    <3>3. v.k = "attr" /\ v.i = it.i /\ v.v = a.attr /\ Fits(e, v)
      BY <1>0, <1>1, <2>1, <3>1, <3>2 DEF Fits
    <3>6. c = [a EXCEPT !.attr = it.v]
      BY <1>0, <2>1, <3>2
    <3>6a. c.attr = it.v
      BY <2>1, <3>6 DEF AnnoSet
    <3>4. ItemAnnos(e, v) = [z EXCEPT ![it.i].attr = a.attr] /\ Inverted(e, v) = [v EXCEPT !.v = it.v]
      BY <1>1, <3>3, <3>6a DEF ItemAnnos, Inverted
    <3>5. Inverted(e, v) = it
      BY <3>1, <3>2, <3>4
    <3>7. [c EXCEPT !.attr = a.attr] = a
      BY <2>1, <3>6, AnnoChanged
    <3>8. [z EXCEPT ![it.i].attr = a.attr] = s
      BY <1>0, <2>1, <3>2, <3>7
    <3> QED
      BY <1>3, <2>1b, <3>3, <3>4, <3>5, <3>8
  <2> QED
    BY <1>7, <2>2, <2>3, <2>4
<1> QED
  BY <1>4, <1>5, <1>6, <1>7, ItemShapes DEF Grows, Shrinks


-----------------------------------------------------------------------------
(* The ids of a list, and who owns them.                                   *)

IdSet(x)     == {x[i] : i \in 1 .. Len(x)}
Ascending(x) == \A i, j \in 1 .. Len(x) : i < j => x[i] < x[j]

LEMMA IdSetOfPut ==
  ASSUME NEW x \in Seq(Nat), NEW b \in Nat, NEW p \in 1 .. Len(x) + 1
  PROVE  IdSet(Put(x, p, b)) = IdSet(x) \cup {b}
<1> DEFINE y == Put(x, p, b)
<1>1. Len(y) = Len(x) + 1 /\ y \in Seq(Nat)
  BY PutIsSeq
<1>2. \A j \in 1 .. Len(x) + 1 : y[j] = IF j < p THEN x[j] ELSE IF j = p THEN b ELSE x[j - 1]
  BY DEF Put
<1> HIDE DEF y
<1>3. ASSUME NEW i \in 1 .. Len(x) PROVE \E j \in 1 .. Len(y) : y[j] = x[i]
  <2>1. CASE i < p
    <3>1. i \in 1 .. Len(y) /\ y[i] = x[i]
      BY <1>1, <1>2, <2>1
    <3> QED
      BY <3>1
  <2>2. CASE i >= p
    <3>1. i + 1 \in 1 .. Len(x) + 1 /\ ~(i + 1 < p) /\ i + 1 # p /\ i + 1 - 1 = i
      BY <2>2
    <3>2. y[i + 1] = x[i]
      BY <1>2, <3>1
    <3> QED
      BY <1>1, <3>1, <3>2
  <2> QED
    BY <2>1, <2>2
<1>4. y[p] = b /\ p \in 1 .. Len(y)
  BY <1>1, <1>2
<1>5. ASSUME NEW j \in 1 .. Len(y) PROVE y[j] = b \/ \E i \in 1 .. Len(x) : y[j] = x[i]
  <2>1. CASE j < p
    BY <1>1, <1>2, <2>1
  <2>2. CASE j = p
    BY <1>4, <2>2
  <2>3. CASE j > p
    <3>1. j - 1 \in 1 .. Len(x) /\ y[j] = x[j - 1]
      BY <1>1, <1>2, <2>3
    <3> QED
      BY <3>1
  <2> QED
    BY <1>1, <2>1, <2>2, <2>3
<1>6. IdSet(y) = IdSet(x) \cup {b}
  <2>1. \A e \in IdSet(y) : e \in IdSet(x) \cup {b}
    BY <1>5 DEF IdSet
  <2>2. \A e \in IdSet(x) : e \in IdSet(y)
    BY <1>3 DEF IdSet
  <2>3. b \in IdSet(y)
    BY <1>4 DEF IdSet
  <2> QED
    BY <2>1, <2>2, <2>3
<1> QED
  BY <1>6 DEF y

LEMMA IdSetOfCut ==
  ASSUME NEW x \in Seq(Nat), NEW p \in 1 .. Len(x), Ascending(x)
  PROVE  IdSet(Cut(x, p)) = IdSet(x) \ {x[p]} /\ x[p] \in IdSet(x)
<1> DEFINE y == Cut(x, p)
<1>1. Len(y) = Len(x) - 1 /\ y \in Seq(Nat)
  BY CutIsSeq
<1>2. \A j \in 1 .. Len(x) - 1 : y[j] = IF j < p THEN x[j] ELSE x[j + 1]
  BY DEF Cut
<1> HIDE DEF y
<1>3. ASSUME NEW i \in 1 .. Len(x), i # p PROVE \E j \in 1 .. Len(y) : y[j] = x[i]
  <2>1. CASE i < p
    <3>1. i \in 1 .. Len(y) /\ y[i] = x[i]
      BY <1>1, <1>2, <2>1
    <3> QED
      BY <3>1
  <2>2. CASE i > p
    <3>1. i - 1 \in 1 .. Len(x) - 1 /\ ~(i - 1 < p) /\ i - 1 + 1 = i
      BY <2>2
    <3>2. y[i - 1] = x[i]
      BY <1>2, <3>1
    <3> QED
      BY <1>1, <3>1, <3>2
  <2> QED
    BY <1>3, <2>1, <2>2
<1>4. ASSUME NEW i \in 1 .. Len(x), i # p PROVE x[i] # x[p]
  <2>1. x[i] \in Nat /\ x[p] \in Nat
    OBVIOUS
  <2>2. CASE i < p
    BY <2>1, <2>2 DEF Ascending
  <2>3. CASE i > p
    BY <2>1, <2>3 DEF Ascending
  <2> QED
    BY <1>4, <2>2, <2>3
<1>5. ASSUME NEW j \in 1 .. Len(y) PROVE \E i \in 1 .. Len(x) : i # p /\ y[j] = x[i]
  <2>1. CASE j < p
    <3>1. j \in 1 .. Len(x) /\ j # p /\ y[j] = x[j]
      BY <1>1, <1>2, <2>1
    <3> QED
      BY <3>1
  <2>2. CASE j >= p
    <3>1. j + 1 \in 1 .. Len(x) /\ j + 1 # p /\ y[j] = x[j + 1]
      BY <1>1, <1>2, <2>2
    <3> QED
      BY <3>1
  <2> QED
    BY <1>1, <2>1, <2>2
<1>6. IdSet(y) = IdSet(x) \ {x[p]} /\ x[p] \in IdSet(x)
  <2>1. \A e \in IdSet(y) : e \in IdSet(x) /\ e # x[p]
    BY <1>4, <1>5 DEF IdSet
  <2>2. \A e \in IdSet(x) : e # x[p] => e \in IdSet(y)
    BY <1>3 DEF IdSet
  <2>3. x[p] \in IdSet(x)
    BY DEF IdSet
  <2> QED
    BY <2>1, <2>2, <2>3
<1> QED
  BY <1>6 DEF y

\* the annotation an item owns, and those of the items of a group at the places of S
Owns(it)     == IF it.k \in Grows THEN {it.a.id} ELSE {}
OwnsAt(g, S) == UNION {Owns(g[j]) : j \in S}
OwnsOnce(g, S) == \A i, j \in S : i # j => Owns(g[i]) \cap Owns(g[j]) = {}

LEMMA StepOwns ==
  ASSUME NEW d \in Docs, NEW it \in Items, NEW y, IdStep(IdsOf(d.annos), it, y),
         Ascending(IdsOf(d.annos))
  PROVE  LET v == Inverted(d, it) IN
         /\ IdSet(y) \cup Owns(v) = IdSet(IdsOf(d.annos)) \cup Owns(it)
         /\ Owns(it) \cap IdSet(IdsOf(d.annos)) = {} => Owns(v) \cap IdSet(y) = {}
<1> DEFINE s == d.annos
           x == IdsOf(s)
           v == Inverted(d, it)
           p == Place(it, Len(s))
<1>0. s \in Seq(AnnoSet) /\ x \in Seq(Nat) /\ Len(x) = Len(s)
  BY IdsIs DEF Docs
<1>1. FitsIn(it, Len(s))
  BY <1>0 DEF IdStep
<1>2. CASE it.k \in Grows
  <2>1. p \in 1 .. Len(s) + 1 /\ it.a \in AnnoSet /\ v.k \in Shrinks
    BY <1>1, <1>2, GrownIs
  <2> DEFINE b == it.a.id
  <2>2. b \in Nat
    BY <2>1, AnnoChanged
  <2>3. y = Put(x, p, b)
    BY <1>0, <1>2 DEF IdStep
  <2>4. Owns(it) = {b} /\ Owns(v) = {}
    BY <1>2, <2>1 DEF Owns, Grows, Shrinks
  <2>5. p \in 1 .. Len(x) + 1
    BY <1>0, <2>1
  <2> HIDE DEF b, x, p, v
  <2>6. IdSet(y) = IdSet(x) \cup {b}
    BY <1>0, <2>2, <2>3, <2>5, IdSetOfPut
  <2>7. IdSet(y) \cup Owns(v) = IdSet(x) \cup Owns(it) /\ Owns(v) \cap IdSet(y) = {}
    BY <2>4, <2>6
  <2> QED
    BY <2>7 DEF x, v
<1>3. CASE it.k \in Shrinks
  <2>1. p \in 1 .. Len(s) /\ v.k \in Grows /\ v.a = s[p]
    BY <1>1, <1>3, ShrunkIs
  <2>2. v.a.id = x[p]
    BY <1>0, <2>1, IdsIs
  <2>3. y = Cut(x, p)
    BY <1>0, <1>3 DEF IdStep
  <2>4. Owns(it) = {} /\ Owns(v) = {x[p]}
    BY <1>3, <2>1, <2>2 DEF Owns, Grows, Shrinks
  <2>5. p \in 1 .. Len(x) /\ Ascending(x)
    BY <1>0, <2>1
  <2> HIDE DEF x, p, v
  <2>6. IdSet(y) = IdSet(x) \ {x[p]} /\ x[p] \in IdSet(x)
    BY <1>0, <2>3, <2>5, IdSetOfCut
  <2>7. IdSet(y) \cup Owns(v) = IdSet(x) \cup Owns(it) /\ Owns(v) \cap IdSet(y) = {}
    BY <2>4, <2>6
  <2> QED
    BY <2>7 DEF x, v
<1>4. CASE it.k \in Plain
  <2>1. v.k = it.k /\ y = x
    BY <1>1, <1>4, PlainIs DEF IdStep
  <2>2. Owns(it) = {} /\ Owns(v) = {}
    BY <1>4, <2>1 DEF Owns, Grows, Plain
  <2> QED
    BY <2>1, <2>2
<1> QED
  BY <1>2, <1>3, <1>4, ItemShapes DEF Grows, Shrinks, Plain

-----------------------------------------------------------------------------
(* A group of items: it is applied from its last item to its first.        *)

\* the group takes the ids x to y, by lists in the order of drawing
IdWalk(g, x, y, h) ==
  /\ h[Len(g)] = x /\ h[0] = y
  /\ \A j \in 0 .. Len(g) : Ascending(h[j])
  /\ \A j \in 1 .. Len(g) : IdStep(h[j], g[j], h[j - 1])
GroupIds(g, x, y) == \E h \in [0 .. Len(g) -> Seq(Nat)] : IdWalk(g, x, y, h)

Stages == [doc : Docs, inv : Seq(Items)]
Stage(v, it) == [doc |-> Applied(v.doc, it), inv |-> Append(v.inv, Inverted(v.doc, it))]
Applying(d, g, w) ==
  /\ w \in [0 .. Len(g) -> Stages] /\ w[0].doc = d /\ w[0].inv = <<>>
  /\ \A k \in 1 .. Len(g) : w[k] = Stage(w[k - 1], g[Len(g) + 1 - k])

LEMMA ApplyWalk ==
  ASSUME NEW d \in Docs, NEW g \in Seq(Items)
  PROVE  \E w : Applying(d, g, w) /\ ApplyGroup(d, g) = w[Len(g)]
<1> DEFINE n == Len(g)
           v0 == [doc |-> d, inv |-> <<>>]
           F == [k \in 1 .. n |-> [v \in Stages |-> Stage(v, g[n + 1 - k])]]
           G(f) == [i \in 0 .. n |->
                      IF i = 0 THEN v0 ELSE LET it == g[n + 1 - i]
                                            IN [doc |-> Applied(f[i - 1].doc, it),
                                                inv |-> Append(f[i - 1].inv, Inverted(f[i - 1].doc, it))]]
           u == CHOOSE f : f = G(f)
<1>0. n \in Nat /\ v0 \in Stages
  BY DEF Stages
<1>0a. ASSUME NEW v \in Stages, NEW it \in Items PROVE Stage(v, it) \in Stages
  BY ItemTotal DEF Stage, Stages
<1>1. F \in Moves(Stages, n)
  <2>1. \A k \in 1 .. n : g[n + 1 - k] \in Items
    OBVIOUS
  <2> QED
    BY <1>0a, <2>1 DEF Moves
<1>2. PICK w : w \in Walks(Stages, n, v0, F)
  <2> HIDE DEF F, n, v0
  <2> QED
    BY <1>0, <1>1, WalkExists
<1>3. /\ w \in [0 .. n -> Stages] /\ w[0] = v0
      /\ \A k \in 1 .. n : w[k] = Stage(w[k - 1], g[n + 1 - k])
  <2>1. w \in [0 .. n -> Stages] /\ w[0] = v0 /\ \A k \in 1 .. n : w[k] = F[k][w[k - 1]]
    <3> HIDE DEF F, n, v0
    <3> QED
      BY <1>2 DEF Walks
  <2>2. \A k \in 1 .. n : w[k - 1] \in Stages
    BY <2>1
  <2> QED
    BY <2>1, <2>2
<1>4. w = G(w)
  <2>1. \A i \in 0 .. n : w[i] = G(w)[i]
    <3> TAKE i \in 0 .. n
    <3>1. CASE i = 0
      BY <1>3, <3>1
    <3>2. CASE i # 0
      <4>1. i \in 1 .. n
        BY <3>2
      <4>2. w[i] = Stage(w[i - 1], g[n + 1 - i])
        BY <1>3, <4>1
      <4> QED
        BY <3>2, <4>2 DEF Stage
    <3> QED
      BY <3>1, <3>2
  <2> QED
    BY <2>1, <1>3
<1>5. u = G(u)
  BY <1>4
<1>6. ApplyGroup(d, g) = u[n]
  BY DEF ApplyGroup
<1> HIDE DEF u
<1>7. u[0] = v0 /\ \A k \in 1 .. n : u[k] = Stage(u[k - 1], g[n + 1 - k])
  <2>1. u[0] = v0
    BY <1>5
  <2>2. ASSUME NEW k \in 1 .. n PROVE u[k] = Stage(u[k - 1], g[n + 1 - k])
    <3>1. k \in 0 .. n /\ k # 0
      OBVIOUS
    <3>2. u[k] = G(u)[k]
      BY <1>5
    <3>3. G(u)[k] = Stage(u[k - 1], g[n + 1 - k])
      BY <3>1 DEF Stage
    <3> QED
      BY <3>2, <3>3
  <2> QED
    BY <2>1, <2>2
<1> DEFINE S == {k \in 0 .. n : u[k] \in Stages}
<1>8. 0 .. n \subseteq S
  <2>1. 0 \in S
    BY <1>0, <1>7
  <2>2. ASSUME NEW k \in 0 .. n - 1, k \in S PROVE k + 1 \in S
    <3>1. k + 1 \in 1 .. n /\ k + 1 - 1 = k /\ k + 1 \in 0 .. n /\ g[n + 1 - (k + 1)] \in Items
      OBVIOUS
    <3>2. u[k + 1] = Stage(u[k], g[n + 1 - (k + 1)])
      BY <1>7, <3>1
    <3> QED
      BY <1>0a, <3>1, <3>2, <2>2
  <2> HIDE DEF S, n
  <2> QED
    BY <1>0, <2>1, <2>2, Steps
<1>9. u \in [0 .. n -> Stages]
  BY <1>5, <1>8
<1> QED
  BY <1>6, <1>7, <1>9 DEF Applying


LEMMA ApplyAlong ==
  ASSUME NEW d \in Docs, NEW g \in Seq(Items), d.sel \in 0 .. Len(d.annos), NEW y,
         NEW h \in [0 .. Len(g) -> Seq(Nat)], IdWalk(g, IdsOf(d.annos), y, h),
         NEW w, Applying(d, g, w)
  PROVE  \A k \in 0 .. Len(g) :
           /\ w[k].doc \in Docs /\ w[k].inv \in Seq(Items)
           /\ IdsOf(w[k].doc.annos) = h[Len(g) - k]
           /\ Len(w[k].inv) = k
           /\ \A j \in 1 .. k : w[k].inv[j] = Inverted(w[j - 1].doc, g[Len(g) + 1 - j])
           /\ w[k].doc.undo = d.undo /\ w[k].doc.redo = d.redo /\ w[k].doc.snap = d.snap
           /\ w[k].doc.sel \in 0 .. Len(w[k].doc.annos)
<1> DEFINE n == Len(g)
           Good(k) == /\ IdsOf(w[k].doc.annos) = h[n - k]
                      /\ Len(w[k].inv) = k
                      /\ \A j \in 1 .. k : w[k].inv[j] = Inverted(w[j - 1].doc, g[n + 1 - j])
                      /\ w[k].doc.undo = d.undo /\ w[k].doc.redo = d.redo /\ w[k].doc.snap = d.snap
                      /\ w[k].doc.sel \in 0 .. Len(w[k].doc.annos)
           S == {k \in 0 .. n : Good(k)}
<1>0. n \in Nat
  OBVIOUS
<1>1. \A k \in 0 .. n : w[k].doc \in Docs /\ w[k].inv \in Seq(Items)
  BY DEF Applying, Stages
<1>2. 0 \in S
  BY DEF Applying, IdWalk
<1>3. ASSUME NEW k \in 0 .. n - 1, k \in S PROVE k + 1 \in S
  <2> DEFINE v == w[k]
             it == g[n - k]
  <2>1. k + 1 \in 1 .. n /\ k + 1 - 1 = k /\ k + 1 \in 0 .. n /\ n + 1 - (k + 1) = n - k /\ n - k \in 1 .. n
    OBVIOUS
  <2>2. w[k + 1] = Stage(v, it)
    BY <2>1 DEF Applying
  <2>3. v.doc \in Docs /\ v.inv \in Seq(Items) /\ it \in Items
    BY <1>1, <2>1
  <2>4. Good(k)
    BY <1>3
  <2>5. w[k + 1].doc = Applied(v.doc, it) /\ w[k + 1].inv = Append(v.inv, Inverted(v.doc, it))
    BY <2>2 DEF Stage
  <2>6. Inverted(v.doc, it) \in Items
    BY <2>3, ItemTotal
  <2>7. IdStep(h[n - k], it, h[n - (k + 1)])
    <3>1. IdStep(h[n - k], g[n - k], h[n - k - 1])
      BY <2>1 DEF IdWalk
    <3>2. n - k - 1 = n - (k + 1)
      BY <1>0
    <3> QED
      BY <3>1, <3>2
  <2>8. IdsOf(w[k + 1].doc.annos) = h[n - (k + 1)]
    <3> DEFINE e == v.doc
               z == h[n - (k + 1)]
    <3>1. e \in Docs /\ it \in Items /\ IdStep(IdsOf(e.annos), it, z)
      BY <2>3, <2>4, <2>7
    <3> HIDE DEF e, it, z
    <3>2. IdsOf(Applied(e, it).annos) = z
      BY <3>1, StepForth
    <3> QED
      BY <2>5, <3>2 DEF e, it, z
  <2>9. Len(w[k + 1].inv) = k + 1
    BY <2>3, <2>4, <2>5, <2>6
  <2>10. ASSUME NEW j \in 1 .. k + 1
         PROVE  w[k + 1].inv[j] = Inverted(w[j - 1].doc, g[n + 1 - j])
    <3>1. CASE j \in 1 .. k
      <4>1. w[k + 1].inv[j] = v.inv[j]
        BY <2>3, <2>4, <2>5, <2>6, <3>1
      <4>2. v.inv[j] = Inverted(w[j - 1].doc, g[n + 1 - j])
        BY <2>4, <3>1
      <4> QED
        BY <4>1, <4>2
    <3>2. CASE j = k + 1
      <4>1. w[k + 1].inv[k + 1] = Inverted(v.doc, it)
        BY <2>3, <2>4, <2>5, <2>6
      <4>2. j - 1 = k /\ n + 1 - j = n - k
        BY <3>2
      <4> QED
        BY <3>2, <4>1, <4>2
    <3> QED
      BY <3>1, <3>2
  <2>11. /\ w[k + 1].doc.undo = d.undo /\ w[k + 1].doc.redo = d.redo /\ w[k + 1].doc.snap = d.snap
         /\ w[k + 1].doc.sel \in 0 .. Len(w[k + 1].doc.annos)
    <3>1. v.doc.sel \in Nat /\ w[k + 1].doc.annos \in Seq(AnnoSet)
      BY <1>1, <2>1, <2>3 DEF Docs
    <3>2. /\ w[k + 1].doc.undo = v.doc.undo /\ w[k + 1].doc.redo = v.doc.redo
          /\ w[k + 1].doc.snap = v.doc.snap
          /\ w[k + 1].doc.sel = IF v.doc.sel > Len(w[k + 1].doc.annos) THEN 0 ELSE v.doc.sel
      <4> DEFINE e == v.doc
      <4>1. e \in Docs /\ it \in Items
        BY <2>3
      <4> HIDE DEF e, it
      <4>2. LET f == Applied(e, it) IN
            /\ f.undo = e.undo /\ f.redo = e.redo /\ f.snap = e.snap
            /\ f.sel = IF e.sel > Len(f.annos) THEN 0 ELSE e.sel
        BY <4>1, AppliedIs
      <4> QED
        BY <2>5, <4>2 DEF e, it
    <3>3. w[k + 1].doc.sel \in 0 .. Len(w[k + 1].doc.annos)
      BY <3>1, <3>2
    <3> QED
      BY <2>4, <3>2, <3>3
  <2>12. Good(k + 1)
    BY <2>8, <2>9, <2>10, <2>11
  <2> QED
    BY <2>1, <2>12
<1>4. 0 .. n \subseteq S
  <2> HIDE DEF S, n
  <2> QED
    BY <1>0, <1>2, <1>3, Steps
<1> QED
  BY <1>1, <1>4

\* A group leads where its ids lead, and the group that takes it back leads back.
LEMMA GroupForth ==
  ASSUME NEW d \in Docs, NEW g \in Seq(Items), d.sel \in 0 .. Len(d.annos), NEW y,
         GroupIds(g, IdsOf(d.annos), y)
  PROVE  LET a == ApplyGroup(d, g) IN
         /\ a.doc \in Docs /\ a.inv \in Seq(Items) /\ Len(a.inv) = Len(g)
         /\ a.doc.undo = d.undo /\ a.doc.redo = d.redo /\ a.doc.snap = d.snap
         /\ a.doc.sel \in 0 .. Len(a.doc.annos)
         /\ IdsOf(a.doc.annos) = y
         /\ GroupIds(a.inv, y, IdsOf(d.annos))
<1> DEFINE n == Len(g)
<1>1. PICK h \in [0 .. n -> Seq(Nat)] : IdWalk(g, IdsOf(d.annos), y, h)
  BY DEF GroupIds
<1>2. PICK w : Applying(d, g, w) /\ ApplyGroup(d, g) = w[n]
  BY ApplyWalk
<1>3. \A k \in 0 .. n :
           /\ w[k].doc \in Docs /\ w[k].inv \in Seq(Items)
           /\ IdsOf(w[k].doc.annos) = h[n - k]
           /\ Len(w[k].inv) = k
           /\ \A j \in 1 .. k : w[k].inv[j] = Inverted(w[j - 1].doc, g[n + 1 - j])
           /\ w[k].doc.undo = d.undo /\ w[k].doc.redo = d.redo /\ w[k].doc.snap = d.snap
           /\ w[k].doc.sel \in 0 .. Len(w[k].doc.annos)
  BY <1>1, <1>2, ApplyAlong
<1>4. n \in Nat /\ n \in 0 .. n /\ n - n = 0
  OBVIOUS
<1> DEFINE a == ApplyGroup(d, g)
           r == [j \in 0 .. n |-> h[n - j]]
<1>5. Len(a.inv) = n /\ IdsOf(a.doc.annos) = y /\ a = w[n]
  BY <1>1, <1>2, <1>3, <1>4 DEF IdWalk
<1>6. r \in [0 .. n -> Seq(Nat)]
  OBVIOUS
<1>7. ASSUME NEW j \in 1 .. n PROVE IdStep(r[j], a.inv[j], r[j - 1])
  <2>1. /\ n + 1 - j \in 1 .. n /\ j - 1 \in 0 .. n /\ j \in 0 .. n /\ n - (j - 1) = n + 1 - j
        /\ n + 1 - j - 1 = n - j
    OBVIOUS
  <2>2. r[j] = h[n - j] /\ r[j - 1] = h[n + 1 - j]
    BY <2>1
  <2> DEFINE e == w[j - 1].doc
             it == g[n + 1 - j]
  <2>3. IdStep(h[n + 1 - j], it, h[n - j])
    <3>1. IdStep(h[n + 1 - j], g[n + 1 - j], h[n + 1 - j - 1])
      BY <1>1, <2>1 DEF IdWalk
    <3> QED
      BY <2>1, <3>1
  <2>4. IdsOf(e.annos) = h[n + 1 - j] /\ e \in Docs /\ it \in Items
    <3>1. IdsOf(e.annos) = h[n - (j - 1)] /\ e \in Docs
      BY <1>3, <2>1
    <3>2. it \in Items
      BY <2>1
    <3> QED
      BY <2>1, <3>1, <3>2
  <2>5. IdStep(h[n - j], Inverted(e, it), IdsOf(e.annos))
    <3> DEFINE z == h[n - j]
    <3>1. e \in Docs /\ it \in Items /\ IdStep(IdsOf(e.annos), it, z)
      BY <2>3, <2>4
    <3> HIDE DEF e, it, z
    <3>2. IdStep(z, Inverted(e, it), IdsOf(e.annos))
      BY <3>1, StepForth
    <3> QED
      BY <3>2 DEF z
  <2>6. a.inv[j] = Inverted(e, it)
    BY <1>3, <1>4, <1>5
  <2> QED
    BY <2>2, <2>4, <2>5, <2>6
<1>8. \A j \in 0 .. n : Ascending(r[j])
  BY <1>1 DEF IdWalk
<1>9. r[n] = y /\ r[0] = IdsOf(d.annos)
  BY <1>1, <1>4 DEF IdWalk
<1>10. IdWalk(a.inv, y, IdsOf(d.annos), r)
  <2> HIDE DEF r
  <2> QED
    BY <1>5, <1>7, <1>8, <1>9 DEF IdWalk
<1>11. GroupIds(a.inv, y, IdsOf(d.annos))
  <2> HIDE DEF r
  <2> QED
    BY <1>5, <1>6, <1>10 DEF GroupIds
<1> QED
  BY <1>3, <1>4, <1>5, <1>11


LEMMA OwnsAtMore ==
  ASSUME NEW g, NEW m \in Nat
  PROVE  OwnsAt(g, 1 .. m + 1) = OwnsAt(g, 1 .. m) \cup Owns(g[m + 1])
<1>1. 1 .. m + 1 = (1 .. m) \cup {m + 1}
  OBVIOUS
<1> QED
  BY <1>1 DEF OwnsAt

LEMMA GroupOwns ==
  ASSUME NEW d \in Docs, NEW g \in Seq(Items), d.sel \in 0 .. Len(d.annos), NEW y,
         GroupIds(g, IdsOf(d.annos), y), OwnsOnce(g, 1 .. Len(g)),
         OwnsAt(g, 1 .. Len(g)) \cap IdSet(IdsOf(d.annos)) = {}
  PROVE  LET inv == ApplyGroup(d, g).inv IN
         /\ OwnsAt(inv, 1 .. Len(g)) \cup IdSet(y) = OwnsAt(g, 1 .. Len(g)) \cup IdSet(IdsOf(d.annos))
         /\ OwnsAt(inv, 1 .. Len(g)) \cap IdSet(y) = {}
         /\ OwnsOnce(inv, 1 .. Len(g))
<1> DEFINE n == Len(g)
           inv == ApplyGroup(d, g).inv
           x == IdsOf(d.annos)
<1>1. PICK h \in [0 .. n -> Seq(Nat)] : IdWalk(g, IdsOf(d.annos), y, h)
  BY DEF GroupIds
<1>2. PICK w : Applying(d, g, w) /\ ApplyGroup(d, g) = w[n]
  BY ApplyWalk
<1>3. \A k \in 0 .. n :
           /\ w[k].doc \in Docs /\ w[k].inv \in Seq(Items)
           /\ IdsOf(w[k].doc.annos) = h[n - k]
           /\ Len(w[k].inv) = k
           /\ \A j \in 1 .. k : w[k].inv[j] = Inverted(w[j - 1].doc, g[n + 1 - j])
           /\ w[k].doc.undo = d.undo /\ w[k].doc.redo = d.redo /\ w[k].doc.snap = d.snap
           /\ w[k].doc.sel \in 0 .. Len(w[k].doc.annos)
  BY <1>1, <1>2, ApplyAlong
<1>4. n \in Nat /\ n \in 0 .. n /\ n - n = 0 /\ n - 0 = n
  OBVIOUS
<1>5. \A j \in 1 .. n : inv[j] = Inverted(w[j - 1].doc, g[n + 1 - j])
  <2>1. inv = w[n].inv
    BY <1>2
  <2>2. \A j \in 1 .. n : w[n].inv[j] = Inverted(w[j - 1].doc, g[n + 1 - j])
    BY <1>3, <1>4, Zenon
  <2> QED
    BY <2>1, <2>2, Zenon
<1> DEFINE R(k) == OwnsAt(g, 1 .. n - k)
           L(k) == IdSet(h[n - k])
           V(k) == OwnsAt(inv, 1 .. k)
           Good(k) == /\ R(k) \cup L(k) \cup V(k) = OwnsAt(g, 1 .. n) \cup IdSet(x)
                      /\ R(k) \cap L(k) = {} /\ R(k) \cap V(k) = {} /\ L(k) \cap V(k) = {}
                      /\ OwnsOnce(inv, 1 .. k)
           S == {k \in 0 .. n : Good(k)}
<1>6. 0 \in S
  <2>1. 1 .. 0 = {} /\ 1 .. n - 0 = 1 .. n
    OBVIOUS
  <2>2. V(0) = {} /\ OwnsOnce(inv, 1 .. 0) /\ R(0) = OwnsAt(g, 1 .. n)
    BY <2>1 DEF OwnsAt, OwnsOnce
  <2>3. L(0) = IdSet(x)
    BY <1>1, <1>4 DEF IdWalk
  <2>4. Good(0)
    <3> HIDE DEF R, L, V, x
    <3> QED
      BY <2>2, <2>3 DEF x
  <2> QED
    BY <2>4
<1>7. ASSUME NEW k \in 0 .. n - 1, k \in S PROVE k + 1 \in S
  <2> DEFINE e == w[k].doc
             it == g[n - k]
             z == h[n - (k + 1)]
             v == Inverted(e, it)
  <2>1. /\ k + 1 \in 1 .. n /\ k \in 0 .. n /\ k + 1 - 1 = k /\ k + 1 \in 0 .. n /\ k \in Nat
        /\ n + 1 - (k + 1) = n - k
        /\ n - k \in 1 .. n /\ n - k \in 0 .. n /\ n - k - 1 = n - (k + 1) /\ n - (k + 1) + 1 = n - k
        /\ n - (k + 1) \in Nat
    OBVIOUS
  <2>2. e \in Docs /\ it \in Items /\ IdsOf(e.annos) = h[n - k]
    BY <1>3, <2>1
  <2>3. IdStep(IdsOf(e.annos), it, z)
    <3>1. IdStep(h[n - k], g[n - k], h[n - k - 1])
      BY <1>1, <2>1 DEF IdWalk
    <3> QED
      BY <2>1, <2>2, <3>1
  <2>4. Ascending(IdsOf(e.annos))
    BY <1>1, <2>1, <2>2 DEF IdWalk
  <2>5. /\ IdSet(z) \cup Owns(v) = IdSet(IdsOf(e.annos)) \cup Owns(it)
        /\ Owns(it) \cap IdSet(IdsOf(e.annos)) = {} => Owns(v) \cap IdSet(z) = {}
    <3> HIDE DEF e, it, z
    <3> QED
      BY <2>2, <2>3, <2>4, StepOwns
  <2>6. /\ L(k + 1) \cup Owns(v) = L(k) \cup Owns(it)
        /\ Owns(it) \cap L(k) = {} => Owns(v) \cap L(k + 1) = {}
    BY <2>2, <2>5
  <2>7. R(k) = R(k + 1) \cup Owns(it)
    <3>1. OwnsAt(g, 1 .. n - (k + 1) + 1) = OwnsAt(g, 1 .. n - (k + 1)) \cup Owns(g[n - (k + 1) + 1])
      BY <2>1, OwnsAtMore
    <3> QED
      BY <2>1, <3>1
  <2>8. R(k + 1) \cap Owns(it) = {}
    <3>1. \A i \in 1 .. n - (k + 1) : i \in 1 .. n /\ i # n - k
      BY <2>1
    <3>2. \A i \in 1 .. n - (k + 1) : Owns(g[i]) \cap Owns(g[n - k]) = {}
      BY <2>1, <3>1 DEF OwnsOnce
    <3> QED
      BY <3>2 DEF OwnsAt
  <2>9. inv[k + 1] = v
    BY <1>5, <2>1
  <2>10. V(k + 1) = V(k) \cup Owns(v)
    <3>1. OwnsAt(inv, 1 .. k + 1) = OwnsAt(inv, 1 .. k) \cup Owns(inv[k + 1])
      BY <2>1, OwnsAtMore
    <3> QED
      BY <2>9, <3>1
  <2>11. Good(k)
    BY <1>7
  <2>12. /\ R(k + 1) \cup L(k + 1) \cup V(k + 1) = R(k) \cup L(k) \cup V(k)
         /\ R(k + 1) \cap L(k + 1) = {} /\ R(k + 1) \cap V(k + 1) = {}
         /\ L(k + 1) \cap V(k + 1) = {} /\ Owns(v) \cap V(k) = {}
    <3> DEFINE r == R(k)
               l == L(k)
               o == V(k)
               from == Owns(it)
               to == Owns(v)
               r2 == R(k + 1)
               l2 == L(k + 1)
    <3>1. /\ r = r2 \cup from /\ r2 \cap from = {} /\ l2 \cup to = l \cup from
          /\ from \cap l = {} => to \cap l2 = {}
          /\ r \cap l = {} /\ r \cap o = {} /\ l \cap o = {}
      BY <2>6, <2>7, <2>8, <2>11
    <3> HIDE DEF r, l, o, from, to, r2, l2
    <3>2. /\ r2 \cup l2 \cup (o \cup to) = r \cup l \cup o
          /\ r2 \cap l2 = {} /\ r2 \cap (o \cup to) = {} /\ l2 \cap (o \cup to) = {}
          /\ to \cap o = {}
      <4>1. from \cap l = {} /\ to \cap l2 = {}
        BY <3>1
      <4>2. l2 \subseteq l \cup from /\ to \subseteq l \cup from /\ from \subseteq r
        BY <3>1
      <4>3. r2 \cap l2 = {} /\ r2 \cap to = {} /\ l2 \cap o = {} /\ to \cap o = {} /\ r2 \cap o = {}
        BY <3>1, <4>2
      <4>4. r2 \cup l2 \cup (o \cup to) = r2 \cup o \cup (l2 \cup to)
        OBVIOUS
      <4>5. r2 \cup o \cup (l \cup from) = r \cup l \cup o
        BY <3>1
      <4> QED
        BY <3>1, <4>1, <4>3, <4>4, <4>5
    <3> QED
      BY <2>10, <3>2 DEF r, l, o, from, to, r2, l2
  <2>13. OwnsOnce(inv, 1 .. k + 1)
    <3>1. \A i \in 1 .. k : Owns(inv[i]) \cap Owns(v) = {}
      BY <2>12 DEF OwnsAt
    <3>2. \A i \in 1 .. k + 1 : i = k + 1 \/ i \in 1 .. k
      OBVIOUS
    <3>3. OwnsOnce(inv, 1 .. k)
      BY <2>11
    <3> HIDE DEF v, inv
    <3> QED
      BY <2>9, <3>1, <3>2, <3>3 DEF OwnsOnce
  <2>14. Good(k + 1)
    <3> HIDE DEF R, L, V, inv
    <3> QED
      BY <2>11, <2>12, <2>13
  <2> QED
    BY <2>1, <2>14
<1>8. n \in S
  <2> HIDE DEF S, n
  <2> QED
    BY <1>4, <1>6, <1>7, Steps
<1>9. R(n) = {} /\ L(n) = IdSet(y)
  BY <1>1, <1>4 DEF IdWalk, OwnsAt
<1>10. Good(n)
  BY <1>8
<1>11. V(n) \cup IdSet(y) = OwnsAt(g, 1 .. n) \cup IdSet(x) /\ V(n) \cap IdSet(y) = {}
  <2> HIDE DEF R, L, V, x
  <2> QED
    BY <1>9, <1>10
<1> QED
  BY <1>10, <1>11

\* Applied to any document with the same picture, the inverse group restores the picture
\* and gives the group back.
LEMMA GroupBack ==
  ASSUME NEW d \in Docs, NEW g \in Seq(Items), d.sel \in 0 .. Len(d.annos), NEW y,
         GroupIds(g, IdsOf(d.annos), y), NEW e \in Docs,
         e.annos = ApplyGroup(d, g).doc.annos, e.region = ApplyGroup(d, g).doc.region
  PROVE  LET b == ApplyGroup(e, ApplyGroup(d, g).inv) IN
         b.doc.annos = d.annos /\ b.doc.region = d.region /\ b.inv = g
<1> DEFINE n == Len(g)
           inv == ApplyGroup(d, g).inv
<1>1. PICK h \in [0 .. n -> Seq(Nat)] : IdWalk(g, IdsOf(d.annos), y, h)
  BY DEF GroupIds
<1>2. PICK w : Applying(d, g, w) /\ ApplyGroup(d, g) = w[n]
  BY ApplyWalk
<1>3. \A k \in 0 .. n :
           /\ w[k].doc \in Docs /\ w[k].inv \in Seq(Items)
           /\ IdsOf(w[k].doc.annos) = h[n - k]
           /\ Len(w[k].inv) = k
           /\ \A j \in 1 .. k : w[k].inv[j] = Inverted(w[j - 1].doc, g[n + 1 - j])
           /\ w[k].doc.undo = d.undo /\ w[k].doc.redo = d.redo /\ w[k].doc.snap = d.snap
           /\ w[k].doc.sel \in 0 .. Len(w[k].doc.annos)
  BY <1>1, <1>2, ApplyAlong
<1>4. n \in Nat /\ n \in 0 .. n /\ n - n = 0 /\ n - 0 = n
  OBVIOUS
<1>5. /\ inv \in Seq(Items) /\ Len(inv) = n
      /\ \A j \in 1 .. n : inv[j] = Inverted(w[j - 1].doc, g[n + 1 - j])
  BY <1>2, <1>3, <1>4
<1>6. PICK u : Applying(e, inv, u) /\ ApplyGroup(e, inv) = u[n]
  <2> HIDE DEF inv
  <2> QED
    BY <1>5, ApplyWalk
<1>7. /\ \A k \in 0 .. n : u[k].doc \in Docs /\ u[k].inv \in Seq(Items)
      /\ u[0].doc = e /\ u[0].inv = <<>>
      /\ \A k \in 1 .. n : u[k] = Stage(u[k - 1], inv[n + 1 - k])
  BY <1>5, <1>6 DEF Applying, Stages
<1> DEFINE Good(k) == /\ u[k].doc.annos = w[n - k].doc.annos /\ u[k].doc.region = w[n - k].doc.region
                      /\ Len(u[k].inv) = k /\ \A j \in 1 .. k : u[k].inv[j] = g[j]
           S == {k \in 0 .. n : Good(k)}
<1>8. 0 \in S
  BY <1>2, <1>4, <1>7
<1>9. ASSUME NEW k \in 0 .. n - 1, k \in S PROVE k + 1 \in S
  <2> DEFINE c == w[n - (k + 1)].doc
             it == g[k + 1]
             f == u[k].doc
             v == Inverted(c, it)
  <2>1. /\ k + 1 \in 1 .. n /\ k \in 0 .. n /\ k + 1 - 1 = k /\ k + 1 \in 0 .. n
        /\ n - k \in 1 .. n /\ n - k - 1 = n - (k + 1) /\ n + 1 - (n - k) = k + 1
        /\ n - (k + 1) \in 0 .. n /\ n + 1 - (k + 1) = n - k
        /\ n - (n - (k + 1)) = k + 1
    OBVIOUS
  <2>2. c \in Docs /\ f \in Docs /\ it \in Items /\ IdsOf(c.annos) = h[k + 1]
    <3>1. c \in Docs /\ IdsOf(c.annos) = h[n - (n - (k + 1))]
      BY <1>3, <2>1
    <3> QED
      BY <1>7, <2>1, <3>1
  <2>3. IdStep(IdsOf(c.annos), it, h[k])
    <3>1. IdStep(h[k + 1], g[k + 1], h[k + 1 - 1])
      BY <1>1, <2>1 DEF IdWalk
    <3> QED
      BY <2>1, <2>2, <3>1
  <2>4. FitsIn(it, Len(c.annos))
    <3> DEFINE z == h[k]
    <3>1. IdStep(IdsOf(c.annos), it, z)
      BY <2>3
    <3> HIDE DEF c, it, z
    <3> QED
      BY <2>2, <3>1, StepForth
  <2>5. w[n - k] = Stage(w[n - (k + 1)], it)
    <3>1. w[n - k] = Stage(w[n - k - 1], g[n + 1 - (n - k)])
      BY <1>2, <2>1 DEF Applying
    <3> QED
      BY <2>1, <3>1
  <2>6. w[n - k].doc = Applied(c, it)
    BY <2>5 DEF Stage
  <2>7. Good(k)
    BY <1>9
  <2>8. f.annos = Applied(c, it).annos /\ f.region = Applied(c, it).region
    BY <2>6, <2>7
  <2>9. Applied(f, v).annos = c.annos /\ Applied(f, v).region = c.region /\ Inverted(f, v) = it
    <3> HIDE DEF c, it, f
    <3> QED
      BY <2>2, <2>4, <2>8, StepBack
  <2>10. inv[n - k] = v
    <3>1. inv[n - k] = Inverted(w[n - k - 1].doc, g[n + 1 - (n - k)])
      BY <1>5, <2>1
    <3> QED
      BY <2>1, <3>1
  <2>11. u[k + 1] = Stage(u[k], v)
    <3>1. u[k + 1] = Stage(u[k + 1 - 1], inv[n + 1 - (k + 1)])
      BY <1>7, <2>1
    <3> HIDE DEF v, inv
    <3> QED
      BY <2>1, <2>10, <3>1
  <2>12. u[k + 1].doc = Applied(f, v) /\ u[k + 1].inv = Append(u[k].inv, it)
    <3> HIDE DEF v, it, c
    <3> QED
      BY <2>9, <2>11 DEF Stage
  <2>13. Len(u[k + 1].inv) = k + 1 /\ \A j \in 1 .. k + 1 : u[k + 1].inv[j] = g[j]
    <3>1. u[k].inv \in Seq(Items) /\ Len(u[k].inv) = k /\ \A j \in 1 .. k : u[k].inv[j] = g[j]
      BY <1>7, <2>1, <2>7
    <3> DEFINE o == u[k].inv
    <3>2. o \in Seq(Items) /\ it \in Items /\ u[k + 1].inv = Append(o, it) /\ Len(o) = k
      BY <2>2, <2>12, <3>1
    <3> HIDE DEF o
    <3>3. Len(u[k + 1].inv) = k + 1 /\ u[k + 1].inv[k + 1] = it
      BY <3>2
    <3>4. ASSUME NEW j \in 1 .. k PROVE u[k + 1].inv[j] = g[j]
      BY <3>1, <3>2 DEF o
    <3>5. \A j \in 1 .. k + 1 : j \in 1 .. k \/ j = k + 1
      OBVIOUS
    <3> QED
      BY <3>3, <3>4, <3>5
  <2>14. Good(k + 1)
    <3> HIDE DEF v, it
    <3> QED
      BY <2>9, <2>12, <2>13
  <2> QED
    BY <2>1, <2>14
<1>10. n \in S
  <2> HIDE DEF S, n
  <2> QED
    BY <1>4, <1>8, <1>9, Steps
<1>11. Good(n) /\ w[n - n].doc = d
  BY <1>2, <1>4, <1>10 DEF Applying
<1>12. u[n].inv = g
  <2>1. u[n].inv \in Seq(Items) /\ Len(u[n].inv) = n /\ \A j \in 1 .. n : u[n].inv[j] = g[j]
    BY <1>4, <1>7, <1>11
  <2> QED
    BY <2>1, SeqEqual
<1> QED
  BY <1>6, <1>11, <1>12


-----------------------------------------------------------------------------
(* The two stacks.                                                         *)

\* the stack s takes the ids x back, group by group
StackWalk(s, x, h) ==
  /\ h[Len(s)] = x /\ \A j \in 0 .. Len(s) : Ascending(h[j])
  /\ \A j \in 1 .. Len(s) : GroupIds(s[j], h[j], h[j - 1])
StackIds(s, x) == \E h \in [0 .. Len(s) -> Seq(Nat)] : StackWalk(s, x, h)

GroupOwned(g) == OwnsAt(g, 1 .. Len(g))
GroupOnce(g)  == OwnsOnce(g, 1 .. Len(g))
Held(s)       == UNION {GroupOwned(s[j]) : j \in 1 .. Len(s)}
StackOnce(s)  ==
  /\ \A j \in 1 .. Len(s) : GroupOnce(s[j])
  /\ \A i, j \in 1 .. Len(s) : i # j => GroupOwned(s[i]) \cap GroupOwned(s[j]) = {}

\* Both stacks fit the list with the ids x, and an annotation is in one place.
Fitting(x, s, t) ==
  /\ StackIds(s, x) /\ StackIds(t, x)
  /\ StackOnce(s) /\ StackOnce(t)
  /\ Held(s) \cap IdSet(x) = {} /\ Held(t) \cap IdSet(x) = {} /\ Held(s) \cap Held(t) = {}
DocOk(d) ==
  /\ d \in Docs /\ d.sel \in 0 .. Len(d.annos)
  /\ Fitting(IdsOf(d.annos), d.undo, d.redo)

Stacks == Seq(Seq(Items))

LEMMA EmptyStack ==
  ASSUME NEW x \in Seq(Nat), Ascending(x)
  PROVE  StackIds(<<>>, x) /\ StackOnce(<<>>) /\ Held(<<>>) = {}
<1> DEFINE h == [j \in 0 .. 0 |-> x]
<1>1. Len(<<>>) = 0 /\ 1 .. 0 = {}
  OBVIOUS
<1>2. h \in [0 .. 0 -> Seq(Nat)] /\ h[0] = x /\ \A j \in 0 .. 0 : Ascending(h[j])
  OBVIOUS
<1> HIDE DEF h
<1>3. StackWalk(<<>>, x, h)
  BY <1>1, <1>2 DEF StackWalk
<1>4. StackIds(<<>>, x)
  BY <1>1, <1>2, <1>3 DEF StackIds
<1>5. StackOnce(<<>>) /\ Held(<<>>) = {}
  BY <1>1 DEF StackOnce, Held
<1> QED
  BY <1>4, <1>5

LEMMA StackAscends ==
  ASSUME NEW s \in Stacks, NEW x, StackIds(s, x)
  PROVE  Ascending(x)
<1>1. Len(s) \in 0 .. Len(s)
  BY DEF Stacks
<1> QED
  BY <1>1 DEF StackIds, StackWalk

LEMMA StackFront ==
  ASSUME NEW s \in Stacks, NEW x, StackIds(s, x), s # <<>>
  PROVE  \E y \in Seq(Nat) : GroupIds(Last(s), x, y) /\ StackIds(Front(s), y) /\ Ascending(y)
<1> DEFINE n == Len(s)
           t == Front(s)
<1>1. /\ n \in 1 .. n /\ Last(s) = s[n] /\ t \in Stacks /\ Len(t) = n - 1
      /\ \A j \in 1 .. n - 1 : t[j] = s[j]
  BY FrontIsCut DEF Stacks
<1>2. PICK h \in [0 .. n -> Seq(Nat)] : StackWalk(s, x, h)
  BY DEF StackIds
<1>3. n \in Nat /\ n - 1 \in 0 .. n /\ h[n - 1] \in Seq(Nat)
  <2>1. n \in Nat
    BY DEF Stacks
  <2>2. n - 1 \in 0 .. n
    BY <1>1, <2>1
  <2> HIDE DEF n
  <2> QED
    BY <2>1, <2>2
<1>4. GroupIds(Last(s), x, h[n - 1]) /\ Ascending(h[n - 1])
  BY <1>1, <1>2, <1>3 DEF StackWalk
<1> DEFINE r == [j \in 0 .. n - 1 |-> h[j]]
<1>5. /\ r \in [0 .. n - 1 -> Seq(Nat)] /\ r[n - 1] = h[n - 1]
      /\ \A j \in 0 .. n - 1 : r[j] = h[j] /\ j \in 0 .. n
  BY <1>1, <1>3
<1> HIDE DEF r, t
<1>6. \A j \in 0 .. n - 1 : Ascending(r[j])
  BY <1>2, <1>5 DEF StackWalk
<1>7. ASSUME NEW j \in 1 .. n - 1 PROVE GroupIds(t[j], r[j], r[j - 1])
  <2>1. j \in 1 .. n /\ j \in 0 .. n - 1 /\ j - 1 \in 0 .. n - 1
    BY <1>1
  <2>2. GroupIds(s[j], h[j], h[j - 1])
    BY <1>2, <2>1 DEF StackWalk
  <2> QED
    BY <1>1, <1>5, <2>1, <2>2
<1>8. StackWalk(t, h[n - 1], r)
  BY <1>1, <1>5, <1>6, <1>7 DEF StackWalk
<1>9. StackIds(t, h[n - 1])
  BY <1>1, <1>5, <1>8 DEF StackIds
<1> QED
  BY <1>3, <1>4, <1>9 DEF t

LEMMA StackAppend ==
  ASSUME NEW s \in Stacks, NEW x, StackIds(s, x), NEW g \in Seq(Items),
         NEW y \in Seq(Nat), GroupIds(g, y, x), Ascending(y)
  PROVE  StackIds(Append(s, g), y)
<1> DEFINE n == Len(s)
           t == Append(s, g)
<1>1. /\ n \in Nat /\ t \in Stacks /\ Len(t) = n + 1 /\ t[n + 1] = g
      /\ \A j \in 1 .. n : t[j] = s[j]
  BY DEF Stacks
<1>2. PICK h \in [0 .. n -> Seq(Nat)] : StackWalk(s, x, h)
  BY DEF StackIds
<1> DEFINE r == [j \in 0 .. n + 1 |-> IF j = n + 1 THEN y ELSE h[j]]
<1>3. r \in [0 .. n + 1 -> Seq(Nat)] /\ r[n + 1] = y /\ \A j \in 0 .. n : r[j] = h[j]
  BY <1>1
<1> HIDE DEF r, t
<1>4. ASSUME NEW j \in 0 .. n + 1 PROVE Ascending(r[j])
  <2>1. j = n + 1 \/ j \in 0 .. n
    BY <1>1
  <2> QED
    BY <1>2, <1>3, <2>1 DEF StackWalk
<1>5. ASSUME NEW j \in 1 .. n + 1 PROVE GroupIds(t[j], r[j], r[j - 1])
  <2>1. CASE j \in 1 .. n
    <3>1. j \in 0 .. n /\ j - 1 \in 0 .. n
      BY <2>1
    <3>2. GroupIds(s[j], h[j], h[j - 1])
      BY <1>2, <2>1 DEF StackWalk
    <3> QED
      BY <1>1, <1>3, <2>1, <3>1, <3>2
  <2>2. CASE j = n + 1
    <3>1. j - 1 = n /\ n \in 0 .. n
      BY <1>1, <2>2
    <3>2. r[n] = x
      BY <1>2, <1>3, <3>1 DEF StackWalk
    <3> QED
      BY <1>1, <1>3, <2>2, <3>1, <3>2
  <2> QED
    BY <1>1, <2>1, <2>2
<1>6. StackWalk(t, y, r)
  BY <1>1, <1>3, <1>4, <1>5 DEF StackWalk
<1>7. StackIds(t, y)
  BY <1>1, <1>3, <1>6 DEF StackIds
<1> QED
  BY <1>7 DEF t

LEMMA HeldFront ==
  ASSUME NEW s \in Stacks, s # <<>>
  PROVE  /\ Held(s) = Held(Front(s)) \cup GroupOwned(Last(s))
         /\ StackOnce(s) => /\ StackOnce(Front(s)) /\ GroupOnce(Last(s))
                            /\ Held(Front(s)) \cap GroupOwned(Last(s)) = {}
<1> DEFINE n == Len(s)
           t == Front(s)
<1>1. /\ n \in 1 .. n /\ Last(s) = s[n] /\ Len(t) = n - 1
      /\ \A j \in 1 .. n - 1 : t[j] = s[j]
  BY FrontIsCut DEF Stacks
<1> HIDE DEF t
<1>2. 1 .. n = (1 .. n - 1) \cup {n} /\ n \notin 1 .. n - 1
  BY <1>1
<1>3. Held(s) = Held(t) \cup GroupOwned(s[n])
  BY <1>1, <1>2 DEF Held
<1>4. ASSUME StackOnce(s)
      PROVE  StackOnce(t) /\ GroupOnce(s[n]) /\ Held(t) \cap GroupOwned(s[n]) = {}
  <2>1. \A j \in 1 .. n - 1 : j \in 1 .. n /\ j # n /\ t[j] = s[j]
    BY <1>1, <1>2
  <2>2. /\ \A j \in 1 .. n : GroupOnce(s[j])
        /\ \A i, j \in 1 .. n : i # j => GroupOwned(s[i]) \cap GroupOwned(s[j]) = {}
    BY <1>4 DEF StackOnce
  <2>3. StackOnce(t)
    BY <1>1, <2>1, <2>2 DEF StackOnce
  <2>4. \A j \in 1 .. n - 1 : GroupOwned(t[j]) \cap GroupOwned(s[n]) = {}
    BY <1>1, <2>1, <2>2
  <2>5. Held(t) \cap GroupOwned(s[n]) = {}
    BY <1>1, <2>4 DEF Held
  <2> QED
    BY <1>1, <2>2, <2>3, <2>5
<1> QED
  BY <1>1, <1>3, <1>4 DEF t

LEMMA HeldAppend ==
  ASSUME NEW s \in Stacks, NEW g \in Seq(Items)
  PROVE  /\ Held(Append(s, g)) = Held(s) \cup GroupOwned(g)
         /\ StackOnce(s) /\ GroupOnce(g) /\ Held(s) \cap GroupOwned(g) = {} => StackOnce(Append(s, g))
<1> DEFINE n == Len(s)
           t == Append(s, g)
<1>1. /\ n \in Nat /\ Len(t) = n + 1 /\ t[n + 1] = g
      /\ \A j \in 1 .. n : t[j] = s[j]
  BY DEF Stacks
<1> HIDE DEF t
<1>2. 1 .. n + 1 = (1 .. n) \cup {n + 1} /\ n + 1 \notin 1 .. n
  BY <1>1
<1>3. Held(t) = Held(s) \cup GroupOwned(g)
  BY <1>1, <1>2 DEF Held
<1>4. ASSUME StackOnce(s), GroupOnce(g), Held(s) \cap GroupOwned(g) = {}
      PROVE  StackOnce(t)
  <2>1. \A j \in 1 .. n + 1 : GroupOnce(t[j])
    BY <1>1, <1>2, <1>4 DEF StackOnce
  <2>2. \A j \in 1 .. n : GroupOwned(s[j]) \cap GroupOwned(g) = {}
    BY <1>4 DEF Held
  <2>3. \A i, j \in 1 .. n + 1 : i # j => GroupOwned(t[i]) \cap GroupOwned(t[j]) = {}
    BY <1>1, <1>2, <1>4, <2>2 DEF StackOnce
  <2> QED
    BY <1>1, <2>1, <2>3 DEF StackOnce
<1> QED
  BY <1>3, <1>4 DEF t

\* Popping a group of one stack and pushing what takes it back on the other.
LEMMA PopFits ==
  ASSUME NEW d \in Docs, d.sel \in 0 .. Len(d.annos), NEW s \in Stacks, NEW t \in Stacks,
         s # <<>>, Fitting(IdsOf(d.annos), s, t)
  PROVE  LET a == ApplyGroup(d, Last(s)) IN
         /\ a.doc \in Docs /\ a.inv \in Seq(Items)
         /\ a.doc.undo = d.undo /\ a.doc.redo = d.redo /\ a.doc.snap = d.snap
         /\ a.doc.sel \in 0 .. Len(a.doc.annos)
         /\ Fitting(IdsOf(a.doc.annos), Front(s), Append(t, a.inv))
<1> DEFINE x == IdsOf(d.annos)
           g == Last(s)
           a == ApplyGroup(d, g)
           inv == a.inv
<1>1. g \in Seq(Items) /\ Front(s) \in Stacks
  BY FrontIsCut DEF Stacks
<1>1a. d.annos \in Seq(AnnoSet)
  BY DEF Docs
<1>1b. x \in Seq(Nat)
  BY <1>1a, IdsIs
<1>2. PICK y \in Seq(Nat) : GroupIds(g, x, y) /\ StackIds(Front(s), y) /\ Ascending(y)
  BY StackFront DEF Fitting
<1>3. /\ a.doc \in Docs /\ inv \in Seq(Items) /\ Len(inv) = Len(g)
      /\ a.doc.undo = d.undo /\ a.doc.redo = d.redo /\ a.doc.snap = d.snap
      /\ a.doc.sel \in 0 .. Len(a.doc.annos)
      /\ IdsOf(a.doc.annos) = y /\ GroupIds(inv, y, x)
  <2> HIDE DEF g
  <2> QED
    BY <1>1, <1>2, GroupForth
<1>4. /\ Held(s) = Held(Front(s)) \cup GroupOwned(g)
      /\ StackOnce(Front(s)) /\ GroupOnce(g) /\ Held(Front(s)) \cap GroupOwned(g) = {}
  BY HeldFront DEF Fitting
<1>5. GroupOwned(g) \cap IdSet(x) = {}
  BY <1>4 DEF Fitting
<1>6. /\ GroupOwned(inv) \cup IdSet(y) = GroupOwned(g) \cup IdSet(x)
      /\ GroupOwned(inv) \cap IdSet(y) = {} /\ GroupOnce(inv)
  <2>1. /\ OwnsAt(inv, 1 .. Len(g)) \cup IdSet(y) = OwnsAt(g, 1 .. Len(g)) \cup IdSet(IdsOf(d.annos))
        /\ OwnsAt(inv, 1 .. Len(g)) \cap IdSet(y) = {}
        /\ OwnsOnce(inv, 1 .. Len(g))
    <3>1. OwnsOnce(g, 1 .. Len(g)) /\ OwnsAt(g, 1 .. Len(g)) \cap IdSet(IdsOf(d.annos)) = {}
      BY <1>4, <1>5 DEF GroupOnce, GroupOwned
    <3> HIDE DEF g
    <3> QED
      BY <1>1, <1>2, <3>1, GroupOwns
  <2> QED
    BY <1>3, <2>1 DEF GroupOwned, GroupOnce
<1>7. StackIds(Append(t, inv), y)
  <2> HIDE DEF inv, x
  <2> QED
    BY <1>2, <1>3, StackAppend DEF Fitting, x
<1>8. /\ Held(Append(t, inv)) = Held(t) \cup GroupOwned(inv)
      /\ StackOnce(t) /\ GroupOnce(inv) /\ Held(t) \cap GroupOwned(inv) = {} => StackOnce(Append(t, inv))
  <2> HIDE DEF inv
  <2> QED
    BY <1>3, HeldAppend
<1>9. /\ StackOnce(t) /\ (Held(Front(s)) \cup GroupOwned(g)) \cap IdSet(x) = {}
      /\ Held(t) \cap IdSet(x) = {} /\ (Held(Front(s)) \cup GroupOwned(g)) \cap Held(t) = {}
  BY <1>4 DEF Fitting
<1>10. /\ Held(Front(s)) \cap IdSet(y) = {} /\ Held(t) \cap GroupOwned(inv) = {}
       /\ Held(t) \cap IdSet(y) = {} /\ Held(Front(s)) \cap GroupOwned(inv) = {}
  <2> DEFINE U == Held(Front(s))
             O == Held(t)
             G == GroupOwned(g)
             I == GroupOwned(inv)
             X == IdSet(x)
             Y == IdSet(y)
  <2> HIDE DEF U, O, G, I, X, Y
  <2>1. I \cup Y = G \cup X /\ (U \cup G) \cap X = {} /\ O \cap X = {} /\ (U \cup G) \cap O = {} /\ U \cap G = {}
    BY <1>4, <1>6, <1>9 DEF U, O, G, I, X, Y
  <2>2. U \cap (G \cup X) = {} /\ O \cap (G \cup X) = {}
    BY <2>1
  <2>3. U \cap Y = {} /\ O \cap I = {} /\ O \cap Y = {} /\ U \cap I = {}
    BY <2>1, <2>2
  <2> QED
    BY <2>3 DEF U, O, G, I, X, Y
<1>11. Fitting(y, Front(s), Append(t, inv))
  <2>1. Held(Append(t, inv)) \cap IdSet(y) = {} /\ Held(Front(s)) \cap Held(Append(t, inv)) = {}
    <3> DEFINE U == Held(Front(s))
               O == Held(t)
               I == GroupOwned(inv)
               Y == IdSet(y)
    <3>1. Held(Append(t, inv)) = O \cup I
      BY <1>8
    <3>2. O \cap Y = {} /\ I \cap Y = {} /\ U \cap O = {} /\ U \cap I = {}
      BY <1>6, <1>9, <1>10
    <3> HIDE DEF U, O, I, Y, inv
    <3>3. (O \cup I) \cap Y = {} /\ U \cap (O \cup I) = {}
      BY <3>2
    <3> QED
      BY <3>1, <3>3 DEF U, Y
  <2> HIDE DEF inv
  <2> QED
    BY <1>2, <1>4, <1>6, <1>7, <1>8, <1>9, <1>10, <2>1 DEF Fitting
<1> QED
  BY <1>3, <1>11


LEMMA AppendEnds ==
  ASSUME NEW X, NEW s \in Seq(X), NEW a \in X
  PROVE  /\ Append(s, a) \in Seq(X) /\ Append(s, a) # <<>>
         /\ Last(Append(s, a)) = a /\ Front(Append(s, a)) = s
<1> DEFINE t == Append(s, a)
<1>1. /\ t \in Seq(X) /\ t # <<>> /\ Len(t) = Len(s) + 1 /\ t[Len(s) + 1] = a
      /\ \A j \in 1 .. Len(s) : t[j] = s[j]
  OBVIOUS
<1> HIDE DEF t
<1>2. /\ Last(t) = a /\ Front(t) \in Seq(X) /\ Len(Front(t)) = Len(s)
      /\ \A j \in 1 .. Len(s) : Front(t)[j] = s[j]
  BY <1>1, FrontIsCut
<1>3. Front(t) = s
  BY <1>2, SeqEqual
<1> QED
  BY <1>1, <1>2, <1>3 DEF t

LEMMA StackOps ==
  ASSUME NEW s \in Stacks, NEW g \in Seq(Items)
  PROVE  /\ Append(s, g) \in Stacks /\ Append(s, g) # <<>>
         /\ Last(Append(s, g)) = g /\ Front(Append(s, g)) = s
         /\ s # <<>> => Front(s) \in Stacks
<1>1. /\ Append(s, g) \in Stacks /\ Append(s, g) # <<>>
      /\ Last(Append(s, g)) = g /\ Front(Append(s, g)) = s
  BY AppendEnds DEF Stacks
<1>2. s # <<>> => Front(s) \in Stacks
  BY FrontIsCut DEF Stacks
<1> QED
  BY <1>1, <1>2

LEMMA SameIs ==
  ASSUME NEW d \in Docs, NEW e \in Docs
  PROVE  SameDoc(d, e) <=> /\ d.annos = e.annos /\ d.region = e.region /\ d.snap = e.snap
                           /\ d.undo = e.undo /\ d.redo = e.redo
BY DEF SameDoc, Docs

\* What one undo and one redo do.
LEMMA UndoPopIs ==
  ASSUME NEW d, DocOk(d), d.undo # <<>>
  PROVE  LET a == ApplyGroup(d, Last(d.undo)) IN
         /\ UndoPop(d) \in Docs /\ UndoPop(d).annos = a.doc.annos /\ UndoPop(d).region = a.doc.region
         /\ UndoPop(d).sel = a.doc.sel /\ UndoPop(d).snap = d.snap
         /\ UndoPop(d).undo = Front(d.undo) /\ UndoPop(d).redo = Append(d.redo, a.inv)
         /\ a.inv \in Seq(Items) /\ DocOk(UndoPop(d))
<1> DEFINE a == ApplyGroup(d, Last(d.undo))
<1>1. d \in Docs /\ d.undo \in Stacks /\ d.redo \in Stacks
  BY DEF DocOk, Docs, Stacks
<1>2. /\ a.doc \in Docs /\ a.inv \in Seq(Items)
      /\ a.doc.undo = d.undo /\ a.doc.redo = d.redo /\ a.doc.snap = d.snap
      /\ a.doc.sel \in 0 .. Len(a.doc.annos)
      /\ Fitting(IdsOf(a.doc.annos), Front(d.undo), Append(d.redo, a.inv))
  BY <1>1, PopFits DEF DocOk
<1> DEFINE e == UndoPop(d)
<1>3. e = [a.doc EXCEPT !.undo = Front(a.doc.undo), !.redo = Append(a.doc.redo, a.inv)]
  BY DEF UndoPop
<1> HIDE DEF a, e
<1>4. Front(d.undo) \in Stacks /\ Append(d.redo, a.inv) \in Stacks
  BY <1>1, <1>2, StackOps
<1>5. /\ e \in Docs /\ e.annos = a.doc.annos /\ e.region = a.doc.region
      /\ e.sel = a.doc.sel /\ e.snap = d.snap
      /\ e.undo = Front(d.undo) /\ e.redo = Append(d.redo, a.inv)
  BY <1>2, <1>3, <1>4 DEF Docs, Stacks
<1>6. DocOk(e)
  BY <1>2, <1>5 DEF DocOk
<1> QED
  BY <1>2, <1>5, <1>6 DEF a, e

LEMMA RedoPopIs ==
  ASSUME NEW d, DocOk(d), d.redo # <<>>
  PROVE  LET a == ApplyGroup(d, Last(d.redo)) IN
         /\ RedoPop(d) \in Docs /\ RedoPop(d).annos = a.doc.annos /\ RedoPop(d).region = a.doc.region
         /\ RedoPop(d).sel = a.doc.sel /\ RedoPop(d).snap = d.snap
         /\ RedoPop(d).redo = Front(d.redo) /\ RedoPop(d).undo = Append(d.undo, a.inv)
         /\ a.inv \in Seq(Items) /\ DocOk(RedoPop(d))
<1> DEFINE a == ApplyGroup(d, Last(d.redo))
<1>1. d \in Docs /\ d.undo \in Stacks /\ d.redo \in Stacks
  BY DEF DocOk, Docs, Stacks
<1>1a. Fitting(IdsOf(d.annos), d.redo, d.undo)
  BY DEF DocOk, Fitting
<1>2. /\ a.doc \in Docs /\ a.inv \in Seq(Items)
      /\ a.doc.undo = d.undo /\ a.doc.redo = d.redo /\ a.doc.snap = d.snap
      /\ a.doc.sel \in 0 .. Len(a.doc.annos)
      /\ Fitting(IdsOf(a.doc.annos), Front(d.redo), Append(d.undo, a.inv))
  BY <1>1, <1>1a, PopFits DEF DocOk
<1> DEFINE e == RedoPop(d)
<1>3. e = [a.doc EXCEPT !.redo = Front(a.doc.redo), !.undo = Append(a.doc.undo, a.inv)]
  BY DEF RedoPop
<1> HIDE DEF a, e
<1>4. Front(d.redo) \in Stacks /\ Append(d.undo, a.inv) \in Stacks
  BY <1>1, <1>2, StackOps
<1>5. /\ e \in Docs /\ e.annos = a.doc.annos /\ e.region = a.doc.region
      /\ e.sel = a.doc.sel /\ e.snap = d.snap
      /\ e.redo = Front(d.redo) /\ e.undo = Append(d.undo, a.inv)
  BY <1>2, <1>3, <1>4 DEF Docs, Stacks
<1>6. DocOk(e)
  BY <1>2, <1>5 DEF DocOk, Fitting
<1> QED
  BY <1>2, <1>5, <1>6 DEF a, e

LEMMA UndoPopOk ==
  ASSUME NEW d, DocOk(d)
  PROVE  DocOk(UndoPop(d))
<1>1. CASE d.undo = <<>>
  BY <1>1 DEF UndoPop
<1>2. CASE d.undo # <<>>
  BY <1>2, UndoPopIs
<1> QED
  BY <1>1, <1>2

LEMMA RedoPopOk ==
  ASSUME NEW d, DocOk(d)
  PROVE  DocOk(RedoPop(d))
<1>1. CASE d.redo = <<>>
  BY <1>1 DEF RedoPop
<1>2. CASE d.redo # <<>>
  BY <1>2, RedoPopIs
<1> QED
  BY <1>1, <1>2

\* Each takes the other back, from any document that is the same but for the selection.
LEMMA RedoOfUndo ==
  ASSUME NEW d, DocOk(d), d.undo # <<>>, NEW e, DocOk(e), SameDoc(e, UndoPop(d))
  PROVE  SameDoc(RedoPop(e), d)
<1> DEFINE g == Last(d.undo)
           a == ApplyGroup(d, g)
           c == UndoPop(d)
<1>1. d \in Docs /\ e \in Docs /\ d.undo \in Stacks /\ d.redo \in Stacks
  BY DEF DocOk, Docs, Stacks
<1>2. /\ c \in Docs /\ c.annos = a.doc.annos /\ c.region = a.doc.region
      /\ c.snap = d.snap /\ c.undo = Front(d.undo) /\ c.redo = Append(d.redo, a.inv)
      /\ a.inv \in Seq(Items)
  BY UndoPopIs
<1>3. /\ e.annos = c.annos /\ e.region = c.region /\ e.snap = c.snap /\ e.undo = c.undo
      /\ e.redo = c.redo
  <2> HIDE DEF c
  <2> QED
    BY <1>1, <1>2, SameIs DEF c
<1>4. e.redo # <<>> /\ Last(e.redo) = a.inv /\ Front(e.redo) = d.redo
  <2> DEFINE v == a.inv
  <2>1. e.redo = Append(d.redo, v) /\ v \in Seq(Items)
    BY <1>2, <1>3
  <2> HIDE DEF v
  <2>2. Append(d.redo, v) # <<>> /\ Last(Append(d.redo, v)) = v /\ Front(Append(d.redo, v)) = d.redo
    BY <1>1, <2>1, StackOps
  <2> QED
    BY <2>1, <2>2 DEF v
<1> DEFINE b == ApplyGroup(e, Last(e.redo))
           f == RedoPop(e)
<1>5. /\ f \in Docs /\ f.annos = b.doc.annos /\ f.region = b.doc.region
      /\ f.snap = e.snap /\ f.redo = Front(e.redo) /\ f.undo = Append(e.undo, b.inv)
  BY <1>4, RedoPopIs
<1>6. PICK y \in Seq(Nat) : GroupIds(g, IdsOf(d.annos), y)
  BY <1>1, StackFront DEF DocOk, Fitting
<1>7. g \in Seq(Items) /\ d.undo = Append(Front(d.undo), g)
  BY <1>1, FrontIsCut DEF Stacks, Last, Front
<1>8. b.doc.annos = d.annos /\ b.doc.region = d.region /\ b.inv = g
  <2>1. e.annos = ApplyGroup(d, g).doc.annos /\ e.region = ApplyGroup(d, g).doc.region
    BY <1>2, <1>3
  <2>2. d.sel \in 0 .. Len(d.annos)
    BY DEF DocOk
  <2>3. b = ApplyGroup(e, ApplyGroup(d, g).inv)
    BY <1>4
  <2> HIDE DEF g, b
  <2> QED
    BY <1>1, <1>6, <1>7, <2>1, <2>2, <2>3, GroupBack
<1>9. /\ f.annos = d.annos /\ f.region = d.region /\ f.snap = d.snap /\ f.redo = d.redo
      /\ f.undo = d.undo
  BY <1>2, <1>3, <1>4, <1>5, <1>7, <1>8
<1> HIDE DEF f
<1> QED
  BY <1>1, <1>5, <1>9, SameIs DEF f

LEMMA UndoOfRedo ==
  ASSUME NEW d, DocOk(d), d.redo # <<>>, NEW e, DocOk(e), SameDoc(e, RedoPop(d))
  PROVE  SameDoc(UndoPop(e), d)
<1> DEFINE g == Last(d.redo)
           a == ApplyGroup(d, g)
           c == RedoPop(d)
<1>1. d \in Docs /\ e \in Docs /\ d.undo \in Stacks /\ d.redo \in Stacks
  BY DEF DocOk, Docs, Stacks
<1>2. /\ c \in Docs /\ c.annos = a.doc.annos /\ c.region = a.doc.region
      /\ c.snap = d.snap /\ c.redo = Front(d.redo) /\ c.undo = Append(d.undo, a.inv)
      /\ a.inv \in Seq(Items)
  BY RedoPopIs
<1>3. /\ e.annos = c.annos /\ e.region = c.region /\ e.snap = c.snap /\ e.undo = c.undo
      /\ e.redo = c.redo
  <2> HIDE DEF c
  <2> QED
    BY <1>1, <1>2, SameIs DEF c
<1>4. e.undo # <<>> /\ Last(e.undo) = a.inv /\ Front(e.undo) = d.undo
  <2> DEFINE v == a.inv
  <2>1. e.undo = Append(d.undo, v) /\ v \in Seq(Items)
    BY <1>2, <1>3
  <2> HIDE DEF v
  <2>2. Append(d.undo, v) # <<>> /\ Last(Append(d.undo, v)) = v /\ Front(Append(d.undo, v)) = d.undo
    BY <1>1, <2>1, StackOps
  <2> QED
    BY <2>1, <2>2 DEF v
<1> DEFINE b == ApplyGroup(e, Last(e.undo))
           f == UndoPop(e)
<1>5. /\ f \in Docs /\ f.annos = b.doc.annos /\ f.region = b.doc.region
      /\ f.snap = e.snap /\ f.undo = Front(e.undo) /\ f.redo = Append(e.redo, b.inv)
  BY <1>4, UndoPopIs
<1>6. PICK y \in Seq(Nat) : GroupIds(g, IdsOf(d.annos), y)
  BY <1>1, StackFront DEF DocOk, Fitting
<1>7. g \in Seq(Items) /\ d.redo = Append(Front(d.redo), g)
  BY <1>1, FrontIsCut DEF Stacks, Last, Front
<1>8. b.doc.annos = d.annos /\ b.doc.region = d.region /\ b.inv = g
  <2>1. e.annos = ApplyGroup(d, g).doc.annos /\ e.region = ApplyGroup(d, g).doc.region
    BY <1>2, <1>3
  <2>2. d.sel \in 0 .. Len(d.annos)
    BY DEF DocOk
  <2>3. b = ApplyGroup(e, ApplyGroup(d, g).inv)
    BY <1>4
  <2> HIDE DEF g, b
  <2> QED
    BY <1>1, <1>6, <1>7, <2>1, <2>2, <2>3, GroupBack
<1>9. /\ f.annos = d.annos /\ f.region = d.region /\ f.snap = d.snap /\ f.redo = d.redo
      /\ f.undo = d.undo
  BY <1>2, <1>3, <1>4, <1>5, <1>7, <1>8
<1> HIDE DEF f
<1> QED
  BY <1>1, <1>5, <1>9, SameIs DEF f


-----------------------------------------------------------------------------
(* A sound document: what HistoryIsSound says of it.                       *)

OkDocs == {d \in Docs : DocOk(d)}

LEMMA UndoClosedOk == UndoClosed(OkDocs)
<1> SUFFICES ASSUME NEW x \in OkDocs PROVE UndoPop(x) \in OkDocs
  BY DEF UndoClosed
<1>1. DocOk(x)
  BY DEF OkDocs
<1>2. DocOk(UndoPop(x))
  BY <1>1, UndoPopOk
<1> QED
  BY <1>2 DEF OkDocs, DocOk

LEMMA UndosShorten ==
  ASSUME NEW d \in OkDocs, NEW n \in 0 .. Len(d.undo)
  PROVE  \E w \in [0 .. n -> OkDocs] :
           /\ w[0] = d /\ Undos(d, n) = w[n] /\ \A k \in 1 .. n : w[k] = UndoPop(w[k - 1])
           /\ \A k \in 0 .. n : Len(w[k].undo) = Len(d.undo) - k
<1>1. UndoClosed(OkDocs)
  BY UndoClosedOk
<1>2. n \in Nat /\ Len(d.undo) \in Nat
  BY DEF OkDocs, Docs
<1>3. PICK w \in [0 .. n -> OkDocs] : /\ w[0] = d /\ Undos(d, n) = w[n]
                                      /\ \A k \in 1 .. n : w[k] = UndoPop(w[k - 1])
  <2>1. UndoWalks(OkDocs, d, n) # {}
    BY <1>1, <1>2, UndosWalk
  <2> QED
    BY <2>1 DEF UndoWalks
<1> DEFINE S == {k \in 0 .. n : Len(w[k].undo) = Len(d.undo) - k}
<1>4. 0 \in S
  BY <1>2, <1>3
<1>5. ASSUME NEW k \in 0 .. n - 1, k \in S PROVE k + 1 \in S
  <2>1. k + 1 \in 1 .. n /\ k \in 0 .. n /\ k + 1 - 1 = k /\ k + 1 \in 0 .. n
    BY <1>2
  <2>2. w[k] \in Docs /\ DocOk(w[k]) /\ w[k + 1] = UndoPop(w[k])
    BY <1>3, <2>1 DEF OkDocs
  <2>3. w[k].undo \in Stacks /\ Len(w[k].undo) = Len(d.undo) - k
    BY <1>5, <2>2 DEF Docs, Stacks
  <2>4. w[k].undo # <<>>
    BY <1>2, <2>3 DEF Stacks
  <2>5. w[k + 1].undo = Front(w[k].undo)
    BY <2>2, <2>4, UndoPopIs
  <2>6. Len(w[k + 1].undo) = Len(w[k].undo) - 1
    BY <2>3, <2>4, <2>5, FrontIsCut DEF Stacks
  <2>7. Len(w[k + 1].undo) = Len(d.undo) - (k + 1)
    BY <1>2, <2>3, <2>6
  <2> QED
    BY <2>1, <2>7
<1>6. 0 .. n \subseteq S
  <2> HIDE DEF S
  <2> QED
    BY <1>2, <1>4, <1>5, Steps
<1> QED
  BY <1>3, <1>6

LEMMA RedoClosedOk == RedoClosed(OkDocs)
<1> SUFFICES ASSUME NEW x \in OkDocs PROVE RedoPop(x) \in OkDocs
  BY DEF RedoClosed
<1>1. DocOk(x)
  BY DEF OkDocs
<1>2. DocOk(RedoPop(x))
  BY <1>1, RedoPopOk
<1> QED
  BY <1>2 DEF OkDocs, DocOk

LEMMA RedosShorten ==
  ASSUME NEW d \in OkDocs, NEW n \in 0 .. Len(d.redo)
  PROVE  \E w \in [0 .. n -> OkDocs] :
           /\ w[0] = d /\ Redos(d, n) = w[n] /\ \A k \in 1 .. n : w[k] = RedoPop(w[k - 1])
           /\ \A k \in 0 .. n : Len(w[k].redo) = Len(d.redo) - k
<1>1. RedoClosed(OkDocs)
  BY RedoClosedOk
<1>2. n \in Nat /\ Len(d.redo) \in Nat
  BY DEF OkDocs, Docs
<1>3. PICK w \in [0 .. n -> OkDocs] : /\ w[0] = d /\ Redos(d, n) = w[n]
                                      /\ \A k \in 1 .. n : w[k] = RedoPop(w[k - 1])
  <2>1. RedoWalks(OkDocs, d, n) # {}
    BY <1>1, <1>2, RedosWalk
  <2> QED
    BY <2>1 DEF RedoWalks
<1> DEFINE S == {k \in 0 .. n : Len(w[k].redo) = Len(d.redo) - k}
<1>4. 0 \in S
  BY <1>2, <1>3
<1>5. ASSUME NEW k \in 0 .. n - 1, k \in S PROVE k + 1 \in S
  <2>1. k + 1 \in 1 .. n /\ k \in 0 .. n /\ k + 1 - 1 = k /\ k + 1 \in 0 .. n
    BY <1>2
  <2>2. w[k] \in Docs /\ DocOk(w[k]) /\ w[k + 1] = RedoPop(w[k])
    BY <1>3, <2>1 DEF OkDocs
  <2>3. w[k].redo \in Stacks /\ Len(w[k].redo) = Len(d.redo) - k
    BY <1>5, <2>2 DEF Docs, Stacks
  <2>4. w[k].redo # <<>>
    BY <1>2, <2>3 DEF Stacks
  <2>5. w[k + 1].redo = Front(w[k].redo)
    BY <2>2, <2>4, RedoPopIs
  <2>6. Len(w[k + 1].redo) = Len(w[k].redo) - 1
    BY <2>3, <2>4, <2>5, FrontIsCut DEF Stacks
  <2>7. Len(w[k + 1].redo) = Len(d.redo) - (k + 1)
    BY <1>2, <2>3, <2>6
  <2> QED
    BY <2>1, <2>7
<1>6. 0 .. n \subseteq S
  <2> HIDE DEF S
  <2> QED
    BY <1>2, <1>4, <1>5, Steps
<1> QED
  BY <1>3, <1>6

LEMMA SoundIsReversible ==
  ASSUME DocOk(doc)
  PROVE  HistoryIsReversible
<1>0. doc \in OkDocs /\ doc \in Docs
  BY DEF OkDocs, DocOk
<1>1. ASSUME NEW n \in 1 .. Len(doc.undo) PROVE SameDoc(Redos(Undos(doc, n), n), doc)
  <2>1. n \in Nat /\ n \in 0 .. Len(doc.undo) /\ n \in 0 .. n /\ n - n = 0 /\ n - 0 = n
    BY <1>0 DEF Docs
  <2>2. PICK w \in [0 .. n -> OkDocs] :
             /\ w[0] = doc /\ Undos(doc, n) = w[n] /\ \A k \in 1 .. n : w[k] = UndoPop(w[k - 1])
             /\ \A k \in 0 .. n : Len(w[k].undo) = Len(doc.undo) - k
    BY <1>0, <2>1, UndosShorten
  <2>3. RedoClosed(OkDocs)
    BY RedoClosedOk
  <2>4. w[n] \in OkDocs
    BY <2>1, <2>2
  <2>5. PICK r \in [0 .. n -> OkDocs] : /\ r[0] = w[n] /\ Redos(w[n], n) = r[n]
                                        /\ \A k \in 1 .. n : r[k] = RedoPop(r[k - 1])
    <3>1. RedoWalks(OkDocs, w[n], n) # {}
      BY <2>1, <2>3, <2>4, RedosWalk
    <3> QED
      BY <3>1 DEF RedoWalks
  <2> DEFINE S == {k \in 0 .. n : SameDoc(r[k], w[n - k])}
  <2>6. 0 \in S
    BY <2>1, <2>5 DEF SameDoc
  <2>7. ASSUME NEW k \in 0 .. n - 1, k \in S PROVE k + 1 \in S
    <3> DEFINE d == w[n - (k + 1)]
               e == r[k]
    <3>1. /\ k + 1 \in 1 .. n /\ k \in 0 .. n /\ k + 1 - 1 = k /\ k + 1 \in 0 .. n
          /\ n - k \in 1 .. n /\ n - k - 1 = n - (k + 1) /\ n - (k + 1) \in 0 .. n
      BY <2>1
    <3>2. d \in OkDocs /\ e \in OkDocs
      BY <2>2, <2>5, <3>1
    <3>3. DocOk(d) /\ DocOk(e) /\ d \in Docs
      BY <3>2 DEF OkDocs
    <3>4. Len(d.undo) = Len(doc.undo) - (n - (k + 1))
      BY <2>2, <3>1
    <3>5. d.undo # <<>>
      <4>1. Len(d.undo) >= k + 1
        BY <1>0, <2>1, <3>4 DEF Docs
      <4> QED
        BY <4>1
    <3>6. w[n - k] = UndoPop(d)
      BY <2>2, <3>1
    <3>7. SameDoc(e, UndoPop(d))
      BY <2>7, <3>6
    <3>8. SameDoc(RedoPop(e), d)
      <4> HIDE DEF d, e
      <4> QED
        BY <3>3, <3>5, <3>7, RedoOfUndo
    <3>9. r[k + 1] = RedoPop(e)
      BY <2>5, <3>1
    <3> QED
      BY <3>1, <3>8, <3>9
  <2>8. n \in S
    <3> HIDE DEF S
    <3> QED
      BY <2>1, <2>6, <2>7, Steps
  <2> QED
    BY <2>1, <2>2, <2>5, <2>8
<1>2. ASSUME NEW n \in 1 .. Len(doc.redo) PROVE SameDoc(Undos(Redos(doc, n), n), doc)
  <2>1. n \in Nat /\ n \in 0 .. Len(doc.redo) /\ n \in 0 .. n /\ n - n = 0 /\ n - 0 = n
    BY <1>0 DEF Docs
  <2>2. PICK w \in [0 .. n -> OkDocs] :
             /\ w[0] = doc /\ Redos(doc, n) = w[n] /\ \A k \in 1 .. n : w[k] = RedoPop(w[k - 1])
             /\ \A k \in 0 .. n : Len(w[k].redo) = Len(doc.redo) - k
    BY <1>0, <2>1, RedosShorten
  <2>3. UndoClosed(OkDocs)
    BY UndoClosedOk
  <2>4. w[n] \in OkDocs
    BY <2>1, <2>2
  <2>5. PICK r \in [0 .. n -> OkDocs] : /\ r[0] = w[n] /\ Undos(w[n], n) = r[n]
                                        /\ \A k \in 1 .. n : r[k] = UndoPop(r[k - 1])
    <3>1. UndoWalks(OkDocs, w[n], n) # {}
      BY <2>1, <2>3, <2>4, UndosWalk
    <3> QED
      BY <3>1 DEF UndoWalks
  <2> DEFINE S == {k \in 0 .. n : SameDoc(r[k], w[n - k])}
  <2>6. 0 \in S
    BY <2>1, <2>5 DEF SameDoc
  <2>7. ASSUME NEW k \in 0 .. n - 1, k \in S PROVE k + 1 \in S
    <3> DEFINE d == w[n - (k + 1)]
               e == r[k]
    <3>1. /\ k + 1 \in 1 .. n /\ k \in 0 .. n /\ k + 1 - 1 = k /\ k + 1 \in 0 .. n
          /\ n - k \in 1 .. n /\ n - k - 1 = n - (k + 1) /\ n - (k + 1) \in 0 .. n
      BY <2>1
    <3>2. d \in OkDocs /\ e \in OkDocs
      BY <2>2, <2>5, <3>1
    <3>3. DocOk(d) /\ DocOk(e) /\ d \in Docs
      BY <3>2 DEF OkDocs
    <3>4. Len(d.redo) = Len(doc.redo) - (n - (k + 1))
      BY <2>2, <3>1
    <3>5. d.redo # <<>>
      <4>1. Len(d.redo) >= k + 1
        BY <1>0, <2>1, <3>4 DEF Docs
      <4> QED
        BY <4>1
    <3>6. w[n - k] = RedoPop(d)
      BY <2>2, <3>1
    <3>7. SameDoc(e, RedoPop(d))
      BY <2>7, <3>6
    <3>8. SameDoc(UndoPop(e), d)
      <4> HIDE DEF d, e
      <4> QED
        BY <3>3, <3>5, <3>7, UndoOfRedo
    <3>9. r[k + 1] = UndoPop(e)
      BY <2>5, <3>1
    <3> QED
      BY <3>1, <3>8, <3>9
  <2>8. n \in S
    <3> HIDE DEF S
    <3> QED
      BY <2>1, <2>6, <2>7, Steps
  <2> QED
    BY <2>1, <2>2, <2>5, <2>8
<1> QED
  BY <1>1, <1>2 DEF HistoryIsReversible

LEMMA OwningIsFinite ==
  ASSUME NEW s \in Stacks
  PROVE  IsFiniteSet(Owning(s))
<1> DEFINE P(g) == {g} \X DOMAIN s[g]
           T == {P(g) : g \in DOMAIN s}
           f == [g \in DOMAIN s |-> P(g)]
<1>1. DOMAIN s = 1 .. Len(s) /\ Len(s) \in Nat /\ \A g \in DOMAIN s : s[g] \in Seq(Items)
  BY DEF Stacks
<1>2. IsFiniteSet(DOMAIN s)
  BY <1>1, FS_Interval
<1>3. f \in Surjection(DOMAIN s, T)
  BY Fun_IsSurj
<1>4. IsFiniteSet(T)
  <2> HIDE DEF f, T
  <2> QED
    BY <1>2, <1>3, FS_Surjection
<1>5. ASSUME NEW g \in DOMAIN s PROVE IsFiniteSet(P(g))
  <2>1. DOMAIN s[g] = 1 .. Len(s[g]) /\ Len(s[g]) \in Nat
    BY <1>1
  <2>2. IsFiniteSet(DOMAIN s[g])
    BY <2>1, FS_Interval
  <2>3. IsFiniteSet({g})
    BY FS_Singleton
  <2> QED
    BY <2>2, <2>3, FS_Product
<1>6. \A t \in T : IsFiniteSet(t)
  BY <1>5
<1>7. IsFiniteSet(UNION T)
  <2> HIDE DEF T
  <2> QED
    BY <1>4, <1>6, FS_UNION
<1>8. Owning(s) \in SUBSET UNION T
  BY DEF Owning
<1> QED
  BY <1>7, <1>8, FS_Subset


LEMMA OwningIs ==
  ASSUME NEW s \in Stacks, NEW p
  PROVE  p \in Owning(s) <=> /\ p = <<p[1], p[2]>> /\ p[1] \in 1 .. Len(s)
                             /\ p[2] \in 1 .. Len(s[p[1]]) /\ s[p[1]][p[2]].k \in Grows
<1>1. /\ DOMAIN s = 1 .. Len(s)
      /\ \A g \in 1 .. Len(s) : s[g] \in Seq(Items) /\ DOMAIN s[g] = 1 .. Len(s[g])
  BY DEF Stacks
<1>2. ASSUME p \in Owning(s)
      PROVE  /\ p = <<p[1], p[2]>> /\ p[1] \in 1 .. Len(s)
             /\ p[2] \in 1 .. Len(s[p[1]]) /\ s[p[1]][p[2]].k \in Grows
  <2>1. PICK g \in DOMAIN s : p \in {g} \X DOMAIN s[g]
    BY <1>2 DEF Owning
  <2> QED
    BY <1>1, <1>2, <2>1 DEF Owning, Grows
<1>3. ASSUME p = <<p[1], p[2]>>, p[1] \in 1 .. Len(s), p[2] \in 1 .. Len(s[p[1]]),
             s[p[1]][p[2]].k \in Grows
      PROVE  p \in Owning(s)
  <2>1. p \in {p[1]} \X DOMAIN s[p[1]] /\ p[1] \in DOMAIN s
    BY <1>1, <1>3
  <2>2. p \in UNION {{g} \X DOMAIN s[g] : g \in DOMAIN s}
    BY <2>1
  <2> QED
    BY <1>3, <2>2 DEF Owning, Grows
<1> QED
  BY <1>2, <1>3

LEMMA OwnedCount ==
  ASSUME NEW s \in Stacks, StackOnce(s)
  PROVE  /\ OwnedIds(s) = Held(s) /\ IsFiniteSet(Held(s))
         /\ Cardinality(Held(s)) = Cardinality(Owning(s)) /\ Cardinality(Held(s)) \in Nat
<1> DEFINE f == [p \in Owning(s) |-> s[p[1]][p[2]].a.id]
<1>1. ASSUME NEW p \in Owning(s)
      PROVE  /\ p = <<p[1], p[2]>> /\ p[1] \in 1 .. Len(s) /\ p[2] \in 1 .. Len(s[p[1]])
             /\ f[p] \in Owns(s[p[1]][p[2]]) /\ f[p] \in GroupOwned(s[p[1]]) /\ f[p] \in Held(s)
  <2>1. /\ p = <<p[1], p[2]>> /\ p[1] \in 1 .. Len(s)
        /\ p[2] \in 1 .. Len(s[p[1]]) /\ s[p[1]][p[2]].k \in Grows
    BY OwningIs
  <2>2. f[p] \in Owns(s[p[1]][p[2]])
    BY <2>1 DEF Owns
  <2> HIDE DEF f
  <2>3. f[p] \in GroupOwned(s[p[1]])
    BY <2>1, <2>2 DEF GroupOwned, OwnsAt
  <2> QED
    BY <2>1, <2>2, <2>3 DEF Held
<1>2. ASSUME NEW a \in Held(s) PROVE \E p \in Owning(s) : f[p] = a
  <2>1. PICK g \in 1 .. Len(s) : a \in GroupOwned(s[g])
    BY <1>2 DEF Held
  <2>2. PICK i \in 1 .. Len(s[g]) : a \in Owns(s[g][i])
    BY <2>1 DEF GroupOwned, OwnsAt
  <2>3. s[g][i].k \in Grows /\ s[g][i].a.id = a
    BY <2>2 DEF Owns
  <2> DEFINE p == <<g, i>>
  <2>4. p = <<p[1], p[2]>> /\ p[1] = g /\ p[2] = i
    OBVIOUS
  <2> HIDE DEF p
  <2>5. p \in Owning(s)
    BY <2>3, <2>4, OwningIs
  <2>6. f[p] = a
    BY <2>3, <2>4, <2>5
  <2> QED
    BY <2>5, <2>6
<1>3. \A p \in Owning(s) : f[p] = s[p[1]][p[2]].a.id
  OBVIOUS
<1>4. OwnedIds(s) = {f[p] : p \in Owning(s)}
  BY <1>3 DEF OwnedIds
<1>5. f = [p \in Owning(s) |-> f[p]]
  OBVIOUS
<1> HIDE DEF f
<1>6. OwnedIds(s) = Held(s)
  BY <1>1, <1>2, <1>4
<1>7. f \in [Owning(s) -> Held(s)]
  BY <1>1, <1>5
<1>8. ASSUME NEW p \in Owning(s), NEW q \in Owning(s), f[p] = f[q] PROVE p = q
  <2>1. p[1] = q[1]
    BY <1>1, <1>8 DEF StackOnce
  <2>2. OwnsOnce(s[p[1]], 1 .. Len(s[p[1]]))
    BY <1>1 DEF StackOnce, GroupOnce
  <2>3. f[p] \in Owns(s[p[1]][p[2]]) \cap Owns(s[p[1]][q[2]])
    BY <1>1, <1>8, <2>1
  <2>4. p[2] = q[2]
    BY <1>1, <2>1, <2>2, <2>3 DEF OwnsOnce
  <2> QED
    BY <1>1, <2>1, <2>4
<1>9. f \in Bijection(Owning(s), Held(s))
  BY <1>2, <1>7, <1>8, Fun_IsBij
<1>10. IsFiniteSet(Owning(s))
  BY OwningIsFinite
<1>11. IsFiniteSet(Held(s)) /\ Cardinality(Held(s)) = Cardinality(Owning(s))
  BY <1>9, <1>10, FS_Bijection DEF ExistsBijection
<1> QED
  BY <1>6, <1>11, FS_CardinalityType

LEMMA ListCount ==
  ASSUME NEW x \in Seq(Nat), Ascending(x)
  PROVE  IsFiniteSet(IdSet(x)) /\ Cardinality(IdSet(x)) = Len(x)
<1> DEFINE f == [i \in 1 .. Len(x) |-> x[i]]
<1>1. f \in [1 .. Len(x) -> IdSet(x)] /\ \A i \in 1 .. Len(x) : f[i] = x[i]
  BY DEF IdSet
<1> HIDE DEF f
<1>2. ASSUME NEW i \in 1 .. Len(x), NEW j \in 1 .. Len(x), f[i] = f[j] PROVE i = j
  <2>1. x[i] = x[j] /\ x[i] \in Nat
    BY <1>1, <1>2
  <2>2. ~(i < j) /\ ~(j < i)
    BY <2>1 DEF Ascending
  <2> QED
    BY <2>2
<1>3. \A e \in IdSet(x) : \E i \in 1 .. Len(x) : f[i] = e
  BY <1>1 DEF IdSet
<1>4. f \in Bijection(1 .. Len(x), IdSet(x))
  BY <1>1, <1>2, <1>3, Fun_IsBij
<1>5. IsFiniteSet(1 .. Len(x)) /\ Cardinality(1 .. Len(x)) = Len(x)
  <2>1. Len(x) \in Nat
    OBVIOUS
  <2> HIDE DEF f
  <2>2. IsFiniteSet(1 .. Len(x)) /\ Cardinality(1 .. Len(x)) = IF 1 > Len(x) THEN 0 ELSE Len(x) - 1 + 1
    BY <2>1, FS_Interval
  <2>3. CASE Len(x) = 0
    BY <2>2, <2>3
  <2>4. CASE Len(x) # 0
    BY <2>1, <2>2, <2>4
  <2> QED
    BY <2>3, <2>4
<1> QED
  BY <1>4, <1>5, FS_Bijection DEF ExistsBijection

LEMMA SoundHasOneOwner ==
  ASSUME DocOk(doc)
  PROVE  OneOwner
<1> DEFINE x == IdsOf(doc.annos)
           InList == {doc.annos[i].id : i \in DOMAIN doc.annos}
           U == Held(doc.undo)
           R == Held(doc.redo)
<1>1. doc.annos \in Seq(AnnoSet) /\ doc.undo \in Stacks /\ doc.redo \in Stacks
  BY DEF DocOk, Docs, Stacks
<1>2. x \in Seq(Nat) /\ Len(x) = Len(doc.annos) /\ \A i \in 1 .. Len(x) : x[i] = doc.annos[i].id
  BY <1>1, IdsIs
<1>3. Ascending(x)
  <2> HIDE DEF x
  <2> QED
    BY <1>1, StackAscends DEF DocOk, Fitting, x
<1>4. DOMAIN doc.annos = 1 .. Len(x)
  BY <1>1, <1>2
<1>5. InList = IdSet(x)
  <2> HIDE DEF x
  <2> QED
    BY <1>2, <1>4 DEF IdSet
<1>6. IsFiniteSet(IdSet(x)) /\ Cardinality(IdSet(x)) = Len(doc.annos)
  <2> HIDE DEF x
  <2> QED
    BY <1>2, <1>3, ListCount
<1>7. /\ OwnedIds(doc.undo) = U /\ IsFiniteSet(U) /\ Cardinality(U) = Cardinality(Owning(doc.undo))
      /\ OwnedIds(doc.redo) = R /\ IsFiniteSet(R) /\ Cardinality(R) = Cardinality(Owning(doc.redo))
      /\ Cardinality(U) \in Nat /\ Cardinality(R) \in Nat
  BY <1>1, OwnedCount DEF DocOk, Fitting
<1>8. IdSet(x) \cap U = {} /\ (IdSet(x) \cup U) \cap R = {}
  <2>1. U \cap IdSet(x) = {} /\ R \cap IdSet(x) = {} /\ U \cap R = {}
    BY DEF DocOk, Fitting
  <2> HIDE DEF U, R, x
  <2> QED
    BY <2>1
<1> DEFINE X == IdSet(x)
<1> HIDE DEF U, R, X, x, InList
<1>8a. /\ IsFiniteSet(X) /\ Cardinality(X) = Len(doc.annos) /\ IsFiniteSet(U) /\ IsFiniteSet(R)
       /\ X \cap U = {} /\ (X \cup U) \cap R = {} /\ Len(doc.annos) \in Nat /\ Cardinality({}) = 0
  BY <1>1, <1>6, <1>7, <1>8, FS_EmptySet DEF X
<1>9. IsFiniteSet(X \cup U) /\ Cardinality(X \cup U) = Len(doc.annos) + Cardinality(U)
  <2>1. /\ IsFiniteSet(X \cup U)
        /\ Cardinality(X \cup U) = Cardinality(X) + Cardinality(U) - Cardinality(X \cap U)
    BY <1>8a, FS_Union, Zenon
  <2>2. Cardinality(X \cap U) = 0 /\ Cardinality(X) = Len(doc.annos) /\ Len(doc.annos) \in Nat
    BY <1>8a
  <2> QED
    BY <1>7, <2>1, <2>2
<1>10. Cardinality(X \cup U \cup R) = Len(doc.annos) + Cardinality(U) + Cardinality(R)
  <2>1. /\ IsFiniteSet(X \cup U \cup R)
        /\ Cardinality(X \cup U \cup R)
             = Cardinality(X \cup U) + Cardinality(R) - Cardinality((X \cup U) \cap R)
    BY <1>8a, <1>9, FS_Union, Zenon
  <2>2. Cardinality((X \cup U) \cap R) = 0 /\ Len(doc.annos) \in Nat
    BY <1>8a
  <2> QED
    BY <1>7, <1>9, <2>1, <2>2
<1> QED
  BY <1>5, <1>7, <1>10 DEF OneOwner, X, InList

LEMMA SoundIsInOrder ==
  ASSUME DocOk(doc)
  PROVE  PaintOrder
<1> DEFINE x == IdsOf(doc.annos)
<1>1. doc.annos \in Seq(AnnoSet) /\ doc.undo \in Stacks
  BY DEF DocOk, Docs, Stacks
<1>2. Len(x) = Len(doc.annos) /\ \A i \in 1 .. Len(x) : x[i] = doc.annos[i].id
  BY <1>1, IdsIs
<1>3. Ascending(x)
  <2> HIDE DEF x
  <2> QED
    BY <1>1, StackAscends DEF DocOk, Fitting, x
<1>4. DOMAIN doc.annos = 1 .. Len(x)
  BY <1>1, <1>2
<1> HIDE DEF x
<1> QED
  BY <1>2, <1>3, <1>4 DEF Ascending, PaintOrder

LEMMA SoundHistory ==
  ASSUME DocOk(doc)
  PROVE  HistoryIsSound
BY SoundHasOneOwner, SoundIsInOrder, SoundIsReversible DEF HistoryIsSound


-----------------------------------------------------------------------------
(* Part of a list, in order: what Delete keeps and what it records.        *)

Upto(S, a) == {j \in S : j <= a}
Rank(S, a) == Cardinality(Upto(S, a))

LEMMA UptoIs ==
  ASSUME NEW S, IsFiniteSet(S), S \subseteq Int
  PROVE  /\ Cardinality(S) \in Nat
         /\ \A a \in S : Rank(S, a) \in 1 .. Cardinality(S)
         /\ \A a, b \in S : a < b => Rank(S, a) < Rank(S, b)
<1>1. Cardinality(S) \in Nat
  BY FS_CardinalityType
<1>2. ASSUME NEW a \in S
      PROVE  /\ IsFiniteSet(Upto(S, a)) /\ Rank(S, a) \in Nat /\ Rank(S, a) <= Cardinality(S)
             /\ Rank(S, a) # 0
  <2>1. Upto(S, a) \in SUBSET S /\ a \in Upto(S, a)
    BY DEF Upto
  <2>2. IsFiniteSet(Upto(S, a)) /\ Cardinality(Upto(S, a)) <= Cardinality(S)
    BY <2>1, FS_Subset
  <2>3. Cardinality(Upto(S, a)) \in Nat /\ Cardinality(Upto(S, a)) # 0
    BY <2>1, <2>2, FS_CardinalityType, FS_EmptySet
  <2> QED
    BY <2>2, <2>3 DEF Rank
<1>3. ASSUME NEW a \in S, NEW b \in S, a < b PROVE Rank(S, a) < Rank(S, b)
  <2>1. a \in Int /\ b \in Int
    OBVIOUS
  <2>2. Upto(S, a) \in SUBSET Upto(S, b) /\ b \in Upto(S, b) /\ b \notin Upto(S, a)
    <3>1. \A j \in S : j <= a => j <= b
      <4> TAKE j \in S
      <4>1. j \in Int
        OBVIOUS
      <4> QED
        BY <1>3, <2>1, <4>1
    <3>2. b <= b /\ ~(b <= a)
      BY <1>3, <2>1
    <3> QED
      BY <3>1, <3>2 DEF Upto
  <2>3. /\ Cardinality(Upto(S, a)) <= Cardinality(Upto(S, b))
        /\ Cardinality(Upto(S, a)) # Cardinality(Upto(S, b))
    BY <1>2, <2>2, FS_Subset
  <2> QED
    BY <1>2, <2>3 DEF Rank
<1> QED
  BY <1>1, <1>2, <1>3

LEMMA InOrderIs ==
  ASSUME NEW S, IsFiniteSet(S), S \subseteq Int
  PROVE  /\ Cardinality(S) \in Nat /\ DOMAIN InOrder(S) = 1 .. Cardinality(S)
         /\ \A n \in 1 .. Cardinality(S) : InOrder(S)[n] \in S /\ Rank(S, InOrder(S)[n]) = n
         /\ \A a \in S : Rank(S, a) \in 1 .. Cardinality(S) /\ InOrder(S)[Rank(S, a)] = a
         /\ \A m, n \in 1 .. Cardinality(S) : m < n => InOrder(S)[m] < InOrder(S)[n]
<1> DEFINE c == Cardinality(S)
           f == [a \in S |-> Rank(S, a)]
<1>1. /\ c \in Nat /\ \A a \in S : Rank(S, a) \in 1 .. c
      /\ \A a, b \in S : a < b => Rank(S, a) < Rank(S, b)
  BY UptoIs
<1>2. ASSUME NEW a \in S, NEW b \in S, Rank(S, a) = Rank(S, b) PROVE a = b
  <2>1. a \in Int /\ b \in Int /\ Rank(S, a) \in Int
    BY <1>1
  <2>2. ~(a < b) /\ ~(b < a)
    BY <1>1, <1>2, <2>1
  <2> QED
    BY <2>1, <2>2
<1>3. f \in [S -> 1 .. c] /\ \A a \in S : f[a] = Rank(S, a)
  BY <1>1
<1>4. IsFiniteSet(1 .. c) /\ Cardinality(1 .. c) = c
  BY <1>1, FS_Interval
<1> HIDE DEF f
<1>5. f \in Injection(S, 1 .. c)
  BY <1>2, <1>3 DEF Injection, IsInjective
<1>6. f \in Surjection(S, 1 .. c)
  <2> DEFINE T == 1 .. c
  <2>1. Cardinality(S) = Cardinality(T) /\ IsFiniteSet(T) /\ f \in Injection(S, T)
    BY <1>4, <1>5
  <2> HIDE DEF T
  <2>2. f \in Surjection(S, T)
    BY <2>1, FS_Injection
  <2> QED
    BY <2>2 DEF T
<1>7. \A n \in 1 .. c : \E a \in S : Rank(S, a) = n
  BY <1>3, <1>6 DEF Surjection
<1>8. InOrder(S) = [n \in 1 .. c |-> CHOOSE i \in S : Rank(S, i) = n]
  BY DEF InOrder, Rank, Upto
<1>9. \A n \in 1 .. c : InOrder(S)[n] \in S /\ Rank(S, InOrder(S)[n]) = n
  BY <1>7, <1>8
<1>10. \A a \in S : InOrder(S)[Rank(S, a)] = a
  BY <1>1, <1>2, <1>9
<1>11. ASSUME NEW m \in 1 .. c, NEW n \in 1 .. c, m < n PROVE InOrder(S)[m] < InOrder(S)[n]
  <2> DEFINE a == InOrder(S)[m]
             b == InOrder(S)[n]
  <2>1. a \in S /\ b \in S /\ Rank(S, a) = m /\ Rank(S, b) = n
    BY <1>9
  <2> HIDE DEF a, b
  <2>2. a \in Int /\ b \in Int /\ a # b
    BY <1>11, <2>1
  <2>3. ~(b < a)
    BY <1>1, <1>11, <2>1
  <2>4. a < b
    BY <2>2, <2>3
  <2> QED
    BY <2>4 DEF a, b
<1>12. DOMAIN InOrder(S) = 1 .. c
  BY <1>8
<1> QED
  BY <1>1, <1>9, <1>10, <1>11, <1>12

\* One more member, with all the places below it already there.
LEMMA RankPut ==
  ASSUME NEW S, IsFiniteSet(S), S \subseteq Nat \ {0}, NEW i \in Nat \ {0}, i \notin S,
         1 .. i - 1 \subseteq S
  PROVE  LET T == S \cup {i} IN
         /\ IsFiniteSet(T) /\ Cardinality(T) = Cardinality(S) + 1
         /\ i \in 1 .. Cardinality(S) + 1 /\ Rank(T, i) = i
         /\ \A a \in 1 .. i - 1 : Rank(S, a) = a /\ Rank(T, a) = a
         /\ \A a \in S : a > i => Rank(T, a) = Rank(S, a) + 1
<1> DEFINE T == S \cup {i}
<1>1. IsFiniteSet(T) /\ Cardinality(T) = Cardinality(S) + 1 /\ Cardinality(S) \in Nat
  BY FS_AddElement, FS_CardinalityType
<1>2. \A a \in Nat : Cardinality(1 .. a) = a
  <2> TAKE a \in Nat
  <2>1. Cardinality(1 .. a) = IF 1 > a THEN 0 ELSE a - 1 + 1
    BY FS_Interval
  <2>2. CASE a = 0
    BY <2>1, <2>2
  <2>3. CASE a # 0
    BY <2>1, <2>3
  <2> QED
    BY <2>2, <2>3
<1>3. ASSUME NEW a \in 1 .. i - 1 PROVE Rank(S, a) = a /\ Rank(T, a) = a
  <2>1. Upto(S, a) = 1 .. a
    <3>1. \A j \in 1 .. a : j \in 1 .. i - 1 /\ j <= a
      OBVIOUS
    <3>2. \A j \in S : j <= a => j \in 1 .. a
      OBVIOUS
    <3> QED
      BY <3>1, <3>2 DEF Upto
  <2>2. Upto(T, a) = Upto(S, a)
    BY DEF Upto
  <2> QED
    BY <1>2, <2>1, <2>2 DEF Rank
<1>4. Rank(T, i) = i
  <2>1. Upto(T, i) = 1 .. i
    <3>1. \A j \in 1 .. i : (j \in 1 .. i - 1 \/ j = i) /\ j <= i
      OBVIOUS
    <3>2. \A j \in T : j <= i => j \in 1 .. i
      OBVIOUS
    <3> QED
      BY <3>1, <3>2 DEF Upto
  <2> QED
    BY <1>2, <2>1 DEF Rank
<1>5. ASSUME NEW a \in S, a > i PROVE Rank(T, a) = Rank(S, a) + 1
  <2>1. Upto(T, a) = Upto(S, a) \cup {i} /\ i \notin Upto(S, a)
    BY <1>5 DEF Upto
  <2>2. Upto(S, a) \in SUBSET S
    BY DEF Upto
  <2>3. IsFiniteSet(Upto(S, a))
    BY <2>2, FS_Subset
  <2> QED
    BY <2>1, <2>3, FS_AddElement DEF Rank
<1>6. i \in 1 .. Cardinality(S) + 1
  <2>1. 1 .. i - 1 \in SUBSET S /\ i - 1 \in Nat
    OBVIOUS
  <2>2. Cardinality(1 .. i - 1) <= Cardinality(S)
    BY <2>1, FS_Subset
  <2>3. i - 1 <= Cardinality(S)
    BY <1>2, <2>1, <2>2
  <2> QED
    BY <1>1, <2>3
<1> QED
  BY <1>1, <1>3, <1>4, <1>5, <1>6

\* what the list x has at the places of S
Part(x, S) == [n \in 1 .. Cardinality(S) |-> x[InOrder(S)[n]]]

LEMMA PartIs ==
  ASSUME NEW X, NEW x \in Seq(X), NEW S \in SUBSET (1 .. Len(x))
  PROVE  IsFiniteSet(S) /\ Part(x, S) \in Seq(X) /\ Len(Part(x, S)) = Cardinality(S)
<1> DEFINE p == Part(x, S)
<1>1. IsFiniteSet(S) /\ S \subseteq Int
  <2> DEFINE I == 1 .. Len(x)
  <2>1. IsFiniteSet(I) /\ I \subseteq Int
    BY FS_Interval
  <2>2. S \in SUBSET I
    OBVIOUS
  <2> HIDE DEF I
  <2>3. IsFiniteSet(S)
    BY <2>1, <2>2, FS_Subset
  <2> QED
    BY <2>1, <2>2, <2>3
<1>2. Cardinality(S) \in Nat /\ \A n \in 1 .. Cardinality(S) : InOrder(S)[n] \in S
  BY <1>1, InOrderIs
<1>3. p \in [1 .. Cardinality(S) -> X]
  <2>1. \A n \in 1 .. Cardinality(S) : x[InOrder(S)[n]] \in X
    <3> TAKE n \in 1 .. Cardinality(S)
    <3>1. InOrder(S)[n] \in 1 .. Len(x)
      BY <1>2
    <3> QED
      BY <3>1
  <2> QED
    BY <2>1 DEF Part
<1> HIDE DEF p
<1>4. p \in Seq(X) /\ Len(p) = Cardinality(S)
  BY <1>2, <1>3, IsSeq
<1> QED
  BY <1>1, <1>4 DEF p

\* of the ids
LEMMA PartIds ==
  ASSUME NEW x \in Seq(Nat), NEW S \in SUBSET (1 .. Len(x))
  PROVE  /\ IdSet(Part(x, S)) = {x[i] : i \in S}
         /\ Ascending(x) => Ascending(Part(x, S))
<1> DEFINE p == Part(x, S)
<1>1. IsFiniteSet(S) /\ S \subseteq Int
  <2>1. 1 .. Len(x) \subseteq Int
    OBVIOUS
  <2> QED
    BY <2>1, PartIs
<1>2. /\ Cardinality(S) \in Nat
      /\ \A n \in 1 .. Cardinality(S) : InOrder(S)[n] \in S
      /\ \A a \in S : Rank(S, a) \in 1 .. Cardinality(S) /\ InOrder(S)[Rank(S, a)] = a
      /\ \A m, n \in 1 .. Cardinality(S) : m < n => InOrder(S)[m] < InOrder(S)[n]
  BY <1>1, InOrderIs
<1>3. \A n \in 1 .. Cardinality(S) : p[n] = x[InOrder(S)[n]]
  BY DEF Part
<1>5. p \in Seq(Nat) /\ Len(p) = Cardinality(S)
  BY PartIs
<1> HIDE DEF p
<1>6. IdSet(p) = {x[i] : i \in S}
  <2>1. \A n \in 1 .. Len(p) : p[n] \in {x[i] : i \in S}
    BY <1>2, <1>3, <1>5
  <2>2. \A i \in S : \E n \in 1 .. Len(p) : p[n] = x[i]
    <3> TAKE i \in S
    <3>1. Rank(S, i) \in 1 .. Len(p) /\ InOrder(S)[Rank(S, i)] = i
      BY <1>2, <1>5, Zenon
    <3>2. p[Rank(S, i)] = x[i]
      BY <1>3, <1>5, <3>1, Zenon
    <3> QED
      BY <3>1, <3>2, Zenon
  <2> QED
    BY <2>1, <2>2 DEF IdSet
<1>7. ASSUME Ascending(x) PROVE Ascending(p)
  <2> SUFFICES ASSUME NEW m \in 1 .. Cardinality(S), NEW n \in 1 .. Cardinality(S), m < n
               PROVE  p[m] < p[n]
    BY <1>5 DEF Ascending
  <2>1. InOrder(S)[m] \in 1 .. Len(x) /\ InOrder(S)[n] \in 1 .. Len(x) /\ InOrder(S)[m] < InOrder(S)[n]
    BY <1>2
  <2>2. x[InOrder(S)[m]] < x[InOrder(S)[n]]
    BY <1>7, <2>1 DEF Ascending
  <2> QED
    BY <1>3, <2>2
<1> QED
  BY <1>6, <1>7 DEF p

LEMMA PartAll ==
  ASSUME NEW X, NEW x \in Seq(X)
  PROVE  Part(x, 1 .. Len(x)) = x
<1> DEFINE S == 1 .. Len(x)
           p == Part(x, S)
<1>0. S \in SUBSET (1 .. Len(x)) /\ S \subseteq Int
  OBVIOUS
<1>1. IsFiniteSet(S) /\ p \in Seq(X) /\ Len(p) = Cardinality(S)
  BY <1>0, PartIs
<1>2. \A a \in Nat : Cardinality(1 .. a) = a
  <2> TAKE a \in Nat
  <2>1. Cardinality(1 .. a) = IF 1 > a THEN 0 ELSE a - 1 + 1
    BY FS_Interval
  <2>2. CASE a = 0
    BY <2>1, <2>2
  <2>3. CASE a # 0
    BY <2>1, <2>3
  <2> QED
    BY <2>2, <2>3
<1>3. Cardinality(S) = Len(x)
  BY <1>2
<1>4. ASSUME NEW a \in S PROVE p[a] = x[a]
  <2>1. Upto(S, a) = 1 .. a /\ a \in Nat
    BY DEF Upto
  <2>2. Rank(S, a) = a
    BY <1>2, <2>1 DEF Rank
  <2>3. InOrder(S)[Rank(S, a)] = a
    <3> HIDE DEF S
    <3> QED
      BY <1>0, <1>1, InOrderIs
  <2>4. p[a] = x[InOrder(S)[a]]
    BY <1>3 DEF Part
  <2> QED
    BY <2>2, <2>3, <2>4
<1>5. Len(p) = Len(x)
  BY <1>1, <1>3
<1> HIDE DEF p
<1>6. p = x
  BY <1>1, <1>4, <1>5, SeqEqual
<1> QED
  BY <1>6 DEF p

LEMMA PartPut ==
  ASSUME NEW X, NEW x \in Seq(X), NEW S \in SUBSET (1 .. Len(x)), NEW i \in 1 .. Len(x),
         i \notin S, 1 .. i - 1 \subseteq S
  PROVE  /\ i \in 1 .. Len(Part(x, S)) + 1
         /\ Part(x, S \cup {i}) = Put(Part(x, S), i, x[i])
<1> DEFINE T == S \cup {i}
           p == Part(x, S)
           q == Part(x, T)
           c == Cardinality(S)
<1>0. T \in SUBSET (1 .. Len(x)) /\ S \subseteq Int /\ T \subseteq Int /\ S \subseteq Nat \ {0} /\ i \in Nat \ {0}
      /\ x[i] \in X
  OBVIOUS
<1>1. /\ IsFiniteSet(S) /\ p \in Seq(X) /\ Len(p) = c
      /\ IsFiniteSet(T) /\ q \in Seq(X) /\ Len(q) = Cardinality(T)
  <2> HIDE DEF T
  <2> QED
    BY <1>0, PartIs
<1>2. /\ Cardinality(T) = c + 1
      /\ i \in 1 .. c + 1 /\ Rank(T, i) = i
      /\ \A a \in 1 .. i - 1 : Rank(S, a) = a /\ Rank(T, a) = a
      /\ \A a \in S : a > i => Rank(T, a) = Rank(S, a) + 1
  <2>1. IsFiniteSet(S) /\ S \subseteq Nat \ {0} /\ i \in Nat \ {0} /\ i \notin S /\ 1 .. i - 1 \subseteq S
    BY <1>0, <1>1
  <2> HIDE DEF T, c
  <2>2. /\ Cardinality(S \cup {i}) = Cardinality(S) + 1
        /\ i \in 1 .. Cardinality(S) + 1 /\ Rank(S \cup {i}, i) = i
        /\ \A a \in 1 .. i - 1 : Rank(S, a) = a /\ Rank(S \cup {i}, a) = a
        /\ \A a \in S : a > i => Rank(S \cup {i}, a) = Rank(S, a) + 1
    BY <2>1, RankPut
  <2> QED
    BY <2>2 DEF T, c
<1>3. /\ c \in Nat
      /\ \A n \in 1 .. c : InOrder(S)[n] \in S /\ Rank(S, InOrder(S)[n]) = n
      /\ \A a \in S : Rank(S, a) \in 1 .. c /\ InOrder(S)[Rank(S, a)] = a
  BY <1>0, <1>1, InOrderIs
<1>4. \A a \in T : InOrder(T)[Rank(T, a)] = a
  <2> HIDE DEF T
  <2> QED
    BY <1>0, <1>1, InOrderIs
<1>5. /\ \A n \in 1 .. c : p[n] = x[InOrder(S)[n]]
      /\ \A n \in 1 .. c + 1 : q[n] = x[InOrder(T)[n]]
  <2> HIDE DEF T
  <2> QED
    BY <1>2 DEF Part
<1> DEFINE u == Put(p, i, x[i])
<1> HIDE DEF p, q
<1>6. u \in Seq(X) /\ Len(u) = c + 1
  <2> DEFINE b == x[i]
  <2>1. b \in X /\ i \in 1 .. Len(p) + 1
    BY <1>0, <1>1, <1>2
  <2> HIDE DEF b
  <2>2. Put(p, i, b) \in Seq(X) /\ Len(Put(p, i, b)) = Len(p) + 1
    BY <1>1, <2>1, PutIsSeq
  <2> QED
    BY <1>1, <2>2 DEF b
<1>7. ASSUME NEW n \in 1 .. c + 1 PROVE q[n] = u[n]
  <2>1. u[n] = IF n < i THEN p[n] ELSE IF n = i THEN x[i] ELSE p[n - 1]
    BY <1>1 DEF Put
  <2>2. CASE n < i
    <3>1. n \in 1 .. i - 1 /\ n \in 1 .. c /\ n \in S /\ n \in T
      BY <1>0, <1>2, <1>3, <2>2
    <3>2. InOrder(T)[n] = n /\ InOrder(S)[n] = n
      BY <1>2, <1>3, <1>4, <3>1
    <3> QED
      BY <1>5, <2>1, <2>2, <3>1, <3>2
  <2>3. CASE n = i
    <3>1. InOrder(T)[i] = i
      BY <1>2, <1>4
    <3> QED
      BY <1>5, <2>1, <2>3, <3>1
  <2>4. CASE n > i
    <3> DEFINE a == InOrder(S)[n - 1]
    <3>1. n - 1 \in 1 .. c /\ n - 1 >= i
      BY <1>0, <1>3, <2>4
    <3>2. a \in S /\ Rank(S, a) = n - 1
      BY <1>3, <3>1
    <3> HIDE DEF a
    <3>3. a > i
      <4>1. a \in Nat /\ a # i /\ a # 0
        BY <1>0, <3>2
      <4>2. ~(a < i)
        <5> SUFFICES ASSUME a < i PROVE FALSE
          OBVIOUS
        <5>1. a \in 1 .. i - 1
          BY <1>0, <4>1
        <5>2. Rank(S, a) = a
          BY <1>2, <5>1
        <5> QED
          BY <1>0, <3>1, <3>2, <4>1, <5>2
      <4> QED
        BY <1>0, <4>1, <4>2
    <3>4. Rank(T, a) = n
      <4>1. Rank(T, a) = Rank(S, a) + 1
        BY <1>2, <3>2, <3>3
      <4>2. n \in Int
        OBVIOUS
      <4> QED
        BY <3>2, <4>1, <4>2
    <3>5. InOrder(T)[n] = a
      BY <1>4, <3>2, <3>4
    <3>6. q[n] = x[a] /\ p[n - 1] = x[a]
      BY <1>5, <3>1, <3>5 DEF a
    <3> QED
      BY <1>0, <2>1, <2>4, <3>6
  <2> QED
    BY <1>0, <2>2, <2>3, <2>4
<1>8. Len(q) = c + 1
  BY <1>1, <1>2
<1> HIDE DEF u
<1>9. q = u
  BY <1>1, <1>6, <1>7, <1>8, SeqEqual
<1> QED
  BY <1>1, <1>2, <1>9 DEF q, u, p

-----------------------------------------------------------------------------
(* Edits that leave the annotations and the stacks as they are, and edits  *)
(* that record a group.                                                    *)

Alike(d, e) ==
  /\ e \in Docs /\ Len(e.annos) = Len(d.annos) /\ IdsOf(e.annos) = IdsOf(d.annos)
  /\ e.undo = d.undo /\ e.redo = d.redo

LEMMA AlikeOk ==
  ASSUME NEW d, DocOk(d), NEW e, Alike(d, e), e.sel \in 0 .. Len(d.annos)
  PROVE  DocOk(e)
BY DEF DocOk, Alike

LEMMA AnnosAlike ==
  ASSUME NEW s \in Seq(AnnoSet), NEW f \in [1 .. Len(s) -> AnnoSet],
         \A i \in 1 .. Len(s) : f[i].id = s[i].id
  PROVE  f \in Seq(AnnoSet) /\ Len(f) = Len(s) /\ IdsOf(f) = IdsOf(s)
<1>1. f \in Seq(AnnoSet) /\ Len(f) = Len(s)
  BY IsSeq
<1> QED
  BY <1>1 DEF IdsOf

LEMMA DocAlike ==
  ASSUME NEW d \in Docs, NEW f \in [1 .. Len(d.annos) -> AnnoSet],
         \A i \in 1 .. Len(d.annos) : f[i].id = d.annos[i].id
  PROVE  LET e == [d EXCEPT !.annos = f] IN
         /\ Alike(d, e) /\ e.annos = f /\ e.region = d.region /\ e.sel = d.sel /\ e.snap = d.snap
<1>1. d.annos \in Seq(AnnoSet)
  BY DEF Docs
<1>2. f \in Seq(AnnoSet) /\ Len(f) = Len(d.annos) /\ IdsOf(f) = IdsOf(d.annos)
  BY <1>1, AnnosAlike
<1> QED
  BY <1>2 DEF Alike, Docs

\* A change of the selection, of the size or colour, or of the position of some.
LEMMA UpdateAlike ==
  ASSUME NEW d \in Docs, NEW is
  PROVE  /\ \A b \in BOOLEAN :
              LET e == Update(d, is, LAMBDA a : [a EXCEPT !.sel = b]) IN
              Alike(d, e) /\ e.region = d.region /\ e.sel = d.sel /\ e.snap = d.snap
         /\ LET e == Update(d, is, LAMBDA a : [a EXCEPT !.sel = ~@]) IN
            Alike(d, e) /\ e.region = d.region /\ e.sel = d.sel /\ e.snap = d.snap
         /\ \A v \in Attrs :
              LET e == Update(d, is, LAMBDA a : [a EXCEPT !.attr = v]) IN
              Alike(d, e) /\ e.region = d.region /\ e.sel = d.sel /\ e.snap = d.snap
         /\ \A z \in Int :
              LET e == Update(d, is, LAMBDA a : [a EXCEPT !.at = @ + z]) IN
              Alike(d, e) /\ e.region = d.region /\ e.sel = d.sel /\ e.snap = d.snap
<1>1. /\ DOMAIN d.annos = 1 .. Len(d.annos)
      /\ \A i \in 1 .. Len(d.annos) : d.annos[i] \in AnnoSet
  BY DEF Docs
<1>2. ASSUME NEW b \in BOOLEAN
      PROVE  LET e == Update(d, is, LAMBDA a : [a EXCEPT !.sel = b]) IN
             Alike(d, e) /\ e.region = d.region /\ e.sel = d.sel /\ e.snap = d.snap
  <2> DEFINE f == [i \in DOMAIN d.annos |-> IF i \in is THEN [d.annos[i] EXCEPT !.sel = b]
                                            ELSE d.annos[i]]
  <2>1. f \in [1 .. Len(d.annos) -> AnnoSet] /\ \A i \in 1 .. Len(d.annos) : f[i].id = d.annos[i].id
    BY <1>1 DEF AnnoSet
  <2>2. Update(d, is, LAMBDA a : [a EXCEPT !.sel = b]) = [d EXCEPT !.annos = f]
    BY DEF Update
  <2> HIDE DEF f
  <2> DEFINE e == [d EXCEPT !.annos = f]
  <2>3. Alike(d, e) /\ e.region = d.region /\ e.sel = d.sel /\ e.snap = d.snap
    BY <2>1, DocAlike
  <2> HIDE DEF e
  <2> QED
    BY <2>2, <2>3, Zenon DEF e
<1>3. LET e == Update(d, is, LAMBDA a : [a EXCEPT !.sel = ~@]) IN
      Alike(d, e) /\ e.region = d.region /\ e.sel = d.sel /\ e.snap = d.snap
  <2> DEFINE f == [i \in DOMAIN d.annos |-> IF i \in is THEN [d.annos[i] EXCEPT !.sel = ~@]
                                            ELSE d.annos[i]]
  <2>1. f \in [1 .. Len(d.annos) -> AnnoSet] /\ \A i \in 1 .. Len(d.annos) : f[i].id = d.annos[i].id
    BY <1>1 DEF AnnoSet
  <2>2. Update(d, is, LAMBDA a : [a EXCEPT !.sel = ~@]) = [d EXCEPT !.annos = f]
    BY DEF Update
  <2> HIDE DEF f
  <2> DEFINE e == [d EXCEPT !.annos = f]
  <2>3. Alike(d, e) /\ e.region = d.region /\ e.sel = d.sel /\ e.snap = d.snap
    BY <2>1, DocAlike
  <2> HIDE DEF e
  <2> QED
    BY <2>2, <2>3, Zenon DEF e
<1>4. ASSUME NEW v \in Attrs
      PROVE  LET e == Update(d, is, LAMBDA a : [a EXCEPT !.attr = v]) IN
             Alike(d, e) /\ e.region = d.region /\ e.sel = d.sel /\ e.snap = d.snap
  <2> DEFINE f == [i \in DOMAIN d.annos |-> IF i \in is THEN [d.annos[i] EXCEPT !.attr = v]
                                            ELSE d.annos[i]]
  <2>1. f \in [1 .. Len(d.annos) -> AnnoSet] /\ \A i \in 1 .. Len(d.annos) : f[i].id = d.annos[i].id
    BY <1>1 DEF AnnoSet
  <2>2. Update(d, is, LAMBDA a : [a EXCEPT !.attr = v]) = [d EXCEPT !.annos = f]
    BY DEF Update
  <2> HIDE DEF f
  <2> DEFINE e == [d EXCEPT !.annos = f]
  <2>3. Alike(d, e) /\ e.region = d.region /\ e.sel = d.sel /\ e.snap = d.snap
    BY <2>1, DocAlike
  <2> HIDE DEF e
  <2> QED
    BY <2>2, <2>3, Zenon DEF e
<1>5. ASSUME NEW z \in Int
      PROVE  LET e == Update(d, is, LAMBDA a : [a EXCEPT !.at = @ + z]) IN
             Alike(d, e) /\ e.region = d.region /\ e.sel = d.sel /\ e.snap = d.snap
  <2> DEFINE f == [i \in DOMAIN d.annos |-> IF i \in is THEN [d.annos[i] EXCEPT !.at = @ + z]
                                            ELSE d.annos[i]]
  <2>1. f \in [1 .. Len(d.annos) -> AnnoSet] /\ \A i \in 1 .. Len(d.annos) : f[i].id = d.annos[i].id
    BY <1>1 DEF AnnoSet
  <2>2. Update(d, is, LAMBDA a : [a EXCEPT !.at = @ + z]) = [d EXCEPT !.annos = f]
    BY DEF Update
  <2> HIDE DEF f
  <2> DEFINE e == [d EXCEPT !.annos = f]
  <2>3. Alike(d, e) /\ e.region = d.region /\ e.sel = d.sel /\ e.snap = d.snap
    BY <2>1, DocAlike
  <2> HIDE DEF e
  <2> QED
    BY <2>2, <2>3, Zenon DEF e
<1> QED
  BY <1>2, <1>3, <1>4, <1>5, Zenon

LEMMA PushIs ==
  ASSUME NEW c \in Docs, NEW g \in Seq(Items)
  PROVE  /\ Push(c, g) \in Docs /\ Push(c, g).annos = c.annos /\ Push(c, g).region = c.region
         /\ Push(c, g).sel = c.sel /\ Push(c, g).snap = c.snap
         /\ g = <<>> => Push(c, g) = c
         /\ g # <<>> => Push(c, g).undo = Append(c.undo, g) /\ Push(c, g).redo = <<>>
<1>1. Append(c.undo, g) \in Seq(Seq(Items)) /\ <<>> \in Seq(Seq(Items))
  BY DEF Docs
<1> QED
  BY <1>1 DEF Push, Docs

\* A group that takes the new document back to the old one may be recorded.
LEMMA PushOk ==
  ASSUME NEW d, DocOk(d), NEW c \in Docs, c.undo = d.undo, c.sel \in 0 .. Len(c.annos),
         NEW g \in Seq(Items), g # <<>>, Ascending(IdsOf(c.annos)),
         GroupIds(g, IdsOf(c.annos), IdsOf(d.annos)), GroupOnce(g),
         GroupOwned(g) \cap IdSet(IdsOf(c.annos)) = {}, GroupOwned(g) \cap Held(d.undo) = {},
         IdSet(IdsOf(c.annos)) \cap Held(d.undo) = {}
  PROVE  DocOk(Push(c, g))
<1> DEFINE e == Push(c, g)
           x == IdsOf(c.annos)
           t == Append(d.undo, g)
<1>1. /\ e \in Docs /\ e.annos = c.annos /\ e.sel = c.sel
      /\ e.undo = t /\ e.redo = <<>>
  BY PushIs
<1>2. d.undo \in Stacks /\ StackIds(d.undo, IdsOf(d.annos)) /\ StackOnce(d.undo)
  BY DEF DocOk, Docs, Stacks, Fitting
<1>3. x \in Seq(Nat)
  BY IdsIs DEF Docs
<1>4. Ascending(x) /\ GroupIds(g, x, IdsOf(d.annos)) /\ GroupOnce(g)
      /\ GroupOwned(g) \cap IdSet(x) = {} /\ GroupOwned(g) \cap Held(d.undo) = {}
      /\ IdSet(x) \cap Held(d.undo) = {}
  OBVIOUS
<1>5. e.sel \in 0 .. Len(e.annos)
  BY <1>1
<1>6. x = IdsOf(e.annos)
  BY <1>1
<1> HIDE DEF e, x
<1>7. StackIds(t, x)
  BY <1>2, <1>3, <1>4, StackAppend
<1>8. Held(t) = Held(d.undo) \cup GroupOwned(g) /\ StackOnce(t)
  BY <1>2, <1>4, HeldAppend
<1>9. StackIds(<<>>, x) /\ StackOnce(<<>>) /\ Held(<<>>) = {}
  BY <1>3, <1>4, EmptyStack
<1> HIDE DEF t
<1>10. Fitting(x, t, <<>>)
  BY <1>4, <1>7, <1>8, <1>9 DEF Fitting
<1> QED
  BY <1>1, <1>5, <1>6, <1>10 DEF DocOk, e

\* A group of items that neither add nor remove keeps the ids.
LEMMA PlainGroup ==
  ASSUME NEW x \in Seq(Nat), Ascending(x), NEW g \in Seq(Items),
         \A j \in 1 .. Len(g) : g[j].k \in Plain /\ FitsIn(g[j], Len(x))
  PROVE  GroupIds(g, x, x) /\ GroupOnce(g) /\ GroupOwned(g) = {}
<1> DEFINE n == Len(g)
           h == [j \in 0 .. n |-> x]
<1>1. n \in Nat /\ h \in [0 .. n -> Seq(Nat)] /\ \A j \in 0 .. n : h[j] = x
  OBVIOUS
<1>2. h[n] = x /\ h[0] = x
  <2>1. n \in 0 .. n /\ 0 \in 0 .. n
    BY <1>1
  <2> HIDE DEF n
  <2> QED
    BY <2>1
<1> HIDE DEF h
<1>3. ASSUME NEW j \in 1 .. n PROVE IdStep(h[j], g[j], h[j - 1])
  <2>1. j \in 0 .. n /\ j - 1 \in 0 .. n
    BY <1>1
  <2>2. h[j] = x /\ h[j - 1] = x
    BY <1>1, <2>1
  <2>3. g[j].k \in Plain /\ FitsIn(g[j], Len(x))
    OBVIOUS
  <2>4. g[j].k \notin Grows /\ g[j].k \notin Shrinks
    BY <2>3 DEF Plain, Grows, Shrinks
  <2> QED
    BY <2>2, <2>3, <2>4 DEF IdStep
<1>4. IdWalk(g, x, x, h)
  BY <1>1, <1>2, <1>3 DEF IdWalk
<1>5. GroupIds(g, x, x)
  BY <1>1, <1>4 DEF GroupIds
<1>6. \A j \in 1 .. n : Owns(g[j]) = {}
  BY DEF Plain, Grows, Owns
<1>7. GroupOnce(g) /\ GroupOwned(g) = {}
  BY <1>6 DEF GroupOnce, GroupOwned, OwnsOnce, OwnsAt
<1> QED
  BY <1>5, <1>7

LEMMA PushPlain ==
  ASSUME NEW d, DocOk(d), NEW c, Alike(d, c), c.sel \in 0 .. Len(d.annos),
         NEW g \in Seq(Items), \A j \in 1 .. Len(g) : g[j].k \in Plain /\ FitsIn(g[j], Len(d.annos))
  PROVE  DocOk(Push(c, g))
<1> DEFINE x == IdsOf(d.annos)
<1>1. x \in Seq(Nat) /\ Len(x) = Len(d.annos)
  BY IdsIs DEF DocOk, Docs
<1>2. Ascending(x) /\ Held(d.undo) \cap IdSet(x) = {}
  <2>1. d.undo \in Stacks
    BY DEF DocOk, Docs, Stacks
  <2> HIDE DEF x
  <2> QED
    BY <2>1, StackAscends DEF DocOk, Fitting, x
<1>3. /\ c \in Docs /\ c.undo = d.undo /\ IdsOf(c.annos) = x /\ Len(c.annos) = Len(d.annos)
  BY DEF Alike
<1> HIDE DEF x
<1>4. GroupIds(g, x, x) /\ GroupOnce(g) /\ GroupOwned(g) = {}
  BY <1>1, <1>2, PlainGroup
<1>5. CASE g = <<>>
  BY <1>3, <1>5, PushIs, AlikeOk
<1>6. CASE g # <<>>
  BY <1>2, <1>3, <1>4, <1>6, PushOk DEF x
<1> QED
  BY <1>5, <1>6

-----------------------------------------------------------------------------
(* What the handlers do to a document.                                     *)

LEMMA RegionOk ==
  ASSUME NEW d, DocOk(d)
  PROVE  /\ \A reg \in Regions : DocOk([d EXCEPT !.region = reg])
         /\ \A r \in Rects : DocOk([d EXCEPT !.region.r = r])
         /\ \A reg \in Regions : \A S \in SUBSET Regions :
              /\ DocOk([d EXCEPT !.snap = S])
              /\ DocOk([[d EXCEPT !.snap = S] EXCEPT !.region = reg])
<1>1. d \in Docs /\ d.sel \in 0 .. Len(d.annos)
  BY DEF DocOk
<1>2. \A reg \in Regions : \A S \in SUBSET Regions :
        LET e == [d EXCEPT !.region = reg]
            f == [d EXCEPT !.snap = S]
            g == [[d EXCEPT !.snap = S] EXCEPT !.region = reg] IN
        /\ Alike(d, e) /\ e.sel = d.sel /\ Alike(d, f) /\ f.sel = d.sel
        /\ Alike(d, g) /\ g.sel = d.sel
  BY <1>1 DEF Alike, Docs
<1>3. \A r \in Rects : LET e == [d EXCEPT !.region.r = r] IN Alike(d, e) /\ e.sel = d.sel
  BY <1>1 DEF Alike, Docs, Regions
<1>4. ASSUME NEW e, Alike(d, e), e.sel = d.sel PROVE DocOk(e)
  BY <1>1, <1>4, AlikeOk
<1>5. ASSUME NEW reg \in Regions PROVE DocOk([d EXCEPT !.region = reg])
  BY <1>2, <1>4, Zenon
<1>6. ASSUME NEW r \in Rects PROVE DocOk([d EXCEPT !.region.r = r])
  BY <1>3, <1>4
<1>7. ASSUME NEW reg \in Regions, NEW S \in SUBSET Regions
      PROVE  /\ DocOk([d EXCEPT !.snap = S])
             /\ DocOk([[d EXCEPT !.snap = S] EXCEPT !.region = reg])
  <2> DEFINE f == [d EXCEPT !.snap = S]
             g == [[d EXCEPT !.snap = S] EXCEPT !.region = reg]
  <2>1. Alike(d, f) /\ f.sel = d.sel /\ Alike(d, g) /\ g.sel = d.sel
    BY <1>2, Zenon
  <2> HIDE DEF f, g
  <2>2. DocOk(f) /\ DocOk(g)
    BY <2>1, <1>4
  <2> QED
    BY <2>2 DEF f, g
<1> QED
  BY <1>5, <1>6, <1>7, Zenon

LEMMA BeginOk ==
  ASSUME NEW d, DocOk(d)
  PROVE  DocOk(Begin(d))
<1>1. {d.region} \in SUBSET Regions /\ d.region \in Regions
  BY DEF DocOk, Docs
<1>2. \A S \in SUBSET Regions : DocOk([d EXCEPT !.snap = S])
  BY <1>1, RegionOk, Zenon
<1>3. DocOk([d EXCEPT !.snap = {d.region}])
  BY <1>1, <1>2
<1> QED
  BY <1>3 DEF Begin

LEMMA CommitOk ==
  ASSUME NEW d, DocOk(d)
  PROVE  DocOk(Commit(d))
<1> DEFINE c == [d EXCEPT !.snap = {}]
           g == IF d.snap \in {{}, {d.region}} THEN <<>>
                ELSE <<[k |-> "region", old |-> CHOOSE r \in d.snap : TRUE]>>
<1>0. d \in Docs /\ d.sel \in 0 .. Len(d.annos) /\ d.snap \in SUBSET Regions
  BY DEF DocOk, Docs
<1>1. Alike(d, c) /\ c.sel \in 0 .. Len(d.annos)
  BY <1>0 DEF Alike, Docs
<1>2. g \in Seq(Items) /\ \A j \in 1 .. Len(g) : g[j].k = "region"
  <2>1. CASE d.snap \in {{}, {d.region}}
    BY <2>1
  <2>2. CASE d.snap \notin {{}, {d.region}}
    <3> DEFINE it == [k |-> "region", old |-> CHOOSE r \in d.snap : TRUE]
    <3>1. (CHOOSE r \in d.snap : TRUE) \in Regions
      BY <1>0, <2>2
    <3>2. it \in Items /\ it.k = "region"
      BY <3>1 DEF Items
    <3> HIDE DEF it
    <3>3. g = <<it>>
      BY <2>2 DEF it
    <3>4. <<it>> \in Seq(Items) /\ Len(<<it>>) = 1 /\ <<it>>[1] = it
      BY <3>2
    <3> HIDE DEF g
    <3>5. g \in Seq(Items) /\ Len(g) = 1 /\ g[1] = it
      BY <3>3, <3>4
    <3> QED
      BY <3>2, <3>5
  <2> QED
    BY <2>1, <2>2
<1>3. Commit(d) = Push(c, g)
  BY DEF Commit
<1> HIDE DEF g, c
<1>4. \A j \in 1 .. Len(g) : g[j].k \in Plain /\ FitsIn(g[j], Len(d.annos))
  BY <1>2 DEF Plain, Grows, Shrinks, FitsIn
<1> QED
  BY <1>1, <1>2, <1>3, <1>4, PushPlain

LEMMA FinalOk ==
  ASSUME NEW d, DocOk(d)
  PROVE  DocOk(Final(d))
<1> DEFINE e == Final(d)
<1>1. d \in Docs
  BY DEF DocOk
<1>2. e \in Docs /\ e.annos = d.annos /\ e.sel = 0 /\ e.undo = <<>> /\ e.redo = <<>>
  <2>1. <<>> \in Seq(Seq(Items)) /\ {} \in SUBSET Regions /\ 0 \in Nat
    OBVIOUS
  <2> QED
    BY <1>1, <2>1 DEF Final, Docs
<1>3. IdsOf(d.annos) \in Seq(Nat) /\ d.undo \in Stacks /\ Len(d.annos) \in Nat
  BY <1>1, IdsIs DEF Docs, Stacks
<1>4. Ascending(IdsOf(d.annos))
  BY <1>3, StackAscends DEF DocOk, Fitting
<1>5. StackIds(<<>>, IdsOf(d.annos)) /\ StackOnce(<<>>) /\ Held(<<>>) = {}
  BY <1>3, <1>4, EmptyStack
<1>6. Fitting(IdsOf(d.annos), <<>>, <<>>)
  BY <1>5 DEF Fitting
<1> HIDE DEF e
<1>7. DocOk(e)
  BY <1>2, <1>3, <1>6 DEF DocOk
<1> QED
  BY <1>7 DEF e

\* The commands of the selection.
LEMMA SelectOk ==
  ASSUME NEW d, DocOk(d)
  PROVE  /\ DocOk(Deselected(d)) /\ Alike(d, Deselected(d))
         /\ \A i \in DOMAIN d.annos : DocOk(SelectOne(d, i)) /\ DocOk(SelectToggle(d, i))
                                      /\ DocOk([d EXCEPT !.sel = i])
<1>0. d \in Docs /\ Len(d.annos) \in Nat /\ DOMAIN d.annos = 1 .. Len(d.annos)
  BY DEF DocOk, Docs
<1>1. ASSUME NEW e, Alike(d, e), NEW k \in 0 .. Len(d.annos)
      PROVE  Alike(d, [e EXCEPT !.sel = k]) /\ DocOk([e EXCEPT !.sel = k])
  <2> DEFINE f == [e EXCEPT !.sel = k]
  <2>0. k \in Nat /\ e \in Docs
    BY <1>0, <1>1 DEF Alike
  <2>1. f \in Docs /\ f.sel = k /\ f.annos = e.annos /\ f.undo = e.undo /\ f.redo = e.redo
    BY <2>0 DEF Docs
  <2>2a. Alike(d, f) /\ f.sel = k
    BY <1>1, <2>1 DEF Alike
  <2> HIDE DEF f
  <2>2. DocOk(f)
    BY <2>2a, AlikeOk
  <2> QED
    BY <2>2a, <2>2 DEF f
<1> DEFINE u == Update(d, DOMAIN d.annos, LAMBDA a : [a EXCEPT !.sel = FALSE])
           v == Deselected(d)
<1>2. Alike(d, u)
  BY <1>0, UpdateAlike
<1>3. v = [u EXCEPT !.sel = 0] /\ 0 \in 0 .. Len(d.annos)
  BY <1>0 DEF Deselected
<1> HIDE DEF u
<1>4. Alike(d, v) /\ DocOk(v)
  <2> HIDE DEF v
  <2> QED
    BY <1>1, <1>2, <1>3
<1>5. ASSUME NEW i \in DOMAIN d.annos
      PROVE  DocOk(SelectOne(d, i)) /\ DocOk(SelectToggle(d, i)) /\ DocOk([d EXCEPT !.sel = i])
  <2>0. i \in 0 .. Len(d.annos) /\ 0 \in 0 .. Len(d.annos)
    BY <1>0
  <2>1. DocOk(SelectOne(d, i))
    <3> DEFINE w == Update(v, {i}, LAMBDA a : [a EXCEPT !.sel = TRUE])
    <3>1. SelectOne(d, i) = [w EXCEPT !.sel = i]
      BY DEF SelectOne
    <3>2. Alike(v, w)
      <4> HIDE DEF v
      <4>1. v \in Docs
        BY <1>4 DEF Alike
      <4> QED
        BY <4>1, UpdateAlike
    <3> HIDE DEF w, v
    <3>3. Alike(d, w)
      BY <1>4, <3>2 DEF Alike
    <3> QED
      BY <1>1, <2>0, <3>1, <3>3
  <2>2. DocOk(SelectToggle(d, i))
    <3> DEFINE w == Update(d, {i}, LAMBDA a : [a EXCEPT !.sel = ~@])
               k == IF d.annos[i].sel THEN 0 ELSE i
    <3>1. SelectToggle(d, i) = [w EXCEPT !.sel = k]
      BY DEF SelectToggle
    <3>2. Alike(d, w)
      BY <1>0, UpdateAlike
    <3>3. k \in 0 .. Len(d.annos)
      BY <2>0
    <3> HIDE DEF w, k
    <3> QED
      BY <1>1, <3>1, <3>2, <3>3
  <2>3. Alike(d, d)
    BY <1>0 DEF Alike
  <2> QED
    BY <1>1, <2>0, <2>1, <2>2, <2>3
<1> QED
  BY <1>4, <1>5

LEMMA InOrderOf ==
  ASSUME NEW m \in Nat, NEW S \in SUBSET (1 .. m)
  PROVE  /\ IsFiniteSet(S) /\ Cardinality(S) \in Nat /\ DOMAIN InOrder(S) = 1 .. Cardinality(S)
         /\ \A n \in 1 .. Cardinality(S) : InOrder(S)[n] \in S /\ InOrder(S)[n] \in 1 .. m
<1>1. IsFiniteSet(1 .. m)
  BY FS_Interval
<1> DEFINE I == 1 .. m
<1>2. IsFiniteSet(I) /\ S \in SUBSET I /\ I \subseteq Int
  BY <1>1
<1> HIDE DEF I
<1>3. IsFiniteSet(S) /\ S \subseteq Int
  BY <1>2, FS_Subset
<1> QED
  BY <1>2, <1>3, InOrderIs DEF I

LEMMA SelectedIs ==
  ASSUME NEW d \in Docs
  PROVE  /\ Selected(d) \in SUBSET (1 .. Len(d.annos)) /\ Len(d.annos) \in Nat
         /\ DOMAIN d.annos = 1 .. Len(d.annos)
BY DEF Selected, Docs

\* One item for each of the selected, of a kind that neither adds nor removes.
LEMMA ForSelectedIs ==
  ASSUME NEW d \in Docs
  PROVE  /\ LET g == ForSelected(d, LAMBDA i : [k |-> "attr", i |-> i, v |-> d.annos[i].attr]) IN
            g \in Seq(Items) /\ \A j \in 1 .. Len(g) : g[j].k \in Plain /\ FitsIn(g[j], Len(d.annos))
         /\ \A z \in Int :
              LET g == ForSelected(d, LAMBDA i : [k |-> "move", i |-> i, d |-> z]) IN
              g \in Seq(Items) /\ \A j \in 1 .. Len(g) : g[j].k \in Plain /\ FitsIn(g[j], Len(d.annos))
<1> DEFINE S == Selected(d)
           m == Len(d.annos)
           c == Cardinality(S)
<1>1. m \in Nat /\ S \in SUBSET (1 .. m)
  BY SelectedIs
<1>1a. \A i \in 1 .. m : d.annos[i].attr \in Attrs
  <2> TAKE i \in 1 .. m
  <2>1. d.annos[i] \in AnnoSet
    BY DEF Docs
  <2> DEFINE a == d.annos[i]
  <2> HIDE DEF a
  <2>2. a \in AnnoSet => a.attr \in Attrs
    BY DEF AnnoSet
  <2> QED
    BY <2>1, <2>2 DEF a
<1> HIDE DEF m, S
<1>2. /\ c \in Nat /\ DOMAIN InOrder(S) = 1 .. c
      /\ \A n \in 1 .. c : InOrder(S)[n] \in 1 .. m
  BY <1>1, InOrderOf
<1> HIDE DEF c
<1>3. ASSUME NEW g \in [1 .. c -> Items],
             \A n \in 1 .. c : g[n].k \in {"attr", "move"} /\ g[n].i \in 1 .. m
      PROVE  g \in Seq(Items) /\ \A j \in 1 .. Len(g) : g[j].k \in Plain /\ FitsIn(g[j], m)
  <2>1. g \in Seq(Items) /\ Len(g) = c
    BY <1>2, IsSeq
  <2>2. \A j \in 1 .. c : g[j].k \in Plain /\ FitsIn(g[j], m)
    BY <1>3 DEF Plain, FitsIn, Grows, Shrinks
  <2> QED
    BY <2>1, <2>2
<1>4. LET g == ForSelected(d, LAMBDA i : [k |-> "attr", i |-> i, v |-> d.annos[i].attr]) IN
      g \in Seq(Items) /\ \A j \in 1 .. Len(g) : g[j].k \in Plain /\ FitsIn(g[j], m)
  <2> DEFINE f == [n \in 1 .. c |-> [k |-> "attr", i |-> InOrder(S)[n], v |-> d.annos[InOrder(S)[n]].attr]]
  <2>1. f = ForSelected(d, LAMBDA i : [k |-> "attr", i |-> i, v |-> d.annos[i].attr])
    BY <1>2 DEF ForSelected, S
  <2>2. \A n \in 1 .. c : f[n] \in Items
    <3> TAKE n \in 1 .. c
    <3>1. InOrder(S)[n] \in 1 .. m /\ InOrder(S)[n] \in Places
      BY <1>1, <1>2 DEF Places
    <3>2. d.annos[InOrder(S)[n]].attr \in Attrs
      BY <1>1a, <3>1
    <3> QED
      BY <3>1, <3>2 DEF Items
  <2>3. f \in [1 .. c -> Items]
    BY <2>2
  <2>4. \A n \in 1 .. c : f[n].k \in {"attr", "move"} /\ f[n].i \in 1 .. m
    BY <1>2
  <2> HIDE DEF f
  <2>5. f \in Seq(Items) /\ \A j \in 1 .. Len(f) : f[j].k \in Plain /\ FitsIn(f[j], m)
    BY <1>3, <2>3, <2>4
  <2> QED
    BY <2>1, <2>5, Zenon
<1>5. ASSUME NEW z \in Int
      PROVE  LET g == ForSelected(d, LAMBDA i : [k |-> "move", i |-> i, d |-> z]) IN
             g \in Seq(Items) /\ \A j \in 1 .. Len(g) : g[j].k \in Plain /\ FitsIn(g[j], m)
  <2> DEFINE f == [n \in 1 .. c |-> [k |-> "move", i |-> InOrder(S)[n], d |-> z]]
  <2>1. f = ForSelected(d, LAMBDA i : [k |-> "move", i |-> i, d |-> z])
    BY <1>2 DEF ForSelected, S
  <2>2. \A n \in 1 .. c : f[n] \in Items
    <3> TAKE n \in 1 .. c
    <3>1. InOrder(S)[n] \in 1 .. m /\ InOrder(S)[n] \in Places
      BY <1>1, <1>2 DEF Places
    <3> QED
      BY <3>1 DEF Items
  <2>3. f \in [1 .. c -> Items]
    BY <2>2
  <2>4. \A n \in 1 .. c : f[n].k \in {"attr", "move"} /\ f[n].i \in 1 .. m
    BY <1>2
  <2> HIDE DEF f
  <2>5. f \in Seq(Items) /\ \A j \in 1 .. Len(f) : f[j].k \in Plain /\ FitsIn(f[j], m)
    BY <1>3, <2>3, <2>4
  <2> QED
    BY <2>1, <2>5, Zenon
<1> QED
  BY <1>4, <1>5, Zenon DEF m

\* Recording the sizes and colours of the selected, and setting them.
LEMMA AttrOk ==
  ASSUME NEW d, DocOk(d)
  PROVE  /\ DocOk(RecordAttr(d))
         /\ \A v \in Attrs : DocOk(SetAttr(d, v))
<1>0. d \in Docs /\ d.sel \in 0 .. Len(d.annos)
  BY DEF DocOk
<1>1. DocOk(RecordAttr(d))
  <2> DEFINE g == ForSelected(d, LAMBDA i : [k |-> "attr", i |-> i, v |-> d.annos[i].attr])
  <2>1. g \in Seq(Items) /\ \A j \in 1 .. Len(g) : g[j].k \in Plain /\ FitsIn(g[j], Len(d.annos))
    BY <1>0, ForSelectedIs, Zenon
  <2>2. RecordAttr(d) = IF ui.editMode THEN Push(d, g) ELSE d
    BY Zenon DEF RecordAttr
  <2>3. Alike(d, d)
    BY <1>0 DEF Alike
  <2> HIDE DEF g
  <2>4. DocOk(Push(d, g))
    BY <1>0, <2>1, <2>3, PushPlain
  <2> QED
    BY <2>2, <2>4
<1>2. ASSUME NEW v \in Attrs PROVE DocOk(SetAttr(d, v))
  <2> DEFINE S == Selected(d)
             e == Update(d, Selected(d), LAMBDA a : [a EXCEPT !.attr = v])
  <2>1. Alike(d, e) /\ e.sel = d.sel
    BY <1>0, UpdateAlike, Zenon
  <2>2. SetAttr(d, v) = IF ui.editMode THEN e ELSE d
    BY DEF SetAttr
  <2> HIDE DEF e
  <2>3. DocOk(e)
    BY <1>0, <2>1, AlikeOk
  <2> QED
    BY <2>2, <2>3
<1> QED
  BY <1>1, <1>2

\* Dragging the selected, or a corner of one, and recording it.
LEMMA MoveOk ==
  ASSUME NEW d, DocOk(d)
  PROVE  /\ \A z \in Int :
              /\ DocOk(Update(d, Selected(d), LAMBDA a : [a EXCEPT !.at = @ + z]))
              /\ DocOk(Push(d, ForSelected(d, LAMBDA i : [k |-> "move", i |-> i, d |-> z])))
         /\ d.sel # 0 =>
              \A z \in Int :
                /\ DocOk([d EXCEPT !.annos[d.sel].at = z])
                /\ DocOk(Push(d, <<[k |-> "geom", i |-> d.sel, at |-> z]>>))
                /\ DocOk(Applied(d, [k |-> "move", i |-> d.sel, d |-> z]))
                /\ DocOk(Applied(d, [k |-> "geom", i |-> d.sel, at |-> z]))
<1>0. d \in Docs /\ d.sel \in 0 .. Len(d.annos) /\ Alike(d, d) /\ Len(d.annos) \in Nat
  BY DEF DocOk, Alike, Docs
<1>1. ASSUME NEW z \in Int
      PROVE  /\ DocOk(Update(d, Selected(d), LAMBDA a : [a EXCEPT !.at = @ + z]))
             /\ DocOk(Push(d, ForSelected(d, LAMBDA i : [k |-> "move", i |-> i, d |-> z])))
  <2> DEFINE g == ForSelected(d, LAMBDA i : [k |-> "move", i |-> i, d |-> z])
             e == Update(d, Selected(d), LAMBDA a : [a EXCEPT !.at = @ + z])
  <2>1. g \in Seq(Items) /\ \A j \in 1 .. Len(g) : g[j].k \in Plain /\ FitsIn(g[j], Len(d.annos))
    BY <1>0, ForSelectedIs, Zenon
  <2>2. Alike(d, e) /\ e.sel = d.sel
    BY <1>0, UpdateAlike, Zenon
  <2> HIDE DEF g, e
  <2>3. DocOk(Push(d, g))
    BY <1>0, <2>1, PushPlain
  <2>4. DocOk(e)
    BY <1>0, <2>2, AlikeOk
  <2> QED
    BY <2>3, <2>4, Zenon DEF g, e
<1>2. ASSUME d.sel # 0, NEW z \in Int
      PROVE  /\ DocOk([d EXCEPT !.annos[d.sel].at = z])
             /\ DocOk(Push(d, <<[k |-> "geom", i |-> d.sel, at |-> z]>>))
             /\ DocOk(Applied(d, [k |-> "move", i |-> d.sel, d |-> z]))
             /\ DocOk(Applied(d, [k |-> "geom", i |-> d.sel, at |-> z]))
  <2> DEFINE mv == [k |-> "move", i |-> d.sel, d |-> z]
             ge == [k |-> "geom", i |-> d.sel, at |-> z]
  <2>0. d.sel \in 1 .. Len(d.annos) /\ d.sel \in Places
    BY <1>0, <1>2 DEF Places
  <2>1. mv \in Items /\ ge \in Items /\ mv.k = "move" /\ mv.i = d.sel /\ ge.k = "geom" /\ ge.i = d.sel
    BY <2>0 DEF Items
  <2> HIDE DEF mv, ge
  <2>2. ASSUME NEW it \in Items, it.k \in {"move", "geom"}, it.i = d.sel
        PROVE  /\ it.k \in Plain /\ FitsIn(it, Len(d.annos))
               /\ DocOk(Applied(d, it)) /\ Applied(d, it) = [d EXCEPT !.annos = ItemAnnos(d, it)]
    <3>1. it.k \in Plain /\ FitsIn(it, Len(d.annos))
      BY <2>0, <2>2 DEF Plain, FitsIn, Grows, Shrinks
    <3> DEFINE s == ItemAnnos(d, it)
               e == Applied(d, it)
    <3>2. s \in Seq(AnnoSet) /\ Len(s) = Len(d.annos) /\ IdsOf(s) = IdsOf(d.annos)
      BY <1>0, <3>1, PlainIs
    <3>3. e.annos = s /\ e.sel = d.sel /\ e.undo = d.undo /\ e.redo = d.redo /\ e \in Docs
      <4>1. e.sel = IF d.sel > Len(s) THEN 0 ELSE d.sel
        BY <1>0, AppliedIs
      <4>2. ~(d.sel > Len(s))
        BY <1>0, <2>0, <3>2
      <4> QED
        BY <1>0, <4>1, <4>2, AppliedIs, ItemTotal
    <3>4. e = [d EXCEPT !.annos = s]
      <4>1. ~(d.sel > Len(s)) /\ it.k # "region"
        BY <1>0, <2>0, <2>2, <3>2
      <4> HIDE DEF s
      <4> QED
        BY <1>0, <4>1 DEF Applied, Docs, s
    <3> HIDE DEF s, e
    <3>5. DocOk(e)
      BY <1>0, <3>2, <3>3, AlikeOk DEF Alike
    <3> QED
      BY <3>1, <3>4, <3>5 DEF s, e
  <2>3. DocOk(Applied(d, mv)) /\ DocOk(Applied(d, ge)) /\ Applied(d, ge) = [d EXCEPT !.annos = ItemAnnos(d, ge)]
    BY <2>1, <2>2
  <2>4. [d EXCEPT !.annos[d.sel].at = z] = Applied(d, ge)
    <3>1. ItemAnnos(d, ge) = [d.annos EXCEPT ![d.sel].at = z]
      <4>1. ge.at = z /\ ge.i \in DOMAIN d.annos /\ ge.k = "geom" /\ ge.i = d.sel
        BY <1>0, <2>0, <2>1 DEF ge, Docs
      <4> QED
        BY <4>1 DEF ItemAnnos, Fits
    <3>2. [d EXCEPT !.annos[d.sel].at = z] = [d EXCEPT !.annos = [d.annos EXCEPT ![d.sel].at = z]]
      OBVIOUS
    <3> QED
      BY <2>3, <3>1, <3>2
  <2>5. DocOk(Push(d, <<ge>>))
    <3> DEFINE g == <<ge>>
    <3>1. g \in Seq(Items) /\ Len(g) = 1 /\ g[1] = ge
      BY <2>1
    <3> HIDE DEF g
    <3>2. ge.k \in Plain /\ FitsIn(ge, Len(d.annos))
      BY <2>1, <2>2
    <3>3. \A j \in 1 .. Len(g) : g[j].k \in Plain /\ FitsIn(g[j], Len(d.annos))
      BY <3>1, <3>2
    <3>4. DocOk(Push(d, g))
      BY <1>0, <3>1, <3>3, PushPlain
    <3> QED
      BY <3>4 DEF g
  <2> QED
    BY <2>3, <2>4, <2>5 DEF mv, ge
<1> QED
  BY <1>1, <1>2, Zenon

\* Max of what is in use, and so an id not in use yet.
LEMMA MaxOfNats ==
  ASSUME NEW S, IsFiniteSet(S), S # {}, S \subseteq Nat
  PROVE  Max(S) \in S /\ \A y \in S : y <= Max(S)
<1> DEFINE Over(x) == {y \in S : y > x}
           T == {Over(x) : x \in S}
           R == StrictSubsetOrdering(S)
<1>1. T \subseteq SUBSET S /\ T # {}
  OBVIOUS
<1>2. IsWellFoundedOn(R, SUBSET S)
  BY FS_StrictSubsetOrderingWellFounded, FS_FiniteSubsetsOfFinite
<1>3. PICK A \in T : \A B \in T : ~(<<B, A>> \in R)
  <2> HIDE DEF T, R
  <2> QED
    BY <1>1, <1>2, WFMin
<1>4. PICK x \in S : A = Over(x)
  BY <1>3
<1>5. ASSUME NEW y \in S, ~(x >= y) PROVE FALSE
  <2>0. x \in Int /\ y \in Int
    OBVIOUS
  <2>1. y > x
    BY <1>5, <2>0
  <2>2. Over(y) \subseteq Over(x) /\ y \in Over(x) /\ y \notin Over(y)
    <3>1. \A j \in S : j > y => j > x
      <4> TAKE j \in S
      <4>1. j \in Int
        OBVIOUS
      <4> QED
        BY <2>0, <2>1, <4>1
    <3>2. ~(y > y)
      BY <2>0
    <3> QED
      BY <2>1, <3>1, <3>2
  <2>3. <<Over(y), A>> \in R
    BY <1>4, <2>2 DEF StrictSubsetOrdering
  <2> QED
    BY <1>3, <2>3
<1>6. \E m \in S : \A y \in S : m >= y
  BY <1>5
<1>7. Max(S) \in S /\ \A y \in S : Max(S) >= y
  BY <1>6 DEF Max
<1> HIDE DEF Over, T, R
<1>8. ASSUME NEW y \in S PROVE y <= Max(S)
  <2> DEFINE m == Max(S)
  <2>1. m \in S /\ m >= y
    BY <1>7
  <2> HIDE DEF m
  <2>2. m \in Int /\ y \in Int
    BY <2>1
  <2>3. y <= m
    BY <2>1, <2>2
  <2> QED
    BY <2>3 DEF m
<1> QED
  BY <1>7, <1>8

LEMMA IdsIsAll ==
  ASSUME NEW d, DocOk(d)
  PROVE  /\ Ids(d) = IdSet(IdsOf(d.annos)) \cup Held(d.undo) \cup Held(d.redo)
         /\ NewId(d) \in Nat \ {0} /\ \A e \in Ids(d) : e \in Nat /\ e < NewId(d)
<1> DEFINE x == IdsOf(d.annos)
           InList == {d.annos[i].id : i \in DOMAIN d.annos}
<1>1. d.annos \in Seq(AnnoSet) /\ d.undo \in Stacks /\ d.redo \in Stacks
  BY DEF DocOk, Docs, Stacks
<1>2. x \in Seq(Nat) /\ Len(x) = Len(d.annos) /\ \A i \in 1 .. Len(x) : x[i] = d.annos[i].id
  BY <1>1, IdsIs
<1>3. Ascending(x)
  <2> HIDE DEF x
  <2> QED
    BY <1>1, StackAscends DEF DocOk, Fitting, x
<1>4. DOMAIN d.annos = 1 .. Len(x)
  BY <1>1, <1>2
<1>5. InList = IdSet(x)
  <2> HIDE DEF x
  <2> QED
    BY <1>2, <1>4 DEF IdSet
<1>6. IsFiniteSet(IdSet(x)) /\ IdSet(x) \subseteq Nat
  <2> HIDE DEF x
  <2>1. IsFiniteSet(IdSet(x))
    BY <1>2, <1>3, ListCount
  <2>2. IdSet(x) \subseteq Nat
    BY <1>2 DEF IdSet
  <2> QED
    BY <2>1, <2>2
<1> DEFINE U == OwnedIds(d.undo)
           R == OwnedIds(d.redo)
<1>7. /\ U = Held(d.undo) /\ IsFiniteSet(U) /\ R = Held(d.redo) /\ IsFiniteSet(R)
  BY <1>1, OwnedCount DEF DocOk, Fitting
<1>8. U \subseteq Nat /\ R \subseteq Nat
  <2> HIDE DEF U, R
  <2>1. ASSUME NEW s \in Stacks PROVE Held(s) \subseteq Nat
    <3>1. ASSUME NEW j \in 1 .. Len(s), NEW n \in 1 .. Len(s[j]) PROVE Owns(s[j][n]) \subseteq Nat
      <4>1. s[j] \in Seq(Items)
        BY DEF Stacks
      <4>2. s[j][n] \in Items
        BY <4>1
      <4> DEFINE it == s[j][n]
      <4> HIDE DEF it
      <4>3. it \in Items
        BY <4>2 DEF it
      <4>4. it.k \in Grows => it.a \in AnnoSet
        BY <4>3, ItemShapes DEF Grows
      <4>5. it.k \in Grows => it.a.id \in Nat
        BY <4>4 DEF AnnoSet
      <4>6. Owns(it) \subseteq Nat
        BY <4>5 DEF Owns
      <4> QED
        BY <4>6 DEF it
    <3> QED
      BY <3>1 DEF Held, GroupOwned, OwnsAt
  <2> QED
    BY <1>1, <1>7, <2>1
<1> HIDE DEF x, U, R, InList
<1>9. Ids(d) = IdSet(x) \cup U \cup R
  BY <1>5 DEF Ids, InList, U, R
<1> DEFINE A == {0} \cup Ids(d)
<1>10. IsFiniteSet(A) /\ A # {} /\ A \subseteq Nat
  <2>1. IsFiniteSet(IdSet(x) \cup U)
    BY <1>6, <1>7, FS_Union, Zenon
  <2>2. IsFiniteSet(IdSet(x) \cup U \cup R)
    BY <1>7, <2>1, FS_Union, Zenon
  <2>3. IsFiniteSet(Ids(d)) /\ IsFiniteSet({0})
    BY <1>9, <2>2, FS_Singleton
  <2>4. IsFiniteSet(A)
    BY <2>3, FS_Union, Zenon
  <2>5. Ids(d) \subseteq Nat
    BY <1>6, <1>8, <1>9, Zenon
  <2>6. 0 \in A /\ A \subseteq Nat
    BY <2>5
  <2> QED
    BY <2>4, <2>6
<1>11. NewId(d) = 1 + Max(A)
  BY DEF NewId
<1>12. Max(A) \in A /\ \A y \in A : y <= Max(A)
  <2> HIDE DEF A
  <2> QED
    BY <1>10, MaxOfNats
<1>13. \A e \in Ids(d) : e \in A
  OBVIOUS
<1> HIDE DEF A
<1>14. \A m \in Nat : \A e \in Nat : e <= m => e < 1 + m
  OBVIOUS
<1>15. Max(A) \in Nat
  BY <1>10, <1>12
<1>16. ASSUME NEW e \in Ids(d) PROVE e \in Nat /\ e < NewId(d)
  <2>1. e \in Nat /\ e <= Max(A)
    BY <1>10, <1>12, <1>13
  <2> QED
    BY <1>11, <1>14, <1>15, <2>1
<1>17. NewId(d) \in Nat \ {0}
  BY <1>11, <1>15
<1> QED
  BY <1>7, <1>9, <1>16, <1>17 DEF x, U, R

\* Undoing what was just added.
LEMMA AddGroup ==
  ASSUME NEW x \in Seq(Nat), Ascending(x), NEW b \in Nat, \A e \in IdSet(x) : e < b
  PROVE  LET y == Append(x, b)
             g == <<[k |-> "add"]>> IN
         /\ Ascending(y) /\ IdSet(y) = IdSet(x) \cup {b} /\ y \in Seq(Nat)
         /\ g \in Seq(Items) /\ g # <<>> /\ GroupIds(g, y, x) /\ GroupOnce(g) /\ GroupOwned(g) = {}
<1> DEFINE it == [k |-> "add"]
           g == <<it>>
           y == Append(x, b)
           n == Len(x)
<1>1. it \in Items /\ it.k = "add" /\ it.k \notin Grows /\ it.k \in Shrinks /\ it.k \notin Plain
  BY DEF Items, Grows, Shrinks, Plain
<1>1a. \A m \in Nat : Place(it, m) = m
  BY <1>1 DEF Place
<1> HIDE DEF it
<1>2. g \in Seq(Items) /\ g # <<>> /\ Len(g) = 1 /\ g[1] = it
  BY <1>1
<1>3. n \in Nat /\ y = Put(x, n + 1, b) /\ y \in Seq(Nat) /\ Len(y) = n + 1
  <2>1. y = Put(x, n + 1, b)
    BY AppendIsPut
  <2>2. n \in Nat /\ y \in Seq(Nat) /\ Len(y) = n + 1
    OBVIOUS
  <2> QED
    BY <2>1, <2>2
<1>4. IdSet(y) = IdSet(x) \cup {b}
  <2>1. n + 1 \in 1 .. n + 1
    BY <1>3
  <2>2. IdSet(Put(x, n + 1, b)) = IdSet(x) \cup {b}
    BY <2>1, IdSetOfPut
  <2> QED
    BY <1>3, <2>2
<1>5. Cut(y, n + 1) = x
  <2>1. n + 1 \in 1 .. n + 1
    BY <1>3
  <2> QED
    BY <1>3, <2>1, CutOfPut
<1>6. /\ \A i \in 1 .. n : y[i] = x[i]
      /\ y[n + 1] = b
  OBVIOUS
<1> HIDE DEF g, y
<1>7. ASSUME NEW i \in 1 .. n + 1, NEW j \in 1 .. n + 1, i < j PROVE y[i] < y[j]
  <2>1. i \in 1 .. n
    BY <1>3, <1>7
  <2>2. CASE j \in 1 .. n
    BY <1>6, <1>7, <2>1, <2>2 DEF Ascending
  <2>3. CASE j \notin 1 .. n
    <3>1. j = n + 1
      BY <1>3, <2>3
    <3>2. x[i] \in IdSet(x)
      BY <2>1 DEF IdSet
    <3> QED
      BY <1>6, <2>1, <3>1, <3>2
  <2> QED
    BY <2>2, <2>3
<1>8. Ascending(y)
  BY <1>3, <1>7 DEF Ascending
<1> DEFINE h == [j \in 0 .. 1 |-> IF j = 0 THEN x ELSE y]
<1>9. h \in [0 .. 1 -> Seq(Nat)] /\ h[0] = x /\ h[1] = y
  BY <1>3
<1> HIDE DEF h
<1>10. IdStep(h[1], g[1], h[0])
  <2>1. Place(it, n + 1) = n + 1 /\ n + 1 \in 1 .. n + 1
    BY <1>1a, <1>3
  <2>2. IdStep(y, it, x)
    BY <1>1, <1>3, <1>5, <2>1 DEF IdStep, FitsIn
  <2> QED
    BY <1>2, <1>9, <2>2
<1>11. IdWalk(g, y, x, h)
  <2>1. \A j \in 0 .. 1 : j = 0 \/ j = 1
    OBVIOUS
  <2>2. \A j \in 1 .. 1 : j = 1 /\ j - 1 = 0
    OBVIOUS
  <2> QED
    BY <1>2, <1>8, <1>9, <1>10, <2>1, <2>2 DEF IdWalk
<1>12. GroupIds(g, y, x)
  BY <1>2, <1>9, <1>11 DEF GroupIds
<1>13. GroupOnce(g) /\ GroupOwned(g) = {}
  <2>1. \A j \in 1 .. Len(g) : Owns(g[j]) = {}
    <3> TAKE j \in 1 .. Len(g)
    <3>1. g[j] = it
      BY <1>2
    <3> QED
      BY <1>1, <3>1 DEF Owns
  <2> QED
    BY <2>1 DEF GroupOnce, GroupOwned, OwnsOnce, OwnsAt
<1> QED
  BY <1>2, <1>3, <1>4, <1>8, <1>12, <1>13 DEF g, y, it

LEMMA AddOk ==
  ASSUME NEW d, DocOk(d)
  PROVE  DocOk(AddAnno(d))
<1> DEFINE b == NewId(d)
           a == [Blank EXCEPT !.id = b]
           x == IdsOf(d.annos)
           y == Append(x, b)
           s == Append(d.annos, a)
           c == [d EXCEPT !.annos = s]
           g == <<[k |-> "add"]>>
<1>0. d \in Docs /\ d.annos \in Seq(AnnoSet) /\ d.sel \in 0 .. Len(d.annos) /\ d.undo \in Stacks
  BY DEF DocOk, Docs, Stacks
<1>1. x \in Seq(Nat) /\ Len(x) = Len(d.annos)
  BY <1>0, IdsIs
<1>2. Ascending(x)
  <2> HIDE DEF x
  <2> QED
    BY <1>0, StackAscends DEF DocOk, Fitting, x
<1>3. /\ Ids(d) = IdSet(x) \cup Held(d.undo) \cup Held(d.redo)
      /\ b \in Nat /\ \A e \in Ids(d) : e \in Nat /\ e < b
  BY IdsIsAll
<1>4. a \in AnnoSet /\ a.id = b
  BY <1>3, BlankIsAnno DEF AnnoSet
<1>5. AddAnno(d) = Push(c, g)
  BY DEF AddAnno
<1> HIDE DEF b, a, x
<1>6. s \in Seq(AnnoSet) /\ Len(s) = Len(d.annos) + 1 /\ IdsOf(s) = y
  <2>1. s = Put(d.annos, Len(d.annos) + 1, a) /\ y = Put(x, Len(x) + 1, b)
    BY <1>0, <1>1, <1>3, <1>4, AppendIsPut
  <2>2. Len(d.annos) + 1 \in 1 .. Len(d.annos) + 1
    BY <1>0
  <2>3. IdsOf(Put(d.annos, Len(d.annos) + 1, a)) = Put(IdsOf(d.annos), Len(d.annos) + 1, a.id)
    BY <1>0, <1>4, <2>2, IdsOfPut
  <2>4. IdsOf(s) = y
    BY <1>1, <1>4, <2>1, <2>3 DEF x
  <2>5. s \in Seq(AnnoSet) /\ Len(s) = Len(d.annos) + 1
    BY <1>0, <1>4
  <2> QED
    BY <2>4, <2>5
<1>7. /\ Ascending(y) /\ IdSet(y) = IdSet(x) \cup {b} /\ y \in Seq(Nat)
      /\ g \in Seq(Items) /\ g # <<>> /\ GroupIds(g, y, x) /\ GroupOnce(g) /\ GroupOwned(g) = {}
  <2>1. \A e \in IdSet(x) : e < b
    BY <1>3
  <2> QED
    BY <1>1, <1>2, <1>3, <2>1, AddGroup
<1> HIDE DEF s, y, g
<1>8. /\ c \in Docs /\ c.annos = s /\ c.sel = d.sel /\ c.undo = d.undo
  BY <1>0, <1>6 DEF Docs
<1>9. c.sel \in 0 .. Len(c.annos)
  BY <1>0, <1>6, <1>8
<1>10. IdSet(y) \cap Held(d.undo) = {}
  <2>1. b \notin Held(d.undo)
    BY <1>3
  <2>2. IdSet(x) \cap Held(d.undo) = {}
    BY DEF DocOk, Fitting, x
  <2> QED
    BY <1>7, <2>1, <2>2
<1> HIDE DEF c
<1>11. DocOk(Push(c, g))
  BY <1>6, <1>7, <1>8, <1>9, <1>10, PushOk DEF x
<1> QED
  BY <1>5, <1>11

-----------------------------------------------------------------------------
(* Deleting the selected annotations.                                      *)

\* what is in the list when all but j of the selected are back
Back(m, S, j) == {i \in 1 .. m : i \in S => Rank(S, i) <= Cardinality(S) - j}

LEMMA BackIs ==
  ASSUME NEW m \in Nat, NEW S \in SUBSET (1 .. m)
  PROVE  /\ Back(m, S, 0) = 1 .. m /\ Back(m, S, Cardinality(S)) = (1 .. m) \ S
         /\ \A j \in 1 .. Cardinality(S) :
              LET i == InOrder(S)[Cardinality(S) + 1 - j] IN
              /\ i \in S /\ i \notin Back(m, S, j) /\ 1 .. i - 1 \subseteq Back(m, S, j)
              /\ Back(m, S, j - 1) = Back(m, S, j) \cup {i}
<1> DEFINE c == Cardinality(S)
<1>1. IsFiniteSet(S) /\ S \subseteq Int
  <2>1. IsFiniteSet(S)
    BY InOrderOf
  <2>2. 1 .. m \subseteq Int
    OBVIOUS
  <2> QED
    BY <2>1, <2>2
<1>2. /\ c \in Nat
      /\ \A n \in 1 .. c : InOrder(S)[n] \in S /\ Rank(S, InOrder(S)[n]) = n
      /\ \A a \in S : Rank(S, a) \in 1 .. c /\ InOrder(S)[Rank(S, a)] = a
  BY <1>1, InOrderIs
<1>3. \A a, b \in S : a < b => Rank(S, a) < Rank(S, b)
  BY <1>1, UptoIs
<1>4. \A j : Back(m, S, j) = {i \in 1 .. m : i \in S => Rank(S, i) <= c - j}
  BY DEF Back
<1> HIDE DEF c
<1>5. \A a \in S : Rank(S, a) \in Nat /\ Rank(S, a) <= c - 0 /\ ~(Rank(S, a) <= c - c)
  <2> TAKE a \in S
  <2>1. Rank(S, a) \in 1 .. c
    BY <1>2
  <2> QED
    BY <1>2, <2>1
<1>6. Back(m, S, 0) = 1 .. m /\ Back(m, S, c) = (1 .. m) \ S
  BY <1>4, <1>5
<1>7. ASSUME NEW j \in 1 .. c, NEW i, i = InOrder(S)[c + 1 - j]
      PROVE  /\ i \in S /\ i \notin Back(m, S, j) /\ 1 .. i - 1 \subseteq Back(m, S, j)
             /\ Back(m, S, j - 1) = Back(m, S, j) \cup {i}
  <2>1. c + 1 - j \in 1 .. c /\ j \in Nat
    BY <1>2
  <2>2. i \in S /\ Rank(S, i) = c + 1 - j /\ i \in 1 .. m
    BY <1>2, <1>7, <2>1
  <2>3. i \notin Back(m, S, j)
    BY <1>2, <1>4, <2>1, <2>2
  <2>4. ASSUME NEW k \in 1 .. i - 1 PROVE k \in Back(m, S, j)
    <3>1. k \in 1 .. m /\ k < i
      BY <2>2
    <3>2. ASSUME k \in S PROVE Rank(S, k) <= c - j
      <4>1. Rank(S, k) < Rank(S, i)
        BY <1>3, <2>2, <3>1, <3>2
      <4>2. Rank(S, k) \in Nat
        BY <1>5, <3>2
      <4> QED
        BY <1>2, <2>1, <2>2, <4>1, <4>2
    <3> QED
      BY <1>4, <3>1, <3>2
  <2>5. ASSUME NEW a \in S PROVE Rank(S, a) <= c - (j - 1) <=> Rank(S, a) <= c - j \/ a = i
    <3>1. Rank(S, a) \in 1 .. c /\ (Rank(S, a) = c + 1 - j <=> a = i)
      BY <1>2, <1>7, <2>1, <2>2
    <3> QED
      BY <1>2, <2>1, <3>1
  <2>6. \A k \in 1 .. m : k \in Back(m, S, j - 1) <=> k \in Back(m, S, j) \/ k = i
    BY <1>4, <2>2, <2>5
  <2>7. \A r : Back(m, S, r) \subseteq 1 .. m
    BY <1>4
  <2>8. Back(m, S, j - 1) = Back(m, S, j) \cup {i}
    BY <2>2, <2>6, <2>7
  <2> QED
    BY <2>2, <2>3, <2>4, <2>8
<1> QED
  BY <1>6, <1>7 DEF c

LEMMA Mirror ==
  ASSUME NEW c \in Nat
  PROVE  /\ \A i \in 1 .. c : c + 1 - i \in 1 .. c /\ i \in 0 .. c /\ i - 1 \in 0 .. c
         /\ \A i, j \in 1 .. c : i # j => c + 1 - i # c + 1 - j
         /\ 0 \in 0 .. c /\ c \in 0 .. c
<1>1. \A i \in 1 .. c : c + 1 - i \in 1 .. c
  OBVIOUS
<1>2. \A i \in 1 .. c : i \in 0 .. c /\ i - 1 \in 0 .. c
  OBVIOUS
<1>3. \A i, j \in 1 .. c : i # j => c + 1 - i # c + 1 - j
  OBVIOUS
<1>4. 0 \in 0 .. c /\ c \in 0 .. c
  OBVIOUS
<1> QED
  BY <1>1, <1>2, <1>3, <1>4

LEMMA AscendingApart ==
  ASSUME NEW x \in Seq(Nat), Ascending(x), NEW i \in 1 .. Len(x), NEW j \in 1 .. Len(x), i # j
  PROVE  x[i] # x[j]
<1>1. x[i] \in Nat /\ x[j] \in Nat
  OBVIOUS
<1>2. i < j \/ j < i
  OBVIOUS
<1> QED
  BY <1>1, <1>2 DEF Ascending

\* The group Delete records takes the ids it kept back to all of them.
LEMMA DeleteGroup ==
  ASSUME NEW x \in Seq(Nat), Ascending(x), NEW S \in SUBSET (1 .. Len(x)), S # {},
         NEW g \in Seq(Items), Len(g) = Cardinality(S),
         \A j \in 1 .. Len(g) :
           LET i == InOrder(S)[Cardinality(S) + 1 - j] IN
           g[j].k = "delete" /\ g[j].i = i /\ g[j].a.id = x[i]
  PROVE  LET y == Part(x, (1 .. Len(x)) \ S) IN
         /\ g # <<>> /\ y \in Seq(Nat) /\ Ascending(y) /\ GroupIds(g, y, x) /\ GroupOnce(g)
         /\ GroupOwned(g) \cap IdSet(y) = {}
         /\ GroupOwned(g) \subseteq IdSet(x) /\ IdSet(y) \subseteq IdSet(x)
<1> DEFINE m == Len(x)
           c == Cardinality(S)
           y == Part(x, (1 .. m) \ S)
           D == [j \in 0 .. c |-> Back(m, S, j)]
           at == [j \in 1 .. c |-> InOrder(S)[c + 1 - j]]
           h == [j \in 0 .. c |-> Part(x, D[j])]
<1>0. m \in Nat
  OBVIOUS
<1>1. /\ IsFiniteSet(S) /\ c \in Nat
      /\ \A j \in 1 .. c : at[j] \in S
  <2>1. IsFiniteSet(S) /\ c \in Nat /\ \A n \in 1 .. c : InOrder(S)[n] \in S
    BY <1>0, InOrderOf
  <2>2. \A j \in 1 .. c : c + 1 - j \in 1 .. c
    BY <2>1
  <2> QED
    BY <2>1, <2>2
<1>2. c \in Nat \ {0}
  BY <1>1, FS_EmptySet
<1>3. /\ D[0] = 1 .. m /\ D[c] = (1 .. m) \ S
      /\ \A j \in 0 .. c : D[j] \in SUBSET (1 .. m)
      /\ \A j \in 1 .. c : /\ at[j] \in 1 .. m /\ at[j] \notin D[j] /\ 1 .. at[j] - 1 \subseteq D[j]
                           /\ D[j - 1] = D[j] \cup {at[j]}
  <2>1. 0 \in 0 .. c /\ c \in 0 .. c /\ \A j \in 1 .. c : j \in 0 .. c /\ j - 1 \in 0 .. c
    BY <1>2
  <2>2. Back(m, S, 0) = 1 .. m /\ Back(m, S, c) = (1 .. m) \ S
    BY <1>0, BackIs
  <2>3. \A j \in 1 .. c : /\ at[j] \in S /\ at[j] \notin Back(m, S, j)
                          /\ 1 .. at[j] - 1 \subseteq Back(m, S, j)
                          /\ Back(m, S, j - 1) = Back(m, S, j) \cup {at[j]}
    BY <1>0, BackIs
  <2>4. \A j : Back(m, S, j) \in SUBSET (1 .. m)
    BY DEF Back
  <2>5. \A j \in 0 .. c : D[j] = Back(m, S, j)
    OBVIOUS
  <2> HIDE DEF D, c, at
  <2>6. D[0] = 1 .. m /\ D[c] = (1 .. m) \ S
    BY <2>1, <2>2, <2>5
  <2>7. \A j \in 0 .. c : D[j] \in SUBSET (1 .. m)
    BY <2>4, <2>5, Zenon
  <2>8. ASSUME NEW j \in 1 .. c
        PROVE  /\ at[j] \in 1 .. m /\ at[j] \notin D[j] /\ 1 .. at[j] - 1 \subseteq D[j]
               /\ D[j - 1] = D[j] \cup {at[j]}
    <3>1. D[j] = Back(m, S, j) /\ D[j - 1] = Back(m, S, j - 1)
      BY <2>1, <2>5, Zenon
    <3>2. /\ at[j] \in S /\ at[j] \notin Back(m, S, j)
          /\ 1 .. at[j] - 1 \subseteq Back(m, S, j)
          /\ Back(m, S, j - 1) = Back(m, S, j) \cup {at[j]}
      BY <2>3, Zenon
    <3>3. at[j] \in 1 .. m
      BY <3>2, Zenon
    <3>4. at[j] \notin D[j] /\ 1 .. at[j] - 1 \subseteq D[j]
      BY <3>1, <3>2, Zenon
    <3>5. D[j - 1] = D[j] \cup {at[j]}
      BY <3>1, <3>2, Zenon
    <3> QED
      BY <3>3, <3>4, <3>5, Zenon
  <2> QED
    BY <2>6, <2>7, <2>8, Zenon
<1>4. \A j \in 1 .. c : g[j].k = "delete" /\ g[j].i = at[j] /\ g[j].a.id = x[at[j]]
  OBVIOUS
<1>5. \A i, j \in 1 .. c : i # j => at[i] # at[j]
  <2> TAKE i, j \in 1 .. c
  <2>1. c + 1 - i \in 1 .. c /\ c + 1 - j \in 1 .. c /\ (i # j => c + 1 - i # c + 1 - j)
    BY <1>1, Mirror
  <2>2. S \subseteq Int
    BY <1>0
  <2>3. \A n \in 1 .. c : Rank(S, InOrder(S)[n]) = n
    BY <1>1, <2>2, InOrderIs
  <2> QED
    BY <2>1, <2>3
<1>6. \A j \in 0 .. c : h[j] = Part(x, D[j])
  OBVIOUS
<1> HIDE DEF D, at, c
<1>7. \A j \in 0 .. c : h[j] \in Seq(Nat) /\ Ascending(h[j])
  BY <1>3, <1>6, PartIs, PartIds
<1>8. y \in Seq(Nat) /\ Ascending(y) /\ IdSet(y) = {x[i] : i \in (1 .. m) \ S}
  <2>1. (1 .. m) \ S \in SUBSET (1 .. m)
    OBVIOUS
  <2> DEFINE T == (1 .. m) \ S
  <2> HIDE DEF T
  <2>2. Part(x, T) \in Seq(Nat) /\ Ascending(Part(x, T)) /\ IdSet(Part(x, T)) = {x[i] : i \in T}
    BY <2>1, PartIs, PartIds DEF T
  <2> QED
    BY <2>2 DEF T
<1>9. h[c] = y /\ h[0] = x
  <2>1. c \in 0 .. c /\ 0 \in 0 .. c
    BY <1>1
  <2>2. h[c] = Part(x, (1 .. m) \ S) /\ h[0] = Part(x, 1 .. m)
    BY <1>3, <1>6, <2>1
  <2> QED
    BY <2>2, PartAll
<1> HIDE DEF h, y
<1>10. ASSUME NEW j \in 1 .. c PROVE IdStep(h[j], g[j], h[j - 1])
  <2> DEFINE i == at[j]
             p == h[j]
  <2>1. j \in 0 .. c /\ j - 1 \in 0 .. c
    BY <1>1
  <2>2. i \in 1 .. m /\ i \notin D[j] /\ 1 .. i - 1 \subseteq D[j] /\ D[j - 1] = D[j] \cup {i}
        /\ D[j] \in SUBSET (1 .. m)
    BY <1>3, <2>1
  <2>3. p = Part(x, D[j]) /\ h[j - 1] = Part(x, D[j] \cup {i})
    BY <1>6, <2>1, <2>2
  <2> HIDE DEF i, p
  <2>4. i \in 1 .. Len(p) + 1 /\ h[j - 1] = Put(p, i, x[i])
    BY <2>2, <2>3, PartPut
  <2>5. g[j].k = "delete" /\ g[j].i = i /\ g[j].a.id = x[i]
    BY <1>4 DEF i
  <2>6. Place(g[j], Len(p)) = i /\ g[j].k \in Grows /\ g[j].k \notin Shrinks /\ g[j].k \notin Plain
    BY <2>5 DEF Place, Grows, Shrinks, Plain
  <2>7. IdStep(p, g[j], h[j - 1])
    BY <2>4, <2>5, <2>6 DEF IdStep, FitsIn
  <2> QED
    BY <2>7 DEF p
<1>11. GroupIds(g, y, x)
  <2>1. Len(g) = c
    BY DEF c
  <2>2. IdWalk(g, y, x, h)
    BY <1>7, <1>9, <1>10, <2>1 DEF IdWalk
  <2>3. h \in [0 .. c -> Seq(Nat)]
    BY <1>7 DEF h
  <2> QED
    BY <2>1, <2>2, <2>3 DEF GroupIds
<1>12. \A j \in 1 .. c : Owns(g[j]) = {x[at[j]]} /\ at[j] \in S
  BY <1>1, <1>4 DEF Owns, Grows
<1>13. ASSUME NEW i \in 1 .. m, NEW j \in 1 .. m, i # j PROVE x[i] # x[j]
  BY <1>13, AscendingApart
<1>14. GroupOnce(g)
  <2>1. ASSUME NEW i \in 1 .. c, NEW j \in 1 .. c, i # j PROVE Owns(g[i]) \cap Owns(g[j]) = {}
    <3>1. x[at[i]] # x[at[j]]
      BY <1>3, <1>5, <1>13, <2>1
    <3> QED
      BY <1>12, <3>1
  <2> QED
    BY <2>1 DEF GroupOnce, OwnsOnce, c
<1>15. \A e \in GroupOwned(g) : \E i \in S : e = x[i]
  <2>1. \A e \in GroupOwned(g) : \E j \in 1 .. c : e \in Owns(g[j])
    BY DEF GroupOwned, OwnsAt, c
  <2> QED
    BY <1>12, <2>1
<1>16. GroupOwned(g) \cap IdSet(y) = {}
  <2>1. \A i \in S : i \in 1 .. m
    OBVIOUS
  <2> QED
    BY <1>8, <1>13, <1>15, <2>1
<1>17. GroupOwned(g) \subseteq IdSet(x) /\ IdSet(y) \subseteq IdSet(x)
  BY <1>8, <1>15 DEF IdSet
<1>18. g # <<>>
  BY <1>2 DEF c
<1> QED
  BY <1>8, <1>11, <1>14, <1>16, <1>17, <1>18 DEF y

LEMMA ReverseIs ==
  ASSUME NEW X, NEW s \in Seq(X)
  PROVE  /\ Reverse(s) \in Seq(X) /\ Len(Reverse(s)) = Len(s)
         /\ \A j \in 1 .. Len(s) : Reverse(s)[j] = s[Len(s) + 1 - j]
<1> DEFINE n == Len(s)
           r == Reverse(s)
<1>1. n \in Nat /\ \A j \in 1 .. n : s[j] \in X
  OBVIOUS
<1>2. r = [j \in 1 .. n |-> s[(n - j) + 1]]
  BY DEF Reverse
<1>3. \A j \in 1 .. n : (n - j) + 1 = n + 1 - j /\ n + 1 - j \in 1 .. n
  BY <1>1
<1> HIDE DEF n, r
<1>4. \A j \in 1 .. n : r[j] = s[n + 1 - j] /\ r[j] \in X
  BY <1>1, <1>2, <1>3
<1>5. r \in [1 .. n -> X]
  BY <1>2, <1>4
<1>6. r \in Seq(X) /\ Len(r) = n
  BY <1>1, <1>5, IsSeq
<1> QED
  BY <1>4, <1>6 DEF n, r

LEMMA KeptIs ==
  ASSUME NEW d \in Docs
  PROVE  /\ Kept(d) \in Seq(AnnoSet)
         /\ Kept(d) = Part(d.annos, (1 .. Len(d.annos)) \ Selected(d))
         /\ IdsOf(Kept(d)) = Part(IdsOf(d.annos), (1 .. Len(d.annos)) \ Selected(d))
<1> DEFINE m == Len(d.annos)
           T == (1 .. m) \ Selected(d)
           t == Cardinality(T)
           x == IdsOf(d.annos)
           k == Kept(d)
<1>0. m \in Nat /\ DOMAIN d.annos = 1 .. m /\ T \in SUBSET (1 .. m)
  BY SelectedIs
<1>1. d.annos \in Seq(AnnoSet) /\ \A i \in 1 .. m : d.annos[i] \in AnnoSet
  BY DEF Docs
<1>2. x \in Seq(Nat) /\ Len(x) = m /\ \A i \in 1 .. m : x[i] = d.annos[i].id
  BY <1>1, IdsIs
<1> HIDE DEF m, T, x
<1>3. /\ t \in Nat /\ DOMAIN InOrder(T) = 1 .. t
      /\ \A n \in 1 .. t : InOrder(T)[n] \in 1 .. m
  BY <1>0, InOrderOf
<1>4. k = [n \in 1 .. t |-> d.annos[InOrder(T)[n]]]
  BY <1>0, <1>3 DEF Kept, T
<1>13. k = Part(d.annos, T)
  BY <1>4 DEF Part
<1> HIDE DEF t, k
<1>5. k \in [1 .. t -> AnnoSet] /\ \A n \in 1 .. t : k[n] = d.annos[InOrder(T)[n]]
  BY <1>1, <1>3, <1>4
<1>6. k \in Seq(AnnoSet) /\ Len(k) = t
  BY <1>3, <1>5, IsSeq
<1> DEFINE p == Part(x, T)
<1>7. p \in Seq(Nat) /\ Len(p) = t
  BY <1>0, <1>2, PartIs DEF t
<1>8. IdsOf(k) \in Seq(Nat) /\ Len(IdsOf(k)) = t /\ \A n \in 1 .. t : IdsOf(k)[n] = k[n].id
  BY <1>6, IdsIs
<1>9. \A n \in 1 .. t : p[n] = x[InOrder(T)[n]]
  BY DEF Part, t
<1> HIDE DEF p
<1>10. \A n \in 1 .. t : IdsOf(k)[n] = p[n]
  <2> TAKE n \in 1 .. t
  <2> DEFINE i == InOrder(T)[n]
  <2>1. i \in 1 .. m /\ k[n] = d.annos[i] /\ IdsOf(k)[n] = k[n].id /\ p[n] = x[i]
    BY <1>3, <1>5, <1>8, <1>9
  <2> HIDE DEF i
  <2>2. x[i] = d.annos[i].id
    BY <1>2, <2>1
  <2> QED
    BY <2>1, <2>2
<1> DEFINE q == IdsOf(k)
<1>11. q \in Seq(Nat) /\ Len(q) = Len(p) /\ \A n \in 1 .. Len(q) : q[n] = p[n]
  BY <1>7, <1>8, <1>10
<1> HIDE DEF q
<1>12. q = p
  BY <1>7, <1>11, SeqEqual
<1> QED
  BY <1>6, <1>12, <1>13 DEF q, p, x, T, m, k

\* What Delete records.
LEMMA GoneIs ==
  ASSUME NEW d \in Docs
  PROVE  LET S == Selected(d)
             g == Reverse(Gone(d)) IN
         /\ g \in Seq(Items) /\ Len(g) = Cardinality(S)
         /\ \A j \in 1 .. Len(g) :
              LET i == InOrder(S)[Cardinality(S) + 1 - j] IN
              i \in S /\ g[j] = [k |-> "delete", i |-> i, a |-> d.annos[i]]
<1> DEFINE m == Len(d.annos)
           S == Selected(d)
           c == Cardinality(S)
           f == Gone(d)
<1>0. m \in Nat /\ DOMAIN d.annos = 1 .. m /\ S \in SUBSET (1 .. m)
  BY SelectedIs
<1>1. \A i \in 1 .. m : d.annos[i] \in AnnoSet
  BY DEF Docs
<1> HIDE DEF m, S
<1>2. /\ c \in Nat /\ DOMAIN InOrder(S) = 1 .. c
      /\ \A n \in 1 .. c : InOrder(S)[n] \in 1 .. m /\ InOrder(S)[n] \in S
  BY <1>0, InOrderOf
<1>3. f = [n \in 1 .. c |-> [k |-> "delete", i |-> InOrder(S)[n], a |-> d.annos[InOrder(S)[n]]]]
  BY <1>2 DEF Gone, ForSelected, S
<1> HIDE DEF c, f
<1>4. \A n \in 1 .. c : f[n] = [k |-> "delete", i |-> InOrder(S)[n], a |-> d.annos[InOrder(S)[n]]]
  BY <1>3
<1>5. \A n \in 1 .. c : f[n] \in Items
  <2> TAKE n \in 1 .. c
  <2>1. InOrder(S)[n] \in Places /\ d.annos[InOrder(S)[n]] \in AnnoSet
    BY <1>0, <1>1, <1>2 DEF Places
  <2> DEFINE i == InOrder(S)[n]
             a == d.annos[InOrder(S)[n]]
  <2>2. f[n] = [k |-> "delete", i |-> i, a |-> a]
    BY <1>4
  <2> HIDE DEF i, a
  <2>3. i \in Places /\ a \in AnnoSet
    BY <2>1 DEF i, a
  <2> QED
    BY <2>2, <2>3 DEF Items
<1>6. f \in Seq(Items) /\ Len(f) = c
  <2>1. f \in [1 .. c -> Items]
    BY <1>3, <1>5
  <2> QED
    BY <1>2, <2>1, IsSeq
<1> DEFINE g == Reverse(f)
<1>7. g \in Seq(Items) /\ Len(g) = c /\ \A j \in 1 .. c : g[j] = f[c + 1 - j]
  BY <1>6, ReverseIs
<1> HIDE DEF g
<1>8. ASSUME NEW j \in 1 .. c, NEW i, i = InOrder(S)[c + 1 - j]
      PROVE  i \in S /\ g[j] = [k |-> "delete", i |-> i, a |-> d.annos[i]]
  <2>1. c + 1 - j \in 1 .. c
    BY <1>2, Mirror
  <2> QED
    BY <1>2, <1>4, <1>7, <1>8, <2>1
<1> QED
  BY <1>7, <1>8 DEF g, f, c, S

LEMMA DeleteOk ==
  ASSUME NEW d, DocOk(d), Selected(d) # {}
  PROVE  DocOk(Push([d EXCEPT !.annos = Kept(d), !.sel = 0], Reverse(Gone(d))))
<1> DEFINE x == IdsOf(d.annos)
           S == Selected(d)
           g == Reverse(Gone(d))
           c == [d EXCEPT !.annos = Kept(d), !.sel = 0]
           y == Part(x, (1 .. Len(x)) \ S)
<1>0. d \in Docs /\ d.undo \in Stacks /\ d.annos \in Seq(AnnoSet)
  BY DEF DocOk, Docs, Stacks
<1>1. x \in Seq(Nat) /\ Len(x) = Len(d.annos) /\ \A i \in 1 .. Len(d.annos) : x[i] = d.annos[i].id
  BY <1>0, IdsIs
<1>2. Ascending(x) /\ Held(d.undo) \cap IdSet(x) = {}
  <2> HIDE DEF x
  <2> QED
    BY <1>0, StackAscends DEF DocOk, Fitting, x
<1>3. S \in SUBSET (1 .. Len(x)) /\ S # {}
  BY <1>0, <1>1, SelectedIs
<1>4. /\ g \in Seq(Items) /\ Len(g) = Cardinality(S)
      /\ \A j \in 1 .. Len(g) :
           LET i == InOrder(S)[Cardinality(S) + 1 - j] IN
           i \in S /\ g[j] = [k |-> "delete", i |-> i, a |-> d.annos[i]]
  BY <1>0, GoneIs
<1>5. Kept(d) \in Seq(AnnoSet) /\ IdsOf(Kept(d)) = y
  <2> HIDE DEF S
  <2>1. Kept(d) \in Seq(AnnoSet) /\ IdsOf(Kept(d)) = Part(x, (1 .. Len(d.annos)) \ S)
    BY <1>0, KeptIs DEF S
  <2>2. Len(d.annos) = Len(x)
    BY <1>1
  <2> HIDE DEF x
  <2> QED
    BY <2>1, <2>2
<1> HIDE DEF g, x, S
<1>6. \A j \in 1 .. Len(g) :
        LET i == InOrder(S)[Cardinality(S) + 1 - j] IN
        g[j].k = "delete" /\ g[j].i = i /\ g[j].a.id = x[i]
  <2> TAKE j \in 1 .. Len(g)
  <2> DEFINE i == InOrder(S)[Cardinality(S) + 1 - j]
  <2>1. i \in S /\ g[j] = [k |-> "delete", i |-> i, a |-> d.annos[i]]
    BY <1>4
  <2> HIDE DEF i
  <2>2. x[i] = d.annos[i].id
    BY <1>1, <1>3, <2>1
  <2>3. g[j].k = "delete" /\ g[j].i = i /\ g[j].a.id = x[i]
    BY <2>1, <2>2
  <2> QED
    BY <2>3 DEF i
<1>7. /\ g # <<>> /\ y \in Seq(Nat) /\ Ascending(y) /\ GroupIds(g, y, x) /\ GroupOnce(g)
      /\ GroupOwned(g) \cap IdSet(y) = {}
      /\ GroupOwned(g) \subseteq IdSet(x) /\ IdSet(y) \subseteq IdSet(x)
  BY <1>1, <1>2, <1>3, <1>4, <1>6, DeleteGroup
<1> HIDE DEF y
<1>8. /\ c \in Docs /\ c.annos = Kept(d) /\ c.sel = 0 /\ c.undo = d.undo
  BY <1>0, <1>5 DEF Docs
<1>9. c.sel \in 0 .. Len(c.annos)
  <2>1. Len(c.annos) \in Nat
    BY <1>5, <1>8
  <2> QED
    BY <1>8, <2>1
<1>10. IdsOf(c.annos) = y
  BY <1>5, <1>8
<1>11. GroupOwned(g) \cap Held(d.undo) = {} /\ IdSet(y) \cap Held(d.undo) = {}
  BY <1>2, <1>7
<1> HIDE DEF c
<1>12. DocOk(Push(c, g))
  BY <1>4, <1>7, <1>8, <1>9, <1>10, <1>11, PushOk DEF x
<1> QED
  BY <1>12 DEF c, g

-----------------------------------------------------------------------------
(* The selector.                                                           *)

Drags == {"none", "region", "anno", "corner", "draw", "attr"}
Uis ==
  [dragging : BOOLEAN, drag : Drags, grab : Int, locked : BOOLEAN, editMode : BOOLEAN,
   panel : BOOLEAN, text : BOOLEAN, nudge : BOOLEAN, undoHeld : BOOLEAN, resizing : BOOLEAN,
   finished : {"no", "done", "cancelled"}]

IInv == DocOk(doc) /\ ui \in Uis

LEMMA UiIs ==
  ASSUME NEW u \in Uis
  PROVE  /\ u.grab \in Int /\ u.drag \in Drags
         /\ u.panel \in BOOLEAN /\ u.undoHeld \in BOOLEAN /\ u.locked \in BOOLEAN
BY DEF Uis

LEMMA UiSet ==
  ASSUME NEW u \in Uis
  PROVE  /\ \A b \in BOOLEAN : [u EXCEPT !.resizing = b] \in Uis
         /\ \A b \in BOOLEAN : [u EXCEPT !.text = b] \in Uis
         /\ \A b \in BOOLEAN : [u EXCEPT !.panel = b] \in Uis
         /\ \A b \in BOOLEAN : [u EXCEPT !.nudge = b] \in Uis
         /\ \A b \in BOOLEAN : [u EXCEPT !.undoHeld = b] \in Uis
         /\ \A b \in BOOLEAN : [u EXCEPT !.dragging = b] \in Uis
         /\ \A b \in BOOLEAN : [u EXCEPT !.locked = b] \in Uis
         /\ \A b \in BOOLEAN : [u EXCEPT !.editMode = b] \in Uis
         /\ \A z \in Int : [u EXCEPT !.grab = z] \in Uis
         /\ \A m \in Drags : [u EXCEPT !.drag = m] \in Uis
<1>1. \A b \in BOOLEAN : [u EXCEPT !.resizing = b] \in Uis
  BY DEF Uis
<1>2. \A b \in BOOLEAN : [u EXCEPT !.text = b] \in Uis
  BY DEF Uis
<1>3. \A b \in BOOLEAN : [u EXCEPT !.panel = b] \in Uis
  BY DEF Uis
<1>4. \A b \in BOOLEAN : [u EXCEPT !.nudge = b] \in Uis
  BY DEF Uis
<1>5. \A b \in BOOLEAN : [u EXCEPT !.undoHeld = b] \in Uis
  BY DEF Uis
<1>6. \A b \in BOOLEAN : [u EXCEPT !.dragging = b] \in Uis
  BY DEF Uis
<1>7. \A b \in BOOLEAN : [u EXCEPT !.locked = b] \in Uis
  BY DEF Uis
<1>8. \A b \in BOOLEAN : [u EXCEPT !.editMode = b] \in Uis
  BY DEF Uis
<1>9. \A z \in Int : [u EXCEPT !.grab = z] \in Uis
  BY DEF Uis
<1>10. \A m \in Drags : [u EXCEPT !.drag = m] \in Uis
  BY DEF Uis
<1> QED
  BY <1>1, <1>2, <1>3, <1>4, <1>5, <1>6, <1>7, <1>8, <1>9, <1>10, Zenon

\* Several flags at once.
LEMMA UiSets ==
  ASSUME NEW u \in Uis
  PROVE  /\ \A m \in Drags : \A z \in Int : [u EXCEPT !.drag = m, !.grab = z] \in Uis
         /\ \A a \in BOOLEAN : \A b \in BOOLEAN : [u EXCEPT !.dragging = a, !.locked = b] \in Uis
         /\ \A a \in BOOLEAN : \A b \in BOOLEAN : [u EXCEPT !.nudge = a, !.undoHeld = b] \in Uis
         /\ \A m \in Modes : SetMode(u, m) \in Uis
         /\ [u EXCEPT !.drag = "none", !.grab = 0, !.panel = FALSE, !.text = FALSE,
                      !.undoHeld = FALSE] \in Uis
<1>0. FALSE \in BOOLEAN /\ TRUE \in BOOLEAN /\ "none" \in Drags /\ 0 \in Int /\ u.panel \in BOOLEAN
  BY UiIs DEF Drags
<1>1. ASSUME NEW m \in Drags, NEW z \in Int PROVE [u EXCEPT !.drag = m, !.grab = z] \in Uis
  <2> DEFINE v == [u EXCEPT !.drag = m]
  <2>1. [u EXCEPT !.drag = m, !.grab = z] = [v EXCEPT !.grab = z]
    OBVIOUS
  <2>2. v \in Uis
    BY UiSet
  <2> HIDE DEF v
  <2>3. [v EXCEPT !.grab = z] \in Uis
    BY <2>2, UiSet
  <2> QED
    BY <2>1, <2>3
<1>2. ASSUME NEW a \in BOOLEAN, NEW b \in BOOLEAN
      PROVE  [u EXCEPT !.dragging = a, !.locked = b] \in Uis
  <2> DEFINE v == [u EXCEPT !.dragging = a]
  <2>1. [u EXCEPT !.dragging = a, !.locked = b] = [v EXCEPT !.locked = b]
    OBVIOUS
  <2>2. v \in Uis
    BY UiSet
  <2> HIDE DEF v
  <2>3. [v EXCEPT !.locked = b] \in Uis
    BY <2>2, UiSet
  <2> QED
    BY <2>1, <2>3
<1>3. ASSUME NEW a \in BOOLEAN, NEW b \in BOOLEAN
      PROVE  [u EXCEPT !.nudge = a, !.undoHeld = b] \in Uis
  <2> DEFINE v == [u EXCEPT !.nudge = a]
  <2>1. [u EXCEPT !.nudge = a, !.undoHeld = b] = [v EXCEPT !.undoHeld = b]
    OBVIOUS
  <2>2. v \in Uis
    BY UiSet
  <2> HIDE DEF v
  <2>3. [v EXCEPT !.undoHeld = b] \in Uis
    BY <2>2, UiSet
  <2> QED
    BY <2>1, <2>3
<1>4. ASSUME NEW m \in Modes PROVE SetMode(u, m) \in Uis
  <2> DEFINE a == (m # "region")
             b == (m = "edit")
             c == (u.panel /\ m = "draw")
             v == [u EXCEPT !.locked = a]
             w == [v EXCEPT !.editMode = b]
  <2>1. SetMode(u, m) = [w EXCEPT !.panel = c]
    BY DEF SetMode
  <2>2. a \in BOOLEAN /\ b \in BOOLEAN /\ c \in BOOLEAN
    BY <1>0
  <2> HIDE DEF a, b, c
  <2>3. v \in Uis
    BY <2>2, UiSet
  <2> HIDE DEF v
  <2>4. w \in Uis
    BY <2>2, <2>3, UiSet
  <2> HIDE DEF w
  <2>5. [w EXCEPT !.panel = c] \in Uis
    BY <2>2, <2>4, UiSet
  <2> QED
    BY <2>1, <2>5
<1>5. [u EXCEPT !.drag = "none", !.grab = 0, !.panel = FALSE, !.text = FALSE,
                !.undoHeld = FALSE] \in Uis
  <2> DEFINE v == [u EXCEPT !.drag = "none", !.grab = 0]
             w == [v EXCEPT !.panel = FALSE]
             y == [w EXCEPT !.text = FALSE]
             z == [y EXCEPT !.undoHeld = FALSE]
  <2>1. z = [u EXCEPT !.drag = "none", !.grab = 0, !.panel = FALSE, !.text = FALSE,
                      !.undoHeld = FALSE]
    OBVIOUS
  <2>2. v \in Uis
    BY <1>0, <1>1, Zenon
  <2> HIDE DEF v
  <2>3. w \in Uis
    BY <2>2, UiSet
  <2> HIDE DEF w
  <2>4. y \in Uis
    BY <2>3, UiSet
  <2> HIDE DEF y
  <2>5. z \in Uis
    BY <2>4, UiSet
  <2> QED
    BY <2>1, <2>5
<1> QED
  BY <1>1, <1>2, <1>3, <1>4, <1>5, Zenon

LEMMA PanelsIs ==
  ASSUME NEW u \in Uis
  PROVE  Panels(u) \subseteq Uis
BY UiSet DEF Panels

LEMMA WokenIs ==
  ASSUME ui \in Uis
  PROVE  Woken \in Uis /\ ToolbarUi \in Uis /\ Dropped \in Uis
<1>1. Woken \in Uis
  BY UiSet DEF Woken
<1>2. ToolbarUi \in Uis
  BY <1>1, UiSet DEF ToolbarUi
<1>3. Dropped \in Uis
  <2>1. \A m \in Drags : \A z \in Int : [Woken EXCEPT !.drag = m, !.grab = z] \in Uis
    BY <1>1, UiSets, Zenon
  <2>2. "none" \in Drags /\ 0 \in Int
    BY DEF Drags
  <2> QED
    BY <2>1, <2>2, Zenon DEF Dropped
<1> QED
  BY <1>1, <1>2, <1>3

LEMMA StartIs ==
  ASSUME NEW b \in BOOLEAN
  PROVE  StartUi(b) \in Uis
BY DEF StartUi, Uis, Drags

LEMMA FinishIs ==
  ASSUME NEW how \in {"done", "cancelled"}, Finish(how)
  PROVE  ui' \in Uis
<1>1. StartUi(TRUE) \in Uis
  BY StartIs
<1>2. \A u \in Uis : [u EXCEPT !.finished = how] \in Uis
  BY DEF Uis
<1> QED
  BY <1>1, <1>2 DEF Finish

LEMMA TextOk ==
  ASSUME DocOk(doc), NEW d \in TextDone(doc)
  PROVE  DocOk(d)
BY AddOk DEF TextDone

LEMMA RevertedOk ==
  ASSUME DocOk(doc), ui \in Uis
  PROVE  DocOk(Reverted)
<1>1. ui.grab \in Int
  BY UiIs
<1>2. CASE ui.drag = "anno" /\ doc.sel # 0
  <2>1. \A z \in Int : DocOk(Applied(doc, [k |-> "move", i |-> doc.sel, d |-> z]))
    BY <1>2, MoveOk, Zenon
  <2>2. Reverted = Applied(doc, [k |-> "move", i |-> doc.sel, d |-> ui.grab])
    BY <1>2 DEF Reverted
  <2> QED
    BY <1>1, <2>1, <2>2
<1>3. CASE ui.drag = "corner" /\ doc.sel # 0
  <2>1. \A z \in Int : DocOk(Applied(doc, [k |-> "geom", i |-> doc.sel, at |-> z]))
    BY <1>3, MoveOk, Zenon
  <2>2. Reverted = Applied(doc, [k |-> "geom", i |-> doc.sel, at |-> ui.grab])
    BY <1>3 DEF Reverted
  <2> QED
    BY <1>1, <2>1, <2>2
<1>4. CASE ~(ui.drag = "anno" /\ doc.sel # 0) /\ ~(ui.drag = "corner" /\ doc.sel # 0)
  BY <1>4 DEF Reverted
<1> QED
  BY <1>2, <1>3, <1>4

LEMMA AbortOk ==
  ASSUME DocOk(doc), ui \in Uis, NEW u \in Uis, Abort(u)
  PROVE  DocOk(doc') /\ ui' \in Uis
<1>1. DocOk(doc')
  BY RevertedOk, CommitOk DEF Abort
<1>2. ui' \in Uis
  BY UiSets, Zenon DEF Abort
<1> QED
  BY <1>1, <1>2

LEMMA InitOk == Init => IInv
<1> SUFFICES ASSUME Init PROVE IInv
  OBVIOUS
<1>1. StartRegion \in Regions
  BY BoundsAssumption DEF StartRegion, Regions
<1>2. doc = [annos |-> <<>>, region |-> StartRegion, sel |-> 0,
             undo |-> <<>>, redo |-> <<>>, snap |-> {}]
  BY DEF Init
<1>3. doc \in Docs /\ doc.sel \in 0 .. Len(doc.annos)
  <2>1. <<>> \in Seq(AnnoSet) /\ <<>> \in Seq(Seq(Items)) /\ Len(<<>>) = 0 /\ {} \in SUBSET Regions
    OBVIOUS
  <2> QED
    BY <1>1, <1>2, <2>1 DEF Docs
<1>4. IdsOf(doc.annos) \in Seq(Nat) /\ Len(IdsOf(doc.annos)) = 0
  <2>1. doc.annos \in Seq(AnnoSet) /\ Len(doc.annos) = 0
    BY <1>2
  <2> QED
    BY <2>1, IdsIs
<1>5. Ascending(IdsOf(doc.annos))
  BY <1>4 DEF Ascending
<1>6. StackIds(<<>>, IdsOf(doc.annos)) /\ StackOnce(<<>>) /\ Held(<<>>) = {}
  BY <1>4, <1>5, EmptyStack
<1>7. Fitting(IdsOf(doc.annos), <<>>, <<>>)
  BY <1>6 DEF Fitting
<1>8. DocOk(doc)
  BY <1>2, <1>3, <1>7 DEF DocOk
<1>9. ui \in Uis
  <2>1. PICK locked \in {Preset, TRUE} : ui = StartUi(locked)
    BY DEF Init
  <2>2. locked \in BOOLEAN
    BY <2>1, BoundsAssumption
  <2> QED
    BY <2>1, <2>2, StartIs
<1> QED
  BY <1>8, <1>9 DEF IInv

-----------------------------------------------------------------------------
(* Each event keeps it.                                                    *)

Safe == DocOk(doc') /\ ui' \in Uis

\* Pressing.
LEMMA PressKeeps ==
  ASSUME IInv,
         \/ PressColor \/ PressToolPicker \/ PressOffPanel
         \/ ToolbarMode \/ ToolbarColor \/ ToolbarAttr \/ ToolbarEnd
         \/ PressUnlocked \/ PressEndsText \/ PressRegion \/ PressCorner \/ PressAnno \/ PressToggle
         \/ PressNothing \/ PressDraw \/ PressText \/ PressCounter
  PROVE  Safe
<1> USE DEF Safe
<1>0. /\ DocOk(doc) /\ doc \in Docs /\ ui \in Uis /\ Woken \in Uis /\ ToolbarUi \in Uis
      /\ Dropped \in Uis
  BY WokenIs DEF IInv, DocOk
<1>1. CASE PressColor
  <2>1. PICK v \in Attrs : doc' = SetAttr(RecordAttr(doc), v)
    BY <1>1 DEF PressColor
  <2>2. DocOk(doc')
    BY <1>0, <2>1, AttrOk
  <2>3. ui' = [Woken EXCEPT !.drag = "attr"] /\ "attr" \in Drags
    BY <1>1 DEF PressColor, Drags
  <2> QED
    BY <1>0, <2>2, <2>3, UiSet
<1>2. CASE PressToolPicker
  <2>1. DocOk(doc')
    BY <1>0, <1>2, SelectOk DEF PressToolPicker
  <2>2. SetMode(Woken, "draw") \in Uis
    <3>1. \A m \in Modes : SetMode(Woken, m) \in Uis
      BY <1>0, UiSets, Zenon
    <3> QED
      BY <3>1 DEF Modes
  <2>3. ui' = [SetMode(Woken, "draw") EXCEPT !.panel = FALSE]
    BY <1>2 DEF PressToolPicker
  <2> QED
    BY <2>1, <2>2, <2>3, UiSet
<1>3. CASE PressOffPanel
  BY <1>0, <1>3, UiSet DEF PressOffPanel
<1>4. CASE ToolbarMode
  <2>1. PICK m \in Modes, d \in TextDone(doc) :
             /\ doc' = Deselected(d)
             /\ ui' \in IF m = "draw" THEN Panels(SetMode(ToolbarUi, m)) ELSE {SetMode(ToolbarUi, m)}
    BY <1>4 DEF ToolbarMode
  <2>2. DocOk(doc')
    BY <1>0, <2>1, TextOk, SelectOk
  <2>3. SetMode(ToolbarUi, m) \in Uis
    <3>1. \A n \in Modes : SetMode(ToolbarUi, n) \in Uis
      BY <1>0, UiSets, Zenon
    <3> QED
      BY <3>1
  <2> QED
    BY <2>1, <2>2, <2>3, PanelsIs
<1>5. CASE ToolbarColor
  BY <1>0, <1>5, TextOk, PanelsIs DEF ToolbarColor
<1>6. CASE ToolbarAttr
  <2>1. PICK v \in Attrs, d \in TextDone(doc) :
             /\ doc' = SetAttr(RecordAttr(d), v)
             /\ \/ ui' = [ToolbarUi EXCEPT !.panel = FALSE]
                \/ ui' \in Panels([ToolbarUi EXCEPT !.drag = "attr"])
    BY <1>6, Zenon DEF ToolbarAttr
  <2>2. DocOk(doc')
    BY <1>0, <2>1, TextOk, AttrOk
  <2>3. "attr" \in Drags
    BY DEF Drags
  <2>4. [ToolbarUi EXCEPT !.drag = "attr"] \in Uis /\ [ToolbarUi EXCEPT !.panel = FALSE] \in Uis
    BY <1>0, <2>3, UiSet
  <2> QED
    BY <2>1, <2>2, <2>4, PanelsIs, Zenon
<1>7. CASE ToolbarEnd
  <2>1. PICK d \in TextDone(doc) : doc' = Final(d)
    BY <1>7 DEF ToolbarEnd
  <2>2. \E how \in {"done", "cancelled"} : Finish(how)
    BY <1>7 DEF ToolbarEnd
  <2> QED
    BY <1>0, <2>1, <2>2, TextOk, FinalOk, FinishIs
<1>8. CASE PressUnlocked
  <2>1. PICK r \in Rects : doc' = [Begin(doc) EXCEPT !.region = [has |-> FALSE, r |-> r]]
    BY <1>8, Zenon DEF PressUnlocked
  <2>2. [has |-> FALSE, r |-> r] \in Regions
    BY DEF Regions
  <2>3. DocOk(Begin(doc))
    BY <1>0, BeginOk
  <2>4. \A reg \in Regions : DocOk([Begin(doc) EXCEPT !.region = reg])
    BY <2>3, RegionOk, Zenon
  <2>5. ui' = [Woken EXCEPT !.dragging = TRUE]
    BY <1>8 DEF PressUnlocked
  <2> QED
    BY <1>0, <2>1, <2>2, <2>4, <2>5, UiSet
<1>9. CASE PressEndsText
  BY <1>0, <1>9, TextOk, UiSet DEF PressEndsText
<1>10. CASE PressRegion
  <2>1. doc' = Begin(doc) /\ ui' = [Woken EXCEPT !.drag = "region"] /\ "region" \in Drags
    BY <1>10 DEF PressRegion, Drags
  <2> QED
    BY <1>0, <2>1, BeginOk, UiSet
<1>11. CASE PressCorner
  <2>1. /\ doc' = doc /\ doc.sel # 0
        /\ ui' = [Woken EXCEPT !.drag = "corner", !.grab = doc.annos[doc.sel].at]
    BY <1>11 DEF PressCorner
  <2>2. doc.sel \in 1 .. Len(doc.annos)
    BY <1>0, <2>1 DEF DocOk, Docs
  <2>3. doc.annos[doc.sel] \in AnnoSet
    BY <1>0, <2>2 DEF Docs
  <2>4. doc.annos[doc.sel].at \in Int /\ "corner" \in Drags
    <3> DEFINE a == doc.annos[doc.sel]
    <3> HIDE DEF a
    <3>1. a \in AnnoSet => a.at \in Int
      BY DEF AnnoSet
    <3> QED
      BY <2>3, <3>1 DEF a, Drags
  <2>5. \A m \in Drags : \A z \in Int : [Woken EXCEPT !.drag = m, !.grab = z] \in Uis
    BY <1>0, UiSets, Zenon
  <2> QED
    BY <1>0, <2>1, <2>4, <2>5, Zenon
<1>12. CASE PressAnno
  <2>1. DocOk(doc')
    BY <1>0, <1>12, SelectOk DEF PressAnno
  <2>2. ui' = [Woken EXCEPT !.drag = "anno", !.grab = 0]
    BY <1>12 DEF PressAnno
  <2>3. \A m \in Drags : \A z \in Int : [Woken EXCEPT !.drag = m, !.grab = z] \in Uis
    BY <1>0, UiSets, Zenon
  <2>4. "anno" \in Drags /\ 0 \in Int
    BY DEF Drags
  <2> QED
    BY <2>1, <2>2, <2>3, <2>4, Zenon
<1>13. CASE PressToggle
  BY <1>0, <1>13, SelectOk DEF PressToggle
<1>14. CASE PressNothing
  BY <1>0, <1>14, SelectOk DEF PressNothing
<1>15. CASE PressDraw
  <2>1. doc' = doc /\ ui' = [Woken EXCEPT !.drag = "draw"] /\ "draw" \in Drags
    BY <1>15 DEF PressDraw, Drags
  <2> QED
    BY <1>0, <2>1, UiSet
<1>16. CASE PressText
  BY <1>0, <1>16, UiSet DEF PressText
<1>17. CASE PressCounter
  BY <1>0, <1>17, AddOk DEF PressCounter
<1> QED
  BY <1>1, <1>2, <1>3, <1>4, <1>5, <1>6, <1>7, <1>8, <1>9, <1>10, <1>11, <1>12, <1>13, <1>14,
     <1>15, <1>16, <1>17, Zenon

LEMMA DragAnnosOk ==
  ASSUME DocOk(doc), ui \in Uis, DragAnnos
  PROVE  DocOk(doc') /\ ui' \in Uis
<1>1. PICK step \in {-1, 1} : doc' = Moved(doc, step) /\ ui' = [ui EXCEPT !.grab = ui.grab + step]
  BY DEF DragAnnos
<1>2. ui.grab + step \in Int /\ step \in Int
  BY UiIs
<1>3. DocOk(Moved(doc, step))
  BY <1>2, MoveOk, Zenon DEF Moved
<1> QED
  BY <1>1, <1>2, <1>3, UiSet

\* Moving and releasing.
LEMMA DragKeeps ==
  ASSUME IInv,
         \/ DragNewRegion \/ DragRegion \/ DragAnnos \/ DragCorner \/ DragAttr
         \/ ReleaseAttr \/ ReleaseRegion \/ ReleaseAnnos \/ ReleaseCorner \/ ReleaseDraw
         \/ ReleaseOnToolbar \/ ReleaseUnlocked \/ ReleaseElsewhere
  PROVE  Safe
<1> USE DEF Safe
<1>0. /\ DocOk(doc) /\ doc \in Docs /\ ui \in Uis /\ Woken \in Uis /\ Dropped \in Uis
      /\ ui.grab \in Int
  BY WokenIs, UiIs DEF IInv, DocOk
<1>1. CASE DragNewRegion
  <2>1. \A reg \in Regions : DocOk([doc EXCEPT !.region = reg])
    BY <1>0, RegionOk, Zenon
  <2>2. PICK reg \in Regions : doc' = [doc EXCEPT !.region = reg]
    BY <1>1, Zenon DEF DragNewRegion
  <2>3. DocOk(doc') /\ ui' = ui
    BY <1>1, <2>1, <2>2, Zenon DEF DragNewRegion
  <2> QED
    BY <1>0, <2>3
<1>2. CASE DragRegion
  <2>1. \A r \in Rects : DocOk([doc EXCEPT !.region.r = r])
    BY <1>0, RegionOk, Zenon
  <2>2. PICK r \in Rects : doc' = [doc EXCEPT !.region.r = r]
    BY <1>2, Zenon DEF DragRegion
  <2>3. DocOk(doc') /\ ui' = ui
    BY <1>2, <2>1, <2>2, Zenon DEF DragRegion
  <2> QED
    BY <1>0, <2>3
<1>3. CASE DragAnnos
  BY <1>0, <1>3, DragAnnosOk
<1>4. CASE DragCorner
  <2>1. PICK c \in Coords : doc' = [doc EXCEPT !.annos[doc.sel].at = c]
    BY <1>4, Zenon DEF DragCorner
  <2>2. c \in Int /\ doc.sel # 0 /\ ui' = ui
    BY <1>4, BoundsAssumption DEF DragCorner
  <2>3. \A z \in Int : DocOk([doc EXCEPT !.annos[doc.sel].at = z])
    BY <1>0, <2>2, MoveOk, Zenon
  <2>4. DocOk(doc')
    BY <2>1, <2>2, <2>3, Zenon
  <2> QED
    BY <1>0, <2>2, <2>4
<1>5. CASE DragAttr
  BY <1>0, <1>5, AttrOk DEF DragAttr
<1>6. CASE ReleaseAttr
  BY <1>0, <1>6 DEF ReleaseAttr
<1>7. CASE ReleaseRegion
  BY <1>0, <1>7, CommitOk DEF ReleaseRegion
<1>8. CASE ReleaseAnnos
  <2> DEFINE p == Push(doc, ForSelected(doc, LAMBDA i : [k |-> "move", i |-> i, d |-> ui.grab]))
  <2>3. DocOk(p)
    <3>1. \A z \in Int : DocOk(Push(doc, ForSelected(doc, LAMBDA i : [k |-> "move", i |-> i, d |-> z])))
      BY <1>0, MoveOk, Zenon
    <3> QED
      BY <1>0, <3>1, Zenon
  <2>2. doc' = (IF ui.grab = 0 THEN doc ELSE p) /\ ui' = Dropped
    BY <1>8, Zenon DEF ReleaseAnnos
  <2> HIDE DEF p
  <2> QED
    BY <1>0, <2>2, <2>3
<1>9. CASE ReleaseCorner
  <2> DEFINE p == Push(doc, <<[k |-> "geom", i |-> doc.sel, at |-> ui.grab]>>)
  <2>1. /\ doc' = (IF doc.sel = 0 \/ doc.annos[doc.sel].at = ui.grab THEN doc ELSE p)
        /\ ui' = Dropped
    BY <1>9 DEF ReleaseCorner
  <2>2. doc.sel # 0 => DocOk(p)
    <3> SUFFICES ASSUME doc.sel # 0 PROVE DocOk(p)
      OBVIOUS
    <3>1. \A z \in Int : DocOk(Push(doc, <<[k |-> "geom", i |-> doc.sel, at |-> z]>>))
      BY <1>0, MoveOk, Zenon
    <3> QED
      BY <1>0, <3>1, Zenon
  <2> HIDE DEF p
  <2> QED
    BY <1>0, <2>1, <2>2
<1>10. CASE ReleaseDraw
  BY <1>0, <1>10, AddOk DEF ReleaseDraw
<1>11. CASE ReleaseOnToolbar
  <2>1. PICK over \in BOOLEAN : ui' = [Woken EXCEPT !.undoHeld = Woken.undoHeld /\ ~over]
    BY <1>11 DEF ReleaseOnToolbar
  <2>2. (Woken.undoHeld /\ ~over) \in BOOLEAN
    OBVIOUS
  <2>3. doc' = doc
    BY <1>11 DEF ReleaseOnToolbar
  <2> QED
    BY <1>0, <2>1, <2>2, <2>3, UiSet
<1>12. CASE ReleaseUnlocked
  <2>1. PICK reg \in {doc.region, [doc.region EXCEPT !.has = FALSE]} \cup [has : {TRUE}, r : Rects] :
             /\ doc' = Commit([doc EXCEPT !.region = reg])
             /\ ui' = [Woken EXCEPT !.dragging = FALSE, !.locked = reg.has]
    BY <1>12, Zenon DEF ReleaseUnlocked
  <2>2. reg \in Regions
    <3>1. doc.region \in Regions
      BY <1>0 DEF Docs
    <3> QED
      BY <3>1 DEF Regions
  <2>3. reg.has \in BOOLEAN
    BY <2>2 DEF Regions
  <2>4. DocOk([doc EXCEPT !.region = reg])
    BY <1>0, <2>2, RegionOk, Zenon
  <2>5. DocOk(doc')
    BY <2>1, <2>4, CommitOk
  <2>6. \A a \in BOOLEAN : \A b \in BOOLEAN : [Woken EXCEPT !.dragging = a, !.locked = b] \in Uis
    BY <1>0, UiSets, Zenon
  <2> QED
    BY <2>1, <2>3, <2>5, <2>6, Zenon
<1>13. CASE ReleaseElsewhere
  BY <1>0, <1>13 DEF ReleaseElsewhere
<1> QED
  BY <1>1, <1>2, <1>3, <1>4, <1>5, <1>6, <1>7, <1>8, <1>9, <1>10, <1>11, <1>12, <1>13, Zenon

\* The wheel, keys and timers.
LEMMA KeyKeeps ==
  ASSUME IInv,
         \/ Scroll \/ TextKey \/ Confirm \/ SelectAll \/ NudgeKey \/ Delete \/ KeyMode
         \/ ReleaseUndoKey \/ ReleaseNudgeKey \/ KeyboardLeave \/ NudgeTick
  PROVE  Safe
<1> USE DEF Safe
<1>0. /\ DocOk(doc) /\ doc \in Docs /\ ui \in Uis /\ Woken \in Uis /\ doc.region \in Regions
  BY WokenIs DEF IInv, DocOk, Docs
<1>n. ASSUME NEW d, DocOk(d), doc' \in Nudged(d) PROVE DocOk(doc')
  <2>1. PICK r \in Rects : doc' = [d EXCEPT !.region.r = r]
    BY <1>n, Zenon DEF Nudged
  <2>2. \A q \in Rects : DocOk([d EXCEPT !.region.r = q])
    BY <1>n, RegionOk, Zenon
  <2> QED
    BY <2>1, <2>2, Zenon
<1>1. CASE Scroll
  <2>1. PICK v \in Attrs : doc' = SetAttr(IF ui.resizing THEN doc ELSE RecordAttr(doc), v)
    BY <1>1, Zenon DEF Scroll
  <2>2. DocOk(IF ui.resizing THEN doc ELSE RecordAttr(doc))
    BY <1>0, AttrOk
  <2>3. DocOk(doc')
    BY <2>1, <2>2, AttrOk
  <2>4. ui' = [ui EXCEPT !.resizing = TRUE]
    BY <1>1 DEF Scroll
  <2> QED
    BY <1>0, <2>3, <2>4, UiSet
<1>2. CASE TextKey
  <2>1. doc' \in TextDone(doc) /\ \E open \in BOOLEAN : ui' = [Woken EXCEPT !.text = open]
    BY <1>2 DEF TextKey
  <2> QED
    BY <1>0, <2>1, TextOk, UiSet
<1>3. CASE Confirm
  <2>1. PICK reg \in IF doc.region.has THEN {doc.region} ELSE [has : {TRUE}, r : Rects] :
             doc' = Final([doc EXCEPT !.region = reg])
    BY <1>3, Zenon DEF Confirm
  <2>2. reg \in Regions
    BY <1>0, <2>1 DEF Regions
  <2>3. DocOk([doc EXCEPT !.region = reg])
    BY <1>0, <2>2, RegionOk, Zenon
  <2>4. Finish("done")
    BY <1>3 DEF Confirm
  <2>5. DocOk(doc')
    BY <2>1, <2>3, FinalOk, Zenon
  <2> QED
    BY <2>4, <2>5, FinishIs
<1>4. CASE SelectAll
  <2>1. PICK r \in Rects : doc' = Commit([Begin(doc) EXCEPT !.region = [has |-> TRUE, r |-> r]])
    BY <1>4, Zenon DEF SelectAll
  <2>2. [has |-> TRUE, r |-> r] \in Regions
    BY DEF Regions
  <2>3. DocOk(Begin(doc))
    BY <1>0, BeginOk
  <2>4. \A reg \in Regions : DocOk([Begin(doc) EXCEPT !.region = reg])
    BY <2>3, RegionOk, Zenon
  <2>5. DocOk([Begin(doc) EXCEPT !.region = [has |-> TRUE, r |-> r]])
    BY <2>2, <2>4, Zenon
  <2>6. DocOk(doc')
    BY <2>1, <2>5, CommitOk, Zenon
  <2>7. ui' = [Woken EXCEPT !.dragging = FALSE, !.locked = TRUE]
    BY <1>4 DEF SelectAll
  <2>8. \A a \in BOOLEAN : \A b \in BOOLEAN : [Woken EXCEPT !.dragging = a, !.locked = b] \in Uis
    BY <1>0, UiSets, Zenon
  <2> QED
    BY <2>6, <2>7, <2>8, Zenon
<1>5. CASE NudgeKey
  <2>1. doc' \in Nudged(IF ui.nudge THEN doc ELSE Begin(doc)) /\ ui' = [Woken EXCEPT !.nudge = TRUE]
    BY <1>5 DEF NudgeKey
  <2>2. DocOk(IF ui.nudge THEN doc ELSE Begin(doc))
    BY <1>0, BeginOk
  <2>3. DocOk(doc')
    BY <1>n, <2>1, <2>2
  <2> QED
    BY <1>0, <2>1, <2>3, UiSet
<1>6. CASE Delete
  <2>1. /\ Selected(doc) # {} /\ ui' = Woken
        /\ doc' = Push([doc EXCEPT !.annos = Kept(doc), !.sel = 0], Reverse(Gone(doc)))
    BY <1>6 DEF Delete
  <2> QED
    BY <1>0, <2>1, DeleteOk, Zenon
<1>7. CASE KeyMode
  <2>1. PICK m \in Modes : doc' = Deselected(doc) /\ ui' = SetMode(Woken, m)
    BY <1>7 DEF KeyMode
  <2>2. \A n \in Modes : SetMode(Woken, n) \in Uis
    BY <1>0, UiSets, Zenon
  <2> QED
    BY <1>0, <2>1, <2>2, SelectOk
<1>8. CASE ReleaseUndoKey
  <2>1. PICK known \in BOOLEAN : ui' = [ui EXCEPT !.undoHeld = ui.undoHeld /\ ~known]
    BY <1>8 DEF ReleaseUndoKey
  <2>2. (ui.undoHeld /\ ~known) \in BOOLEAN /\ doc' = doc
    BY <1>8 DEF ReleaseUndoKey
  <2> QED
    BY <1>0, <2>1, <2>2, UiSet
<1>9. CASE ReleaseNudgeKey
  <2>1. CASE doc' = Commit(doc) /\ ui' = [ui EXCEPT !.nudge = FALSE]
    BY <1>0, <2>1, CommitOk, UiSet
  <2>2. CASE UNCHANGED <<doc, ui>>
    BY <1>0, <2>2
  <2> QED
    BY <1>9, <2>1, <2>2 DEF ReleaseNudgeKey
<1>10. CASE KeyboardLeave
  <2>1. doc' = Commit(doc) /\ ui' = [ui EXCEPT !.nudge = FALSE, !.undoHeld = FALSE]
    BY <1>10 DEF KeyboardLeave
  <2>2. \A a \in BOOLEAN : \A b \in BOOLEAN : [ui EXCEPT !.nudge = a, !.undoHeld = b] \in Uis
    BY <1>0, UiSets, Zenon
  <2> QED
    BY <1>0, <2>1, <2>2, CommitOk, Zenon
<1>11. CASE NudgeTick
  <2>1. CASE ui.locked /\ ~Abortable
    <3>1. doc' \in Nudged(doc) /\ ui' = ui
      BY <1>11, <2>1 DEF NudgeTick
    <3> QED
      BY <1>0, <1>n, <3>1
  <2>2. CASE ~(ui.locked /\ ~Abortable)
    <3>1. doc' = Commit(doc) /\ ui' = [ui EXCEPT !.nudge = FALSE]
      BY <1>11, <2>2 DEF NudgeTick
    <3> QED
      BY <1>0, <3>1, CommitOk, UiSet
  <2> QED
    BY <2>1, <2>2
<1> QED
  BY <1>1, <1>2, <1>3, <1>4, <1>5, <1>6, <1>7, <1>8, <1>9, <1>10, <1>11, Zenon

\* Aborting, undoing and redoing.
LEMMA HistoryKeeps ==
  ASSUME IInv, Aborts \/ History
  PROVE  Safe
<1> USE DEF Safe
<1>0. /\ DocOk(doc) /\ ui \in Uis /\ Woken \in Uis /\ ToolbarUi \in Uis
  BY WokenIs DEF IInv
<1>1. CASE Cancel
  <2>1. CASE Abort(Woken)
    BY <1>0, <2>1, AbortOk
  <2>2. CASE Finish("cancelled") /\ doc' = Final(doc)
    BY <1>0, <2>2, FinishIs, FinalOk
  <2> QED
    BY <1>1, <2>1, <2>2 DEF Cancel
<1>2. CASE TouchCancel
  BY <1>0, <1>2, AbortOk DEF TouchCancel
<1>3. CASE ToolbarUndo
  <2>1. PICK d \in TextDone(doc) : doc' = UndoPop(d)
    BY <1>3 DEF ToolbarUndo
  <2>2. ui' = [ToolbarUi EXCEPT !.undoHeld = TRUE]
    BY <1>3 DEF ToolbarUndo
  <2> QED
    BY <1>0, <2>1, <2>2, TextOk, UndoPopOk, UiSet
<1>4. CASE ToolbarRedo
  BY <1>0, <1>4, TextOk, RedoPopOk DEF ToolbarRedo
<1>5. CASE KeyRedo
  BY <1>0, <1>5, RedoPopOk DEF KeyRedo
<1>6. CASE KeyUndo
  BY <1>0, <1>6, UndoPopOk, UiSet DEF KeyUndo
<1>7. CASE UndoTick
  BY <1>0, <1>7, UndoPopOk DEF UndoTick
<1> QED
  BY <1>1, <1>2, <1>3, <1>4, <1>5, <1>6, <1>7 DEF Aborts, History

LEMMA NextKeeps == IInv /\ [Next]_vars => IInv'
<1> SUFFICES ASSUME IInv, [Next]_vars PROVE IInv'
  OBVIOUS
<1>1. CASE Edits
  BY <1>1, PressKeeps, DragKeeps, KeyKeeps DEF Edits, Safe, IInv
<1>2. CASE Aborts \/ History
  BY <1>2, HistoryKeeps DEF Safe, IInv
<1>3. CASE UNCHANGED vars
  BY <1>3 DEF vars, IInv, DocOk, Fitting
<1> QED
  BY <1>1, <1>2, <1>3 DEF Next

\* HistoryIsSound, whatever the bounds: the pixels of an annotation have one owner
\* (undo_item_free_owned frees each once), the list stays in the order of drawing,
\* and redo takes back any number of undos exactly, and undo any number of redos.
THEOREM HistoryTheorem == Spec => []HistoryIsSound
<1>1. Spec => []IInv
  BY InitOk, NextKeeps, PTL DEF Spec
<1>2. IInv => HistoryIsSound
  BY SoundHistory DEF IInv
<1> QED
  BY <1>1, <1>2, PTL

-----------------------------------------------------------------------------
(* What is seen of a document: the annotations and the region.             *)

Bare(a)  == [a EXCEPT !.sel = FALSE]
Bared(s) == [i \in 1 .. Len(s) |-> Bare(s[i])]
Picture(s, r) ==
  [annos |-> Bared(s), region |-> r, sel |-> 0, undo |-> <<>>, redo |-> <<>>, snap |-> {}]
Sight(d) == Picture(d.annos, d.region)

LEMMA BareIs ==
  ASSUME NEW a \in AnnoSet
  PROVE  /\ Bare(a) \in AnnoSet /\ Bare(a).id = a.id /\ Bare(a).at = a.at /\ Bare(a).attr = a.attr
         /\ Bare(Bare(a)) = Bare(a)
BY DEF Bare, AnnoSet

LEMMA BareSame ==
  ASSUME NEW a \in AnnoSet, NEW b \in AnnoSet
  PROVE  Bare(a) = Bare(b) <=> a.id = b.id /\ a.at = b.at /\ a.attr = b.attr
BY DEF Bare, AnnoSet

LEMMA BaredIs ==
  ASSUME NEW s \in Seq(AnnoSet)
  PROVE  /\ Bared(s) \in Seq(AnnoSet) /\ Len(Bared(s)) = Len(s)
         /\ \A i \in 1 .. Len(s) : s[i] \in AnnoSet /\ Bared(s)[i] = Bare(s[i])
         /\ IdsOf(Bared(s)) = IdsOf(s) /\ Bared(Bared(s)) = Bared(s)
<1> DEFINE b == Bared(s)
<1>1. \A i \in 1 .. Len(s) : s[i] \in AnnoSet /\ Bare(s[i]) \in AnnoSet
  BY BareIs
<1>2. b = [i \in 1 .. Len(s) |-> Bare(s[i])]
  BY DEF Bared
<1>3. b \in [1 .. Len(s) -> AnnoSet] /\ \A i \in 1 .. Len(s) : b[i] = Bare(s[i])
  BY <1>1, <1>2
<1> HIDE DEF b
<1>4. Len(s) \in Nat
  OBVIOUS
<1>5. b \in Seq(AnnoSet) /\ Len(b) = Len(s)
  BY <1>3, <1>4, IsSeq, Zenon
<1>6. \A i \in 1 .. Len(s) : b[i].id = s[i].id /\ Bare(b[i]) = b[i]
  <2> TAKE i \in 1 .. Len(s)
  <2>1. b[i] = Bare(s[i]) /\ s[i] \in AnnoSet
    BY <1>1, <1>3, Zenon
  <2> QED
    BY <2>1, BareIs
<1>7. IdsOf(b) = IdsOf(s)
  BY <1>5, <1>6 DEF IdsOf
<1>8. Bared(b) = b
  BY <1>3, <1>5, <1>6 DEF Bared
<1> QED
  BY <1>1, <1>3, <1>5, <1>7, <1>8 DEF b

LEMMA BaredSame ==
  ASSUME NEW s \in Seq(AnnoSet), NEW t \in Seq(AnnoSet)
  PROVE  Bared(s) = Bared(t) <=> Len(s) = Len(t) /\ \A i \in 1 .. Len(s) : Bare(s[i]) = Bare(t[i])
<1>1. ASSUME Bared(s) = Bared(t)
      PROVE  Len(s) = Len(t) /\ \A i \in 1 .. Len(s) : Bare(s[i]) = Bare(t[i])
  <2>1. Len(s) = Len(t)
    BY <1>1, BaredIs, Zenon
  <2>2. \A i \in 1 .. Len(s) : Bared(s)[i] = Bare(s[i]) /\ Bared(t)[i] = Bare(t[i])
    BY <2>1, BaredIs, Zenon
  <2> QED
    BY <1>1, <2>1, <2>2, Zenon
<1>2. ASSUME Len(s) = Len(t), \A i \in 1 .. Len(s) : Bare(s[i]) = Bare(t[i])
      PROVE  Bared(s) = Bared(t)
  BY <1>2 DEF Bared
<1> QED
  BY <1>1, <1>2

LEMMA PictureIs ==
  ASSUME NEW s \in Seq(AnnoSet), NEW r \in Regions
  PROVE  LET p == Picture(s, r) IN
         /\ p \in Docs /\ p.annos = Bared(s) /\ p.region = r /\ p.sel = 0 /\ p.snap = {}
         /\ p.sel \in 0 .. Len(p.annos) /\ Len(p.annos) = Len(s) /\ IdsOf(p.annos) = IdsOf(s)
         /\ Sight(p) = p
<1>1. Bared(s) \in Seq(AnnoSet) /\ Len(Bared(s)) = Len(s) /\ IdsOf(Bared(s)) = IdsOf(s)
      /\ Bared(Bared(s)) = Bared(s)
  BY BaredIs
<1> DEFINE b == Bared(s)
<1>2. Len(s) \in Nat
  OBVIOUS
<1> HIDE DEF b
<1> DEFINE p == [annos |-> b, region |-> r, sel |-> 0, undo |-> <<>>, redo |-> <<>>, snap |-> {}]
<1>3. <<>> \in Seq(Seq(Items)) /\ {} \in SUBSET Regions /\ 0 \in Nat
  OBVIOUS
<1>4. p \in Docs
  BY <1>1, <1>3 DEF Docs, b
<1>5. p = Picture(s, r)
  BY DEF Picture, b
<1>6. Sight(p) = p
  BY <1>1 DEF Sight, Picture, b
<1>7. p.annos = b /\ p.region = r /\ p.sel = 0 /\ p.snap = {}
  OBVIOUS
<1> HIDE DEF p
<1>8. p.sel \in 0 .. Len(p.annos) /\ Len(p.annos) = Len(s) /\ IdsOf(p.annos) = IdsOf(s)
  BY <1>1, <1>2, <1>7 DEF b
<1>9. p.annos = Bared(s)
  BY <1>7 DEF b
<1> QED
  BY <1>4, <1>5, <1>6, <1>7, <1>8, <1>9, Zenon

LEMMA SightIs ==
  ASSUME NEW d \in Docs
  PROVE  LET p == Sight(d) IN
         /\ p \in Docs /\ p.annos = Bared(d.annos) /\ p.region = d.region /\ p.sel = 0 /\ p.snap = {}
         /\ p.sel \in 0 .. Len(p.annos) /\ Len(p.annos) = Len(d.annos)
         /\ IdsOf(p.annos) = IdsOf(d.annos)
         /\ Sight(p) = p
<1>1. d.annos \in Seq(AnnoSet) /\ d.region \in Regions
  BY DEF Docs
<1> QED
  BY <1>1, PictureIs DEF Sight

LEMMA PictureSame ==
  ASSUME NEW s \in Seq(AnnoSet), NEW t \in Seq(AnnoSet), NEW q, NEW r
  PROVE  Picture(s, q) = Picture(t, r) <=> Bared(s) = Bared(t) /\ q = r
BY Zenon DEF Picture

-----------------------------------------------------------------------------
(* An item is seen alike from documents that look alike.                   *)

LEMMA BaredPut ==
  ASSUME NEW s \in Seq(AnnoSet), NEW t \in Seq(AnnoSet), Bared(s) = Bared(t),
         NEW a \in AnnoSet, NEW b \in AnnoSet, Bare(a) = Bare(b), NEW p \in 1 .. Len(s) + 1
  PROVE  Bared(Put(s, p, a)) = Bared(Put(t, p, b))
<1>1. Len(s) = Len(t) /\ \A i \in 1 .. Len(s) : Bare(s[i]) = Bare(t[i])
  BY BaredSame
<1> DEFINE u == Put(s, p, a)
           v == Put(t, p, b)
<1>2. u \in Seq(AnnoSet) /\ v \in Seq(AnnoSet) /\ Len(u) = Len(s) + 1 /\ Len(v) = Len(s) + 1
  BY <1>1, PutIsSeq
<1>3. ASSUME NEW i \in 1 .. Len(s) + 1 PROVE Bare(u[i]) = Bare(v[i])
  <2>1. u[i] = (IF i < p THEN s[i] ELSE IF i = p THEN a ELSE s[i - 1])
        /\ v[i] = (IF i < p THEN t[i] ELSE IF i = p THEN b ELSE t[i - 1])
    BY <1>1 DEF Put
  <2> HIDE DEF u, v
  <2>2. CASE i < p
    <3>1. i \in 1 .. Len(s)
      BY <2>2
    <3> QED
      BY <1>1, <2>1, <2>2, <3>1
  <2>3. CASE i = p
    BY <2>1, <2>3
  <2>4. CASE i > p
    <3>1. i - 1 \in 1 .. Len(s) /\ ~(i < p) /\ i # p
      BY <2>4
    <3> QED
      BY <1>1, <2>1, <3>1
  <2> QED
    BY <2>2, <2>3, <2>4
<1> HIDE DEF u, v
<1>4. Bared(u) = Bared(v)
  BY <1>2, <1>3, BaredSame
<1> QED
  BY <1>4 DEF u, v

LEMMA BaredCut ==
  ASSUME NEW s \in Seq(AnnoSet), NEW t \in Seq(AnnoSet), Bared(s) = Bared(t), NEW p \in 1 .. Len(s)
  PROVE  Bared(Cut(s, p)) = Bared(Cut(t, p))
<1>1. Len(s) = Len(t) /\ \A i \in 1 .. Len(s) : Bare(s[i]) = Bare(t[i])
  BY BaredSame
<1> DEFINE u == Cut(s, p)
           v == Cut(t, p)
<1>2. u \in Seq(AnnoSet) /\ v \in Seq(AnnoSet) /\ Len(u) = Len(s) - 1 /\ Len(v) = Len(s) - 1
  BY <1>1, CutIsSeq
<1>3. ASSUME NEW i \in 1 .. Len(s) - 1 PROVE Bare(u[i]) = Bare(v[i])
  <2>1. u[i] = (IF i < p THEN s[i] ELSE s[i + 1]) /\ v[i] = (IF i < p THEN t[i] ELSE t[i + 1])
    BY <1>1 DEF Cut
  <2>2. i \in 1 .. Len(s) /\ i + 1 \in 1 .. Len(s)
    OBVIOUS
  <2> HIDE DEF u, v
  <2> QED
    BY <1>1, <2>1, <2>2
<1> HIDE DEF u, v
<1>4. Bared(u) = Bared(v)
  BY <1>2, <1>3, BaredSame
<1> QED
  BY <1>4 DEF u, v

\* What an item about one annotation does to it.
Edits1 == {"move", "geom", "attr"}
Edited(a, it) ==
  CASE it.k = "move" -> [a EXCEPT !.at = @ - it.d]
    [] it.k = "geom" -> [a EXCEPT !.at = it.at]
    [] OTHER         -> [a EXCEPT !.attr = it.v]

LEMMA EditedIs ==
  ASSUME NEW a \in AnnoSet, NEW it \in Items, it.k \in Edits1
  PROVE  /\ Edited(a, it) \in AnnoSet /\ Edited(a, it).sel = a.sel
         /\ \A b \in AnnoSet : Bare(a) = Bare(b) => Bare(Edited(a, it)) = Bare(Edited(b, it))
<1>1. CASE it.k = "move"
  <2>1. it.d \in Int
    BY <1>1, ItemShapes
  <2>2. \A b : Edited(b, it) = [b EXCEPT !.at = @ - it.d]
    BY <1>1 DEF Edited
  <2>3. ASSUME NEW b \in AnnoSet
        PROVE  /\ Edited(b, it) \in AnnoSet /\ Edited(b, it).id = b.id /\ Edited(b, it).sel = b.sel
               /\ Edited(b, it).at = b.at - it.d /\ Edited(b, it).attr = b.attr
    BY <2>1, <2>2 DEF AnnoSet
  <2> QED
    BY <2>3, BareSame
<1>2. CASE it.k = "geom"
  <2>1. it.at \in Int
    BY <1>2, ItemShapes
  <2>2. \A b : Edited(b, it) = [b EXCEPT !.at = it.at]
    BY <1>2 DEF Edited
  <2>3. ASSUME NEW b \in AnnoSet
        PROVE  /\ Edited(b, it) \in AnnoSet /\ Edited(b, it).id = b.id /\ Edited(b, it).sel = b.sel
               /\ Edited(b, it).at = it.at /\ Edited(b, it).attr = b.attr
    BY <2>1, <2>2 DEF AnnoSet
  <2> QED
    BY <2>3, BareSame
<1>3. CASE it.k = "attr"
  <2>1. it.v \in Attrs
    BY <1>3, ItemShapes
  <2>2. \A b : Edited(b, it) = [b EXCEPT !.attr = it.v]
    BY <1>3 DEF Edited
  <2>3. ASSUME NEW b \in AnnoSet
        PROVE  /\ Edited(b, it) \in AnnoSet /\ Edited(b, it).id = b.id /\ Edited(b, it).sel = b.sel
               /\ Edited(b, it).at = b.at /\ Edited(b, it).attr = it.v
    BY <2>1, <2>2 DEF AnnoSet
  <2> QED
    BY <2>3, BareSame
<1> QED
  BY <1>1, <1>2, <1>3 DEF Edits1

LEMMA EditsIs ==
  ASSUME NEW d \in Docs, NEW it \in Items, it.k \in Edits1, FitsIn(it, Len(d.annos))
  PROVE  /\ it.i \in 1 .. Len(d.annos) /\ Len(ItemAnnos(d, it)) = Len(d.annos)
         /\ \A j \in 1 .. Len(d.annos) :
              ItemAnnos(d, it)[j] = IF j = it.i THEN Edited(d.annos[j], it) ELSE d.annos[j]
<1> DEFINE s == d.annos
<1>0. s \in Seq(AnnoSet) /\ DOMAIN s = 1 .. Len(s)
  BY DEF Docs
<1>1. it.i \in 1 .. Len(s) /\ Len(ItemAnnos(d, it)) = Len(s)
  BY PlainIs DEF Edits1, Plain
<1>2. Fits(d, it)
  BY <1>0, <1>1 DEF Fits
<1>3. CASE it.k = "move"
  <2>1. ItemAnnos(d, it) = [s EXCEPT ![it.i].at = @ - it.d]
    BY <1>2, <1>3 DEF ItemAnnos
  <2> QED
    BY <1>0, <1>1, <1>3, <2>1 DEF Edited
<1>4. CASE it.k = "geom"
  <2>1. ItemAnnos(d, it) = [s EXCEPT ![it.i].at = it.at]
    BY <1>2, <1>4 DEF ItemAnnos
  <2> QED
    BY <1>0, <1>1, <1>4, <2>1 DEF Edited
<1>5. CASE it.k = "attr"
  <2>1. ItemAnnos(d, it) = [s EXCEPT ![it.i].attr = it.v]
    BY <1>2, <1>5 DEF ItemAnnos
  <2> QED
    BY <1>0, <1>1, <1>5, <2>1 DEF Edited
<1> QED
  BY <1>3, <1>4, <1>5 DEF Edits1

\* an annotation that undo takes out of the list is as it was when it was drawn
AsDrawn(v)  == v.k = "readd" => v.a.at = 0 /\ v.a.attr = 0
AllDrawn(g) == \A n \in DOMAIN g : AsDrawn(g[n])

LEMMA SightItem ==
  ASSUME NEW d \in Docs, NEW e \in Docs, Sight(d) = Sight(e), NEW it \in Items,
         FitsIn(it, Len(d.annos))
  PROVE  /\ Sight(Applied(d, it)) = Sight(Applied(e, it))
         /\ AsDrawn(Inverted(d, it)) => AsDrawn(Inverted(e, it))
<1> DEFINE s == d.annos
           t == e.annos
<1>1. s \in Seq(AnnoSet) /\ t \in Seq(AnnoSet)
  BY DEF Docs
<1>2. Bared(s) = Bared(t) /\ d.region = e.region
  BY <1>1, PictureSame DEF Sight
<1>3. Len(s) = Len(t) /\ \A i \in 1 .. Len(s) : Bare(s[i]) = Bare(t[i])
  BY <1>1, <1>2, BaredSame
<1>4. FitsIn(it, Len(t))
  BY <1>3
<1>5. /\ Bared(ItemAnnos(d, it)) = Bared(ItemAnnos(e, it))
      /\ AsDrawn(Inverted(d, it)) => AsDrawn(Inverted(e, it))
  <2>1. CASE it.k \in Grows
    <3> DEFINE p == Place(it, Len(s))
    <3>1. /\ p \in 1 .. Len(s) + 1 /\ it.a \in AnnoSet
          /\ ItemAnnos(d, it) = Put(s, p, it.a)
      BY <2>1, GrownIs
    <3>2. /\ ItemAnnos(e, it) = Put(t, p, it.a) /\ Inverted(e, it).k \in Shrinks
      BY <1>3, <1>4, <2>1, GrownIs
    <3> HIDE DEF p, s, t
    <3>3. Bared(Put(s, p, it.a)) = Bared(Put(t, p, it.a))
      BY <1>1, <1>2, <3>1, BaredPut
    <3>4. AsDrawn(Inverted(e, it))
      BY <3>2 DEF Shrinks, AsDrawn
    <3> QED
      BY <3>1, <3>2, <3>3, <3>4
  <2>2. CASE it.k \in Shrinks
    <3> DEFINE p == Place(it, Len(s))
    <3>1. /\ p \in 1 .. Len(s) /\ ItemAnnos(d, it) = Cut(s, p) /\ Inverted(d, it).a = s[p]
      BY <2>2, ShrunkIs
    <3>2. /\ ItemAnnos(e, it) = Cut(t, p) /\ Inverted(e, it).a = t[p]
      BY <1>3, <1>4, <2>2, ShrunkIs
    <3>3. Inverted(e, it).k = "readd" => Inverted(d, it).k = "readd"
      <4>1. CASE it.k = "redelete"
        BY <4>1 DEF Inverted
      <4>2. CASE it.k = "add"
        <5>1. s # <<>>
          BY <1>1, <3>1
        <5> QED
          BY <4>2, <5>1 DEF Inverted
      <4> QED
        BY <2>2, <4>1, <4>2 DEF Shrinks
    <3> HIDE DEF p, s, t
    <3>4. Bared(Cut(s, p)) = Bared(Cut(t, p))
      BY <1>1, <1>2, <3>1, BaredCut
    <3>5. s[p].at = t[p].at /\ s[p].attr = t[p].attr
      <4>1. s[p] \in AnnoSet /\ t[p] \in AnnoSet /\ Bare(s[p]) = Bare(t[p])
        BY <1>1, <1>3, <3>1
      <4> QED
        BY <4>1, BareSame
    <3> QED
      BY <3>1, <3>2, <3>3, <3>4, <3>5 DEF AsDrawn
  <2>3. CASE it.k = "region"
    <3>1. ItemAnnos(d, it) = s /\ ItemAnnos(e, it) = t
      BY <2>3 DEF ItemAnnos
    <3>2. Inverted(e, it).k = "region"
      BY <1>4, <2>3, PlainIs DEF Plain
    <3> QED
      BY <1>2, <3>1, <3>2 DEF AsDrawn
  <2>4. CASE it.k \in Edits1
    <3> DEFINE u == ItemAnnos(d, it)
               v == ItemAnnos(e, it)
    <3>1. /\ it.i \in 1 .. Len(s) /\ Len(u) = Len(s)
          /\ \A j \in 1 .. Len(s) : u[j] = IF j = it.i THEN Edited(s[j], it) ELSE s[j]
      BY <2>4, EditsIs
    <3>2. /\ Len(v) = Len(s)
          /\ \A j \in 1 .. Len(s) : v[j] = IF j = it.i THEN Edited(t[j], it) ELSE t[j]
      BY <1>3, <1>4, <2>4, EditsIs
    <3>3. u \in Seq(AnnoSet) /\ v \in Seq(AnnoSet) /\ Inverted(e, it).k = it.k
      BY <1>4, <2>4, PlainIs DEF Plain, Edits1
    <3> HIDE DEF u, v, s, t
    <3>4. ASSUME NEW j \in 1 .. Len(s) PROVE Bare(u[j]) = Bare(v[j])
      <4>1. s[j] \in AnnoSet /\ t[j] \in AnnoSet /\ Bare(s[j]) = Bare(t[j])
        BY <1>1, <1>3
      <4>2. Bare(Edited(s[j], it)) = Bare(Edited(t[j], it))
        BY <2>4, <4>1, EditedIs
      <4> QED
        BY <3>1, <3>2, <4>1, <4>2
    <3>5. Bared(u) = Bared(v)
      BY <3>1, <3>2, <3>3, <3>4, BaredSame
    <3> QED
      BY <2>4, <3>3, <3>5 DEF AsDrawn, Edits1, u, v
  <2> QED
    BY <2>1, <2>2, <2>3, <2>4, ItemShapes DEF Grows, Shrinks, Edits1
<1>6. Applied(d, it).region = Applied(e, it).region
  BY <1>2, AppliedIs
<1>7. Applied(d, it).annos = ItemAnnos(d, it) /\ Applied(e, it).annos = ItemAnnos(e, it)
  BY AppliedIs
<1>8. Sight(Applied(d, it)) = Sight(Applied(e, it))
  BY <1>5, <1>6, <1>7, Zenon DEF Sight, Picture
<1> QED
  BY <1>5, <1>8

-----------------------------------------------------------------------------
(* What applying a group shows.                                            *)

PicWalk(g, p, q, k) ==
  /\ k[Len(g)] = p /\ k[0] = q
  /\ \A j \in 1 .. Len(g) : k[j - 1] = Sight(Applied(k[j], g[j])) /\ AsDrawn(Inverted(k[j], g[j]))
\* the group takes the picture p to q
Shows(g, p, q) == \E k \in [0 .. Len(g) -> Docs] : PicWalk(g, p, q, k)

Down(n, i) == n - i

LEMMA ApplySteps ==
  ASSUME NEW d \in Docs, NEW g \in Seq(Items), d.sel \in 0 .. Len(d.annos), NEW y,
         GroupIds(g, IdsOf(d.annos), y)
  PROVE  \E w \in [0 .. Len(g) -> Docs] :
           /\ w[0] = d /\ ApplyGroup(d, g).doc = w[Len(g)] /\ Len(ApplyGroup(d, g).inv) = Len(g)
           /\ \A i \in 0 .. Len(g) - 1 :
                LET it == g[Down(Len(g), i)] IN
                /\ Down(Len(g), i) \in 1 .. Len(g) /\ it \in Items
                /\ FitsIn(it, Len(w[i].annos)) /\ w[i + 1] = Applied(w[i], it)
                /\ ApplyGroup(d, g).inv[i + 1] = Inverted(w[i], it)
<1> DEFINE n == Len(g)
<1>0. n \in Nat
  OBVIOUS
<1>1. PICK h \in [0 .. n -> Seq(Nat)] : IdWalk(g, IdsOf(d.annos), y, h)
  BY DEF GroupIds
<1>2. PICK u : Applying(d, g, u) /\ ApplyGroup(d, g) = u[n]
  BY ApplyWalk
<1>3. \A k \in 0 .. n :
           /\ u[k].doc \in Docs /\ IdsOf(u[k].doc.annos) = h[n - k] /\ Len(u[k].inv) = k
           /\ \A j \in 1 .. k : u[k].inv[j] = Inverted(u[j - 1].doc, g[n + 1 - j])
  BY <1>1, <1>2, ApplyAlong
<1> DEFINE w == [i \in 0 .. n |-> u[i].doc]
<1>4. w \in [0 .. n -> Docs] /\ w[0] = d /\ ApplyGroup(d, g).doc = w[n]
      /\ Len(ApplyGroup(d, g).inv) = n
  <2>1. 0 \in 0 .. n /\ n \in 0 .. n
    BY <1>0
  <2>2. u[0].doc = d
    BY <1>2 DEF Applying
  <2> HIDE DEF n
  <2> QED
    BY <1>2, <1>3, <2>1, <2>2
<1>5. ASSUME NEW i \in 0 .. n - 1
      PROVE  LET it == g[Down(n, i)] IN
             /\ Down(n, i) \in 1 .. n /\ it \in Items
             /\ FitsIn(it, Len(w[i].annos)) /\ w[i + 1] = Applied(w[i], it)
             /\ ApplyGroup(d, g).inv[i + 1] = Inverted(w[i], it)
  <2> DEFINE m == n - i
             it == g[m]
  <2>1. m \in 1 .. n /\ it \in Items /\ i \in 0 .. n /\ i + 1 \in 0 .. n /\ i + 1 \in 1 .. n
        /\ n + 1 - (i + 1) = m /\ i + 1 - 1 = i /\ n \in 0 .. n
    BY <1>0
  <2>2. IdStep(h[m], g[m], h[m - 1])
    BY <1>1, <2>1 DEF IdWalk
  <2>3. w[i] = u[i].doc /\ w[i + 1] = u[i + 1].doc /\ u[i].doc \in Docs
        /\ IdsOf(u[i].doc.annos) = h[m]
    BY <1>3, <2>1
  <2> HIDE DEF w
  <2>4. FitsIn(it, Len(h[m]))
    BY <2>2 DEF IdStep
  <2>5. Len(h[m]) = Len(w[i].annos)
    <3>1. w[i].annos \in Seq(AnnoSet)
      BY <2>3 DEF Docs
    <3>2. Len(IdsOf(w[i].annos)) = Len(w[i].annos)
      BY <3>1, IdsIs
    <3> QED
      BY <2>3, <3>2
  <2>6. u[i + 1] = Stage(u[i], g[n + 1 - (i + 1)])
    BY <1>2, <2>1 DEF Applying
  <2>7. w[i + 1] = Applied(w[i], it)
    BY <2>1, <2>3, <2>6 DEF Stage
  <2>8. u[n].inv[i + 1] = Inverted(u[i].doc, it)
    <3>1. u[n].inv[i + 1] = Inverted(u[i + 1 - 1].doc, g[n + 1 - (i + 1)])
      <4>1. \A j \in 1 .. n : u[n].inv[j] = Inverted(u[j - 1].doc, g[n + 1 - j])
        BY <1>3, <2>1, Zenon
      <4>2. PICK j : j = i + 1
        OBVIOUS
      <4>3. u[n].inv[j] = Inverted(u[j - 1].doc, g[n + 1 - j])
        <5>1. j \in 1 .. n
          BY <2>1, <4>2
        <5> QED
          BY <4>1, <5>1, Zenon
      <4> QED
        BY <4>2, <4>3
    <3> QED
      BY <2>1, <3>1
  <2> HIDE DEF it
  <2>9. FitsIn(it, Len(w[i].annos)) /\ ApplyGroup(d, g).inv[i + 1] = Inverted(w[i], it)
    BY <1>2, <2>3, <2>4, <2>5, <2>8
  <2>10. Down(n, i) = m
    BY DEF Down
  <2> HIDE DEF m
  <2> QED
    BY <2>1, <2>7, <2>9, <2>10 DEF it
<1> HIDE DEF w, n
<1> QED
  BY <1>4, <1>5 DEF n

LEMMA ShowsForth ==
  ASSUME NEW d \in Docs, NEW g \in Seq(Items), d.sel \in 0 .. Len(d.annos), NEW y,
         GroupIds(g, IdsOf(d.annos), y), NEW q, Shows(g, Sight(d), q)
  PROVE  Sight(ApplyGroup(d, g).doc) = q /\ AllDrawn(ApplyGroup(d, g).inv)
<1> DEFINE n == Len(g)
           a == ApplyGroup(d, g)
<1>0. n \in Nat /\ a.inv \in Seq(Items)
  <2>1. ApplyGroup(d, g).inv \in Seq(Items)
    BY GroupForth, Zenon
  <2> QED
    BY <2>1
<1>1. PICK w \in [0 .. n -> Docs] :
           /\ w[0] = d /\ a.doc = w[n] /\ Len(a.inv) = n
           /\ \A i \in 0 .. n - 1 :
                LET it == g[Down(n, i)] IN
                /\ Down(n, i) \in 1 .. n /\ it \in Items
                /\ FitsIn(it, Len(w[i].annos)) /\ w[i + 1] = Applied(w[i], it)
                /\ a.inv[i + 1] = Inverted(w[i], it)
  BY ApplySteps
<1>2. PICK k \in [0 .. n -> Docs] : PicWalk(g, Sight(d), q, k)
  BY DEF Shows
<1> DEFINE S == {i \in 0 .. n : Sight(w[i]) = Sight(k[n - i])}
<1>3. 0 \in S
  <2>1. k[n] = Sight(d) /\ 0 \in 0 .. n /\ n - 0 = n
    BY <1>0, <1>2 DEF PicWalk
  <2>2. Sight(Sight(d)) = Sight(d)
    BY SightIs
  <2> QED
    BY <1>1, <2>1, <2>2
<1>4. ASSUME NEW i \in 0 .. n - 1, i \in S
      PROVE  i + 1 \in S /\ AsDrawn(a.inv[i + 1])
  <2> DEFINE it == g[Down(n, i)]
             v == w[i]
             c == k[n - i]
  <2>1. /\ Down(n, i) \in 1 .. n /\ it \in Items
        /\ FitsIn(it, Len(v.annos)) /\ w[i + 1] = Applied(v, it)
        /\ a.inv[i + 1] = Inverted(v, it)
    BY <1>1
  <2>2. Down(n, i) = n - i /\ n - (i + 1) = n - i - 1 /\ i \in 0 .. n /\ i + 1 \in 0 .. n
        /\ n - i \in 0 .. n
    BY <1>0 DEF Down
  <2>3. v \in Docs /\ c \in Docs /\ Sight(v) = Sight(c)
    BY <1>4, <2>2
  <2>4. k[n - (i + 1)] = Sight(Applied(c, it)) /\ AsDrawn(Inverted(c, it))
    BY <1>2, <2>1, <2>2 DEF PicWalk
  <2> HIDE DEF it, v, c
  <2>5. Len(v.annos) = Len(c.annos)
    <3>1. Len(Sight(v).annos) = Len(v.annos) /\ Len(Sight(c).annos) = Len(c.annos)
      BY <2>3, SightIs
    <3> QED
      BY <2>3, <3>1
  <2>6. Sight(Applied(c, it)) = Sight(Applied(v, it)) /\ AsDrawn(Inverted(v, it))
    BY <2>1, <2>3, <2>4, <2>5, SightItem
  <2>7. Sight(Sight(Applied(c, it))) = Sight(Applied(c, it))
    <3>1. Applied(c, it) \in Docs
      BY <2>1, <2>3, ItemTotal
    <3> QED
      BY <3>1, SightIs
  <2> QED
    BY <2>1, <2>2, <2>4, <2>6, <2>7
<1>5. 0 .. n \subseteq S
  <2>1. \A i \in 0 .. n - 1 : i \in S => i + 1 \in S
    BY <1>4
  <2> HIDE DEF S, n
  <2> QED
    BY <1>0, <1>3, <2>1, Steps
<1>6. Sight(a.doc) = q
  <2>1. n \in S /\ n - n = 0 /\ k[0] = q /\ n \in 0 .. n
    <3>1. n - n = 0 /\ n \in 0 .. n
      BY <1>0
    <3>2. k[0] = q
      BY <1>2, Zenon DEF PicWalk
    <3>3. n \in S
      <4> HIDE DEF S, n
      <4> QED
        BY <1>5, <3>1
    <3> QED
      BY <3>1, <3>2, <3>3, Zenon
  <2>2. Sight(w[n]) = Sight(q)
    BY <2>1
  <2>3. \E c \in Docs : q = Sight(c)
    <3>1. CASE n = 0
      BY <1>2, <3>1 DEF PicWalk
    <3>2. CASE n # 0
      <4>1. 1 \in 1 .. n /\ 1 - 1 = 0 /\ 1 \in 0 .. n
        BY <1>0, <3>2
      <4>2. k[0] = Sight(Applied(k[1], g[1])) /\ k[1] \in Docs /\ g[1] \in Items
        BY <1>2, <4>1 DEF PicWalk
      <4>3. Applied(k[1], g[1]) \in Docs
        BY <4>2, ItemTotal
      <4> QED
        BY <2>1, <4>2, <4>3
    <3> QED
      BY <3>1, <3>2
  <2>4. Sight(q) = q
    BY <2>3, SightIs
  <2> QED
    BY <1>1, <2>2, <2>4
<1>7. AllDrawn(a.inv)
  <2>1. DOMAIN a.inv = 1 .. n
    BY <1>0, <1>1
  <2>2. \A j \in 1 .. n : AsDrawn(a.inv[j])
    <3> TAKE j \in 1 .. n
    <3>1. j - 1 \in 0 .. n - 1 /\ j - 1 + 1 = j /\ j - 1 \in 0 .. n
      BY <1>0
    <3>2. j - 1 \in S
      BY <1>5, <3>1
    <3>3. AsDrawn(a.inv[j - 1 + 1])
      BY <1>4, <3>1, <3>2
    <3> QED
      BY <3>1, <3>3
  <2> HIDE DEF a, n
  <2> QED
    BY <2>1, <2>2, Zenon DEF AllDrawn
<1> QED
  BY <1>6, <1>7

LEMMA ShowsOf ==
  ASSUME NEW d \in Docs, NEW g \in Seq(Items), d.sel \in 0 .. Len(d.annos), NEW y,
         GroupIds(g, IdsOf(d.annos), y), AllDrawn(ApplyGroup(d, g).inv)
  PROVE  Shows(g, Sight(d), Sight(ApplyGroup(d, g).doc))
<1> DEFINE n == Len(g)
           a == ApplyGroup(d, g)
<1>0. n \in Nat /\ a.inv \in Seq(Items)
  <2>1. ApplyGroup(d, g).inv \in Seq(Items)
    BY GroupForth, Zenon
  <2> QED
    BY <2>1
<1>1. PICK w \in [0 .. n -> Docs] :
           /\ w[0] = d /\ a.doc = w[n] /\ Len(a.inv) = n
           /\ \A i \in 0 .. n - 1 :
                LET it == g[Down(n, i)] IN
                /\ Down(n, i) \in 1 .. n /\ it \in Items
                /\ FitsIn(it, Len(w[i].annos)) /\ w[i + 1] = Applied(w[i], it)
                /\ a.inv[i + 1] = Inverted(w[i], it)
  BY ApplySteps
<1> DEFINE k == [j \in 0 .. n |-> Sight(w[n - j])]
<1>2. k \in [0 .. n -> Docs] /\ \A j \in 0 .. n : n - j \in 0 .. n /\ k[j] = Sight(w[n - j])
  <2>1. \A j \in 0 .. n : n - j \in 0 .. n
    BY <1>0
  <2>2. \A j \in 0 .. n : Sight(w[n - j]) \in Docs
    BY <2>1, SightIs
  <2> QED
    BY <2>1, <2>2
<1> HIDE DEF k
<1>3. k[n] = Sight(d) /\ k[0] = Sight(a.doc)
  <2>1. n \in 0 .. n /\ 0 \in 0 .. n /\ n - n = 0 /\ n - 0 = n
    BY <1>0
  <2> QED
    BY <1>1, <1>2, <2>1
<1>4. ASSUME NEW j \in 1 .. n
      PROVE  k[j - 1] = Sight(Applied(k[j], g[j])) /\ AsDrawn(Inverted(k[j], g[j]))
  <2>1. PICK i : i = n - j
    OBVIOUS
  <2>2. i \in 0 .. n - 1 /\ i \in 0 .. n /\ j \in 0 .. n /\ j - 1 \in 0 .. n /\ n - (j - 1) = i + 1
        /\ Down(n, i) = j /\ i + 1 \in 1 .. n
    BY <1>0, <2>1 DEF Down
  <2> DEFINE it == g[j]
             v == w[i]
             c == Sight(w[i])
  <2>3. /\ it \in Items /\ FitsIn(it, Len(v.annos)) /\ w[i + 1] = Applied(v, it)
        /\ a.inv[i + 1] = Inverted(v, it)
    BY <1>1, <2>2
  <2>4. k[j] = c /\ k[j - 1] = Sight(w[i + 1])
    BY <1>2, <2>1, <2>2
  <2>5. v \in Docs /\ c \in Docs /\ Sight(c) = Sight(v)
    BY <2>2, SightIs
  <2>6. AsDrawn(a.inv[i + 1])
    <3>1. DOMAIN a.inv = 1 .. n
      BY <1>0, <1>1
    <3> HIDE DEF n
    <3> QED
      BY <2>2, <3>1 DEF AllDrawn
  <2> HIDE DEF it, v, c
  <2>7. Sight(Applied(v, it)) = Sight(Applied(c, it)) /\ AsDrawn(Inverted(c, it))
    BY <2>3, <2>5, <2>6, SightItem
  <2> QED
    BY <2>3, <2>4, <2>7 DEF it
<1>5. PicWalk(g, Sight(d), Sight(a.doc), k)
  BY <1>3, <1>4 DEF PicWalk
<1> QED
  BY <1>2, <1>5 DEF Shows

-----------------------------------------------------------------------------
(* The pictures the undos pass through, back to the start.                 *)

Opening == Picture(<<>>, StartRegion)
Tale(s, p, h) ==
  /\ h[Len(s)] = p /\ h[0] = Opening
  /\ \A j \in 1 .. Len(s) : Shows(s[j], h[j], h[j - 1])
Told(s, p) == \E h \in [0 .. Len(s) -> Docs] : Tale(s, p, h)

LEMMA ToldEmpty ==
  ASSUME NEW p
  PROVE  Told(<<>>, p) => p = Opening
<1>1. Len(<<>>) = 0
  OBVIOUS
<1> QED
  BY <1>1 DEF Told, Tale

LEMMA OpeningTold == Told(<<>>, Opening)
<1>1. Len(<<>>) = 0 /\ 1 .. 0 = {} /\ 0 \in 0 .. 0
  OBVIOUS
<1>2. Opening \in Docs
  <2>1. <<>> \in Seq(AnnoSet) /\ StartRegion \in Regions
    BY BoundsAssumption DEF StartRegion, Regions
  <2> QED
    BY <2>1, PictureIs DEF Opening
<1> DEFINE h == [j \in 0 .. 0 |-> Opening]
<1>3. h \in [0 .. 0 -> Docs] /\ h[0] = Opening
  BY <1>1, <1>2
<1> HIDE DEF h
<1>4. Tale(<<>>, Opening, h)
  BY <1>1, <1>3 DEF Tale
<1> QED
  BY <1>1, <1>3, <1>4 DEF Told

LEMMA ToldFront ==
  ASSUME NEW s \in Stacks, NEW p, Told(s, p), s # <<>>
  PROVE  \E q \in Docs : Shows(Last(s), p, q) /\ Told(Front(s), q)
<1> DEFINE n == Len(s)
<1>1. PICK h \in [0 .. n -> Docs] : Tale(s, p, h)
  BY DEF Told
<1>2. /\ n \in 1 .. n /\ n \in Nat /\ Last(s) = s[n]
      /\ Front(s) \in Stacks /\ Len(Front(s)) = n - 1
      /\ \A j \in 1 .. n - 1 : Front(s)[j] = s[j]
  <2> DEFINE X == Seq(Items)
  <2>1. s \in Seq(X) /\ s # <<>>
    BY DEF Stacks
  <2> HIDE DEF X
  <2>2. /\ Len(s) \in 1 .. Len(s) /\ Last(s) = s[Len(s)]
        /\ Front(s) \in Seq(X) /\ Len(Front(s)) = Len(s) - 1
        /\ \A j \in 1 .. Len(s) - 1 : Front(s)[j] = s[j]
    BY <2>1, FrontIsCut, Zenon
  <2> QED
    BY <2>1, <2>2 DEF Stacks, X
<1> DEFINE f == Front(s)
           m == n - 1
           g == [j \in 0 .. m |-> h[j]]
<1>3. m \in 0 .. n /\ m \in Nat /\ 1 .. m \subseteq 1 .. n /\ 0 .. m \subseteq 0 .. n
      /\ \A j \in 1 .. m : j \in 0 .. m /\ j - 1 \in 0 .. m
  BY <1>2
<1>4. h[n] = p /\ h[0] = Opening /\ \A j \in 1 .. n : Shows(s[j], h[j], h[j - 1])
  BY <1>1 DEF Tale
<1>5. g \in [0 .. m -> Docs] /\ \A j \in 0 .. m : g[j] = h[j]
  BY <1>3
<1> HIDE DEF g, f, n
<1>6. Tale(f, h[m], g)
  <2>1. Len(f) = m
    BY <1>2 DEF f
  <2>2. g[m] = h[m] /\ g[0] = Opening
    BY <1>3, <1>4, <1>5
  <2>3. ASSUME NEW j \in 1 .. m PROVE Shows(f[j], g[j], g[j - 1])
    <3>1. f[j] = s[j] /\ g[j] = h[j] /\ g[j - 1] = h[j - 1] /\ j \in 1 .. n
      BY <1>2, <1>3, <1>5 DEF f
    <3> QED
      BY <1>4, <3>1
  <2> QED
    BY <2>1, <2>2, <2>3 DEF Tale
<1>7. Told(f, h[m])
  <2>1. Len(f) = m
    BY <1>2 DEF f
  <2> QED
    BY <1>5, <1>6, <2>1 DEF Told
<1>8. Shows(Last(s), p, h[m])
  BY <1>2, <1>4
<1> QED
  BY <1>3, <1>7, <1>8 DEF f

LEMMA ToldAppend ==
  ASSUME NEW s \in Stacks, NEW q, Told(s, q), NEW g \in Seq(Items), NEW p \in Docs, Shows(g, p, q)
  PROVE  Told(Append(s, g), p)
<1> DEFINE n == Len(s)
           t == Append(s, g)
<1>1. PICK h \in [0 .. n -> Docs] : Tale(s, q, h)
  BY DEF Told
<1>2. /\ n \in Nat /\ Len(t) = n + 1 /\ t[n + 1] = g /\ \A j \in 1 .. n : t[j] = s[j]
  BY DEF Stacks
<1> DEFINE k == [j \in 0 .. n + 1 |-> IF j = n + 1 THEN p ELSE h[j]]
<1>3. h[n] = q /\ h[0] = Opening /\ \A j \in 1 .. n : Shows(s[j], h[j], h[j - 1])
  BY <1>1 DEF Tale
<1>4. k \in [0 .. n + 1 -> Docs] /\ k[n + 1] = p /\ \A j \in 0 .. n : k[j] = h[j]
  <2>1. \A j \in 0 .. n + 1 : j # n + 1 => j \in 0 .. n
    BY <1>2
  <2>2. \A j \in 0 .. n : j \in 0 .. n + 1 /\ j # n + 1
    BY <1>2
  <2> QED
    BY <1>2, <2>1, <2>2
<1> HIDE DEF k, t, n
<1>5. ASSUME NEW j \in 1 .. n + 1 PROVE Shows(t[j], k[j], k[j - 1])
  <2>1. CASE j = n + 1
    <3>1. j - 1 = n /\ n \in 0 .. n
      BY <1>2, <2>1
    <3> QED
      BY <1>2, <1>3, <1>4, <2>1, <3>1
  <2>2. CASE j \in 1 .. n
    <3>1. j \in 0 .. n /\ j - 1 \in 0 .. n
      BY <1>2, <2>2
    <3> QED
      BY <1>2, <1>3, <1>4, <2>2, <3>1
  <2> QED
    BY <1>2, <2>1, <2>2
<1>6. k[0] = Opening
  BY <1>2, <1>3, <1>4
<1>7. Tale(t, p, k)
  BY <1>2, <1>4, <1>5, <1>6 DEF Tale
<1>8. Told(t, p)
  BY <1>2, <1>4, <1>7 DEF Told
<1> QED
  BY <1>8 DEF t

\* A document whose history tells how it came about.
RedoDrawn(d) == \A n \in DOMAIN d.redo : AllDrawn(d.redo[n])
Straight(d)  == DocOk(d) /\ Told(d.undo, Sight(d)) /\ RedoDrawn(d)

LEMMA StacksOf ==
  ASSUME NEW d, DocOk(d)
  PROVE  /\ d \in Docs /\ d.undo \in Stacks /\ d.redo \in Stacks /\ d.sel \in 0 .. Len(d.annos)
         /\ d.annos \in Seq(AnnoSet) /\ d.region \in Regions
         /\ StackIds(d.undo, IdsOf(d.annos)) /\ StackIds(d.redo, IdsOf(d.annos))
BY DEF DocOk, Docs, Stacks, Fitting

LEMMA DrawnAppend ==
  ASSUME NEW s \in Stacks, \A n \in DOMAIN s : AllDrawn(s[n]), NEW g \in Seq(Items), AllDrawn(g)
  PROVE  \A n \in DOMAIN Append(s, g) : AllDrawn(Append(s, g)[n])
<1> DEFINE t == Append(s, g)
<1>1. /\ Len(s) \in Nat /\ DOMAIN s = 1 .. Len(s) /\ DOMAIN t = 1 .. Len(s) + 1
      /\ t[Len(s) + 1] = g /\ \A n \in 1 .. Len(s) : t[n] = s[n]
  BY DEF Stacks
<1> HIDE DEF t
<1>2. \A n \in DOMAIN t : AllDrawn(t[n])
  <2> TAKE n \in DOMAIN t
  <2>1. n = Len(s) + 1 \/ n \in 1 .. Len(s)
    BY <1>1
  <2> QED
    BY <1>1, <2>1
<1> QED
  BY <1>2 DEF t

LEMMA DrawnFront ==
  ASSUME NEW s \in Stacks, s # <<>>, \A n \in DOMAIN s : AllDrawn(s[n])
  PROVE  AllDrawn(Last(s)) /\ \A n \in DOMAIN Front(s) : AllDrawn(Front(s)[n])
<1> DEFINE X == Seq(Items)
           f == Front(s)
<1>1. s \in Seq(X) /\ s # <<>>
  BY DEF Stacks
<1> HIDE DEF X, f
<1>2. /\ Len(s) \in 1 .. Len(s) /\ Last(s) = s[Len(s)]
      /\ f \in Seq(X) /\ Len(f) = Len(s) - 1
      /\ \A j \in 1 .. Len(s) - 1 : f[j] = s[j]
  BY <1>1, FrontIsCut, Zenon DEF f
<1>3. DOMAIN s = 1 .. Len(s) /\ DOMAIN f = 1 .. Len(s) - 1
  BY <1>1, <1>2
<1>4. \A j \in 1 .. Len(s) - 1 : j \in 1 .. Len(s)
  BY <1>2
<1> QED
  BY <1>2, <1>3, <1>4, Zenon DEF f

LEMMA UndoTells ==
  ASSUME NEW d, Straight(d)
  PROVE  Straight(UndoPop(d))
<1>1. DocOk(d) /\ Told(d.undo, Sight(d)) /\ RedoDrawn(d)
  BY DEF Straight
<1>2. CASE d.undo = <<>>
  <2>1. UndoPop(d) = d
    BY <1>2 DEF UndoPop
  <2> QED
    BY <2>1
<1>3. CASE d.undo # <<>>
  <2> DEFINE g == Last(d.undo)
             a == ApplyGroup(d, g)
             e == UndoPop(d)
  <2>1. /\ e \in Docs /\ e.annos = a.doc.annos /\ e.region = a.doc.region
        /\ e.undo = Front(d.undo) /\ e.redo = Append(d.redo, a.inv)
        /\ a.inv \in Seq(Items) /\ DocOk(e)
    BY <1>1, <1>3, UndoPopIs
  <2>2. /\ d \in Docs /\ d.undo \in Stacks /\ d.redo \in Stacks /\ d.sel \in 0 .. Len(d.annos)
        /\ StackIds(d.undo, IdsOf(d.annos))
    BY <1>1, StacksOf
  <2>3. PICK y \in Seq(Nat) : GroupIds(g, IdsOf(d.annos), y)
    BY <1>3, <2>2, StackFront
  <2>4. PICK q \in Docs : Shows(g, Sight(d), q) /\ Told(Front(d.undo), q)
    BY <1>1, <1>3, <2>2, ToldFront
  <2>5. g \in Seq(Items)
    <3> DEFINE X == Seq(Items)
    <3>1. d.undo \in Seq(X)
      BY <2>2 DEF Stacks
    <3> HIDE DEF X
    <3>2. Last(d.undo) \in X
      BY <1>3, <3>1, FrontIsCut
    <3> QED
      BY <3>2 DEF X
  <2> HIDE DEF g, e
  <2>6. Sight(a.doc) = q /\ AllDrawn(a.inv)
    BY <2>2, <2>3, <2>4, <2>5, ShowsForth
  <2> HIDE DEF a
  <2>7. Sight(e) = Sight(a.doc)
    BY <2>1, Zenon DEF Sight
  <2>8. RedoDrawn(e)
    BY <1>1, <2>1, <2>2, <2>6, DrawnAppend DEF RedoDrawn
  <2> QED
    BY <2>1, <2>4, <2>6, <2>7, <2>8 DEF Straight, e
<1> QED
  BY <1>2, <1>3

LEMMA RedoTells ==
  ASSUME NEW d, Straight(d)
  PROVE  Straight(RedoPop(d))
<1>1. DocOk(d) /\ Told(d.undo, Sight(d)) /\ RedoDrawn(d)
  BY DEF Straight
<1>2. CASE d.redo = <<>>
  <2>1. RedoPop(d) = d
    BY <1>2 DEF RedoPop
  <2> QED
    BY <2>1
<1>3. CASE d.redo # <<>>
  <2> DEFINE g == Last(d.redo)
             a == ApplyGroup(d, g)
             e == RedoPop(d)
             v == ApplyGroup(d, g).inv
             b == ApplyGroup(e, v)
  <2>1. /\ e \in Docs /\ e.annos = a.doc.annos /\ e.region = a.doc.region /\ e.sel = a.doc.sel
        /\ e.redo = Front(d.redo) /\ e.undo = Append(d.undo, v)
        /\ v \in Seq(Items) /\ DocOk(e)
    BY <1>1, <1>3, RedoPopIs
  <2>2. /\ d \in Docs /\ d.undo \in Stacks /\ d.redo \in Stacks /\ d.sel \in 0 .. Len(d.annos)
        /\ StackIds(d.redo, IdsOf(d.annos)) /\ e.sel \in 0 .. Len(e.annos)
    BY <1>1, <2>1, StacksOf
  <2>3. PICK y \in Seq(Nat) : GroupIds(g, IdsOf(d.annos), y)
    BY <1>3, <2>2, StackFront
  <2>4. g \in Seq(Items) /\ AllDrawn(g) /\ \A n \in DOMAIN e.redo : AllDrawn(e.redo[n])
    <3> DEFINE X == Seq(Items)
    <3>1. d.redo \in Seq(X)
      BY <2>2 DEF Stacks
    <3> HIDE DEF X
    <3>2. Last(d.redo) \in X
      BY <1>3, <3>1, FrontIsCut
    <3>3. AllDrawn(Last(d.redo)) /\ \A n \in DOMAIN Front(d.redo) : AllDrawn(Front(d.redo)[n])
      BY <1>1, <1>3, <2>2, DrawnFront DEF RedoDrawn
    <3> HIDE DEF e
    <3> QED
      BY <2>1, <3>2, <3>3 DEF X
  <2> HIDE DEF g, e
  <2>5. IdsOf(a.doc.annos) = y /\ GroupIds(v, y, IdsOf(d.annos))
    BY <2>2, <2>3, <2>4, GroupForth
  <2>6. b.doc.annos = d.annos /\ b.doc.region = d.region /\ b.inv = g
    BY <2>1, <2>2, <2>3, <2>4, GroupBack
  <2> HIDE DEF a, v
  <2>7. GroupIds(v, IdsOf(e.annos), IdsOf(d.annos))
    BY <2>1, <2>5
  <2> HIDE DEF b
  <2>8. AllDrawn(b.inv)
    BY <2>4, <2>6
  <2>9. Shows(v, Sight(e), Sight(b.doc))
    BY <2>1, <2>2, <2>7, <2>8, ShowsOf DEF b
  <2>10. Sight(b.doc) = Sight(d)
    BY <2>6, Zenon DEF Sight
  <2>11. Sight(e) \in Docs
    BY <2>1, SightIs
  <2>12. Told(e.undo, Sight(e))
    BY <1>1, <2>1, <2>2, <2>9, <2>10, <2>11, ToldAppend
  <2> QED
    BY <2>1, <2>4, <2>12 DEF Straight, RedoDrawn, e
<1> QED
  BY <1>2, <1>3

LEMMA StraightUndone ==
  ASSUME NEW d, Straight(d)
  PROVE  LET start == Undos(d, Len(d.undo)) IN
         /\ start.annos = <<>> /\ start.region = StartRegion
         /\ \A n \in DOMAIN start.redo : AllDrawn(start.redo[n])
<1> DEFINE n == Len(d.undo)
<1>1. DocOk(d) /\ d \in Docs /\ d.undo \in Stacks
  BY StacksOf DEF Straight
<1>2. d \in OkDocs /\ n \in Nat /\ n \in 0 .. n
  BY <1>1 DEF OkDocs, Stacks
<1>3. PICK w \in [0 .. n -> OkDocs] :
           /\ w[0] = d /\ Undos(d, n) = w[n] /\ \A k \in 1 .. n : w[k] = UndoPop(w[k - 1])
           /\ \A k \in 0 .. n : Len(w[k].undo) = n - k
  <2> HIDE DEF n
  <2>1. \E w \in [0 .. n -> OkDocs] :
           /\ w[0] = d /\ Undos(d, n) = w[n] /\ \A k \in 1 .. n : w[k] = UndoPop(w[k - 1])
           /\ \A k \in 0 .. n : Len(w[k].undo) = Len(d.undo) - k
    BY <1>2, UndosShorten, Zenon DEF n
  <2> QED
    BY <2>1 DEF n
<1> HIDE DEF n
<1> DEFINE S == {k \in 0 .. n : Straight(w[k])}
<1>4. 0 \in S
  BY <1>2, <1>3
<1>5. ASSUME NEW k \in 0 .. n - 1, k \in S PROVE k + 1 \in S
  <2>1. k + 1 \in 1 .. n /\ k + 1 - 1 = k /\ k + 1 \in 0 .. n
    BY <1>2
  <2>2. w[k + 1] = UndoPop(w[k])
    BY <1>3, <2>1
  <2> QED
    BY <1>5, <2>1, <2>2, UndoTells
<1>6. 0 .. n \subseteq S
  <2> HIDE DEF S
  <2> QED
    BY <1>2, <1>4, <1>5, Steps
<1> DEFINE z == w[n]
<1>7. Straight(z) /\ Len(z.undo) = 0
  BY <1>2, <1>3, <1>6
<1> HIDE DEF z
<1>8. z \in Docs /\ z.undo = <<>> /\ z.annos \in Seq(AnnoSet)
  <2>1. z \in Docs /\ z.undo \in Stacks /\ z.annos \in Seq(AnnoSet)
    BY <1>7, StacksOf DEF Straight
  <2> QED
    BY <1>7, <2>1 DEF Stacks
<1>9. Sight(z) = Opening
  BY <1>7, <1>8, ToldEmpty DEF Straight
<1>10. Bared(z.annos) = Bared(<<>>) /\ z.region = StartRegion
  <2>1. <<>> \in Seq(AnnoSet)
    OBVIOUS
  <2>2. Picture(z.annos, z.region) = Picture(<<>>, StartRegion)
    BY <1>9, Zenon DEF Sight, Opening
  <2> QED
    BY <2>2 DEF Picture
<1>11. z.annos = <<>>
  <2>1. <<>> \in Seq(AnnoSet) /\ Len(<<>>) = 0
    OBVIOUS
  <2>2. Len(z.annos) = Len(<<>>)
    BY <1>8, <1>10, <2>1, BaredSame
  <2> QED
    BY <1>8, <2>1, <2>2
<1> QED
  BY <1>3, <1>7, <1>10, <1>11 DEF Straight, RedoDrawn, z, n

-----------------------------------------------------------------------------
(* What the groups show that the handlers record.                          *)

Simple(s, r) == [annos |-> s, region |-> r, sel |-> 0, undo |-> <<>>, redo |-> <<>>, snap |-> {}]

LEMMA SeenIs ==
  ASSUME NEW s \in Seq(AnnoSet), NEW r \in Regions, NEW it \in Items, FitsIn(it, Len(s))
  PROVE  LET d == Simple(s, r)
             p == Picture(s, r) IN
         /\ d \in Docs /\ d.annos = s /\ d.region = r /\ p \in Docs
         /\ Sight(Applied(p, it)) = Picture(ItemAnnos(d, it), IF it.k = "region" THEN it.old ELSE r)
         /\ AsDrawn(Inverted(d, it)) => AsDrawn(Inverted(p, it))
<1> DEFINE d == Simple(s, r)
           p == Picture(s, r)
<1>1. d \in Docs /\ d.annos = s /\ d.region = r
  <2>1. <<>> \in Seq(Seq(Items)) /\ {} \in SUBSET Regions /\ 0 \in Nat
    OBVIOUS
  <2> QED
    BY <2>1 DEF Simple, Docs
<1>2. p \in Docs /\ Sight(p) = p
  BY PictureIs
<1>3. Sight(d) = p
  BY <1>1, Zenon DEF Sight
<1> HIDE DEF d, p
<1>4. /\ Sight(Applied(d, it)) = Sight(Applied(p, it))
      /\ AsDrawn(Inverted(d, it)) => AsDrawn(Inverted(p, it))
  BY <1>1, <1>2, <1>3, SightItem
<1>5. Sight(Applied(d, it)) = Picture(ItemAnnos(d, it), IF it.k = "region" THEN it.old ELSE r)
  <2>1. /\ Applied(d, it).annos = ItemAnnos(d, it)
        /\ Applied(d, it).region = IF it.k = "region" THEN it.old ELSE r
    BY <1>1, AppliedIs
  <2> QED
    BY <2>1, Zenon DEF Sight
<1> QED
  BY <1>1, <1>2, <1>4, <1>5 DEF d, p

LEMMA ShowsOne ==
  ASSUME NEW it \in Items, NEW p \in Docs, NEW q \in Docs, q = Sight(Applied(p, it)),
         AsDrawn(Inverted(p, it))
  PROVE  Shows(<<it>>, p, q)
<1> DEFINE g == <<it>>
           k == [j \in 0 .. 1 |-> IF j = 1 THEN p ELSE q]
<1>1. Len(g) = 1 /\ g[1] = it /\ 1 .. 1 = {1}
  OBVIOUS
<1>2. k \in [0 .. 1 -> Docs] /\ k[1] = p /\ k[0] = q
  OBVIOUS
<1> HIDE DEF g, k
<1>3. ASSUME NEW j \in 1 .. 1
      PROVE  k[j - 1] = Sight(Applied(k[j], g[j])) /\ AsDrawn(Inverted(k[j], g[j]))
  <2>1. j = 1 /\ j - 1 = 0
    OBVIOUS
  <2> QED
    BY <1>1, <1>2, <2>1
<1>4. PicWalk(g, p, q, k)
  BY <1>1, <1>2, <1>3 DEF PicWalk
<1> QED
  BY <1>1, <1>2, <1>4 DEF Shows, g

LEMMA ShowsAdd ==
  ASSUME NEW s \in Seq(AnnoSet), NEW a \in AnnoSet, a.at = 0, a.attr = 0, NEW r \in Regions
  PROVE  Shows(<<[k |-> "add"]>>, Picture(Append(s, a), r), Picture(s, r))
<1> DEFINE t == Append(s, a)
           it == [k |-> "add"]
           d == Simple(t, r)
<1>1. t \in Seq(AnnoSet) /\ Len(t) = Len(s) + 1 /\ Len(s) \in Nat /\ t # <<>> /\ Last(t) = a /\ Front(t) = s
  <2>1. t \in Seq(AnnoSet) /\ t # <<>> /\ Last(t) = a /\ Front(t) = s
    BY AppendEnds
  <2> QED
    BY <2>1
<1>2. it \in Items /\ it.k = "add"
  BY DEF Items
<1> HIDE DEF t, it
<1>3. FitsIn(it, Len(t))
  BY <1>1, <1>2 DEF FitsIn, Grows, Shrinks, Plain, Place
<1>4. /\ d \in Docs /\ d.annos = t /\ Picture(t, r) \in Docs
      /\ Sight(Applied(Picture(t, r), it)) = Picture(ItemAnnos(d, it), IF it.k = "region" THEN it.old ELSE r)
      /\ AsDrawn(Inverted(d, it)) => AsDrawn(Inverted(Picture(t, r), it))
  BY <1>1, <1>2, <1>3, SeenIs
<1> HIDE DEF d
<1>5. ItemAnnos(d, it) = s
  BY <1>1, <1>2, <1>4 DEF ItemAnnos
<1>6. AsDrawn(Inverted(d, it))
  <2>1. Inverted(d, it) = [k |-> "readd", a |-> a]
    BY <1>1, <1>2, <1>4 DEF Inverted
  <2> QED
    BY <2>1 DEF AsDrawn
<1>7. Picture(s, r) \in Docs
  BY PictureIs
<1>8. Shows(<<it>>, Picture(t, r), Picture(s, r))
  BY <1>2, <1>4, <1>5, <1>6, <1>7, ShowsOne
<1> QED
  BY <1>8 DEF it, t

LEMMA ShowsRegion ==
  ASSUME NEW s \in Seq(AnnoSet), NEW r \in Regions, NEW o \in Regions
  PROVE  Shows(<<[k |-> "region", old |-> o]>>, Picture(s, r), Picture(s, o))
<1> DEFINE it == [k |-> "region", old |-> o]
           d == Simple(s, r)
<1>1. it \in Items /\ it.k = "region" /\ it.old = o
  BY DEF Items
<1> HIDE DEF it
<1>2. FitsIn(it, Len(s))
  BY <1>1 DEF FitsIn, Grows, Shrinks, Plain
<1>3. /\ d \in Docs /\ d.annos = s /\ d.region = r /\ Picture(s, r) \in Docs
      /\ Sight(Applied(Picture(s, r), it)) = Picture(ItemAnnos(d, it), IF it.k = "region" THEN it.old ELSE r)
      /\ AsDrawn(Inverted(d, it)) => AsDrawn(Inverted(Picture(s, r), it))
  BY <1>1, <1>2, SeenIs
<1> HIDE DEF d
<1>4. ItemAnnos(d, it) = s
  BY <1>1, <1>3 DEF ItemAnnos
<1>5. AsDrawn(Inverted(d, it))
  <2>1. Inverted(d, it).k = it.k
    BY <1>1, <1>2, <1>3, PlainIs DEF Plain
  <2> QED
    BY <1>1, <2>1 DEF AsDrawn
<1>6. Picture(s, o) \in Docs
  BY PictureIs
<1>7. Shows(<<it>>, Picture(s, r), Picture(s, o))
  BY <1>1, <1>3, <1>4, <1>5, <1>6, ShowsOne
<1> QED
  BY <1>7 DEF it

\* An item about one annotation, seen with the list t after it.
LEMMA SeenEdit ==
  ASSUME NEW s \in Seq(AnnoSet), NEW t \in Seq(AnnoSet), Len(s) = Len(t), NEW r \in Regions,
         NEW it \in Items, it.k \in Edits1, it.i \in 1 .. Len(s),
         \A j \in 1 .. Len(s) : Bare(t[j]) = Bare(IF j = it.i THEN Edited(s[j], it) ELSE s[j])
  PROVE  /\ Sight(Applied(Picture(s, r), it)) = Picture(t, r)
         /\ AsDrawn(Inverted(Picture(s, r), it))
<1> DEFINE d == Simple(s, r)
           u == ItemAnnos(d, it)
<1>1. FitsIn(it, Len(s))
  BY DEF FitsIn, Edits1, Grows, Shrinks
<1>2. /\ d \in Docs /\ d.annos = s /\ d.region = r /\ Picture(s, r) \in Docs
      /\ Sight(Applied(Picture(s, r), it)) = Picture(u, IF it.k = "region" THEN it.old ELSE r)
      /\ AsDrawn(Inverted(d, it)) => AsDrawn(Inverted(Picture(s, r), it))
  BY <1>1, SeenIs
<1> HIDE DEF d
<1>3. Len(u) = Len(s) /\ \A j \in 1 .. Len(s) : u[j] = IF j = it.i THEN Edited(s[j], it) ELSE s[j]
  BY <1>1, <1>2, EditsIs
<1>4. u \in Seq(AnnoSet) /\ Inverted(d, it).k = it.k
  BY <1>1, <1>2, PlainIs DEF Plain, Edits1
<1> HIDE DEF u
<1>5. Bared(u) = Bared(t)
  BY <1>3, <1>4, BaredSame
<1>6. Picture(u, r) = Picture(t, r)
  BY <1>5, Zenon DEF Picture
<1>7. it.k # "region" /\ it.k # "readd"
  BY DEF Edits1
<1> QED
  BY <1>2, <1>4, <1>6, <1>7 DEF AsDrawn

\* A group with one item for each of S, recorded in order.
LEMMA ShowsEdits ==
  ASSUME NEW s \in Seq(AnnoSet), NEW t \in Seq(AnnoSet), Len(s) = Len(t), NEW r \in Regions,
         NEW S \in SUBSET (1 .. Len(s)), NEW g \in Seq(Items), Len(g) = Cardinality(S),
         \A j \in 1 .. Len(g) : g[j].k \in Edits1 /\ g[j].i = InOrder(S)[j],
         \A j \in 1 .. Len(g) : Bare(t[g[j].i]) = Bare(Edited(s[g[j].i], g[j])),
         \A i \in 1 .. Len(s) : i \notin S => Bare(t[i]) = Bare(s[i])
  PROVE  Shows(g, Picture(s, r), Picture(t, r))
<1> DEFINE m == Len(s)
           c == Cardinality(S)
           at == InOrder(S)
           D == [j \in 0 .. c |-> {at[n] : n \in 1 .. j}]
           M == [j \in 0 .. c |-> [i \in 1 .. m |-> IF i \in D[j] THEN s[i] ELSE t[i]]]
           k == [j \in 0 .. c |-> Picture(M[j], r)]
<1>0. m \in Nat
  OBVIOUS
<1>1. /\ IsFiniteSet(S) /\ c \in Nat
      /\ \A n \in 1 .. c : at[n] \in S
      /\ \A a \in S : \E n \in 1 .. c : at[n] = a
      /\ \A i, j \in 1 .. c : i < j => at[i] # at[j]
  <2>1. IsFiniteSet(S)
    BY <1>0, InOrderOf
  <2>2. S \subseteq Int
    OBVIOUS
  <2> HIDE DEF m
  <2>3. /\ Cardinality(S) \in Nat
        /\ \A n \in 1 .. Cardinality(S) : InOrder(S)[n] \in S
        /\ \A a \in S : Rank(S, a) \in 1 .. Cardinality(S) /\ InOrder(S)[Rank(S, a)] = a
        /\ \A i, j \in 1 .. Cardinality(S) : i < j => InOrder(S)[i] < InOrder(S)[j]
    BY <2>1, <2>2, InOrderIs
  <2>4. \A a \in S : \E n \in 1 .. c : at[n] = a
    BY <2>3
  <2>5. \A i, j \in 1 .. c : i < j => at[i] # at[j]
    <3> TAKE i, j \in 1 .. c
    <3>1. at[i] \in Int /\ at[j] \in Int
      BY <2>2, <2>3
    <3> QED
      BY <2>3, <3>1
  <2> QED
    BY <2>1, <2>3, <2>4, <2>5
<1>2. /\ D[0] = {} /\ D[c] = S
      /\ \A j \in 1 .. c : j \in 0 .. c /\ j - 1 \in 0 .. c
      /\ \A j \in 1 .. c : at[j] \in D[j] /\ at[j] \notin D[j - 1] /\ D[j] = D[j - 1] \cup {at[j]}
  <2>1. 0 \in 0 .. c /\ c \in 0 .. c /\ \A j \in 1 .. c : j \in 0 .. c /\ j - 1 \in 0 .. c
    BY <1>1
  <2>2. \A j \in 0 .. c : D[j] = {at[n] : n \in 1 .. j}
    OBVIOUS
  <2> HIDE DEF D, at, c
  <2>3. D[0] = {}
    <3>1. 1 .. 0 = {}
      OBVIOUS
    <3> QED
      BY <2>1, <2>2, <3>1
  <2>4. D[c] = S
    <3>1. D[c] = {at[n] : n \in 1 .. c}
      BY <2>1, <2>2, Zenon
    <3>2. \A n \in 1 .. c : at[n] \in S
      BY <1>1, Zenon
    <3>3. \A a \in S : \E n \in 1 .. c : at[n] = a
      BY <1>1, Zenon
    <3>4. D[c] \subseteq S
      BY <3>1, <3>2, Zenon
    <3>5. S \subseteq D[c]
      <4> SUFFICES ASSUME NEW a \in S PROVE a \in D[c]
        OBVIOUS
      <4>1. PICK n \in 1 .. c : at[n] = a
        BY <3>3, Zenon
      <4> QED
        BY <3>1, <4>1
    <3> QED
      BY <3>4, <3>5
  <2>5. ASSUME NEW j \in 1 .. c
        PROVE  at[j] \in D[j] /\ at[j] \notin D[j - 1] /\ D[j] = D[j - 1] \cup {at[j]}
    <3>1. 1 .. j = (1 .. j - 1) \cup {j} /\ \A n \in 1 .. j - 1 : n \in 1 .. c /\ n < j
      BY <1>1
    <3>2. D[j] = {at[n] : n \in 1 .. j} /\ D[j - 1] = {at[n] : n \in 1 .. j - 1}
      BY <2>1, <2>2
    <3>3. \A n \in 1 .. j - 1 : at[n] # at[j]
      BY <1>1, <3>1
    <3>4. at[j] \notin D[j - 1]
      BY <3>2, <3>3
    <3>5. D[j] = D[j - 1] \cup {at[j]}
      BY <3>1, <3>2
    <3> QED
      BY <3>4, <3>5
  <2> QED
    BY <2>1, <2>3, <2>4, <2>5
<1>3. ASSUME NEW j \in 0 .. c
      PROVE  /\ M[j] \in Seq(AnnoSet) /\ Len(M[j]) = m
             /\ \A i \in 1 .. m : M[j][i] = IF i \in D[j] THEN s[i] ELSE t[i]
             /\ k[j] = Picture(M[j], r)
  <2> DEFINE f == M[j]
  <2>1. f = [i \in 1 .. m |-> IF i \in D[j] THEN s[i] ELSE t[i]]
    OBVIOUS
  <2>2. \A i \in 1 .. m : s[i] \in AnnoSet /\ t[i] \in AnnoSet
    OBVIOUS
  <2> HIDE DEF D, M
  <2>3. f \in [1 .. m -> AnnoSet]
    BY <2>1, <2>2
  <2> HIDE DEF f, m
  <2>4. f \in Seq(AnnoSet) /\ Len(f) = m
    BY <1>0, <2>3, IsSeq
  <2> QED
    BY <2>1, <2>4 DEF f
<1>4. k \in [0 .. c -> Docs]
  <2>1. \A j \in 0 .. c : Picture(M[j], r) \in Docs
    BY <1>3, PictureIs
  <2> QED
    BY <2>1
<1> HIDE DEF k, M, D
<1>5. ASSUME NEW j \in 1 .. c
      PROVE  k[j - 1] = Sight(Applied(k[j], g[j])) /\ AsDrawn(Inverted(k[j], g[j]))
  <2> DEFINE u == M[j]
             v == M[j - 1]
             it == g[j]
             p == at[j]
  <2>1. /\ u \in Seq(AnnoSet) /\ v \in Seq(AnnoSet) /\ Len(u) = m /\ Len(v) = m
        /\ \A i \in 1 .. m : u[i] = IF i \in D[j] THEN s[i] ELSE t[i]
        /\ \A i \in 1 .. m : v[i] = IF i \in D[j - 1] THEN s[i] ELSE t[i]
        /\ k[j] = Picture(u, r) /\ k[j - 1] = Picture(v, r)
    BY <1>2, <1>3
  <2>2. it \in Items /\ it.k \in Edits1 /\ it.i = p /\ p \in 1 .. m /\ p \in S
        /\ Bare(t[p]) = Bare(Edited(s[p], it))
    <3>1. j \in 1 .. Len(g) /\ at[j] \in S
      BY <1>1, Zenon
    <3>2. g[j].k \in Edits1 /\ g[j].i = InOrder(S)[j]
      BY <3>1, Zenon
    <3>3. Bare(t[g[j].i]) = Bare(Edited(s[g[j].i], g[j]))
      BY <3>1, Zenon
    <3>4. g[j] \in Items
      BY <3>1
    <3>5. S \subseteq 1 .. m
      OBVIOUS
    <3>6. at[j] = g[j].i
      BY <3>2, Zenon
    <3>7. Bare(t[at[j]]) = Bare(Edited(s[at[j]], g[j]))
      BY <3>3, <3>6, Zenon
    <3>8. at[j] \in 1 .. m
      BY <3>1, <3>5, Zenon
    <3> QED
      BY <3>1, <3>2, <3>4, <3>6, <3>7, <3>8, Zenon
  <2>3. p \in D[j] /\ p \notin D[j - 1] /\ D[j] = D[j - 1] \cup {p}
    BY <1>2
  <2> HIDE DEF u, v, it, p, m
  <2>4. ASSUME NEW i \in 1 .. m
        PROVE  Bare(v[i]) = Bare(IF i = it.i THEN Edited(u[i], it) ELSE u[i])
    <3>1. CASE i = p
      BY <2>1, <2>2, <2>3, <3>1
    <3>2. CASE i # p
      <4>1. u[i] = v[i]
        BY <2>1, <2>3, <3>2
      <4> QED
        BY <2>2, <3>2, <4>1
    <3> QED
      BY <3>1, <3>2
  <2>5. Sight(Applied(Picture(u, r), it)) = Picture(v, r) /\ AsDrawn(Inverted(Picture(u, r), it))
    BY <2>1, <2>2, <2>4, SeenEdit
  <2> QED
    BY <2>1, <2>5 DEF it
<1>6. k[c] = Picture(s, r)
  <2>1. c \in 0 .. c
    BY <1>1
  <2> DEFINE u == M[c]
  <2>2. /\ u \in Seq(AnnoSet) /\ Len(u) = m /\ k[c] = Picture(u, r)
        /\ \A i \in 1 .. m : u[i] = IF i \in D[c] THEN s[i] ELSE t[i]
    BY <1>3, <2>1
  <2> HIDE DEF u
  <2>3. Bared(u) = Bared(s)
    BY <1>2, <2>2, BaredSame
  <2> QED
    BY <2>2, <2>3, Zenon DEF Picture
<1>7. k[0] = Picture(t, r)
  <2>1. 0 \in 0 .. c
    BY <1>1
  <2> DEFINE u == M[0]
  <2>2. /\ u \in Seq(AnnoSet) /\ Len(u) = m /\ k[0] = Picture(u, r)
        /\ \A i \in 1 .. m : u[i] = IF i \in D[0] THEN s[i] ELSE t[i]
    BY <1>3, <2>1
  <2> HIDE DEF u
  <2>4. D[0] = {}
    BY <1>2, Zenon
  <2>5. \A i \in 1 .. m : Bare(u[i]) = Bare(t[i])
    BY <2>2, <2>4
  <2>6. Len(t) = m /\ Len(u) = m
    BY <2>2
  <2> HIDE DEF m
  <2>3. Bared(u) = Bared(t)
    BY <2>2, <2>5, <2>6, BaredSame
  <2> QED
    BY <2>2, <2>3, Zenon DEF Picture
<1>8. Len(g) = c
  OBVIOUS
<1> HIDE DEF c
<1>9. PicWalk(g, Picture(s, r), Picture(t, r), k)
  BY <1>5, <1>6, <1>7, <1>8 DEF PicWalk
<1> QED
  BY <1>4, <1>8, <1>9 DEF Shows

\* The group Delete records.
LEMMA ShowsDelete ==
  ASSUME NEW d \in Docs, NEW r \in Regions
  PROVE  Shows(Reverse(Gone(d)), Picture(Kept(d), r), Picture(d.annos, r))
<1> DEFINE s == d.annos
           m == Len(s)
           S == Selected(d)
           c == Cardinality(S)
           g == Reverse(Gone(d))
           D == [j \in 0 .. c |-> Back(m, S, j)]
           M == [j \in 0 .. c |-> Part(s, D[j])]
           k == [j \in 0 .. c |-> Picture(M[j], r)]
<1>0. m \in Nat /\ s \in Seq(AnnoSet) /\ S \in SUBSET (1 .. m)
  BY SelectedIs DEF Docs
<1>1. c \in Nat
  BY <1>0, InOrderOf
<1>2. /\ g \in Seq(Items) /\ Len(g) = c
      /\ \A j \in 1 .. Len(g) :
           LET i == InOrder(S)[c + 1 - j] IN
           i \in S /\ g[j] = [k |-> "delete", i |-> i, a |-> s[i]]
  BY GoneIs
<1>3. Kept(d) = Part(s, (1 .. m) \ S)
  BY KeptIs
<1>4. /\ Back(m, S, 0) = 1 .. m /\ Back(m, S, c) = (1 .. m) \ S
      /\ \A j \in 1 .. c :
           LET i == InOrder(S)[c + 1 - j] IN
           /\ i \in S /\ i \notin Back(m, S, j) /\ 1 .. i - 1 \subseteq Back(m, S, j)
           /\ Back(m, S, j - 1) = Back(m, S, j) \cup {i}
  BY <1>0, BackIs
<1>5. \A j : Back(m, S, j) \in SUBSET (1 .. m)
  BY DEF Back
<1>6. 0 \in 0 .. c /\ c \in 0 .. c /\ \A j \in 1 .. c : j \in 0 .. c /\ j - 1 \in 0 .. c
  BY <1>1
<1>7. \A j \in 0 .. c : M[j] = Part(s, Back(m, S, j)) /\ k[j] = Picture(M[j], r)
  OBVIOUS
<1>8. ASSUME NEW j \in 0 .. c PROVE M[j] \in Seq(AnnoSet) /\ Picture(M[j], r) \in Docs
  <2> DEFINE B == Back(m, S, j)
  <2>1. B \in SUBSET (1 .. Len(s)) /\ M[j] = Part(s, B)
    BY <1>5, <1>7
  <2> HIDE DEF B, M, s
  <2>2. Part(s, B) \in Seq(AnnoSet)
    BY <1>0, <2>1, PartIs
  <2> QED
    BY <2>1, <2>2, PictureIs
<1>9. k \in [0 .. c -> Docs]
  BY <1>8
<1>10. k[c] = Picture(Kept(d), r)
  BY <1>3, <1>4, <1>6, <1>7
<1>11. k[0] = Picture(s, r)
  <2>1. M[0] = Part(s, 1 .. m)
    BY <1>4, <1>6, <1>7
  <2>2. Part(s, 1 .. Len(s)) = s
    <3> HIDE DEF s
    <3> QED
      BY <1>0, PartAll
  <2> QED
    BY <1>6, <1>7, <2>1, <2>2
<1> HIDE DEF k, M, D, g, c, S, m, s
<1>12. ASSUME NEW j \in 1 .. c
       PROVE  k[j - 1] = Sight(Applied(k[j], g[j])) /\ AsDrawn(Inverted(k[j], g[j]))
  <2> DEFINE u == M[j]
             v == M[j - 1]
             it == g[j]
             i == InOrder(S)[c + 1 - j]
             B == Back(m, S, j)
             e == Simple(u, r)
             a == s[i]
  <2>1. /\ j \in 0 .. c /\ j - 1 \in 0 .. c
    BY <1>6
  <2>2. u = Part(s, B) /\ v = Part(s, Back(m, S, j - 1)) /\ u \in Seq(AnnoSet) /\ v \in Seq(AnnoSet)
        /\ k[j] = Picture(u, r) /\ k[j - 1] = Picture(v, r)
    BY <1>7, <1>8, <2>1
  <2>3. i \in S /\ i \notin B /\ 1 .. i - 1 \subseteq B /\ Back(m, S, j - 1) = B \cup {i}
    BY <1>4
  <2>4. it = [k |-> "delete", i |-> i, a |-> s[i]] /\ it \in Items
    BY <1>2
  <2>5. B \in SUBSET (1 .. Len(s)) /\ i \in 1 .. Len(s)
    BY <1>0, <1>5, <2>3 DEF m
  <2> HIDE DEF u, v, i, B
  <2>6. i \in 1 .. Len(u) + 1 /\ v = Put(u, i, s[i])
    BY <1>0, <2>2, <2>3, <2>5, PartPut
  <2>7. it.k = "delete" /\ it.i = i /\ it.a = a
    BY <2>4
  <2> HIDE DEF it, a
  <2>8. it.k \in Grows /\ it.k \notin Shrinks /\ it.k \notin Plain /\ it.k # "region"
        /\ Place(it, Len(u)) = i /\ FitsIn(it, Len(u))
    BY <2>6, <2>7 DEF Place, FitsIn, Grows, Shrinks, Plain
  <2>9. /\ e \in Docs /\ e.annos = u
        /\ Sight(Applied(Picture(u, r), it)) = Picture(ItemAnnos(e, it), IF it.k = "region" THEN it.old ELSE r)
        /\ AsDrawn(Inverted(e, it)) => AsDrawn(Inverted(Picture(u, r), it))
    BY <2>2, <2>4, <2>8, SeenIs
  <2> HIDE DEF e
  <2>10. ItemAnnos(e, it) = Put(u, i, it.a)
    BY <2>4, <2>8, <2>9, GrownIs
  <2>11. AsDrawn(Inverted(e, it))
    BY <2>7, Zenon DEF AsDrawn, Inverted
  <2>12. ItemAnnos(e, it) = v
    BY <2>6, <2>7, <2>10 DEF a
  <2> QED
    BY <2>2, <2>8, <2>9, <2>11, <2>12 DEF it
<1>13. Len(g) = c
  BY <1>2
<1>14. PicWalk(g, Picture(Kept(d), r), Picture(s, r), k)
  BY <1>10, <1>11, <1>12, <1>13 DEF PicWalk
<1>15. Shows(g, Picture(Kept(d), r), Picture(s, r))
  BY <1>9, <1>13, <1>14 DEF Shows
<1> QED
  BY <1>15 DEF g, s

-----------------------------------------------------------------------------
(* The documents whose history would tell how they came about, once the    *)
(* gesture and the change of the region that go on are recorded.           *)

\* the region when the snapshot was taken
Armed(d) == IF d.snap = {} THEN d.region ELSE CHOOSE r \in d.snap : TRUE
One(d)   == d.snap = {} \/ \E r \in Regions : d.snap = {r}
Tells(d, s) == Told(d.undo, Picture(s, Armed(d)))

LEMMA ArmedIs ==
  ASSUME NEW d \in Docs, One(d)
  PROVE  /\ Armed(d) \in Regions /\ (d.snap = {} => Armed(d) = d.region)
         /\ \A r : d.snap = {r} => Armed(d) = r
<1>1. ASSUME NEW r, d.snap = {r} PROVE Armed(d) = r
  <2>1. d.snap # {} /\ r \in d.snap /\ \A q \in d.snap : q = r
    BY <1>1
  <2>2. (CHOOSE q \in d.snap : TRUE) \in d.snap
    BY <2>1
  <2>3. Armed(d) = CHOOSE q \in d.snap : TRUE
    BY <2>1 DEF Armed
  <2> QED
    BY <2>1, <2>2, <2>3
<1>2. ASSUME d.snap = {} PROVE Armed(d) = d.region
  BY <1>2 DEF Armed
<1>3. Armed(d) \in Regions
  <2>1. d.region \in Regions
    BY DEF Docs
  <2>2. CASE d.snap = {}
    BY <1>2, <2>1, <2>2
  <2>3. CASE d.snap # {}
    <3>1. PICK r \in Regions : d.snap = {r}
      BY <2>3 DEF One
    <3> QED
      BY <1>1, <3>1
  <2> QED
    BY <2>2, <2>3
<1> QED
  BY <1>1, <1>2, <1>3

LEMMA PushTells ==
  ASSUME NEW c \in Docs, NEW q, Told(c.undo, q), RedoDrawn(c),
         NEW g \in Seq(Items), NEW p \in Docs, Shows(g, p, q)
  PROVE  Told(Push(c, g).undo, p) /\ RedoDrawn(Push(c, g))
<1>1. CASE g = <<>>
  <2>1. Push(c, g) = c
    BY <1>1 DEF Push
  <2>2. Len(g) = 0
    BY <1>1
  <2>3. p = q
    BY <2>2 DEF Shows, PicWalk
  <2> QED
    BY <2>1, <2>3
<1>2. CASE g # <<>>
  <2>1. Push(c, g).undo = Append(c.undo, g) /\ Push(c, g).redo = <<>>
    BY <1>2, PushIs
  <2>2. c.undo \in Stacks
    BY DEF Docs, Stacks
  <2>3. Told(Append(c.undo, g), p)
    BY <2>2, ToldAppend
  <2>4. DOMAIN <<>> = {}
    OBVIOUS
  <2> QED
    BY <2>1, <2>3, <2>4 DEF RedoDrawn
<1> QED
  BY <1>1, <1>2

LEMMA CommitTells ==
  ASSUME NEW d \in Docs, One(d), RedoDrawn(d)
  PROVE  LET e == Commit(d) IN
         /\ e \in Docs /\ e.annos = d.annos /\ e.region = d.region /\ e.sel = d.sel /\ e.snap = {}
         /\ One(e) /\ RedoDrawn(e) /\ (d.snap = {} => e.undo = d.undo)
         /\ \A s \in Seq(AnnoSet) : Tells(d, s) => Tells(e, s)
<1> DEFINE c == [d EXCEPT !.snap = {}]
           e == Commit(d)
<1>1. c \in Docs /\ c.annos = d.annos /\ c.region = d.region /\ c.sel = d.sel /\ c.snap = {}
      /\ c.undo = d.undo /\ c.redo = d.redo
  BY DEF Docs
<1>2. RedoDrawn(c)
  BY <1>1 DEF RedoDrawn
<1>3. d.region \in Regions /\ Armed(d) \in Regions
  BY ArmedIs DEF Docs
<1>4. CASE d.snap \in {{}, {d.region}}
  <2>1. e = c
    BY <1>4 DEF Commit, Push
  <2>2. Armed(c) = Armed(d)
    BY <1>1, <1>4, ArmedIs DEF One
  <2> HIDE DEF e, c
  <2>3. One(e) /\ RedoDrawn(e)
    BY <1>1, <1>2, <2>1 DEF One
  <2>4. \A s \in Seq(AnnoSet) : Tells(d, s) => Tells(e, s)
    BY <1>1, <2>1, <2>2 DEF Tells
  <2> QED
    BY <1>1, <2>1, <2>3, <2>4 DEF e
<1>5. CASE d.snap \notin {{}, {d.region}}
  <2> DEFINE g == <<[k |-> "region", old |-> Armed(d)]>>
  <2>1. e = Push(c, g)
    <3>1. d.snap # {}
      BY <1>5
    <3>2. Armed(d) = CHOOSE r \in d.snap : TRUE
      BY <3>1, Zenon DEF Armed
    <3>3. Commit(d) = Push(c, <<[k |-> "region", old |-> CHOOSE r \in d.snap : TRUE]>>)
      BY <1>5, Zenon DEF Commit
    <3> QED
      BY <3>2, <3>3, Zenon
  <2>2. g \in Seq(Items) /\ g # <<>>
    <3> DEFINE it == [k |-> "region", old |-> Armed(d)]
    <3>1. it \in Items
      BY <1>3 DEF Items
    <3> HIDE DEF it
    <3>2. <<it>> \in Seq(Items) /\ <<it>> # <<>>
      BY <3>1
    <3> QED
      BY <3>2 DEF it
  <2> HIDE DEF g, c
  <2>3. e \in Docs /\ e.annos = d.annos /\ e.region = d.region /\ e.sel = d.sel /\ e.snap = {}
    BY <1>1, <2>1, <2>2, PushIs
  <2> HIDE DEF e
  <2>4. One(e) /\ Armed(e) = d.region
    BY <2>3 DEF One, Armed
  <2>5. ASSUME NEW s \in Seq(AnnoSet), Tells(d, s) PROVE Told(e.undo, Picture(s, d.region)) /\ RedoDrawn(e)
    <3>1. Shows(g, Picture(s, d.region), Picture(s, Armed(d)))
      BY <1>3, ShowsRegion DEF g
    <3>2. Picture(s, d.region) \in Docs
      BY <1>3, PictureIs
    <3>3. Told(c.undo, Picture(s, Armed(d)))
      BY <1>1, <2>5 DEF Tells
    <3> QED
      BY <1>1, <1>2, <2>1, <2>2, <3>1, <3>2, <3>3, PushTells
  <2>6. \A s \in Seq(AnnoSet) : Tells(d, s) => Tells(e, s)
    BY <2>4, <2>5 DEF Tells
  <2>7. RedoDrawn(e)
    <3>1. e.redo = <<>> /\ DOMAIN <<>> = {}
      BY <1>1, <2>1, <2>2, PushIs
    <3> QED
      BY <3>1 DEF RedoDrawn
  <2> QED
    BY <1>5, <2>3, <2>4, <2>6, <2>7 DEF e
<1> QED
  BY <1>4, <1>5

LEMMA BeginTells ==
  ASSUME NEW d \in Docs, One(d)
  PROVE  LET e == Begin(d) IN
         /\ e \in Docs /\ e.annos = d.annos /\ e.region = d.region /\ e.sel = d.sel
         /\ e.undo = d.undo /\ e.redo = d.redo
         /\ e.snap # {} /\ One(e) /\ Armed(e) = Armed(d)
<1>1. d.region \in Regions
  BY DEF Docs
<1>2. CASE d.snap = {}
  <2> DEFINE e == [d EXCEPT !.snap = {d.region}]
  <2>1. Begin(d) = e
    BY <1>2 DEF Begin
  <2>2. /\ e \in Docs /\ e.annos = d.annos /\ e.region = d.region /\ e.sel = d.sel
        /\ e.undo = d.undo /\ e.redo = d.redo /\ e.snap = {d.region}
    BY <1>1 DEF Docs
  <2> HIDE DEF e
  <2>3. One(e)
    BY <1>1, <2>2 DEF One
  <2>4. Armed(e) = Armed(d)
    BY <1>2, <2>2, <2>3, ArmedIs
  <2> QED
    BY <2>1, <2>2, <2>3, <2>4
<1>3. CASE d.snap # {}
  BY <1>3 DEF Begin
<1> QED
  BY <1>2, <1>3

LEMMA AddTells ==
  ASSUME NEW d, DocOk(d), One(d), RedoDrawn(d), Tells(d, d.annos)
  PROVE  LET e == AddAnno(d) IN
         DocOk(e) /\ One(e) /\ RedoDrawn(e) /\ Tells(e, e.annos) /\ Armed(e) = Armed(d)
<1> DEFINE a == [Blank EXCEPT !.id = NewId(d)]
           s == Append(d.annos, a)
           c == [d EXCEPT !.annos = s]
           g == <<[k |-> "add"]>>
           e == AddAnno(d)
<1>0. d \in Docs /\ d.annos \in Seq(AnnoSet) /\ DocOk(e)
  BY AddOk DEF DocOk, Docs
<1>1. a \in AnnoSet /\ a.at = 0 /\ a.attr = 0
  <2>1. NewId(d) \in Nat
    BY IdsIsAll
  <2> QED
    BY <2>1, BlankIsAnno DEF AnnoSet, Blank
<1>2. e = Push(c, g)
  BY DEF AddAnno
<1>3. g \in Seq(Items) /\ g # <<>>
  <2> DEFINE it == [k |-> "add"]
  <2>1. it \in Items
    BY DEF Items
  <2> HIDE DEF it
  <2>2. <<it>> \in Seq(Items) /\ <<it>> # <<>>
    BY <2>1
  <2> QED
    BY <2>2 DEF it
<1> HIDE DEF a
<1>4. s \in Seq(AnnoSet)
  BY <1>0, <1>1
<1> HIDE DEF s, e
<1>5. c \in Docs /\ c.annos = s /\ c.region = d.region /\ c.snap = d.snap /\ c.undo = d.undo
      /\ c.redo = d.redo
  BY <1>0, <1>4 DEF Docs
<1>6. Armed(d) \in Regions
  BY <1>0, ArmedIs
<1>7. Shows(g, Picture(s, Armed(d)), Picture(d.annos, Armed(d)))
  BY <1>0, <1>1, <1>6, ShowsAdd DEF s
<1>8. Picture(s, Armed(d)) \in Docs
  BY <1>4, <1>6, PictureIs
<1> HIDE DEF c, g
<1>9. e.annos = s /\ e.region = d.region /\ e.snap = d.snap
  BY <1>2, <1>3, <1>5, PushIs
<1>10. Armed(e) = Armed(d) /\ One(e)
  BY <1>9 DEF Armed, One
<1>11. RedoDrawn(c)
  BY <1>5 DEF RedoDrawn
<1>12. Told(c.undo, Picture(d.annos, Armed(d)))
  BY <1>5 DEF Tells
<1>13. Told(e.undo, Picture(s, Armed(d))) /\ RedoDrawn(e)
  BY <1>2, <1>3, <1>5, <1>7, <1>8, <1>11, <1>12, PushTells
<1>14. Tells(e, e.annos)
  BY <1>9, <1>10, <1>13 DEF Tells
<1> QED
  BY <1>0, <1>10, <1>13, <1>14 DEF e

LEMMA DeleteTells ==
  ASSUME NEW d \in Docs, One(d), RedoDrawn(d), Tells(d, d.annos)
  PROVE  LET e == Push([d EXCEPT !.annos = Kept(d), !.sel = 0], Reverse(Gone(d))) IN
         e \in Docs /\ One(e) /\ RedoDrawn(e) /\ Tells(e, e.annos)
<1> DEFINE s == Kept(d)
           c == [d EXCEPT !.annos = s, !.sel = 0]
           g == Reverse(Gone(d))
           e == Push(c, g)
<1>1. g \in Seq(Items) /\ s \in Seq(AnnoSet) /\ d.annos \in Seq(AnnoSet)
  BY GoneIs, KeptIs DEF Docs
<1>2. Armed(d) \in Regions
  BY ArmedIs
<1>3. Shows(g, Picture(s, Armed(d)), Picture(d.annos, Armed(d)))
  BY <1>2, ShowsDelete
<1> HIDE DEF g, s
<1>4. c \in Docs /\ c.annos = s /\ c.region = d.region /\ c.snap = d.snap /\ c.undo = d.undo
      /\ c.redo = d.redo
  BY <1>1 DEF Docs
<1>5. Picture(s, Armed(d)) \in Docs
  BY <1>1, <1>2, PictureIs
<1> HIDE DEF c
<1>6. RedoDrawn(c) /\ Told(c.undo, Picture(d.annos, Armed(d)))
  BY <1>4 DEF RedoDrawn, Tells
<1>7. e \in Docs /\ e.annos = s /\ e.region = d.region /\ e.snap = d.snap
  BY <1>1, <1>4, PushIs
<1>8. Told(e.undo, Picture(s, Armed(d))) /\ RedoDrawn(e)
  BY <1>1, <1>3, <1>4, <1>5, <1>6, PushTells
<1> HIDE DEF e
<1>9. Armed(e) = Armed(d) /\ One(e)
  BY <1>7 DEF Armed, One
<1>10. Tells(e, e.annos)
  BY <1>7, <1>8, <1>9 DEF Tells
<1> QED
  BY <1>7, <1>8, <1>9, <1>10 DEF e, c, g, s

\* Where an annotation is when the gesture that goes on is taken back; and the
\* sizes and colours that a gesture which has recorded them may still give.
At(d, u, i) ==
  IF u.drag = "anno" /\ d.annos[i].sel THEN d.annos[i].at - u.grab
  ELSE IF u.drag = "corner" /\ i = d.sel THEN u.grab
  ELSE d.annos[i].at
Sizing(u)  == (u.drag = "attr" \/ u.resizing) /\ u.editMode
Posed(d, u, t) ==
  /\ Len(t) = Len(d.annos)
  /\ \A i \in 1 .. Len(t) : t[i].id = d.annos[i].id /\ t[i].at = At(d, u, i)
Painted(d, u, t, v) ==
  \A i \in 1 .. Len(t) : t[i].attr = IF d.annos[i].sel THEN v ELSE d.annos[i].attr
Future(d, u, t) ==
  /\ Posed(d, u, t)
  /\ \/ \A i \in 1 .. Len(t) : t[i].attr = d.annos[i].attr
     \/ Sizing(u) /\ \E v \in Attrs : Painted(d, u, t, v)
Faithful(d, u) == \A t \in Seq(AnnoSet) : Future(d, u, t) => Tells(d, t)
Sound(d, u)    == One(d) /\ RedoDrawn(d) /\ Faithful(d, u)

\* nothing has moved
Idle(d, u) == \A i \in 1 .. Len(d.annos) : At(d, u, i) = d.annos[i].at
\* the same annotations are seen
Look(d, e) ==
  /\ Len(e.annos) = Len(d.annos)
  /\ \A i \in 1 .. Len(d.annos) : /\ e.annos[i].id = d.annos[i].id /\ e.annos[i].at = d.annos[i].at
                                  /\ e.annos[i].attr = d.annos[i].attr

LEMMA ListIs ==
  ASSUME NEW d \in Docs
  PROVE  /\ d.annos \in Seq(AnnoSet) /\ Len(d.annos) \in Nat
         /\ \A i \in 1 .. Len(d.annos) :
              /\ d.annos[i] \in AnnoSet /\ d.annos[i].at \in Int /\ d.annos[i].attr \in Attrs
              /\ d.annos[i].sel \in BOOLEAN /\ d.annos[i].id \in Nat
<1>1. d.annos \in Seq(AnnoSet)
  BY DEF Docs
<1>2. \A i \in 1 .. Len(d.annos) : d.annos[i] \in AnnoSet
  BY <1>1
<1>3. ASSUME NEW i \in 1 .. Len(d.annos)
      PROVE  /\ d.annos[i].at \in Int /\ d.annos[i].attr \in Attrs
             /\ d.annos[i].sel \in BOOLEAN /\ d.annos[i].id \in Nat
  <2>1. \A a \in AnnoSet : a.at \in Int /\ a.attr \in Attrs /\ a.sel \in BOOLEAN /\ a.id \in Nat
    BY DEF AnnoSet
  <2> QED
    BY <1>2, <2>1, Zenon
<1> QED
  BY <1>1, <1>2, <1>3

LEMMA IdleOf ==
  ASSUME NEW d \in Docs, NEW u,
         \/ u.drag \notin {"anno", "corner"}
         \/ u.drag = "anno" /\ u.grab = 0
         \/ u.drag = "corner" /\ (d.sel \in 1 .. Len(d.annos) => u.grab = d.annos[d.sel].at)
  PROVE  Idle(d, u)
<1>1. \A i \in 1 .. Len(d.annos) : d.annos[i].at \in Int
  BY ListIs
<1>2. \A x \in Int : x - 0 = x
  OBVIOUS
<1>3. ASSUME NEW i \in 1 .. Len(d.annos) PROVE At(d, u, i) = d.annos[i].at
  BY <1>1, <1>2, <1>3 DEF At
<1> QED
  BY <1>3 DEF Idle

LEMMA TellsNow ==
  ASSUME NEW d \in Docs, NEW u, Sound(d, u), Idle(d, u)
  PROVE  Tells(d, d.annos)
<1>1. Future(d, u, d.annos) /\ d.annos \in Seq(AnnoSet)
  BY ListIs DEF Idle, Future, Posed
<1> QED
  BY <1>1 DEF Sound, Faithful

LEMMA SoundNow ==
  ASSUME NEW e \in Docs, NEW v, One(e), RedoDrawn(e), Tells(e, e.annos), Idle(e, v), ~Sizing(v)
  PROVE  Sound(e, v)
<1>1. ASSUME NEW t \in Seq(AnnoSet), Future(e, v, t) PROVE Tells(e, t)
  <2>1. /\ Len(t) = Len(e.annos)
        /\ \A i \in 1 .. Len(t) : t[i].id = e.annos[i].id /\ t[i].at = e.annos[i].at
                                  /\ t[i].attr = e.annos[i].attr
    BY <1>1 DEF Future, Posed, Idle
  <2>2. e.annos \in Seq(AnnoSet) /\ \A i \in 1 .. Len(e.annos) : e.annos[i] \in AnnoSet
    BY ListIs
  <2>3. ASSUME NEW i \in 1 .. Len(t) PROVE Bare(t[i]) = Bare(e.annos[i])
    <3>1. t[i] \in AnnoSet /\ e.annos[i] \in AnnoSet
      BY <2>1, <2>2
    <3> QED
      BY <2>1, <3>1, BareSame
  <2>4. Bared(t) = Bared(e.annos)
    BY <2>1, <2>2, <2>3, BaredSame
  <2>5. Picture(t, Armed(e)) = Picture(e.annos, Armed(e))
    BY <2>4, Zenon DEF Picture
  <2> QED
    BY <2>5 DEF Tells
<1> QED
  BY <1>1 DEF Sound, Faithful

\* Nothing is seen to change, and nothing was going on.
LEMMA Still ==
  ASSUME NEW d \in Docs, NEW u, Sound(d, u), Idle(d, u), NEW e \in Docs, NEW v, Look(d, e),
         e.undo = d.undo, e.redo = d.redo, One(e), Armed(e) = Armed(d), Idle(e, v), ~Sizing(v)
  PROVE  Sound(e, v)
<1>1. Tells(d, d.annos)
  BY TellsNow
<1>2. Bared(e.annos) = Bared(d.annos)
  <2>1. /\ e.annos \in Seq(AnnoSet) /\ \A i \in 1 .. Len(e.annos) : e.annos[i] \in AnnoSet
        /\ d.annos \in Seq(AnnoSet) /\ \A i \in 1 .. Len(d.annos) : d.annos[i] \in AnnoSet
    BY ListIs
  <2>2. ASSUME NEW i \in 1 .. Len(e.annos) PROVE Bare(e.annos[i]) = Bare(d.annos[i])
    <3>1. e.annos[i] \in AnnoSet /\ d.annos[i] \in AnnoSet
      BY <2>1 DEF Look
    <3> QED
      BY <3>1, BareSame DEF Look
  <2> QED
    BY <2>1, <2>2, BaredSame DEF Look
<1>3. Picture(e.annos, Armed(e)) = Picture(d.annos, Armed(d))
  BY <1>2, Zenon DEF Picture
<1>4. Tells(e, e.annos)
  BY <1>1, <1>3 DEF Tells
<1>5. RedoDrawn(e)
  BY DEF Sound, RedoDrawn
<1> QED
  BY <1>4, <1>5, SoundNow

\* The gesture goes on.
LEMMA FutureSame ==
  ASSUME NEW d \in Docs, NEW u, NEW e \in Docs, NEW v, Len(e.annos) = Len(d.annos),
         \A i \in 1 .. Len(d.annos) :
           /\ e.annos[i].id = d.annos[i].id /\ e.annos[i].attr = d.annos[i].attr
           /\ e.annos[i].sel = d.annos[i].sel /\ At(e, v, i) = At(d, u, i),
         Sizing(v) => Sizing(u)
  PROVE  \A t \in Seq(AnnoSet) : Future(e, v, t) => Future(d, u, t)
<1> SUFFICES ASSUME NEW t \in Seq(AnnoSet), Future(e, v, t) PROVE Future(d, u, t)
  OBVIOUS
<1>1. Posed(e, v, t) /\ Len(t) = Len(d.annos)
  BY DEF Future, Posed
<1>2. Posed(d, u, t)
  BY <1>1 DEF Posed
<1>3. CASE \A i \in 1 .. Len(t) : t[i].attr = e.annos[i].attr
  BY <1>1, <1>2, <1>3 DEF Future
<1>4. CASE Sizing(v) /\ \E w \in Attrs : Painted(e, v, t, w)
  <2>1. PICK w \in Attrs : Painted(e, v, t, w)
    BY <1>4
  <2>2. Painted(d, u, t, w)
    BY <1>1, <2>1 DEF Painted
  <2> QED
    BY <1>2, <1>4, <2>2 DEF Future
<1> QED
  BY <1>3, <1>4 DEF Future

LEMMA SoundOn ==
  ASSUME NEW d \in Docs, NEW u, Sound(d, u), NEW e \in Docs, NEW v,
         \A t \in Seq(AnnoSet) : Future(e, v, t) => Future(d, u, t),
         e.undo = d.undo, e.redo = d.redo, One(e), Armed(e) = Armed(d)
  PROVE  Sound(e, v)
<1>1. Faithful(e, v)
  BY DEF Sound, Faithful, Tells
<1> QED
  BY <1>1 DEF Sound, RedoDrawn

LEMMA SoundCommit ==
  ASSUME NEW d \in Docs, NEW u, Sound(d, u), NEW v, Idle(d, u) => Idle(d, v),
         \/ Idle(d, u) /\ ~Sizing(v)
         \/ u.drag = v.drag /\ u.grab = v.grab /\ (Sizing(v) => Sizing(u))
  PROVE  Sound(Commit(d), v)
<1> DEFINE e == Commit(d)
<1>1. /\ e \in Docs /\ e.annos = d.annos /\ e.sel = d.sel
      /\ One(e) /\ RedoDrawn(e)
      /\ \A s \in Seq(AnnoSet) : Tells(d, s) => Tells(e, s)
  BY CommitTells DEF Sound
<1> HIDE DEF e
<1>2. CASE Idle(d, u) /\ ~Sizing(v)
  <2>1. Tells(d, d.annos) /\ d.annos \in Seq(AnnoSet)
    BY <1>2, TellsNow, ListIs
  <2>2. Tells(e, e.annos)
    BY <1>1, <2>1
  <2>3. Idle(e, v)
    BY <1>1, <1>2 DEF Idle, At
  <2>4. Sound(e, v)
    BY <1>1, <1>2, <2>2, <2>3, SoundNow
  <2> QED
    BY <2>4 DEF e
<1>3. CASE u.drag = v.drag /\ u.grab = v.grab /\ (Sizing(v) => Sizing(u))
  <2>1. \A i \in 1 .. Len(d.annos) : At(e, v, i) = At(d, u, i)
    BY <1>1, <1>3 DEF At
  <2>2. \A t \in Seq(AnnoSet) : Future(e, v, t) => Future(d, u, t)
    BY <1>1, <1>3, <2>1, FutureSame
  <2>3. Faithful(e, v)
    BY <1>1, <2>2 DEF Sound, Faithful
  <2> QED
    BY <1>1, <2>3 DEF Sound, e
<1> QED
  BY <1>2, <1>3

-----------------------------------------------------------------------------
(* What the handlers do to it.                                             *)

\* the selected get the attribute v
LEMMA SetIs ==
  ASSUME NEW d \in Docs, NEW v \in Attrs
  PROVE  LET e == Update(d, Selected(d), LAMBDA a : [a EXCEPT !.attr = v]) IN
         /\ e \in Docs /\ Len(e.annos) = Len(d.annos) /\ e.sel = d.sel
         /\ e.undo = d.undo /\ e.redo = d.redo /\ e.region = d.region /\ e.snap = d.snap
         /\ \A i \in 1 .. Len(d.annos) :
              /\ e.annos[i].id = d.annos[i].id /\ e.annos[i].at = d.annos[i].at
              /\ e.annos[i].sel = d.annos[i].sel
              /\ e.annos[i].attr = IF d.annos[i].sel THEN v ELSE d.annos[i].attr
<1> DEFINE e == Update(d, Selected(d), LAMBDA a : [a EXCEPT !.attr = v])
<1>1. Alike(d, e) /\ e.region = d.region /\ e.sel = d.sel /\ e.snap = d.snap
  BY UpdateAlike, Zenon
<1>2. DOMAIN d.annos = 1 .. Len(d.annos) /\ \A i \in 1 .. Len(d.annos) : d.annos[i] \in AnnoSet
  BY DEF Docs
<1>3. e.annos = [i \in 1 .. Len(d.annos) |-> IF i \in Selected(d) THEN [d.annos[i] EXCEPT !.attr = v]
                                             ELSE d.annos[i]]
  BY <1>2 DEF Update, Docs
<1> HIDE DEF e
<1>4. ASSUME NEW i \in 1 .. Len(d.annos)
      PROVE  /\ e.annos[i].id = d.annos[i].id /\ e.annos[i].at = d.annos[i].at
             /\ e.annos[i].sel = d.annos[i].sel
             /\ e.annos[i].attr = IF d.annos[i].sel THEN v ELSE d.annos[i].attr
  <2> DEFINE a == d.annos[i]
  <2>1. a \in AnnoSet /\ (i \in Selected(d) <=> a.sel)
    BY <1>2 DEF Selected
  <2>2. e.annos[i] = IF i \in Selected(d) THEN [a EXCEPT !.attr = v] ELSE a
    BY <1>3, Zenon
  <2> HIDE DEF a
  <2>3. /\ [a EXCEPT !.attr = v].id = a.id /\ [a EXCEPT !.attr = v].at = a.at
        /\ [a EXCEPT !.attr = v].sel = a.sel /\ [a EXCEPT !.attr = v].attr = v
    BY <2>1 DEF AnnoSet
  <2>4. /\ e.annos[i].id = a.id /\ e.annos[i].at = a.at /\ e.annos[i].sel = a.sel
        /\ e.annos[i].attr = IF a.sel THEN v ELSE a.attr
    BY <2>1, <2>2, <2>3
  <2> QED
    BY <2>4 DEF a
<1>5. /\ e \in Docs /\ Len(e.annos) = Len(d.annos) /\ e.undo = d.undo /\ e.redo = d.redo
  BY <1>1 DEF Alike
<1> QED
  BY <1>1, <1>4, <1>5, Zenon DEF e

\* the sizes and colours of the selected, recorded and set
Recorded(d)    == Push(d, ForSelected(d, LAMBDA i : [k |-> "attr", i |-> i, v |-> d.annos[i].attr]))
Painting(e, v) == Update(e, Selected(e), LAMBDA a : [a EXCEPT !.attr = v])

\* The gesture that has recorded the sizes and colours sets them.
LEMMA SetSound ==
  ASSUME NEW d \in Docs, NEW u, Sound(d, u), Sizing(u), NEW v \in Attrs
  PROVE  Sound(Painting(d, v), u)
<1> DEFINE e == Update(d, Selected(d), LAMBDA a : [a EXCEPT !.attr = v])
<1>1. /\ e \in Docs /\ Len(e.annos) = Len(d.annos) /\ e.sel = d.sel
      /\ e.undo = d.undo /\ e.redo = d.redo /\ e.region = d.region /\ e.snap = d.snap
      /\ \A i \in 1 .. Len(d.annos) :
           /\ e.annos[i].id = d.annos[i].id /\ e.annos[i].at = d.annos[i].at
           /\ e.annos[i].sel = d.annos[i].sel
           /\ e.annos[i].attr = IF d.annos[i].sel THEN v ELSE d.annos[i].attr
  BY SetIs, Zenon
<1> HIDE DEF e
<1>2. ASSUME NEW t \in Seq(AnnoSet), Future(e, u, t) PROVE Future(d, u, t)
  <2>1. Posed(e, u, t) /\ Len(t) = Len(d.annos)
    BY <1>1, <1>2 DEF Future, Posed
  <2>2. Posed(d, u, t)
    BY <1>1, <2>1 DEF Posed, At
  <2>3. CASE \A i \in 1 .. Len(t) : t[i].attr = e.annos[i].attr
    <3>1. Painted(d, u, t, v)
      BY <1>1, <2>1, <2>3 DEF Painted
    <3> QED
      BY <2>2, <3>1 DEF Future
  <2>4. CASE \E w \in Attrs : Painted(e, u, t, w)
    <3>1. PICK w \in Attrs : Painted(e, u, t, w)
      BY <2>4
    <3>2. Painted(d, u, t, w)
      BY <1>1, <2>1, <3>1 DEF Painted
    <3> QED
      BY <2>2, <3>2 DEF Future
  <2> QED
    BY <1>2, <2>3, <2>4 DEF Future
<1>3. One(e) /\ Armed(e) = Armed(d)
  BY <1>1 DEF Sound, One, Armed
<1>4. Sound(e, u)
  BY <1>1, <1>2, <1>3, SoundOn
<1> QED
  BY <1>4, Zenon DEF e, Painting

\* One item for each of the selected.
LEMMA ItemsFor ==
  ASSUME NEW d \in Docs
  PROVE  /\ LET g == ForSelected(d, LAMBDA i : [k |-> "attr", i |-> i, v |-> d.annos[i].attr]) IN
            /\ g \in Seq(Items) /\ Len(g) = Cardinality(Selected(d))
            /\ \A j \in 1 .. Len(g) :
                 /\ g[j].k = "attr" /\ g[j].i = InOrder(Selected(d))[j]
                 /\ g[j].v = d.annos[InOrder(Selected(d))[j]].attr
         /\ \A z \in Int :
              LET g == ForSelected(d, LAMBDA i : [k |-> "move", i |-> i, d |-> z]) IN
              /\ g \in Seq(Items) /\ Len(g) = Cardinality(Selected(d))
              /\ \A j \in 1 .. Len(g) :
                   g[j].k = "move" /\ g[j].i = InOrder(Selected(d))[j] /\ g[j].d = z
<1> DEFINE S == Selected(d)
           m == Len(d.annos)
           c == Cardinality(S)
<1>1. m \in Nat /\ S \in SUBSET (1 .. m)
  BY SelectedIs
<1> HIDE DEF m, S
<1>2. c \in Nat /\ DOMAIN InOrder(S) = 1 .. c
  BY <1>1, InOrderOf
<1> HIDE DEF c
<1>3. LET g == ForSelected(d, LAMBDA i : [k |-> "attr", i |-> i, v |-> d.annos[i].attr]) IN
      /\ g \in Seq(Items) /\ Len(g) = c
      /\ \A j \in 1 .. Len(g) :
           g[j].k = "attr" /\ g[j].i = InOrder(S)[j] /\ g[j].v = d.annos[InOrder(S)[j]].attr
  <2> DEFINE f == [n \in 1 .. c |-> [k |-> "attr", i |-> InOrder(S)[n], v |-> d.annos[InOrder(S)[n]].attr]]
  <2>1. f = ForSelected(d, LAMBDA i : [k |-> "attr", i |-> i, v |-> d.annos[i].attr])
    BY <1>2 DEF ForSelected, S
  <2>2. f \in Seq(Items)
    <3>1. ForSelected(d, LAMBDA i : [k |-> "attr", i |-> i, v |-> d.annos[i].attr]) \in Seq(Items)
      BY ForSelectedIs, Zenon
    <3> HIDE DEF f
    <3> QED
      BY <2>1, <3>1, Zenon
  <2>3. DOMAIN f = 1 .. c /\ \A j \in 1 .. c :
          f[j].k = "attr" /\ f[j].i = InOrder(S)[j] /\ f[j].v = d.annos[InOrder(S)[j]].attr
    OBVIOUS
  <2> HIDE DEF f
  <2>4. Len(f) = c
    BY <1>2, <2>2, <2>3
  <2>5. /\ f \in Seq(Items) /\ Len(f) = c
        /\ \A j \in 1 .. Len(f) :
             f[j].k = "attr" /\ f[j].i = InOrder(S)[j] /\ f[j].v = d.annos[InOrder(S)[j]].attr
    BY <2>2, <2>3, <2>4
  <2> QED
    BY <2>1, <2>5, Zenon
<1>4. ASSUME NEW z \in Int
      PROVE  LET g == ForSelected(d, LAMBDA i : [k |-> "move", i |-> i, d |-> z]) IN
             /\ g \in Seq(Items) /\ Len(g) = c
             /\ \A j \in 1 .. Len(g) : g[j].k = "move" /\ g[j].i = InOrder(S)[j] /\ g[j].d = z
  <2> DEFINE f == [n \in 1 .. c |-> [k |-> "move", i |-> InOrder(S)[n], d |-> z]]
  <2>1. f = ForSelected(d, LAMBDA i : [k |-> "move", i |-> i, d |-> z])
    BY <1>2 DEF ForSelected, S
  <2>2. f \in Seq(Items)
    <3>1. ForSelected(d, LAMBDA i : [k |-> "move", i |-> i, d |-> z]) \in Seq(Items)
      BY ForSelectedIs, Zenon
    <3> HIDE DEF f
    <3> QED
      BY <2>1, <3>1, Zenon
  <2>3. DOMAIN f = 1 .. c
        /\ \A j \in 1 .. c : f[j].k = "move" /\ f[j].i = InOrder(S)[j] /\ f[j].d = z
    OBVIOUS
  <2> HIDE DEF f
  <2>4. Len(f) = c
    BY <1>2, <2>2, <2>3
  <2>5. /\ f \in Seq(Items) /\ Len(f) = c
        /\ \A j \in 1 .. Len(f) : f[j].k = "move" /\ f[j].i = InOrder(S)[j] /\ f[j].d = z
    BY <2>2, <2>3, <2>4
  <2> QED
    BY <2>1, <2>5, Zenon
<1> QED
  BY <1>3, <1>4, Zenon DEF S, c

LEMMA SelectedAt ==
  ASSUME NEW d \in Docs
  PROVE  /\ Selected(d) \in SUBSET (1 .. Len(d.annos))
         /\ \A i \in 1 .. Len(d.annos) : i \in Selected(d) <=> d.annos[i].sel
         /\ \A j \in 1 .. Cardinality(Selected(d)) : InOrder(Selected(d))[j] \in Selected(d)
<1>1. Selected(d) \in SUBSET (1 .. Len(d.annos)) /\ Len(d.annos) \in Nat
      /\ DOMAIN d.annos = 1 .. Len(d.annos)
  BY SelectedIs
<1>2. \A i \in 1 .. Len(d.annos) : i \in Selected(d) <=> d.annos[i].sel
  BY <1>1 DEF Selected
<1>3. \A j \in 1 .. Cardinality(Selected(d)) : InOrder(Selected(d))[j] \in Selected(d)
  BY <1>1, InOrderOf
<1> QED
  BY <1>1, <1>2, <1>3

\* Recording the sizes and colours of the selected and setting them.
LEMMA RecordSound ==
  ASSUME NEW d \in Docs, NEW u, Sound(d, u), NEW v \in Attrs, NEW w,
         \A i \in 1 .. Len(d.annos) : At(d, w, i) = At(d, u, i)
  PROVE  Sound(Painting(Recorded(d), v), w)
<1> DEFINE g == ForSelected(d, LAMBDA i : [k |-> "attr", i |-> i, v |-> d.annos[i].attr])
           e == Push(d, g)
           f == Update(e, Selected(e), LAMBDA a : [a EXCEPT !.attr = v])
           S == Selected(d)
           n == Len(d.annos)
           r == Armed(d)
<1>1. /\ g \in Seq(Items) /\ Len(g) = Cardinality(S)
      /\ \A j \in 1 .. Len(g) :
           g[j].k = "attr" /\ g[j].i = InOrder(S)[j] /\ g[j].v = d.annos[InOrder(S)[j]].attr
  BY ItemsFor, Zenon
<1>2. /\ S \in SUBSET (1 .. n) /\ \A i \in 1 .. n : i \in S <=> d.annos[i].sel
      /\ \A j \in 1 .. Cardinality(S) : InOrder(S)[j] \in S
  BY SelectedAt
<1> HIDE DEF g
<1>3. e \in Docs /\ e.annos = d.annos /\ e.region = d.region /\ e.sel = d.sel /\ e.snap = d.snap
  BY <1>1, PushIs
<1> HIDE DEF e
<1>4. /\ f \in Docs /\ Len(f.annos) = n /\ f.sel = d.sel
      /\ f.undo = e.undo /\ f.redo = e.redo /\ f.region = d.region /\ f.snap = d.snap
      /\ \A i \in 1 .. n :
           /\ f.annos[i].id = d.annos[i].id /\ f.annos[i].at = d.annos[i].at
           /\ f.annos[i].sel = d.annos[i].sel
           /\ f.annos[i].attr = IF d.annos[i].sel THEN v ELSE d.annos[i].attr
  <2>1. /\ f \in Docs /\ Len(f.annos) = Len(e.annos) /\ f.sel = e.sel
        /\ f.undo = e.undo /\ f.redo = e.redo /\ f.region = e.region /\ f.snap = e.snap
        /\ \A i \in 1 .. Len(e.annos) :
             /\ f.annos[i].id = e.annos[i].id /\ f.annos[i].at = e.annos[i].at
             /\ f.annos[i].sel = e.annos[i].sel
             /\ f.annos[i].attr = IF e.annos[i].sel THEN v ELSE e.annos[i].attr
    BY <1>3, SetIs, Zenon
  <2> HIDE DEF f
  <2> QED
    BY <1>3, <2>1, Zenon
<1> HIDE DEF f, S, n
<1>5. One(d) /\ RedoDrawn(d) /\ One(f) /\ Armed(f) = r /\ r \in Regions
  <2>1. One(d) /\ RedoDrawn(d)
    BY DEF Sound
  <2>2. One(f) /\ Armed(f) = Armed(d)
    BY <1>4, <2>1 DEF One, Armed
  <2> QED
    BY <2>1, <2>2, ArmedIs
<1> HIDE DEF r
<1>6. ASSUME NEW t \in Seq(AnnoSet), Len(t) = n, NEW x \in Attrs,
             \A i \in 1 .. n :
               /\ t[i].id = d.annos[i].id /\ t[i].at = At(d, u, i)
               /\ t[i].attr = IF d.annos[i].sel THEN x ELSE d.annos[i].attr
      PROVE  Told(e.undo, Picture(t, r)) /\ RedoDrawn(e)
  <2> DEFINE s == [i \in 1 .. n |-> [t[i] EXCEPT !.attr = d.annos[i].attr]]
  <2>1. \A i \in 1 .. n : t[i] \in AnnoSet /\ d.annos[i].attr \in Attrs
    <3>1. \A i \in 1 .. n : d.annos[i].attr \in Attrs
      BY ListIs DEF n
    <3> QED
      BY <1>6, <3>1
  <2>2. \A i \in 1 .. n :
           /\ s[i] \in AnnoSet /\ s[i].id = t[i].id /\ s[i].at = t[i].at /\ s[i].attr = d.annos[i].attr
           /\ s[i] = [t[i] EXCEPT !.attr = d.annos[i].attr]
    <3> TAKE i \in 1 .. n
    <3> DEFINE a == t[i]
               y == d.annos[i].attr
    <3>1. a \in AnnoSet /\ y \in Attrs
      BY <2>1
    <3>2. s[i] = [a EXCEPT !.attr = y]
      OBVIOUS
    <3> HIDE DEF a, y, s
    <3>3. [a EXCEPT !.attr = y] \in AnnoSet /\ [a EXCEPT !.attr = y].id = a.id
          /\ [a EXCEPT !.attr = y].at = a.at /\ [a EXCEPT !.attr = y].attr = y
      BY <3>1 DEF AnnoSet
    <3>4. /\ s[i] \in AnnoSet /\ s[i].id = a.id /\ s[i].at = a.at /\ s[i].attr = y
          /\ s[i] = [a EXCEPT !.attr = y]
      BY <3>2, <3>3, Zenon
    <3> QED
      BY <3>4 DEF a, y
  <2>3. s \in Seq(AnnoSet) /\ Len(s) = n
    <3>1. s \in [1 .. n -> AnnoSet] /\ n \in Nat
      BY <1>6, <2>2
    <3> HIDE DEF s
    <3> QED
      BY <3>1, IsSeq
  <2> HIDE DEF s
  <2>4. Future(d, u, s)
    BY <1>6, <2>2, <2>3 DEF Future, Posed, n
  <2>5. Told(d.undo, Picture(s, r))
    BY <2>3, <2>4 DEF Sound, Faithful, Tells, r
  <2>6. \A j \in 1 .. Len(g) : g[j].k \in Edits1 /\ g[j].i = InOrder(S)[j]
    BY <1>1 DEF Edits1
  <2>7. ASSUME NEW j \in 1 .. Len(g) PROVE Bare(s[g[j].i]) = Bare(Edited(t[g[j].i], g[j]))
    <3> DEFINE i == g[j].i
    <3>1. i \in 1 .. n /\ g[j].v = d.annos[i].attr /\ g[j].k = "attr"
      BY <1>1, <1>2
    <3>2. s[i] = [t[i] EXCEPT !.attr = g[j].v]
      BY <2>2, <3>1, Zenon
    <3>3. Edited(t[i], g[j]) = [t[i] EXCEPT !.attr = g[j].v]
      BY <3>1 DEF Edited
    <3> QED
      BY <3>2, <3>3
  <2>8. ASSUME NEW i \in 1 .. n, i \notin S PROVE Bare(s[i]) = Bare(t[i])
    <3>1. s[i] \in AnnoSet /\ t[i] \in AnnoSet /\ s[i].attr = t[i].attr /\ s[i].id = t[i].id
          /\ s[i].at = t[i].at
      BY <1>2, <1>6, <2>1, <2>2, <2>8
    <3> QED
      BY <3>1, BareSame
  <2>9. Shows(g, Picture(t, r), Picture(s, r))
    <3>1. Len(t) = Len(s) /\ S \in SUBSET (1 .. Len(t)) /\ Len(t) = n
      BY <1>2, <1>6, <2>3
    <3>2. \A i \in 1 .. Len(t) : i \notin S => Bare(s[i]) = Bare(t[i])
      BY <2>8, <3>1
    <3>3. \A j \in 1 .. Len(g) : Bare(s[g[j].i]) = Bare(Edited(t[g[j].i], g[j]))
      BY <2>7
    <3>4. g \in Seq(Items) /\ Len(g) = Cardinality(S) /\ r \in Regions /\ s \in Seq(AnnoSet)
      BY <1>1, <1>5, <2>3
    <3> QED
      BY <2>6, <3>1, <3>2, <3>3, <3>4, ShowsEdits
  <2>10. Picture(t, r) \in Docs
    BY <1>5, PictureIs
  <2> QED
    BY <1>1, <1>5, <2>5, <2>9, <2>10, PushTells DEF e
<1>7. ASSUME NEW t \in Seq(AnnoSet), Future(f, w, t)
      PROVE  Told(e.undo, Picture(t, r)) /\ RedoDrawn(e)
  <2>1. /\ Len(t) = n
        /\ \A i \in 1 .. n : t[i].id = d.annos[i].id /\ t[i].at = At(d, u, i)
    <3>1. Posed(f, w, t) /\ Len(t) = n
      BY <1>4, <1>7 DEF Future, Posed
    <3>2. \A i \in 1 .. n : At(f, w, i) = At(d, w, i)
      BY <1>4 DEF At
    <3>3. \A i \in 1 .. n : At(d, w, i) = At(d, u, i)
      BY DEF n
    <3> QED
      BY <1>4, <3>1, <3>2, <3>3 DEF Posed
  <2>2. \E x \in Attrs : \A i \in 1 .. n : t[i].attr = IF d.annos[i].sel THEN x ELSE d.annos[i].attr
    <3>1. CASE \A i \in 1 .. Len(t) : t[i].attr = f.annos[i].attr
      BY <1>4, <2>1, <3>1
    <3>2. CASE \E x \in Attrs : Painted(f, w, t, x)
      <4>1. PICK x \in Attrs : Painted(f, w, t, x)
        BY <3>2
      <4>2. \A i \in 1 .. n : t[i].attr = IF d.annos[i].sel THEN x ELSE d.annos[i].attr
        BY <1>4, <2>1, <4>1 DEF Painted
      <4> QED
        BY <4>2
    <3> QED
      BY <1>7, <3>1, <3>2 DEF Future
  <2>3. PICK x \in Attrs : \A i \in 1 .. n : t[i].attr = IF d.annos[i].sel THEN x ELSE d.annos[i].attr
    BY <2>2
  <2> QED
    BY <1>6, <2>1, <2>3
<1>8. Faithful(f, w)
  BY <1>4, <1>5, <1>7 DEF Faithful, Tells
<1>9. RedoDrawn(f)
  <2>1. CASE g = <<>>
    <3>1. e.redo = d.redo
      BY <2>1, Zenon DEF e, Push
    <3> QED
      BY <1>4, <1>5, <3>1 DEF RedoDrawn
  <2>2. CASE g # <<>>
    <3>1. e.redo = <<>> /\ DOMAIN <<>> = {}
      BY <1>1, <2>2, PushIs DEF e
    <3> QED
      BY <1>4, <3>1 DEF RedoDrawn
  <2> QED
    BY <2>1, <2>2
<1>10. Sound(f, w)
  BY <1>5, <1>8, <1>9 DEF Sound
<1> QED
  BY <1>10, Zenon DEF f, e, g, Painting, Recorded

\* The list as it is when the gesture that goes on is taken back.
LEMMA PoseIs ==
  ASSUME NEW d \in Docs, NEW u, u.grab \in Int
  PROVE  \E s \in Seq(AnnoSet) :
           /\ Len(s) = Len(d.annos)
           /\ \A i \in 1 .. Len(d.annos) : s[i] = [d.annos[i] EXCEPT !.at = At(d, u, i)]
           /\ \A i \in 1 .. Len(d.annos) : /\ s[i].id = d.annos[i].id /\ s[i].attr = d.annos[i].attr
                                           /\ s[i].at = At(d, u, i) /\ At(d, u, i) \in Int
           /\ Future(d, u, s)
<1> DEFINE n == Len(d.annos)
           s == [i \in 1 .. n |-> [d.annos[i] EXCEPT !.at = At(d, u, i)]]
<1>1. n \in Nat /\ \A i \in 1 .. n : d.annos[i] \in AnnoSet /\ d.annos[i].at \in Int
  BY ListIs
<1>2. \A i \in 1 .. n : At(d, u, i) \in Int
  <2>1. \A x, y \in Int : x - y \in Int
    OBVIOUS
  <2> HIDE DEF n
  <2> QED
    BY <1>1, <2>1 DEF At
<1>3. \A i \in 1 .. n : s[i] = [d.annos[i] EXCEPT !.at = At(d, u, i)]
  OBVIOUS
<1>4. ASSUME NEW i \in 1 .. n
      PROVE  /\ s[i] \in AnnoSet /\ s[i].id = d.annos[i].id /\ s[i].attr = d.annos[i].attr
             /\ s[i].at = At(d, u, i)
  <2> DEFINE a == d.annos[i]
             z == At(d, u, i)
  <2>1. a \in AnnoSet /\ z \in Int
    BY <1>1, <1>2, Zenon
  <2>2. s[i] = [a EXCEPT !.at = z]
    BY <1>3, Zenon
  <2> HIDE DEF a, z, s
  <2>3. [a EXCEPT !.at = z] \in AnnoSet /\ [a EXCEPT !.at = z].id = a.id
        /\ [a EXCEPT !.at = z].attr = a.attr /\ [a EXCEPT !.at = z].at = z
    BY <2>1 DEF AnnoSet
  <2>4. s[i] \in AnnoSet /\ s[i].id = a.id /\ s[i].attr = a.attr /\ s[i].at = z
    BY <2>2, <2>3, Zenon
  <2> QED
    BY <2>4 DEF a, z
<1>5. s \in [1 .. n -> AnnoSet]
  BY <1>4
<1> HIDE DEF s
<1>6. s \in Seq(AnnoSet) /\ Len(s) = n
  BY <1>1, <1>5, IsSeq
<1>7. Future(d, u, s)
  BY <1>4, <1>6 DEF Future, Posed
<1>8. \A i \in 1 .. n : /\ s[i].id = d.annos[i].id /\ s[i].attr = d.annos[i].attr
                        /\ s[i].at = At(d, u, i) /\ At(d, u, i) \in Int
  BY <1>2, <1>4
<1> QED
  BY <1>3, <1>6, <1>7, <1>8, Zenon DEF n

\* Releasing the annotations that were dragged.
Released(d, u) ==
  IF u.grab = 0 THEN d
  ELSE Push(d, ForSelected(d, LAMBDA i : [k |-> "move", i |-> i, d |-> u.grab]))
LEMMA MovesSound ==
  ASSUME NEW d \in Docs, NEW u, u.grab \in Int, u.drag = "anno", Sound(d, u),
         NEW v, v.drag = "none", ~Sizing(v)
  PROVE  Sound(Released(d, u), v)
<1> DEFINE z == u.grab
           g == ForSelected(d, LAMBDA i : [k |-> "move", i |-> i, d |-> u.grab])
           e == Push(d, g)
           S == Selected(d)
           n == Len(d.annos)
           r == Armed(d)
<1>1. /\ g \in Seq(Items) /\ Len(g) = Cardinality(S)
      /\ \A j \in 1 .. Len(g) : g[j].k = "move" /\ g[j].i = InOrder(S)[j] /\ g[j].d = z
  <2>1. \A y \in Int :
          LET f == ForSelected(d, LAMBDA i : [k |-> "move", i |-> i, d |-> y]) IN
          /\ f \in Seq(Items) /\ Len(f) = Cardinality(S)
          /\ \A j \in 1 .. Len(f) : f[j].k = "move" /\ f[j].i = InOrder(S)[j] /\ f[j].d = y
    BY ItemsFor, Zenon
  <2> HIDE DEF S
  <2> QED
    BY <2>1, Zenon
<1>2. /\ S \in SUBSET (1 .. n) /\ \A i \in 1 .. n : i \in S <=> d.annos[i].sel
      /\ \A j \in 1 .. Cardinality(S) : InOrder(S)[j] \in S
  BY SelectedAt
<1>3. n \in Nat /\ d.annos \in Seq(AnnoSet)
      /\ \A i \in 1 .. n : d.annos[i] \in AnnoSet /\ d.annos[i].at \in Int
  BY ListIs
<1>4. One(d) /\ RedoDrawn(d) /\ r \in Regions
  BY ArmedIs DEF Sound
<1> HIDE DEF g, S, n, r
<1>5. PICK s \in Seq(AnnoSet) :
           /\ Len(s) = n
           /\ \A i \in 1 .. n : s[i] = [d.annos[i] EXCEPT !.at = At(d, u, i)]
           /\ \A i \in 1 .. n : /\ s[i].id = d.annos[i].id /\ s[i].attr = d.annos[i].attr
                                /\ s[i].at = At(d, u, i) /\ At(d, u, i) \in Int
           /\ Future(d, u, s)
  BY PoseIs, Zenon DEF n
<1>6. Told(d.undo, Picture(s, r))
  BY <1>5 DEF Sound, Faithful, Tells, r
<1>7. CASE u.grab = 0
  <2>1. Idle(d, u) /\ Idle(d, v)
    BY <1>7, IdleOf
  <2>2. Tells(d, d.annos)
    BY <2>1, TellsNow
  <2>3. Sound(d, v)
    BY <1>4, <2>1, <2>2, SoundNow
  <2> QED
    BY <1>7, <2>3, Zenon DEF Released
<1>8. CASE u.grab # 0
  <2>1. \A j \in 1 .. Len(g) : g[j].k \in Edits1 /\ g[j].i = InOrder(S)[j]
    BY <1>1 DEF Edits1
  <2>2. ASSUME NEW j \in 1 .. Len(g) PROVE Bare(s[g[j].i]) = Bare(Edited(d.annos[g[j].i], g[j]))
    <3> DEFINE i == g[j].i
               a == d.annos[g[j].i]
    <3>1. i \in 1 .. n /\ i \in S /\ g[j].d = z /\ g[j].k = "move"
      BY <1>1, <1>2
    <3>2. At(d, u, i) = a.at - z
      BY <1>2, <3>1 DEF At
    <3>3. s[i] = [a EXCEPT !.at = a.at - z]
      BY <1>5, <3>1, <3>2, Zenon
    <3>4. Edited(a, g[j]) = [a EXCEPT !.at = a.at - z]
      BY <3>1 DEF Edited
    <3> QED
      BY <3>3, <3>4
  <2>3. ASSUME NEW i \in 1 .. n, i \notin S PROVE Bare(s[i]) = Bare(d.annos[i])
    <3>1. At(d, u, i) = d.annos[i].at
      BY <1>2, <2>3 DEF At
    <3>2. s[i] \in AnnoSet /\ d.annos[i] \in AnnoSet
      BY <1>3, <1>5
    <3>3. s[i].id = d.annos[i].id /\ s[i].attr = d.annos[i].attr /\ s[i].at = d.annos[i].at
      BY <1>5, <3>1
    <3> QED
      BY <3>2, <3>3, BareSame
  <2>4. Shows(g, Picture(d.annos, r), Picture(s, r))
    <3>1. Len(d.annos) = Len(s) /\ S \in SUBSET (1 .. Len(d.annos)) /\ Len(d.annos) = n
      BY <1>2, <1>5 DEF n
    <3>2. \A i \in 1 .. Len(d.annos) : i \notin S => Bare(s[i]) = Bare(d.annos[i])
      BY <2>3, <3>1
    <3>3. \A j \in 1 .. Len(g) : Bare(s[g[j].i]) = Bare(Edited(d.annos[g[j].i], g[j]))
      BY <2>2
    <3>4. g \in Seq(Items) /\ Len(g) = Cardinality(S) /\ d.annos \in Seq(AnnoSet)
      BY <1>1, <1>3
    <3> QED
      BY <1>4, <2>1, <3>1, <3>2, <3>3, <3>4, ShowsEdits
  <2>5. Picture(d.annos, r) \in Docs
    BY <1>3, <1>4, PictureIs
  <2>6. Told(e.undo, Picture(d.annos, r)) /\ RedoDrawn(e)
    BY <1>1, <1>4, <1>6, <2>4, <2>5, PushTells
  <2>7. e \in Docs /\ e.annos = d.annos /\ e.region = d.region /\ e.sel = d.sel /\ e.snap = d.snap
    BY <1>1, PushIs
  <2> HIDE DEF e
  <2>8. One(e) /\ Armed(e) = r /\ Idle(e, v)
    <3>1. Idle(e, v)
      BY <2>7, IdleOf
    <3> QED
      BY <1>4, <2>7, <3>1 DEF One, Armed, r
  <2>9. Tells(e, e.annos)
    BY <2>6, <2>7, <2>8 DEF Tells
  <2>10. Sound(e, v)
    BY <2>6, <2>7, <2>8, <2>9, SoundNow
  <2> QED
    BY <1>8, <2>10, Zenon DEF e, g, Released
<1> QED
  BY <1>7, <1>8, Zenon

\* Releasing a corner.
LEMMA CornerSound ==
  ASSUME NEW d \in Docs, d.sel \in 0 .. Len(d.annos), NEW u, u.grab \in Int, u.drag = "corner",
         Sound(d, u), NEW v, v.drag = "none", ~Sizing(v)
  PROVE  Sound(IF d.sel = 0 \/ d.annos[d.sel].at = u.grab THEN d
               ELSE Push(d, <<[k |-> "geom", i |-> d.sel, at |-> u.grab]>>), v)
<1> DEFINE it == [k |-> "geom", i |-> d.sel, at |-> u.grab]
           g == <<it>>
           e == Push(d, g)
           n == Len(d.annos)
           r == Armed(d)
<1>3. n \in Nat /\ d.annos \in Seq(AnnoSet)
      /\ \A i \in 1 .. n : d.annos[i] \in AnnoSet /\ d.annos[i].at \in Int
  BY ListIs
<1>4. One(d) /\ RedoDrawn(d) /\ r \in Regions
  BY ArmedIs DEF Sound
<1>5. CASE d.sel = 0 \/ d.annos[d.sel].at = u.grab
  <2>1. d.sel \in 1 .. n => u.grab = d.annos[d.sel].at
    BY <1>3, <1>5
  <2>2. Idle(d, u) /\ Idle(d, v)
    BY <2>1, IdleOf
  <2>3. Tells(d, d.annos)
    BY <2>2, TellsNow
  <2> QED
    BY <1>4, <1>5, <2>2, <2>3, SoundNow
<1>6. CASE ~(d.sel = 0 \/ d.annos[d.sel].at = u.grab)
  <2>1. d.sel \in 1 .. n /\ d.sel \in Places
    BY <1>3, <1>6 DEF Places
  <2>2. it \in Items /\ it.k = "geom" /\ it.i = d.sel /\ it.at = u.grab
    BY <2>1 DEF Items
  <2> HIDE DEF it
  <2>3. g \in Seq(Items)
    BY <2>2
  <2> HIDE DEF g, n, r
  <2>4. PICK s \in Seq(AnnoSet) :
             /\ Len(s) = n
             /\ \A i \in 1 .. n : s[i] = [d.annos[i] EXCEPT !.at = At(d, u, i)]
             /\ \A i \in 1 .. n : /\ s[i].id = d.annos[i].id /\ s[i].attr = d.annos[i].attr
                                  /\ s[i].at = At(d, u, i) /\ At(d, u, i) \in Int
             /\ Future(d, u, s)
    BY PoseIs, Zenon DEF n
  <2>5. Told(d.undo, Picture(s, r))
    BY <2>4 DEF Sound, Faithful, Tells, r
  <2>6. ASSUME NEW j \in 1 .. n
        PROVE  Bare(s[j]) = Bare(IF j = it.i THEN Edited(d.annos[j], it) ELSE d.annos[j])
    <3>1. CASE j = it.i
      <4>1. At(d, u, j) = u.grab
        BY <2>2, <3>1 DEF At
      <4>2. s[j] = [d.annos[j] EXCEPT !.at = u.grab]
        BY <2>4, <4>1, Zenon
      <4>3. Edited(d.annos[j], it) = [d.annos[j] EXCEPT !.at = u.grab]
        BY <2>2 DEF Edited
      <4> QED
        BY <3>1, <4>2, <4>3
    <3>2. CASE j # it.i
      <4>1. At(d, u, j) = d.annos[j].at
        BY <2>2, <3>2 DEF At
      <4>2. s[j] \in AnnoSet /\ d.annos[j] \in AnnoSet
        BY <1>3, <2>4 DEF n
      <4>3. s[j].id = d.annos[j].id /\ s[j].attr = d.annos[j].attr /\ s[j].at = d.annos[j].at
        BY <2>4, <4>1
      <4>4. Bare(s[j]) = Bare(d.annos[j])
        BY <4>2, <4>3, BareSame
      <4> QED
        BY <3>2, <4>4
    <3> QED
      BY <3>1, <3>2
  <2>7. /\ Sight(Applied(Picture(d.annos, r), it)) = Picture(s, r)
        /\ AsDrawn(Inverted(Picture(d.annos, r), it))
    <3>1. Len(d.annos) = Len(s) /\ Len(d.annos) = n /\ it.k \in Edits1 /\ it.i \in 1 .. Len(d.annos)
      BY <2>1, <2>2, <2>4 DEF n, Edits1
    <3>2. \A j \in 1 .. Len(d.annos) :
            Bare(s[j]) = Bare(IF j = it.i THEN Edited(d.annos[j], it) ELSE d.annos[j])
      BY <2>6, <3>1
    <3> QED
      BY <1>3, <1>4, <2>2, <2>4, <3>1, <3>2, SeenEdit DEF r
  <2>8. Picture(d.annos, r) \in Docs /\ Picture(s, r) \in Docs
    BY <1>3, <1>4, PictureIs DEF r
  <2>9. Shows(g, Picture(d.annos, r), Picture(s, r))
    BY <2>2, <2>7, <2>8, ShowsOne DEF g
  <2>10. Told(e.undo, Picture(d.annos, r)) /\ RedoDrawn(e)
    BY <1>4, <2>3, <2>5, <2>8, <2>9, PushTells
  <2>11. e \in Docs /\ e.annos = d.annos /\ e.region = d.region /\ e.sel = d.sel /\ e.snap = d.snap
    BY <2>3, PushIs
  <2> HIDE DEF e
  <2>12. One(e) /\ Armed(e) = r /\ Idle(e, v)
    <3>1. Idle(e, v)
      BY <2>11, IdleOf
    <3> QED
      BY <1>4, <2>11, <3>1 DEF One, Armed, r
  <2>13. Tells(e, e.annos)
    BY <2>10, <2>11, <2>12 DEF Tells
  <2>14. Sound(e, v)
    BY <2>10, <2>11, <2>12, <2>13, SoundNow
  <2> QED
    BY <1>6, <2>14, Zenon DEF e, g, it
<1> QED
  BY <1>5, <1>6

\* One annotation is moved or changed.
LEMMA OneEdited ==
  ASSUME NEW d, DocOk(d), NEW it \in Items, it.k \in Edits1, it.i \in 1 .. Len(d.annos)
  PROVE  LET e == Applied(d, it) IN
         /\ e \in Docs /\ Len(e.annos) = Len(d.annos) /\ e.sel = d.sel
         /\ e.undo = d.undo /\ e.redo = d.redo /\ e.region = d.region /\ e.snap = d.snap
         /\ \A j \in 1 .. Len(d.annos) :
              e.annos[j] = IF j = it.i THEN Edited(d.annos[j], it) ELSE d.annos[j]
<1>1. d \in Docs /\ d.sel \in 0 .. Len(d.annos) /\ Len(d.annos) \in Nat
  BY ListIs DEF DocOk
<1>2. FitsIn(it, Len(d.annos)) /\ it.k # "region"
  BY DEF FitsIn, Edits1, Grows, Shrinks, Plain
<1>3. /\ Len(ItemAnnos(d, it)) = Len(d.annos)
      /\ \A j \in 1 .. Len(d.annos) :
           ItemAnnos(d, it)[j] = IF j = it.i THEN Edited(d.annos[j], it) ELSE d.annos[j]
  BY <1>1, <1>2, EditsIs
<1> DEFINE e == Applied(d, it)
<1>4. e \in Docs
  BY <1>1, ItemTotal
<1>5. /\ e.annos = ItemAnnos(d, it) /\ e.region = d.region
      /\ e.sel = IF d.sel > Len(ItemAnnos(d, it)) THEN 0 ELSE d.sel
      /\ e.undo = d.undo /\ e.redo = d.redo /\ e.snap = d.snap
  BY <1>1, <1>2, AppliedIs
<1> HIDE DEF e
<1>6. e.sel = d.sel
  BY <1>1, <1>3, <1>5
<1>7. /\ e \in Docs /\ Len(e.annos) = Len(d.annos) /\ e.sel = d.sel
      /\ e.undo = d.undo /\ e.redo = d.redo /\ e.region = d.region /\ e.snap = d.snap
      /\ \A j \in 1 .. Len(d.annos) :
           e.annos[j] = IF j = it.i THEN Edited(d.annos[j], it) ELSE d.annos[j]
  BY <1>3, <1>4, <1>5, <1>6, Zenon
<1> QED
  BY <1>7 DEF e

\* what an edit of the position leaves
LEMMA EditedAt ==
  ASSUME NEW a \in AnnoSet, NEW it \in Items, it.k \in {"move", "geom"}
  PROVE  /\ Edited(a, it).id = a.id /\ Edited(a, it).attr = a.attr /\ Edited(a, it).sel = a.sel
         /\ it.k = "move" => Edited(a, it).at = a.at - it.d
         /\ it.k = "geom" => Edited(a, it).at = it.at
<1>1. CASE it.k = "move"
  <2>1. it.d \in Int
    BY <1>1, ItemShapes
  <2>2. Edited(a, it) = [a EXCEPT !.at = @ - it.d]
    BY <1>1 DEF Edited
  <2> QED
    BY <1>1, <2>1, <2>2 DEF AnnoSet
<1>2. CASE it.k = "geom"
  <2>1. it.at \in Int
    BY <1>2, ItemShapes
  <2>2. Edited(a, it) = [a EXCEPT !.at = it.at]
    BY <1>2 DEF Edited
  <2> QED
    BY <1>2, <2>1, <2>2 DEF AnnoSet
<1> QED
  BY <1>1, <1>2

\* An abort puts back what the gesture moved.
LEMMA RevertedIs ==
  ASSUME DocOk(doc), ui.grab \in Int, ~SeveralMoved
  PROVE  LET e == Reverted IN
         /\ e \in Docs /\ Len(e.annos) = Len(doc.annos) /\ e.sel = doc.sel
         /\ e.undo = doc.undo /\ e.redo = doc.redo /\ e.region = doc.region /\ e.snap = doc.snap
         /\ \A j \in 1 .. Len(doc.annos) :
              /\ e.annos[j].id = doc.annos[j].id /\ e.annos[j].attr = doc.annos[j].attr
              /\ e.annos[j].sel = doc.annos[j].sel /\ e.annos[j].at = At(doc, ui, j)
<1> DEFINE n == Len(doc.annos)
           k == doc.sel
           e == Reverted
<1>1. /\ doc \in Docs /\ k \in 0 .. n /\ n \in Nat
      /\ \A j \in 1 .. n : doc.annos[j] \in AnnoSet /\ doc.annos[j].at \in Int
  BY ListIs DEF DocOk
<1>2. Selected(doc) \in SUBSET (1 .. n) /\ \A j \in 1 .. n : j \in Selected(doc) <=> doc.annos[j].sel
  BY <1>1, SelectedAt
<1>3. ASSUME ui.drag = "anno", ui.grab # 0
      PROVE  k # 0 /\ \A j \in 1 .. n : doc.annos[j].sel <=> j = k
  <2>1. Selected(doc) = {k}
    BY <1>3 DEF SeveralMoved
  <2>2. k \in 1 .. n
    BY <1>2, <2>1
  <2>3. \A j \in 1 .. n : j \in Selected(doc) <=> j = k
    BY <2>1
  <2> QED
    BY <1>1, <1>2, <2>2, <2>3
<1>4. CASE ui.drag = "anno" /\ k # 0
  <2> DEFINE it == [k |-> "move", i |-> k, d |-> ui.grab]
  <2>1. k \in 1 .. n /\ k \in Places
    BY <1>1, <1>4 DEF Places
  <2>2. it \in Items /\ it.k \in Edits1 /\ it.i = k /\ it.k = "move" /\ it.d = ui.grab
    BY <2>1 DEF Items, Edits1
  <2>3. e = Applied(doc, it)
    BY <1>4 DEF Reverted
  <2> HIDE DEF it, e
  <2>4. \A j \in 1 .. n :
          /\ Edited(doc.annos[j], it).id = doc.annos[j].id
          /\ Edited(doc.annos[j], it).attr = doc.annos[j].attr
          /\ Edited(doc.annos[j], it).sel = doc.annos[j].sel
          /\ Edited(doc.annos[j], it).at = doc.annos[j].at - ui.grab
    BY <1>1, <2>2, EditedAt
  <2>5. /\ e \in Docs /\ Len(e.annos) = n /\ e.sel = doc.sel
        /\ e.undo = doc.undo /\ e.redo = doc.redo /\ e.region = doc.region /\ e.snap = doc.snap
        /\ \A j \in 1 .. n :
             e.annos[j] = IF j = it.i THEN Edited(doc.annos[j], it) ELSE doc.annos[j]
    BY <2>1, <2>2, <2>3, OneEdited
  <2>6. ASSUME NEW j \in 1 .. n
        PROVE  /\ e.annos[j].id = doc.annos[j].id /\ e.annos[j].attr = doc.annos[j].attr
               /\ e.annos[j].sel = doc.annos[j].sel /\ e.annos[j].at = At(doc, ui, j)
    <3>0. \A x \in Int : x - 0 = x
      OBVIOUS
    <3>1. At(doc, ui, j) = IF doc.annos[j].sel THEN doc.annos[j].at - ui.grab ELSE doc.annos[j].at
      BY <1>4 DEF At
    <3>2. ui.grab # 0 => (doc.annos[j].sel <=> j = k)
      BY <1>3, <1>4
    <3>3. At(doc, ui, j) = IF j = k THEN doc.annos[j].at - ui.grab ELSE doc.annos[j].at
      BY <1>1, <3>0, <3>1, <3>2
    <3>4. e.annos[j] = IF j = k THEN Edited(doc.annos[j], it) ELSE doc.annos[j]
      BY <2>2, <2>5
    <3> QED
      BY <2>4, <3>3, <3>4, Zenon
  <2> QED
    BY <2>5, <2>6, Zenon DEF e
<1>5. CASE ui.drag = "corner" /\ k # 0
  <2> DEFINE it == [k |-> "geom", i |-> k, at |-> ui.grab]
  <2>1. k \in 1 .. n /\ k \in Places
    BY <1>1, <1>5 DEF Places
  <2>2. it \in Items /\ it.k \in Edits1 /\ it.i = k /\ it.k = "geom" /\ it.at = ui.grab
    BY <2>1 DEF Items, Edits1
  <2>3. e = Applied(doc, it)
    BY <1>5 DEF Reverted
  <2> HIDE DEF it, e
  <2>4. \A j \in 1 .. n :
          /\ Edited(doc.annos[j], it).id = doc.annos[j].id
          /\ Edited(doc.annos[j], it).attr = doc.annos[j].attr
          /\ Edited(doc.annos[j], it).sel = doc.annos[j].sel
          /\ Edited(doc.annos[j], it).at = ui.grab
    BY <1>1, <2>2, EditedAt
  <2>5. /\ e \in Docs /\ Len(e.annos) = n /\ e.sel = doc.sel
        /\ e.undo = doc.undo /\ e.redo = doc.redo /\ e.region = doc.region /\ e.snap = doc.snap
        /\ \A j \in 1 .. n :
             e.annos[j] = IF j = it.i THEN Edited(doc.annos[j], it) ELSE doc.annos[j]
    BY <2>1, <2>2, <2>3, OneEdited
  <2>6. ASSUME NEW j \in 1 .. n
        PROVE  /\ e.annos[j].id = doc.annos[j].id /\ e.annos[j].attr = doc.annos[j].attr
               /\ e.annos[j].sel = doc.annos[j].sel /\ e.annos[j].at = At(doc, ui, j)
    <3>3. At(doc, ui, j) = IF j = k THEN ui.grab ELSE doc.annos[j].at
      BY <1>5 DEF At
    <3>4. e.annos[j] = IF j = k THEN Edited(doc.annos[j], it) ELSE doc.annos[j]
      BY <2>2, <2>5
    <3> QED
      BY <2>4, <3>3, <3>4
  <2> QED
    BY <2>5, <2>6, Zenon DEF e
<1>6. CASE ~(ui.drag = "anno" /\ k # 0) /\ ~(ui.drag = "corner" /\ k # 0)
  <2>1. e = doc
    BY <1>6 DEF Reverted
  <2>2. Idle(doc, ui)
    <3>1. ui.drag = "anno" => ui.grab = 0
      BY <1>3, <1>6
    <3>2. ui.drag = "corner" => doc.sel \notin 1 .. n
      BY <1>1, <1>6
    <3> QED
      BY <1>1, <3>1, <3>2, IdleOf
  <2>3. \A j \in 1 .. n : doc.annos[j].at = At(doc, ui, j)
    BY <2>2 DEF Idle
  <2> QED
    BY <1>1, <2>1, <2>3, Zenon
<1> QED
  BY <1>4, <1>5, <1>6

\* Aborting.
LEMMA AbortSound ==
  ASSUME DocOk(doc), ui.grab \in Int, ~SeveralMoved, Sound(doc, ui),
         NEW v, v.drag = "none", Sizing(v) => Sizing(ui)
  PROVE  Sound(Commit(Reverted), v)
<1> DEFINE e == Reverted
<1>1. /\ e \in Docs /\ Len(e.annos) = Len(doc.annos) /\ e.sel = doc.sel
      /\ e.undo = doc.undo /\ e.redo = doc.redo /\ e.region = doc.region /\ e.snap = doc.snap
      /\ \A j \in 1 .. Len(doc.annos) :
           /\ e.annos[j].id = doc.annos[j].id /\ e.annos[j].attr = doc.annos[j].attr
           /\ e.annos[j].sel = doc.annos[j].sel /\ e.annos[j].at = At(doc, ui, j)
  BY RevertedIs
<1> HIDE DEF e
<1>2. doc \in Docs /\ Idle(e, v)
  BY <1>1, IdleOf DEF DocOk
<1>3. \A j \in 1 .. Len(doc.annos) : At(e, v, j) = At(doc, ui, j)
  BY <1>1, <1>2 DEF Idle
<1>4. \A t \in Seq(AnnoSet) : Future(e, v, t) => Future(doc, ui, t)
  BY <1>1, <1>2, <1>3, FutureSame
<1>5. One(e) /\ Armed(e) = Armed(doc)
  BY <1>1 DEF Sound, One, Armed
<1>6. Sound(e, v)
  BY <1>1, <1>2, <1>4, <1>5, SoundOn
<1>7. Sound(Commit(e), v)
  BY <1>1, <1>6, SoundCommit
<1> QED
  BY <1>7 DEF e

\* Dragging the selected.
LEMMA MovedIs ==
  ASSUME NEW d \in Docs, NEW z \in Int
  PROVE  LET e == Moved(d, z) IN
         /\ e \in Docs /\ Len(e.annos) = Len(d.annos) /\ e.sel = d.sel
         /\ e.undo = d.undo /\ e.redo = d.redo /\ e.region = d.region /\ e.snap = d.snap
         /\ \A i \in 1 .. Len(d.annos) :
              /\ e.annos[i].id = d.annos[i].id /\ e.annos[i].attr = d.annos[i].attr
              /\ e.annos[i].sel = d.annos[i].sel
              /\ e.annos[i].at = IF d.annos[i].sel THEN d.annos[i].at + z ELSE d.annos[i].at
<1> DEFINE e == Update(d, Selected(d), LAMBDA a : [a EXCEPT !.at = @ + z])
<1>1. Alike(d, e) /\ e.region = d.region /\ e.sel = d.sel /\ e.snap = d.snap
  BY UpdateAlike, Zenon
<1>2. DOMAIN d.annos = 1 .. Len(d.annos) /\ \A i \in 1 .. Len(d.annos) : d.annos[i] \in AnnoSet
  BY DEF Docs
<1>3. e.annos = [i \in 1 .. Len(d.annos) |->
                   IF i \in Selected(d) THEN [d.annos[i] EXCEPT !.at = @ + z] ELSE d.annos[i]]
  BY <1>2 DEF Update, Docs
<1> HIDE DEF e
<1>4. ASSUME NEW i \in 1 .. Len(d.annos)
      PROVE  /\ e.annos[i].id = d.annos[i].id /\ e.annos[i].attr = d.annos[i].attr
             /\ e.annos[i].sel = d.annos[i].sel
             /\ e.annos[i].at = IF d.annos[i].sel THEN d.annos[i].at + z ELSE d.annos[i].at
  <2> DEFINE a == d.annos[i]
  <2>1. a \in AnnoSet /\ (i \in Selected(d) <=> a.sel)
    BY <1>2 DEF Selected
  <2>2. e.annos[i] = IF i \in Selected(d) THEN [a EXCEPT !.at = @ + z] ELSE a
    BY <1>3, Zenon
  <2> HIDE DEF a
  <2>3. /\ [a EXCEPT !.at = @ + z].id = a.id /\ [a EXCEPT !.at = @ + z].attr = a.attr
        /\ [a EXCEPT !.at = @ + z].sel = a.sel /\ [a EXCEPT !.at = @ + z].at = a.at + z
    BY <2>1 DEF AnnoSet
  <2>4. /\ e.annos[i].id = a.id /\ e.annos[i].attr = a.attr /\ e.annos[i].sel = a.sel
        /\ e.annos[i].at = IF a.sel THEN a.at + z ELSE a.at
    BY <2>1, <2>2, <2>3
  <2> QED
    BY <2>4 DEF a
<1>5. /\ e \in Docs /\ Len(e.annos) = Len(d.annos) /\ e.undo = d.undo /\ e.redo = d.redo
  BY <1>1 DEF Alike
<1>6. Moved(d, z) = e
  BY Zenon DEF Moved, e
<1> QED
  BY <1>1, <1>4, <1>5, <1>6, Zenon

LEMMA DragSound ==
  ASSUME NEW d \in Docs, NEW u, u.grab \in Int, u.drag = "anno", Sound(d, u), NEW z \in Int,
         NEW v, v.drag = "anno", v.grab = u.grab + z, Sizing(v) => Sizing(u)
  PROVE  Sound(Moved(d, z), v)
<1> DEFINE e == Moved(d, z)
<1>1. /\ e \in Docs /\ Len(e.annos) = Len(d.annos) /\ e.sel = d.sel
      /\ e.undo = d.undo /\ e.redo = d.redo /\ e.region = d.region /\ e.snap = d.snap
      /\ \A i \in 1 .. Len(d.annos) :
           /\ e.annos[i].id = d.annos[i].id /\ e.annos[i].attr = d.annos[i].attr
           /\ e.annos[i].sel = d.annos[i].sel
           /\ e.annos[i].at = IF d.annos[i].sel THEN d.annos[i].at + z ELSE d.annos[i].at
  BY MovedIs
<1> HIDE DEF e
<1>2. \A i \in 1 .. Len(d.annos) : At(e, v, i) = At(d, u, i)
  <2> TAKE i \in 1 .. Len(d.annos)
  <2>1. d.annos[i].at \in Int
    BY ListIs
  <2>2. CASE d.annos[i].sel
    <3>1. e.annos[i].sel /\ e.annos[i].at = d.annos[i].at + z
      BY <1>1, <2>2
    <3>2. At(e, v, i) = e.annos[i].at - v.grab /\ At(d, u, i) = d.annos[i].at - u.grab
      BY <2>2, <3>1 DEF At
    <3> QED
      BY <2>1, <3>1, <3>2
  <2>3. CASE ~d.annos[i].sel
    BY <1>1, <2>3 DEF At
  <2> QED
    BY <2>2, <2>3
<1>3. \A t \in Seq(AnnoSet) : Future(e, v, t) => Future(d, u, t)
  BY <1>1, <1>2, FutureSame
<1>4. One(e) /\ Armed(e) = Armed(d)
  BY <1>1 DEF Sound, One, Armed
<1>5. Sound(e, v)
  BY <1>1, <1>3, <1>4, SoundOn
<1> QED
  BY <1>5 DEF e

\* Dragging a corner.
LEMMA DragCornerSound ==
  ASSUME NEW d \in Docs, d.sel \in 1 .. Len(d.annos), NEW u, u.drag = "corner", Sound(d, u),
         NEW z \in Int
  PROVE  Sound([d EXCEPT !.annos[d.sel].at = z], u)
<1> DEFINE e == [d EXCEPT !.annos[d.sel].at = z]
           n == Len(d.annos)
<1>1. d.annos \in Seq(AnnoSet) /\ DOMAIN d.annos = 1 .. n /\ \A i \in 1 .. n : d.annos[i] \in AnnoSet
  BY ListIs
<1>2. /\ e.annos = [d.annos EXCEPT ![d.sel].at = z] /\ e.sel = d.sel
      /\ e.undo = d.undo /\ e.redo = d.redo /\ e.region = d.region /\ e.snap = d.snap
  BY DEF Docs
<1>3. \A a \in AnnoSet : /\ [a EXCEPT !.at = z] \in AnnoSet /\ [a EXCEPT !.at = z].id = a.id
                         /\ [a EXCEPT !.at = z].attr = a.attr /\ [a EXCEPT !.at = z].sel = a.sel
  BY DEF AnnoSet
<1>4. /\ e.annos \in Seq(AnnoSet) /\ Len(e.annos) = n
      /\ \A i \in 1 .. n :
           e.annos[i] = IF i = d.sel THEN [d.annos[i] EXCEPT !.at = z] ELSE d.annos[i]
  <2> DEFINE f == [d.annos EXCEPT ![d.sel].at = z]
  <2>1. DOMAIN f = 1 .. n /\ n \in Nat
    BY <1>1, ListIs
  <2>2. \A i \in 1 .. n : f[i] = IF i = d.sel THEN [d.annos[i] EXCEPT !.at = z] ELSE d.annos[i]
    BY <1>1, Zenon
  <2>3. f \in [1 .. n -> AnnoSet]
    <3>1. \A i \in 1 .. n : f[i] \in AnnoSet
      BY <1>1, <1>3, <2>2, Zenon
    <3>2. f = [i \in 1 .. n |-> f[i]]
      BY <2>1
    <3> HIDE DEF f
    <3> QED
      BY <3>1, <3>2
  <2> HIDE DEF f
  <2>4. f \in Seq(AnnoSet) /\ Len(f) = n
    BY <2>1, <2>3, IsSeq
  <2>5. e.annos = f
    BY <1>2, Zenon DEF f
  <2> HIDE DEF e
  <2> QED
    BY <2>2, <2>4, <2>5
<1>5. e \in Docs
  BY <1>4 DEF Docs
<1> HIDE DEF e
<1>6. \A i \in 1 .. n :
        /\ e.annos[i].id = d.annos[i].id /\ e.annos[i].attr = d.annos[i].attr
        /\ e.annos[i].sel = d.annos[i].sel /\ At(e, u, i) = At(d, u, i)
  <2> TAKE i \in 1 .. n
  <2>1. CASE i = d.sel
    <3>1. e.annos[i] = [d.annos[i] EXCEPT !.at = z]
      BY <1>4, <2>1, Zenon
    <3>2. At(e, u, i) = u.grab /\ At(d, u, i) = u.grab
      BY <1>2, <2>1 DEF At
    <3> QED
      BY <1>1, <1>3, <3>1, <3>2
  <2>2. CASE i # d.sel
    <3>1. e.annos[i] = d.annos[i]
      BY <1>4, <2>2
    <3> QED
      BY <1>2, <3>1 DEF At
  <2> QED
    BY <2>1, <2>2
<1>7. \A t \in Seq(AnnoSet) : Future(e, u, t) => Future(d, u, t)
  BY <1>4, <1>5, <1>6, FutureSame
<1>8. One(e) /\ Armed(e) = Armed(d)
  BY <1>2 DEF Sound, One, Armed
<1>9. Sound(e, u)
  BY <1>2, <1>5, <1>7, <1>8, SoundOn
<1> QED
  BY <1>9 DEF e

\* Selecting changes nothing that is seen.
Same(d, e) ==
  /\ e \in Docs /\ Look(d, e)
  /\ e.undo = d.undo /\ e.redo = d.redo /\ e.region = d.region /\ e.snap = d.snap

LEMMA SameSet ==
  ASSUME NEW d \in Docs, NEW is
  PROVE  /\ Same(d, d)
         /\ \A k \in Nat : Same(d, [d EXCEPT !.sel = k])
         /\ \A b \in BOOLEAN : Same(d, Update(d, is, LAMBDA a : [a EXCEPT !.sel = b]))
         /\ Same(d, Update(d, is, LAMBDA a : [a EXCEPT !.sel = ~@]))
<1>1. DOMAIN d.annos = 1 .. Len(d.annos) /\ \A i \in 1 .. Len(d.annos) : d.annos[i] \in AnnoSet
  BY DEF Docs
<1>2. Same(d, d)
  BY DEF Same, Look
<1>3. ASSUME NEW k \in Nat PROVE Same(d, [d EXCEPT !.sel = k])
  BY <1>3 DEF Same, Look, Docs
<1>4. ASSUME NEW b \in BOOLEAN
      PROVE  Same(d, Update(d, is, LAMBDA a : [a EXCEPT !.sel = b]))
  <2> DEFINE e == Update(d, is, LAMBDA a : [a EXCEPT !.sel = b])
  <2>1. Alike(d, e) /\ e.region = d.region /\ e.sel = d.sel /\ e.snap = d.snap
    BY UpdateAlike, Zenon
  <2>2. e.annos = [i \in 1 .. Len(d.annos) |->
                     IF i \in is THEN [d.annos[i] EXCEPT !.sel = b] ELSE d.annos[i]]
    BY <1>1 DEF Update, Docs
  <2>3. \A a \in AnnoSet : /\ [a EXCEPT !.sel = b].id = a.id /\ [a EXCEPT !.sel = b].at = a.at
                           /\ [a EXCEPT !.sel = b].attr = a.attr
    BY DEF AnnoSet
  <2> HIDE DEF e
  <2>4. \A i \in 1 .. Len(d.annos) :
          /\ e.annos[i].id = d.annos[i].id /\ e.annos[i].at = d.annos[i].at
          /\ e.annos[i].attr = d.annos[i].attr
    BY <1>1, <2>2, <2>3, Zenon
  <2>5. Same(d, e)
    BY <2>1, <2>4 DEF Same, Look, Alike
  <2> QED
    BY <2>5, Zenon DEF e
<1>5. Same(d, Update(d, is, LAMBDA a : [a EXCEPT !.sel = ~@]))
  <2> DEFINE e == Update(d, is, LAMBDA a : [a EXCEPT !.sel = ~@])
  <2>1. Alike(d, e) /\ e.region = d.region /\ e.sel = d.sel /\ e.snap = d.snap
    BY UpdateAlike, Zenon
  <2>2. e.annos = [i \in 1 .. Len(d.annos) |->
                     IF i \in is THEN [d.annos[i] EXCEPT !.sel = ~@] ELSE d.annos[i]]
    BY <1>1 DEF Update, Docs
  <2>3. \A a \in AnnoSet : /\ [a EXCEPT !.sel = ~@].id = a.id /\ [a EXCEPT !.sel = ~@].at = a.at
                           /\ [a EXCEPT !.sel = ~@].attr = a.attr
    BY DEF AnnoSet
  <2> HIDE DEF e
  <2>4. \A i \in 1 .. Len(d.annos) :
          /\ e.annos[i].id = d.annos[i].id /\ e.annos[i].at = d.annos[i].at
          /\ e.annos[i].attr = d.annos[i].attr
    BY <1>1, <2>2, <2>3, Zenon
  <2>5. Same(d, e)
    BY <2>1, <2>4 DEF Same, Look, Alike
  <2> QED
    BY <2>5, Zenon DEF e
<1> QED
  BY <1>2, <1>3, <1>4, <1>5, Zenon

LEMMA SameAgain ==
  ASSUME NEW d, NEW e, NEW f, Same(d, e), Same(e, f)
  PROVE  Same(d, f)
BY DEF Same, Look

LEMMA SelectSame ==
  ASSUME NEW d \in Docs
  PROVE  /\ Same(d, Deselected(d))
         /\ \A i \in 1 .. Len(d.annos) : Same(d, SelectOne(d, i)) /\ Same(d, SelectToggle(d, i))
<1> DEFINE u == Update(d, DOMAIN d.annos, LAMBDA a : [a EXCEPT !.sel = FALSE])
           v == Deselected(d)
<1>1. Same(d, u)
  BY SameSet, Zenon
<1>2. v = [u EXCEPT !.sel = 0]
  BY DEF Deselected
<1> HIDE DEF u, v
<1>3. ASSUME NEW e, Same(d, e), NEW k \in Nat PROVE Same(d, [e EXCEPT !.sel = k])
  <2>1. e \in Docs
    BY <1>3 DEF Same
  <2>2. Same(e, [e EXCEPT !.sel = k])
    BY <2>1, SameSet, Zenon
  <2> DEFINE f == [e EXCEPT !.sel = k]
  <2> HIDE DEF f
  <2>3. Same(d, f)
    BY <1>3, <2>2, SameAgain DEF f
  <2> QED
    BY <2>3 DEF f
<1>4. Same(d, v)
  BY <1>1, <1>2, <1>3
<1>5. ASSUME NEW i \in 1 .. Len(d.annos) PROVE Same(d, SelectOne(d, i)) /\ Same(d, SelectToggle(d, i))
  <2> DEFINE w == Update(v, {i}, LAMBDA a : [a EXCEPT !.sel = TRUE])
             x == Update(d, {i}, LAMBDA a : [a EXCEPT !.sel = ~@])
             k == IF d.annos[i].sel THEN 0 ELSE i
  <2>1. i \in Nat /\ k \in Nat
    BY ListIs
  <2>2. Same(v, w)
    <3>1. v \in Docs
      BY <1>4 DEF Same
    <3> QED
      BY <3>1, SameSet, Zenon
  <2>3. Same(d, x)
    BY SameSet, Zenon
  <2>4. SelectOne(d, i) = [w EXCEPT !.sel = i] /\ SelectToggle(d, i) = [x EXCEPT !.sel = k]
    BY DEF SelectOne, SelectToggle, v
  <2> HIDE DEF w, x, k
  <2>5. Same(d, w)
    BY <1>4, <2>2, SameAgain
  <2> QED
    BY <1>3, <2>1, <2>3, <2>4, <2>5
<1> QED
  BY <1>4, <1>5 DEF v

LEMMA SameSound ==
  ASSUME NEW d \in Docs, NEW u, Sound(d, u), Idle(d, u), NEW e, Same(d, e), NEW v, Idle(e, v),
         ~Sizing(v)
  PROVE  Sound(e, v)
<1>1. e \in Docs /\ One(e) /\ Armed(e) = Armed(d)
  BY DEF Same, Sound, One, Armed
<1> QED
  BY <1>1, Still DEF Same

\* Changing the region, with a snapshot of it armed or back to what it was.
LEMMA RegionTells ==
  ASSUME NEW d \in Docs, One(d), NEW c \in {d, Begin(d)}, NEW reg \in Regions,
         c.snap # {} \/ reg = d.region
  PROVE  LET e == [c EXCEPT !.region = reg] IN
         /\ e \in Docs /\ e.annos = d.annos /\ e.sel = d.sel /\ e.undo = d.undo /\ e.redo = d.redo
         /\ e.snap = c.snap /\ e.region = reg /\ One(e) /\ Armed(e) = Armed(d)
<1>1. /\ c \in Docs /\ c.annos = d.annos /\ c.region = d.region /\ c.sel = d.sel
      /\ c.undo = d.undo /\ c.redo = d.redo /\ One(c) /\ Armed(c) = Armed(d)
  BY BeginTells
<1> DEFINE e == [c EXCEPT !.region = reg]
<1>2. /\ e \in Docs /\ e.annos = c.annos /\ e.sel = c.sel /\ e.undo = c.undo /\ e.redo = c.redo
      /\ e.snap = c.snap /\ e.region = reg
  BY <1>1 DEF Docs
<1> HIDE DEF e
<1>3. One(e)
  BY <1>1, <1>2 DEF One
<1>4. Armed(e) = Armed(c)
  BY <1>1, <1>2 DEF Armed
<1>5. /\ e \in Docs /\ e.annos = d.annos /\ e.sel = d.sel /\ e.undo = d.undo /\ e.redo = d.redo
      /\ e.snap = c.snap /\ e.region = reg /\ One(e) /\ Armed(e) = Armed(d)
  BY <1>1, <1>2, <1>3, <1>4
<1> QED
  BY <1>5 DEF e

\* Nothing that the gesture changes is touched.
LEMMA SoundBeside ==
  ASSUME NEW d \in Docs, NEW u, Sound(d, u), NEW e \in Docs, e.annos = d.annos, e.sel = d.sel,
         e.undo = d.undo, e.redo = d.redo, One(e), Armed(e) = Armed(d),
         NEW v, v.drag = u.drag, v.grab = u.grab, Sizing(v) => Sizing(u)
  PROVE  Sound(e, v)
<1>1. \A i \in 1 .. Len(d.annos) : At(e, v, i) = At(d, u, i)
  BY DEF At
<1>2. \A t \in Seq(AnnoSet) : Future(e, v, t) => Future(d, u, t)
  BY <1>1, FutureSame
<1> QED
  BY <1>2, SoundOn

\* Committing the text.
LEMMA TextSound ==
  ASSUME DocOk(doc), Sound(doc, ui), Idle(doc, ui), NEW d \in TextDone(doc) \cup {AddAnno(doc)},
         NEW v, v.drag = "none", ~Sizing(v)
  PROVE  DocOk(d) /\ Sound(d, v) /\ d.snap = doc.snap
<1>1. doc \in Docs /\ Tells(doc, doc.annos) /\ One(doc) /\ RedoDrawn(doc)
  BY TellsNow DEF DocOk, Sound
<1>2. CASE d = doc
  BY <1>1, <1>2, IdleOf, SoundNow
<1>3. CASE d = AddAnno(doc)
  <2>1. DocOk(d) /\ One(d) /\ RedoDrawn(d) /\ Tells(d, d.annos)
    BY <1>1, <1>3, AddTells
  <2>2. d \in Docs /\ Idle(d, v)
    BY <2>1, IdleOf DEF DocOk
  <2>3. d.snap = doc.snap
    BY <1>1, <1>3 DEF AddAnno, Push, Docs
  <2> QED
    BY <2>1, <2>2, <2>3, SoundNow
<1> QED
  BY <1>2, <1>3 DEF TextDone

LEMMA WokenHas ==
  ASSUME ui \in Uis
  PROVE  /\ Woken.drag = ui.drag /\ Woken.grab = ui.grab /\ Woken.editMode = ui.editMode
         /\ Woken.text = ui.text /\ Woken.panel = ui.panel /\ Woken.resizing = FALSE
         /\ ToolbarUi.drag = ui.drag /\ ToolbarUi.grab = ui.grab /\ ToolbarUi.editMode = ui.editMode
         /\ ToolbarUi.text = FALSE /\ ToolbarUi.panel = ui.panel /\ ToolbarUi.resizing = FALSE
         /\ Dropped.drag = "none" /\ Dropped.grab = 0 /\ Dropped.editMode = ui.editMode
         /\ Dropped.text = ui.text /\ Dropped.panel = ui.panel /\ Dropped.resizing = FALSE
         /\ \A m \in Modes : /\ SetMode(Woken, m).drag = ui.drag /\ SetMode(Woken, m).text = ui.text
                             /\ SetMode(Woken, m).resizing = FALSE
                             /\ (SetMode(Woken, m).panel => ui.panel)
                             /\ SetMode(ToolbarUi, m).drag = ui.drag
                             /\ SetMode(ToolbarUi, m).resizing = FALSE
                             /\ ~SetMode(ToolbarUi, m).text
BY DEF Woken, ToolbarUi, Dropped, SetMode, Uis

-----------------------------------------------------------------------------
(* What each event does to it.                                             *)

\* nothing else goes on while a text is typed
TextAlone(u) == u.text => u.drag = "none" /\ ~u.panel
TInv == TextAlone(ui) /\ (Running /\ ~lapse => Sound(doc, ui))

LEMMA TextKeeps ==
  ASSUME ui \in Uis, TextAlone(ui), Next
  PROVE  TextAlone(ui')
<1> USE DEF TextAlone
<1>0. Woken \in Uis /\ ToolbarUi \in Uis /\ Dropped \in Uis
  BY WokenIs
<1>w. Woken.drag = ui.drag /\ Woken.text = ui.text /\ Woken.panel = ui.panel
  BY WokenHas
<1>1. CASE PressColor \/ PressToolPicker \/ PressOffPanel
  <2>1. ui.panel /\ ~ui.text
    BY <1>1 DEF PressColor, PressToolPicker, PressOffPanel
  <2>2. CASE PressColor
    <3>1. ui' = [Woken EXCEPT !.drag = "attr"]
      BY <2>2 DEF PressColor
    <3> QED
      BY <1>0, <1>w, <2>1, <3>1 DEF Uis
  <2>3. CASE PressToolPicker
    <3>1. ui' = [SetMode(Woken, "draw") EXCEPT !.panel = FALSE]
      BY <2>3 DEF PressToolPicker
    <3>2. SetMode(Woken, "draw").text = ui.text /\ "draw" \in Modes
      BY WokenHas DEF Modes
    <3>3. \A m \in Modes : SetMode(Woken, m) \in Uis
      BY <1>0, UiSets, Zenon
    <3>4. SetMode(Woken, "draw") \in Uis
      BY <3>2, <3>3
    <3> QED
      BY <2>1, <3>1, <3>2, <3>4 DEF Uis
  <2>4. CASE PressOffPanel
    <3>1. PICK open \in BOOLEAN : ui' = [Woken EXCEPT !.panel = open]
      BY <2>4 DEF PressOffPanel
    <3> QED
      BY <1>0, <1>w, <2>1, <3>1 DEF Uis
  <2> QED
    BY <1>1, <2>2, <2>3, <2>4
<1>2. CASE ToolbarMode \/ ToolbarColor \/ ToolbarAttr
  <2>1. \A u \in Uis : ~u.text => \A v \in Panels(u) : ~v.text
    BY DEF Panels, Uis
  <2>2. \A m \in Modes : SetMode(ToolbarUi, m) \in Uis
    BY <1>0, UiSets, Zenon
  <2>3. CASE ToolbarMode
    <3>1. PICK m \in Modes :
               ui' \in IF m = "draw" THEN Panels(SetMode(ToolbarUi, m)) ELSE {SetMode(ToolbarUi, m)}
      BY <2>3 DEF ToolbarMode
    <3>2. ~SetMode(ToolbarUi, m).text
      BY WokenHas
    <3> QED
      BY <2>1, <2>2, <3>1, <3>2
  <2>4. CASE ToolbarColor
    <3>1. ui' \in Panels(ToolbarUi)
      BY <2>4 DEF ToolbarColor
    <3> QED
      BY <1>0, <2>1, <3>1, WokenHas
  <2>5. CASE ToolbarAttr
    <3>1. \/ ui' = [ToolbarUi EXCEPT !.panel = FALSE]
          \/ ui' \in Panels([ToolbarUi EXCEPT !.drag = "attr"])
      BY <2>5 DEF ToolbarAttr
    <3>2. /\ [ToolbarUi EXCEPT !.panel = FALSE] \in Uis /\ ~[ToolbarUi EXCEPT !.panel = FALSE].text
          /\ [ToolbarUi EXCEPT !.drag = "attr"] \in Uis /\ ~[ToolbarUi EXCEPT !.drag = "attr"].text
      <4>1. ~ToolbarUi.text
        BY WokenHas
      <4>2. [ToolbarUi EXCEPT !.panel = FALSE] \in Uis /\ [ToolbarUi EXCEPT !.drag = "attr"] \in Uis
        <5>1. "attr" \in Drags /\ FALSE \in BOOLEAN
          BY DEF Drags
        <5>2. \A u \in Uis : [u EXCEPT !.panel = FALSE] \in Uis
          BY <5>1 DEF Uis
        <5>3. \A u \in Uis : [u EXCEPT !.drag = "attr"] \in Uis
          BY <5>1 DEF Uis
        <5> QED
          BY <1>0, <5>2, <5>3, Zenon
      <4>3. ~[ToolbarUi EXCEPT !.panel = FALSE].text /\ ~[ToolbarUi EXCEPT !.drag = "attr"].text
        BY <1>0, <4>1 DEF Uis
      <4> QED
        BY <4>2, <4>3
    <3>3. \A v \in Panels([ToolbarUi EXCEPT !.drag = "attr"]) : ~v.text
      BY <2>1, <3>2, Zenon
    <3> QED
      BY <3>1, <3>2, <3>3, Zenon
  <2> QED
    BY <1>2, <2>3, <2>4, <2>5
<1>3. CASE ToolbarEnd
  BY <1>3 DEF ToolbarEnd, Finish, StartUi
<1>4. CASE PressUnlocked \/ PressEndsText \/ PressNothing \/ PressText \/ PressCounter \/ PressToggle
  <2>1. CASE PressUnlocked \/ PressEndsText
    <3>1. ui.drag = "none" /\ ~ui.panel
      BY <2>1 DEF PressUnlocked, PressEndsText, OnScreen, Press
    <3>2. ui' \in {[Woken EXCEPT !.dragging = TRUE], [Woken EXCEPT !.text = FALSE]}
      BY <2>1 DEF PressUnlocked, PressEndsText
    <3> QED
      BY <1>0, <1>w, <3>1, <3>2 DEF Uis
  <2>2. CASE PressNothing \/ PressText
    <3>1. ui.drag = "none" /\ ~ui.panel
      BY <2>2 DEF PressNothing, PressText, PressTool, PressLocked, OnScreen, Press
    <3>2. ui' \in {Woken, [Woken EXCEPT !.text = TRUE]}
      BY <2>2 DEF PressNothing, PressText
    <3> QED
      BY <1>0, <1>w, <3>1, <3>2 DEF Uis
  <2>3. CASE PressCounter \/ PressToggle
    BY <1>0, <2>3, WokenHas DEF PressCounter, PressToggle, PressLocked, PressTool, OnScreen, Press, Uis
  <2> QED
    BY <1>4, <2>1, <2>2, <2>3
<1>5. CASE PressRegion \/ PressCorner \/ PressAnno \/ PressDraw
  <2>1. ~ui.text
    BY <1>5 DEF PressRegion, PressCorner, PressAnno, PressDraw, PressLocked, PressTool
  <2>2. \A m : /\ ~[Woken EXCEPT !.drag = m].text
               /\ \A z : ~[Woken EXCEPT !.drag = m, !.grab = z].text
    BY <1>0, <2>1, WokenHas DEF Uis
  <2>3. \/ \E m : ui' = [Woken EXCEPT !.drag = m]
        \/ \E m, z : ui' = [Woken EXCEPT !.drag = m, !.grab = z]
    BY <1>5, Zenon DEF PressRegion, PressCorner, PressAnno, PressDraw
  <2> QED
    BY <2>2, <2>3, Zenon
<1>6. CASE DragNewRegion \/ DragRegion \/ DragAnnos \/ DragCorner \/ DragAttr
  BY <1>6 DEF DragNewRegion, DragRegion, DragAnnos, DragCorner, DragAttr, Uis
<1>7. CASE ReleaseAttr \/ ReleaseRegion \/ ReleaseAnnos \/ ReleaseCorner \/ ReleaseDraw
  <2>1. ui' = Dropped /\ ui.drag # "none"
    <3>1. ui.drag \in {"attr", "region", "anno", "corner", "draw"} /\ ui' = Dropped
      BY <1>7, Zenon DEF ReleaseAttr, ReleaseRegion, ReleaseAnnos, ReleaseCorner, ReleaseDraw
    <3> QED
      BY <3>1
  <2> QED
    BY <2>1, WokenHas
<1>8. CASE ReleaseOnToolbar \/ ReleaseUnlocked \/ ReleaseElsewhere
  <2>1. CASE ReleaseOnToolbar
    <3>1. PICK over \in BOOLEAN : ui' = [Woken EXCEPT !.undoHeld = Woken.undoHeld /\ ~over]
      BY <2>1 DEF ReleaseOnToolbar
    <3> QED
      BY <1>0, <1>w, <3>1 DEF Uis
  <2>2. CASE ReleaseUnlocked
    <3>1. \E b : ui' = [Woken EXCEPT !.dragging = FALSE, !.locked = b]
      BY <2>2, Zenon DEF ReleaseUnlocked
    <3> QED
      BY <1>0, <1>w, <3>1 DEF Uis
  <2>3. CASE ReleaseElsewhere
    BY <2>3, WokenHas DEF ReleaseElsewhere
  <2> QED
    BY <1>8, <2>1, <2>2, <2>3
<1>9. CASE Scroll \/ TextKey \/ SelectAll \/ NudgeKey \/ Delete
  <2>1. CASE Scroll
    <3>1. ui' = [ui EXCEPT !.resizing = TRUE]
      BY <2>1 DEF Scroll
    <3> QED
      BY <3>1 DEF Uis
  <2>2. CASE TextKey
    <3>1. PICK open \in BOOLEAN : ui.text /\ ui' = [Woken EXCEPT !.text = open]
      BY <2>2 DEF TextKey
    <3> QED
      BY <1>0, <1>w, <3>1 DEF Uis
  <2>3. CASE SelectAll
    <3>1. ui' = [Woken EXCEPT !.dragging = FALSE, !.locked = TRUE]
      BY <2>3 DEF SelectAll
    <3> QED
      BY <1>0, <1>w, <3>1 DEF Uis
  <2>4. CASE NudgeKey
    <3>1. ui' = [Woken EXCEPT !.nudge = TRUE]
      BY <2>4 DEF NudgeKey
    <3> QED
      BY <1>0, <1>w, <3>1 DEF Uis
  <2>5. CASE Delete
    <3>1. ui' = Woken
      BY <2>5, Zenon DEF Delete
    <3> QED
      BY <3>1, WokenHas
  <2> QED
    BY <1>9, <2>1, <2>2, <2>3, <2>4, <2>5
<1>10. CASE Confirm
  BY <1>10 DEF Confirm, Finish, StartUi
<1>11. CASE KeyMode
  <2>1. PICK m \in Modes : Key /\ ui' = SetMode(Woken, m)
    BY <1>11 DEF KeyMode
  <2>2. ~SetMode(Woken, m).text
    BY <2>1, WokenHas DEF Key
  <2> QED
    BY <2>1, <2>2
<1>12. CASE ReleaseUndoKey \/ ReleaseNudgeKey \/ KeyboardLeave \/ NudgeTick
  BY <1>12 DEF ReleaseUndoKey, ReleaseNudgeKey, KeyboardLeave, NudgeTick, Uis
<1>13. CASE Aborts
  <2>1. \A u \in Uis : Abort(u) => ~ui'.text
    BY DEF Abort, Uis
  <2>2. Finish("cancelled") => ~ui'.text
    BY DEF Finish, StartUi
  <2> QED
    BY <1>0, <1>13, <2>1, <2>2 DEF Aborts, Cancel, TouchCancel
<1>14. CASE History
  <2>1. CASE ToolbarUndo \/ ToolbarRedo
    BY <1>0, <2>1, WokenHas DEF ToolbarUndo, ToolbarRedo, Uis
  <2>2. CASE KeyRedo \/ KeyUndo
    <3>1. ui' \in {Woken, [Woken EXCEPT !.undoHeld = TRUE]}
      BY <2>2, Zenon DEF KeyRedo, KeyUndo
    <3> QED
      BY <1>0, <1>w, <3>1 DEF Uis
  <2>3. CASE UndoTick
    BY <1>0, <2>3 DEF UndoTick
  <2> QED
    BY <1>14, <2>1, <2>2, <2>3 DEF History
<1>15. CASE Edits
  BY <1>15, <1>1, <1>2, <1>3, <1>4, <1>5, <1>6, <1>7, <1>8, <1>9, <1>10, <1>11, <1>12, Zenon DEF Edits
<1> QED
  BY <1>13, <1>14, <1>15 DEF Next

\* Setting the size or colour after it was recorded.
LEMMA AttrSound ==
  ASSUME NEW d \in Docs, NEW u, Sound(d, u), NEW v \in Attrs, NEW w,
         \A i \in 1 .. Len(d.annos) : At(d, w, i) = At(d, u, i),
         ui.editMode \/ (Idle(d, u) /\ ~Sizing(w))
  PROVE  Sound(SetAttr(RecordAttr(d), v), w)
<1>1. CASE ui.editMode
  <2>1. SetAttr(RecordAttr(d), v) = Painting(Recorded(d), v)
    BY <1>1, Zenon DEF RecordAttr, SetAttr, Painting, Recorded
  <2>2. Sound(Painting(Recorded(d), v), w)
    BY RecordSound
  <2> QED
    BY <2>1, <2>2, Zenon
<1>2. CASE ~ui.editMode
  <2>1. SetAttr(RecordAttr(d), v) = d
    BY <1>2, Zenon DEF SetAttr, RecordAttr
  <2>2. Idle(d, w) /\ Idle(d, u) /\ ~Sizing(w)
    BY <1>2 DEF Idle
  <2>3. Same(d, d)
    BY SameSet
  <2>4. Sound(d, w)
    BY <2>2, <2>3, SameSound
  <2> QED
    BY <2>1, <2>4, Zenon
<1> QED
  BY <1>1, <1>2

\* Pressing.
LEMMA PressSound ==
  ASSUME IInv, Sound(doc, ui),
         \/ PressColor \/ PressToolPicker \/ PressOffPanel
         \/ ToolbarMode \/ ToolbarColor \/ ToolbarAttr
         \/ PressUnlocked \/ PressEndsText \/ PressRegion \/ PressCorner \/ PressAnno \/ PressToggle
         \/ PressNothing \/ PressDraw \/ PressText \/ PressCounter
  PROVE  Sound(doc', ui')
<1>0. /\ DocOk(doc) /\ doc \in Docs /\ ui \in Uis /\ Woken \in Uis /\ ToolbarUi \in Uis
      /\ Dropped \in Uis
  BY WokenIs DEF IInv, DocOk
<1>a. ui.drag = "none"
  BY Zenon DEF PressColor, PressToolPicker, PressOffPanel, ToolbarMode, ToolbarColor, ToolbarAttr,
     PressUnlocked, PressEndsText, PressRegion, PressCorner, PressAnno, PressToggle, PressNothing,
     PressDraw, PressText, PressCounter, PressLocked, PressTool, OnScreen, ToolbarPress, Press
<1>b. /\ Woken.drag = "none" /\ Woken.grab = ui.grab /\ ~Woken.resizing
      /\ ToolbarUi.drag = "none" /\ ~ToolbarUi.resizing /\ ToolbarUi.editMode = ui.editMode
      /\ Dropped.drag = "none" /\ ~Dropped.resizing /\ Woken.editMode = ui.editMode
  BY <1>0, <1>a, WokenHas
<1>c. Idle(doc, ui) /\ One(doc)
  BY <1>0, <1>a, IdleOf DEF Sound
<1>d. ASSUME NEW e, Same(doc, e), ui'.drag \notin {"anno", "corner", "attr"}, ~ui'.resizing
      PROVE  Sound(e, ui')
  <2>1. Idle(e, ui') /\ ~Sizing(ui')
    BY <1>d, IdleOf DEF Same, Sizing
  <2> QED
    BY <1>0, <1>c, <1>d, <2>1, SameSound
<1>e. ASSUME NEW d \in TextDone(doc) \cup {AddAnno(doc)}, NEW v, v.drag = "none", ~v.resizing
      PROVE  Sound(d, v) /\ DocOk(d) /\ d \in Docs
  <2>1. ~Sizing(v)
    BY <1>e DEF Sizing
  <2> QED
    BY <1>0, <1>c, <1>e, <2>1, TextSound DEF DocOk
<1>f. Same(doc, doc)
  BY <1>0, SameSet
<1>1. CASE PressColor
  <2>1. PICK v \in Attrs : doc' = SetAttr(RecordAttr(doc), v)
    BY <1>1 DEF PressColor
  <2>2. ui' = [Woken EXCEPT !.drag = "attr"]
    BY <1>1 DEF PressColor
  <2>3. ui'.drag = "attr" /\ ui'.editMode = ui.editMode
    BY <1>0, <1>b, <2>2 DEF Uis
  <2>4. \A i \in 1 .. Len(doc.annos) : At(doc, ui', i) = At(doc, ui, i)
    BY <1>a, <2>3 DEF At
  <2>5. ui.editMode \/ (Idle(doc, ui) /\ ~Sizing(ui'))
    BY <1>c, <2>3 DEF Sizing
  <2>6. Sound(SetAttr(RecordAttr(doc), v), ui')
    BY <1>0, <2>4, <2>5, AttrSound
  <2> QED
    BY <2>1, <2>6
<1>2. CASE PressToolPicker
  <2>1. doc' = Deselected(doc) /\ ui' = [SetMode(Woken, "draw") EXCEPT !.panel = FALSE]
    BY <1>2 DEF PressToolPicker
  <2>2. \A m \in Modes : SetMode(Woken, m) \in Uis
    BY <1>0, UiSets, Zenon
  <2>3. "draw" \in Modes
    BY DEF Modes
  <2>4. /\ SetMode(Woken, "draw") \in Uis
        /\ SetMode(Woken, "draw").drag = "none" /\ ~SetMode(Woken, "draw").resizing
    BY <1>0, <1>a, <2>2, <2>3, WokenHas
  <2>5. ui'.drag = "none" /\ ~ui'.resizing
    BY <2>1, <2>4 DEF Uis
  <2> QED
    BY <1>0, <1>d, <2>1, <2>5, SelectSame
<1>3. CASE PressOffPanel
  <2>1. PICK open \in BOOLEAN : doc' = doc /\ ui' = [Woken EXCEPT !.panel = open]
    BY <1>3 DEF PressOffPanel
  <2>2. ui'.drag = "none" /\ ~ui'.resizing
    BY <1>0, <1>b, <2>1 DEF Uis
  <2> QED
    BY <1>d, <1>f, <2>1, <2>2
<1>p. ASSUME NEW u \in Uis, NEW v \in Panels(u)
      PROVE  v.drag = u.drag /\ v.resizing = u.resizing /\ v.editMode = u.editMode
  BY <1>p DEF Panels, Uis
<1>4. CASE ToolbarMode
  <2>1. PICK m \in Modes, d \in TextDone(doc) :
             /\ doc' = Deselected(d)
             /\ ui' \in IF m = "draw" THEN Panels(SetMode(ToolbarUi, m)) ELSE {SetMode(ToolbarUi, m)}
    BY <1>4 DEF ToolbarMode
  <2>2. SetMode(ToolbarUi, m) \in Uis
    <3>1. \A n \in Modes : SetMode(ToolbarUi, n) \in Uis
      BY <1>0, UiSets, Zenon
    <3> QED
      BY <3>1
  <2>3. ui'.drag = "none" /\ ~ui'.resizing
    <3>1. SetMode(ToolbarUi, m).drag = "none" /\ ~SetMode(ToolbarUi, m).resizing
      BY <1>0, <1>a, WokenHas
    <3>2. \A v \in Panels(SetMode(ToolbarUi, m)) : v.drag = "none" /\ ~v.resizing
      BY <1>p, <2>2, <3>1
    <3> QED
      BY <2>1, <3>1, <3>2
  <2>4. Sound(d, Dropped) /\ d \in Docs
    BY <1>b, <1>e
  <2>5. Idle(d, Dropped) /\ Same(d, Deselected(d))
    BY <1>b, <2>4, IdleOf, SelectSame
  <2>6. Idle(Deselected(d), ui') /\ ~Sizing(ui')
    BY <2>3, <2>5, IdleOf DEF Same, Sizing
  <2>7. Sound(Deselected(d), ui')
    BY <2>4, <2>5, <2>6, SameSound
  <2> QED
    BY <2>1, <2>7
<1>5. CASE ToolbarColor
  <2>1. doc' \in TextDone(doc) /\ ui' \in Panels(ToolbarUi)
    BY <1>5 DEF ToolbarColor
  <2>2. ui'.drag = "none" /\ ~ui'.resizing
    BY <1>0, <1>b, <1>p, <2>1
  <2> QED
    BY <1>e, <2>1, <2>2
<1>6. CASE ToolbarAttr
  <2>1. PICK v \in Attrs, d \in TextDone(doc) :
             /\ doc' = SetAttr(RecordAttr(d), v)
             /\ \/ ui' = [ToolbarUi EXCEPT !.panel = FALSE]
                \/ ui' \in Panels([ToolbarUi EXCEPT !.drag = "attr"])
    BY <1>6, Zenon DEF ToolbarAttr
  <2>2. ui'.drag \in {"none", "attr"} /\ ui'.editMode = ui.editMode /\ ~ui'.resizing
    <3>1. [ToolbarUi EXCEPT !.drag = "attr"] \in Uis
      BY <1>0 DEF Uis, Drags
    <3>2. /\ [ToolbarUi EXCEPT !.drag = "attr"].drag = "attr"
          /\ [ToolbarUi EXCEPT !.drag = "attr"].editMode = ui.editMode
          /\ ~[ToolbarUi EXCEPT !.drag = "attr"].resizing
      BY <1>0, <1>b DEF Uis
    <3>3. ui' \in Panels([ToolbarUi EXCEPT !.drag = "attr"]) =>
            ui'.drag = "attr" /\ ui'.editMode = ui.editMode /\ ~ui'.resizing
      BY <1>p, <3>1, <3>2
    <3>4. ui' = [ToolbarUi EXCEPT !.panel = FALSE] =>
            ui'.drag = "none" /\ ui'.editMode = ui.editMode /\ ~ui'.resizing
      BY <1>0, <1>b DEF Uis
    <3> QED
      BY <2>1, <3>3, <3>4
  <2>3. Sound(d, Dropped) /\ d \in Docs
    BY <1>b, <1>e
  <2>4. \A i \in 1 .. Len(d.annos) : At(d, ui', i) = At(d, Dropped, i)
    BY <1>b, <2>2 DEF At
  <2>5. ui.editMode \/ (Idle(d, Dropped) /\ ~Sizing(ui'))
    BY <1>b, <2>2, <2>3, IdleOf DEF Sizing
  <2>6. Sound(SetAttr(RecordAttr(d), v), ui')
    BY <2>3, <2>4, <2>5, AttrSound
  <2> QED
    BY <2>1, <2>6
<1>8. CASE PressUnlocked
  <2>1. PICK r \in Rects : doc' = [Begin(doc) EXCEPT !.region = [has |-> FALSE, r |-> r]]
    BY <1>8, Zenon DEF PressUnlocked
  <2> DEFINE reg == [has |-> FALSE, r |-> r]
  <2>2. reg \in Regions
    BY DEF Regions
  <2>3. Begin(doc).snap # {}
    BY <1>0, <1>c, BeginTells
  <2>4. ui' = [Woken EXCEPT !.dragging = TRUE]
    BY <1>8 DEF PressUnlocked
  <2>5. ui'.drag = ui.drag /\ ui'.grab = ui.grab /\ ~Sizing(ui')
    BY <1>0, <1>a, <1>b, <2>4 DEF Uis, Sizing
  <2> DEFINE e == [Begin(doc) EXCEPT !.region = reg]
  <2>6. doc' = e
    BY <2>1
  <2> HIDE DEF reg
  <2>7. /\ e \in Docs /\ e.annos = doc.annos /\ e.sel = doc.sel /\ e.undo = doc.undo
        /\ e.redo = doc.redo /\ One(e) /\ Armed(e) = Armed(doc)
    BY <1>0, <1>c, <2>2, <2>3, RegionTells
  <2> HIDE DEF e
  <2>8. Sound(e, ui')
    BY <1>0, <2>5, <2>7, SoundBeside
  <2> QED
    BY <2>6, <2>8
<1>9. CASE PressEndsText
  <2>1. doc' \in TextDone(doc) /\ ui' = [Woken EXCEPT !.text = FALSE]
    BY <1>9 DEF PressEndsText
  <2>2. ui'.drag = "none" /\ ~ui'.resizing
    BY <1>0, <1>b, <2>1 DEF Uis
  <2> QED
    BY <1>e, <2>1, <2>2
<1>10. CASE PressRegion
  <2>1. doc' = Begin(doc) /\ ui' = [Woken EXCEPT !.drag = "region"]
    BY <1>10 DEF PressRegion
  <2>2. ui'.drag = "region" /\ ~Sizing(ui')
    BY <1>0, <1>b, <2>1 DEF Uis, Sizing
  <2> DEFINE e == Begin(doc)
  <2>3. /\ e \in Docs /\ e.annos = doc.annos /\ e.undo = doc.undo /\ e.redo = doc.redo
        /\ One(e) /\ Armed(e) = Armed(doc)
    BY <1>0, <1>c, BeginTells
  <2> HIDE DEF e
  <2>4. Look(doc, e) /\ Idle(e, ui')
    BY <2>2, <2>3, IdleOf DEF Look
  <2>5. Sound(e, ui')
    BY <1>0, <1>c, <2>2, <2>3, <2>4, Still
  <2> QED
    BY <2>1, <2>5 DEF e
<1>11. CASE PressCorner
  <2>1. doc' = doc /\ ui' = [Woken EXCEPT !.drag = "corner", !.grab = doc.annos[doc.sel].at]
    BY <1>11 DEF PressCorner
  <2>2. ui'.drag = "corner" /\ ui'.grab = doc.annos[doc.sel].at /\ ~Sizing(ui')
    BY <1>0, <1>b, <2>1 DEF Uis, Sizing
  <2>3. Idle(doc, ui')
    BY <1>0, <2>2, IdleOf
  <2> QED
    BY <1>0, <1>c, <1>f, <2>1, <2>2, <2>3, SameSound
<1>12. CASE PressAnno
  <2>1. PICK i \in DOMAIN doc.annos :
             doc' = IF doc.annos[i].sel THEN [doc EXCEPT !.sel = i] ELSE SelectOne(doc, i)
    BY <1>12 DEF PressAnno
  <2>2. ui' = [Woken EXCEPT !.drag = "anno", !.grab = 0]
    BY <1>12 DEF PressAnno
  <2>3. ui'.drag = "anno" /\ ui'.grab = 0 /\ ~Sizing(ui')
    BY <1>0, <1>b, <2>2 DEF Uis, Sizing
  <2>4. i \in 1 .. Len(doc.annos) /\ i \in Nat
    BY <1>0 DEF Docs
  <2>5. Same(doc, [doc EXCEPT !.sel = i]) /\ Same(doc, SelectOne(doc, i))
    BY <1>0, <2>4, SameSet, SelectSame
  <2>6. Same(doc, doc')
    BY <2>1, <2>5, Zenon
  <2>7. doc' \in Docs
    BY <2>6 DEF Same
  <2>8. Idle(doc', ui')
    BY <2>3, <2>7, IdleOf
  <2> QED
    BY <1>0, <1>c, <2>3, <2>6, <2>8, SameSound
<1>13. CASE PressToggle
  <2>1. PICK i \in DOMAIN doc.annos : doc' = SelectToggle(doc, i) /\ ui' = Woken
    BY <1>13 DEF PressToggle
  <2>2. i \in 1 .. Len(doc.annos)
    BY <1>0 DEF Docs
  <2>3. Same(doc, SelectToggle(doc, i))
    BY <1>0, <2>2, SelectSame
  <2> QED
    BY <1>b, <1>d, <2>1, <2>3
<1>14. CASE PressNothing
  <2>1. doc' = Deselected(doc) /\ ui' = Woken
    BY <1>14 DEF PressNothing
  <2>2. Same(doc, Deselected(doc))
    BY <1>0, SelectSame
  <2> QED
    BY <1>b, <1>d, <2>1, <2>2
<1>15. CASE PressDraw
  <2>1. doc' = doc /\ ui' = [Woken EXCEPT !.drag = "draw"]
    BY <1>15 DEF PressDraw
  <2>2. ui'.drag = "draw" /\ ~ui'.resizing
    BY <1>0, <1>b, <2>1 DEF Uis
  <2> QED
    BY <1>d, <1>f, <2>1, <2>2
<1>16. CASE PressText
  <2>1. doc' = doc /\ ui' = [Woken EXCEPT !.text = TRUE]
    BY <1>16 DEF PressText
  <2>2. ui'.drag = "none" /\ ~ui'.resizing
    BY <1>0, <1>b, <2>1 DEF Uis
  <2> QED
    BY <1>d, <1>f, <2>1, <2>2
<1>17. CASE PressCounter
  <2>1. doc' = AddAnno(doc) /\ ui' = Woken
    BY <1>17 DEF PressCounter
  <2> QED
    BY <1>b, <1>e, <2>1
<1> QED
  BY <1>1, <1>2, <1>3, <1>4, <1>5, <1>6, <1>8, <1>9, <1>10, <1>11, <1>12, <1>13, <1>14,
     <1>15, <1>16, <1>17, Zenon

\* A change of the region that the history does not miss.
LEMMA RegionSound ==
  ASSUME doc \in Docs, Sound(doc, ui), ~Lapse, NEW c \in {doc, Begin(doc)}, NEW reg \in Regions,
         doc' = [c EXCEPT !.region = reg],
         ui'.drag = ui.drag, ui'.grab = ui.grab, Sizing(ui') => Sizing(ui)
  PROVE  Sound(doc', ui')
<1> DEFINE e == [c EXCEPT !.region = reg]
<1>1. One(doc)
  BY DEF Sound
<1>2. /\ c \in Docs /\ c.undo = doc.undo /\ (c.snap = {} => doc.snap = {})
  BY <1>1, BeginTells
<1>3. e.region = reg /\ e.snap = c.snap /\ e.undo = c.undo
  BY <1>2 DEF Docs
<1>4. doc' = e
  OBVIOUS
<1> HIDE DEF e
<1>5. c.snap # {} \/ reg = doc.region
  BY <1>2, <1>3, <1>4 DEF Lapse
<1>6. /\ e \in Docs /\ e.annos = doc.annos /\ e.sel = doc.sel /\ e.undo = doc.undo
      /\ e.redo = doc.redo /\ One(e) /\ Armed(e) = Armed(doc)
  BY <1>1, <1>5, RegionTells DEF e
<1>7. Sound(e, ui')
  BY <1>6, SoundBeside
<1> QED
  BY <1>4, <1>7

\* Moving and releasing.
LEMMA DragSounds ==
  ASSUME IInv, Sound(doc, ui), ~Lapse,
         \/ DragNewRegion \/ DragRegion \/ DragAnnos \/ DragCorner \/ DragAttr
         \/ ReleaseAttr \/ ReleaseRegion \/ ReleaseAnnos \/ ReleaseCorner \/ ReleaseDraw
         \/ ReleaseOnToolbar \/ ReleaseUnlocked \/ ReleaseElsewhere
  PROVE  Sound(doc', ui')
<1>0. /\ DocOk(doc) /\ doc \in Docs /\ ui \in Uis /\ Woken \in Uis /\ Dropped \in Uis
      /\ ui.grab \in Int /\ doc.sel \in 0 .. Len(doc.annos) /\ doc.region \in Regions
  BY WokenIs, UiIs DEF IInv, DocOk, Docs
<1>b. /\ Woken.drag = ui.drag /\ Woken.grab = ui.grab /\ ~Woken.resizing
      /\ Dropped.drag = "none" /\ ~Dropped.resizing /\ ~Sizing(Dropped)
  BY <1>0, WokenHas DEF Sizing
<1>c. ui.drag \notin {"anno", "corner"} => Idle(doc, ui)
  BY <1>0, IdleOf
<1>d. ASSUME Idle(doc, ui), doc' = doc, ui'.drag = "none", ~ui'.resizing
      PROVE  Sound(doc', ui')
  <2>1. Idle(doc, ui') /\ ~Sizing(ui') /\ Same(doc, doc)
    BY <1>0, <1>d, IdleOf, SameSet DEF Sizing
  <2>2. Sound(doc, ui')
    BY <1>0, <1>d, <2>1, SameSound
  <2> QED
    BY <1>d, <2>2
<1>1. CASE DragNewRegion
  <2>1. PICK reg \in Regions : doc' = [doc EXCEPT !.region = reg]
    BY <1>1, Zenon DEF DragNewRegion
  <2>2. ui' = ui
    BY <1>1 DEF DragNewRegion
  <2> QED
    BY <1>0, <2>1, <2>2, RegionSound
<1>2. CASE DragRegion
  <2>1. PICK r \in Rects : doc' = [doc EXCEPT !.region.r = r]
    BY <1>2, Zenon DEF DragRegion
  <2> DEFINE reg == [doc.region EXCEPT !.r = r]
  <2>2. ui' = ui
    BY <1>2 DEF DragRegion
  <2>3. reg \in Regions
    BY <1>0 DEF Regions
  <2>4. doc' = [doc EXCEPT !.region = reg]
    BY <2>1, Zenon
  <2> HIDE DEF reg
  <2> QED
    BY <1>0, <2>2, <2>3, <2>4, RegionSound
<1>3. CASE DragAnnos
  <2>1. PICK step \in {-1, 1} :
             doc' = Moved(doc, step) /\ ui' = [ui EXCEPT !.grab = ui.grab + step]
    BY <1>3 DEF DragAnnos
  <2>2. ui.drag = "anno" /\ step \in Int
    BY <1>3 DEF DragAnnos
  <2>3. ui'.drag = "anno" /\ ui'.grab = ui.grab + step /\ (Sizing(ui') => Sizing(ui))
    BY <1>0, <2>1, <2>2 DEF Uis, Sizing
  <2>4. Sound(Moved(doc, step), ui')
    BY <1>0, <2>2, <2>3, DragSound
  <2> QED
    BY <2>1, <2>4
<1>4. CASE DragCorner
  <2>1. PICK c \in Coords : doc' = [doc EXCEPT !.annos[doc.sel].at = c]
    BY <1>4, Zenon DEF DragCorner
  <2>2. c \in Int /\ doc.sel # 0 /\ ui' = ui /\ ui.drag = "corner"
    BY <1>4, BoundsAssumption DEF DragCorner
  <2>3. doc.sel \in 1 .. Len(doc.annos)
    BY <1>0, <2>2
  <2>4. \A z \in Int : Sound([doc EXCEPT !.annos[doc.sel].at = z], ui)
    BY <1>0, <2>2, <2>3, DragCornerSound
  <2> QED
    BY <2>1, <2>2, <2>4, Zenon
<1>5. CASE DragAttr
  <2>1. PICK v \in Attrs : doc' = SetAttr(doc, v)
    BY <1>5 DEF DragAttr
  <2>2. ui' = ui /\ ui.drag = "attr"
    BY <1>5 DEF DragAttr
  <2>3. CASE ui.editMode
    <3>1. SetAttr(doc, v) = Painting(doc, v)
      BY <2>3, Zenon DEF SetAttr, Painting
    <3>2. Sizing(ui)
      BY <2>2, <2>3 DEF Sizing
    <3>3. Sound(Painting(doc, v), ui)
      BY <1>0, <3>2, SetSound
    <3> QED
      BY <2>1, <2>2, <3>1, <3>3
  <2>4. CASE ~ui.editMode
    <3>1. SetAttr(doc, v) = doc
      BY <2>4, Zenon DEF SetAttr
    <3> QED
      BY <2>1, <2>2, <3>1
  <2> QED
    BY <2>3, <2>4
<1>6. CASE ReleaseAttr
  <2>1. ui.drag = "attr" /\ doc' = doc /\ ui' = Dropped
    BY <1>6 DEF ReleaseAttr
  <2> QED
    BY <1>b, <1>c, <1>d, <2>1
<1>7. CASE ReleaseRegion
  <2>1. ui.drag = "region" /\ doc' = Commit(doc) /\ ui' = Dropped
    BY <1>7 DEF ReleaseRegion
  <2>2. Idle(doc, ui) /\ Idle(doc, Dropped)
    BY <1>0, <1>b, <2>1, IdleOf
  <2>3. Sound(Commit(doc), Dropped)
    BY <1>0, <1>b, <2>2, SoundCommit
  <2> QED
    BY <2>1, <2>3
<1>8. CASE ReleaseAnnos
  <2>1. doc' = Released(doc, ui)
    BY <1>8, Zenon DEF ReleaseAnnos, Released
  <2>2. ui' = Dropped /\ ui.drag = "anno"
    BY <1>8, Zenon DEF ReleaseAnnos
  <2>3. Sound(Released(doc, ui), Dropped)
    BY <1>0, <1>b, <2>2, MovesSound
  <2> QED
    BY <2>1, <2>2, <2>3
<1>9. CASE ReleaseCorner
  <2>1. doc' = IF doc.sel = 0 \/ doc.annos[doc.sel].at = ui.grab THEN doc
               ELSE Push(doc, <<[k |-> "geom", i |-> doc.sel, at |-> ui.grab]>>)
    BY <1>9, Zenon DEF ReleaseCorner
  <2>2. ui' = Dropped /\ ui.drag = "corner"
    BY <1>9, Zenon DEF ReleaseCorner
  <2>3. Sound(IF doc.sel = 0 \/ doc.annos[doc.sel].at = ui.grab THEN doc
              ELSE Push(doc, <<[k |-> "geom", i |-> doc.sel, at |-> ui.grab]>>), Dropped)
    BY <1>0, <1>b, <2>2, CornerSound, Zenon
  <2> QED
    BY <2>1, <2>2, <2>3, Zenon
<1>10. CASE ReleaseDraw
  <2>1. ui.drag = "draw" /\ doc' = AddAnno(doc) /\ ui' = Dropped
    BY <1>10 DEF ReleaseDraw
  <2>2. Idle(doc, ui)
    BY <1>c, <2>1
  <2> QED
    BY <1>0, <1>b, <2>1, <2>2, TextSound
<1>11. CASE ReleaseOnToolbar
  <2>1. PICK over \in BOOLEAN : ui' = [Woken EXCEPT !.undoHeld = Woken.undoHeld /\ ~over]
    BY <1>11 DEF ReleaseOnToolbar
  <2>2. ui.drag = "none" /\ doc' = doc
    BY <1>11 DEF ReleaseOnToolbar
  <2>3. ui'.drag = "none" /\ ~ui'.resizing
    BY <1>0, <1>b, <2>1, <2>2 DEF Uis
  <2> QED
    BY <1>c, <1>d, <2>2, <2>3
<1>12. CASE ReleaseUnlocked
  <2>1. PICK reg \in {doc.region, [doc.region EXCEPT !.has = FALSE]} \cup [has : {TRUE}, r : Rects] :
             /\ doc' = Commit([doc EXCEPT !.region = reg])
             /\ ui' = [Woken EXCEPT !.dragging = FALSE, !.locked = reg.has]
    BY <1>12, Zenon DEF ReleaseUnlocked
  <2>2. reg \in Regions
    BY <1>0 DEF Regions
  <2>3. ui.drag = "none" /\ ui'.drag = "none" /\ ~Sizing(ui')
    <3>1. ui.drag = "none"
      BY <1>12, Zenon DEF ReleaseUnlocked
    <3>2. \A b : /\ [Woken EXCEPT !.dragging = FALSE, !.locked = b].drag = Woken.drag
                 /\ [Woken EXCEPT !.dragging = FALSE, !.locked = b].resizing = Woken.resizing
      BY <1>0 DEF Uis
    <3> QED
      BY <1>b, <2>1, <3>1, <3>2 DEF Sizing
  <2> DEFINE e == [doc EXCEPT !.region = reg]
  <2>4. /\ e \in Docs /\ e.annos = doc.annos /\ e.sel = doc.sel /\ e.undo = doc.undo
        /\ e.redo = doc.redo /\ e.snap = doc.snap /\ e.region = reg
    BY <1>0, <2>2 DEF Docs
  <2>5. doc' = Commit(e)
    BY <2>1
  <2> HIDE DEF e
  <2>6. One(doc) /\ One(e) /\ RedoDrawn(e)
    BY <2>4 DEF Sound, One, RedoDrawn
  <2>7. doc'.region = reg /\ doc'.snap = {} /\ (doc.snap = {} => doc'.undo = doc.undo)
    BY <2>4, <2>5, <2>6, CommitTells
  <2>8. doc.snap # {} \/ reg = doc.region
    BY <2>7 DEF Lapse
  <2>9. Armed(e) = Armed(doc)
    BY <1>0, <2>2, <2>6, <2>8, RegionTells DEF e
  <2>10. Sound(e, ui)
    BY <1>0, <2>4, <2>6, <2>9, SoundBeside
  <2>11. Idle(e, ui) /\ Idle(e, ui')
    BY <2>3, <2>4, IdleOf
  <2>12. Sound(Commit(e), ui')
    BY <2>3, <2>4, <2>10, <2>11, SoundCommit
  <2> QED
    BY <2>5, <2>12
<1>13. CASE ReleaseElsewhere
  <2>1. ui.drag = "none" /\ doc' = doc /\ ui' = Woken
    BY <1>13 DEF ReleaseElsewhere
  <2> QED
    BY <1>b, <1>c, <1>d, <2>1
<1> QED
  BY <1>1, <1>2, <1>3, <1>4, <1>5, <1>6, <1>7, <1>8, <1>9, <1>10, <1>11, <1>12, <1>13, Zenon

\* The wheel, keys and timers.
LEMMA KeySound ==
  ASSUME IInv, TextAlone(ui), Sound(doc, ui), ~Lapse,
         \/ Scroll \/ TextKey \/ SelectAll \/ NudgeKey \/ Delete \/ KeyMode
         \/ ReleaseUndoKey \/ ReleaseNudgeKey \/ KeyboardLeave \/ NudgeTick
  PROVE  Sound(doc', ui')
<1>0. /\ DocOk(doc) /\ doc \in Docs /\ ui \in Uis /\ Woken \in Uis /\ doc.region \in Regions
      /\ One(doc) /\ RedoDrawn(doc)
  BY WokenIs DEF IInv, DocOk, Docs, Sound
<1>b. /\ Woken.drag = ui.drag /\ Woken.grab = ui.grab /\ ~Woken.resizing
  BY <1>0, WokenHas
<1>c. ui.drag = "none" => Idle(doc, ui)
  BY <1>0, IdleOf
<1>d. ASSUME ui.drag = "none", NEW e, Same(doc, e), ui'.drag = "none", ~ui'.resizing
      PROVE  Sound(e, ui')
  <2>1. Idle(e, ui') /\ ~Sizing(ui')
    BY <1>d, IdleOf DEF Same, Sizing
  <2> QED
    BY <1>0, <1>c, <1>d, <2>1, SameSound
<1>e. ASSUME doc' = Commit(doc), ui'.drag = ui.drag, ui'.grab = ui.grab, Sizing(ui') => Sizing(ui)
      PROVE  Sound(doc', ui')
  <2>1. Idle(doc, ui) => Idle(doc, ui')
    BY <1>e DEF Idle, At
  <2>2. Sound(Commit(doc), ui')
    BY <1>0, <1>e, <2>1, SoundCommit
  <2> QED
    BY <1>e, <2>2
<1>f. ASSUME NEW c \in {doc, Begin(doc)}, doc' \in Nudged(c),
             ui'.drag = ui.drag, ui'.grab = ui.grab, Sizing(ui') => Sizing(ui)
      PROVE  Sound(doc', ui')
  <2>1. PICK r \in Rects : doc' = [c EXCEPT !.region.r = r]
    BY <1>f, Zenon DEF Nudged
  <2>2. c.region \in Regions
    BY <1>0, BeginTells
  <2> DEFINE reg == [c.region EXCEPT !.r = r]
  <2>3. reg \in Regions
    BY <2>2 DEF Regions
  <2>4. doc' = [c EXCEPT !.region = reg]
    BY <2>1, Zenon
  <2> HIDE DEF reg
  <2> QED
    BY <1>0, <1>f, <2>3, <2>4, RegionSound
<1>1. CASE Scroll
  <2>1. PICK v \in Attrs : doc' = SetAttr(IF ui.resizing THEN doc ELSE RecordAttr(doc), v)
    BY <1>1, Zenon DEF Scroll
  <2>2. ui.editMode /\ ui' = [ui EXCEPT !.resizing = TRUE]
    BY <1>1, Zenon DEF Scroll
  <2>3. CASE ui.resizing
    <3>1. SetAttr(doc, v) = Painting(doc, v)
      BY <2>2, Zenon DEF SetAttr, Painting
    <3>2. Sizing(ui) /\ ui' = ui
      BY <1>0, <2>2, <2>3 DEF Sizing, Uis
    <3>3. Sound(Painting(doc, v), ui)
      BY <1>0, <3>2, SetSound
    <3> QED
      BY <2>1, <2>3, <3>1, <3>2, <3>3
  <2>4. CASE ~ui.resizing
    <3>1. ui'.drag = ui.drag /\ ui'.grab = ui.grab
      BY <1>0, <2>2 DEF Uis
    <3>2. \A i \in 1 .. Len(doc.annos) : At(doc, ui', i) = At(doc, ui, i)
      BY <3>1 DEF At
    <3>3. Sound(SetAttr(RecordAttr(doc), v), ui')
      BY <1>0, <2>2, <3>2, AttrSound
    <3> QED
      BY <2>1, <2>4, <3>3
  <2> QED
    BY <2>3, <2>4
<1>2. CASE TextKey
  <2>1. PICK open \in BOOLEAN : ui.text /\ doc' \in TextDone(doc) /\ ui' = [Woken EXCEPT !.text = open]
    BY <1>2 DEF TextKey
  <2>2. ui.drag = "none" /\ ui'.drag = "none" /\ ~Sizing(ui')
    BY <1>0, <1>b, <2>1 DEF Uis, Sizing, TextAlone
  <2> QED
    BY <1>0, <1>c, <2>1, <2>2, TextSound
<1>3. CASE SelectAll
  <2>1. PICK r \in Rects : doc' = Commit([Begin(doc) EXCEPT !.region = [has |-> TRUE, r |-> r]])
    BY <1>3, Zenon DEF SelectAll
  <2>2. ui.drag = "none" /\ ui' = [Woken EXCEPT !.dragging = FALSE, !.locked = TRUE]
    BY <1>3, Zenon DEF SelectAll, DragActive
  <2> DEFINE reg == [has |-> TRUE, r |-> r]
             e == [Begin(doc) EXCEPT !.region = reg]
  <2>3. reg \in Regions /\ doc' = Commit(e)
    BY <2>1 DEF Regions
  <2>4. Begin(doc).snap # {}
    BY <1>0, BeginTells
  <2>5. ui'.drag = "none" /\ ~Sizing(ui')
    BY <1>0, <1>b, <2>2 DEF Uis, Sizing
  <2> HIDE DEF reg
  <2>6. /\ e \in Docs /\ e.annos = doc.annos /\ e.sel = doc.sel /\ e.undo = doc.undo
        /\ e.redo = doc.redo /\ One(e) /\ Armed(e) = Armed(doc)
    BY <1>0, <2>3, <2>4, RegionTells
  <2> HIDE DEF e
  <2>7. Sound(e, ui)
    BY <1>0, <2>6, SoundBeside
  <2>8. Idle(e, ui) /\ Idle(e, ui')
    BY <2>2, <2>5, <2>6, IdleOf
  <2>9. Sound(Commit(e), ui')
    BY <2>5, <2>6, <2>7, <2>8, SoundCommit
  <2> QED
    BY <2>3, <2>9
<1>4. CASE NudgeKey
  <2>1. /\ doc' \in Nudged(IF ui.nudge THEN doc ELSE Begin(doc)) /\ ui' = [Woken EXCEPT !.nudge = TRUE]
    BY <1>4 DEF NudgeKey
  <2>2. ui'.drag = ui.drag /\ ui'.grab = ui.grab /\ (Sizing(ui') => Sizing(ui))
    BY <1>0, <1>b, <2>1, WokenHas DEF Uis, Sizing
  <2> QED
    BY <1>f, <2>1, <2>2
<1>5. CASE Delete
  <2>1. /\ ui.drag = "none" /\ ui' = Woken
        /\ doc' = Push([doc EXCEPT !.annos = Kept(doc), !.sel = 0], Reverse(Gone(doc)))
    BY <1>5, Zenon DEF Delete, DragActive
  <2>2. Tells(doc, doc.annos)
    BY <1>0, <1>c, <2>1, TellsNow
  <2> DEFINE e == Push([doc EXCEPT !.annos = Kept(doc), !.sel = 0], Reverse(Gone(doc)))
  <2>3. e \in Docs /\ One(e) /\ RedoDrawn(e) /\ Tells(e, e.annos)
    BY <1>0, <2>2, DeleteTells, Zenon
  <2> HIDE DEF e
  <2>4. Idle(e, ui') /\ ~Sizing(ui')
    BY <1>b, <2>1, <2>3, IdleOf DEF Sizing
  <2>5. Sound(e, ui')
    BY <2>3, <2>4, SoundNow
  <2>6. doc' = e
    BY <2>1, Zenon DEF e
  <2> QED
    BY <2>5, <2>6
<1>6. CASE KeyMode
  <2>1. PICK m \in Modes : ~DragActive /\ doc' = Deselected(doc) /\ ui' = SetMode(Woken, m)
    BY <1>6 DEF KeyMode
  <2>2. ui.drag = "none" /\ ui'.drag = "none" /\ ~ui'.resizing
    BY <1>0, <2>1, WokenHas DEF DragActive
  <2> QED
    BY <1>0, <1>d, <2>1, <2>2, SelectSame
<1>7. CASE ReleaseUndoKey
  <2>1. PICK known \in BOOLEAN : doc' = doc /\ ui' = [ui EXCEPT !.undoHeld = ui.undoHeld /\ ~known]
    BY <1>7 DEF ReleaseUndoKey
  <2>2. ui'.drag = ui.drag /\ ui'.grab = ui.grab /\ (Sizing(ui') => Sizing(ui))
    BY <1>0, <2>1 DEF Uis, Sizing
  <2>3. Sound(doc, ui')
    BY <1>0, <2>2, SoundBeside
  <2> QED
    BY <2>1, <2>3
<1>8. CASE ReleaseNudgeKey
  <2>1. CASE doc' = Commit(doc) /\ ui' = [ui EXCEPT !.nudge = FALSE]
    <3>1. ui'.drag = ui.drag /\ ui'.grab = ui.grab /\ (Sizing(ui') => Sizing(ui))
      BY <1>0, <2>1 DEF Uis, Sizing
    <3> QED
      BY <1>e, <2>1, <3>1
  <2>2. CASE UNCHANGED <<doc, ui>>
    <3>1. doc' = doc /\ ui' = ui
      BY <2>2
    <3> QED
      BY <3>1
  <2> QED
    BY <1>8, <2>1, <2>2 DEF ReleaseNudgeKey
<1>9. CASE KeyboardLeave
  <2>1. doc' = Commit(doc) /\ ui' = [ui EXCEPT !.nudge = FALSE, !.undoHeld = FALSE]
    BY <1>9 DEF KeyboardLeave
  <2>2. ui'.drag = ui.drag /\ ui'.grab = ui.grab /\ (Sizing(ui') => Sizing(ui))
    BY <1>0, <2>1 DEF Uis, Sizing
  <2> QED
    BY <1>e, <2>1, <2>2
<1>10. CASE NudgeTick
  <2>1. CASE ui.locked /\ ~Abortable
    <3>1. doc' \in Nudged(doc) /\ ui' = ui
      BY <1>10, <2>1 DEF NudgeTick
    <3> QED
      BY <1>f, <3>1
  <2>2. CASE ~(ui.locked /\ ~Abortable)
    <3>1. doc' = Commit(doc) /\ ui' = [ui EXCEPT !.nudge = FALSE]
      BY <1>10, <2>2 DEF NudgeTick
    <3>2. ui'.drag = ui.drag /\ ui'.grab = ui.grab /\ (Sizing(ui') => Sizing(ui))
      BY <1>0, <3>1 DEF Uis, Sizing
    <3> QED
      BY <1>e, <3>1, <3>2
  <2> QED
    BY <2>1, <2>2
<1> QED
  BY <1>1, <1>2, <1>3, <1>4, <1>5, <1>6, <1>7, <1>8, <1>9, <1>10, Zenon

\* Undoing and redoing, with nothing else going on.
LEMMA PopSound ==
  ASSUME NEW d, DocOk(d), NEW u, Sound(d, u), Idle(d, u), d.snap = {},
         NEW v, v.drag = "none", ~v.resizing
  PROVE  Sound(UndoPop(d), v) /\ Sound(RedoPop(d), v)
<1>1. d \in Docs /\ Tells(d, d.annos) /\ RedoDrawn(d)
  BY TellsNow DEF DocOk, Sound
<1>2. Armed(d) = d.region
  BY DEF Armed
<1>3. Straight(d)
  BY <1>1, <1>2 DEF Straight, Tells, Sight
<1>4. ASSUME NEW e, Straight(e), e.snap = {} PROVE Sound(e, v)
  <2>1. e \in Docs /\ One(e) /\ RedoDrawn(e) /\ Told(e.undo, Sight(e))
    BY <1>4 DEF Straight, DocOk, One
  <2>2. Armed(e) = e.region
    BY <1>4 DEF Armed
  <2>3. Tells(e, e.annos)
    BY <2>1, <2>2 DEF Tells, Sight
  <2>4. Idle(e, v) /\ ~Sizing(v)
    BY <2>1, IdleOf DEF Sizing
  <2> QED
    BY <2>1, <2>3, <2>4, SoundNow
<1>5. UndoPop(d).snap = {}
  <2>1. CASE d.undo = <<>>
    BY <2>1 DEF UndoPop
  <2>2. CASE d.undo # <<>>
    BY <2>2, UndoPopIs
  <2> QED
    BY <2>1, <2>2
<1>6. RedoPop(d).snap = {}
  <2>1. CASE d.redo = <<>>
    BY <2>1 DEF RedoPop
  <2>2. CASE d.redo # <<>>
    BY <2>2, RedoPopIs
  <2> QED
    BY <2>1, <2>2
<1>7. Straight(UndoPop(d)) /\ Straight(RedoPop(d))
  BY <1>3, UndoTells, RedoTells
<1> QED
  BY <1>4, <1>5, <1>6, <1>7

LEMMA HistorySound ==
  ASSUME IInv, Sound(doc, ui), History, ~Busy
  PROVE  Sound(doc', ui')
<1>0. /\ DocOk(doc) /\ doc \in Docs /\ ui \in Uis /\ Woken \in Uis /\ ToolbarUi \in Uis
      /\ Dropped \in Uis
  BY WokenIs DEF IInv, DocOk
<1>1. doc.snap = {} /\ ui.drag = "none" /\ ~ui'.resizing
  BY DEF Busy
<1>2. Idle(doc, ui) /\ Dropped.drag = "none" /\ ~Sizing(Dropped)
  BY <1>0, <1>1, IdleOf, WokenHas DEF Sizing
<1>3. ui'.drag = "none"
  BY <1>0, <1>1, WokenHas DEF History, ToolbarUndo, ToolbarRedo, KeyRedo, KeyUndo, UndoTick, Uis
<1>4. \E d \in TextDone(doc) \cup {doc} : doc' = UndoPop(d) \/ doc' = RedoPop(d)
  BY DEF History, ToolbarUndo, ToolbarRedo, KeyRedo, KeyUndo, UndoTick
<1>5. PICK d \in TextDone(doc) \cup {doc} : doc' = UndoPop(d) \/ doc' = RedoPop(d)
  BY <1>4
<1>6. d \in TextDone(doc) \cup {AddAnno(doc)}
  BY DEF TextDone
<1>7. DocOk(d) /\ Sound(d, Dropped) /\ d.snap = {}
  BY <1>0, <1>1, <1>2, <1>6, TextSound
<1>8. Idle(d, Dropped)
  BY <1>2, <1>7, IdleOf DEF DocOk
<1> QED
  BY <1>1, <1>3, <1>5, <1>7, <1>8, PopSound

LEMMA AbortsSound ==
  ASSUME IInv, Sound(doc, ui), Aborts, ~SeveralMoved, Running'
  PROVE  Sound(doc', ui')
<1>0. DocOk(doc) /\ ui \in Uis /\ Woken \in Uis /\ ui.grab \in Int
  BY WokenIs, UiIs DEF IInv
<1>1. ASSUME NEW u \in Uis, Abort(u), u.editMode = ui.editMode, u.resizing => ui.resizing
      PROVE  Sound(doc', ui')
  <2>1. doc' = Commit(Reverted)
    BY <1>1 DEF Abort
  <2>2. ui'.drag = "none" /\ (Sizing(ui') => Sizing(ui))
    BY <1>1 DEF Abort, Uis, Sizing
  <2>3. Sound(Commit(Reverted), ui')
    BY <1>0, <2>2, AbortSound
  <2> QED
    BY <2>1, <2>3
<1>2. ~Finish("cancelled")
  BY DEF Finish, Running, StartUi
<1> QED
  BY <1>0, <1>1, <1>2, WokenHas DEF Aborts, Cancel, TouchCancel

LEMMA InitTells == Init => TInv
<1> SUFFICES ASSUME Init PROVE TInv
  OBVIOUS
<1>1. doc \in Docs
  BY InitOk DEF IInv, DocOk
<1>2. /\ doc.annos = <<>> /\ doc.region = StartRegion /\ doc.snap = {}
      /\ doc.undo = <<>> /\ doc.redo = <<>>
  BY DEF Init
<1>3. PICK locked : ui = StartUi(locked)
  BY DEF Init
<1>4. ui.drag = "none" /\ ~ui.resizing /\ ~ui.text
  BY <1>3 DEF StartUi
<1>5. One(doc) /\ Armed(doc) = doc.region
  BY <1>2 DEF One, Armed
<1>6. RedoDrawn(doc)
  <2>1. DOMAIN <<>> = {}
    OBVIOUS
  <2> QED
    BY <1>2, <2>1 DEF RedoDrawn
<1>7. Tells(doc, doc.annos)
  BY <1>2, <1>5, OpeningTold DEF Tells, Opening
<1>8. Idle(doc, ui) /\ ~Sizing(ui)
  BY <1>1, <1>4, IdleOf DEF Sizing
<1>9. Sound(doc, ui)
  BY <1>1, <1>5, <1>6, <1>7, <1>8, SoundNow
<1> QED
  BY <1>4, <1>9 DEF TInv, TextAlone

LEMMA EditsRun == Edits => Running
<1>1. \/ PressColor \/ PressToolPicker \/ PressOffPanel
      \/ ToolbarMode \/ ToolbarColor \/ ToolbarAttr \/ ToolbarEnd
      \/ PressUnlocked \/ PressEndsText \/ PressRegion \/ PressCorner \/ PressAnno \/ PressToggle
      \/ PressNothing \/ PressDraw \/ PressText \/ PressCounter
      => Running
  BY Zenon DEF PressColor, PressToolPicker, PressOffPanel, ToolbarMode, ToolbarColor,
     ToolbarAttr, ToolbarEnd, PressUnlocked, PressEndsText, PressRegion, PressCorner, PressAnno,
     PressToggle, PressNothing, PressDraw, PressText, PressCounter, PressLocked, PressTool,
     OnScreen, ToolbarPress, Press
<1>2. DragNewRegion \/ DragRegion \/ DragAnnos \/ DragCorner \/ DragAttr => Running
  BY DEF DragNewRegion, DragRegion, DragAnnos, DragCorner, DragAttr
<1>3. ReleaseAttr \/ ReleaseRegion \/ ReleaseAnnos \/ ReleaseCorner \/ ReleaseDraw => Running
  BY Zenon DEF ReleaseAttr, ReleaseRegion, ReleaseAnnos, ReleaseCorner, ReleaseDraw
<1>4. ReleaseOnToolbar \/ ReleaseUnlocked \/ ReleaseElsewhere => Running
  BY Zenon DEF ReleaseOnToolbar, ReleaseUnlocked, ReleaseElsewhere
<1>5. \/ Scroll \/ TextKey \/ Confirm \/ SelectAll \/ NudgeKey \/ Delete \/ KeyMode
      \/ ReleaseUndoKey \/ ReleaseNudgeKey \/ KeyboardLeave \/ NudgeTick
      => Running
  BY Zenon DEF Scroll, TextKey, Confirm, SelectAll, NudgeKey, Delete, KeyMode, Key,
     ReleaseUndoKey, ReleaseNudgeKey, KeyboardLeave, NudgeTick
<1> QED
  BY <1>1, <1>2, <1>3, <1>4, <1>5 DEF Edits

LEMMA NextTells == IInv /\ TInv /\ [Next]_vars => TInv'
<1> SUFFICES ASSUME IInv, TInv, [Next]_vars PROVE TInv'
  OBVIOUS
<1>1. CASE Next
  <2>1. TextAlone(ui')
    BY <1>1, TextKeeps DEF IInv, TInv
  <2>2. ASSUME Running', ~lapse' PROVE Sound(doc', ui')
    <3>1. CASE Edits /\ lapse' = (lapse \/ Lapse)
      <4>1. ~lapse /\ ~Lapse
        BY <2>2, <3>1, Zenon
      <4>2. Running
        BY <3>1, EditsRun
      <4>3. TextAlone(ui) /\ Sound(doc, ui)
        BY <4>1, <4>2 DEF TInv
      <4>4. ~ToolbarEnd /\ ~Confirm
        <5>1. \A how \in {"done", "cancelled"} : ~Finish(how)
          BY <2>2 DEF Running, Finish, StartUi
        <5> QED
          BY <5>1 DEF ToolbarEnd, Confirm
      <4> QED
        BY <3>1, <4>1, <4>3, <4>4, PressSound, DragSounds, KeySound DEF Edits
    <3>2. CASE Aborts /\ lapse' = (lapse \/ SeveralMoved)
      <4>1. ~lapse /\ ~SeveralMoved
        BY <2>2, <3>2, Zenon
      <4>2. Running
        BY <3>2, Zenon DEF Aborts, Cancel, TouchCancel
      <4> QED
        BY <2>2, <3>2, <4>1, <4>2, AbortsSound DEF TInv
    <3>3. CASE History /\ lapse' = (lapse \/ Busy)
      <4>1. ~lapse /\ ~Busy
        BY <2>2, <3>3, Zenon
      <4>2. Running
        BY <3>3, Zenon DEF History, ToolbarUndo, ToolbarRedo, ToolbarPress, Press, KeyRedo, KeyUndo, Key,
           UndoTick
      <4> QED
        BY <3>3, <4>1, <4>2, HistorySound DEF TInv
    <3> QED
      BY <1>1, <3>1, <3>2, <3>3 DEF Next
  <2> QED
    BY <2>1, <2>2 DEF TInv
<1>2. CASE UNCHANGED vars
  BY <1>2 DEF vars, TInv, Running
<1> QED
  BY <1>1, <1>2

\* EverythingUndoable, whatever the bounds: undoing everything passes through each
\* annotation as it was when it was drawn and ends with the empty list and the region
\* the selector opened with, unless a change was lost in one of the ways lapse names.
THEOREM UndoTheorem == Spec => []EverythingUndoable
<1>1. Spec => [](IInv /\ TInv)
  <2>1. Init => IInv /\ TInv
    BY InitOk, InitTells
  <2>2. (IInv /\ TInv) /\ [Next]_vars => (IInv /\ TInv)'
    BY NextKeeps, NextTells
  <2> QED
    BY <2>1, <2>2, PTL DEF Spec
<1>2. IInv /\ TInv => EverythingUndoable
  <2> SUFFICES ASSUME IInv, TInv, Running, ~lapse, doc.snap = {}, ui.drag = "none"
               PROVE  LET start == Undos(doc, Len(doc.undo)) IN
                      /\ start.annos = <<>> /\ start.region = StartRegion
                      /\ \A n \in DOMAIN start.redo : AllDrawn(start.redo[n])
    BY Zenon DEF EverythingUndoable, AllDrawn, AsDrawn
  <2>1. DocOk(doc) /\ doc \in Docs /\ Sound(doc, ui)
    BY DEF IInv, TInv, DocOk
  <2>2. Tells(doc, doc.annos) /\ RedoDrawn(doc) /\ Armed(doc) = doc.region
    BY <2>1, IdleOf, TellsNow DEF Sound, Armed
  <2>3. Straight(doc)
    BY <2>1, <2>2 DEF Straight, Tells, Sight
  <2> QED
    BY <2>3, StraightUndone, Zenon
<1> QED
  BY <1>1, <1>2, PTL

=============================================================================
