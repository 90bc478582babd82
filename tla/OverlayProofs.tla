--------------------------- MODULE OverlayProofs ---------------------------
(***************************************************************************)
(* Proofs about Overlay, for any trees, sessions and limits.  The byte     *)
(* accounting needs nothing of where a path leads: whatever lookup         *)
(* answers, no command makes the sums wrong.  What ls shows and what a     *)
(* command changes does: the second half shows that the recursion of       *)
(* walk and lookup is defined, and reasons by induction over the number of *)
(* nested links and the length of the path.                                *)
(***************************************************************************)
EXTENDS Overlay, FiniteSetTheorems, SequenceTheorems, WellFoundedInduction, TLAPS

-----------------------------------------------------------------------------
(* Sums as numbers of cells.                                               *)

\* The cells below the graph of f, one for each unit of each f[a].
Cells(A, M, f) == {x \in A \X (1..M) : x[2] <= f[x[1]]}

LEMMA CellsFinite ==
  ASSUME NEW A, IsFiniteSet(A), NEW M \in Nat, NEW f
  PROVE  IsFiniteSet(Cells(A, M, f)) /\ Cardinality(Cells(A, M, f)) \in Nat
  <1>1. IsFiniteSet(1..M)
    BY FS_Interval
  <1>2. IsFiniteSet(A \X (1..M))
    BY <1>1, FS_Product
  <1>3. Cells(A, M, f) \in SUBSET (A \X (1..M))
    BY DEF Cells
  <1> QED
    BY <1>2, <1>3, FS_Subset, FS_CardinalityType

\* The cells of one column, of height n.
Column(A, M, a, n) == {x \in A \X (1..M) : x[1] = a /\ x[2] <= n}

LEMMA ColumnCount ==
  ASSUME NEW A, IsFiniteSet(A), NEW M \in Nat, NEW a \in A, NEW n \in 0..M
  PROVE  IsFiniteSet(Column(A, M, a, n)) /\ Cardinality(Column(A, M, a, n)) = n
  <1> DEFINE C == Column(A, M, a, n)
             g == [i \in 1..n |-> <<a, i>>]
  <1>1. g \in Bijection(1..n, C)
    <2>1. g \in [1..n -> C]
      BY DEF Column
    <2>2. \A i, j \in 1..n : g[i] = g[j] => i = j
      OBVIOUS
    <2>3. \A x \in C : \E i \in 1..n : g[i] = x
      <3> SUFFICES ASSUME NEW x \in C PROVE \E i \in 1..n : g[i] = x
        OBVIOUS
      <3>1. x[2] \in 1..n /\ x = <<a, x[2]>>
        BY DEF Column
      <3> QED
        BY <3>1
    <2> QED
      BY <2>1, <2>2, <2>3 DEF Bijection, Injection, Surjection, IsInjective
  <1>2. IsFiniteSet(1..n) /\ Cardinality(1..n) = n
    BY FS_Interval
  <1> HIDE DEF C, g
  <1>3. ExistsBijection(1..n, C)
    BY <1>1 DEF ExistsBijection
  <1>4. IsFiniteSet(C) /\ Cardinality(C) = n
    BY <1>2, <1>3, FS_Bijection
  <1> QED
    BY <1>4 DEF C

\* Changing one value changes the sum by the difference.
LEMMA CellsUpdate ==
  ASSUME NEW A, IsFiniteSet(A), NEW M \in Nat, NEW a \in A,
         NEW f, NEW g, f[a] \in 0..M, g[a] \in 0..M,
         \A b \in A \ {a} : g[b] = f[b]
  PROVE  Cardinality(Cells(A, M, g)) + f[a] = Cardinality(Cells(A, M, f)) + g[a]
  <1> DEFINE Rest == {x \in A \X (1..M) : x[1] # a /\ x[2] <= f[x[1]]}
             Col(n) == Column(A, M, a, n)
  <1>1. Cells(A, M, f) = Rest \cup Col(f[a])
    BY DEF Cells, Column
  <1>2. Cells(A, M, g) = Rest \cup Col(g[a])
    BY DEF Cells, Column
  <1>3. \A n : Rest \cap Col(n) = {}
    BY DEF Column
  <1>4. IsFiniteSet(Rest) /\ Cardinality(Rest) \in Nat
    <2>1. Rest \subseteq Cells(A, M, f)
      BY DEF Cells
    <2>2. IsFiniteSet(Cells(A, M, f))
      BY CellsFinite
    <2> HIDE DEF Rest
    <2> QED
      BY <2>1, <2>2, FS_Subset, FS_CardinalityType
  <1>5. ASSUME NEW n \in 0..M PROVE IsFiniteSet(Col(n)) /\ Cardinality(Col(n)) = n
    BY ColumnCount
  <1> HIDE DEF Rest, Col
  <1>6. ASSUME NEW n \in 0..M PROVE Cardinality(Rest \cup Col(n)) = Cardinality(Rest) + n
    <2>1. Cardinality(Rest \cup Col(n))
            = Cardinality(Rest) + Cardinality(Col(n)) - Cardinality(Rest \cap Col(n))
      BY <1>4, <1>5, FS_Union
    <2>2. Cardinality(Rest \cap Col(n)) = 0
      BY <1>3, FS_EmptySet
    <2> QED
      BY <1>4, <1>5, <2>1, <2>2
  <1>7. /\ Cardinality(Cells(A, M, f)) = Cardinality(Rest) + f[a]
        /\ Cardinality(Cells(A, M, g)) = Cardinality(Rest) + g[a]
    BY <1>1, <1>2, <1>6
  <1> QED
    BY <1>4, <1>7

\* One value is at most the sum.
LEMMA CellsBound ==
  ASSUME NEW A, IsFiniteSet(A), NEW M \in Nat, NEW a \in A, NEW f, f[a] \in 0..M
  PROVE  f[a] <= Cardinality(Cells(A, M, f))
  <1> DEFINE g == [b \in A |-> IF b = a THEN 0 ELSE f[b]]
  <1>1. g[a] = 0 /\ \A b \in A \ {a} : g[b] = f[b]
    OBVIOUS
  <1> HIDE DEF g
  <1>2. Cardinality(Cells(A, M, g)) + f[a] = Cardinality(Cells(A, M, f)) + g[a]
    BY <1>1, CellsUpdate
  <1> QED
    BY <1>1, <1>2, CellsFinite

LEMMA CellsNone ==
  ASSUME NEW A, NEW M \in Nat, NEW f, \A a \in A : f[a] = 0
  PROVE  Cardinality(Cells(A, M, f)) = 0
  <1>1. Cells(A, M, f) = {}
    BY DEF Cells
  <1> QED
    BY <1>1, FS_EmptySet

-----------------------------------------------------------------------------
(* One session's view.                                                     *)

Nodes == {Missing, NewDir} \cup {File(n) : n \in 0..MaxFileBytes}
Views == [overlay : [Paths -> Nodes], deleted : SUBSET Paths, bytes : Nat, cwd : Paths]

lens(v) == [p \in Paths |-> v.overlay[p].len]
Files(v) == {p \in Paths : v.overlay[p].kind = "file"}
Charged(v) == Cardinality(Cells(Paths, MaxFileBytes, lens(v)))

\* What every operation keeps true of a view.  That nothing is both written
\* and tombstoned is what makes an overlay node visible to Lstat wherever its
\* directory is, so no directory is written over and no file made over.
GoodView(v) ==
  /\ v \in Views
  /\ \A p \in v.deleted : v.overlay[p] = Missing
  /\ v.bytes = Charged(v) /\ v.bytes <= MaxBytes
  /\ Cardinality(Files(v)) <= MaxEntries

LEMMA NodeFacts ==
  /\ Missing.kind = "none" /\ Missing.len = 0
  /\ NewDir.kind = "dir" /\ NewDir.len = 0
  /\ \A n : File(n).kind = "file" /\ File(n).len = n
  /\ Missing \in Nodes /\ NewDir \in Nodes /\ \A n \in 0..MaxFileBytes : File(n) \in Nodes
  /\ \A x \in Nodes : /\ x.len \in 0..MaxFileBytes
                      /\ x = Missing \/ x.kind \in {"dir", "file"}
                      /\ x.kind # "file" => x.len = 0
  /\ \A x \in Nodes : ~IsLink(x)
  /\ \A n : ~IsLink(File(n))
  BY LimitsAssumption DEF Nodes, Missing, NewDir, Dir, File, IsLink

LEMMA FilesFinite ==
  ASSUME NEW v
  PROVE  IsFiniteSet(Files(v)) /\ Cardinality(Files(v)) \in Nat
  BY PathsAssumption, FS_Subset, FS_CardinalityType DEF Files

LEMMA FreshGood == GoodView(Fresh) /\ Fresh.bytes = 0
  <1>1. Fresh \in Views /\ Fresh.deleted = {} /\ Fresh.bytes = 0
        /\ \A p \in Paths : Fresh.overlay[p] = Missing
    BY NodeFacts, PathsAssumption DEF Fresh, Views
  <1>2. Charged(Fresh) = 0
    BY <1>1, NodeFacts, CellsNone, LimitsAssumption DEF Charged, lens
  <1>3. Files(Fresh) = {}
    BY <1>1, NodeFacts DEF Files
  <1> QED
    BY <1>1, <1>2, <1>3, FS_EmptySet, LimitsAssumption DEF GoodView

\* A path is hidden by its own tombstone or by one that hides its directory.
LEMMA HiddenByPrefix ==
  ASSUME NEW v, NEW p \in Paths \ {Root}, isDeleted(v, p)
  PROVE  p \in v.deleted \/ isDeleted(v, parentDir(p))
  <1>1. p \in Seq(STRING) /\ p # <<>> /\ Len(p) \in Nat
    BY PathsAssumption DEF Root
  <1>2. PICK i \in 0..Len(p) : SubSeq(p, 1, i) \in v.deleted
    BY DEF isDeleted
  <1>3. CASE i = Len(p)
    <2>1. SubSeq(p, 1, Len(p)) = p
      BY <1>1
    <2> QED
      BY <1>2, <1>3, <2>1
  <1>4. CASE i # Len(p)
    <2> DEFINE d == parentDir(p)
    <2>1. d = SubSeq(p, 1, Len(p) - 1) /\ Len(p) - 1 \in Nat
      BY <1>1 DEF parentDir
    <2>2. d \in Seq(STRING) /\ Len(d) = Len(p) - 1 /\ \A j \in 1..Len(d) : d[j] = p[j]
      <3> DEFINE m == Len(p) - 1
      <3>1. m \in Nat /\ \A j \in 1..m : p[j] \in STRING
        BY <1>1, <2>1
      <3> HIDE DEF m, d
      <3>2. /\ SubSeq(p, 1, m) \in Seq(STRING)
            /\ Len(SubSeq(p, 1, m)) = IF 1 <= m THEN m - 1 + 1 ELSE 0
            /\ \A j \in 1..(m - 1 + 1) : SubSeq(p, 1, m)[j] = p[1 + j - 1]
        BY <3>1, SubSeqProperties
      <3>3. d = SubSeq(p, 1, m)
        BY <2>1 DEF m
      <3>4. d \in Seq(STRING) /\ Len(d) = m /\ \A j \in 1..m : d[j] = p[j]
        BY <3>1, <3>2, <3>3
      <3> QED
        BY <3>4 DEF m
    <2> HIDE DEF d
    <2>3. i \in 0..Len(d)
      BY <1>1, <1>2, <1>4, <2>2
    <2>4. SubSeq(d, 1, i) = SubSeq(p, 1, i)
      <3>1. /\ SubSeq(d, 1, i) \in Seq(STRING) /\ Len(SubSeq(d, 1, i)) = i
            /\ \A j \in 1..i : SubSeq(d, 1, i)[j] = d[j]
        BY <2>2, <2>3
      <3>2. /\ SubSeq(p, 1, i) \in Seq(STRING) /\ Len(SubSeq(p, 1, i)) = i
            /\ \A j \in 1..i : SubSeq(p, 1, i)[j] = p[j]
        BY <1>1, <1>2
      <3>3. \A j \in 1..i : d[j] = p[j]
        BY <2>2, <2>3
      <3> QED
        BY <3>1, <3>2, <3>3, SeqEqual
    <2>5. isDeleted(v, d)
      BY <1>2, <2>3, <2>4 DEF isDeleted
    <2> QED
      BY <2>5 DEF d
  <1> QED
    BY <1>3, <1>4

\* What the overlay holds in a directory that exists is what Lstat finds.
LEMMA OverlayIsSeen ==
  ASSUME NEW v, GoodView(v), NEW p \in Paths \ {Root},
         Stat(v, parentDir(p)).kind = "dir", v.overlay[p] # Missing
  PROVE  Lstat(v, p) = v.overlay[p]
  <1>1. ~isDeleted(v, parentDir(p))
    BY NodeFacts, Zenon DEF Stat
  <1>2. p \notin v.deleted
    BY DEF GoodView
  <1>3. ~isDeleted(v, p)
    BY <1>1, <1>2, HiddenByPrefix
  <1> QED
    BY <1>3 DEF Lstat, child

\* Replacing what the overlay has at p.
LEMMA Replaced ==
  ASSUME NEW v, GoodView(v), NEW w, w \in Views, NEW p \in Paths,
         \A q \in Paths \ {p} : w.overlay[q] = v.overlay[q]
  PROVE  /\ Charged(w) + v.overlay[p].len = Charged(v) + w.overlay[p].len
         /\ Charged(w) \in Nat /\ v.overlay[p].len <= v.bytes
  <1>1. /\ v.overlay[p] \in Nodes /\ w.overlay[p] \in Nodes
        /\ v.overlay \in [Paths -> Nodes]
    BY DEF GoodView, Views
  <1>2. lens(v)[p] \in 0..MaxFileBytes /\ lens(w)[p] \in 0..MaxFileBytes
        /\ lens(v)[p] = v.overlay[p].len /\ lens(w)[p] = w.overlay[p].len
    BY <1>1, NodeFacts DEF lens
  <1>3. \A q \in Paths \ {p} : lens(w)[q] = lens(v)[q]
    BY DEF lens
  <1>4. IsFiniteSet(Paths) /\ MaxFileBytes \in Nat
    BY PathsAssumption, LimitsAssumption
  <1>5. Charged(w) + lens(v)[p] = Charged(v) + lens(w)[p]
    BY <1>2, <1>3, <1>4, CellsUpdate DEF Charged
  <1>6. lens(v)[p] <= Charged(v)
    BY <1>2, <1>4, CellsBound DEF Charged
  <1>7. Charged(w) \in Nat
    BY <1>4, CellsFinite DEF Charged
  <1> QED
    BY <1>2, <1>5, <1>6, <1>7 DEF GoodView

\* WriteFile: a new file takes an entry, an old one is replaced, and a
\* directory is never written over.
LEMMA WrittenGood ==
  ASSUME NEW v, GoodView(v), NEW p \in Paths, NEW n, Writable(v, p, n)
  PROVE  /\ GoodView(Written(v, p, n)) /\ n \in 0..MaxFileBytes
         /\ v.overlay[p].len \in 0..MaxFileBytes /\ v.overlay[p].len <= v.bytes
         /\ Written(v, p, n).bytes = (v.bytes + n) - v.overlay[p].len
  <1> DEFINE w == Written(v, p, n)
  <1>0. /\ v \in Views /\ v.bytes \in Nat /\ v.overlay[p] \in Nodes
        /\ n \in 0..MaxFileBytes /\ p # Root /\ MaxFileBytes \in Nat
    BY LimitsAssumption DEF GoodView, Views, Writable
  <1>1. v.overlay[p].len \in 0..MaxFileBytes
    BY <1>0, NodeFacts
  <1>2. v.overlay[p].len <= v.bytes
    BY <1>0, Replaced
  <1>a. w = [overlay |-> [v.overlay EXCEPT ![p] = File(n)], deleted |-> v.deleted \ {p},
             bytes |-> (v.bytes + n) - v.overlay[p].len, cwd |-> v.cwd]
    BY DEF Written
  <1>3. /\ w.overlay = [v.overlay EXCEPT ![p] = File(n)]
        /\ w.deleted = v.deleted \ {p} /\ w.bytes = (v.bytes + n) - v.overlay[p].len
        /\ w.cwd = v.cwd /\ w = [overlay |-> w.overlay, deleted |-> w.deleted,
                                 bytes |-> w.bytes, cwd |-> w.cwd]
    <2> HIDE DEF w
    <2> QED
      BY <1>a
  <1>4. w.bytes \in Nat
    BY <1>0, <1>1, <1>2, <1>3
  <1>5. w \in Views
    <2>1. w.overlay \in [Paths -> Nodes] /\ w.deleted \in SUBSET Paths /\ w.cwd \in Paths
      BY <1>0, <1>3, NodeFacts DEF Views
    <2> HIDE DEF w
    <2> QED
      BY <1>3, <1>4, <2>1 DEF Views
  <1>6. w.overlay[p] = File(n) /\ \A q \in Paths \ {p} : w.overlay[q] = v.overlay[q]
    BY <1>0, <1>3 DEF Views
  <1> HIDE DEF w
  <1>7. Charged(w) = w.bytes
    <2>1. Charged(w) + v.overlay[p].len = Charged(v) + n /\ Charged(w) \in Nat
      BY <1>5, <1>6, Replaced, NodeFacts
    <2> QED
      BY <1>0, <1>1, <1>3, <2>1 DEF GoodView
  <1>8. w.bytes <= MaxBytes
    BY <1>0, <1>1, <1>3, LimitsAssumption DEF Writable
  <1>9. \A q \in w.deleted : w.overlay[q] = Missing
    BY <1>0, <1>3, <1>6 DEF GoodView, Views
  <1>10. Cardinality(Files(w)) <= MaxEntries
    <2>1. Files(w) = Files(v) \cup {p}
      BY <1>6, NodeFacts DEF Files
    <2>2. CASE v.overlay[p] # Missing
      <3>1. v.overlay[p].kind = "file"
        BY <1>0, <2>2, OverlayIsSeen, NodeFacts DEF Writable
      <3>2. Files(w) = Files(v)
        BY <2>1, <3>1 DEF Files
      <3> QED
        BY <3>2 DEF GoodView
    <2>3. CASE v.overlay[p] = Missing
      <3> DEFINE on == {q \in Paths : v.overlay[q] # Missing}
      <3>1. Cardinality(on) + Cardinality(v.deleted) < MaxEntries
        BY <2>3 DEF Writable, entries
      <3>2. IsFiniteSet(on) /\ IsFiniteSet(v.deleted)
        BY <1>0, PathsAssumption, FS_Subset DEF Views
      <3>3. Files(v) \subseteq on
        BY NodeFacts DEF Files
      <3> HIDE DEF on
      <3>4. Cardinality(Files(v)) <= Cardinality(on)
            /\ Cardinality(on) \in Nat /\ Cardinality(v.deleted) \in Nat
        BY <3>2, <3>3, FS_Subset, FS_CardinalityType
      <3>5. Cardinality(Files(w)) <= Cardinality(Files(v)) + 1 /\ Cardinality(Files(w)) \in Nat
        BY <2>1, FilesFinite, FS_AddElement
      <3> QED
        BY <3>1, <3>4, <3>5, FilesFinite, LimitsAssumption
    <2> QED
      BY <2>2, <2>3
  <1>11. GoodView(w)
    BY <1>5, <1>7, <1>8, <1>9, <1>10 DEF GoodView
  <1> QED
    BY <1>0, <1>1, <1>2, <1>3, <1>11 DEF w

\* Mkdir: nothing of the overlay is there, so no bytes change hands.
LEMMA MadeGood ==
  ASSUME NEW v, GoodView(v), NEW p \in Paths, Makable(v, p)
  PROVE  GoodView(Made(v, p)) /\ Made(v, p).bytes = v.bytes
  <1> DEFINE w == Made(v, p)
  <1>0. v \in Views /\ v.bytes \in Nat /\ p # Root
    BY DEF GoodView, Views, Makable
  <1>1. v.overlay[p] = Missing
    BY <1>0, OverlayIsSeen DEF Makable
  <1>a. w = [overlay |-> [v.overlay EXCEPT ![p] = NewDir], deleted |-> v.deleted \ {p},
             bytes |-> v.bytes, cwd |-> v.cwd]
    BY DEF Made
  <1>2. /\ w.overlay = [v.overlay EXCEPT ![p] = NewDir]
        /\ w.deleted = v.deleted \ {p} /\ w.bytes = v.bytes
        /\ w.cwd = v.cwd /\ w = [overlay |-> w.overlay, deleted |-> w.deleted,
                                 bytes |-> w.bytes, cwd |-> w.cwd]
    <2> HIDE DEF w
    <2> QED
      BY <1>a
  <1>3. w \in Views
    <2>1. w.overlay \in [Paths -> Nodes] /\ w.deleted \in SUBSET Paths /\ w.cwd \in Paths
      BY <1>0, <1>2, NodeFacts DEF Views
    <2> HIDE DEF w
    <2> QED
      BY <1>0, <1>2, <2>1 DEF Views
  <1>4. w.overlay[p] = NewDir /\ \A q \in Paths \ {p} : w.overlay[q] = v.overlay[q]
    BY <1>0, <1>2 DEF Views
  <1> HIDE DEF w
  <1>5. Charged(w) = w.bytes
    <2>1. Charged(w) + 0 = Charged(v) + 0 /\ Charged(w) \in Nat
      BY <1>1, <1>3, <1>4, Replaced, NodeFacts
    <2> QED
      BY <1>0, <1>2, <2>1 DEF GoodView
  <1>6. Files(w) = Files(v)
    BY <1>1, <1>4, NodeFacts DEF Files
  <1>7. \A q \in w.deleted : w.overlay[q] = Missing
    BY <1>0, <1>2, <1>4 DEF GoodView, Views
  <1>8. GoodView(w)
    BY <1>2, <1>3, <1>5, <1>6, <1>7 DEF GoodView
  <1> QED
    BY <1>2, <1>8 DEF w

\* Remove gives back what the overlay held at the path.
LEMMA RemovedGood ==
  ASSUME NEW v, GoodView(v), NEW p \in Paths
  PROVE  GoodView(Removed(v, p)) /\ Removed(v, p).bytes <= v.bytes
  <1> DEFINE w == Removed(v, p)
  <1>0. v \in Views /\ v.bytes \in Nat /\ v.overlay[p] \in Nodes
    BY DEF GoodView, Views
  <1>1. CASE p = Root \/ Lstat(v, p) = Missing
    BY <1>0, <1>1 DEF Removed
  <1>2. CASE ~(p = Root \/ Lstat(v, p) = Missing)
    <2>1. /\ w.overlay = [v.overlay EXCEPT ![p] = Missing]
          /\ w.deleted = v.deleted \cup {p} /\ w.bytes = v.bytes - v.overlay[p].len
          /\ w.cwd = v.cwd /\ w = [overlay |-> w.overlay, deleted |-> w.deleted,
                                   bytes |-> w.bytes, cwd |-> w.cwd]
      BY <1>0, <1>2 DEF Removed, Views
    <2>2. v.overlay[p].len \in 0..MaxFileBytes /\ v.overlay[p].len <= v.bytes
      BY <1>0, NodeFacts, Replaced
    <2>3. w.bytes \in Nat /\ w.bytes <= v.bytes
      BY <1>0, <2>1, <2>2, LimitsAssumption
    <2>4. w \in Views
      <3>1. w.overlay \in [Paths -> Nodes] /\ w.deleted \in SUBSET Paths /\ w.cwd \in Paths
        BY <1>0, <2>1, NodeFacts DEF Views
      <3> HIDE DEF w
      <3> QED
        BY <2>1, <2>3, <3>1 DEF Views
    <2>5. w.overlay[p] = Missing /\ \A q \in Paths \ {p} : w.overlay[q] = v.overlay[q]
      BY <1>0, <2>1 DEF Views
    <2> HIDE DEF w
    <2>6. Charged(w) = w.bytes
      <3>1. Charged(w) + v.overlay[p].len = Charged(v) + 0 /\ Charged(w) \in Nat
        BY <2>4, <2>5, Replaced, NodeFacts
      <3> QED
        BY <1>0, <2>1, <2>2, <3>1, LimitsAssumption DEF GoodView
    <2>7. Cardinality(Files(w)) <= MaxEntries
      <3>1. Files(w) \subseteq Files(v)
        BY <2>5, NodeFacts DEF Files
      <3>2. Cardinality(Files(w)) <= Cardinality(Files(v)) /\ Cardinality(Files(w)) \in Nat
        BY <3>1, FilesFinite, FS_Subset
      <3> QED
        BY <3>2, FilesFinite, LimitsAssumption DEF GoodView
    <2>8. \A q \in w.deleted : w.overlay[q] = Missing
      BY <1>0, <2>1, <2>5 DEF GoodView, Views
    <2>9. GoodView(w)
      BY <1>0, <2>3, <2>4, <2>6, <2>7, <2>8, LimitsAssumption DEF GoodView
    <2> QED
      BY <2>3, <2>9 DEF w
  <1> QED
    BY <1>1, <1>2

LEMMA ChdirGood ==
  ASSUME NEW v, GoodView(v), NEW p \in Paths
  PROVE  GoodView([v EXCEPT !.cwd = p]) /\ [v EXCEPT !.cwd = p].bytes = v.bytes
  <1> DEFINE w == [v EXCEPT !.cwd = p]
  <1>1. /\ w \in Views /\ w.overlay = v.overlay /\ w.deleted = v.deleted /\ w.bytes = v.bytes
    BY DEF GoodView, Views
  <1> HIDE DEF w
  <1>2. Charged(w) = Charged(v) /\ Files(w) = Files(v)
    BY <1>1 DEF Charged, lens, Files
  <1>3. GoodView(w)
    BY <1>1, <1>2 DEF GoodView
  <1> QED
    BY <1>1, <1>3 DEF w

-----------------------------------------------------------------------------
(* The counter.                                                            *)

Dues == [bytes : 0..MaxFileBytes, rm : Paths \cup {Nowhere}]
debts == [s \in Sessions |-> due[s].bytes]

Held == Cardinality(Cells(Sessions, MaxBytes, bytes))
Owed == Cardinality(Cells(Sessions, MaxFileBytes, debts))

\* The inductive invariant: every view is good, and the counter is what the
\* sessions hold and what refused reservations have yet to take back.
PoolInv ==
  /\ DOMAIN sess = Sessions /\ \A s \in Sessions : GoodView(sess[s])
  /\ due \in [Sessions -> Dues]
  /\ pool = Held + Owed

\* What a step may do to the sessions' bytes: one session's bytes change, and
\* grow only while the counter stays within the ceiling.
Moved ==
  \/ bytes' = bytes
  \/ \E s \in Sessions, n \in 0..MaxBytes :
       /\ bytes' = [bytes EXCEPT ![s] = n]
       /\ n < bytes[s] \/ (n > bytes[s] /\ pool' <= MaxGlobalBytes)

LEMMA HeldTypes ==
  ASSUME PoolInv
  PROVE  /\ Held \in Nat /\ Owed \in Nat /\ pool \in Nat
         /\ \A s \in Sessions : /\ bytes[s] = sess[s].bytes /\ sess[s].bytes \in 0..MaxBytes
                               /\ debts[s] = due[s].bytes /\ due[s].bytes \in 0..MaxFileBytes
                               /\ due[s] \in Dues
  <1>1. Held \in Nat /\ Owed \in Nat
    BY CellsFinite, PathsAssumption, LimitsAssumption DEF Held, Owed
  <1>2. ASSUME NEW s \in Sessions PROVE sess[s].bytes \in 0..MaxBytes
    BY LimitsAssumption DEF PoolInv, GoodView, Views
  <1>3. ASSUME NEW s \in Sessions PROVE due[s].bytes \in 0..MaxFileBytes /\ due[s] \in Dues
    BY DEF PoolInv, Dues
  <1> QED
    BY <1>1, <1>2, <1>3 DEF PoolInv, bytes, debts

\* A view is replaced and the counter follows its bytes.
LEMMA ViewStep ==
  ASSUME PoolInv, NEW s \in Sessions, NEW v, GoodView(v), Becomes(s, v),
         due' \in [Sessions -> Dues], \A t \in Sessions : due'[t].bytes = due[t].bytes
  PROVE  /\ PoolInv'
         /\ v.bytes <= sess[s].bytes \/ pool' <= MaxGlobalBytes => Moved
  <1>1. /\ sess' = [sess EXCEPT ![s] = v] /\ pool' = (pool + v.bytes) - sess[s].bytes
        /\ DOMAIN sess = Sessions
    BY DEF Becomes, PoolInv
  <1>2. v.bytes \in 0..MaxBytes
    BY LimitsAssumption DEF GoodView, Views
  <1>3. bytes' = [bytes EXCEPT ![s] = v.bytes] /\ DOMAIN bytes = Sessions
    BY <1>1 DEF bytes
  <1>4. bytes'[s] = v.bytes /\ \A t \in Sessions \ {s} : bytes'[t] = bytes[t]
    BY <1>3
  <1>5. bytes[s] = sess[s].bytes /\ bytes[s] \in 0..MaxBytes
    BY HeldTypes
  <1>6. Held' + bytes[s] = Held + v.bytes
    <2>1. bytes'[s] \in 0..MaxBytes
      BY <1>2, <1>4
    <2>2. Held' + bytes[s] = Held + bytes'[s]
      <3>1. /\ IsFiniteSet(Sessions) /\ MaxBytes \in Nat /\ bytes[s] \in 0..MaxBytes
            /\ \A t \in Sessions \ {s} : bytes'[t] = bytes[t]
        BY <1>4, <1>5, PathsAssumption, LimitsAssumption
      <3>2. Cardinality(Cells(Sessions, MaxBytes, bytes')) + bytes[s]
              = Cardinality(Cells(Sessions, MaxBytes, bytes)) + bytes'[s]
        BY ONLY <2>1, <3>1, CellsUpdate, s \in Sessions
      <3> QED
        BY <3>2 DEF Held
    <2> QED
      BY <1>4, <2>2
  <1>7. debts' = debts
    BY DEF debts
  <1>8. Owed' = Owed
    BY <1>7 DEF Owed
  <1>9. Held' \in Nat
    BY CellsFinite, PathsAssumption, LimitsAssumption DEF Held
  <1>10. pool' = Held' + Owed'
    BY <1>1, <1>2, <1>5, <1>6, <1>8, <1>9, HeldTypes, LimitsAssumption DEF PoolInv
  <1>11. DOMAIN sess' = Sessions /\ \A t \in Sessions : GoodView(sess'[t])
    BY <1>1 DEF PoolInv
  <1>12. PoolInv'
    <2>1. \A t \in Sessions : GoodView(sess[t])'
      BY <1>11 DEF GoodView
    <2> QED
      BY <1>10, <1>11, <2>1 DEF PoolInv
  <1>13. ASSUME v.bytes <= sess[s].bytes \/ pool' <= MaxGlobalBytes PROVE Moved
    <2>1. CASE v.bytes = bytes[s]
      <3>1. bytes' = bytes
        BY <1>3, <2>1 DEF bytes
      <3> QED
        BY <3>1 DEF Moved
    <2>2. CASE v.bytes # bytes[s]
      <3>1. v.bytes < bytes[s] \/ (v.bytes > bytes[s] /\ pool' <= MaxGlobalBytes)
        BY <1>2, <1>5, <1>13, <2>2, LimitsAssumption
      <3> QED
        BY <1>2, <1>3, <3>1, Zenon DEF Moved
    <2> QED
      BY <2>1, <2>2
  <1> QED
    BY <1>12, <1>13

\* A debt is made or paid and the counter follows it.
LEMMA DebtStep ==
  ASSUME PoolInv, NEW s \in Sessions, UNCHANGED sess,
         due' \in [Sessions -> Dues], \A t \in Sessions \ {s} : due'[t] = due[t],
         pool' = (pool + due'[s].bytes) - due[s].bytes
  PROVE  PoolInv' /\ Moved
  <1>1. bytes' = bytes
    BY DEF bytes
  <1>2. Held' = Held
    BY <1>1 DEF Held
  <1>3. due'[s].bytes \in 0..MaxFileBytes
    BY DEF Dues
  <1>4. debts'[s] = due'[s].bytes /\ \A t \in Sessions \ {s} : debts'[t] = debts[t]
    BY DEF debts
  <1>5. debts[s] = due[s].bytes /\ debts[s] \in 0..MaxFileBytes
    BY HeldTypes
  <1>6. Owed' + debts[s] = Owed + due'[s].bytes
    <2>1. debts'[s] \in 0..MaxFileBytes
      BY <1>3, <1>4
    <2> QED
      BY <1>4, <1>5, <2>1, CellsUpdate, PathsAssumption, LimitsAssumption DEF Owed
  <1>7. Owed' \in Nat
    BY CellsFinite, PathsAssumption, LimitsAssumption DEF Owed
  <1>8. pool' = Held' + Owed'
    BY <1>2, <1>3, <1>5, <1>6, <1>7, HeldTypes, LimitsAssumption DEF PoolInv
  <1>9. DOMAIN sess' = Sessions /\ \A t \in Sessions : GoodView(sess[t])'
    BY DEF PoolInv, GoodView
  <1> QED
    BY <1>1, <1>8, <1>9 DEF PoolInv, Moved

LEMMA WriteFileStep ==
  ASSUME PoolInv, NEW s \in Sessions, due[s] = Settled, NEW p \in Paths, NEW n,
         NEW rm \in Paths \cup {Nowhere}, WriteFile(s, p, n, rm)
  PROVE  PoolInv' /\ Moved
  <1> DEFINE v == sess[s]
  <1>1. /\ GoodView(v) /\ due \in [Sessions -> Dues] /\ due[s].bytes = 0
        /\ Due(0, rm) \in Dues /\ Due(0, rm).bytes = 0
    BY LimitsAssumption DEF PoolInv, Settled, Due, Dues
  <1>2. CASE UNCHANGED <<sess, pool>> /\ due' = [due EXCEPT ![s] = Due(0, rm)]
    <2>1. /\ due' \in [Sessions -> Dues] /\ due'[s].bytes = 0
          /\ \A t \in Sessions \ {s} : due'[t] = due[t]
      BY <1>1, <1>2
    <2>2. pool' = (pool + due'[s].bytes) - due[s].bytes
      BY <1>1, <1>2, <2>1, HeldTypes
    <2> QED
      BY <1>2, <2>1, <2>2, DebtStep
  <1>3. CASE /\ Writable(v, p, n) /\ Reserves(v, p, n)
             /\ Becomes(s, Written(v, p, n)) /\ due' = [due EXCEPT ![s] = Due(0, rm)]
    <2> DEFINE w == Written(v, p, n)
    <2>1. /\ GoodView(w) /\ n \in 0..MaxFileBytes /\ v.overlay[p].len \in 0..MaxFileBytes
          /\ v.overlay[p].len <= v.bytes /\ w.bytes = (v.bytes + n) - v.overlay[p].len
      BY <1>1, <1>3, WrittenGood
    <2>2. due' \in [Sessions -> Dues] /\ \A t \in Sessions : due'[t].bytes = due[t].bytes
      BY <1>1, <1>3
    <2>3. w.bytes <= v.bytes \/ pool' <= MaxGlobalBytes
      <3>1. v.bytes \in 0..MaxBytes /\ pool \in Nat
        BY HeldTypes
      <3>2. pool' = (pool + w.bytes) - v.bytes
        BY <1>3 DEF Becomes
      <3>3. n <= v.overlay[p].len \/ pool + n <= MaxGlobalBytes + v.overlay[p].len
        BY <1>3 DEF Reserves
      <3> HIDE DEF v, w
      <3> QED
        BY <2>1, <3>1, <3>2, <3>3, LimitsAssumption
    <2> HIDE DEF w
    <2>4. PoolInv' /\ (w.bytes <= sess[s].bytes \/ pool' <= MaxGlobalBytes => Moved)
      <3>1. Becomes(s, w)
        BY <1>3 DEF w
      <3> QED
        BY <2>1, <2>2, <3>1, ViewStep
    <2> QED
      BY <2>3, <2>4
  <1>4. CASE /\ Writable(v, p, n) /\ ~Reserves(v, p, n)
             /\ pool' = (pool + n) - v.overlay[p].len
             /\ due' = [due EXCEPT ![s] = Due(n - v.overlay[p].len, rm)]
             /\ UNCHANGED sess
    <2> DEFINE k == n - v.overlay[p].len
    <2>1. n \in 0..MaxFileBytes /\ v.overlay[p].len \in 0..MaxFileBytes
      BY <1>1, <1>4, WrittenGood
    <2>2. ~(n <= v.overlay[p].len)
      BY <1>4 DEF Reserves
    <2>3. k \in 0..MaxFileBytes /\ pool' = pool + k
      BY <1>4, <2>1, <2>2, HeldTypes, LimitsAssumption
    <2> HIDE DEF k
    <2>4. due' = [due EXCEPT ![s] = Due(k, rm)] /\ Due(k, rm) \in Dues /\ Due(k, rm).bytes = k
      BY <1>4, <2>3 DEF k, Due, Dues
    <2>5. /\ due' \in [Sessions -> Dues] /\ due'[s].bytes = k
          /\ \A t \in Sessions \ {s} : due'[t] = due[t]
      BY <1>1, <2>4
    <2>6. pool' = (pool + due'[s].bytes) - due[s].bytes
      BY <1>1, <2>3, <2>5, HeldTypes
    <2> QED
      BY <1>4, <2>5, <2>6, DebtStep
  <1> QED
    BY <1>2, <1>3, <1>4 DEF WriteFile

\* Every step keeps the counter exact and moves bytes as a quota allows.
LEMMA PoolStep ==
  ASSUME PoolInv, [Next]_vars
  PROVE  PoolInv' /\ Moved
  <1>0. ASSUME UNCHANGED vars PROVE PoolInv' /\ Moved
    BY <1>0 DEF vars, PoolInv, Moved, Held, Owed, bytes, debts, GoodView
  <1>1. ASSUME NEW s \in Sessions, Rollback(s) PROVE PoolInv' /\ Moved
    <2>1. /\ due \in [Sessions -> Dues] /\ due[s] \in Dues /\ due[s].bytes \in 0..MaxFileBytes
          /\ pool \in Nat
      BY HeldTypes DEF PoolInv
    <2>2. [due[s] EXCEPT !.bytes = 0] \in Dues /\ [due[s] EXCEPT !.bytes = 0].bytes = 0
      BY <2>1, LimitsAssumption DEF Dues
    <2>3. /\ due' = [due EXCEPT ![s] = [due[s] EXCEPT !.bytes = 0]]
          /\ pool' = pool - due[s].bytes /\ sess' = sess
      BY <1>1 DEF Rollback
    <2>4. /\ due' \in [Sessions -> Dues] /\ due'[s].bytes = 0
          /\ \A t \in Sessions \ {s} : due'[t] = due[t]
      BY <2>1, <2>2, <2>3
    <2>5. pool' = (pool + due'[s].bytes) - due[s].bytes
      BY <2>1, <2>3, <2>4
    <2> QED
      BY <2>3, <2>4, <2>5, DebtStep
  <1>2. ASSUME NEW s \in Sessions, MvRemoves(s) PROVE PoolInv' /\ Moved
    <2> DEFINE w == Removed(sess[s], due[s].rm)
    <2>1. due \in [Sessions -> Dues] /\ due[s].bytes = 0 /\ due[s].rm \in Paths
      BY <1>2, HeldTypes DEF PoolInv, MvRemoves, Dues
    <2>2. GoodView(w) /\ w.bytes <= sess[s].bytes
      BY <2>1, RemovedGood DEF PoolInv
    <2>3. Settled \in Dues /\ Settled.bytes = 0
      BY LimitsAssumption DEF Settled, Due, Dues
    <2>4. due' \in [Sessions -> Dues] /\ \A t \in Sessions : due'[t].bytes = due[t].bytes
      BY <1>2, <2>1, <2>3 DEF MvRemoves
    <2>5. Becomes(s, w)
      BY <1>2 DEF MvRemoves
    <2> HIDE DEF w
    <2> QED
      BY <2>2, <2>4, <2>5, ViewStep
  <1>3. ASSUME NEW s \in Sessions, NEW w, GoodView(w), w.bytes <= sess[s].bytes,
               Becomes(s, w), UNCHANGED due
        PROVE  PoolInv' /\ Moved
    <2>1. due' \in [Sessions -> Dues] /\ \A t \in Sessions : due'[t].bytes = due[t].bytes
      BY <1>3 DEF PoolInv
    <2> QED
      BY <1>3, <2>1, ViewStep
  <1>4. ASSUME NEW s \in Sessions PROVE GoodView(sess[s]) /\ sess[s].bytes \in Nat
    BY HeldTypes DEF PoolInv
  <1>5. ASSUME NEW s \in Sessions, Release(s) PROVE PoolInv' /\ Moved
    BY <1>3, <1>4, <1>5, FreshGood DEF Release
  <1>6. ASSUME NEW s \in Sessions, NEW p \in Paths, Mkdir(s, p) PROVE PoolInv' /\ Moved
    <2>1. GoodView(Made(sess[s], p)) /\ Made(sess[s], p).bytes = sess[s].bytes
      BY <1>4, <1>6, MadeGood DEF Mkdir
    <2>2. Made(sess[s], p).bytes <= sess[s].bytes
      BY <1>4, <2>1
    <2> QED
      BY <1>3, <1>6, <2>1, <2>2 DEF Mkdir
  <1>7. ASSUME NEW s \in Sessions, NEW p \in Paths, Rm(s, p) PROVE PoolInv' /\ Moved
    BY <1>3, <1>4, <1>7, RemovedGood DEF Rm
  <1>8. ASSUME NEW s \in Sessions, NEW p \in Paths, Chdir(s, p) PROVE PoolInv' /\ Moved
    <2> DEFINE w == [sess[s] EXCEPT !.cwd = p]
    <2>1. GoodView(w) /\ w.bytes = sess[s].bytes
      BY <1>4, ChdirGood
    <2>2. Becomes(s, w) /\ UNCHANGED due
      BY <1>8 DEF Chdir
    <2> HIDE DEF w
    <2>3. w.bytes <= sess[s].bytes
      BY <1>4, <2>1
    <2> QED
      BY <1>3, <2>1, <2>2, <2>3
  <1>9. ASSUME NEW s \in Sessions, due[s] = Settled, NEW p \in Paths, NEW n,
               NEW rm \in Paths \cup {Nowhere}, WriteFile(s, p, n, rm)
        PROVE  PoolInv' /\ Moved
    BY <1>9, WriteFileStep
  <1>10. ASSUME NEW s \in Sessions, due[s] = Settled, NEW p \in Paths, NEW n \in Lengths,
                NEW append \in BOOLEAN, Redirect(s, p, n, append)
         PROVE  PoolInv' /\ Moved
    BY <1>9, <1>10, Zenon DEF Redirect
  <1>11. ASSUME NEW s \in Sessions, due[s] = Settled, NEW p \in Paths, Touch(s, p)
         PROVE  PoolInv' /\ Moved
    BY <1>9, <1>11, Zenon DEF Touch
  <1>12. ASSUME NEW s \in Sessions, due[s] = Settled, NEW p \in Paths, NEW q \in Paths,
                Cp(s, p, q) \/ Mv(s, p, q)
         PROVE  PoolInv' /\ Moved
    BY <1>9, <1>12, Zenon DEF Cp, Mv
  <1> QED
    BY <1>0, <1>1, <1>2, <1>5, <1>6, <1>7, <1>8, <1>10, <1>11, <1>12, Zenon DEF Next

LEMMA PoolInit ==
  ASSUME Init
  PROVE  PoolInv /\ \A s \in Sessions : bytes[s] = 0
  <1>1. /\ DOMAIN sess = Sessions /\ \A s \in Sessions : sess[s] = Fresh
        /\ due = [s \in Sessions |-> Settled] /\ pool = 0
    BY DEF Init
  <1>2. Settled \in Dues /\ Settled.bytes = 0
    BY LimitsAssumption DEF Settled, Due, Dues
  <1>3. \A s \in Sessions : bytes[s] = 0 /\ debts[s] = 0
    BY <1>1, <1>2, FreshGood DEF bytes, debts
  <1>4. Held = 0 /\ Owed = 0
    BY <1>3, CellsNone, LimitsAssumption DEF Held, Owed
  <1> QED
    BY <1>1, <1>2, <1>3, <1>4, FreshGood DEF PoolInv

LEMMA PoolIsInvariant == Spec => []PoolInv
  <1>1. Init => PoolInv
    BY PoolInit
  <1>2. PoolInv /\ [Next]_vars => PoolInv'
    BY PoolStep
  <1> QED
    BY <1>1, <1>2, PTL DEF Spec

-----------------------------------------------------------------------------
(* The theorems.                                                           *)

\* Whatever a session writes, moves and removes, WriteFile and Remove charge it
\* for exactly the bytes in its overlay, within maxOverlayBytes, and its files
\* stay within maxOverlayEntries.
THEOREM ChargesAreExact == Spec => []BytesExact
  <1>1. ASSUME PoolInv PROVE BytesExact
    <2> SUFFICES ASSUME NEW s \in Sessions
                 PROVE  LET held == {x \in Paths \X (1..MaxFileBytes) :
                                       x[2] <= sess[s].overlay[x[1]].len} IN
                        /\ sess[s].bytes = Cardinality(held) /\ sess[s].bytes <= MaxBytes
                        /\ Cardinality({p \in Paths : sess[s].overlay[p].kind = "file"})
                             <= MaxEntries
      BY DEF BytesExact
    <2>1. GoodView(sess[s])
      BY <1>1 DEF PoolInv
    <2>2. {x \in Paths \X (1..MaxFileBytes) : x[2] <= sess[s].overlay[x[1]].len}
            = Cells(Paths, MaxFileBytes, lens(sess[s]))
      BY DEF Cells, lens
    <2> QED
      BY <2>1, <2>2 DEF GoodView, Charged, Files
  <1> QED
    BY <1>1, PoolIsInvariant, PTL

\* However reserveOverlay's add and its roll-back interleave among sessions,
\* globalOverlayBytes is what they hold and what is being rolled back.
THEOREM CounterIsExact == Spec => []PoolAccounting
  <1>1. ASSUME PoolInv PROVE PoolAccounting
    <2>1. Shared!Units(bytes) = Cells(Sessions, MaxBytes, bytes)
      BY DEF Shared!Units, Cells
    <2>2. {x \in Sessions \X (1..MaxFileBytes) : x[2] <= due[x[1]].bytes}
            = Cells(Sessions, MaxFileBytes, debts)
      BY DEF Cells, debts
    <2> QED
      BY <1>1, <2>1, <2>2, Zenon DEF PoolInv, PoolAccounting, Held, Owed
  <1> QED
    BY <1>1, PoolIsInvariant, PTL

\* The optimistic counter implements the shared quota: a write that lands
\* never lifts the sessions' bytes over maxGlobalOverlayBytes.
THEOREM CounterRefinesQuota == Spec => QuotaSpec
  <1>1. Init => Shared!Init
    BY PoolInit DEF Shared!Init, bytes
  <1>2. ASSUME PoolInv, [Next]_vars PROVE [Shared!Next]_bytes
    <2>1. PoolInv' /\ Moved
      BY <1>2, PoolStep
    <2>2. CASE bytes' = bytes
      BY <2>2
    <2>3. ASSUME NEW s \in Sessions, NEW n \in 0..MaxBytes, n < bytes[s],
                 bytes' = [bytes EXCEPT ![s] = n]
          PROVE  Shared!Next
      BY <2>3, Zenon DEF Shared!Next, Shared!Return
    <2>4. ASSUME NEW s \in Sessions, NEW n \in 0..MaxBytes, n > bytes[s],
                 bytes' = [bytes EXCEPT ![s] = n], pool' <= MaxGlobalBytes
          PROVE  Shared!Next
      <3>1. bytes[s] < n
        BY <1>2, <2>4, HeldTypes
      <3>2. Held' \in Nat /\ Owed' \in Nat
        BY CellsFinite, PathsAssumption, LimitsAssumption DEF Held, Owed
      <3>3. Held' <= MaxGlobalBytes
        <4>1. pool' = Held' + Owed'
          BY <2>1 DEF PoolInv
        <4>2. pool' <= MaxGlobalBytes /\ MaxGlobalBytes \in Nat
          BY <2>4, LimitsAssumption
        <4>3. \A a, b, c \in Nat : a + b <= c => a <= c
          OBVIOUS
        <4> QED
          BY ONLY <3>2, <4>1, <4>2, <4>3, Zenon
      <3>4. Shared!Units(bytes') = Cells(Sessions, MaxBytes, bytes')
        BY DEF Shared!Units, Cells
      <3>5. Shared!Cardinality(Shared!Units(bytes')) <= MaxGlobalBytes
        BY <3>3, <3>4 DEF Held, Shared!Cardinality, Cardinality
      <3> QED
        BY <2>4, <3>1, <3>5, Zenon DEF Shared!Next, Shared!Grant
    <2> QED
      BY <2>1, <2>2, <2>3, <2>4 DEF Moved
  <1> QED
    BY <1>1, <1>2, PoolIsInvariant, PTL DEF Spec, QuotaSpec, Shared!Spec

-----------------------------------------------------------------------------
(* Where a path leads: walk and lookup are recursive functions.            *)

\* A set of naturals has a least element.
LEMMA LeastNat ==
  ASSUME NEW T \in SUBSET Nat, T # {}
  PROVE  \E m \in T : \A n \in T : m <= n
  <1> DEFINE R == OpToRel(<, Nat)
  <1>1. IsWellFoundedOn(R, Nat)
    BY NatLessThanWellFounded
  <1>2. \A x, y \in Nat : x < y => <<x, y>> \in R
    BY DEF OpToRel
  <1> HIDE DEF R
  <1>3. PICK m \in T : \A y \in T : ~(<<y, m>> \in R)
    BY <1>1, WFMin
  <1>4. \A n \in T : ~(n < m)
    BY <1>2, <1>3
  <1>5. \A n \in T : m <= n
    BY <1>4
  <1> QED
    BY <1>5, Zenon

LEMMA PathFacts ==
  ASSUME NEW p \in Paths
  PROVE  /\ p \in Seq(STRING) /\ Len(p) \in Nat /\ (Len(p) = 0 => p = Root)
         /\ p # Root => /\ parentDir(p) \in Paths
                        /\ Len(p) > 0 /\ Len(parentDir(p)) = Len(p) - 1
                        /\ p = Append(parentDir(p), baseName(p)) /\ baseName(p) \in STRING
  <1>1. p \in Seq(STRING) /\ Len(p) \in Nat /\ (Len(p) = 0 => p = Root)
    BY PathsAssumption DEF Root
  <1>2. ASSUME p # Root
        PROVE  /\ parentDir(p) \in Paths /\ Len(p) > 0 /\ baseName(p) \in STRING
               /\ Len(parentDir(p)) = Len(p) - 1
               /\ p = Append(parentDir(p), baseName(p))
    <2>1. parentDir(p) \in Paths /\ Len(p) > 0 /\ baseName(p) \in STRING
      BY <1>1, <1>2, PathsAssumption DEF baseName
    <2> DEFINE m == Len(p) - 1
    <2>2. m \in Nat /\ m + 1 = Len(p) /\ \A j \in 1..m : p[j] \in STRING
      BY <1>1, <2>1
    <2>3. parentDir(p) = SubSeq(p, 1, m) /\ baseName(p) = p[m + 1]
      BY <2>2 DEF parentDir, baseName
    <2> HIDE DEF m
    <2>4. /\ SubSeq(p, 1, m) \in Seq(STRING) /\ Len(SubSeq(p, 1, m)) = m
          /\ \A j \in 1..m : SubSeq(p, 1, m)[j] = p[j]
      BY <1>1, <2>2
    <2>5. p = Append(SubSeq(p, 1, m), p[m + 1])
      BY <1>1, <2>2, <2>4
    <2> QED
      BY <2>1, <2>3, <2>4, <2>5 DEF m
  <1> QED
    BY <1>1, <1>2

\* The lengths of a finite set of paths are bounded.
LEMMA LongestPath == \E b \in Nat : \A p \in Paths : Len(p) <= b
  <1> DEFINE Bounded(S) == \E b \in Nat : \A p \in S : Len(p) <= b
             T == {n \in Nat : \E S \in SUBSET Paths : Cardinality(S) = n /\ ~Bounded(S)}
  <1> SUFFICES ASSUME ~Bounded(Paths) PROVE FALSE
    OBVIOUS
  <1>1. \A S \in SUBSET Paths : IsFiniteSet(S) /\ Cardinality(S) \in Nat
    BY PathsAssumption, FS_Subset, FS_CardinalityType
  <1>2. Cardinality(Paths) \in T
    BY <1>1
  <1>3. PICK m \in T : \A n \in T : m <= n
    BY <1>2, LeastNat
  <1>4. PICK S \in SUBSET Paths : Cardinality(S) = m /\ ~Bounded(S)
    BY <1>3
  <1>5. PICK x \in S : TRUE
    BY <1>4
  <1> HIDE DEF Bounded
  <1>6. Cardinality(S \ {x}) \in Nat /\ Cardinality(S \ {x}) < m
    <2>1. Cardinality(S \ {x}) = m - 1
      BY <1>1, <1>4, <1>5, FS_RemoveElement
    <2>2. Cardinality(S \ {x}) \in Nat /\ m \in Nat
      BY <1>1, <1>4
    <2> QED
      BY <2>1, <2>2
  <1>7. Bounded(S \ {x})
    <2> SUFFICES ASSUME ~Bounded(S \ {x}) PROVE FALSE
      OBVIOUS
    <2>1. Cardinality(S \ {x}) \in T
      BY <1>6
    <2> QED
      BY <1>3, <1>6, <2>1
  <1> HIDE DEF T
  <1>8. PICK b \in Nat : \A p \in S \ {x} : Len(p) <= b
    BY <1>7 DEF Bounded
  <1>9. Len(x) \in Nat /\ \A p \in S : Len(p) \in Nat
    BY <1>5, PathFacts
  <1>10. b + Len(x) \in Nat /\ \A p \in S : Len(p) <= b + Len(x)
    BY <1>8, <1>9
  <1> QED
    BY <1>4, <1>10 DEF Bounded

\* One step of walk.
Node(v, follow, g, p) ==
  IF p = Root THEN Dir(Root)
  ELSE LET n == child(v, g[parentDir(p)], p) IN
       IF ~IsLink(n) THEN n
       ELSE IF Target(p, n) \in Paths THEN follow[Target(p, n)] ELSE Missing

Walks(v, follow, g) == g = [p \in Paths |-> Node(v, follow, g, p)]

\* The recursion goes down to the root, so walk is defined.
LEMMA WalkExists ==
  ASSUME NEW v, NEW follow
  PROVE  \E g : Walks(v, follow, g)
  <1> DEFINE Upto(n, g) == \A p \in Paths : Len(p) <= n => g[p] = Node(v, follow, g, p)
             T == {n \in Nat : ~\E g : Upto(n, g)}
  <1>1. ASSUME T # {} PROVE FALSE
    <2>1. PICK m \in T : \A n \in T : m <= n
      BY <1>1, LeastNat
    <2>2. CASE m = 0
      <3> DEFINE g == [p \in Paths |-> Dir(Root)]
      <3>1. \A p \in Paths : Len(p) <= 0 => p = Root
        BY PathFacts
      <3>2. Upto(0, g)
        BY <3>1 DEF Node
      <3> QED
        BY <2>1, <2>2, <3>2
    <2>3. CASE m # 0
      <3>0. m \in Nat /\ m - 1 \in Nat /\ ~(m <= m - 1)
        BY <2>1, <2>3
      <3>1. m - 1 \in Nat /\ m \in Nat /\ m - 1 \notin T
        <4> HIDE DEF T
        <4> QED
          BY <2>1, <3>0
      <3>2. PICK h : Upto(m - 1, h)
        BY <3>1
      <3> DEFINE g == [p \in Paths |-> IF Len(p) < m THEN h[p] ELSE Node(v, follow, h, p)]
      <3>3. ASSUME NEW p \in Paths, Len(p) <= m PROVE g[p] = Node(v, follow, g, p)
        <4>1. CASE p = Root
          <5>1. Len(p) = 0
            BY <4>1 DEF Root
          <5>2. Len(p) < m /\ Len(p) <= m - 1
            BY <3>0, <5>1
          <5>3. g[p] = Node(v, follow, h, p)
            BY <3>2, <5>2
          <5>4. Node(v, follow, h, p) = Dir(Root) /\ Node(v, follow, g, p) = Dir(Root)
            <6> HIDE DEF g
            <6> QED
              BY <4>1 DEF Node
          <5> QED
            BY <5>3, <5>4
        <4>2. CASE p # Root
          <5>1. /\ parentDir(p) \in Paths /\ Len(parentDir(p)) < m
                /\ Len(p) \in Nat /\ (Len(p) < m => Len(p) <= m - 1)
            BY <3>1, <3>3, <4>2, PathFacts
          <5>2. g[parentDir(p)] = h[parentDir(p)]
            BY <5>1
          <5>3. g[p] = Node(v, follow, h, p)
            BY <3>2, <5>1
          <5>4. Node(v, follow, g, p) = Node(v, follow, h, p)
            <6> HIDE DEF g
            <6> QED
              BY <5>2 DEF Node
          <5> QED
            BY <5>3, <5>4
        <4> QED
          BY <4>1, <4>2
      <3>4. Upto(m, g)
        <4> HIDE DEF g
        <4> QED
          BY <3>3
      <3> QED
        BY <2>1, <3>4
    <2> QED
      BY <2>2, <2>3
  <1>2. PICK b \in Nat : \A p \in Paths : Len(p) <= b
    BY LongestPath
  <1>3. PICK h : Upto(b, h)
    BY <1>1, <1>2
  <1> DEFINE g == [p \in Paths |-> h[p]]
  <1>4. ASSUME NEW p \in Paths PROVE Node(v, follow, g, p) = Node(v, follow, h, p)
    <2>1. p # Root => g[parentDir(p)] = h[parentDir(p)]
      BY PathFacts
    <2> HIDE DEF g
    <2> QED
      BY <2>1 DEF Node
  <1>5. \A p \in Paths : h[p] = Node(v, follow, g, p)
    BY <1>2, <1>3, <1>4
  <1>6. Walks(v, follow, g)
    BY <1>5 DEF Walks
  <1> QED
    BY <1>6

LEMMA WalkUnfolds ==
  ASSUME NEW v, NEW follow
  PROVE  Walks(v, follow, walk(v, follow))
  <1>1. walk(v, follow) = CHOOSE g : Walks(v, follow, g)
    BY Zenon DEF walk, Walks, Node
  <1> QED
    BY <1>1, WalkExists, Zenon

\* The lookups with at most k links nested, by k.
Nests(v, h) ==
  h = [k \in 0..MaxLinkDepth |->
         walk(v, IF k = 0 THEN [p \in Paths |-> Missing] ELSE h[k - 1])]

LEMMA NestsExists ==
  ASSUME NEW v
  PROVE  \E h : Nests(v, h)
  <1> DEFINE W(h, k) == walk(v, IF k = 0 THEN [p \in Paths |-> Missing] ELSE h[k - 1])
             Upto(n, h) == \A k \in 0..n : h[k] = W(h, k)
             T == {n \in Nat : ~\E h : Upto(n, h)}
  <1>1. ASSUME T # {} PROVE FALSE
    <2>1. PICK m \in T : \A n \in T : m <= n
      BY <1>1, LeastNat
    <2>2. CASE m = 0
      <3> DEFINE h == [k \in {0} |-> walk(v, [p \in Paths |-> Missing])]
      <3>1. Upto(0, h)
        OBVIOUS
      <3> QED
        BY <2>1, <2>2, <3>1
    <2>3. CASE m # 0
      <3>0. m \in Nat /\ m - 1 \in Nat /\ ~(m <= m - 1)
        BY <2>1, <2>3
      <3>1. m - 1 \in Nat /\ m \in Nat /\ m - 1 \notin T
        <4> HIDE DEF T
        <4> QED
          BY <2>1, <3>0
      <3>2. PICK f : Upto(m - 1, f)
        BY <3>1
      <3> DEFINE h == [k \in 0..m |-> IF k < m THEN f[k] ELSE W(f, k)]
      <3>3. ASSUME NEW k \in 0..m PROVE h[k] = W(h, k)
        <4>1. h[k] = W(f, k)
          BY <3>1, <3>2, <3>3
        <4>2. k # 0 => h[k - 1] = f[k - 1]
          BY <3>1, <3>3
        <4> HIDE DEF h
        <4> QED
          BY <4>1, <4>2
      <3>4. Upto(m, h)
        <4> HIDE DEF h
        <4> QED
          BY <3>3
      <3> QED
        BY <2>1, <3>4
    <2> QED
      BY <2>2, <2>3
  <1>2. PICK f : Upto(MaxLinkDepth, f)
    BY <1>1, LimitsAssumption
  <1> DEFINE h == [k \in 0..MaxLinkDepth |-> f[k]]
  <1>3. ASSUME NEW k \in 0..MaxLinkDepth PROVE f[k] = W(h, k)
    <2>1. k # 0 => h[k - 1] = f[k - 1]
      BY <1>3, LimitsAssumption
    <2> HIDE DEF h
    <2> QED
      BY <1>2, <2>1
  <1>4. Nests(v, h)
    BY <1>3 DEF Nests
  <1> QED
    BY <1>4

nestedOf(v) == CHOOSE h : Nests(v, h)
Level(v, k) == nestedOf(v)[k]

\* What is at p, a link not followed.
Found(v, k, p) == child(v, Level(v, k)[parentDir(p)], p)

\* What lookup finds at p with at most k links nested: what it finds in the
\* directory p is in, or where the link found there leads.
LEMMA LevelUnfolds ==
  ASSUME NEW v, NEW k \in 0..MaxLinkDepth, NEW p \in Paths
  PROVE  LET n == Found(v, k, p) IN
         /\ p = Root => Level(v, k)[p] = Dir(Root)
         /\ p # Root =>
              /\ ~IsLink(n) => Level(v, k)[p] = n
              /\ IsLink(n) /\ Target(p, n) \in Paths /\ k > 0
                   => Level(v, k)[p] = Level(v, k - 1)[Target(p, n)]
              /\ IsLink(n) /\ (Target(p, n) \notin Paths \/ k = 0) => Level(v, k)[p] = Missing
  <1> DEFINE follow == IF k = 0 THEN [q \in Paths |-> Missing] ELSE Level(v, k - 1)
  <1>1. Nests(v, nestedOf(v))
    BY NestsExists, Zenon DEF nestedOf
  <1>2. Level(v, k) = walk(v, follow)
    BY <1>1 DEF Nests, Level
  <1>3. Level(v, k) = [q \in Paths |-> Node(v, follow, Level(v, k), q)]
    BY <1>2, WalkUnfolds DEF Walks
  <1>4. Level(v, k)[p] = Node(v, follow, Level(v, k), p)
    BY <1>3, Zenon
  <1>5. k > 0 => follow = Level(v, k - 1)
    BY LimitsAssumption
  <1>6. \A q \in Paths : k = 0 => follow[q] = Missing
    OBVIOUS
  <1> HIDE DEF follow
  <1> QED
    BY <1>4, <1>5, <1>6, LimitsAssumption DEF Node, Found

LEMMA LookupIsLevel == \A v : lookup(v) = Level(v, MaxLinkDepth)
  BY Zenon DEF lookup, Level, nestedOf, Nests

\* Induction over the nesting of links and the length of paths.
LEMMA LookupInduction ==
  ASSUME NEW T,
         \A k \in 0..MaxLinkDepth, p \in Paths :
           (\A j \in 0..MaxLinkDepth, q \in Paths :
              j < k \/ (j = k /\ Len(q) < Len(p)) => <<j, q>> \in T) => <<k, p>> \in T
  PROVE  \A k \in 0..MaxLinkDepth, p \in Paths : <<k, p>> \in T
  <1> SUFFICES ASSUME NEW k0 \in 0..MaxLinkDepth, NEW p0 \in Paths, <<k0, p0>> \notin T PROVE FALSE
    OBVIOUS
  <1> DEFINE K == {k \in 0..MaxLinkDepth : \E p \in Paths : <<k, p>> \notin T}
  <1>1. k0 \in K /\ K \in SUBSET Nat
    OBVIOUS
  <1>2. PICK k \in K : \A j \in K : k <= j
    BY <1>1, LeastNat
  <1> DEFINE L == {n \in Nat : \E p \in Paths : Len(p) = n /\ <<k, p>> \notin T}
  <1>3. L # {}
    BY <1>2, PathFacts
  <1>4. PICK n \in L : \A m \in L : n <= m
    BY <1>3, LeastNat
  <1>5. PICK p \in Paths : Len(p) = n /\ <<k, p>> \notin T
    BY <1>4
  <1>6. k \in 0..MaxLinkDepth
    BY <1>2
  <1>7. ASSUME NEW j \in 0..MaxLinkDepth, NEW q \in Paths, j < k PROVE <<j, q>> \in T
    <2>1. j \notin K
      <3> HIDE DEF K
      <3> QED
        BY <1>2, <1>6, <1>7, LimitsAssumption
    <2> QED
      BY <2>1
  <1>8. ASSUME NEW q \in Paths, Len(q) < Len(p) PROVE <<k, q>> \in T
    <2>1. Len(q) \in Nat /\ Len(p) \in Nat
      BY PathFacts
    <2>2. Len(q) \notin L
      <3> HIDE DEF L
      <3> QED
        BY <1>4, <1>5, <1>8, <2>1
    <2> QED
      BY <2>1, <2>2
  <1> HIDE DEF K, L
  <1>9. \A j \in 0..MaxLinkDepth, q \in Paths :
          j < k \/ (j = k /\ Len(q) < Len(p)) => <<j, q>> \in T
    BY <1>7, <1>8
  <1> QED
    BY <1>5, <1>6, <1>9

\* A path that leads to a directory: the one it is in is a directory, and it
\* is one itself, or a link to one.
LEMMA DirSteps ==
  ASSUME NEW v, NEW k \in 0..MaxLinkDepth, NEW p \in Paths \ {Root},
         Level(v, k)[p].kind = "dir"
  PROVE  LET n == Found(v, k, p) IN
         /\ parentDir(p) \in Paths /\ Len(parentDir(p)) < Len(p)
         /\ Level(v, k)[parentDir(p)].kind = "dir" /\ ~isDeleted(v, p) /\ n # Missing
         /\ \/ ~IsLink(n) /\ Level(v, k)[p] = n
            \/ /\ IsLink(n) /\ Target(p, n) \in Paths /\ k - 1 \in 0..MaxLinkDepth /\ k > 0
               /\ Level(v, k)[p] = Level(v, k - 1)[Target(p, n)]
  <1> DEFINE n == Found(v, k, p)
  <1>1. /\ ~IsLink(n) => Level(v, k)[p] = n
        /\ IsLink(n) /\ Target(p, n) \in Paths /\ k > 0
             => Level(v, k)[p] = Level(v, k - 1)[Target(p, n)]
        /\ IsLink(n) /\ (Target(p, n) \notin Paths \/ k = 0) => Level(v, k)[p] = Missing
    BY LevelUnfolds
  <1>2. Missing.kind = "none" /\ ~IsLink(Missing)
    BY NodeFacts
  <1>3. parentDir(p) \in Paths /\ Len(parentDir(p)) < Len(p)
    BY PathFacts
  <1>4. k > 0 => k - 1 \in 0..MaxLinkDepth
    BY LimitsAssumption
  <1>5. k = 0 \/ k > 0
    BY LimitsAssumption
  <1>6. \/ ~IsLink(n) /\ Level(v, k)[p] = n
        \/ /\ IsLink(n) /\ Target(p, n) \in Paths /\ k - 1 \in 0..MaxLinkDepth /\ k > 0
           /\ Level(v, k)[p] = Level(v, k - 1)[Target(p, n)]
    BY <1>1, <1>2, <1>4, <1>5, Zenon
  <1>7. n # Missing
    BY <1>2, <1>6
  <1>8. Level(v, k)[parentDir(p)].kind = "dir" /\ ~isDeleted(v, p)
    BY <1>7 DEF child, Found
  <1> QED
    BY <1>3, <1>6, <1>7, <1>8

LEMMA RootIsDir ==
  ASSUME NEW v, NEW k \in 0..MaxLinkDepth
  PROVE  Level(v, k)[Root] = Dir(Root)
  <1>1. Root \in Paths
    BY PathsAssumption
  <1> QED
    BY <1>1, LevelUnfolds

\* Two views that have the same at p, and lead to the same before and behind it.
LEMMA SameStep ==
  ASSUME NEW v, NEW w, NEW k \in 0..MaxLinkDepth, NEW j \in 0..MaxLinkDepth, j >= k,
         NEW p \in Paths \ {Root}, Level(v, k)[p].kind = "dir",
         Found(w, j, p) = Found(v, k, p),
         NEW q, q = Target(p, Found(v, k, p)),
         IsLink(Found(v, k, p)) /\ q \in Paths /\ k > 0
           => Level(w, j - 1)[q] = Level(v, k - 1)[q]
  PROVE  Level(w, j)[p] = Level(v, k)[p]
  <1> DEFINE n == Found(v, k, p)
  <1>1. \/ ~IsLink(n) /\ Level(v, k)[p] = n
        \/ /\ IsLink(n) /\ Target(p, n) \in Paths /\ k > 0
           /\ Level(v, k)[p] = Level(v, k - 1)[Target(p, n)]
    BY DirSteps
  <1>2. /\ ~IsLink(Found(w, j, p)) => Level(w, j)[p] = Found(w, j, p)
        /\ IsLink(Found(w, j, p)) /\ Target(p, Found(w, j, p)) \in Paths /\ j > 0
             => Level(w, j)[p] = Level(w, j - 1)[Target(p, Found(w, j, p))]
    BY LevelUnfolds
  <1>3. k > 0 => j > 0
    BY LimitsAssumption
  <1> QED
    BY <1>1, <1>2, <1>3

\* A directory that is found is found with more nested links allowed, too.
LEMMA Deeper ==
  ASSUME NEW v, NEW i \in 0..MaxLinkDepth, NEW r \in Paths, Level(v, i)[r].kind = "dir"
  PROVE  lookup(v)[r] = Level(v, i)[r]
  <1> DEFINE Same(k, p) == Level(v, k)[p].kind = "dir" =>
                             \A j \in 0..MaxLinkDepth : j >= k => Level(v, j)[p] = Level(v, k)[p]
             T == {x \in (0..MaxLinkDepth) \X Paths : Same(x[1], x[2])}
  <1>1. ASSUME NEW k \in 0..MaxLinkDepth, NEW p \in Paths,
               \A m \in 0..MaxLinkDepth, o \in Paths :
                 m < k \/ (m = k /\ Len(o) < Len(p)) => Same(m, o),
               Level(v, k)[p].kind = "dir", NEW j \in 0..MaxLinkDepth, j >= k
        PROVE  Level(v, j)[p] = Level(v, k)[p]
    <2>1. CASE p = Root
      BY <2>1, RootIsDir
    <2>2. CASE p # Root
      <3> DEFINE q == Target(p, Found(v, k, p))
      <3>1. /\ parentDir(p) \in Paths /\ Len(parentDir(p)) < Len(p)
            /\ Level(v, k)[parentDir(p)].kind = "dir"
        <4>1. k \in 0..MaxLinkDepth /\ p \in Paths \ {Root} /\ Level(v, k)[p].kind = "dir"
          BY <1>1, <2>2
        <4> QED
          BY <4>1, DirSteps
      <3>2. Level(v, j)[parentDir(p)] = Level(v, k)[parentDir(p)]
        BY <1>1, <3>1
      <3>3. Found(v, j, p) = Found(v, k, p)
        BY <3>2 DEF Found
      <3>4. ASSUME IsLink(Found(v, k, p)), q \in Paths, k > 0
            PROVE  Level(v, j - 1)[q] = Level(v, k - 1)[q]
        <4>1. Level(v, k)[p] = Level(v, k - 1)[q] /\ k - 1 \in 0..MaxLinkDepth
          <5>1. k \in 0..MaxLinkDepth /\ p \in Paths \ {Root} /\ Level(v, k)[p].kind = "dir"
            BY <1>1, <2>2
          <5> QED
            BY <5>1, <3>4, DirSteps
        <4>2. j - 1 \in 0..MaxLinkDepth /\ j - 1 >= k - 1 /\ k - 1 < k
          BY <1>1, <3>4, LimitsAssumption
        <4> HIDE DEF q
        <4>3. Same(k - 1, q)
          BY <1>1, <3>4, <4>1, <4>2
        <4> QED
          BY <1>1, <4>1, <4>2, <4>3
      <3>5. q = Target(p, Found(v, k, p))
        OBVIOUS
      <3>6. Level(v, k)[p].kind = "dir" /\ j >= k /\ p \in Paths \ {Root}
        BY <1>1, <2>2
      <3>7. IsLink(Found(v, k, p)) /\ q \in Paths /\ k > 0
              => Level(v, j - 1)[q] = Level(v, k - 1)[q]
        BY <3>4
      <3> HIDE DEF q
      <3> QED
        BY <3>3, <3>5, <3>6, <3>7, SameStep
    <2> QED
      BY <2>1, <2>2
  <1>2. \A k \in 0..MaxLinkDepth, p \in Paths : Same(k, p) <=> <<k, p>> \in T
    OBVIOUS
  <1>3. ASSUME NEW k \in 0..MaxLinkDepth, NEW p \in Paths,
               \A j \in 0..MaxLinkDepth, o \in Paths :
                 j < k \/ (j = k /\ Len(o) < Len(p)) => <<j, o>> \in T
        PROVE  <<k, p>> \in T
    <2> HIDE DEF T
    <2>1. \A m \in 0..MaxLinkDepth, o \in Paths :
            m < k \/ (m = k /\ Len(o) < Len(p)) => Same(m, o)
      BY <1>2, <1>3
    <2>2. Same(k, p)
      BY <1>1, <2>1
    <2> QED
      BY <1>2, <2>2
  <1> HIDE DEF T
  <1>4. <<i, r>> \in T
    BY <1>3, LookupInduction
  <1>5. Same(i, r)
    BY <1>2, <1>4
  <1>6. MaxLinkDepth \in 0..MaxLinkDepth /\ MaxLinkDepth >= i
    BY LimitsAssumption
  <1>7. Level(v, MaxLinkDepth)[r] = Level(v, i)[r]
    BY <1>5, <1>6
  <1> QED
    BY <1>7, LookupIsLevel

-----------------------------------------------------------------------------
(* ls and stat.                                                            *)

\* A path is its directory and its name.
LEMMA NameSplits ==
  ASSUME NEW S
  PROVE  /\ \A s \in Seq(S) :
              s # <<>> => s = Append(parentDir(s), baseName(s)) /\ baseName(s) \in S
         /\ \A s \in Seq(S), x \in S :
              /\ Append(s, x) # <<>> /\ Append(s, x) \in Seq(S)
              /\ parentDir(Append(s, x)) = s /\ baseName(Append(s, x)) = x
  <1>1. ASSUME NEW s \in Seq(S), s # <<>>
        PROVE  s = Append(parentDir(s), baseName(s)) /\ baseName(s) \in S
    <2> DEFINE m == Len(s) - 1
    <2>1. m \in Nat /\ m + 1 = Len(s) /\ \A j \in 1..(m + 1) : s[j] \in S
      BY <1>1
    <2>2. parentDir(s) = SubSeq(s, 1, m) /\ baseName(s) = s[m + 1]
      BY <2>1 DEF parentDir, baseName
    <2> HIDE DEF m
    <2>3. /\ SubSeq(s, 1, m) \in Seq(S) /\ Len(SubSeq(s, 1, m)) = m
          /\ \A j \in 1..m : SubSeq(s, 1, m)[j] = s[j]
      BY <2>1
    <2>4. s = Append(SubSeq(s, 1, m), s[m + 1]) /\ s[m + 1] \in S
      BY <2>1, <2>3
    <2> QED
      BY <2>2, <2>4
  <1>2. ASSUME NEW s \in Seq(S), NEW x \in S
        PROVE  /\ Append(s, x) # <<>> /\ Append(s, x) \in Seq(S)
               /\ parentDir(Append(s, x)) = s /\ baseName(Append(s, x)) = x
    <2> DEFINE t == Append(s, x)
    <2>0. t \in Seq(S) /\ Len(t) = Len(s) + 1 /\ t[Len(s) + 1] = x /\ Len(s) \in Nat
      BY AppendProperties
    <2>1. t \in Seq(S) /\ Len(t) = Len(s) + 1 /\ t[Len(t)] = x /\ t # <<>>
      <3> HIDE DEF t
      <3> QED
        BY <2>0
    <2>2. \A j \in 1..Len(s) : t[j] = s[j]
      OBVIOUS
    <2> HIDE DEF t
    <2>3. Len(t) - 1 = Len(s) /\ Len(s) \in Nat
      BY <2>1
    <2>4. SubSeq(t, 1, Len(s)) = s
      BY <2>1, <2>2, <2>3
    <2>5. parentDir(t) = s
      BY <2>3, <2>4 DEF parentDir
    <2> QED
      BY <2>1, <2>5 DEF baseName, t
  <1> QED
    BY <1>1, <1>2

\* The names of files, and the one of no file.
Names == STRING \cup {"nowhere"}

LEMMA PathsNamed ==
  /\ \A s \in Seq(STRING) : s \in Seq(Names)
  /\ Nowhere \in Seq(Names) /\ Root \in Seq(Names)
  <1>1. ASSUME NEW S, NEW T, S \subseteq T, NEW s \in Seq(S) PROVE s \in Seq(T)
    BY <1>1
  <1>2. \A S : \A x \in S : <<x>> \in Seq(S)
    OBVIOUS
  <1>3. STRING \subseteq Names /\ "nowhere" \in Names
    BY DEF Names
  <1>4. Nowhere \in Seq(Names)
    BY <1>2, <1>3, Zenon DEF Nowhere
  <1>5. \A s \in Seq(STRING) : s \in Seq(Names)
    BY <1>1, <1>3, Zenon
  <1>6. Root \in Seq(Names)
    BY DEF Root
  <1> QED
    BY <1>4, <1>5, <1>6

LEMMA ChildAt ==
  ASSUME NEW v, v \in Views, NEW d, NEW p \in Paths
  PROVE  child(v, d, p).at \in Seq(Names)
  <1>1. Nowhere \in Seq(Names)
    BY PathsNamed
  <1>2. \A x \in Nodes : x.at \in Seq(Names)
    BY <1>1 DEF Nodes, Missing, NewDir, Dir, File
  <1>3. v.overlay[p] \in Nodes
    BY DEF Views
  <1>4. Missing \in Nodes
    BY NodeFacts
  <1> QED
    BY <1>2, <1>3, <1>4, BaseAssumption, PathsNamed DEF child

\* A directory is found at a place of the base tree or nowhere in it.
LEMMA DirAt ==
  ASSUME NEW v, v \in Views, NEW r \in Paths, lookup(v)[r].kind = "dir"
  PROVE  lookup(v)[r].at \in Seq(Names)
  <1> DEFINE Typed(k, p) == Level(v, k)[p].kind = "dir" => Level(v, k)[p].at \in Seq(Names)
             T == {x \in (0..MaxLinkDepth) \X Paths : Typed(x[1], x[2])}
  <1>1. ASSUME NEW k \in 0..MaxLinkDepth, NEW p \in Paths,
               \A m \in 0..MaxLinkDepth, o \in Paths :
                 m < k \/ (m = k /\ Len(o) < Len(p)) => Typed(m, o),
               Level(v, k)[p].kind = "dir"
        PROVE  Level(v, k)[p].at \in Seq(Names)
    <2>1. CASE p = Root
      <3>1. Dir(Root).at = Root /\ Root \in Seq(Names)
        BY PathsNamed DEF Dir
      <3> QED
        BY <2>1, <3>1, RootIsDir
    <2>2. CASE p # Root
      <3> DEFINE n == Found(v, k, p)
      <3>1. CASE ~IsLink(n) /\ Level(v, k)[p] = n
        BY <3>1, ChildAt DEF Found
      <3>2. CASE /\ Target(p, n) \in Paths /\ k - 1 \in 0..MaxLinkDepth /\ k > 0
                 /\ Level(v, k)[p] = Level(v, k - 1)[Target(p, n)]
        <4> HIDE DEF n
        <4>1. k - 1 < k
          OBVIOUS
        <4> QED
          BY <1>1, <3>2, <4>1
      <3> QED
        BY <1>1, <2>2, <3>1, <3>2, DirSteps
    <2> QED
      BY <2>1, <2>2
  <1>2. \A k \in 0..MaxLinkDepth, p \in Paths : Typed(k, p) <=> <<k, p>> \in T
    OBVIOUS
  <1>3. ASSUME NEW k \in 0..MaxLinkDepth, NEW p \in Paths,
               \A j \in 0..MaxLinkDepth, o \in Paths :
                 j < k \/ (j = k /\ Len(o) < Len(p)) => <<j, o>> \in T
        PROVE  <<k, p>> \in T
    <2> HIDE DEF T
    <2>1. \A m \in 0..MaxLinkDepth, o \in Paths :
            m < k \/ (m = k /\ Len(o) < Len(p)) => Typed(m, o)
      BY <1>2, <1>3
    <2>2. Typed(k, p)
      BY <1>1, <2>1
    <2> QED
      BY <1>2, <2>2
  <1> HIDE DEF T
  <1>4. MaxLinkDepth \in 0..MaxLinkDepth
    BY LimitsAssumption
  <1>5. Typed(MaxLinkDepth, r)
    BY <1>2, <1>3, <1>4, LookupInduction
  <1> QED
    BY <1>5, LookupIsLevel

\* ls of one directory, entry by entry.
LEMMA Listed ==
  ASSUME NEW v, v \in Views, NEW p \in Paths, Stat(v, p).kind = "dir",
         NEW q \in Paths \ {Root}, parentDir(q) = p
  PROVE  {e \in ReadDir(v, p) : e[1] = baseName(q)}
           = (IF Lstat(v, q) = Missing THEN {} ELSE {<<baseName(q), Lstat(v, q)>>})
  <1> DEFINE dir   == Stat(v, p)
             base  == {b \in DOMAIN Base : b # Root /\ parentDir(b) = dir.at}
             added == {o \in Paths : o # Root /\ parentDir(o) = p /\ v.overlay[o] # Missing}
             names == {baseName(b) : b \in base} \cup {baseName(o) : o \in added}
             Entry(x) == IF Append(p, x) \in added THEN v.overlay[Append(p, x)]
                         ELSE Base[Append(dir.at, x)]
             y == baseName(q)
             B == Append(dir.at, y)
  <1>1. ReadDir(v, p) = {<<x, Entry(x)>> : x \in {z \in names : ~isDeleted(v, Append(p, z))}}
    BY DEF ReadDir
  <1>2. y \in Names /\ q = Append(p, y) /\ p \in Seq(Names)
    BY PathFacts, PathsNamed DEF Names
  <1>3. dir.kind = "dir" /\ dir.at \in Seq(Names)
    <2>1. Stat(v, p) = lookup(v)[p]
      BY NodeFacts, Zenon DEF Stat
    <2> QED
      BY <2>1, DirAt
  <1>4. Lstat(v, q) = child(v, dir, q)
    BY DEF Lstat
  <1>5. (\E o \in added : baseName(o) = y) <=> v.overlay[q] # Missing
    <2>1. \A o \in added : baseName(o) = y => o = q
      BY <1>2, PathFacts
    <2> QED
      BY <2>1
  <1>6. q \in added <=> v.overlay[q] # Missing
    OBVIOUS
  <1>7. (\E b \in base : baseName(b) = y) <=> B \in DOMAIN Base
    <2>1. ASSUME NEW b \in base, baseName(b) = y PROVE b = B
      <3>1. b \in Seq(Names) /\ b # <<>> /\ parentDir(b) = dir.at
        BY BaseAssumption, PathsNamed DEF Root
      <3> QED
        BY <2>1, <3>1, NameSplits
    <2>2. B # <<>> /\ parentDir(B) = dir.at /\ baseName(B) = y
      BY <1>2, <1>3, NameSplits
    <2> HIDE DEF y, dir, B
    <2> QED
      BY <2>1, <2>2 DEF Root
  <1>8. y \in names <=> (v.overlay[q] # Missing \/ B \in DOMAIN Base)
    <2> HIDE DEF base, added, y, B
    <2> QED
      BY <1>5, <1>7
  <1>9. Entry(y) = IF v.overlay[q] # Missing THEN v.overlay[q] ELSE Base[B]
    BY <1>2, <1>6
  <1>10. child(v, dir, q) = IF isDeleted(v, q) THEN Missing
                            ELSE IF v.overlay[q] # Missing THEN v.overlay[q]
                            ELSE IF B \in DOMAIN Base THEN Base[B] ELSE Missing
    BY <1>3 DEF child
  <1>11. B \in DOMAIN Base => Base[B] # Missing
    BY BaseAssumption, NodeFacts
  <1> HIDE DEF dir, base, added, names, Entry, y, B
  <1>12. {e \in ReadDir(v, p) : e[1] = y}
           = IF y \in names /\ ~isDeleted(v, q) THEN {<<y, Entry(y)>>} ELSE {}
    BY <1>1, <1>2
  <1>13. {e \in ReadDir(v, p) : e[1] = y}
           = (IF Lstat(v, q) = Missing THEN {} ELSE {<<y, Lstat(v, q)>>})
    BY <1>4, <1>8, <1>9, <1>10, <1>11, <1>12
  <1> QED
    BY <1>13 DEF y

\* ListingAgrees for any tree, nesting of links and sequence of commands: ls
\* shows exactly what looking its entries up finds, as what it finds.
THEOREM ListingsAgree == Spec => []ListingAgrees
  <1>1. ASSUME PoolInv PROVE ListingAgrees
    <2>1. ASSUME NEW s \in Sessions, NEW p \in Paths, p \in sess[s].deleted
          PROVE  sess[s].overlay[p] = Missing
      BY <1>1, <2>1 DEF PoolInv, GoodView
    <2>2. ASSUME NEW s \in Sessions, NEW p \in Paths, Stat(sess[s], p).kind = "dir",
                 NEW q \in Paths \ {Root}, parentDir(q) = p
          PROVE  {e \in ReadDir(sess[s], p) : e[1] = baseName(q)}
                   = (IF Lstat(sess[s], q) = Missing THEN {}
                      ELSE {<<baseName(q), Lstat(sess[s], q)>>})
      <3>1. sess[s] \in Views
        BY <1>1 DEF PoolInv, GoodView
      <3> QED
        BY <2>2, <3>1, Listed
    <2> QED
      BY <2>1, <2>2, Zenon DEF ListingAgrees
  <1> QED
    BY <1>1, PoolIsInvariant, PTL

-----------------------------------------------------------------------------
(* What a write and a removal change.                                      *)

Below(p, q) == Len(q) >= Len(p) /\ SubSeq(q, 1, Len(p)) = p

LEMMA PrefixOfParent ==
  ASSUME NEW q \in Paths \ {Root}, NEW i \in 0..Len(parentDir(q))
  PROVE  SubSeq(parentDir(q), 1, i) = SubSeq(q, 1, i) /\ i \in 0..Len(q)
  <1> DEFINE d == parentDir(q)
             x == baseName(q)
  <1>1. q \in Seq(STRING) /\ d \in Seq(STRING) /\ q = Append(d, x) /\ x \in STRING
    BY PathFacts
  <1> HIDE DEF d, x
  <1>2. \A S : \A s \in Seq(S), y \in S :
          /\ Append(s, y) \in Seq(S) /\ Len(Append(s, y)) = Len(s) + 1
          /\ \A j \in 1..Len(s) : Append(s, y)[j] = s[j]
    OBVIOUS
  <1>3. Len(q) = Len(d) + 1 /\ Len(d) \in Nat /\ \A j \in 1..Len(d) : q[j] = d[j]
    BY <1>1, <1>2
  <1>4. i \in Nat /\ i <= Len(d) /\ i <= Len(q) /\ i \in 0..Len(q)
    BY <1>3 DEF d
  <1>0. \A s \in Seq(STRING), n \in Nat :
          n <= Len(s) => /\ SubSeq(s, 1, n) \in Seq(STRING) /\ Len(SubSeq(s, 1, n)) = n
                         /\ \A j \in 1..n : SubSeq(s, 1, n)[j] = s[j]
    OBVIOUS
  <1>5. /\ SubSeq(d, 1, i) \in Seq(STRING) /\ Len(SubSeq(d, 1, i)) = i
        /\ \A j \in 1..i : SubSeq(d, 1, i)[j] = d[j]
    BY <1>0, <1>1, <1>4
  <1>6. /\ SubSeq(q, 1, i) \in Seq(STRING) /\ Len(SubSeq(q, 1, i)) = i
        /\ \A j \in 1..i : SubSeq(q, 1, i)[j] = q[j]
    BY <1>0, <1>1, <1>4, Zenon
  <1>7. SubSeq(d, 1, i) = SubSeq(q, 1, i)
    BY <1>3, <1>4, <1>5, <1>6, SeqEqual
  <1> QED
    BY <1>4, <1>7 DEF d

LEMMA BelowFacts ==
  ASSUME NEW p \in Paths
  PROVE  /\ Below(p, p)
         /\ Below(p, Root) => p = Root
         /\ p # Root => ~Below(p, parentDir(p))
         /\ \A q \in Paths \ {Root} : Below(p, q) <=> q = p \/ Below(p, parentDir(q))
  <1>1. p \in Seq(STRING) /\ Len(p) \in Nat /\ (Len(p) = 0 => p = Root)
    BY PathFacts
  <1>2. Below(p, p)
    BY <1>1 DEF Below
  <1>3. Below(p, Root) => p = Root
    BY <1>1 DEF Below, Root
  <1>4. p # Root => ~Below(p, parentDir(p))
    BY <1>1, PathFacts DEF Below
  <1>5. ASSUME NEW q \in Paths \ {Root}
        PROVE  Below(p, q) <=> q = p \/ Below(p, parentDir(q))
    <2>1. /\ q \in Seq(STRING) /\ Len(q) \in Nat /\ Len(parentDir(q)) = Len(q) - 1
          /\ Len(parentDir(q)) \in Nat
      BY PathFacts
    <2>2. CASE Len(p) <= Len(parentDir(q))
      <3>1. Len(p) \in 0..Len(parentDir(q)) /\ Len(q) >= Len(p) /\ q # p
        BY <1>1, <2>1, <2>2
      <3>2. SubSeq(parentDir(q), 1, Len(p)) = SubSeq(q, 1, Len(p))
        BY <3>1, PrefixOfParent
      <3> QED
        BY <2>2, <3>1, <3>2 DEF Below
    <2>3. CASE ~(Len(p) <= Len(parentDir(q)))
      <3>1. ~(Len(parentDir(q)) >= Len(p)) /\ (Len(q) >= Len(p) => Len(q) = Len(p))
        BY <1>1, <2>1, <2>3
      <3>2. SubSeq(q, 1, Len(q)) = q
        BY <2>1
      <3> QED
        BY <1>2, <3>1, <3>2 DEF Below
    <2> QED
      BY <2>2, <2>3
  <1> QED
    BY <1>2, <1>3, <1>4, <1>5

\* What a tombstone hides.
LEMMA HiddenFacts ==
  ASSUME NEW v, NEW q \in Paths
  PROVE  /\ q # Root /\ isDeleted(v, parentDir(q)) => isDeleted(v, q)
         /\ \A p \in Paths : p \in v.deleted /\ Below(p, q) => isDeleted(v, q)
         /\ \A w, p : p \in Paths /\ w.deleted \subseteq v.deleted \cup {p} /\ isDeleted(w, q)
                        => isDeleted(v, q) \/ Below(p, q)
         /\ \A w : w.deleted \subseteq v.deleted /\ isDeleted(w, q) => isDeleted(v, q)
  <1>1. q \in Seq(STRING) /\ Len(q) \in Nat
    BY PathFacts
  <1>2. ASSUME q # Root, isDeleted(v, parentDir(q)) PROVE isDeleted(v, q)
    <2>1. PICK i \in 0..Len(parentDir(q)) : SubSeq(parentDir(q), 1, i) \in v.deleted
      BY <1>2 DEF isDeleted
    <2>2. SubSeq(parentDir(q), 1, i) = SubSeq(q, 1, i) /\ i \in 0..Len(q)
      BY <1>2, PrefixOfParent
    <2> QED
      BY <2>1, <2>2 DEF isDeleted
  <1>3. ASSUME NEW p \in Paths, p \in v.deleted, Below(p, q) PROVE isDeleted(v, q)
    <2>1. Len(p) \in 0..Len(q) /\ SubSeq(q, 1, Len(p)) = p
      BY <1>1, <1>3, PathFacts DEF Below
    <2> QED
      BY <1>3, <2>1 DEF isDeleted
  <1>4. ASSUME NEW w, NEW p \in Paths, w.deleted \subseteq v.deleted \cup {p}, isDeleted(w, q)
        PROVE  isDeleted(v, q) \/ Below(p, q)
    <2>1. PICK i \in 0..Len(q) : SubSeq(q, 1, i) \in w.deleted
      BY <1>4 DEF isDeleted
    <2>2. CASE SubSeq(q, 1, i) \in v.deleted
      BY <2>2 DEF isDeleted
    <2>3. CASE SubSeq(q, 1, i) = p
      <3>1. Len(SubSeq(q, 1, i)) = i /\ i \in Nat /\ i <= Len(q)
        BY <1>1
      <3>2. Len(p) = i
        BY <2>3, <3>1
      <3> QED
        BY <1>1, <2>3, <3>1, <3>2 DEF Below
    <2> QED
      BY <1>4, <2>1, <2>2, <2>3
  <1>5. ASSUME NEW w, w.deleted \subseteq v.deleted, isDeleted(w, q) PROVE isDeleted(v, q)
    BY <1>5 DEF isDeleted
  <1> QED
    BY <1>2, <1>3, <1>4, <1>5

\* Nothing below what is no directory is one.
LEMMA NoDirBelow ==
  ASSUME NEW v, NEW k \in 0..MaxLinkDepth, NEW p \in Paths, Level(v, k)[p].kind # "dir",
         NEW r \in Paths, Below(p, r)
  PROVE  Level(v, k)[r].kind # "dir"
  <1> DEFINE T == {n \in Nat : \E q \in Paths : /\ Len(q) = n /\ Below(p, q)
                                               /\ Level(v, k)[q].kind = "dir"}
  <1> SUFFICES ASSUME Level(v, k)[r].kind = "dir" PROVE FALSE
    OBVIOUS
  <1>1. Len(r) \in T
    BY PathFacts
  <1>2. PICK m \in T : \A n \in T : m <= n
    BY <1>1, LeastNat
  <1>3. PICK q \in Paths : Len(q) = m /\ Below(p, q) /\ Level(v, k)[q].kind = "dir"
    BY <1>2
  <1>4. q # p /\ q # Root
    BY <1>3, BelowFacts
  <1>5. /\ parentDir(q) \in Paths /\ Len(parentDir(q)) < Len(q)
        /\ Level(v, k)[parentDir(q)].kind = "dir"
    BY <1>3, <1>4, DirSteps
  <1>6. Below(p, parentDir(q))
    BY <1>3, <1>4, BelowFacts
  <1>7. Len(parentDir(q)) \in Nat /\ Len(q) \in Nat
    BY <1>5, PathFacts
  <1>8. Len(parentDir(q)) \in T
    BY <1>5, <1>6, <1>7
  <1> HIDE DEF T
  <1> QED
    BY <1>2, <1>3, <1>5, <1>7, <1>8

\* Where w has a directory, v has the same one, if it has the same nodes there.
LEMMA SameDirs ==
  ASSUME NEW v, NEW w,
         \A k \in 0..MaxLinkDepth, q \in Paths \ {Root} :
           Level(w, k)[q].kind = "dir" => \A d : child(v, d, q) = child(w, d, q),
         NEW r \in Paths, lookup(w)[r].kind = "dir"
  PROVE  lookup(v)[r] = lookup(w)[r]
  <1> DEFINE Same(k, p) == Level(w, k)[p].kind = "dir" => Level(v, k)[p] = Level(w, k)[p]
             T == {x \in (0..MaxLinkDepth) \X Paths : Same(x[1], x[2])}
  <1>1. ASSUME NEW k \in 0..MaxLinkDepth, NEW p \in Paths,
               \A m \in 0..MaxLinkDepth, o \in Paths :
                 m < k \/ (m = k /\ Len(o) < Len(p)) => Same(m, o),
               Level(w, k)[p].kind = "dir"
        PROVE  Level(v, k)[p] = Level(w, k)[p]
    <2>1. CASE p = Root
      BY <2>1, RootIsDir
    <2>2. CASE p # Root
      <3> DEFINE q == Target(p, Found(w, k, p))
      <3>1. /\ parentDir(p) \in Paths /\ Len(parentDir(p)) < Len(p)
            /\ Level(w, k)[parentDir(p)].kind = "dir"
        <4>1. k \in 0..MaxLinkDepth /\ p \in Paths \ {Root} /\ Level(w, k)[p].kind = "dir"
          BY <1>1, <2>2
        <4> QED
          BY <4>1, DirSteps
      <3>2. Level(v, k)[parentDir(p)] = Level(w, k)[parentDir(p)]
        BY <1>1, <3>1
      <3>3. Found(v, k, p) = Found(w, k, p)
        BY <1>1, <2>2, <3>2 DEF Found
      <3>4. ASSUME IsLink(Found(w, k, p)), q \in Paths, k > 0
            PROVE  Level(v, k - 1)[q] = Level(w, k - 1)[q]
        <4>1. Level(w, k)[p] = Level(w, k - 1)[q] /\ k - 1 \in 0..MaxLinkDepth
          <5>1. k \in 0..MaxLinkDepth /\ p \in Paths \ {Root} /\ Level(w, k)[p].kind = "dir"
            BY <1>1, <2>2
          <5> QED
            BY <5>1, <3>4, DirSteps
        <4>2. k - 1 < k
          OBVIOUS
        <4> HIDE DEF q
        <4>3. Same(k - 1, q)
          BY <1>1, <3>4, <4>1, <4>2
        <4> QED
          BY <1>1, <4>1, <4>3
      <3>5. k >= k /\ q = Target(p, Found(w, k, p))
        OBVIOUS
      <3>6. Level(w, k)[p].kind = "dir" /\ p \in Paths \ {Root}
        BY <1>1, <2>2
      <3>7. IsLink(Found(w, k, p)) /\ q \in Paths /\ k > 0
              => Level(v, k - 1)[q] = Level(w, k - 1)[q]
        BY <3>4
      <3> HIDE DEF q
      <3> QED
        BY <3>3, <3>5, <3>6, <3>7, SameStep
    <2> QED
      BY <2>1, <2>2
  <1>2. \A k \in 0..MaxLinkDepth, p \in Paths : Same(k, p) <=> <<k, p>> \in T
    OBVIOUS
  <1>3. ASSUME NEW k \in 0..MaxLinkDepth, NEW p \in Paths,
               \A j \in 0..MaxLinkDepth, o \in Paths :
                 j < k \/ (j = k /\ Len(o) < Len(p)) => <<j, o>> \in T
        PROVE  <<k, p>> \in T
    <2> HIDE DEF T
    <2>1. \A m \in 0..MaxLinkDepth, o \in Paths :
            m < k \/ (m = k /\ Len(o) < Len(p)) => Same(m, o)
      BY <1>2, <1>3
    <2>2. Same(k, p)
      BY <1>1, <2>1
    <2> QED
      BY <1>2, <2>2
  <1> HIDE DEF T
  <1>4. MaxLinkDepth \in 0..MaxLinkDepth
    BY LimitsAssumption
  <1>5. Same(MaxLinkDepth, r)
    BY <1>2, <1>3, <1>4, LookupInduction
  <1> QED
    BY <1>5, LookupIsLevel

\* A view that differs from v at p alone shows nothing new but p, if what it
\* has for directories v does not hide.
LEMMA NothingNew ==
  ASSUME NEW v, NEW w, NEW p \in Paths, \A r \in Paths \ {p} : w.overlay[r] = v.overlay[r],
         \A k \in 0..MaxLinkDepth, r \in Paths \ {Root} :
           Level(w, k)[r].kind = "dir" => r # p /\ ~isDeleted(v, r),
         NEW q \in Paths \ {Root}, q # p, ~isDeleted(v, q), Lstat(w, q) # Missing
  PROVE  Lstat(v, q) # Missing
  <1> DEFINE d == parentDir(q)
  <1>1. d \in Paths
    BY PathFacts
  <1>2. Lstat(w, q) = child(w, Stat(w, d), q) /\ Lstat(v, q) = child(v, Stat(v, d), q)
    BY DEF Lstat
  <1>3. Stat(w, d).kind = "dir" /\ ~isDeleted(w, q)
    BY <1>2 DEF child
  <1>4. ~isDeleted(w, d) /\ Stat(w, d) = lookup(w)[d]
    BY <1>3, NodeFacts, Zenon DEF Stat
  <1>5. ASSUME NEW k \in 0..MaxLinkDepth, NEW r \in Paths \ {Root}, Level(w, k)[r].kind = "dir"
        PROVE  \A x : child(v, x, r) = child(w, x, r)
    <2>1. ~isDeleted(w, r) /\ ~isDeleted(v, r) /\ r # p
      BY <1>5, DirSteps
    <2> QED
      BY <2>1 DEF child
  <1>6. lookup(v)[d] = lookup(w)[d]
    <2>1. \A k \in 0..MaxLinkDepth, r \in Paths \ {Root} :
            Level(w, k)[r].kind = "dir" => \A x : child(v, x, r) = child(w, x, r)
      BY <1>5
    <2>2. lookup(w)[d].kind = "dir"
      BY <1>3, <1>4
    <2> HIDE DEF d
    <2> QED
      BY <1>1, <2>1, <2>2, SameDirs
  <1>7. ~isDeleted(v, d)
    BY HiddenFacts
  <1>8. Stat(v, d) = Stat(w, d)
    BY <1>4, <1>6, <1>7, Zenon DEF Stat
  <1>9. \A x : child(v, x, q) = child(w, x, q)
    BY <1>3 DEF child
  <1> QED
    BY <1>2, <1>8, <1>9

LEMMA WrittenFacts ==
  ASSUME NEW v, v \in Views, NEW p \in Paths, NEW n, NEW w, w = Written(v, p, n)
  PROVE  /\ w.overlay[p] = File(n) /\ \A r \in Paths \ {p} : w.overlay[r] = v.overlay[r]
         /\ w.deleted = v.deleted \ {p}
         /\ \A r \in Paths : /\ isDeleted(w, r) => isDeleted(v, r)
                             /\ isDeleted(v, r) => isDeleted(w, r) \/ Below(p, r)
  <1>1. /\ w.overlay[p] = File(n) /\ \A r \in Paths \ {p} : w.overlay[r] = v.overlay[r]
        /\ w.deleted = v.deleted \ {p}
    BY DEF Written, Views
  <1>2. w.deleted \subseteq v.deleted /\ v.deleted \subseteq w.deleted \cup {p}
    BY <1>1
  <1>3. ASSUME NEW r \in Paths
        PROVE  /\ isDeleted(w, r) => isDeleted(v, r)
               /\ isDeleted(v, r) => isDeleted(w, r) \/ Below(p, r)
    BY <1>2, HiddenFacts, Zenon
  <1> QED
    BY <1>1, <1>3

\* What is written can be read: the directory it is in is reached as before,
\* with the fewest nested links that reach it.
LEMMA WriteIsRead ==
  ASSUME NEW v, v \in Views, NEW p \in Paths, NEW n, Writable(v, p, n)
  PROVE  Stat(Written(v, p, n), p) = File(n)
  <1> DEFINE w == Written(v, p, n)
             P == parentDir(p)
  <1>1. /\ w.overlay[p] = File(n) /\ \A r \in Paths \ {p} : w.overlay[r] = v.overlay[r]
        /\ w.deleted = v.deleted \ {p}
        /\ \A r \in Paths : isDeleted(w, r) => isDeleted(v, r)
    BY WrittenFacts
  <1> HIDE DEF w
  <1>2. p # Root /\ Stat(v, P).kind = "dir" /\ P \in Paths
    BY PathFacts DEF Writable
  <1>3. ~isDeleted(v, P) /\ lookup(v)[P].kind = "dir"
    BY <1>2, NodeFacts, Zenon DEF Stat
  <1> DEFINE K == {k \in 0..MaxLinkDepth : Level(v, k)[P].kind = "dir"}
  <1>4. K \in SUBSET Nat /\ MaxLinkDepth \in K
    BY <1>3, LookupIsLevel, LimitsAssumption
  <1>5. PICK k0 \in K : \A k \in K : k0 <= k
    BY <1>4, LeastNat
  <1>6. k0 \in 0..MaxLinkDepth /\ Level(v, k0)[P].kind = "dir"
    BY <1>5
  <1>7. ASSUME NEW k \in 0..MaxLinkDepth, k < k0 PROVE Level(v, k)[P].kind # "dir"
    <2>1. k \notin K
      <3> HIDE DEF K
      <3> QED
        BY <1>5, <1>6, <1>7, LimitsAssumption
    <2> QED
      BY <2>1
  <1> HIDE DEF K
  <1> DEFINE Reached(k, r) == k < k0 \/ (k = k0 /\ ~Below(p, r))
             Same(k, r) == Reached(k, r) /\ Level(v, k)[r].kind = "dir"
                             => Level(w, k)[r] = Level(v, k)[r]
             T == {x \in (0..MaxLinkDepth) \X Paths : Same(x[1], x[2])}
  <1>8. ASSUME NEW k \in 0..MaxLinkDepth, NEW r \in Paths,
               \A m \in 0..MaxLinkDepth, o \in Paths :
                 m < k \/ (m = k /\ Len(o) < Len(r)) => Same(m, o),
               Reached(k, r), Level(v, k)[r].kind = "dir"
        PROVE  Level(w, k)[r] = Level(v, k)[r]
    <2>1. CASE r = Root
      BY <2>1, RootIsDir
    <2>2. CASE r # Root
      <3> DEFINE q == Target(r, Found(v, k, r))
                 d == parentDir(r)
      <3>1. /\ d \in Paths /\ Len(d) < Len(r) /\ Level(v, k)[d].kind = "dir"
            /\ ~isDeleted(v, r)
        <4>1. k \in 0..MaxLinkDepth /\ r \in Paths \ {Root} /\ Level(v, k)[r].kind = "dir"
          BY <1>8, <2>2
        <4> QED
          BY <4>1, DirSteps
      <3>2. r # p
        BY <1>7, <1>8, <3>1, BelowFacts
      <3>3. Reached(k, d)
        BY <1>8, <2>2, BelowFacts
      <3>4. Level(w, k)[d] = Level(v, k)[d]
        <4> HIDE DEF d, Reached
        <4> QED
          BY <1>8, <3>1, <3>3
      <3>5. Found(w, k, r) = Found(v, k, r)
        <4>1. ~isDeleted(w, r) /\ w.overlay[r] = v.overlay[r]
          BY <1>1, <3>1, <3>2
        <4> QED
          BY <3>1, <3>4, <4>1 DEF Found, child
      <3>6. ASSUME IsLink(Found(v, k, r)), q \in Paths, k > 0
            PROVE  Level(w, k - 1)[q] = Level(v, k - 1)[q]
        <4>1. Level(v, k)[r] = Level(v, k - 1)[q] /\ k - 1 \in 0..MaxLinkDepth
          <5>1. k \in 0..MaxLinkDepth /\ r \in Paths \ {Root} /\ Level(v, k)[r].kind = "dir"
            BY <1>8, <2>2
          <5> QED
            BY <5>1, <3>6, DirSteps
        <4>2. k - 1 < k /\ k - 1 < k0
          BY <1>6, <1>8, <3>6
        <4> HIDE DEF q
        <4>3. Same(k - 1, q)
          BY <1>8, <3>6, <4>1, <4>2
        <4> QED
          BY <1>8, <4>1, <4>2, <4>3
      <3>7. k >= k /\ q = Target(r, Found(v, k, r))
        OBVIOUS
      <3>8. k \in 0..MaxLinkDepth /\ Level(v, k)[r].kind = "dir" /\ r \in Paths \ {Root}
        BY <1>8, <2>2
      <3>9. IsLink(Found(v, k, r)) /\ q \in Paths /\ k > 0
              => Level(w, k - 1)[q] = Level(v, k - 1)[q]
        BY <3>6
      <3> HIDE DEF q
      <3> QED
        BY <3>5, <3>7, <3>8, <3>9, SameStep
    <2> QED
      BY <2>1, <2>2
  <1>9. \A k \in 0..MaxLinkDepth, r \in Paths : Same(k, r) <=> <<k, r>> \in T
    OBVIOUS
  <1> HIDE DEF Reached
  <1>10. ASSUME NEW k \in 0..MaxLinkDepth, NEW r \in Paths,
                \A j \in 0..MaxLinkDepth, o \in Paths :
                  j < k \/ (j = k /\ Len(o) < Len(r)) => <<j, o>> \in T
         PROVE  <<k, r>> \in T
    <2> HIDE DEF T
    <2>1. \A m \in 0..MaxLinkDepth, o \in Paths :
            m < k \/ (m = k /\ Len(o) < Len(r)) => Same(m, o)
      BY <1>9, <1>10
    <2>2. Same(k, r)
      BY <1>8, <2>1
    <2> QED
      BY <1>9, <2>2
  <1> HIDE DEF T
  <1>11. Same(k0, P)
    BY <1>2, <1>6, <1>9, <1>10, LookupInduction
  <1>12. Reached(k0, P)
    BY <1>2, BelowFacts DEF Reached
  <1>13. Level(w, k0)[P].kind = "dir"
    BY <1>6, <1>11, <1>12
  <1>14. lookup(w)[P].kind = "dir"
    BY <1>2, <1>6, <1>13, Deeper
  <1>15. ~isDeleted(w, p)
    BY <1>1, <1>2, <1>3, HiddenByPrefix
  <1>16. Found(w, MaxLinkDepth, p) = File(n)
    BY <1>1, <1>14, <1>15, LookupIsLevel, NodeFacts DEF Found, child
  <1>17. MaxLinkDepth \in 0..MaxLinkDepth /\ ~IsLink(File(n))
    BY LimitsAssumption, NodeFacts
  <1>18. Level(w, MaxLinkDepth)[p] = File(n)
    BY <1>2, <1>16, <1>17, LevelUnfolds
  <1>19. Stat(w, p) = File(n)
    BY <1>15, <1>18, LookupIsLevel DEF Stat
  <1> QED
    BY <1>19 DEF w

LEMMA WriteShowsItself ==
  ASSUME NEW v, v \in Views, NEW p \in Paths, NEW n, p # Root,
         NEW q \in Paths, q # p, Lstat(Written(v, p, n), q) # Missing
  PROVE  Lstat(v, q) # Missing
  <1> DEFINE w == Written(v, p, n)
  <1>1. /\ w.overlay[p] = File(n) /\ \A r \in Paths \ {p} : w.overlay[r] = v.overlay[r]
        /\ \A r \in Paths : isDeleted(v, r) => isDeleted(w, r) \/ Below(p, r)
    BY WrittenFacts
  <1>2. Lstat(w, q) # Missing
    OBVIOUS
  <1> HIDE DEF w
  <1>3. ASSUME NEW k \in 0..MaxLinkDepth PROVE Level(w, k)[p].kind # "dir"
    <2> SUFFICES ASSUME Level(w, k)[p].kind = "dir" PROVE FALSE
      OBVIOUS
    <2>1. /\ Level(w, k)[parentDir(p)].kind = "dir" /\ ~isDeleted(w, p)
      BY DirSteps
    <2>2. Found(w, k, p) = File(n)
      BY <1>1, <2>1, NodeFacts DEF Found, child
    <2>3. ~IsLink(Found(w, k, p))
      BY <2>2, NodeFacts
    <2>4. Level(w, k)[p] = File(n)
      BY <2>2, <2>3, LevelUnfolds
    <2> QED
      BY <2>4, NodeFacts
  <1>4. ASSUME NEW k \in 0..MaxLinkDepth, NEW r \in Paths \ {Root}, Level(w, k)[r].kind = "dir"
        PROVE  r # p /\ ~isDeleted(v, r) /\ ~Below(p, r)
    <2>1. ~Below(p, r)
      BY <1>3, <1>4, NoDirBelow
    <2>2. ~isDeleted(w, r)
      BY <1>4, DirSteps
    <2> QED
      BY <1>1, <1>3, <1>4, <2>1, <2>2
  <1>5. CASE q = Root
    BY <1>5, NodeFacts DEF Lstat, Dir, Missing
  <1>6. CASE q # Root
    <2> DEFINE d == parentDir(q)
    <2>1. d \in Paths /\ Stat(w, d).kind = "dir" /\ ~isDeleted(w, q)
      BY <1>2, <1>6, PathFacts DEF Lstat, child
    <2>2. Level(w, MaxLinkDepth)[d].kind = "dir" /\ MaxLinkDepth \in 0..MaxLinkDepth
      <3>1. Stat(w, d) = lookup(w)[d]
        BY <2>1, NodeFacts, Zenon DEF Stat
      <3> QED
        BY <2>1, <3>1, LookupIsLevel, LimitsAssumption
    <2>3. ~Below(p, d)
      BY <1>3, <2>1, <2>2, NoDirBelow
    <2>4. ~isDeleted(v, q)
      BY <1>1, <1>6, <2>1, <2>3, BelowFacts
    <2> HIDE DEF d
    <2> QED
      BY <1>1, <1>2, <1>4, <1>6, <2>4, NothingNew
  <1> QED
    BY <1>5, <1>6

\* A removal hides its path and what is below it.
LEMMA RemovalHides ==
  ASSUME NEW v, v \in Views, NEW p \in Paths \ {Root}, NEW q \in Paths, Below(p, q)
  PROVE  Lstat(Removed(v, p), q) = Missing
  <1> DEFINE P == parentDir(p)
             d == parentDir(q)
  <1>1. q # Root /\ d \in Paths /\ P \in Paths
    BY BelowFacts, PathFacts
  <1>2. CASE Lstat(v, p) = Missing
    <2>1. Removed(v, p) = v
      BY <1>2 DEF Removed
    <2>2. CASE q = p
      BY <1>2, <2>1, <2>2
    <2>3. CASE q # p
      <3> SUFFICES ASSUME Lstat(v, q) # Missing PROVE FALSE
        BY <2>1
      <3>1. Stat(v, d).kind = "dir"
        BY <1>1 DEF Lstat, child
      <3>2. Level(v, MaxLinkDepth)[d].kind = "dir" /\ MaxLinkDepth \in 0..MaxLinkDepth
        <4>1. Stat(v, d) = lookup(v)[d]
          BY <3>1, NodeFacts, Zenon DEF Stat
        <4> QED
          BY <3>1, <4>1, LookupIsLevel, LimitsAssumption
      <3>3. Below(p, d)
        BY <1>1, <2>3, BelowFacts
      <3>4. Level(v, MaxLinkDepth)[p].kind = "dir"
        BY <1>1, <3>2, <3>3, NoDirBelow
      <3>5. ~isDeleted(v, p) /\ Found(v, MaxLinkDepth, p) # Missing
        BY <3>2, <3>4, DirSteps
      <3>6. ~isDeleted(v, P)
        BY <3>5, HiddenFacts
      <3>7. Lstat(v, p) = Found(v, MaxLinkDepth, p)
        BY <3>6, LookupIsLevel DEF Lstat, Stat, Found
      <3> QED
        BY <1>2, <3>5, <3>7
    <2> QED
      BY <2>2, <2>3
  <1>3. CASE Lstat(v, p) # Missing
    <2>1. p \in Removed(v, p).deleted
      BY <1>3 DEF Removed, Views
    <2>2. isDeleted(Removed(v, p), q)
      BY <2>1, HiddenFacts
    <2> QED
      BY <1>1, <2>2 DEF Lstat, child
  <1> QED
    BY <1>2, <1>3

LEMMA RemovalShowsNothing ==
  ASSUME NEW v, v \in Views, NEW p \in Paths,
         NEW q \in Paths, Lstat(Removed(v, p), q) # Missing
  PROVE  Lstat(v, q) # Missing
  <1> DEFINE w == Removed(v, p)
  <1>1. CASE p = Root \/ Lstat(v, p) = Missing
    BY <1>1 DEF Removed
  <1>2. CASE q = Root
    BY <1>2, NodeFacts DEF Lstat, Dir, Missing
  <1>3. CASE p # Root /\ Lstat(v, p) # Missing /\ q # Root
    <2>1. /\ \A r \in Paths \ {p} : w.overlay[r] = v.overlay[r]
          /\ w.deleted = v.deleted \cup {p}
      BY <1>3 DEF Removed, Views
    <2>2. Lstat(w, q) # Missing
      OBVIOUS
    <2> HIDE DEF w
    <2>3. v.deleted \subseteq w.deleted
      BY <2>1
    <2>4. ASSUME NEW r \in Paths, ~isDeleted(w, r) PROVE ~isDeleted(v, r) /\ r # p
      <3>1. isDeleted(v, r) => isDeleted(w, r)
        BY <2>3, HiddenFacts, Zenon
      <3>2. isDeleted(w, p)
        BY <2>1, BelowFacts, HiddenFacts
      <3> QED
        BY <2>4, <3>1, <3>2
    <2>5. ~isDeleted(w, q)
      BY <1>3, <2>2 DEF Lstat, child
    <2>6. \A k \in 0..MaxLinkDepth, r \in Paths \ {Root} :
            Level(w, k)[r].kind = "dir" => r # p /\ ~isDeleted(v, r)
      BY <2>4, DirSteps
    <2> QED
      BY <1>3, <2>1, <2>2, <2>4, <2>5, <2>6, NothingNew
  <1> QED
    BY <1>1, <1>2, <1>3

\* TakesEffect for any tree, nesting of links and sequence of commands: what
\* WriteFile accepts is read back at its path and shows nothing else, Remove
\* hides its path and everything below it and shows nothing.
THEOREM CommandsTakeEffect == Spec => []TakesEffect
  <1>1. ASSUME PoolInv PROVE TakesEffect
    <2>1. \A s \in Sessions : sess[s] \in Views
      BY <1>1 DEF PoolInv, GoodView
    <2>2. ASSUME NEW s \in Sessions, NEW p \in Paths, NEW n \in Lengths,
                 Writable(sess[s], p, n)
          PROVE  /\ Stat(Written(sess[s], p, n), p) = File(n)
                 /\ Visible(Written(sess[s], p, n)) \ Visible(sess[s]) \subseteq {p}
      <3>1. p # Root
        BY <2>2 DEF Writable
      <3> QED
        BY <2>1, <2>2, <3>1, WriteIsRead, WriteShowsItself DEF Visible
    <2>3. ASSUME NEW s \in Sessions, NEW p \in Paths, p # Root, NEW q \in Paths,
                 Len(q) >= Len(p) /\ SubSeq(q, 1, Len(p)) = p
          PROVE  Lstat(Removed(sess[s], p), q) = Missing
      BY <2>1, <2>3, RemovalHides DEF Below
    <2>4. ASSUME NEW s \in Sessions, NEW p \in Paths
          PROVE  Visible(Removed(sess[s], p)) \subseteq Visible(sess[s])
      BY <2>1, RemovalShowsNothing DEF Visible
    <2> QED
      BY <2>2, <2>3, <2>4, Zenon DEF TakesEffect
  <1> QED
    BY <1>1, PoolIsInvariant, PTL

-----------------------------------------------------------------------------
(* What a session keeps and what it has lost.                              *)

\* What a command makes of a view.
Change(v, w) ==
  \/ w \in {v, Fresh}
  \/ \E p \in Paths :
       \/ Makable(v, p) /\ w = Made(v, p)
       \/ w = Removed(v, p)
       \/ w = [v EXCEPT !.cwd = p]
       \/ \E n : Writable(v, p, n) /\ w = Written(v, p, n)

LEMMA ViewsChange ==
  ASSUME PoolInv, [Next]_vars, NEW t \in Sessions
  PROVE  Change(sess[t], sess'[t])
  <1>1. ASSUME NEW s \in Sessions, NEW w, Becomes(s, w)
        PROVE  sess'[t] = IF t = s THEN w ELSE sess[t]
    BY <1>1 DEF Becomes, PoolInv
  <1>2. ASSUME UNCHANGED sess PROVE Change(sess[t], sess'[t])
    BY <1>2 DEF Change
  <1>3. ASSUME NEW s \in Sessions, NEW p \in Paths, NEW n, NEW rm, WriteFile(s, p, n, rm)
        PROVE  Change(sess[t], sess'[t])
    <2>1. CASE UNCHANGED sess
      BY <1>2, <2>1
    <2>2. CASE Writable(sess[s], p, n) /\ Becomes(s, Written(sess[s], p, n))
      <3>1. sess'[t] = IF t = s THEN Written(sess[s], p, n) ELSE sess[t]
        BY <1>1, <2>2
      <3>2. CASE t = s
        BY <2>2, <3>1, <3>2, Zenon DEF Change
      <3>3. CASE t # s
        BY <3>1, <3>3 DEF Change
      <3> QED
        BY <3>2, <3>3
    <2> QED
      BY <1>3, <2>1, <2>2 DEF WriteFile
  <1>4. ASSUME NEW s \in Sessions, NEW p \in Paths, Becomes(s, Removed(sess[s], p))
        PROVE  Change(sess[t], sess'[t])
    BY <1>1, <1>4, Zenon DEF Change
  <1>5. ASSUME NEW s \in Sessions, MvRemoves(s) PROVE Change(sess[t], sess'[t])
    <2>1. due[s].rm \in Paths
      BY <1>5, HeldTypes DEF MvRemoves, Dues
    <2> QED
      BY <1>4, <1>5, <2>1 DEF MvRemoves
  <1>6. ASSUME NEW s \in Sessions, Release(s) PROVE Change(sess[t], sess'[t])
    BY <1>1, <1>6, Zenon DEF Release, Change
  <1>7. ASSUME NEW s \in Sessions, NEW p \in Paths, Mkdir(s, p) PROVE Change(sess[t], sess'[t])
    BY <1>1, <1>7, Zenon DEF Mkdir, Change
  <1>8. ASSUME NEW s \in Sessions, NEW p \in Paths, Rm(s, p) PROVE Change(sess[t], sess'[t])
    BY <1>4, <1>8 DEF Rm
  <1>9. ASSUME NEW s \in Sessions, NEW p \in Paths, Chdir(s, p) PROVE Change(sess[t], sess'[t])
    BY <1>1, <1>9, Zenon DEF Chdir, Change
  <1>10. ASSUME NEW s \in Sessions, NEW p \in Paths, NEW n \in Lengths,
                NEW append \in BOOLEAN, Redirect(s, p, n, append)
         PROVE  Change(sess[t], sess'[t])
    BY <1>3, <1>10, Zenon DEF Redirect
  <1>11. ASSUME NEW s \in Sessions, NEW p \in Paths, NEW q \in Paths,
                Touch(s, p) \/ Cp(s, p, q) \/ Mv(s, p, q)
         PROVE  Change(sess[t], sess'[t])
    BY <1>3, <1>11, Zenon DEF Touch, Cp, Mv
  <1>12. ASSUME NEW s \in Sessions, Rollback(s) PROVE Change(sess[t], sess'[t])
    BY <1>2, <1>12 DEF Rollback
  <1>13. ASSUME UNCHANGED vars PROVE Change(sess[t], sess'[t])
    BY <1>2, <1>13 DEF vars
  <1> QED
    BY <1>5, <1>6, <1>7, <1>8, <1>9, <1>10, <1>11, <1>12, <1>13, Zenon DEF Next

\* A directory that is nowhere in the base tree shows what was written in it.
LEMMA NothingBelowNowhere ==
  ASSUME NEW v, v \in Views, NEW d, d.at = Nowhere, NEW q \in Paths \ {Root}
  PROVE  child(v, d, q) \in {Missing, v.overlay[q]}
  <1>1. Nowhere \in Seq(Names) /\ baseName(q) \in Names
    BY PathsNamed, PathFacts DEF Names
  <1>2. parentDir(Append(Nowhere, baseName(q))) = Nowhere
    BY <1>1, NameSplits
  <1>3. Append(Nowhere, baseName(q)) \notin DOMAIN Base
    BY <1>2, BaseAssumption
  <1> QED
    BY <1>3 DEF child

LEMMA MadeFacts ==
  ASSUME NEW v, v \in Views, NEW p \in Paths, NEW w, w = Made(v, p)
  PROVE  /\ w.overlay[p] = NewDir /\ \A r \in Paths \ {p} : w.overlay[r] = v.overlay[r]
         /\ w.deleted = v.deleted \ {p}
         /\ \A r \in Paths \ {p} : w.overlay[r] \in Nodes
  BY DEF Made, Views

\* Mkdir leaves what leads into the base tree as it was: a path leads to the
\* same directory as before, or to one that is nowhere in the base tree.
LEMMA MadeDirs ==
  ASSUME NEW v, v \in Views, NEW p \in Paths \ {Root}, NEW r \in Paths,
         lookup(Made(v, p))[r].kind = "dir", lookup(Made(v, p))[r].at # Nowhere
  PROVE  lookup(v)[r] = lookup(Made(v, p))[r]
  <1> DEFINE w == Made(v, p)
             Same(k, q) == Level(w, k)[q].kind = "dir" /\ Level(w, k)[q].at # Nowhere
                             => Level(v, k)[q] = Level(w, k)[q]
             T == {x \in (0..MaxLinkDepth) \X Paths : Same(x[1], x[2])}
  <1>1. /\ w.overlay[p] = NewDir /\ \A q \in Paths \ {p} : w.overlay[q] = v.overlay[q]
        /\ w.deleted = v.deleted \ {p}
    BY MadeFacts
  <1>2. w \in Views
    BY NodeFacts DEF Made, Views
  <1>3. NewDir.at = Nowhere /\ NewDir # Missing /\ Missing.kind = "none" /\ ~IsLink(NewDir)
        /\ \A x \in Nodes : x.kind = "dir" => x.at = Nowhere
    BY NodeFacts DEF Nodes, NewDir, Dir, Missing, File
  <1> HIDE DEF w
  <1>4. ASSUME NEW k \in 0..MaxLinkDepth, NEW q \in Paths,
               \A m \in 0..MaxLinkDepth, o \in Paths :
                 m < k \/ (m = k /\ Len(o) < Len(q)) => Same(m, o),
               Level(w, k)[q].kind = "dir", Level(w, k)[q].at # Nowhere
        PROVE  Level(v, k)[q] = Level(w, k)[q]
    <2>1. CASE q = Root
      BY <2>1, RootIsDir
    <2>2. CASE q # Root
      <3> DEFINE d == parentDir(q)
                 n == Found(w, k, q)
                 t == Target(q, n)
      <3>1. /\ d \in Paths /\ Len(d) < Len(q) /\ Level(w, k)[d].kind = "dir"
            /\ ~isDeleted(w, q) /\ n # Missing
            /\ \/ ~IsLink(n) /\ Level(w, k)[q] = n
               \/ /\ IsLink(n) /\ t \in Paths /\ k - 1 \in 0..MaxLinkDepth /\ k > 0
                  /\ Level(w, k)[q] = Level(w, k - 1)[t]
        <4>1. k \in 0..MaxLinkDepth /\ q \in Paths \ {Root} /\ Level(w, k)[q].kind = "dir"
          BY <1>4, <2>2
        <4> QED
          BY <4>1, DirSteps
      <3>2. n \notin Nodes
        BY <1>3, <1>4, <3>1, NodeFacts
      <3>3. w.overlay[q] \in Nodes
        BY <1>2 DEF Views
      <3>4. Level(w, k)[d].at # Nowhere
        <4>1. Level(w, k)[d].at = Nowhere => n \in {Missing, w.overlay[q]}
          BY <1>2, <2>2, NothingBelowNowhere DEF Found
        <4> QED
          BY <3>1, <3>2, <3>3, <4>1
      <3>5. Level(v, k)[d] = Level(w, k)[d]
        <4> HIDE DEF d, n
        <4> QED
          BY <1>4, <3>1, <3>4
      <3>6. q # p /\ w.overlay[q] = Missing
        <4>1. w.overlay[q] # Missing => n = w.overlay[q]
          BY <3>1 DEF Found, child
        <4> QED
          BY <1>1, <1>3, <3>2, <3>3, <4>1
      <3>7. ~isDeleted(v, d)
        <4>1. CASE d = Root
          <5>1. w.deleted \subseteq v.deleted /\ v.deleted \subseteq w.deleted \cup {p}
            BY <1>1
          <5>2. isDeleted(v, d) => isDeleted(w, d) \/ Below(p, d)
            BY <3>1, <5>1, HiddenFacts, Zenon
          <5>3. ~isDeleted(w, d)
            BY <2>2, <3>1, HiddenFacts
          <5>4. ~Below(p, d)
            BY <4>1, BelowFacts
          <5> QED
            BY <5>2, <5>3, <5>4
        <4>2. CASE d # Root
          BY <3>1, <3>5, <4>2, DirSteps
        <4> QED
          BY <4>1, <4>2
      <3>8. ~isDeleted(v, q)
        <4>1. q \in v.deleted => isDeleted(w, q)
          <5>1. q \in v.deleted => q \in w.deleted
            BY <1>1, <3>6
          <5> QED
            BY <5>1, BelowFacts, HiddenFacts
        <4> QED
          BY <2>2, <3>1, <3>7, <4>1, HiddenByPrefix
      <3>9. Found(v, k, q) = n
        BY <1>1, <3>1, <3>5, <3>6, <3>8 DEF Found, child
      <3>10. CASE ~IsLink(n) /\ Level(w, k)[q] = n
        BY <2>2, <3>9, <3>10, LevelUnfolds
      <3>11. CASE /\ IsLink(n) /\ t \in Paths /\ k - 1 \in 0..MaxLinkDepth /\ k > 0
                  /\ Level(w, k)[q] = Level(w, k - 1)[t]
        <4>1. Level(v, k)[q] = Level(v, k - 1)[t]
          BY <2>2, <3>9, <3>11, LevelUnfolds
        <4>2. k - 1 < k
          OBVIOUS
        <4> HIDE DEF t, n
        <4>3. Same(k - 1, t)
          BY <1>4, <3>11, <4>2
        <4> QED
          BY <1>4, <3>11, <4>1, <4>3
      <3> QED
        BY <3>1, <3>10, <3>11
    <2> QED
      BY <2>1, <2>2
  <1>5. \A k \in 0..MaxLinkDepth, q \in Paths : Same(k, q) <=> <<k, q>> \in T
    OBVIOUS
  <1>6. ASSUME NEW k \in 0..MaxLinkDepth, NEW q \in Paths,
               \A j \in 0..MaxLinkDepth, o \in Paths :
                 j < k \/ (j = k /\ Len(o) < Len(q)) => <<j, o>> \in T
        PROVE  <<k, q>> \in T
    <2> HIDE DEF T
    <2>1. \A m \in 0..MaxLinkDepth, o \in Paths :
            m < k \/ (m = k /\ Len(o) < Len(q)) => Same(m, o)
      BY <1>5, <1>6
    <2>2. Same(k, q)
      BY <1>4, <2>1
    <2> QED
      BY <1>5, <2>2
  <1> HIDE DEF T
  <1>7. MaxLinkDepth \in 0..MaxLinkDepth
    BY LimitsAssumption
  <1>8. Same(MaxLinkDepth, r)
    BY <1>5, <1>6, <1>7, LookupInduction
  <1> QED
    BY <1>8, LookupIsLevel DEF w

\* Mkdir shows nothing of the base tree.
LEMMA MadeShowsNoBase ==
  ASSUME NEW v, v \in Views, NEW p \in Paths \ {Root}
  PROVE  OfBase(Made(v, p)) \subseteq OfBase(v)
  <1> DEFINE w == Made(v, p)
  <1>1. /\ w.overlay[p] = NewDir /\ \A q \in Paths \ {p} : w.overlay[q] = v.overlay[q]
        /\ w.deleted = v.deleted \ {p}
    BY MadeFacts
  <1>2. w \in Views /\ NewDir # Missing
    BY NodeFacts DEF Made, Views
  <1>3. \A r \in Paths : lookup(w)[r].kind = "dir" /\ lookup(w)[r].at # Nowhere
                           => lookup(v)[r] = lookup(w)[r]
    BY MadeDirs
  <1> HIDE DEF w
  <1>4. ASSUME NEW q \in OfBase(w) PROVE q \in OfBase(v)
    <2>1. q \in Paths /\ Lstat(w, q) # Missing /\ w.overlay[q] = Missing
      BY <1>4 DEF OfBase, Visible
    <2>2. q # p /\ v.overlay[q] = Missing
      BY <1>1, <1>2, <2>1
    <2>3. CASE q = Root
      BY <2>1, <2>2, <2>3 DEF Lstat, OfBase, Visible
    <2>4. CASE q # Root
      <3> DEFINE d == parentDir(q)
      <3>1. /\ d \in Paths /\ Stat(w, d).kind = "dir" /\ ~isDeleted(w, q)
            /\ Lstat(w, q) = child(w, Stat(w, d), q)
        BY <2>1, <2>4, PathFacts DEF Lstat, child
      <3>2. ~isDeleted(w, d) /\ Stat(w, d) = lookup(w)[d]
        BY <3>1, NodeFacts, Zenon DEF Stat
      <3>3. lookup(w)[d].at # Nowhere
        BY <1>2, <2>1, <2>4, <3>1, <3>2, NothingBelowNowhere
      <3>4. lookup(v)[d] = lookup(w)[d]
        BY <1>3, <3>1, <3>2, <3>3
      <3>5. ~isDeleted(v, d)
        <4>1. CASE d = Root
          <5>1. w.deleted \subseteq v.deleted /\ v.deleted \subseteq w.deleted \cup {p}
            BY <1>1
          <5>2. isDeleted(v, d) => isDeleted(w, d) \/ Below(p, d)
            BY <3>1, <5>1, HiddenFacts, Zenon
          <5>3. ~Below(p, d)
            BY <4>1, BelowFacts
          <5> QED
            BY <3>2, <5>2, <5>3
        <4>2. CASE d # Root
          <5>1. MaxLinkDepth \in 0..MaxLinkDepth /\ Level(v, MaxLinkDepth)[d].kind = "dir"
            BY <3>1, <3>2, <3>4, LookupIsLevel, LimitsAssumption
          <5> QED
            BY <3>1, <4>2, <5>1, DirSteps
        <4> QED
          BY <4>1, <4>2
      <3>6. ~isDeleted(v, q)
        <4>1. q \in v.deleted => isDeleted(w, q)
          <5>1. q \in v.deleted => q \in w.deleted
            BY <1>1, <2>2
          <5> QED
            BY <2>1, <5>1, BelowFacts, HiddenFacts
        <4> QED
          BY <2>1, <2>4, <3>1, <3>5, <4>1, HiddenByPrefix
      <3>7. Stat(v, d) = Stat(w, d)
        BY <3>2, <3>4, <3>5, Zenon DEF Stat
      <3>8. Lstat(v, q) = child(v, Stat(w, d), q)
        BY <2>4, <3>7 DEF Lstat
      <3>9. child(v, Stat(w, d), q) = child(w, Stat(w, d), q)
        BY <2>1, <2>2, <3>1, <3>6 DEF child
      <3> QED
        BY <2>1, <2>2, <3>1, <3>8, <3>9 DEF OfBase, Visible
    <2> QED
      BY <2>3, <2>4
  <1> QED
    BY <1>4 DEF w

\* No command brings back what the base tree had.
LEMMA ChangeShowsNoBase ==
  ASSUME NEW v, GoodView(v), NEW w, Change(v, w), w \notin {v, Fresh}
  PROVE  OfBase(w) \subseteq OfBase(v)
  <1>1. v \in Views
    BY DEF GoodView
  <1>2. ASSUME NEW p \in Paths, Makable(v, p), w = Made(v, p) PROVE OfBase(w) \subseteq OfBase(v)
    <2>1. p # Root
      BY <1>2 DEF Makable
    <2> QED
      BY <1>1, <1>2, <2>1, MadeShowsNoBase
  <1>3. ASSUME NEW p \in Paths, w = Removed(v, p) PROVE OfBase(w) \subseteq OfBase(v)
    <2> SUFFICES ASSUME NEW q \in OfBase(w) PROVE q \in OfBase(v)
      OBVIOUS
    <2>1. q \in Paths /\ Lstat(w, q) # Missing /\ w.overlay[q] = Missing
      BY DEF OfBase, Visible
    <2>2. Lstat(v, q) # Missing
      BY <1>1, <1>3, <2>1, RemovalShowsNothing
    <2>3. CASE w = v
      BY <2>3
    <2>4. CASE w # v
      <3>1. /\ p # Root /\ \A r \in Paths \ {p} : w.overlay[r] = v.overlay[r]
            /\ w.deleted = v.deleted \cup {p}
        BY <1>1, <1>3, <2>4 DEF Removed, Views
      <3>2. q # p
        BY <1>1, <1>3, <2>1, <3>1, BelowFacts, RemovalHides
      <3> QED
        BY <2>1, <2>2, <3>1, <3>2 DEF OfBase, Visible
    <2> QED
      BY <2>3, <2>4
  <1>4. ASSUME NEW p \in Paths, w = [v EXCEPT !.cwd = p] PROVE OfBase(w) \subseteq OfBase(v)
    <2>1. w.overlay = v.overlay /\ w.deleted = v.deleted
      BY <1>1, <1>4 DEF Views
    <2>2. \A r : isDeleted(w, r) <=> isDeleted(v, r)
      BY <2>1 DEF isDeleted
    <2>3. \A d, r : child(w, d, r) = child(v, d, r)
      BY <2>1, <2>2 DEF child
    <2>4. ASSUME NEW r \in Paths, lookup(w)[r].kind = "dir" PROVE lookup(v)[r] = lookup(w)[r]
      BY <2>3, <2>4, SameDirs
    <2>5. ASSUME NEW q \in OfBase(w) PROVE q \in OfBase(v)
      <3>1. q \in Paths /\ Lstat(w, q) # Missing /\ v.overlay[q] = Missing
        BY <2>1, <2>5 DEF OfBase, Visible
      <3>2. CASE q = Root
        BY <3>1, <3>2 DEF OfBase, Visible, Lstat
      <3>3. CASE q # Root
        <4> DEFINE d == parentDir(q)
        <4>1. d \in Paths /\ Stat(w, d).kind = "dir" /\ Lstat(w, q) = child(w, Stat(w, d), q)
          BY <3>1, <3>3, PathFacts DEF Lstat, child
        <4>2. ~isDeleted(w, d) /\ Stat(w, d) = lookup(w)[d]
          BY <4>1, NodeFacts, Zenon DEF Stat
        <4>3. Stat(v, d) = Stat(w, d)
          BY <2>2, <2>4, <4>1, <4>2 DEF Stat
        <4>4. Lstat(v, q) = Lstat(w, q)
          BY <2>3, <3>3, <4>1, <4>3 DEF Lstat
        <4> QED
          BY <3>1, <4>4 DEF OfBase, Visible
      <3> QED
        BY <3>2, <3>3
    <2> QED
      BY <2>5
  <1>5. ASSUME NEW p \in Paths, NEW n, Writable(v, p, n), w = Written(v, p, n)
        PROVE  OfBase(w) \subseteq OfBase(v)
    <2> SUFFICES ASSUME NEW q \in OfBase(w) PROVE q \in OfBase(v)
      OBVIOUS
    <2>1. q \in Paths /\ Lstat(w, q) # Missing /\ w.overlay[q] = Missing
      BY DEF OfBase, Visible
    <2>2. w.overlay[p] = File(n) /\ \A r \in Paths \ {p} : w.overlay[r] = v.overlay[r]
      BY <1>1, <1>5, WrittenFacts
    <2>3. q # p /\ p # Root
      BY <1>5, <2>1, <2>2, NodeFacts DEF Writable
    <2>4. Lstat(v, q) # Missing
      BY <1>1, <1>5, <2>1, <2>3, WriteShowsItself
    <2> QED
      BY <2>1, <2>2, <2>3, <2>4 DEF OfBase, Visible
  <1> QED
    BY <1>2, <1>3, <1>4, <1>5 DEF Change

\* RemovedStaysGone for any tree and sequence of commands: after a removal,
\* neither WriteFile nor Mkdir, through whatever links, shows a session
\* anything of the base tree it no longer saw.
THEOREM RemovalsLast == Spec => RemovedStaysGone
  <1>1. ASSUME PoolInv, [Next]_vars, NEW s \in Sessions
        PROVE  sess'[s] \in {sess[s], Fresh} \/ OfBase(sess'[s]) \subseteq OfBase(sess[s])
    <2>1. GoodView(sess[s]) /\ Change(sess[s], sess'[s])
      BY <1>1, ViewsChange DEF PoolInv
    <2> QED
      BY <2>1, ChangeShowsNoBase
  <1>2. PoolInv /\ [Next]_vars =>
          [\A s \in Sessions : \/ sess'[s] \in {sess[s], Fresh}
                               \/ OfBase(sess'[s]) \subseteq OfBase(sess[s])]_vars
    BY <1>1
  <1> QED
    BY <1>2, PoolIsInvariant, PTL DEF Spec, RemovedStaysGone

-----------------------------------------------------------------------------
(* The entry budget.                                                       *)

\* What a view keeps for the paths that are not of the base tree.
Kept(v) == {p \in Paths \ Shipped : v.overlay[p] # Missing \/ p \in v.deleted}

\* That a session sees nothing of the base tree that a new one does not see is
\* what limits the tombstones: a path that is neither written nor of the base
\* tree is not there, and Remove refuses it.
Budgeted(v) == OfBase(v) \subseteq Shipped /\ Cardinality(Kept(v)) <= MaxEntries

LEMMA KeptFinite ==
  ASSUME NEW v
  PROVE  IsFiniteSet(Kept(v)) /\ Cardinality(Kept(v)) \in Nat
  BY PathsAssumption, FS_Subset, FS_CardinalityType DEF Kept

\* The nodes and tombstones of the other paths are entries.
LEMMA KeptAreEntries ==
  ASSUME NEW v, v \in Views
  PROVE  Cardinality(Kept(v)) <= entries(v) /\ entries(v) \in Nat
  <1> DEFINE on == {p \in Paths : v.overlay[p] # Missing}
             off == v.deleted
  <1>1. IsFiniteSet(on) /\ IsFiniteSet(off)
    BY PathsAssumption, FS_Subset DEF Views
  <1>2. Kept(v) \subseteq on \cup off
    BY DEF Kept
  <1>3. entries(v) = Cardinality(on) + Cardinality(off)
    BY DEF entries
  <1> HIDE DEF on, off
  <1>4. /\ IsFiniteSet(on \cup off) /\ IsFiniteSet(on \cap off)
        /\ Cardinality(on \cup off)
             = Cardinality(on) + Cardinality(off) - Cardinality(on \cap off)
    BY <1>1, FS_Union, FS_Intersection
  <1>5. Cardinality(Kept(v)) <= Cardinality(on \cup off)
    BY <1>2, <1>4, FS_Subset
  <1>6. /\ Cardinality(on) \in Nat /\ Cardinality(off) \in Nat
        /\ Cardinality(on \cap off) \in Nat /\ Cardinality(Kept(v)) \in Nat
    BY <1>1, <1>4, KeptFinite, FS_CardinalityType
  <1> QED
    BY <1>3, <1>4, <1>5, <1>6

\* A change that keeps one more path at most, and only within the budget.
LEMMA KeptStep ==
  ASSUME NEW v, v \in Views, Budgeted(v), NEW w, NEW p, Kept(w) \subseteq Kept(v) \cup {p},
         p \in Kept(w) \ Kept(v) => entries(v) < MaxEntries
  PROVE  Cardinality(Kept(w)) <= MaxEntries
  <1>1. /\ IsFiniteSet(Kept(v)) /\ Cardinality(Kept(v)) \in Nat /\ Cardinality(Kept(w)) \in Nat
        /\ Cardinality(Kept(v)) <= MaxEntries /\ MaxEntries \in Nat
    BY KeptFinite, LimitsAssumption DEF Budgeted
  <1>2. CASE p \in Kept(w) \ Kept(v)
    <2>1. /\ IsFiniteSet(Kept(v) \cup {p})
          /\ Cardinality(Kept(v) \cup {p}) = Cardinality(Kept(v)) + 1
      BY <1>1, <1>2, FS_AddElement
    <2>2. Cardinality(Kept(w)) <= Cardinality(Kept(v) \cup {p})
      BY <2>1, FS_Subset
    <2>3. Cardinality(Kept(v)) < MaxEntries
      BY <1>1, <1>2, KeptAreEntries
    <2> QED
      BY <1>1, <2>1, <2>2, <2>3
  <1>3. CASE p \notin Kept(w) \ Kept(v)
    <2>1. Kept(w) \subseteq Kept(v)
      BY <1>3
    <2>2. Cardinality(Kept(w)) <= Cardinality(Kept(v))
      BY <1>1, <2>1, FS_Subset
    <2> QED
      BY <1>1, <2>2
  <1> QED
    BY <1>2, <1>3

LEMMA ChangeIsBudgeted ==
  ASSUME NEW v, GoodView(v), Budgeted(v), NEW w, Change(v, w)
  PROVE  Budgeted(w)
  <1>1. v \in Views
    BY DEF GoodView
  <1>2. CASE w = v
    BY <1>2
  <1>3. CASE w = Fresh
    <2>1. Kept(Fresh) = {}
      BY DEF Kept, Fresh
    <2>2. Cardinality(Kept(Fresh)) <= MaxEntries
      BY <2>1, FS_EmptySet, LimitsAssumption
    <2> QED
      BY <1>3, <2>2 DEF Budgeted, Shipped
  <1>4. CASE w \notin {v, Fresh}
    <2>1. OfBase(w) \subseteq Shipped
      BY <1>4, ChangeShowsNoBase DEF Budgeted
    <2>2. ASSUME NEW p \in Paths, Makable(v, p), w = Made(v, p)
          PROVE  Cardinality(Kept(w)) <= MaxEntries
      <3>1. /\ \A r \in Paths \ {p} : w.overlay[r] = v.overlay[r]
            /\ w.deleted = v.deleted \ {p}
        BY <1>1, <2>2, MadeFacts
      <3>2. Kept(w) \subseteq Kept(v) \cup {p}
        BY <3>1 DEF Kept
      <3>3. p \in Kept(w) \ Kept(v) => entries(v) < MaxEntries
        BY <2>2 DEF Kept, Makable
      <3> QED
        BY <1>1, <3>2, <3>3, KeptStep
    <2>3. ASSUME NEW p \in Paths, w = Removed(v, p)
          PROVE  Cardinality(Kept(w)) <= MaxEntries
      <3>1. /\ Lstat(v, p) # Missing /\ \A r \in Paths \ {p} : w.overlay[r] = v.overlay[r]
            /\ w.deleted = v.deleted \cup {p}
        BY <1>1, <1>4, <2>3 DEF Removed, Views
      <3>2. Kept(w) \subseteq Kept(v) \cup {p}
        BY <3>1 DEF Kept
      <3>3. p \notin Kept(w) \ Kept(v)
        <4>1. p \notin Shipped => v.overlay[p] # Missing
          BY <3>1 DEF Budgeted, OfBase, Visible
        <4> QED
          BY <4>1 DEF Kept
      <3> QED
        BY <1>1, <3>2, <3>3, KeptStep
    <2>4. ASSUME NEW p \in Paths, w = [v EXCEPT !.cwd = p]
          PROVE  Cardinality(Kept(w)) <= MaxEntries
      <3>1. Kept(w) = Kept(v)
        BY <1>1, <2>4 DEF Kept, Views
      <3> QED
        BY <3>1 DEF Budgeted
    <2>5. ASSUME NEW p \in Paths, NEW n, Writable(v, p, n), w = Written(v, p, n)
          PROVE  Cardinality(Kept(w)) <= MaxEntries
      <3>1. /\ \A r \in Paths \ {p} : w.overlay[r] = v.overlay[r]
            /\ w.deleted = v.deleted \ {p}
        BY <1>1, <2>5, WrittenFacts
      <3>2. Kept(w) \subseteq Kept(v) \cup {p}
        BY <3>1 DEF Kept
      <3>3. p \in Kept(w) \ Kept(v) => entries(v) < MaxEntries
        BY <2>5 DEF Kept, Writable
      <3> QED
        BY <1>1, <3>2, <3>3, KeptStep
    <2> QED
      BY <1>4, <2>1, <2>2, <2>3, <2>4, <2>5 DEF Change, Budgeted
  <1> QED
    BY <1>2, <1>3, <1>4

\* EntriesBounded for any tree and sequence of commands: although Remove never
\* looks at the budget, what a session keeps for paths the base tree does not
\* have stays within maxOverlayEntries.
THEOREM EntriesAreBounded == Spec => []EntriesBounded
  <1> DEFINE Inv == \A s \in Sessions : Budgeted(sess[s])
  <1>1. ASSUME Init PROVE Inv
    <2>1. \A s \in Sessions : sess[s] = Fresh
      BY <1>1 DEF Init
    <2>2. Kept(Fresh) = {}
      BY DEF Kept, Fresh
    <2>3. Cardinality(Kept(Fresh)) <= MaxEntries
      BY <2>2, FS_EmptySet, LimitsAssumption
    <2>4. Budgeted(Fresh)
      BY <2>3 DEF Budgeted, Shipped
    <2> QED
      BY <2>1, <2>4
  <1>2. ASSUME PoolInv, Inv, [Next]_vars PROVE Inv'
    <2>1. ASSUME NEW s \in Sessions PROVE Budgeted(sess'[s])
      <3>1. GoodView(sess[s]) /\ Budgeted(sess[s]) /\ Change(sess[s], sess'[s])
        BY <1>2, ViewsChange DEF PoolInv
      <3> QED
        BY <3>1, ChangeIsBudgeted
    <2>2. \A s \in Sessions : Budgeted(sess[s])'
      BY <2>1 DEF Budgeted
    <2> QED
      BY <2>2
  <1>3. ASSUME Inv PROVE EntriesBounded
    BY <1>3 DEF EntriesBounded, Budgeted, Kept
  <1> HIDE DEF Inv
  <1> QED
    BY <1>1, <1>2, <1>3, PoolIsInvariant, PTL DEF Spec

============================================================================
