---------------------------- MODULE TelnetProofs ----------------------------
(***************************************************************************)
(* Proofs about Telnet, for any units, buffer size and limits.  The        *)
(* reference Says reads a whole stream from its start, iacReader one byte  *)
(* at a time: the invariant says what Says makes of the bytes seen so far, *)
(* whatever comes behind them.                                             *)
(***************************************************************************)
EXTENDS Telnet, FiniteSetTheorems, FunctionTheorems, SequenceTheorems,
        WellFoundedInduction, TLAPS

\* What the stream is made of.
Bytes == STRING \cup Verbs \cup {"iac", "sb", "se"}

LEMMA ByteFacts == /\ Verbs \subseteq Bytes /\ "iac" \in Bytes /\ "sb" \in Bytes /\ "se" \in Bytes
                   /\ Units \subseteq Seq(Bytes)
  <1>1. STRING \subseteq Bytes /\ Verbs \subseteq Bytes /\ "iac" \in Bytes /\ "sb" \in Bytes /\ "se" \in Bytes
    BY DEF Bytes
  <1>2. ASSUME NEW u \in Units PROVE u \in Seq(Bytes)
    BY <1>1, UnitsAssumption, SeqMonotonic
  <1> QED
    BY <1>1, <1>2

-----------------------------------------------------------------------------
(* Says as a recursive function.                                           *)

\* A set of naturals has a least element.
LEMMA LeastOf ==
  ASSUME NEW T \in SUBSET Nat, T # {}
  PROVE  \E m \in T : \A n \in T : m <= n
  <1> DEFINE R == OpToRel(<, Nat)
  <1>1. IsWellFoundedOn(R, Nat)
    BY NatLessThanWellFounded
  <1>2. \A x, y \in Nat : x < y => <<x, y>> \in R
    BY DEF OpToRel
  <1> HIDE DEF R
  <1>3. PICK m \in T : \A y \in T : ~(<<y, m>> \in R)
    BY <1>1, WFMin
  <1>4. \A n \in T : ~(n < m)
    BY <1>2, <1>3
  <1>5. \A n \in T : m <= n
    BY <1>4
  <1> QED
    BY <1>5, Zenon

LEMMA FirstOf ==
  ASSUME NEW T \in SUBSET Nat, T # {}
  PROVE  First(T) \in T /\ \A h \in T : First(T) <= h
  BY LeastOf, Zenon DEF First

\* Induction over the naturals up to a bound, for the members of a set.
LEMMA CountUp ==
  ASSUME NEW T, 0 \in T, \A n \in Nat : n \in T => n + 1 \in T
  PROVE  \A n \in Nat : n \in T
  <1> SUFFICES ASSUME NEW k \in Nat, k \notin T PROVE FALSE
    OBVIOUS
  <1> DEFINE U == {n \in Nat : n \notin T}
  <1>1. U \in SUBSET Nat /\ U # {}
    OBVIOUS
  <1>2. PICK m \in U : \A n \in U : m <= n
    BY <1>1, LeastOf
  <1>3. m \in Nat /\ m \notin T /\ m # 0
    BY <1>2
  <1>4. m - 1 \in Nat /\ (m - 1) + 1 = m /\ ~(m <= m - 1)
    BY <1>3
  <1>5. m - 1 \notin U
    <2> HIDE DEF U
    <2> QED
      BY <1>2, <1>4
  <1>6. m - 1 \in T
    BY <1>4, <1>5
  <1> QED
    BY <1>3, <1>4, <1>6

\* What the bytes of s from place i on say, if g says it for the places behind.
Heard(s, g, i) ==
  IF i > Len(s) THEN Nothing
  ELSE IF s[i] # "iac" THEN [g[i+1] EXCEPT !.input = <<s[i]>> \o @]
  ELSE IF i = Len(s) THEN Nothing
  ELSE CASE s[i+1] = "iac" -> [g[i+2] EXCEPT !.input = <<"iac">> \o @]
         [] s[i+1] = "sb" ->
              LET e == Ends(s, i + 2)
              IN IF e = {} THEN Nothing ELSE g[First(e) + 2]
         [] s[i+1] \in Verbs ->
              IF i + 2 > Len(s) THEN Nothing
              ELSE [g[i+3] EXCEPT !.replies = negotiate(s[i+1], s[i+2]) \o @]
         [] OTHER -> g[i+2]

Hears(s, g) == g = [i \in 1..(Len(s) + 3) |-> Heard(s, g, i)]
From(s) == CHOOSE g : Hears(s, g)

LEMMA EndsFacts ==
  ASSUME NEW s \in Seq(Bytes), NEW i \in Nat \ {0}
  PROVE  /\ Ends(s, i) \in SUBSET Nat
         /\ \A j \in Ends(s, i) : j \in i..(Len(s) - 1) /\ s[j] = "iac" /\ s[j+1] = "se"
         /\ Ends(s, i) # {} => /\ First(Ends(s, i)) \in Ends(s, i)
                               /\ \A h \in Ends(s, i) : First(Ends(s, i)) <= h
  <1>1. \A j \in Ends(s, i) : j \in i..(Len(s) - 1) /\ s[j] = "iac" /\ s[j+1] = "se"
    BY DEF Ends
  <1>2. Len(s) \in Nat
    OBVIOUS
  <1>3. Ends(s, i) \in SUBSET Nat
    BY <1>1, <1>2
  <1> QED
    BY <1>1, <1>3, FirstOf

\* It depends on the places behind i only.
LEMMA HeardBehind ==
  ASSUME NEW s \in Seq(Bytes), NEW i \in 1..(Len(s) + 3), NEW g, NEW h,
         \A j \in (i+1)..(Len(s) + 3) : g[j] = h[j]
  PROVE  Heard(s, g, i) = Heard(s, h, i)
  <1>1. Len(s) \in Nat
    OBVIOUS
  <1>2. CASE i > Len(s)
    BY <1>2 DEF Heard
  <1>3. CASE i <= Len(s)
    <2>1. g[i+1] = h[i+1] /\ g[i+2] = h[i+2] /\ g[i+3] = h[i+3]
      BY <1>1, <1>3
    <2>2. ASSUME Ends(s, i + 2) # {} PROVE g[First(Ends(s, i + 2)) + 2] = h[First(Ends(s, i + 2)) + 2]
      <3>1. i + 2 \in Nat \ {0}
        OBVIOUS
      <3>2. First(Ends(s, i + 2)) \in (i+2)..(Len(s) - 1)
        BY <2>2, <3>1, EndsFacts
      <3>3. First(Ends(s, i + 2)) + 2 \in (i+1)..(Len(s) + 3)
        BY <1>1, <3>2
      <3> QED
        BY <3>3
    <2> DEFINE e == Ends(s, i + 2)
               f == First(e) + 2
    <2>3. e # {} => g[f] = h[f]
      BY <2>2
    <2>4. \A x : Heard(s, x, i) =
            IF s[i] # "iac" THEN [x[i+1] EXCEPT !.input = <<s[i]>> \o @]
            ELSE IF i = Len(s) THEN Nothing
            ELSE CASE s[i+1] = "iac" -> [x[i+2] EXCEPT !.input = <<"iac">> \o @]
                   [] s[i+1] = "sb" -> IF e = {} THEN Nothing ELSE x[f]
                   [] s[i+1] \in Verbs ->
                        IF i + 2 > Len(s) THEN Nothing
                        ELSE [x[i+3] EXCEPT !.replies = negotiate(s[i+1], s[i+2]) \o @]
                   [] OTHER -> x[i+2]
      <3>1. ~(i > Len(s))
        BY <1>1, <1>3
      <3> QED
        BY <3>1, Zenon DEF Heard
    <2> HIDE DEF e, f
    <2> QED
      BY <2>1, <2>3, <2>4
  <1> QED
    BY <1>1, <1>2, <1>3

LEMMA HearsExists ==
  ASSUME NEW s \in Seq(Bytes)
  PROVE  \E g : Hears(s, g)
  <1> DEFINE L == Len(s)
             D == 1..(L + 3)
             Upto(n, g) == \A i \in D : i + n > L => g[i] = Heard(s, g, i)
             T == {n \in Nat : \E g : Upto(n, g)}
  <1>0. L \in Nat
    OBVIOUS
  <1>1. 0 \in T
    <2> DEFINE g == [i \in D |-> Nothing]
    <2>1. ASSUME NEW i \in D, i + 0 > L PROVE g[i] = Heard(s, g, i)
      <3>1. i > Len(s)
        BY <1>0, <2>1
      <3> QED
        BY <3>1 DEF Heard
    <2>2. Upto(0, g)
      BY <2>1
    <2> QED
      BY <2>2
  <1>2. ASSUME NEW n \in Nat, n \in T PROVE n + 1 \in T
    <2>1. PICK h : Upto(n, h)
      BY <1>2
    <2> DEFINE g == [i \in D |-> IF i + n > L THEN h[i] ELSE Heard(s, h, i)]
    <2>2. ASSUME NEW i \in D, i + (n + 1) > L PROVE g[i] = Heard(s, g, i)
      <3>1. g[i] = Heard(s, h, i)
        BY <2>1
      <3>2. \A j \in (i+1)..(Len(s) + 3) : j \in D /\ j + n > L
        BY <1>0, <2>2
      <3>3. \A j \in (i+1)..(Len(s) + 3) : g[j] = h[j]
        BY <3>2
      <3> HIDE DEF g
      <3>4. Heard(s, g, i) = Heard(s, h, i)
        BY <3>3, HeardBehind
      <3> QED
        BY <3>1, <3>4
    <2>3. Upto(n + 1, g)
      <3> HIDE DEF g
      <3> QED
        BY <2>2, Zenon
    <2>4. n + 1 \in Nat
      OBVIOUS
    <2> HIDE DEF g, Upto
    <2> QED
      BY <2>3, <2>4
  <1> HIDE DEF T
  <1>3. L \in T
    BY <1>0, <1>1, <1>2, CountUp
  <1>4. PICK h : Upto(L, h)
    BY <1>3 DEF T
  <1> DEFINE g == [i \in D |-> h[i]]
  <1>5. ASSUME NEW i \in D PROVE h[i] = Heard(s, g, i)
    <2>1. h[i] = Heard(s, h, i)
      BY <1>0, <1>4
    <2>2. \A j \in (i+1)..(Len(s) + 3) : g[j] = h[j]
      BY <1>0
    <2> HIDE DEF g
    <2> QED
      BY <2>1, <2>2, HeardBehind
  <1>6. Hears(s, g)
    <2>1. g = [i \in D |-> Heard(s, g, i)]
      BY <1>5
    <2> QED
      BY <2>1 DEF Hears
  <1> QED
    BY <1>6

LEMMA FromUnfolds ==
  ASSUME NEW s \in Seq(Bytes)
  PROVE  /\ Says(s) = From(s)[1]
         /\ \A i \in 1..(Len(s) + 3) : From(s)[i] = Heard(s, From(s), i)
  <1>1. Hears(s, From(s))
    BY HearsExists, Zenon DEF From
  <1>2. \A i \in 1..(Len(s) + 3) : From(s)[i] = Heard(s, From(s), i)
    BY <1>1, Zenon DEF Hears
  <1>3. Says(s) = From(s)[1]
    BY Zenon DEF Says, From, Hears, Heard
  <1> QED
    BY <1>2, <1>3

-----------------------------------------------------------------------------
(* What comes before a place does not change what the bytes behind it say. *)

LEMMA JoinFacts ==
  ASSUME NEW s \in Seq(Bytes), NEW t \in Seq(Bytes)
  PROVE  /\ s \o t \in Seq(Bytes) /\ Len(s) \in Nat /\ Len(t) \in Nat
         /\ Len(s \o t) = Len(s) + Len(t)
         /\ \A i \in 1..Len(s) : (s \o t)[i] = s[i]
         /\ \A i \in 1..Len(t) : (s \o t)[Len(s) + i] = t[i]
  OBVIOUS

LEMMA BeforeFacts ==
  ASSUME NEW s, NEW i \in Nat, NEW j \in Nat
  PROVE  /\ Before(s, i, j) \in Nat
         /\ i >= j => Before(s, i, j) = 0
         /\ i <= j => /\ s[j] # "iac" => Before(s, i, j + 1) = 0
                      /\ s[j] = "iac" => Before(s, i, j + 1) = Before(s, i, j) + 1
  <1> DEFINE B(m) == {h \in i..(m-1) : \A g \in h..(m-1) : s[g] = "iac"}
  <1>1. \A m \in Nat : IsFiniteSet(B(m)) /\ Cardinality(B(m)) \in Nat
    <2> SUFFICES ASSUME NEW m \in Nat PROVE IsFiniteSet(B(m)) /\ Cardinality(B(m)) \in Nat
      OBVIOUS
    <2>1. IsFiniteSet(i..(m-1)) /\ B(m) \subseteq i..(m-1)
      BY FS_Interval
    <2> HIDE DEF B
    <2> QED
      BY <2>1, FS_Subset, FS_CardinalityType
  <1>2. \A m \in Nat : Before(s, i, m) = Cardinality(B(m))
    BY DEF Before
  <1>3. ASSUME i >= j PROVE B(j) = {}
    BY <1>3
  <1>4. ASSUME i <= j, s[j] # "iac" PROVE B(j + 1) = {}
    BY <1>4
  <1>5. ASSUME i <= j, s[j] = "iac" PROVE B(j + 1) = B(j) \cup {j} /\ j \notin B(j)
    <2>1. ASSUME NEW h \in B(j + 1), h # j PROVE h \in B(j)
      BY <2>1
    <2>2. ASSUME NEW h \in B(j) PROVE h \in B(j + 1)
      <3>1. h \in i..(j-1) /\ \A g \in h..(j-1) : s[g] = "iac"
        OBVIOUS
      <3>2. \A g \in h..((j+1)-1) : g \in h..(j-1) \/ g = j
        BY <3>1
      <3> QED
        BY <1>5, <3>1, <3>2
    <2>3. j \in B(j + 1)
      BY <1>5
    <2>4. j \notin B(j)
      OBVIOUS
    <2> HIDE DEF B
    <2> QED
      BY <2>1, <2>2, <2>3, <2>4
  <1> HIDE DEF B
  <1>6. j + 1 \in Nat
    OBVIOUS
  <1>7. ASSUME i <= j, s[j] = "iac" PROVE Cardinality(B(j + 1)) = Cardinality(B(j)) + 1
    BY <1>1, <1>5, <1>7, FS_AddElement
  <1> QED
    BY <1>1, <1>2, <1>3, <1>4, <1>6, <1>7, FS_EmptySet

\* Before looks at the places from i to j - 1.
LEMMA BeforeSame ==
  ASSUME NEW s, NEW t, NEW i \in Nat, NEW j \in Nat, NEW n \in Nat,
         \A h \in i..(j-1) : s[n + h] = t[h]
  PROVE  Before(s, n + i, n + j) = Before(t, i, j)
  <1> DEFINE E == {m \in Nat : i + m <= j => Before(s, n + i, n + (i + m)) = Before(t, i, i + m)}
  <1>1. 0 \in E
    <2>1. n + i \in Nat /\ i + 0 = i /\ n + i >= n + i /\ i >= i
      OBVIOUS
    <2>2. Before(s, n + i, n + i) = 0
      BY <2>1, BeforeFacts
    <2>3. Before(t, i, i) = 0
      BY <2>1, BeforeFacts
    <2> QED
      BY <2>1, <2>2, <2>3
  <1>2. ASSUME NEW m \in Nat, m \in E PROVE m + 1 \in E
    <2> SUFFICES ASSUME i + (m + 1) <= j
                 PROVE  Before(s, n + i, n + (i + (m + 1))) = Before(t, i, i + (m + 1))
      OBVIOUS
    <2> DEFINE a == i + m
               b == n + a
               c == n + i
    <2>1. /\ a \in Nat /\ b \in Nat /\ c \in Nat /\ n + i = c /\ i <= a /\ c <= b /\ a \in i..(j-1)
          /\ i + (m + 1) = a + 1 /\ n + (i + (m + 1)) = b + 1 /\ i + m <= j
      OBVIOUS
    <2>2. Before(s, c, b) = Before(t, i, a)
      BY <1>2, <2>1
    <2>3. s[b] = t[a]
      BY <2>1
    <2> HIDE DEF a, b, c
    <2>4. Before(s, c, b + 1) = Before(t, i, a + 1)
      <3>1. CASE t[a] = "iac"
        <4>1. Before(s, c, b + 1) = Before(s, c, b) + 1
          <5>1. s[b] = "iac"
            BY <2>3, <3>1
          <5> QED
            BY <2>1, <5>1, BeforeFacts, Zenon
        <4>2. Before(t, i, a + 1) = Before(t, i, a) + 1
          BY <2>1, <3>1, BeforeFacts
        <4> QED
          BY <2>2, <4>1, <4>2
      <3>2. CASE t[a] # "iac"
        <4>1. Before(s, c, b + 1) = 0
          BY <2>1, <2>3, <3>2, BeforeFacts
        <4>2. Before(t, i, a + 1) = 0
          BY <2>1, <3>2, BeforeFacts
        <4> QED
          BY <4>1, <4>2
      <3> QED
        BY <3>1, <3>2
    <2> QED
      BY <2>1, <2>4
  <1> HIDE DEF E
  <1>3. \A m \in Nat : m \in E
    BY <1>1, <1>2, CountUp
  <1>4. CASE i <= j
    <2>1. j - i \in Nat /\ i + (j - i) = j
      BY <1>4
    <2> QED
      BY <1>3, <2>1 DEF E
  <1>5. CASE i > j
    <2>1. n + i \in Nat /\ n + j \in Nat /\ n + i >= n + j /\ i >= j
      BY <1>5
    <2>2. Before(s, n + i, n + j) = 0
      BY <2>1, BeforeFacts
    <2>3. Before(t, i, j) = 0
      BY <2>1, BeforeFacts
    <2> QED
      BY <2>2, <2>3
  <1> QED
    BY <1>4, <1>5

LEMMA EndsBehind ==
  ASSUME NEW s \in Seq(Bytes), NEW t \in Seq(Bytes), NEW i \in Nat \ {0}
  PROVE  Ends(s \o t, Len(s) + i) = {Len(s) + j : j \in Ends(t, i)}
  <1> DEFINE n == Len(s)
             u == s \o t
  <1>1. /\ n \in Nat /\ Len(t) \in Nat /\ Len(u) = n + Len(t)
        /\ \A j \in 1..Len(t) : u[n + j] = t[j]
    BY JoinFacts
  <1> HIDE DEF n, u
  <1>2. \A j \in i..(Len(t) - 1) :
           /\ u[n + j] = t[j] /\ u[(n + j) + 1] = t[j + 1]
           /\ Before(u, n + i, n + j) = Before(t, i, j)
    <2> SUFFICES ASSUME NEW j \in i..(Len(t) - 1)
                 PROVE  /\ u[n + j] = t[j] /\ u[(n + j) + 1] = t[j + 1]
                        /\ Before(u, n + i, n + j) = Before(t, i, j)
      OBVIOUS
    <2>1. /\ j \in 1..Len(t) /\ j + 1 \in 1..Len(t) /\ (n + j) + 1 = n + (j + 1) /\ j \in Nat /\ i \in Nat
          /\ \A h \in i..(j-1) : h \in 1..Len(t)
      BY <1>1
    <2>2. \A h \in i..(j-1) : u[n + h] = t[h]
      BY <1>1, <2>1
    <2>3. Before(u, n + i, n + j) = Before(t, i, j)
      <3>1. i \in Nat /\ j \in Nat /\ n \in Nat
        BY <1>1, <2>1
      <3> QED
        BY <2>2, <3>1, BeforeSame
    <2> QED
      BY <1>1, <2>1, <2>3
  <1>3. \A k : k \in (n + i)..(Len(u) - 1) <=> \E j \in i..(Len(t) - 1) : k = n + j
    <2>1. ASSUME NEW k \in (n + i)..(Len(u) - 1) PROVE \E j \in i..(Len(t) - 1) : k = n + j
      <3>1. k - n \in i..(Len(t) - 1) /\ k = n + (k - n)
        BY <1>1
      <3> QED
        BY <3>1
    <2>2. ASSUME NEW j \in i..(Len(t) - 1) PROVE n + j \in (n + i)..(Len(u) - 1)
      BY <1>1
    <2> QED
      BY <2>1, <2>2
  <1>4. Ends(u, n + i) = {n + j : j \in Ends(t, i)}
    <2>1. \A j \in i..(Len(t) - 1) : n + j \in Ends(u, n + i) <=> j \in Ends(t, i)
      BY <1>2, <1>3 DEF Ends
    <2>2. Ends(t, i) \subseteq i..(Len(t) - 1) /\ Ends(u, n + i) \subseteq (n + i)..(Len(u) - 1)
      BY DEF Ends
    <2> QED
      BY <1>3, <2>1, <2>2
  <1> QED
    BY <1>4 DEF n, u

\* The first end of a subnegotiation moves along.
LEMMA FirstBehind ==
  ASSUME NEW s \in Seq(Bytes), NEW t \in Seq(Bytes), NEW i \in Nat \ {0}
  PROVE  /\ Ends(s \o t, Len(s) + i) = {} <=> Ends(t, i) = {}
         /\ Ends(t, i) # {} => First(Ends(s \o t, Len(s) + i)) = Len(s) + First(Ends(t, i))
  <1> DEFINE n == Len(s)
             E == Ends(t, i)
             G == Ends(s \o t, n + i)
  <1>1. n \in Nat /\ s \o t \in Seq(Bytes) /\ n + i \in Nat \ {0}
    BY JoinFacts
  <1>2. G = {n + j : j \in E}
    BY EndsBehind
  <1>3. E \in SUBSET Nat /\ (E # {} => First(E) \in E /\ \A h \in E : First(E) <= h)
    BY EndsFacts
  <1>4. G \in SUBSET Nat /\ (G # {} => First(G) \in G /\ \A h \in G : First(G) <= h)
    BY <1>1, EndsFacts
  <1> HIDE DEF n, E, G
  <1>5. G = {} <=> E = {}
    BY <1>2
  <1>6. ASSUME E # {} PROVE First(G) = n + First(E)
    <2>1. First(E) \in E /\ First(G) \in G
      BY <1>3, <1>4, <1>5, <1>6
    <2>2. PICK j \in E : First(G) = n + j
      BY <1>2, <2>1
    <2>3. n + First(E) \in G
      BY <1>2, <2>1
    <2>4. First(E) <= j /\ First(G) <= n + First(E)
      BY <1>3, <1>4, <1>5, <1>6, <2>3
    <2>5. First(E) \in Nat /\ j \in Nat /\ First(G) \in Nat
      BY <1>3, <1>4, <2>1
    <2> QED
      BY <1>1, <2>2, <2>4, <2>5
  <1> QED
    BY <1>5, <1>6 DEF n, E, G

\* The cases of Heard.
HeardAt(s, g, i) ==
  /\ i > Len(s) => Heard(s, g, i) = Nothing
  /\ i <= Len(s) /\ s[i] # "iac" => Heard(s, g, i) = [g[i+1] EXCEPT !.input = <<s[i]>> \o @]
  /\ i = Len(s) /\ s[i] = "iac" => Heard(s, g, i) = Nothing
  /\ i < Len(s) /\ s[i] = "iac" =>
       /\ s[i+1] = "iac" => Heard(s, g, i) = [g[i+2] EXCEPT !.input = <<"iac">> \o @]
       /\ s[i+1] = "sb" => /\ Ends(s, i + 2) = {} => Heard(s, g, i) = Nothing
                           /\ Ends(s, i + 2) # {} => Heard(s, g, i) = g[First(Ends(s, i + 2)) + 2]
       /\ s[i+1] \in Verbs =>
            /\ i + 2 > Len(s) => Heard(s, g, i) = Nothing
            /\ ~(i + 2 > Len(s)) => Heard(s, g, i) =
                 [g[i+3] EXCEPT !.replies = negotiate(s[i+1], s[i+2]) \o @]
       /\ s[i+1] \notin Verbs \cup {"iac", "sb"} => Heard(s, g, i) = g[i+2]

LEMMA HeardCases ==
  ASSUME NEW s \in Seq(Bytes), NEW g, NEW i \in Nat \ {0}
  PROVE  HeardAt(s, g, i)
  <1>0. Len(s) \in Nat
    OBVIOUS
  <1> DEFINE L == Len(s)
             e == Ends(s, i + 2)
             f == First(e) + 2
             a == s[i]
             b == s[i+1]
             r == negotiate(b, s[i+2])
             H == Heard(s, g, i)
             g1 == g[i+1]
             g2 == g[i+2]
             g3 == g[i+3]
  <1>1. H = IF i > L THEN Nothing
            ELSE IF a # "iac" THEN [g1 EXCEPT !.input = <<a>> \o @]
            ELSE IF i = L THEN Nothing
            ELSE CASE b = "iac" -> [g2 EXCEPT !.input = <<"iac">> \o @]
                   [] b = "sb" -> IF e = {} THEN Nothing ELSE g[f]
                   [] b \in Verbs ->
                        IF i + 2 > L THEN Nothing ELSE [g3 EXCEPT !.replies = r \o @]
                   [] OTHER -> g2
    BY Zenon DEF Heard
  <1>2. L \in Nat
    BY <1>0
  <1> HIDE DEF L, e, f, a, b, r, H, g1, g2, g3
  <1>3. i > L => H = Nothing
    BY <1>1
  <1>4. i <= L /\ a # "iac" => H = [g1 EXCEPT !.input = <<a>> \o @]
    BY <1>1, <1>2
  <1>5. i = L /\ a = "iac" => H = Nothing
    BY <1>1, <1>2
  <1>6. ASSUME i < L, a = "iac"
        PROVE  H = CASE b = "iac" -> [g2 EXCEPT !.input = <<"iac">> \o @]
                     [] b = "sb" -> IF e = {} THEN Nothing ELSE g[f]
                     [] b \in Verbs ->
                          IF i + 2 > L THEN Nothing ELSE [g3 EXCEPT !.replies = r \o @]
                     [] OTHER -> g2
    <2>1. ~(i > L) /\ i # L
      BY <1>2, <1>6
    <2> QED
      BY <1>1, <1>6, <2>1, Zenon
  <1>7. ASSUME i < L, a = "iac"
        PROVE  /\ b = "iac" => H = [g2 EXCEPT !.input = <<"iac">> \o @]
               /\ b = "sb" => (e = {} => H = Nothing) /\ (e # {} => H = g[f])
               /\ b \in Verbs =>
                    /\ i + 2 > L => H = Nothing
                    /\ ~(i + 2 > L) => H = [g3 EXCEPT !.replies = r \o @]
               /\ b \notin Verbs \cup {"iac", "sb"} => H = g2
    <2>1. "iac" \notin Verbs /\ "sb" \notin Verbs /\ "iac" # "sb"
      BY DEF Verbs
    <2> QED
      BY <1>6, <1>7, <2>1
  <1> QED
    BY <1>3, <1>4, <1>5, <1>7 DEF HeardAt, L, e, f, a, b, r, H, g1, g2, g3

\* What is said from a place on does not depend on what stands before it.
LEMMA SaidBehind ==
  ASSUME NEW s \in Seq(Bytes), NEW t \in Seq(Bytes), NEW k \in 1..(Len(t) + 3)
  PROVE  From(s \o t)[Len(s) + k] = From(t)[k]
  <1> DEFINE n == Len(s)
             u == s \o t
             L == Len(t)
             F == From(u)
             G == From(t)
             E == {m \in Nat : \A i \in 1..(L + 3) : i + m > L => F[n + i] = G[i]}
  <1>1. /\ n \in Nat /\ L \in Nat /\ u \in Seq(Bytes) /\ Len(u) = n + L /\ Len(t) = L
        /\ \A i \in 1..L : u[n + i] = t[i]
    BY JoinFacts
  <1>2. \A i \in 1..(Len(u) + 3) : F[i] = Heard(u, F, i)
    BY <1>1, FromUnfolds
  <1>3. \A i \in 1..(L + 3) : G[i] = Heard(t, G, i)
    BY FromUnfolds
  <1>4. \A i \in Nat \ {0} : /\ Ends(u, n + i) = {} <=> Ends(t, i) = {}
                             /\ Ends(t, i) # {} => First(Ends(u, n + i)) = n + First(Ends(t, i))
    BY FirstBehind
  <1> HIDE DEF n, u, F, G, L
  <1>5. ASSUME NEW i \in 1..(L + 3), \A j \in (i+1)..(L + 3) : F[n + j] = G[j]
        PROVE  F[n + i] = G[i]
    <2> DEFINE x == n + i
    <2>1. /\ x \in Nat \ {0} /\ i \in Nat \ {0} /\ x \in 1..(Len(u) + 3) /\ Len(t) = L
          /\ x + 1 = n + (i + 1) /\ x + 2 = n + (i + 2) /\ x + 3 = n + (i + 3)
          /\ i + 1 \in Nat \ {0} /\ i + 2 \in Nat \ {0} /\ i + 3 \in Nat \ {0}
          /\ x > Len(u) <=> i > L
          /\ x = Len(u) <=> i = L
          /\ x < Len(u) <=> i < L
          /\ x <= Len(u) <=> i <= L
          /\ x + 2 > Len(u) <=> i + 2 > L
          /\ i > L \/ i = L \/ i < L
          /\ i < L => i <= L
          /\ i = L => i <= L
      <3> DEFINE M == Len(u)
      <3>1. n \in Nat /\ L \in Nat /\ M = n + L /\ i \in 1..(L + 3) /\ x = n + i /\ Len(t) = L
        BY <1>1
      <3> HIDE DEF M, x
      <3>2. /\ x \in Nat \ {0} /\ i \in Nat \ {0} /\ x \in 1..(M + 3)
            /\ i + 1 \in Nat \ {0} /\ i + 2 \in Nat \ {0} /\ i + 3 \in Nat \ {0}
        BY ONLY <3>1
      <3>3. x + 1 = n + (i + 1) /\ x + 2 = n + (i + 2) /\ x + 3 = n + (i + 3)
        BY ONLY <3>1
      <3>4. /\ x > M <=> i > L
            /\ x = M <=> i = L
            /\ x < M <=> i < L
            /\ x <= M <=> i <= L
            /\ x + 2 > M <=> i + 2 > L
        BY ONLY <3>1
      <3>5. (i > L \/ i = L \/ i < L) /\ (i < L => i <= L) /\ (i = L => i <= L)
        BY ONLY <3>1
      <3> QED
        BY <3>1, <3>2, <3>3, <3>4, <3>5, Zenon DEF M
    <2>2. F[x] = Heard(u, F, x) /\ G[i] = Heard(t, G, i)
      BY <1>2, <1>3, <2>1
    <2>3. /\ i <= L => u[x] = t[i] /\ F[x + 1] = G[i + 1]
          /\ i < L => u[x + 1] = t[i + 1] /\ F[x + 2] = G[i + 2]
          /\ ~(i + 2 > L) => u[x + 2] = t[i + 2] /\ F[x + 3] = G[i + 3]
      BY <1>1, <1>5, <2>1
    <2>4. /\ Ends(u, x + 2) = {} <=> Ends(t, i + 2) = {}
          /\ Ends(t, i + 2) # {} => F[First(Ends(u, x + 2)) + 2] = G[First(Ends(t, i + 2)) + 2]
      <3>1. /\ Ends(u, x + 2) = {} <=> Ends(t, i + 2) = {}
            /\ Ends(t, i + 2) # {} => First(Ends(u, x + 2)) = n + First(Ends(t, i + 2))
        BY <1>4, <2>1
      <3>2. ASSUME Ends(t, i + 2) # {}
            PROVE  F[First(Ends(u, x + 2)) + 2] = G[First(Ends(t, i + 2)) + 2]
        <4> DEFINE f == First(Ends(t, i + 2))
        <4>1. f \in (i + 2)..(L - 1)
          BY <2>1, <3>2, EndsFacts
        <4>2. First(Ends(u, x + 2)) = n + f
          BY <3>1, <3>2
        <4> HIDE DEF f
        <4>3. f + 2 \in (i+1)..(L + 3) /\ (n + f) + 2 = n + (f + 2)
          BY <1>1, <4>1
        <4>4. F[(n + f) + 2] = G[f + 2]
          BY <1>5, <4>3
        <4> QED
          BY <4>2, <4>4 DEF f
      <3> QED
        BY <3>1, <3>2
    <2> HIDE DEF x
    <2>9. HeardAt(u, F, x)
      BY <1>1, <2>1, HeardCases, Zenon
    <2>10. HeardAt(t, G, i)
      BY <2>1, HeardCases, Zenon
    <2>5. CASE i > L
      <3>1. Heard(u, F, x) = Nothing
        BY <2>1, <2>5, <2>9, Zenon DEF HeardAt
      <3>2. Heard(t, G, i) = Nothing
        BY <2>1, <2>5, <2>10, Zenon DEF HeardAt
      <3> QED
        BY <2>2, <3>1, <3>2 DEF x
    <2>6. CASE i <= L /\ t[i] # "iac"
      <3>1. Heard(u, F, x) = [F[x + 1] EXCEPT !.input = <<u[x]>> \o @]
        BY <2>1, <2>3, <2>6, <2>9, Zenon DEF HeardAt
      <3>2. Heard(t, G, i) = [G[i + 1] EXCEPT !.input = <<t[i]>> \o @]
        BY <2>1, <2>6, <2>10, Zenon DEF HeardAt
      <3> QED
        BY <2>2, <2>3, <2>6, <3>1, <3>2, Zenon DEF x
    <2>7. CASE i = L /\ t[i] = "iac"
      <3>1. Heard(u, F, x) = Nothing
        BY <2>1, <2>3, <2>7, <2>9, Zenon DEF HeardAt
      <3>2. Heard(t, G, i) = Nothing
        BY <2>1, <2>7, <2>10, Zenon DEF HeardAt
      <3> QED
        BY <2>2, <3>1, <3>2 DEF x
    <2>8. CASE i < L /\ t[i] = "iac"
      <3>0. /\ x < Len(u) /\ i < Len(t) /\ u[x] = "iac" /\ u[x + 1] = t[i + 1]
            /\ F[x + 2] = G[i + 2]
        BY <2>1, <2>3, <2>8
      <3>1. CASE t[i + 1] = "iac"
        <4>1. Heard(u, F, x) = [F[x + 2] EXCEPT !.input = <<"iac">> \o @]
          BY <2>1, <3>0, <3>1, <2>9, Zenon DEF HeardAt
        <4>2. Heard(t, G, i) = [G[i + 2] EXCEPT !.input = <<"iac">> \o @]
          BY <2>1, <2>8, <3>0, <3>1, <2>10, Zenon DEF HeardAt
        <4> QED
          BY <2>2, <3>0, <4>1, <4>2, Zenon DEF x
      <3>2. CASE t[i + 1] = "sb"
        <4>1. CASE Ends(t, i + 2) = {}
          <5>1. Heard(u, F, x) = Nothing
            BY <2>1, <2>4, <3>0, <3>2, <4>1, <2>9, Zenon DEF HeardAt
          <5>2. Heard(t, G, i) = Nothing
            BY <2>1, <2>8, <3>0, <3>2, <4>1, <2>10, Zenon DEF HeardAt
          <5> QED
            BY <2>2, <5>1, <5>2 DEF x
        <4>2. CASE Ends(t, i + 2) # {}
          <5>1. Heard(u, F, x) = F[First(Ends(u, x + 2)) + 2]
            BY <2>1, <2>4, <3>0, <3>2, <4>2, <2>9, Zenon DEF HeardAt
          <5>2. Heard(t, G, i) = G[First(Ends(t, i + 2)) + 2]
            BY <2>1, <2>8, <3>0, <3>2, <4>2, <2>10, Zenon DEF HeardAt
          <5> QED
            BY <2>2, <2>4, <4>2, <5>1, <5>2 DEF x
        <4> QED
          BY <4>1, <4>2
      <3>3. CASE t[i + 1] \in Verbs
        <4>1. CASE i + 2 > L
          <5>1. Heard(u, F, x) = Nothing
            BY <2>1, <3>0, <3>3, <4>1, <2>9, Zenon DEF HeardAt
          <5>2. Heard(t, G, i) = Nothing
            BY <2>1, <2>8, <3>0, <3>3, <4>1, <2>10, Zenon DEF HeardAt
          <5> QED
            BY <2>2, <5>1, <5>2 DEF x
        <4>2. CASE ~(i + 2 > L)
          <5>1. Heard(u, F, x) = [F[x + 3] EXCEPT !.replies = negotiate(u[x + 1], u[x + 2]) \o @]
            BY <2>1, <3>0, <3>3, <4>2, <2>9, Zenon DEF HeardAt
          <5>2. Heard(t, G, i) = [G[i + 3] EXCEPT !.replies = negotiate(t[i + 1], t[i + 2]) \o @]
            BY <2>1, <2>8, <3>0, <3>3, <4>2, <2>10, Zenon DEF HeardAt
          <5> QED
            BY <2>2, <2>3, <3>0, <4>2, <5>1, <5>2, Zenon DEF x
        <4> QED
          BY <4>1, <4>2
      <3>4. CASE t[i + 1] \notin Verbs \cup {"iac", "sb"}
        <4>1. Heard(u, F, x) = F[x + 2]
          BY <2>1, <3>0, <3>4, <2>9, Zenon DEF HeardAt
        <4>2. Heard(t, G, i) = G[i + 2]
          BY <2>1, <2>8, <3>0, <3>4, <2>10, Zenon DEF HeardAt
        <4> QED
          BY <2>2, <3>0, <4>1, <4>2 DEF x
      <3> QED
        BY <3>1, <3>2, <3>3, <3>4
    <2> QED
      BY <2>1, <2>5, <2>6, <2>7, <2>8
  <1>6. 0 \in E
    <2> SUFFICES ASSUME NEW i \in 1..(L + 3), i + 0 > L PROVE F[n + i] = G[i]
      OBVIOUS
    <2>1. i > L /\ i \in Nat \ {0} /\ n + i \in Nat \ {0} /\ n + i > Len(u) /\ n + i \in 1..(Len(u) + 3)
      BY <1>1
    <2>2. HeardAt(u, F, n + i) /\ HeardAt(t, G, i)
      BY <1>1, <2>1, HeardCases, Zenon
    <2>3. Heard(u, F, n + i) = Nothing /\ Heard(t, G, i) = Nothing
      BY <1>1, <2>1, <2>2, Zenon DEF HeardAt
    <2> QED
      BY <1>2, <1>3, <2>1, <2>3
  <1>7. ASSUME NEW m \in Nat, m \in E PROVE m + 1 \in E
    <2> SUFFICES ASSUME NEW i \in 1..(L + 3), i + (m + 1) > L PROVE F[n + i] = G[i]
      OBVIOUS
    <2>1. \A j \in (i+1)..(L + 3) : j \in 1..(L + 3) /\ j + m > L
      BY <1>1
    <2>2. \A j \in (i+1)..(L + 3) : F[n + j] = G[j]
      BY <1>7, <2>1
    <2> QED
      BY <1>5, <2>2
  <1> HIDE DEF E
  <1>8. L \in E
    BY <1>1, <1>6, <1>7, CountUp
  <1>9. k + L > L
    BY <1>1
  <1>10. F[n + k] = G[k]
    BY <1>1, <1>8, <1>9 DEF E
  <1> QED
    BY <1>10 DEF n, u, F, G

-----------------------------------------------------------------------------
(* Says, one command at a time.                                            *)

Replies == Seq([verb : Verbs, opt : Bytes])
Speech == [input : Seq(Bytes), replies : Replies]

\* First a, then r.
Plus(a, r) == [input |-> a.input \o r.input, replies |-> a.replies \o r.replies]
Datum(b) == [input |-> <<b>>, replies |-> <<>>]
Answer(v, b) == [input |-> <<>>, replies |-> negotiate(v, b)]

LEMMA OneByte == \A S : \A b \in S : <<b>> \in Seq(S)
  <1> SUFFICES ASSUME NEW S, NEW b \in S PROVE <<b>> \in Seq(S)
    OBVIOUS
  <1> QED
    OBVIOUS

LEMMA NegotiateType == \A v, b \in Bytes : negotiate(v, b) \in Replies
  <1> SUFFICES ASSUME NEW v \in Bytes, NEW b \in Bytes PROVE negotiate(v, b) \in Replies
    OBVIOUS
  <1>1. /\ [verb |-> "wont", opt |-> b] \in [verb : Verbs, opt : Bytes]
        /\ [verb |-> "dont", opt |-> b] \in [verb : Verbs, opt : Bytes]
    BY DEF Verbs
  <1> DEFINE x == [verb |-> "wont", opt |-> b]
             y == [verb |-> "dont", opt |-> b]
             R == [verb : Verbs, opt : Bytes]
  <1>2. negotiate(v, b) \in {<<x>>, <<y>>, <<>>}
    BY DEF negotiate
  <1>3. x \in R /\ y \in R
    BY <1>1
  <1> HIDE DEF x, y, R
  <1>4. <<x>> \in Seq(R) /\ <<y>> \in Seq(R) /\ <<>> \in Seq(R)
    BY <1>3
  <1> QED
    BY <1>2, <1>4 DEF Replies, R

LEMMA SpeechFacts ==
  /\ Nothing \in Speech
  /\ \A b \in Bytes : Datum(b) \in Speech
  /\ \A v, b \in Bytes : Answer(v, b) \in Speech
  <1>1. <<>> \in Seq(Bytes) /\ <<>> \in Replies
    BY DEF Replies
  <1>2. \A b \in Bytes : <<b>> \in Seq(Bytes)
    BY OneByte, Zenon
  <1> QED
    BY <1>1, <1>2, NegotiateType DEF Nothing, Datum, Answer, Speech

LEMMA PlusFacts ==
  ASSUME NEW a \in Speech, NEW b \in Speech, NEW c \in Speech
  PROVE  /\ Plus(a, b) \in Speech
         /\ Plus(Plus(a, b), c) = Plus(a, Plus(b, c))
         /\ Plus(a, Nothing) = a /\ Plus(Nothing, a) = a
  <1> DEFINE R == [verb : Verbs, opt : Bytes]
  <1>1. /\ a.input \in Seq(Bytes) /\ b.input \in Seq(Bytes) /\ c.input \in Seq(Bytes)
        /\ a.replies \in Seq(R) /\ b.replies \in Seq(R) /\ c.replies \in Seq(R)
        /\ a = [input |-> a.input, replies |-> a.replies]
    BY DEF Speech, Replies
  <1> HIDE DEF R
  <1> DEFINE ai == a.input
             bi == b.input
             ci == c.input
             ar == a.replies
             br == b.replies
             cr == c.replies
  <1>2. /\ ai \o bi \in Seq(Bytes) /\ (ai \o bi) \o ci = ai \o (bi \o ci)
        /\ ai \o <<>> = ai /\ <<>> \o ai = ai
    <2>1. ai \in Seq(Bytes) /\ bi \in Seq(Bytes) /\ ci \in Seq(Bytes)
      BY <1>1
    <2> HIDE DEF ai, bi, ci
    <2> QED
      BY <2>1, ConcatAssociative, ConcatEmptySeq, ConcatProperties
  <1>3. /\ ar \o br \in Seq(R) /\ (ar \o br) \o cr = ar \o (br \o cr)
        /\ ar \o <<>> = ar /\ <<>> \o ar = ar
    <2>1. ar \in Seq(R) /\ br \in Seq(R) /\ cr \in Seq(R)
      BY <1>1
    <2> HIDE DEF ar, br, cr
    <2> QED
      BY <2>1, ConcatAssociative, ConcatEmptySeq, ConcatProperties
  <1>4. Plus(a, b) \in Speech
    BY <1>2, <1>3 DEF Plus, Speech, Replies, R
  <1>5. Plus(Plus(a, b), c) = Plus(a, Plus(b, c))
    BY <1>2, <1>3, Zenon DEF Plus
  <1>6. Plus(a, Nothing) = a /\ Plus(Nothing, a) = a
    BY <1>1, <1>2, <1>3 DEF Plus, Nothing
  <1> QED
    BY <1>4, <1>5, <1>6

\* What a stream says has the type it should, from any place on.
LEMMA SaidType ==
  ASSUME NEW s \in Seq(Bytes), NEW k \in 1..(Len(s) + 3)
  PROVE  From(s)[k] \in Speech
  <1> DEFINE F == From(s)
             L == Len(s)
             E == {m \in Nat : \A i \in 1..(L + 3) : i + m > L => F[i] \in Speech}
  <1>1. L \in Nat /\ \A i \in 1..(L + 3) : F[i] = Heard(s, F, i) /\ HeardAt(s, F, i)
    <2>1. L \in Nat /\ \A i \in 1..(L + 3) : F[i] = Heard(s, F, i) /\ i \in Nat \ {0}
      BY FromUnfolds
    <2> QED
      BY <2>1, HeardCases, Zenon
  <1>2. L = Len(s)
    OBVIOUS
  <1>a. /\ Nothing \in Speech
        /\ \A a \in Speech, b \in Bytes : [a EXCEPT !.input = <<b>> \o @] \in Speech
        /\ \A a \in Speech, v, b \in Bytes : [a EXCEPT !.replies = negotiate(v, b) \o @] \in Speech
    <2>1. Nothing \in Speech
      BY SpeechFacts
    <2>2. ASSUME NEW a \in Speech, NEW b \in Bytes PROVE [a EXCEPT !.input = <<b>> \o @] \in Speech
      <3>1. a.input \in Seq(Bytes) /\ <<b>> \in Seq(Bytes)
        BY DEF Speech
      <3>2. <<b>> \o a.input \in Seq(Bytes)
        BY <3>1, ConcatProperties, Zenon
      <3> QED
        BY <3>2 DEF Speech
    <2>3. ASSUME NEW a \in Speech, NEW v \in Bytes, NEW b \in Bytes
          PROVE  [a EXCEPT !.replies = negotiate(v, b) \o @] \in Speech
      <3>1. a.replies \in Replies /\ negotiate(v, b) \in Replies
        BY NegotiateType DEF Speech
      <3>2. negotiate(v, b) \o a.replies \in Replies
        BY <3>1, ConcatProperties, Zenon DEF Replies
      <3> QED
        BY <3>2 DEF Speech
    <2> QED
      BY <2>1, <2>2, <2>3
  <1> HIDE DEF F, L
  <1>3. ASSUME NEW i \in 1..(L + 3), \A j \in (i+1)..(L + 3) : F[j] \in Speech
        PROVE  F[i] \in Speech
    <2>1. F[i] = Heard(s, F, i) /\ HeardAt(s, F, i) /\ i \in Nat \ {0}
      BY <1>1
    <2>2. CASE i > L
      BY <1>a, <1>2, <2>1, <2>2, Zenon DEF HeardAt
    <2>3. CASE i <= L
      <3>1. /\ F[i+1] \in Speech /\ F[i+2] \in Speech /\ F[i+3] \in Speech
            /\ s[i] \in Bytes /\ (i < L => s[i+1] \in Bytes) /\ (~(i + 2 > L) => s[i+2] \in Bytes)
            /\ i < L \/ i = L
        BY <1>1, <1>2, <1>3, <2>3
      <3>2. ASSUME Ends(s, i + 2) # {} PROVE F[First(Ends(s, i + 2)) + 2] \in Speech
        <4> DEFINE f == First(Ends(s, i + 2))
        <4>1. f \in (i + 2)..(L - 1)
          BY <1>2, <2>1, <3>2, EndsFacts
        <4> HIDE DEF f
        <4>2. f + 2 \in (i+1)..(L + 3)
          BY <1>1, <4>1
        <4>3. F[f + 2] \in Speech
          BY <1>3, <4>2
        <4> QED
          BY <4>3 DEF f
      <3>3. CASE s[i] # "iac"
        <4>1. F[i] = [F[i+1] EXCEPT !.input = <<s[i]>> \o @]
          BY <1>2, <2>1, <2>3, <3>3, Zenon DEF HeardAt
        <4> QED
          BY <1>a, <3>1, <4>1, Zenon
      <3>4. CASE s[i] = "iac" /\ i = L
        BY <1>a, <1>2, <2>1, <3>4, Zenon DEF HeardAt
      <3>5. CASE s[i] = "iac" /\ i < L
        <4>1. CASE s[i+1] = "iac"
          <5>1. F[i] = [F[i+2] EXCEPT !.input = <<"iac">> \o @]
            BY <1>2, <2>1, <3>5, <4>1, Zenon DEF HeardAt
          <5>2. "iac" \in Bytes
            BY <3>1, <3>5
          <5> QED
            BY <1>a, <3>1, <5>1, <5>2, Zenon
        <4>2. CASE s[i+1] = "sb"
          BY <1>a, <1>2, <2>1, <3>1, <3>2, <3>5, <4>2, Zenon DEF HeardAt
        <4>3. CASE s[i+1] \in Verbs
          <5>1. CASE i + 2 > L
            BY <1>a, <1>2, <2>1, <3>5, <4>3, <5>1, Zenon DEF HeardAt
          <5>2. CASE ~(i + 2 > L)
            <6>1. F[i] = [F[i+3] EXCEPT !.replies = negotiate(s[i+1], s[i+2]) \o @]
              BY <1>2, <2>1, <3>5, <4>3, <5>2, Zenon DEF HeardAt
            <6>2. s[i+1] \in Bytes /\ s[i+2] \in Bytes /\ F[i+3] \in Speech
              BY <3>1, <3>5, <5>2, Zenon
            <6>3. [F[i+3] EXCEPT !.replies = negotiate(s[i+1], s[i+2]) \o @] \in Speech
              BY <1>a, <6>2, Zenon
            <6> QED
              BY <6>1, <6>3, Zenon
          <5> QED
            BY <5>1, <5>2
        <4>4. CASE s[i+1] \notin Verbs \cup {"iac", "sb"}
          BY <1>a, <1>2, <2>1, <3>1, <3>5, <4>4, Zenon DEF HeardAt
        <4> QED
          BY <4>1, <4>2, <4>3, <4>4
      <3> QED
        BY <3>1, <3>3, <3>4, <3>5
    <2> QED
      BY <1>1, <2>2, <2>3
  <1>4. 0 \in E
    <2> SUFFICES ASSUME NEW i \in 1..(L + 3), i + 0 > L PROVE F[i] \in Speech
      OBVIOUS
    <2>1. i > Len(s) /\ F[i] = Heard(s, F, i) /\ HeardAt(s, F, i)
      BY <1>1, <1>2
    <2> QED
      BY <1>a, <2>1, Zenon DEF HeardAt
  <1>5. ASSUME NEW m \in Nat, m \in E PROVE m + 1 \in E
    <2> SUFFICES ASSUME NEW i \in 1..(L + 3), i + (m + 1) > L PROVE F[i] \in Speech
      OBVIOUS
    <2>1. \A j \in (i+1)..(L + 3) : j \in 1..(L + 3) /\ j + m > L
      BY <1>1
    <2>2. \A j \in (i+1)..(L + 3) : F[j] \in Speech
      BY <1>5, <2>1
    <2> QED
      BY <1>3, <2>2
  <1> HIDE DEF E
  <1>6. L \in E
    BY <1>1, <1>4, <1>5, CountUp
  <1>7. k + L > L /\ k \in 1..(L + 3)
    BY <1>1, <1>2
  <1>8. F[k] \in Speech
    BY <1>6, <1>7 DEF E
  <1> QED
    BY <1>8 DEF F

LEMMA SaysType == \A s \in Seq(Bytes) : Says(s) \in Speech
  <1> SUFFICES ASSUME NEW s \in Seq(Bytes) PROVE Says(s) \in Speech
    OBVIOUS
  <1>1. 1 \in 1..(Len(s) + 3)
    OBVIOUS
  <1> QED
    BY <1>1, FromUnfolds, SaidType

LEMMA PlusOne ==
  ASSUME NEW r \in Speech, NEW b \in Bytes, NEW v \in Bytes
  PROVE  /\ [r EXCEPT !.input = <<b>> \o @] = Plus(Datum(b), r)
         /\ [r EXCEPT !.replies = negotiate(v, b) \o @] = Plus(Answer(v, b), r)
  <1>1. /\ r = [input |-> r.input, replies |-> r.replies]
        /\ r.input \in Seq(Bytes) /\ r.replies \in Replies
    BY DEF Speech
  <1>2. <<>> \o r.input = r.input /\ <<>> \o r.replies = r.replies
    BY <1>1, ConcatEmptySeq DEF Replies
  <1> DEFINE n == negotiate(v, b)
             m == <<b>>
  <1>3. Datum(b).input = m /\ Datum(b).replies = <<>> /\ Answer(v, b).input = <<>> /\ Answer(v, b).replies = n
    BY DEF Datum, Answer
  <1> HIDE DEF n, m
  <1>4. [r EXCEPT !.input = m \o @] = Plus(Datum(b), r)
    <2> DEFINE q == m \o r.input
    <2>1. Plus(Datum(b), r) = [input |-> q, replies |-> r.replies]
      BY <1>2, <1>3, Zenon DEF Plus
    <2>2. [r EXCEPT !.input = m \o @] = [r EXCEPT !.input = q]
      OBVIOUS
    <2> HIDE DEF q
    <2>3. [r EXCEPT !.input = q] = [input |-> q, replies |-> r.replies]
      BY <1>1
    <2> QED
      BY <2>1, <2>2, <2>3
  <1>5. [r EXCEPT !.replies = n \o @] = Plus(Answer(v, b), r)
    <2> DEFINE q == n \o r.replies
    <2>1. Plus(Answer(v, b), r) = [input |-> r.input, replies |-> q]
      BY <1>2, <1>3, Zenon DEF Plus
    <2>2. [r EXCEPT !.replies = n \o @] = [r EXCEPT !.replies = q]
      OBVIOUS
    <2> HIDE DEF q
    <2>3. [r EXCEPT !.replies = q] = [input |-> r.input, replies |-> q]
      BY <1>1
    <2> QED
      BY <2>1, <2>2, <2>3
  <1> QED
    BY <1>4, <1>5 DEF n, m

\* The first command of a stream that begins with p.
Ahead(p, t, s) ==
  /\ s \in Seq(Bytes) /\ Len(s) = Len(p) + Len(t) /\ Len(p) \in Nat \ {0} /\ Len(t) \in Nat
  /\ \A i \in 1..Len(p) : s[i] = p[i]
  /\ Says(s) = Heard(s, From(s), 1) /\ HeardAt(s, From(s), 1)
  /\ From(s)[Len(p) + 1] = Says(t) /\ Says(t) \in Speech

LEMMA SaysAhead ==
  ASSUME NEW p \in Seq(Bytes), p # <<>>, NEW t \in Seq(Bytes)
  PROVE  Ahead(p, t, p \o t)
  <1> DEFINE s == p \o t
  <1>1. /\ s \in Seq(Bytes) /\ Len(s) = Len(p) + Len(t) /\ Len(p) \in Nat \ {0} /\ Len(t) \in Nat
        /\ \A i \in 1..Len(p) : s[i] = p[i]
    BY JoinFacts
  <1>2. From(s)[Len(p) + 1] = From(t)[1]
    <2>1. 1 \in 1..(Len(t) + 3)
      BY <1>1
    <2> QED
      BY <2>1, SaidBehind, Zenon
  <1>3. From(t)[1] = Says(t) /\ Says(t) \in Speech
    BY FromUnfolds, SaysType, Zenon
  <1> HIDE DEF s
  <1>4. 1 \in 1..(Len(s) + 3) /\ 1 \in Nat \ {0}
    BY <1>1
  <1>5. Says(s) = Heard(s, From(s), 1)
    BY <1>1, <1>4, FromUnfolds
  <1>6. HeardAt(s, From(s), 1)
    BY <1>1, <1>4, HeardCases, Zenon
  <1> QED
    BY <1>1, <1>2, <1>3, <1>5, <1>6, Zenon DEF Ahead, s

LEMMA SaysData ==
  ASSUME NEW b \in Bytes, b # "iac", NEW t \in Seq(Bytes)
  PROVE  Says(<<b>> \o t) = Plus(Datum(b), Says(t))
  <1> DEFINE p == <<b>>
             s == p \o t
  <1>1. p \in Seq(Bytes) /\ p # <<>> /\ Len(p) = 1 /\ p[1] = b /\ 1 \in 1..1
    OBVIOUS
  <1> HIDE DEF p
  <1>2. /\ s[1] = b /\ Len(s) = 1 + Len(t) /\ Len(t) \in Nat /\ Says(s) = Heard(s, From(s), 1)
        /\ HeardAt(s, From(s), 1) /\ From(s)[1 + 1] = Says(t) /\ Says(t) \in Speech
    <2>1. Ahead(p, t, s)
      BY <1>1, SaysAhead, Zenon
    <2> HIDE DEF s
    <2> QED
      BY <1>1, <2>1 DEF Ahead
  <1> HIDE DEF s
  <1>3. 1 <= Len(s)
    BY <1>2
  <1>4. Says(s) = [From(s)[1 + 1] EXCEPT !.input = <<s[1]>> \o @]
    BY <1>2, <1>3, Zenon DEF HeardAt
  <1>5. Says(s) = [Says(t) EXCEPT !.input = <<b>> \o @]
    BY <1>2, <1>4, Zenon
  <1>6. Says(s) = Plus(Datum(b), Says(t))
    BY <1>2, <1>5, PlusOne, Zenon
  <1> QED
    BY <1>6 DEF s, p

LEMMA SaysTwo ==
  ASSUME NEW x \in Bytes, NEW t \in Seq(Bytes)
  PROVE  LET s == <<"iac", x>> \o t IN
         /\ x = "iac" => Says(s) = Plus(Datum("iac"), Says(t))
         /\ x \notin Verbs \cup {"iac", "sb"} => Says(s) = Says(t)
  <1> DEFINE a == "iac"
             p == <<a, x>>
             s == p \o t
  <1>0. a = "iac" /\ a \in Bytes
    BY ByteFacts
  <1> HIDE DEF a
  <1>1. p \in Seq(Bytes) /\ p # <<>> /\ Len(p) = 2 /\ p[1] = a /\ p[2] = x /\ 1 \in 1..2 /\ 2 \in 1..2
    BY <1>0
  <1> HIDE DEF p
  <1>2. /\ s[1] = a /\ s[2] = x /\ Len(s) = 2 + Len(t) /\ Len(t) \in Nat /\ Says(s) = Heard(s, From(s), 1)
        /\ HeardAt(s, From(s), 1) /\ From(s)[2 + 1] = Says(t) /\ Says(t) \in Speech
    <2>1. Ahead(p, t, s)
      BY <1>1, SaysAhead, Zenon
    <2> HIDE DEF s
    <2> QED
      BY <1>1, <2>1 DEF Ahead
  <1> HIDE DEF s
  <1>3. 1 < Len(s) /\ 1 + 1 = 2 /\ 1 + 2 = 3 /\ 2 + 1 = 3
    BY <1>2
  <1>4. ASSUME x = "iac" PROVE Says(s) = Plus(Datum(a), Says(t))
    <2>1. Says(s) = [From(s)[1 + 2] EXCEPT !.input = <<"iac">> \o @]
      BY <1>0, <1>2, <1>3, <1>4, Zenon DEF HeardAt
    <2>2. Says(s) = [Says(t) EXCEPT !.input = <<a>> \o @]
      BY <1>0, <1>2, <1>3, <2>1, Zenon
    <2> QED
      BY <1>0, <1>2, <2>2, PlusOne, Zenon
  <1>5. ASSUME x \notin Verbs \cup {"iac", "sb"} PROVE Says(s) = Says(t)
    <2>1. Says(s) = From(s)[1 + 2]
      BY <1>0, <1>2, <1>3, <1>5, Zenon DEF HeardAt
    <2> QED
      BY <1>2, <1>3, <2>1
  <1> QED
    BY <1>0, <1>4, <1>5 DEF s, p

LEMMA SaysOption ==
  ASSUME NEW v \in Verbs, NEW o \in Bytes, NEW t \in Seq(Bytes)
  PROVE  Says(<<"iac", v, o>> \o t) = Plus(Answer(v, o), Says(t))
  <1> DEFINE a == "iac"
             p == <<a, v, o>>
             s == p \o t
  <1>0. a = "iac" /\ a \in Bytes /\ v \in Bytes
    BY ByteFacts
  <1> HIDE DEF a
  <1>1. /\ p \in Seq(Bytes) /\ p # <<>> /\ Len(p) = 3 /\ p[1] = a /\ p[2] = v /\ p[3] = o
        /\ 1 \in 1..3 /\ 2 \in 1..3 /\ 3 \in 1..3
    BY <1>0
  <1> HIDE DEF p
  <1>2. /\ s[1] = a /\ s[2] = v /\ s[3] = o /\ Len(s) = 3 + Len(t) /\ Len(t) \in Nat
        /\ Says(s) = Heard(s, From(s), 1)
        /\ HeardAt(s, From(s), 1) /\ From(s)[3 + 1] = Says(t) /\ Says(t) \in Speech
    <2>1. Ahead(p, t, s)
      BY <1>1, SaysAhead, Zenon
    <2> HIDE DEF s
    <2> QED
      BY <1>1, <2>1 DEF Ahead
  <1> HIDE DEF s
  <1>3. 1 < Len(s) /\ 1 + 1 = 2 /\ 1 + 2 = 3 /\ 3 + 1 = 1 + 3 /\ ~(1 + 2 > Len(s))
    BY <1>2
  <1>4. Says(s) = [From(s)[1 + 3] EXCEPT !.replies = negotiate(s[1 + 1], s[1 + 2]) \o @]
    BY <1>0, <1>2, <1>3, Zenon DEF HeardAt
  <1>5. Says(s) = [Says(t) EXCEPT !.replies = negotiate(v, o) \o @]
    BY <1>2, <1>3, <1>4, Zenon
  <1>6. Says(s) = Plus(Answer(v, o), Says(t))
    BY <1>0, <1>2, <1>5, PlusOne, Zenon
  <1> QED
    BY <1>0, <1>6 DEF s, p

-----------------------------------------------------------------------------
(* Subnegotiations.                                                        *)

LEMMA Parity == /\ 0 % 2 = 0
                /\ \A m \in Nat : /\ (m % 2 = 0) <=> ((m + 1) % 2 # 0)
                                  /\ ((m + 1) + 1) % 2 = m % 2
  OBVIOUS

\* A body that has not ended: its IACs are paired, or have their byte.
Quiet(body) == /\ body \in Seq(Bytes) /\ Before(body, 1, Len(body) + 1) % 2 = 0
               /\ Ends(body, 1) = {}

LEMMA SameBefore ==
  ASSUME NEW s, NEW t, NEW i \in Nat, NEW j \in Nat, \A h \in i..(j-1) : s[h] = t[h]
  PROVE  Before(s, i, j) = Before(t, i, j)
  <1>1. \A h \in i..(j-1) : s[h] = "iac" <=> t[h] = "iac"
    OBVIOUS
  <1>2. \A h \in i..(j-1) : \A g \in h..(j-1) : g \in i..(j-1)
    OBVIOUS
  <1>3. {h \in i..(j-1) : \A g \in h..(j-1) : s[g] = "iac"} = {h \in i..(j-1) : \A g \in h..(j-1) : t[g] = "iac"}
    BY <1>1, <1>2
  <1> QED
    BY <1>3, Zenon DEF Before

LEMMA Grown ==
  ASSUME NEW s \in Seq(Bytes), NEW b \in Bytes
  PROVE  LET u == s \o <<b>> IN
         /\ u \in Seq(Bytes) /\ Len(s) \in Nat /\ Len(u) = Len(s) + 1 /\ u[Len(s) + 1] = b
         /\ \A i \in 1..Len(s) : u[i] = s[i]
         /\ Before(u, 1, Len(s) + 1) = Before(s, 1, Len(s) + 1)
         /\ Before(s, 1, Len(s) + 1) \in Nat
         /\ b # "iac" => Before(u, 1, Len(u) + 1) = 0
         /\ b = "iac" => Before(u, 1, Len(u) + 1) = Before(s, 1, Len(s) + 1) + 1
         /\ \A j \in Ends(u, 1) : j \in Ends(s, 1) \/ (j = Len(s) /\ j \in 1..Len(s) /\ s[j] = "iac" /\ b = "se"
                                                       /\ Before(s, 1, j) % 2 = 0)
  <1> DEFINE u == s \o <<b>>
             L == Len(s)
  <1>1. /\ u \in Seq(Bytes) /\ L \in Nat /\ Len(u) = L + 1 /\ u[L + 1] = b
        /\ \A i \in 1..L : u[i] = s[i]
    OBVIOUS
  <1> HIDE DEF u, L
  <1>2. \A j \in 1..(L + 1) : Before(u, 1, j) = Before(s, 1, j)
    <2> SUFFICES ASSUME NEW j \in 1..(L + 1) PROVE Before(u, 1, j) = Before(s, 1, j)
      OBVIOUS
    <2>1. j \in Nat /\ 1 \in Nat /\ \A h \in 1..(j-1) : h \in 1..L
      BY <1>1
    <2>2. \A h \in 1..(j-1) : u[h] = s[h]
      BY <1>1, <2>1
    <2> QED
      BY <2>1, <2>2, SameBefore
  <1>3. Before(u, 1, L + 1) = Before(s, 1, L + 1) /\ Before(s, 1, L + 1) \in Nat
    <2>1. L + 1 \in 1..(L + 1) /\ L + 1 \in Nat /\ 1 \in Nat
      BY <1>1
    <2> QED
      BY <1>2, <2>1, BeforeFacts
  <1>4. /\ b # "iac" => Before(u, 1, Len(u) + 1) = 0
        /\ b = "iac" => Before(u, 1, Len(u) + 1) = Before(s, 1, L + 1) + 1
    <2> DEFINE m == Len(u)
    <2>1. m \in Nat /\ 1 \in Nat /\ 1 <= m /\ u[m] = b /\ m = L + 1
      BY <1>1
    <2> HIDE DEF m
    <2>2. /\ u[m] # "iac" => Before(u, 1, m + 1) = 0
          /\ u[m] = "iac" => Before(u, 1, m + 1) = Before(u, 1, m) + 1
      BY <2>1, BeforeFacts, Zenon
    <2> QED
      BY <1>3, <2>1, <2>2 DEF m
  <1>5. ASSUME NEW j \in Ends(u, 1)
        PROVE  j \in Ends(s, 1) \/ (j = L /\ j \in 1..L /\ s[j] = "iac" /\ b = "se" /\ Before(s, 1, j) % 2 = 0)
    <2>1. j \in 1..(Len(u) - 1) /\ u[j] = "iac" /\ u[j+1] = "se" /\ Before(u, 1, j) % 2 = 0
      BY DEF Ends
    <2>2. j \in 1..L /\ j \in 1..(L + 1) /\ (j # L => j \in 1..(L - 1) /\ j + 1 \in 1..L)
      BY <1>1, <2>1
    <2>3. s[j] = "iac" /\ Before(s, 1, j) % 2 = 0
      BY <1>1, <1>2, <2>1, <2>2
    <2>4. CASE j = L
      BY <1>1, <2>1, <2>2, <2>3, <2>4
    <2>5. CASE j # L
      <3>1. s[j+1] = "se" /\ j \in 1..(Len(s) - 1)
        BY <1>1, <2>1, <2>2, <2>5 DEF L
      <3> QED
        BY <2>3, <3>1 DEF Ends
    <2> QED
      BY <2>4, <2>5
  <1> QED
    BY <1>1, <1>3, <1>4, <1>5 DEF u, L

LEMMA QuietStart == Quiet(<<>>)
  <1> DEFINE s == <<>>
  <1>1. s \in Seq(Bytes) /\ Len(s) = 0
    OBVIOUS
  <1> HIDE DEF s
  <1>2. Ends(s, 1) = {}
    BY <1>1 DEF Ends
  <1>3. Before(s, 1, Len(s) + 1) = 0
    <2>1. 1 \in Nat /\ 1 >= 1 /\ Len(s) + 1 = 1
      BY <1>1
    <2>2. Before(s, 1, 1) = 0
      BY <2>1, BeforeFacts
    <2> QED
      BY <2>1, <2>2
  <1> QED
    BY <1>1, <1>2, <1>3, Parity DEF Quiet, s

LEMMA QuietGrows ==
  ASSUME NEW s, Quiet(s), NEW b \in Bytes
  PROVE  /\ b # "iac" => Quiet(s \o <<b>>)
         /\ b = "iac" => /\ s \o <<b>> \in Seq(Bytes) /\ Ends(s \o <<b>>, 1) = {}
                         /\ Before(s \o <<b>>, 1, Len(s \o <<b>>) + 1) % 2 # 0
  <1> DEFINE u == s \o <<b>>
             B == Before(s, 1, Len(s) + 1)
  <1>1. /\ s \in Seq(Bytes) /\ B % 2 = 0 /\ Ends(s, 1) = {}
    BY DEF Quiet
  <1>2. /\ u \in Seq(Bytes) /\ Len(s) \in Nat /\ B \in Nat
        /\ b # "iac" => Before(u, 1, Len(u) + 1) = 0
        /\ b = "iac" => Before(u, 1, Len(u) + 1) = B + 1
        /\ \A j \in Ends(u, 1) : j \in Ends(s, 1) \/ (j = Len(s) /\ j \in 1..Len(s) /\ s[j] = "iac" /\ b = "se"
                                                      /\ Before(s, 1, j) % 2 = 0)
    BY <1>1, Grown, Zenon
  <1> HIDE DEF u
  <1>3. ASSUME NEW j \in Ends(u, 1) PROVE FALSE
    <2>1. j = Len(s) /\ j \in 1..Len(s) /\ s[j] = "iac" /\ Before(s, 1, j) % 2 = 0
      BY <1>1, <1>2
    <2>2. j \in Nat /\ 1 \in Nat /\ 1 <= j /\ B = Before(s, 1, j + 1)
      BY <2>1
    <2>3. Before(s, 1, j + 1) = Before(s, 1, j) + 1 /\ Before(s, 1, j) \in Nat
      BY <2>1, <2>2, BeforeFacts, Zenon
    <2> HIDE DEF B
    <2> QED
      BY <1>1, <2>1, <2>2, <2>3, Parity, Zenon
  <1> HIDE DEF B
  <1>4. b = "iac" => Before(u, 1, Len(u) + 1) % 2 # 0
    BY <1>1, <1>2, Parity, Zenon
  <1>5. b # "iac" => Before(u, 1, Len(u) + 1) % 2 = 0
    BY <1>2, Parity, Zenon
  <1>6. Ends(u, 1) = {}
    BY <1>3
  <1> QED
    BY <1>2, <1>4, <1>5, <1>6 DEF Quiet, u

\* An IAC takes the byte behind it along.
LEMMA QuietPairs ==
  ASSUME NEW s, Quiet(s), NEW b \in Bytes, b # "se"
  PROVE  Quiet((s \o <<"iac">>) \o <<b>>)
  <1> DEFINE a == "iac"
             u == s \o <<a>>
             w == u \o <<b>>
             C == Before(s, 1, Len(s) + 1)
             B == Before(u, 1, Len(u) + 1)
  <1>0. a \in Bytes /\ a = "iac"
    BY ByteFacts
  <1> HIDE DEF a
  <1>1. u \in Seq(Bytes) /\ Ends(u, 1) = {}
    BY <1>0, QuietGrows, Zenon
  <1>2. B = C + 1 /\ C \in Nat /\ C % 2 = 0
    <2>1. s \in Seq(Bytes) /\ C % 2 = 0
      BY DEF Quiet
    <2> QED
      BY <1>0, <2>1, Grown, Zenon
  <1> HIDE DEF u, C
  <1>3. /\ w \in Seq(Bytes)
        /\ b # "iac" => Before(w, 1, Len(w) + 1) = 0
        /\ b = "iac" => Before(w, 1, Len(w) + 1) = B + 1
        /\ \A j \in Ends(w, 1) : j \in Ends(u, 1) \/ b = "se"
    BY <1>1, Grown, Zenon
  <1> HIDE DEF w, B
  <1>4. Ends(w, 1) = {}
    BY <1>1, <1>3
  <1>5. Before(w, 1, Len(w) + 1) % 2 = 0
    BY <1>2, <1>3, Parity, Zenon
  <1> QED
    BY <1>0, <1>3, <1>4, <1>5 DEF Quiet, w, u

LEMMA QuietEnds ==
  ASSUME NEW s, Quiet(s), NEW t \in Seq(Bytes)
  PROVE  LET u == s \o (<<"iac", "se">> \o t) IN
         /\ u \in Seq(Bytes) /\ Len(s) \in Nat /\ Ends(u, 1) # {} /\ First(Ends(u, 1)) = Len(s) + 1
  <1> DEFINE a == "iac"
             e == "se"
             q == <<a, e>>
             v == q \o t
             u == s \o v
             L == Len(s)
             c == L + 1
  <1>0. a \in Bytes /\ a = "iac" /\ e \in Bytes /\ e = "se" /\ a # e
    BY ByteFacts
  <1>1. s \in Seq(Bytes) /\ Before(s, 1, L + 1) % 2 = 0 /\ Ends(s, 1) = {}
    BY DEF Quiet
  <1> HIDE DEF a, e
  <1>2. q \in Seq(Bytes) /\ Len(q) = 2 /\ q[1] = a /\ q[2] = e
    BY <1>0
  <1> HIDE DEF q
  <1>3. v \in Seq(Bytes) /\ Len(v) \in Nat /\ Len(v) >= 2 /\ v[1] = a /\ v[2] = e
    <2>1. /\ v \in Seq(Bytes) /\ Len(t) \in Nat /\ Len(v) = Len(q) + Len(t)
          /\ \A i \in 1..Len(q) : v[i] = q[i]
      BY <1>2, JoinFacts, Zenon
    <2>2. 1 \in 1..2 /\ 2 \in 1..2
      OBVIOUS
    <2> HIDE DEF v
    <2> QED
      BY <1>2, <2>1, <2>2
  <1> HIDE DEF v
  <1>4. /\ u \in Seq(Bytes) /\ L \in Nat /\ Len(u) = L + Len(v)
        /\ \A i \in 1..L : u[i] = s[i]
        /\ \A i \in 1..Len(v) : u[L + i] = v[i]
    BY <1>1, <1>3, JoinFacts
  <1> HIDE DEF u, L
  <1>5. c \in 1..(Len(u) - 1) /\ u[c] = a /\ u[c + 1] = e /\ c \in Nat /\ Len(u) \in Nat
    <2>1. 1 \in 1..Len(v) /\ 2 \in 1..Len(v) /\ c + 1 = L + 2 /\ c \in 1..(Len(u) - 1) /\ c \in Nat
      BY <1>3, <1>4
    <2> QED
      BY <1>3, <1>4, <2>1
  <1>6. \A j \in 1..c : Before(u, 1, j) = Before(s, 1, j)
    <2> SUFFICES ASSUME NEW j \in 1..c PROVE Before(u, 1, j) = Before(s, 1, j)
      OBVIOUS
    <2>1. j \in Nat /\ 1 \in Nat /\ \A h \in 1..(j-1) : h \in 1..L
      BY <1>4
    <2>2. \A h \in 1..(j-1) : u[h] = s[h]
      BY <1>4, <2>1
    <2> QED
      BY <2>1, <2>2, SameBefore
  <1>7. c \in Ends(u, 1)
    <2>1. c \in 1..c /\ Before(u, 1, c) % 2 = 0
      BY <1>1, <1>4, <1>6
    <2> QED
      BY <1>0, <1>5, <2>1 DEF Ends
  <1>8. ASSUME NEW h \in Ends(u, 1), h < c PROVE FALSE
    <2>1. h \in 1..(Len(u) - 1) /\ u[h] = a /\ u[h+1] = e /\ Before(u, 1, h) % 2 = 0
      BY <1>0 DEF Ends
    <2>2. h \in 1..L /\ h \in 1..c /\ (h # L => h \in 1..(L - 1) /\ h + 1 \in 1..L)
      BY <1>4, <1>8, <2>1
    <2>3. h # L
      BY <1>0, <1>5, <2>1
    <2>4. s[h] = a /\ s[h+1] = e /\ Before(s, 1, h) % 2 = 0 /\ h \in 1..(L - 1)
      BY <1>4, <1>6, <2>1, <2>2, <2>3
    <2>5. h \in Ends(s, 1)
      BY <1>0, <2>4 DEF Ends, L
    <2> QED
      BY <1>1, <2>5
  <1>9. Ends(u, 1) # {} /\ First(Ends(u, 1)) = c
    <2> DEFINE E == Ends(u, 1)
    <2>1. 1 \in Nat \ {0}
      OBVIOUS
    <2>2. E \in SUBSET Nat /\ c \in E
      BY <1>4, <1>7, <2>1, EndsFacts, Zenon
    <2>3. First(E) \in E /\ First(E) <= c
      BY <1>4, <1>7, <2>1, EndsFacts
    <2>4. First(E) \in Nat /\ ~(First(E) < c)
      BY <1>8, <2>2, <2>3
    <2> HIDE DEF E
    <2>5. First(E) = c
      BY <1>5, <2>3, <2>4
    <2> QED
      BY <2>2, <2>5 DEF E
  <1> QED
    BY <1>4, <1>9 DEF u, v, q, a, e, L


LEMMA Associates == \A s, t, u \in Seq(Bytes) : (s \o t) \o u = s \o (t \o u)
  BY ConcatAssociative

\* A subnegotiation says nothing.
LEMMA SaysSub ==
  ASSUME NEW s, Quiet(s), NEW t \in Seq(Bytes)
  PROVE  Says(<<"iac", "sb">> \o (s \o (<<"iac", "se">> \o t))) = Says(t)
  <1> DEFINE a == "iac"
             x == "sb"
             e == "se"
             p == <<a, x>>
             q == <<a, e>>
             u == s \o (q \o t)
             w == p \o u
             h == p \o (s \o q)
             F == From(w)
  <1>0. a \in Bytes /\ x \in Bytes /\ e \in Bytes /\ a = "iac" /\ x = "sb"
    BY ByteFacts
  <1>1. /\ u \in Seq(Bytes) /\ Len(s) \in Nat /\ Ends(u, 1) # {} /\ First(Ends(u, 1)) = Len(s) + 1
        /\ s \in Seq(Bytes)
    BY QuietEnds, Zenon DEF Quiet
  <1> HIDE DEF a, x, e
  <1>2. p \in Seq(Bytes) /\ p # <<>> /\ Len(p) = 2 /\ p[1] = a /\ p[2] = x /\ 1 \in 1..2 /\ 2 \in 1..2
    BY <1>0
  <1>3. q \in Seq(Bytes) /\ Len(q) = 2
    BY <1>0
  <1> HIDE DEF p, q
  <1>4. s \o q \in Seq(Bytes) /\ Len(s \o q) = Len(s) + 2
    <2>1. s \o q \in Seq(Bytes) /\ Len(s \o q) = Len(s) + Len(q)
      BY <1>1, <1>3, JoinFacts, Zenon
    <2> QED
      BY <1>3, <2>1, Zenon
  <1>5. h \in Seq(Bytes) /\ Len(h) = Len(s) + 4
    <2> DEFINE g == s \o q
    <2>1. p \o g \in Seq(Bytes) /\ Len(p \o g) = 2 + Len(g)
      <3>1. g \in Seq(Bytes)
        BY <1>4
      <3> HIDE DEF g
      <3>2. p \o g \in Seq(Bytes) /\ Len(p \o g) = Len(p) + Len(g)
        BY <1>2, <3>1, JoinFacts, Zenon
      <3> QED
        BY <1>2, <3>2, Zenon
    <2> HIDE DEF g
    <2>2. Len(p \o g) = Len(s) + 4
      BY <1>1, <1>4, <2>1 DEF g
    <2> QED
      BY <2>1, <2>2 DEF g
  <1>6. w = h \o t
    <2>1. u = (s \o q) \o t
      BY <1>1, <1>3, Associates, Zenon
    <2>2. p \o ((s \o q) \o t) = (p \o (s \o q)) \o t
      BY <1>2, <1>4, Associates, Zenon
    <2> QED
      BY <2>1, <2>2
  <1>7. /\ w[1] = a /\ w[2] = x /\ 1 < Len(w) /\ Says(w) = Heard(w, F, 1) /\ HeardAt(w, F, 1)
    <2>1. Ahead(p, u, w)
      BY <1>1, <1>2, SaysAhead, Zenon
    <2> HIDE DEF w, u
    <2> QED
      BY <1>2, <2>1 DEF Ahead
  <1>8. Ends(w, 1 + 2) # {} /\ First(Ends(w, 1 + 2)) = Len(s) + 3
    <2>1. 1 \in Nat \ {0} /\ Len(p) + 1 = 1 + 2
      BY <1>2
    <2>2. /\ Ends(w, 1 + 2) = {} <=> Ends(u, 1) = {}
          /\ Ends(u, 1) # {} => First(Ends(w, 1 + 2)) = Len(p) + First(Ends(u, 1))
      <3>1. /\ Ends(p \o u, Len(p) + 1) = {} <=> Ends(u, 1) = {}
            /\ Ends(u, 1) # {} => First(Ends(p \o u, Len(p) + 1)) = Len(p) + First(Ends(u, 1))
        <4> HIDE DEF u
        <4> QED
          BY <1>1, <1>2, <2>1, FirstBehind, Zenon
      <3> QED
        BY <2>1, <3>1, Zenon
    <2>3. 2 + (Len(s) + 1) = Len(s) + 3
      BY <1>1
    <2> HIDE DEF w, u
    <2> QED
      BY <1>1, <1>2, <2>2, <2>3
  <1>9. F[Len(s) + 5] = Says(t)
    <2>1. 1 \in 1..(Len(t) + 3) /\ Len(h) + 1 = Len(s) + 5
      BY <1>1, <1>5
    <2> HIDE DEF h
    <2>2. From(h \o t)[Len(h) + 1] = From(t)[1]
      BY <1>5, <2>1, SaidBehind
    <2>3. From(t)[1] = Says(t)
      BY FromUnfolds, Zenon
    <2> HIDE DEF w
    <2> QED
      BY <1>6, <2>1, <2>2, <2>3
  <1> HIDE DEF w, F, u, h
  <1>10. 1 + 1 = 2 /\ (Len(s) + 3) + 2 = Len(s) + 5
    BY <1>1
  <1>11. Says(w) = F[First(Ends(w, 1 + 2)) + 2]
    BY <1>0, <1>7, <1>8, <1>10, Zenon DEF HeardAt
  <1>12. Says(w) = Says(t)
    BY <1>8, <1>9, <1>10, <1>11
  <1> QED
    BY <1>12 DEF w, u, p, q, a, x, e

\* Neither does a command that has not ended.
LEMMA SaysOpen ==
  ASSUME NEW s \in Seq(Bytes), Ends(s, 1) = {}
  PROVE  Says(<<"iac", "sb">> \o s) = Nothing
  <1> DEFINE a == "iac"
             x == "sb"
             p == <<a, x>>
             w == p \o s
             F == From(w)
  <1>0. a \in Bytes /\ x \in Bytes /\ a = "iac" /\ x = "sb"
    BY ByteFacts
  <1> HIDE DEF a, x
  <1>2. p \in Seq(Bytes) /\ p # <<>> /\ Len(p) = 2 /\ p[1] = a /\ p[2] = x /\ 1 \in 1..2 /\ 2 \in 1..2
    BY <1>0
  <1> HIDE DEF p
  <1>7. /\ w[1] = a /\ w[2] = x /\ 1 < Len(w) /\ Says(w) = Heard(w, F, 1) /\ HeardAt(w, F, 1)
    <2>1. Ahead(p, s, w)
      BY <1>2, SaysAhead, Zenon
    <2> HIDE DEF w
    <2> QED
      BY <1>2, <2>1 DEF Ahead
  <1>8. Ends(w, 1 + 2) = {}
    <2>1. 1 \in Nat \ {0} /\ Len(p) + 1 = 1 + 2
      BY <1>2
    <2>2. Ends(p \o s, Len(p) + 1) = {} <=> Ends(s, 1) = {}
      BY <1>2, <2>1, FirstBehind, Zenon
    <2> QED
      BY <2>1, <2>2
  <1> HIDE DEF w, F
  <1>10. 1 + 1 = 2
    OBVIOUS
  <1>11. Says(w) = Nothing
    BY <1>0, <1>7, <1>8, <1>10, Zenon DEF HeardAt
  <1> QED
    BY <1>11 DEF w, p, a, x

LEMMA SaysStart ==
  /\ Says(<<>>) = Nothing /\ Says(<<"iac">>) = Nothing
  /\ \A v \in Verbs : Says(<<"iac", v>>) = Nothing
  <1> DEFINE a == "iac"
  <1>0. a \in Bytes /\ a = "iac" /\ Verbs \subseteq Bytes
    BY ByteFacts
  <1>1. ASSUME NEW s \in Seq(Bytes)
        PROVE  Says(s) = Heard(s, From(s), 1) /\ HeardAt(s, From(s), 1)
    <2>1. 1 \in 1..(Len(s) + 3) /\ 1 \in Nat \ {0}
      OBVIOUS
    <2>2. Says(s) = Heard(s, From(s), 1)
      BY <2>1, FromUnfolds
    <2> QED
      BY <2>1, <2>2, HeardCases, Zenon
  <1> HIDE DEF a
  <1>2. Says(<<>>) = Nothing
    <2> DEFINE s == <<>>
    <2>1. s \in Seq(Bytes) /\ 1 > Len(s)
      OBVIOUS
    <2> HIDE DEF s
    <2>2. Says(s) = Nothing
      BY <1>1, <2>1, Zenon DEF HeardAt
    <2> QED
      BY <2>2 DEF s
  <1>3. Says(<<a>>) = Nothing
    <2> DEFINE s == <<a>>
    <2>1. s \in Seq(Bytes) /\ 1 = Len(s) /\ s[1] = a
      BY <1>0
    <2> HIDE DEF s
    <2>2. Says(s) = Nothing
      BY <1>0, <1>1, <2>1, Zenon DEF HeardAt
    <2> QED
      BY <2>2 DEF s
  <1>4. ASSUME NEW v \in Verbs PROVE Says(<<a, v>>) = Nothing
    <2> DEFINE s == <<a, v>>
    <2>0. v \in Bytes
      BY <1>0
    <2>1. s \in Seq(Bytes) /\ Len(s) = 2 /\ s[1] = a /\ s[2] = v
      BY <1>0, <2>0
    <2> HIDE DEF s
    <2>2. 1 < Len(s) /\ 1 + 2 > Len(s) /\ 1 + 1 = 2
      BY <2>1
    <2>3. Says(s) = Nothing
      BY <1>0, <1>1, <2>1, <2>2, Zenon DEF HeardAt
    <2> QED
      BY <2>3 DEF s
  <1> QED
    BY <1>2, <1>3, <1>4 DEF a

-----------------------------------------------------------------------------
(* iacReader, one byte at a time.                                          *)

Places == {"none", "data", "iac", "opt", "sb", "sbIac"}
Reader == [at : Places, verb : Bytes \cup {""}, p : Seq(Bytes), negs : Nat, sb : Nat]

\* The limits within a Read.
Bounded(r) ==
  /\ r.negs <= MaxNegs /\ r.sb <= MaxSubneg + 1 /\ Len(r.p) < BufSize
  /\ r.at \in {"sb", "sbIac"} => r.sb <= MaxSubneg

\* The command the Read is in, as far as it has come.
Pending(r, c) ==
  /\ c \in Seq(Bytes)
  /\ r.at \in {"none", "data"} => c = <<>>
  /\ r.at = "iac" => c = <<"iac">>
  /\ r.at = "opt" => r.verb \in Verbs /\ c = <<"iac", r.verb>>
  /\ r.at = "sb" => \E s : Quiet(s) /\ c = <<"iac", "sb">> \o s
  /\ r.at = "sbIac" => \E s : Quiet(s) /\ c = <<"iac", "sb">> \o (s \o <<"iac">>)

LEMMA LimitsFacts == /\ MaxNegs \in Nat \ {0} /\ MaxSubneg \in Nat \ {0}
                     /\ BufSize \in Nat \ {0} /\ MaxLine \in Nat \ {0}
  BY TelnetLimits

LEMMA ScanType ==
  ASSUME NEW r \in Reader, r.at # "none", NEW b \in Bytes
  PROVE  Scan(r, b) \in Reader /\ Scan(r, b).at # "none"
  <1> DEFINE q == Append(r.p, b)
             k == r.sb + 1
             n == r.negs + 1
  <1>0. /\ r.at \in Places /\ r.verb \in Bytes \cup {""} /\ r.p \in Seq(Bytes) /\ r.negs \in Nat /\ r.sb \in Nat
    BY DEF Reader
  <1>1. q \in Seq(Bytes) /\ k \in Nat /\ n \in Nat
    <2>1. q \in Seq(Bytes)
      BY <1>0, AppendProperties, Zenon
    <2>2. \A m \in Nat : m + 1 \in Nat
      OBVIOUS
    <2>3. k \in Nat /\ n \in Nat
      BY <1>0, <2>2, Zenon
    <2> QED
      BY <2>1, <2>3
  <1>2. Scan(r, b) \in {[r EXCEPT !.at = "iac"], [r EXCEPT !.p = q], [r EXCEPT !.at = "data", !.p = q],
                        [r EXCEPT !.at = "opt", !.verb = b], [r EXCEPT !.at = "sb", !.sb = 0],
                        [r EXCEPT !.at = "data"], [r EXCEPT !.at = "data", !.negs = n],
                        [r EXCEPT !.at = "sbIac"], [r EXCEPT !.sb = k],
                        [r EXCEPT !.at = "data", !.sb = k], [r EXCEPT !.at = "sb", !.sb = k]}
    BY DEF Scan, InSubneg
  <1> HIDE DEF q, k, n
  <1>3. "iac" \in Places /\ "data" \in Places /\ "opt" \in Places /\ "sb" \in Places /\ "sbIac" \in Places
    BY DEF Places
  <1>4. ASSUME NEW x \in Places, x # "none"
        PROVE  \A R \in {[r EXCEPT !.at = x], [r EXCEPT !.at = x, !.p = q], [r EXCEPT !.at = x, !.verb = b],
                          [r EXCEPT !.at = x, !.negs = n], [r EXCEPT !.at = x, !.sb = 0],
                          [r EXCEPT !.at = x, !.sb = k]} : R \in Reader /\ R.at # "none"
    <2>1. [r EXCEPT !.at = x] \in Reader /\ [r EXCEPT !.at = x].at # "none"
      BY <1>0, <1>1, <1>4 DEF Reader
    <2>2. [r EXCEPT !.at = x, !.p = q] \in Reader /\ [r EXCEPT !.at = x, !.p = q].at # "none"
      BY <1>0, <1>1, <1>4 DEF Reader
    <2>3. [r EXCEPT !.at = x, !.verb = b] \in Reader /\ [r EXCEPT !.at = x, !.verb = b].at # "none"
      BY <1>0, <1>1, <1>4 DEF Reader
    <2>4. [r EXCEPT !.at = x, !.negs = n] \in Reader /\ [r EXCEPT !.at = x, !.negs = n].at # "none"
      BY <1>0, <1>1, <1>4 DEF Reader
    <2>5. [r EXCEPT !.at = x, !.sb = 0] \in Reader /\ [r EXCEPT !.at = x, !.sb = 0].at # "none"
      BY <1>0, <1>1, <1>4 DEF Reader
    <2>6. [r EXCEPT !.at = x, !.sb = k] \in Reader /\ [r EXCEPT !.at = x, !.sb = k].at # "none"
      BY <1>0, <1>1, <1>4 DEF Reader
    <2> QED
      BY <2>1, <2>2, <2>3, <2>4, <2>5, <2>6, Zenon
  <1>5. \A R \in {[r EXCEPT !.p = q], [r EXCEPT !.sb = k]} : R \in Reader /\ R.at # "none"
    BY <1>0, <1>1 DEF Reader
  <1> QED
    BY <1>2, <1>3, <1>4, <1>5, Zenon

\* What one byte does to a Read.
Took(r, b, R) ==
  /\ r.at = "data" => IF b = "iac" THEN R.at = "iac" /\ R.p = r.p /\ R.negs = r.negs /\ R.sb = r.sb
                      ELSE R.at = "data" /\ R.p = Append(r.p, b) /\ R.negs = r.negs /\ R.sb = r.sb
  /\ r.at = "iac" => R.negs = r.negs /\
       CASE b = "iac"   -> R.at = "data" /\ R.p = Append(r.p, b) /\ R.sb = r.sb
         [] b \in Verbs -> R.at = "opt" /\ R.verb = b /\ R.p = r.p /\ R.sb = r.sb
         [] b = "sb"    -> R.at = "sb" /\ R.p = r.p /\ R.sb = 0
         [] OTHER       -> R.at = "data" /\ R.p = r.p /\ R.sb = r.sb
  /\ r.at = "opt" => R.at = "data" /\ R.p = r.p /\ R.sb = r.sb
  /\ r.at = "sb" => IF b = "iac" THEN R.at = "sbIac" /\ R.p = r.p /\ R.sb = r.sb /\ R.negs = r.negs
                    ELSE R.at = "sb" /\ R.p = r.p /\ R.sb = r.sb + 1 /\ R.negs = r.negs
  /\ r.at = "sbIac" => R.negs = r.negs /\ R.at = (IF b = "se" THEN "data" ELSE "sb") /\ R.p = r.p /\ R.sb = r.sb + 1

LEMMA ScanTakes ==
  ASSUME NEW r \in Reader, NEW b \in Bytes
  PROVE  Took(r, b, Scan(r, b))
  <1>1. r = [at |-> r.at, verb |-> r.verb, p |-> r.p, negs |-> r.negs, sb |-> r.sb]
    BY DEF Reader
  <1>2. CASE r.at = "data"
    BY <1>1, <1>2 DEF Took, Scan
  <1>3. CASE r.at = "iac"
    BY <1>1, <1>3 DEF Took, Scan, Verbs
  <1>4. CASE r.at = "opt"
    BY <1>1, <1>4 DEF Took, Scan
  <1>5. CASE r.at = "sb"
    <2>1. CASE b = "iac"
      <3>1. Scan(r, b) = [r EXCEPT !.at = "sbIac"]
        <4>1. r.at # "data" /\ r.at # "iac" /\ r.at # "opt"
          BY <1>5
        <4>2. Scan(r, b) = InSubneg(r, b)
          BY <4>1 DEF Scan
        <4>3. InSubneg(r, b) = [r EXCEPT !.at = "sbIac"]
          BY <1>5, <2>1 DEF InSubneg
        <4> QED
          BY <4>2, <4>3
      <3>2. Scan(r, b).at = "sbIac" /\ Scan(r, b).p = r.p /\ Scan(r, b).sb = r.sb /\ Scan(r, b).negs = r.negs
        BY <1>1, <3>1
      <3> QED
        BY <1>5, <2>1, <3>2 DEF Took
    <2>2. CASE b # "iac"
      BY <1>1, <1>5, <2>2 DEF Took, Scan, InSubneg
    <2> QED
      BY <2>1, <2>2
  <1>6. CASE r.at = "sbIac"
    BY <1>1, <1>6 DEF Took, Scan, InSubneg
  <1>7. CASE r.at \notin {"data", "iac", "opt", "sb", "sbIac"}
    BY <1>7 DEF Took
  <1> QED
    BY <1>2, <1>3, <1>4, <1>5, <1>6, <1>7

LEMMA ScanBounded ==
  ASSUME NEW r \in Reader, r.at # "none", NEW b \in Bytes, Bounded(r),
         ~Flood(Scan(r, b)), ~Oversized(Scan(r, b)),
         ~(Scan(r, b).at = "data" /\ Len(Scan(r, b).p) = BufSize)
  PROVE  Bounded(Scan(r, b))
  <1> DEFINE R == Scan(r, b)
  <1>1. Took(r, b, R) /\ R \in Reader
    BY ScanTakes, ScanType
  <1> HIDE DEF R
  <1>2. /\ r.at \in Places /\ r.p \in Seq(Bytes) /\ r.sb \in Nat /\ R.negs \in Nat /\ R.sb \in Nat
    BY <1>1 DEF Reader
  <1>8. Len(r.p) \in Nat /\ Len(Append(r.p, b)) = Len(r.p) + 1
    BY <1>2
  <1>3. /\ ~(R.negs > MaxNegs) /\ ~(R.at = "sb" /\ R.sb > MaxSubneg)
        /\ ~(R.at = "data" /\ Len(R.p) = BufSize)
    BY DEF Flood, Oversized, R
  <1>4. /\ r.sb <= MaxSubneg + 1 /\ Len(r.p) < BufSize
        /\ r.at \in {"sb", "sbIac"} => r.sb <= MaxSubneg
    BY DEF Bounded
  <1>5. R.negs <= MaxNegs
    BY <1>2, <1>3, LimitsFacts
  <1>6. Len(R.p) < BufSize
    <2>1. (R.p = r.p) \/ (R.at = "data" /\ R.p = Append(r.p, b))
      BY <1>1, <1>2 DEF Took, Places
    <2> QED
      BY <1>2, <1>3, <1>4, <1>8, <2>1, LimitsFacts
  <1>7. R.sb <= MaxSubneg + 1 /\ (R.at \in {"sb", "sbIac"} => R.sb <= MaxSubneg)
    <2>1. \/ R.at \notin {"sb", "sbIac"} /\ R.sb = r.sb
          \/ R.at = "sb"
          \/ R.at = "sbIac" /\ R.sb = r.sb /\ r.at = "sb"
          \/ R.at = "data" /\ R.sb = r.sb + 1 /\ r.at = "sbIac"
      BY <1>1, <1>2 DEF Took, Places
    <2> QED
      BY <1>2, <1>3, <1>4, <2>1, LimitsFacts
  <1> QED
    BY <1>5, <1>6, <1>7 DEF Bounded, R

\* A command that has not ended says nothing yet.
LEMMA PendingSays ==
  ASSUME NEW r \in Reader, NEW c, Pending(r, c)
  PROVE  Says(c) = Nothing
  <1>1. r.at \in Places
    BY DEF Reader
  <1>2. CASE r.at \in {"none", "data"}
    BY <1>2, SaysStart, Zenon DEF Pending
  <1>3. CASE r.at = "iac"
    BY <1>3, SaysStart, Zenon DEF Pending
  <1>4. CASE r.at = "opt"
    BY <1>4, SaysStart, Zenon DEF Pending
  <1>5. CASE r.at = "sb"
    <2>1. PICK s : Quiet(s) /\ c = <<"iac", "sb">> \o s
      BY <1>5, Zenon DEF Pending
    <2> QED
      BY <2>1, SaysOpen, Zenon DEF Quiet
  <1>6. CASE r.at = "sbIac"
    <2>1. PICK s : Quiet(s) /\ c = <<"iac", "sb">> \o (s \o <<"iac">>)
      BY <1>6, Zenon DEF Pending
    <2>2. s \o <<"iac">> \in Seq(Bytes) /\ Ends(s \o <<"iac">>, 1) = {}
      BY <2>1, QuietGrows, ByteFacts, Zenon
    <2> QED
      BY <2>1, <2>2, SaysOpen, Zenon
  <1> QED
    BY <1>1, <1>2, <1>3, <1>4, <1>5, <1>6 DEF Places

LEMMA Tuples ==
  /\ \A a, b \in Bytes : <<a>> \o <<b>> = <<a, b>> /\ <<a, b>> \in Seq(Bytes) /\ <<a>> \in Seq(Bytes)
  /\ \A a, b, c \in Bytes : <<a, b>> \o <<c>> = <<a, b, c>>
  /\ \A s \in Seq(Bytes) : <<>> \o s = s /\ s \o <<>> = s
  /\ \A s, t \in Seq(Bytes) : s \o t \in Seq(Bytes)
  /\ \A s \in Seq(Bytes), b \in Bytes : Append(s, b) = s \o <<b>>
  /\ <<>> \in Seq(Bytes)
  <1>1. ASSUME NEW a \in Bytes, NEW b \in Bytes
        PROVE  <<a>> \o <<b>> = <<a, b>> /\ <<a, b>> \in Seq(Bytes) /\ <<a>> \in Seq(Bytes)
    <2> DEFINE u == <<a>>
               v == <<b>>
               w == <<a, b>>
    <2>1. u \in Seq(Bytes) /\ Len(u) = 1 /\ u[1] = a
      OBVIOUS
    <2>2. v \in Seq(Bytes) /\ Len(v) = 1 /\ v[1] = b
      OBVIOUS
    <2>3. w \in Seq(Bytes) /\ Len(w) = 2 /\ w[1] = a /\ w[2] = b
      OBVIOUS
    <2> HIDE DEF u, v, w
    <2>4. u \o v = w
      <3>1. /\ u \o v \in Seq(Bytes) /\ Len(u \o v) = Len(u) + Len(v)
            /\ \A i \in 1..Len(u) : (u \o v)[i] = u[i]
            /\ \A i \in 1..Len(v) : (u \o v)[Len(u) + i] = v[i]
        BY <2>1, <2>2, JoinFacts, Zenon
      <3> DEFINE z == u \o v
      <3> HIDE DEF z
      <3>2. z \in Seq(Bytes) /\ Len(z) = 2 /\ z[1] = a /\ z[2] = b
        <4>1. 1 \in 1..1 /\ 1 + 1 = 2
          OBVIOUS
        <4> QED
          BY <2>1, <2>2, <3>1, <4>1 DEF z
      <3>3. \A i \in 1..2 : z[i] = w[i]
        BY <2>3, <3>2
      <3> QED
        BY <2>3, <3>2, <3>3, SeqEqual DEF z
    <2> QED
      BY <2>1, <2>3, <2>4 DEF u, v, w
  <1>2. ASSUME NEW a \in Bytes, NEW b \in Bytes, NEW c \in Bytes PROVE <<a, b>> \o <<c>> = <<a, b, c>>
    <2> DEFINE u == <<a, b>>
               v == <<c>>
               w == <<a, b, c>>
    <2>1. u \in Seq(Bytes) /\ Len(u) = 2 /\ u[1] = a /\ u[2] = b
      OBVIOUS
    <2>2. v \in Seq(Bytes) /\ Len(v) = 1 /\ v[1] = c
      OBVIOUS
    <2>3. w \in Seq(Bytes) /\ Len(w) = 3 /\ w[1] = a /\ w[2] = b /\ w[3] = c
      OBVIOUS
    <2> HIDE DEF u, v, w
    <2>4. u \o v = w
      <3>1. /\ u \o v \in Seq(Bytes) /\ Len(u \o v) = Len(u) + Len(v)
            /\ \A i \in 1..Len(u) : (u \o v)[i] = u[i]
            /\ \A i \in 1..Len(v) : (u \o v)[Len(u) + i] = v[i]
        BY <2>1, <2>2, JoinFacts, Zenon
      <3> DEFINE z == u \o v
      <3> HIDE DEF z
      <3>2. z \in Seq(Bytes) /\ Len(z) = 3 /\ z[1] = a /\ z[2] = b /\ z[3] = c
        <4>1. 1 \in 1..1 /\ 1 \in 1..2 /\ 2 \in 1..2 /\ 2 + 1 = 3
          OBVIOUS
        <4> QED
          BY <2>1, <2>2, <3>1, <4>1 DEF z
      <3>3. \A i \in 1..3 : z[i] = w[i]
        BY <2>3, <3>2
      <3> QED
        BY <2>3, <3>2, <3>3, SeqEqual DEF z
    <2> QED
      BY <2>4 DEF u, v, w
  <1>3. \A s \in Seq(Bytes) : <<>> \o s = s /\ s \o <<>> = s
    BY ConcatEmptySeq
  <1>4. \A s, t \in Seq(Bytes) : s \o t \in Seq(Bytes)
    BY ConcatProperties
  <1>5. \A s \in Seq(Bytes), b \in Bytes : Append(s, b) = s \o <<b>>
    OBVIOUS
  <1> QED
    BY <1>1, <1>2, <1>3, <1>4, <1>5

\* One more byte: the command grows, or it is complete and says what the Read
\* made of it.  E is what it says, whatever comes behind.
Stepped(r, b, c, d, E) ==
  /\ Pending(Scan(r, b), d) /\ E \in Speech
  /\ \A t \in Seq(Bytes) : Says(c \o (<<b>> \o t)) = Plus(E, Says(d \o t))
  /\ Scan(r, b).p = r.p \o E.input
  /\ E.replies = IF r.at = "opt" THEN negotiate(r.verb, b) ELSE <<>>

LEMMA SpeechParts ==
  /\ Nothing.input = <<>> /\ Nothing.replies = <<>>
  /\ \A b : Datum(b).input = <<b>> /\ Datum(b).replies = <<>>
  /\ \A v, b : Answer(v, b).input = <<>> /\ Answer(v, b).replies = negotiate(v, b)
  BY DEF Nothing, Datum, Answer

\* The command grows by b.
LEMMA StepGrows ==
  ASSUME NEW r \in Reader, NEW b \in Bytes, NEW c \in Seq(Bytes),
         Pending(Scan(r, b), c \o <<b>>), Scan(r, b).p = r.p, r.at # "opt"
  PROVE  Stepped(r, b, c, c \o <<b>>, Nothing)
  <1>1. Nothing \in Speech
    BY SpeechFacts
  <1>2. <<b>> \in Seq(Bytes) /\ c \o <<b>> \in Seq(Bytes)
    BY Tuples, Zenon
  <1>3. ASSUME NEW t \in Seq(Bytes)
        PROVE  Says(c \o (<<b>> \o t)) = Plus(Nothing, Says((c \o <<b>>) \o t))
    <2>1. (c \o <<b>>) \o t \in Seq(Bytes) /\ (c \o <<b>>) \o t = c \o (<<b>> \o t)
      BY <1>2, Associates, Tuples, Zenon
    <2>2. Says((c \o <<b>>) \o t) \in Speech
      BY <2>1, SaysType, Zenon
    <2>3. Plus(Nothing, Says((c \o <<b>>) \o t)) = Says((c \o <<b>>) \o t)
      BY <1>1, <2>2, PlusFacts, Zenon
    <2> QED
      BY <2>1, <2>3, Zenon
  <1>4. r.p = r.p \o <<>>
    <2>1. r.p \in Seq(Bytes)
      BY DEF Reader
    <2> QED
      BY <2>1, Tuples, Zenon
  <1> QED
    BY <1>1, <1>3, <1>4, SpeechParts, Zenon DEF Stepped

\* The command is complete.
LEMMA StepEnds ==
  ASSUME NEW r \in Reader, NEW b \in Bytes, NEW c \in Seq(Bytes), NEW E \in Speech,
         Scan(r, b).at = "data", Scan(r, b).p = r.p \o E.input,
         E.replies = IF r.at = "opt" THEN negotiate(r.verb, b) ELSE <<>>,
         \A t \in Seq(Bytes) : Says((c \o <<b>>) \o t) = Plus(E, Says(t))
  PROVE  Stepped(r, b, c, <<>>, E)
  <1>1. <<>> \in Seq(Bytes) /\ <<b>> \in Seq(Bytes)
    BY Tuples, Zenon
  <1>2. Pending(Scan(r, b), <<>>)
    BY <1>1 DEF Pending
  <1>3. ASSUME NEW t \in Seq(Bytes) PROVE Says(c \o (<<b>> \o t)) = Plus(E, Says(<<>> \o t))
    <2>1. (c \o <<b>>) \o t = c \o (<<b>> \o t) /\ <<>> \o t = t
      BY <1>1, Associates, Tuples, Zenon
    <2> QED
      BY <2>1, Zenon
  <1> QED
    BY <1>2, <1>3, Zenon DEF Stepped

LEMMA ByteSteps ==
  ASSUME NEW r \in Reader, r.at # "none", NEW b \in Bytes, NEW c, Pending(r, c)
  PROVE  \E d, E : Stepped(r, b, c, d, E)
  <1> DEFINE R == Scan(r, b)
             a == "iac"
  <1>1. r.at \in Places /\ r.p \in Seq(Bytes) /\ Took(r, b, R) /\ R \in Reader /\ c \in Seq(Bytes)
    BY ScanTakes, ScanType DEF Reader, Pending
  <1>2. /\ a \in Bytes /\ a = "iac" /\ "sb" \in Bytes /\ "se" \in Bytes /\ Verbs \subseteq Bytes
        /\ a \notin Verbs /\ "sb" \notin Verbs /\ a # "sb"
    BY ByteFacts DEF Verbs
  <1>3. /\ Nothing \in Speech /\ Datum(b) \in Speech
        /\ r.p = r.p \o Nothing.input /\ Append(r.p, b) = r.p \o Datum(b).input
    <2>1. r.p \o <<>> = r.p /\ Append(r.p, b) = r.p \o <<b>>
      BY <1>1, Tuples, Zenon
    <2> QED
      BY <2>1, SpeechFacts, SpeechParts, Zenon
  <1>4. \A t \in Seq(Bytes) : Says(t) = Plus(Nothing, Says(t))
    BY <1>3, SaysType, PlusFacts, Zenon
  <1> HIDE DEF a, R
  <1>5. CASE r.at = "data"
    <2>1. c = <<>> /\ <<>> \o <<b>> = <<b>> /\ <<>> \in Seq(Bytes) /\ <<b>> \in Seq(Bytes) /\ r.at # "opt"
      BY <1>5, Tuples DEF Pending
    <2>2. CASE b = "iac"
      <3>1. R.at = "iac" /\ R.p = r.p
        BY <1>1, <1>5, <2>2 DEF Took
      <3>2. R.at \notin {"none", "data", "opt", "sb", "sbIac"}
        BY <3>1
      <3>3. Pending(R, c \o <<b>>)
        BY <2>1, <2>2, <3>1, <3>2, Zenon DEF Pending
      <3> QED
        BY <2>1, <3>1, <3>3, StepGrows, Zenon DEF R
    <2>3. CASE b # "iac"
      <3>1. R.at = "data" /\ R.p = r.p \o Datum(b).input
        BY <1>1, <1>3, <1>5, <2>3 DEF Took
      <3>2. \A t \in Seq(Bytes) : Says((c \o <<b>>) \o t) = Plus(Datum(b), Says(t))
        BY <2>1, <2>3, SaysData, Zenon
      <3> QED
        BY <1>3, <2>1, <3>1, <3>2, SpeechParts, StepEnds, Zenon DEF R
    <2> QED
      BY <2>2, <2>3
  <1>6. CASE r.at = "iac"
    <2>1. c = <<a>> /\ <<a>> \o <<b>> = <<a, b>> /\ <<a, b>> \in Seq(Bytes) /\ r.at # "opt"
      <3>1. c = <<a>> /\ r.at # "opt"
        BY <1>2, <1>6 DEF Pending
      <3> QED
        BY <1>2, <3>1, Tuples, Zenon
    <2>2. CASE b = "iac"
      <3>1. R.at = "data" /\ R.p = r.p \o Datum(b).input
        BY <1>1, <1>2, <1>3, <1>6, <2>2 DEF Took
      <3>2. \A t \in Seq(Bytes) : Says((c \o <<b>>) \o t) = Plus(Datum(b), Says(t))
        BY <1>2, <2>1, <2>2, SaysTwo, Zenon
      <3> QED
        BY <1>1, <1>3, <2>1, <3>1, <3>2, SpeechParts, StepEnds, Zenon DEF R
    <2>3. CASE b \in Verbs
      <3>1. R.at = "opt" /\ R.verb = b /\ R.p = r.p
        BY <1>1, <1>2, <1>6, <2>3 DEF Took
      <3>2. R.at \notin {"none", "data", "iac", "sb", "sbIac"}
        BY <3>1
      <3>3. Pending(R, c \o <<b>>)
        BY <1>2, <2>1, <2>3, <3>1, <3>2, Zenon DEF Pending
      <3> QED
        BY <1>1, <2>1, <3>1, <3>3, StepGrows, Zenon DEF R
    <2>4. CASE b = "sb"
      <3>1. R.at = "sb" /\ R.p = r.p
        BY <1>1, <1>2, <1>6, <2>4 DEF Took
      <3>2. R.at \notin {"none", "data", "iac", "opt", "sbIac"}
        BY <3>1
      <3>3. <<a, b>> = <<a, b>> \o <<>>
        BY <2>1, Tuples, Zenon
      <3>4. Pending(R, c \o <<b>>)
        BY <1>2, <2>1, <2>4, <3>1, <3>2, <3>3, QuietStart, Zenon DEF Pending
      <3> QED
        BY <1>1, <2>1, <3>1, <3>4, StepGrows, Zenon DEF R
    <2>5. CASE b \notin Verbs \cup {"iac", "sb"}
      <3>1. R.at = "data" /\ R.p = r.p \o Nothing.input
        BY <1>1, <1>3, <1>6, <2>5 DEF Took
      <3>2. \A t \in Seq(Bytes) : Says((c \o <<b>>) \o t) = Says(t)
        BY <1>2, <2>1, <2>5, SaysTwo, Zenon
      <3>3. \A t \in Seq(Bytes) : Says((c \o <<b>>) \o t) = Plus(Nothing, Says(t))
        BY <1>4, <3>2, Zenon
      <3> QED
        BY <1>1, <1>3, <2>1, <3>1, <3>3, SpeechParts, StepEnds, Zenon DEF R
    <2> QED
      BY <2>2, <2>3, <2>4, <2>5
  <1>7. CASE r.at = "opt"
    <2> DEFINE v == r.verb
    <2>1. c = <<a, v>> /\ v \in Verbs /\ v \in Bytes
      BY <1>2, <1>7 DEF Pending
    <2>2. c \o <<b>> = <<a, v, b>>
      BY <1>2, <2>1, Tuples, Zenon
    <2> HIDE DEF v
    <2>3. Answer(v, b) \in Speech /\ r.p = r.p \o Answer(v, b).input
      BY <1>3, <2>1, SpeechFacts, SpeechParts, Zenon
    <2>4. R.at = "data" /\ R.p = r.p \o Answer(v, b).input
      BY <1>1, <1>7, <2>3 DEF Took
    <2>5. \A t \in Seq(Bytes) : Says((c \o <<b>>) \o t) = Plus(Answer(v, b), Says(t))
      BY <1>2, <2>1, <2>2, SaysOption, Zenon
    <2>6. Answer(v, b).replies = IF r.at = "opt" THEN negotiate(r.verb, b) ELSE <<>>
      BY <1>7, SpeechParts, Zenon DEF v
    <2> QED
      BY <1>1, <2>3, <2>4, <2>5, <2>6, StepEnds, Zenon DEF R
  <1>8. CASE r.at = "sb"
    <2> DEFINE p == <<"iac", "sb">>
    <2>1. PICK s : Quiet(s) /\ c = p \o s
      BY <1>8, Zenon DEF Pending
    <2>2. p \in Seq(Bytes) /\ s \in Seq(Bytes) /\ <<b>> \in Seq(Bytes)
      BY <1>2, <2>1, Tuples, Zenon DEF Quiet
    <2>3. c \o <<b>> = p \o (s \o <<b>>) /\ c \o <<b>> \in Seq(Bytes) /\ r.at # "opt"
      <3>1. r.at # "opt"
        BY <1>8
      <3>2. c \o <<b>> \in Seq(Bytes)
        BY <1>1, <2>2, Tuples, Zenon
      <3> HIDE DEF p
      <3> DEFINE e == <<b>>
      <3> HIDE DEF e
      <3>3. (p \o s) \o e = p \o (s \o e)
        <4>1. e \in Seq(Bytes)
          BY <2>2 DEF e
        <4> QED
          BY <2>2, <4>1, Associates
      <3> QED
        BY <2>1, <3>1, <3>2, <3>3, Zenon DEF e
    <2>4. CASE b = "iac"
      <3>1. R.at = "sbIac" /\ R.p = r.p
        BY <1>1, <1>8, <2>4 DEF Took
      <3>2. R.at \notin {"none", "data", "iac", "opt", "sb"}
        BY <3>1
      <3>3. Pending(R, c \o <<b>>)
        BY <2>1, <2>3, <2>4, <3>1, <3>2, Zenon DEF Pending
      <3> QED
        BY <1>1, <2>3, <3>1, <3>3, StepGrows, Zenon DEF R
    <2>5. CASE b # "iac"
      <3>1. R.at = "sb" /\ R.p = r.p
        BY <1>1, <1>8, <2>5 DEF Took
      <3>2. R.at \notin {"none", "data", "iac", "opt", "sbIac"}
        BY <3>1
      <3>3. Quiet(s \o <<b>>)
        BY <2>1, <2>5, QuietGrows, Zenon
      <3>4. Pending(R, c \o <<b>>)
        BY <2>3, <3>1, <3>2, <3>3, Zenon DEF Pending
      <3> QED
        BY <1>1, <2>3, <3>1, <3>4, StepGrows, Zenon DEF R
    <2> QED
      BY <2>4, <2>5
  <1>9. CASE r.at = "sbIac"
    <2> DEFINE p == <<"iac", "sb">>
    <2>1. PICK s : Quiet(s) /\ c = p \o (s \o <<a>>)
      BY <1>2, <1>9, Zenon DEF Pending
    <2>2. p \in Seq(Bytes) /\ s \in Seq(Bytes) /\ <<b>> \in Seq(Bytes) /\ <<a>> \in Seq(Bytes) /\ s \o <<a>> \in Seq(Bytes)
      BY <1>2, <2>1, Tuples, Zenon DEF Quiet
    <2>3. c \o <<b>> = p \o ((s \o <<a>>) \o <<b>>) /\ c \o <<b>> \in Seq(Bytes) /\ r.at # "opt"
      <3>1. r.at # "opt"
        BY <1>9
      <3>2. c \o <<b>> \in Seq(Bytes)
        BY <1>1, <2>2, Tuples, Zenon
      <3> HIDE DEF p
      <3> DEFINE e == <<b>>
                 g == s \o <<a>>
      <3>3. e \in Seq(Bytes) /\ g \in Seq(Bytes)
        BY <2>2
      <3> HIDE DEF e, g
      <3>4. (p \o g) \o e = p \o (g \o e)
        BY <2>2, <3>3, Associates
      <3> QED
        BY <2>1, <3>1, <3>2, <3>4, Zenon DEF e, g
    <2>4. CASE b = "se"
      <3>1. R.at = "data" /\ R.p = r.p \o Nothing.input
        BY <1>1, <1>3, <1>9, <2>4 DEF Took
      <3>2. ASSUME NEW t \in Seq(Bytes) PROVE Says((c \o <<b>>) \o t) = Plus(Nothing, Says(t))
        <4> DEFINE q == <<a, b>>
        <4>1. q \in Seq(Bytes) /\ (s \o <<a>>) \o <<b>> = s \o q
          <5>1. q \in Seq(Bytes) /\ q = <<a>> \o <<b>>
            BY <1>2, Tuples, Zenon
          <5> DEFINE e == <<b>>
                     g == <<a>>
          <5>2. e \in Seq(Bytes) /\ g \in Seq(Bytes)
            BY <2>2
          <5> HIDE DEF e, g
          <5>3. (s \o g) \o e = s \o (g \o e)
            BY <2>2, <5>2, Associates
          <5> QED
            BY <5>1, <5>3, Zenon DEF e, g
        <4>2. s \o q \in Seq(Bytes) /\ (s \o q) \o t = s \o (q \o t)
          <5> HIDE DEF q
          <5>1. s \o q \in Seq(Bytes)
            BY <2>2, <4>1, Tuples, Zenon
          <5>2. (s \o q) \o t = s \o (q \o t)
            BY <2>2, <4>1, Associates
          <5> QED
            BY <5>1, <5>2
        <4>3. (p \o (s \o q)) \o t = p \o ((s \o q) \o t)
          <5> DEFINE g == s \o q
          <5>1. g \in Seq(Bytes)
            BY <4>2
          <5> HIDE DEF g, p
          <5>2. (p \o g) \o t = p \o (g \o t)
            BY <2>2, <5>1, Associates
          <5> QED
            BY <5>2 DEF g
        <4>4. (c \o <<b>>) \o t = p \o (s \o (q \o t))
          BY <2>3, <4>1, <4>2, <4>3, Zenon
        <4>5. Says(p \o (s \o (q \o t))) = Says(t)
          BY <1>2, <2>1, <2>4, SaysSub, Zenon
        <4> QED
          BY <1>4, <4>4, <4>5, Zenon
      <3> QED
        BY <1>1, <1>3, <2>3, <3>1, <3>2, SpeechParts, StepEnds, Zenon DEF R
    <2>5. CASE b # "se"
      <3>1. R.at = "sb" /\ R.p = r.p
        BY <1>1, <1>9, <2>5 DEF Took
      <3>2. R.at \notin {"none", "data", "iac", "opt", "sbIac"}
        BY <3>1
      <3>3. Quiet((s \o <<a>>) \o <<b>>)
        BY <1>2, <2>1, <2>5, QuietPairs, Zenon
      <3>4. Pending(R, c \o <<b>>)
        BY <2>3, <3>1, <3>2, <3>3, Zenon DEF Pending
      <3> QED
        BY <1>1, <2>3, <3>1, <3>4, StepGrows, Zenon DEF R
    <2> QED
      BY <2>4, <2>5
  <1> QED
    BY <1>1, <1>5, <1>6, <1>7, <1>8, <1>9 DEF Places

-----------------------------------------------------------------------------
(* What was read so far, whatever comes behind it.                         *)

Hear(seen, X, r) ==
  \E c : Pending(r, c) /\ \A t \in Seq(Bytes) : Says(seen \o t) = Plus(X, Says(c \o t))

LEMMA NoReadFacts ==
  /\ NoRead \in Reader /\ NoRead.at = "none" /\ NoRead.p = <<>> /\ Bounded(NoRead)
  /\ [NoRead EXCEPT !.at = "data"] \in Reader /\ [NoRead EXCEPT !.at = "data"].at = "data"
  /\ [NoRead EXCEPT !.at = "data"].p = <<>> /\ Bounded([NoRead EXCEPT !.at = "data"])
  <1>1. "none" \in Places /\ "data" \in Places /\ <<>> \in Seq(Bytes) /\ 0 \in Nat
    BY DEF Places
  <1>2. NoRead \in Reader /\ [NoRead EXCEPT !.at = "data"] \in Reader
    BY <1>1 DEF NoRead, Reader
  <1>3. /\ NoRead.at = "none" /\ NoRead.p = <<>> /\ NoRead.negs = 0 /\ NoRead.sb = 0
        /\ [NoRead EXCEPT !.at = "data"].at = "data" /\ [NoRead EXCEPT !.at = "data"].p = <<>>
        /\ [NoRead EXCEPT !.at = "data"].negs = 0 /\ [NoRead EXCEPT !.at = "data"].sb = 0
    BY DEF NoRead
  <1>4. Len(<<>>) = 0
    OBVIOUS
  <1>5. \A r : r.negs = 0 /\ r.sb = 0 /\ r.p = <<>> => Bounded(r)
    BY <1>4, LimitsFacts DEF Bounded
  <1> QED
    BY <1>2, <1>3, <1>5, Zenon

LEMMA HearSays ==
  ASSUME NEW s \in Seq(Bytes), NEW X \in Speech, NEW r \in Reader, Hear(s, X, r)
  PROVE  Says(s) = X
  <1>1. PICK c : Pending(r, c) /\ \A t \in Seq(Bytes) : Says(s \o t) = Plus(X, Says(c \o t))
    BY DEF Hear
  <1>2. c \in Seq(Bytes) /\ <<>> \in Seq(Bytes)
    BY <1>1, Tuples, Zenon DEF Pending
  <1>3. s \o <<>> = s /\ c \o <<>> = c
    BY <1>2, Tuples, Zenon
  <1>4. Says(c) = Nothing
    BY <1>1, PendingSays, Zenon
  <1>5. Plus(X, Nothing) = X
    BY PlusFacts, Zenon
  <1> QED
    BY <1>1, <1>2, <1>3, <1>4, <1>5, Zenon

LEMMA HearStep ==
  ASSUME NEW s \in Seq(Bytes), NEW in \in Seq(Bytes), NEW rep \in Replies,
         NEW r \in Reader, r.at # "none", NEW b \in Bytes,
         Hear(s, [input |-> in \o r.p, replies |-> rep], r)
  PROVE  LET R == Scan(r, b)
             q == IF r.at = "opt" THEN negotiate(r.verb, b) ELSE <<>>
         IN q \in Replies /\ Hear(Append(s, b), [input |-> in \o R.p, replies |-> rep \o q], R)
  <1> DEFINE R == Scan(r, b)
             q == IF r.at = "opt" THEN negotiate(r.verb, b) ELSE <<>>
             X == [input |-> in \o r.p, replies |-> rep]
             Y == [input |-> in \o R.p, replies |-> rep \o q]
  <1>1. PICK c : Pending(r, c) /\ \A t \in Seq(Bytes) : Says(s \o t) = Plus(X, Says(c \o t))
    BY Zenon DEF Hear
  <1>2. PICK d, E : Stepped(r, b, c, d, E)
    BY <1>1, ByteSteps, Zenon
  <1>3. /\ Pending(R, d) /\ E \in Speech
        /\ \A t \in Seq(Bytes) : Says(c \o (<<b>> \o t)) = Plus(E, Says(d \o t))
        /\ R.p = r.p \o E.input /\ E.replies = q
    BY <1>2, Zenon DEF Stepped
  <1>4. /\ r.p \in Seq(Bytes) /\ E.input \in Seq(Bytes) /\ E.replies \in Replies /\ d \in Seq(Bytes)
    BY <1>3 DEF Reader, Speech, Pending
  <1> HIDE DEF R, q
  <1>5. X \in Speech
    <2>1. in \o r.p \in Seq(Bytes)
      BY <1>4, Tuples, Zenon
    <2> QED
      BY <2>1 DEF Speech
  <1>6. Plus(X, E) = Y
    <2>1. (in \o r.p) \o E.input = in \o (r.p \o E.input)
      BY <1>4, Associates
    <2>2. X.input = in \o r.p /\ X.replies = rep
      BY DEF X
    <2> HIDE DEF X
    <2> QED
      BY <1>3, <2>1, <2>2, Zenon DEF Plus
  <1> HIDE DEF X
  <1>7. ASSUME NEW t \in Seq(Bytes) PROVE Says(Append(s, b) \o t) = Plus(Y, Says(d \o t))
    <2>1. <<b>> \in Seq(Bytes) /\ Append(s, b) = s \o <<b>>
      BY Tuples, Zenon
    <2> DEFINE e == <<b>>
    <2> HIDE DEF e
    <2>2. e \in Seq(Bytes) /\ Append(s, b) = s \o e
      BY <2>1 DEF e
    <2>3. (s \o e) \o t = s \o (e \o t) /\ e \o t \in Seq(Bytes)
      <3>1. (s \o e) \o t = s \o (e \o t)
        BY <2>2, Associates
      <3>2. e \o t \in Seq(Bytes)
        BY <2>2, Tuples, Zenon
      <3> QED
        BY <3>1, <3>2
    <2>4. Says(s \o (e \o t)) = Plus(X, Says(c \o (e \o t)))
      BY <1>1, <2>3, Zenon
    <2>5. Says(c \o (e \o t)) = Plus(E, Says(d \o t))
      BY <1>3, Zenon DEF e
    <2>6. Says(d \o t) \in Speech
      BY <1>4, SaysType, Tuples, Zenon
    <2>7. Plus(Plus(X, E), Says(d \o t)) = Plus(X, Plus(E, Says(d \o t)))
      <3> DEFINE z == Says(d \o t)
      <3> HIDE DEF z
      <3>1. E \in Speech /\ X \in Speech /\ z \in Speech
        BY <1>3, <1>5, <2>6 DEF z
      <3>2. Plus(Plus(X, E), z) = Plus(X, Plus(E, z))
        BY ONLY <3>1, PlusFacts
      <3> QED
        BY <3>2 DEF z
    <2> HIDE DEF Y
    <2> QED
      BY <1>6, <2>2, <2>3, <2>4, <2>5, <2>7, Zenon
  <1>8. Hear(Append(s, b), Y, R)
    <2> HIDE DEF Y
    <2> QED
      BY <1>3, <1>7, Zenon DEF Hear
  <1> QED
    BY <1>3, <1>4, <1>8 DEF R, q

\* A Read that returns between two commands, or begins there.
HearsSo(s, in, rep, r) == Hear(s, [input |-> in \o r.p, replies |-> rep], r)
Between(r) == r.at \in {"none", "data"}

LEMMA HearBetween ==
  ASSUME NEW s, NEW in \in Seq(Bytes), NEW rep, NEW r \in Reader, Between(r),
         HearsSo(s, in, rep, r), NEW R, Between(R), R.p = <<>>
  PROVE  HearsSo(s, in \o r.p, rep, R)
  <1> DEFINE X == [input |-> in \o r.p, replies |-> rep]
  <1>1. PICK c : Pending(r, c) /\ \A t \in Seq(Bytes) : Says(s \o t) = Plus(X, Says(c \o t))
    BY Zenon DEF Hear, HearsSo
  <1>2. c = <<>> /\ c \in Seq(Bytes)
    BY <1>1, Zenon DEF Between, Pending
  <1>3. R.at \notin {"iac", "opt", "sb", "sbIac"}
    BY DEF Between
  <1>4. Pending(R, c)
    BY <1>2, <1>3, Zenon DEF Between, Pending
  <1>5. (in \o r.p) \o R.p = in \o r.p
    <2>1. r.p \in Seq(Bytes)
      BY DEF Reader
    <2>2. in \o r.p \in Seq(Bytes)
      BY <2>1, Tuples, Zenon
    <2> QED
      BY <2>2, Tuples, Zenon
  <1>6. Hear(s, X, R)
    <2> HIDE DEF X
    <2> QED
      BY <1>1, <1>4, Zenon DEF Hear
  <1> QED
    BY <1>5, <1>6, Zenon DEF HearsSo

-----------------------------------------------------------------------------
(* Lines.                                                                  *)

NoLines == [lines |-> <<>>, open |-> <<>>, cr |-> FALSE]
After(s, g, i) == IF i = 0 THEN NoLines ELSE Reads(g[i - 1], s[i])
Follows(s, g) == g = [i \in 0..Len(s) |-> After(s, g, i)]

LEMMA FollowsExists ==
  ASSUME NEW s \in Seq(Bytes)
  PROVE  \E g : Follows(s, g)
  <1> DEFINE L == Len(s)
             Upto(n, g) == \A i \in 0..L : i <= n => g[i] = After(s, g, i)
             T == {n \in Nat : \E g : Upto(n, g)}
  <1>0. L \in Nat
    OBVIOUS
  <1>1. 0 \in T
    <2> DEFINE g == [i \in 0..L |-> NoLines]
    <2>1. ASSUME NEW i \in 0..L, i <= 0 PROVE g[i] = After(s, g, i)
      <3>1. i = 0
        BY <1>0, <2>1
      <3>2. g[i] = NoLines
        OBVIOUS
      <3> QED
        BY <3>1, <3>2 DEF After
    <2>2. Upto(0, g)
      BY <2>1
    <2> QED
      BY <2>2
  <1>2. ASSUME NEW n \in Nat, n \in T PROVE n + 1 \in T
    <2>1. PICK h : Upto(n, h)
      BY <1>2
    <2> DEFINE g == [i \in 0..L |-> IF i <= n THEN h[i] ELSE After(s, h, i)]
    <2>2. ASSUME NEW i \in 0..L, i <= n + 1 PROVE g[i] = After(s, g, i)
      <3>1. g[i] = After(s, h, i)
        BY <2>1
      <3>2. i # 0 => i - 1 \in 0..L /\ i - 1 <= n
        BY <1>0, <2>2
      <3>3. i # 0 => g[i - 1] = h[i - 1]
        BY <3>2
      <3> HIDE DEF g
      <3> QED
        BY <3>1, <3>3 DEF After
    <2>3. Upto(n + 1, g)
      <3> HIDE DEF g
      <3> QED
        BY <2>2, Zenon
    <2>4. n + 1 \in Nat
      OBVIOUS
    <2> HIDE DEF g, Upto
    <2> QED
      BY <2>3, <2>4
  <1> HIDE DEF T
  <1>3. L \in T
    BY <1>0, <1>1, <1>2, CountUp
  <1>4. PICK h : Upto(L, h)
    BY <1>3 DEF T
  <1> DEFINE g == [i \in 0..L |-> h[i]]
  <1>5. ASSUME NEW i \in 0..L PROVE h[i] = After(s, g, i)
    <2>1. h[i] = After(s, h, i)
      BY <1>0, <1>4
    <2>2. i # 0 => i - 1 \in 0..L
      BY <1>0
    <2>3. i # 0 => g[i - 1] = h[i - 1]
      BY <2>2
    <2> HIDE DEF g
    <2> QED
      BY <2>1, <2>3 DEF After
  <1>6. Follows(s, g)
    <2>1. g = [i \in 0..L |-> After(s, g, i)]
      BY <1>5
    <2> QED
      BY <2>1 DEF Follows
  <1> QED
    BY <1>6

Chain(s) == CHOOSE g : Follows(s, g)

LEMMA LinesUnfold ==
  ASSUME NEW s \in Seq(Bytes)
  PROVE  /\ LinesOf(s) = Chain(s)[Len(s)]
         /\ Chain(s)[0] = NoLines
         /\ \A i \in 1..Len(s) : Chain(s)[i] = Reads(Chain(s)[i - 1], s[i])
  <1>1. Follows(s, Chain(s))
    BY FollowsExists, Zenon DEF Chain
  <1>2. \A i \in 0..Len(s) : Chain(s)[i] = After(s, Chain(s), i)
    BY <1>1, Zenon DEF Follows
  <1>3. LinesOf(s) = Chain(s)[Len(s)]
    BY Zenon DEF LinesOf, Chain, Follows, After, NoLines
  <1>4. Len(s) \in Nat
    OBVIOUS
  <1>5. 0 \in 0..Len(s) /\ \A i \in 1..Len(s) : i \in 0..Len(s) /\ i # 0
    BY <1>4
  <1> QED
    BY <1>2, <1>3, <1>5, Zenon DEF After

LEMMA NoInputNoLines == LinesOf(<<>>) = NoLines
  <1> DEFINE s == <<>>
  <1>1. s \in Seq(Bytes) /\ Len(s) = 0
    OBVIOUS
  <1> HIDE DEF s
  <1>2. LinesOf(s) = NoLines
    BY <1>1, LinesUnfold
  <1> QED
    BY <1>2 DEF s

LEMMA LinesAppend ==
  ASSUME NEW s \in Seq(Bytes), NEW b \in Bytes
  PROVE  LinesOf(s \o <<b>>) = Reads(LinesOf(s), b)
  <1> DEFINE u == s \o <<b>>
             L == Len(s)
             F == Chain(s)
             G == Chain(u)
             T == {n \in Nat : n <= L => G[n] = F[n]}
  <1>1. /\ u \in Seq(Bytes) /\ L \in Nat /\ Len(u) = L + 1 /\ u[L + 1] = b
        /\ \A i \in 1..L : u[i] = s[i]
    OBVIOUS
  <1>2. /\ LinesOf(s) = F[L] /\ F[0] = NoLines
        /\ \A i \in 1..L : F[i] = Reads(F[i - 1], s[i])
    BY LinesUnfold
  <1>3. /\ LinesOf(u) = G[Len(u)] /\ G[0] = NoLines
        /\ \A i \in 1..Len(u) : G[i] = Reads(G[i - 1], u[i])
    BY <1>1, LinesUnfold
  <1> HIDE DEF u, L, F, G
  <1>4. 0 \in T
    BY <1>2, <1>3
  <1>5. ASSUME NEW n \in Nat, n \in T PROVE n + 1 \in T
    <2> SUFFICES ASSUME n + 1 <= L PROVE G[n + 1] = F[n + 1]
      OBVIOUS
    <2>1. n + 1 \in 1..L /\ n + 1 \in 1..Len(u) /\ (n + 1) - 1 = n /\ n <= L
      BY <1>1
    <2>2. G[n + 1] = Reads(G[n], u[n + 1]) /\ F[n + 1] = Reads(F[n], s[n + 1])
      BY <1>2, <1>3, <2>1
    <2>3. G[n] = F[n] /\ u[n + 1] = s[n + 1]
      BY <1>1, <1>5, <2>1
    <2> QED
      BY <2>2, <2>3
  <1> HIDE DEF T
  <1>6. L \in T
    BY <1>1, <1>4, <1>5, CountUp
  <1>7. G[L] = F[L]
    BY <1>1, <1>6 DEF T
  <1>8. G[L + 1] = Reads(G[L], b)
    <2>1. L + 1 \in 1..Len(u) /\ (L + 1) - 1 = L
      BY <1>1
    <2> QED
      BY <1>1, <1>3, <2>1
  <1>9. LinesOf(u) = Reads(LinesOf(s), b)
    BY <1>1, <1>2, <1>3, <1>7, <1>8
  <1> QED
    BY <1>9 DEF u

\* What one more byte makes of the lines.
ReadsTo(ls, o, x, b, R) ==
  /\ x /\ b \in {"lf", "nul"} => R = [lines |-> ls, open |-> o, cr |-> FALSE]
  /\ ~x /\ b = "lf" => R = [lines |-> Append(ls, o), open |-> <<>>, cr |-> FALSE]
  /\ b = "cr" => R = [lines |-> Append(ls, o), open |-> <<>>, cr |-> TRUE]
  /\ b \notin {"lf", "cr"} /\ ~(x /\ b = "nul") =>
       R = IF Len(Append(o, b)) = MaxLine
           THEN [lines |-> Append(ls, Append(o, b)), open |-> <<>>, cr |-> FALSE]
           ELSE [lines |-> ls, open |-> Append(o, b), cr |-> FALSE]

LEMMA ReadsCases ==
  ASSUME NEW ls, NEW o, NEW x \in BOOLEAN, NEW b
  PROVE  ReadsTo(ls, o, x, b, Reads([lines |-> ls, open |-> o, cr |-> x], b))
  <1> DEFINE a == [lines |-> ls, open |-> o, cr |-> x]
             p == Append(o, b)
             n == [lines |-> ls, open |-> p, cr |-> FALSE]
             m == [a EXCEPT !.open = Append(@, b), !.cr = FALSE]
             F == FALSE
             T == TRUE
  <1> HIDE DEF F, T
  <1>1. a.cr = x /\ a.lines = ls /\ a.open = o
    OBVIOUS
  <1>2. m = n
    <2>1. m = [a EXCEPT !.open = p, !.cr = FALSE]
      BY <1>1, Zenon
    <2>2. [a EXCEPT !.open = p, !.cr = F] = [lines |-> ls, open |-> p, cr |-> F]
      <3> HIDE DEF p
      <3>1. [a EXCEPT !.open = p] = [lines |-> ls, open |-> p, cr |-> x]
        OBVIOUS
      <3>2. [a EXCEPT !.open = p, !.cr = F] = [[a EXCEPT !.open = p] EXCEPT !.cr = F]
        OBVIOUS
      <3>3. [[lines |-> ls, open |-> p, cr |-> x] EXCEPT !.cr = F] = [lines |-> ls, open |-> p, cr |-> F]
        OBVIOUS
      <3> QED
        BY <3>1, <3>2, <3>3
    <2> QED
      BY <2>1, <2>2 DEF F
  <1>3. Ended(a) = [lines |-> Append(ls, o), open |-> <<>>, cr |-> FALSE]
    BY <1>1, Zenon DEF Ended
  <1>4. [Ended(a) EXCEPT !.cr = TRUE] = [lines |-> Append(ls, o), open |-> <<>>, cr |-> TRUE]
    <2> DEFINE e == <<>>
               k == Append(ls, o)
    <2> HIDE DEF e, k
    <2>1. [[lines |-> k, open |-> e, cr |-> F] EXCEPT !.cr = T] = [lines |-> k, open |-> e, cr |-> T]
      OBVIOUS
    <2> QED
      BY <1>3, <2>1 DEF e, k, F, T
  <1>5. [a EXCEPT !.cr = FALSE] = [lines |-> ls, open |-> o, cr |-> FALSE]
    <2>1. [a EXCEPT !.cr = F] = [lines |-> ls, open |-> o, cr |-> F]
      OBVIOUS
    <2> QED
      BY <2>1 DEF F
  <1>6. n.open = p /\ Ended(n) = [lines |-> Append(ls, p), open |-> <<>>, cr |-> FALSE]
    <2>1. n.open = p /\ n.lines = ls
      OBVIOUS
    <2> HIDE DEF n
    <2> QED
      BY <2>1, Zenon DEF Ended
  <1>7. Reads(a, b) = CASE x /\ b \in {"lf", "nul"} -> [a EXCEPT !.cr = FALSE]
                        [] ~x /\ b = "lf"           -> Ended(a)
                        [] b = "cr"                 -> [Ended(a) EXCEPT !.cr = TRUE]
                        [] OTHER -> IF Len(m.open) = MaxLine THEN Ended(m) ELSE m
    <2> HIDE DEF a
    <2> QED
      BY <1>1, Zenon DEF Reads
  <1>8. "cr" # "lf" /\ "cr" # "nul"
    OBVIOUS
  <1> DEFINE c1 == [a EXCEPT !.cr = FALSE]
             c2 == Ended(a)
             c3 == [Ended(a) EXCEPT !.cr = TRUE]
             c4 == IF Len(m.open) = MaxLine THEN Ended(m) ELSE m
             R == Reads(a, b)
  <1>9. R = CASE x /\ b \in {"lf", "nul"} -> c1
              [] ~x /\ b = "lf"           -> c2
              [] b = "cr"                 -> c3
              [] OTHER -> c4
    BY <1>7
  <1>10. c4 = IF Len(p) = MaxLine THEN [lines |-> Append(ls, p), open |-> <<>>, cr |-> FALSE] ELSE n
    BY <1>2, <1>6, Zenon
  <1> HIDE DEF c1, c2, c3, c4, R
  <1>11. /\ x /\ b \in {"lf", "nul"} => R = c1
         /\ ~x /\ b = "lf" => R = c2
         /\ b = "cr" => R = c3
         /\ b \notin {"lf", "cr"} /\ ~(x /\ b = "nul") => R = c4
    BY <1>8, <1>9
  <1> QED
    BY <1>3, <1>4, <1>5, <1>10, <1>11, Zenon DEF ReadsTo, c1, c2, c3, R, a

\* What ReadLine has made of the bytes k it took: p, l and ls are where it is,
\* its line and the lines before, bs the bytes it has not taken.
LineAt(k, p, l, ls, bs) ==
  \E x \in BOOLEAN :
     /\ LinesOf(k) = [lines |-> IF p = "peek" THEN Append(ls, l) ELSE ls,
                      open |-> IF p = "line" THEN l ELSE <<>>, cr |-> x]
     /\ p = "peek" => x
     /\ x /\ p # "peek" => bs # <<>> /\ Head(bs) \notin {"lf", "nul"}
     /\ p = "line" => Len(l) < MaxLine

LEMMA LineTaken ==
  ASSUME NEW k \in Seq(Bytes), NEW l \in Seq(Bytes), NEW ls, NEW b \in Bytes, NEW bs, NEW ts,
         Head(bs) = b, LineAt(k, "line", l, ls, bs)
  PROVE  /\ b = "lf" => LineAt(k \o <<b>>, "caller", l, Append(ls, l), ts)
         /\ b = "cr" => LineAt(k \o <<b>>, "peek", l, ls, ts)
         /\ b \notin {"lf", "cr"} /\ Len(Append(l, b)) >= MaxLine =>
              LineAt(k \o <<b>>, "caller", Append(l, b), Append(ls, Append(l, b)), ts)
         /\ b \notin {"lf", "cr"} /\ ~(Len(Append(l, b)) >= MaxLine) =>
              LineAt(k \o <<b>>, "line", Append(l, b), ls, ts)
  <1> DEFINE m == Append(l, b)
             u == k \o <<b>>
  <1>0. "line" # "peek" /\ "caller" # "peek" /\ "caller" # "line" /\ "peek" # "line" /\ "lf" # "cr"
    OBVIOUS
  <1>1. PICK x \in BOOLEAN :
           /\ LinesOf(k) = [lines |-> ls, open |-> l, cr |-> x]
           /\ x => b \notin {"lf", "nul"}
           /\ Len(l) < MaxLine
    BY <1>0, Zenon DEF LineAt
  <1>2. LinesOf(u) = Reads([lines |-> ls, open |-> l, cr |-> x], b)
    BY <1>1, LinesAppend, Zenon
  <1>3. Len(m) \in Nat /\ Len(m) <= MaxLine
    BY <1>1, LimitsFacts
  <1> HIDE DEF u, m
  <1>4. /\ b = "lf" => LinesOf(u) = [lines |-> Append(ls, l), open |-> <<>>, cr |-> FALSE]
        /\ b = "cr" => LinesOf(u) = [lines |-> Append(ls, l), open |-> <<>>, cr |-> TRUE]
        /\ b \notin {"lf", "cr"} => LinesOf(u) = IF Len(m) = MaxLine
                                                 THEN [lines |-> Append(ls, m), open |-> <<>>, cr |-> FALSE]
                                                 ELSE [lines |-> ls, open |-> m, cr |-> FALSE]
    <2>1. b = "lf" => ~x
      BY <1>1
    <2>2. ~(x /\ b = "nul")
      BY <1>1
    <2>3. ReadsTo(ls, l, x, b, LinesOf(u))
      BY <1>2, ReadsCases, Zenon
    <2> QED
      BY <2>1, <2>2, <2>3, Zenon DEF ReadsTo, m
  <1>5. ASSUME b = "lf" PROVE LineAt(u, "caller", l, Append(ls, l), ts)
    BY <1>0, <1>4, <1>5, Zenon DEF LineAt
  <1>6. ASSUME b = "cr" PROVE LineAt(u, "peek", l, ls, ts)
    BY <1>0, <1>4, <1>6, Zenon DEF LineAt
  <1>7. ASSUME b \notin {"lf", "cr"}, Len(m) >= MaxLine PROVE LineAt(u, "caller", m, Append(ls, m), ts)
    <2>1. Len(m) = MaxLine
      BY <1>3, <1>7, LimitsFacts
    <2> QED
      BY <1>0, <1>4, <1>7, <2>1, Zenon DEF LineAt
  <1>8. ASSUME b \notin {"lf", "cr"}, ~(Len(m) >= MaxLine) PROVE LineAt(u, "line", m, ls, ts)
    <2>1. Len(m) # MaxLine /\ Len(m) < MaxLine
      BY <1>3, <1>8, LimitsFacts
    <2> QED
      BY <1>0, <1>4, <1>8, <2>1, Zenon DEF LineAt
  <1> QED
    BY <1>5, <1>6, <1>7, <1>8 DEF u, m

LEMMA LinePeeked ==
  ASSUME NEW k \in Seq(Bytes), NEW l, NEW ls, NEW b \in Bytes, NEW bs, NEW ts,
         bs # <<>>, Head(bs) = b, LineAt(k, "peek", l, ls, bs)
  PROVE  /\ b \in {"lf", "nul"} => LineAt(k \o <<b>>, "caller", l, Append(ls, l), ts)
         /\ b \notin {"lf", "nul"} => LineAt(k, "caller", l, Append(ls, l), bs)
  <1>0. "caller" # "peek" /\ "caller" # "line" /\ "peek" # "line"
    OBVIOUS
  <1>1. LinesOf(k) = [lines |-> Append(ls, l), open |-> <<>>, cr |-> TRUE]
    <2>1. PICK x \in BOOLEAN : LinesOf(k) = [lines |-> Append(ls, l), open |-> <<>>, cr |-> x] /\ x
      BY <1>0, Zenon DEF LineAt
    <2>2. x = TRUE
      BY <2>1, Zenon
    <2> QED
      BY <2>1, <2>2, Zenon
  <1>2. ASSUME b \in {"lf", "nul"} PROVE LineAt(k \o <<b>>, "caller", l, Append(ls, l), ts)
    <2>1. LinesOf(k \o <<b>>) = Reads([lines |-> Append(ls, l), open |-> <<>>, cr |-> TRUE], b)
      BY <1>1, LinesAppend, Zenon
    <2>2. LinesOf(k \o <<b>>) = [lines |-> Append(ls, l), open |-> <<>>, cr |-> FALSE]
      <3>1. ReadsTo(Append(ls, l), <<>>, TRUE, b, LinesOf(k \o <<b>>))
        BY <2>1, ReadsCases, Zenon
      <3> QED
        BY <1>2, <3>1, Zenon DEF ReadsTo
    <2> QED
      BY <1>0, <2>2, Zenon DEF LineAt
  <1>3. ASSUME b \notin {"lf", "nul"} PROVE LineAt(k, "caller", l, Append(ls, l), bs)
    BY <1>0, <1>1, <1>3, Zenon DEF LineAt
  <1> QED
    BY <1>2, <1>3

LEMMA LineStarts ==
  ASSUME NEW k, NEW l, NEW ls, NEW bs, LineAt(k, "caller", l, ls, bs)
  PROVE  LineAt(k, "line", <<>>, ls, bs)
  <1>0. "caller" # "peek" /\ "caller" # "line" /\ "line" # "peek"
    OBVIOUS
  <1>1. Len(<<>>) < MaxLine
    BY LimitsFacts
  <1> QED
    BY <1>0, <1>1, Zenon DEF LineAt

LEMMA LineMore ==
  ASSUME NEW k, NEW p, NEW l, NEW ls, NEW bs \in Seq(Bytes), NEW v \in Seq(Bytes), LineAt(k, p, l, ls, bs)
  PROVE  LineAt(k, p, l, ls, bs \o v)
  <1>1. bs # <<>> => bs \o v # <<>> /\ Head(bs \o v) = Head(bs)
    OBVIOUS
  <1> DEFINE ws == bs \o v
  <1> HIDE DEF ws
  <1>2. bs # <<>> => ws # <<>> /\ Head(ws) = Head(bs)
    BY <1>1 DEF ws
  <1>3. LineAt(k, p, l, ls, ws)
    BY <1>2, Zenon DEF LineAt
  <1> QED
    BY <1>3 DEF ws

\* Taking a byte moves it from the bytes behind to those before.
LEMMA MoveOne ==
  ASSUME NEW k \in Seq(Bytes), NEW bs \in Seq(Bytes), bs # <<>>
  PROVE  /\ Head(bs) \in Bytes /\ Tail(bs) \in Seq(Bytes) /\ k \o <<Head(bs)>> \in Seq(Bytes)
         /\ (k \o <<Head(bs)>>) \o Tail(bs) = k \o bs
  <1> DEFINE h == Head(bs)
             t == Tail(bs)
             e == <<h>>
  <1>1. h \in Bytes /\ t \in Seq(Bytes)
    OBVIOUS
  <1>2. e \o t = bs
    OBVIOUS
  <1>3. e \in Seq(Bytes) /\ k \o e \in Seq(Bytes)
    BY <1>1, Tuples, Zenon
  <1> HIDE DEF h, t, e
  <1>4. (k \o e) \o t = k \o (e \o t)
    BY <1>1, <1>3, Associates
  <1> QED
    BY <1>1, <1>2, <1>3, <1>4 DEF h, t, e

LEMMA TakenPart ==
  ASSUME NEW k \in Seq(Bytes), NEW bs \in Seq(Bytes)
  PROVE  SubSeq(k \o bs, 1, Len(k \o bs) - Len(bs)) = k
  <1> DEFINE s == k \o bs
             n == Len(s) - Len(bs)
             u == SubSeq(s, 1, n)
  <1>1. /\ s \in Seq(Bytes) /\ Len(k) \in Nat /\ Len(bs) \in Nat /\ Len(s) = Len(k) + Len(bs)
        /\ \A i \in 1..Len(k) : s[i] = k[i]
    BY JoinFacts, Zenon
  <1> HIDE DEF s
  <1>2. n = Len(k) /\ n <= Len(s)
    BY <1>1
  <1> HIDE DEF n
  <1>3. u \in Seq(Bytes) /\ Len(u) = Len(k) /\ \A i \in 1..Len(k) : u[i] = s[i]
    <2>1. u = [i \in 1..Len(k) |-> s[i]]
      BY <1>1, <1>2
    <2> QED
      BY <1>1, <1>2
  <1> HIDE DEF u
  <1>4. u = k
    BY <1>1, <1>3, SeqEqual
  <1> QED
    BY <1>4 DEF u, n, s

-----------------------------------------------------------------------------
(* The invariant.                                                          *)

\* Types, as far as they matter.
Typed ==
  /\ pc \in {"caller", "line", "peek"} /\ rd \in Reader /\ line \in Seq(Bytes)
  /\ buf = [bytes |-> buf.bytes, err |-> buf.err] /\ buf.bytes \in Seq(Bytes)
  /\ net = [flight |-> net.flight, sent |-> net.sent, late |-> net.late, gone |-> net.gone]
  /\ net.flight \in Seq(Bytes)
  /\ log = [seen |-> log.seen, input |-> log.input, replies |-> log.replies, lines |-> log.lines,
            cut |-> log.cut, failed |-> log.failed]
  /\ log.seen \in Seq(Bytes) /\ log.input \in Seq(Bytes) /\ log.replies \in Replies

\* The Read in progress and those before it heard what was said.
Decoded ==
  /\ Bounded(rd) /\ (rd.at = "none" => rd.p = <<>>)
  /\ ~log.cut => Hear(log.seen, [input |-> log.input \o rd.p, replies |-> log.replies], rd)

\* ReadLine makes the lines of what it took, and the rest is in the buffer.
Lined ==
  \E k \in Seq(Bytes) :
     /\ log.input = k \o buf.bytes
     /\ ~log.failed => LineAt(k, pc, line, log.lines, buf.bytes)

TelnetInv == Typed /\ Decoded /\ Lined

\* What becomes of a record of which one part changes.
LEMMA BufChange ==
  ASSUME Typed, NEW x
  PROVE  /\ [buf EXCEPT !.bytes = x] = [bytes |-> x, err |-> buf.err]
         /\ [buf EXCEPT !.err = x] = [bytes |-> buf.bytes, err |-> x]
  <1> DEFINE b == buf.bytes
             e == buf.err
             y == x
  <1> HIDE DEF b, e, y
  <1>1. buf = [bytes |-> b, err |-> e]
    BY DEF Typed, b, e
  <1>2. [[bytes |-> b, err |-> e] EXCEPT !.bytes = y] = [bytes |-> y, err |-> e]
    OBVIOUS
  <1>3. [[bytes |-> b, err |-> e] EXCEPT !.err = y] = [bytes |-> b, err |-> y]
    OBVIOUS
  <1> QED
    BY <1>1, <1>2, <1>3, Zenon DEF b, e, y

LEMMA NetChange ==
  ASSUME Typed, NEW x, NEW z
  PROVE  /\ [net EXCEPT !.flight = x] = [flight |-> x, sent |-> net.sent, late |-> net.late, gone |-> net.gone]
         /\ [net EXCEPT !.late = x] = [flight |-> net.flight, sent |-> net.sent, late |-> x, gone |-> net.gone]
         /\ [net EXCEPT !.gone = x] = [flight |-> net.flight, sent |-> net.sent, late |-> net.late, gone |-> x]
         /\ [net EXCEPT !.flight = x, !.sent = z] = [flight |-> x, sent |-> z, late |-> net.late, gone |-> net.gone]
  <1> DEFINE f == net.flight
             s == net.sent
             l == net.late
             g == net.gone
             y == x
             w == z
  <1> HIDE DEF f, s, l, g, y, w
  <1>1. net = [flight |-> f, sent |-> s, late |-> l, gone |-> g]
    BY DEF Typed, f, s, l, g
  <1>2. [[flight |-> f, sent |-> s, late |-> l, gone |-> g] EXCEPT !.flight = y]
          = [flight |-> y, sent |-> s, late |-> l, gone |-> g]
    OBVIOUS
  <1>3. [[flight |-> f, sent |-> s, late |-> l, gone |-> g] EXCEPT !.late = y]
          = [flight |-> f, sent |-> s, late |-> y, gone |-> g]
    OBVIOUS
  <1>4. [[flight |-> f, sent |-> s, late |-> l, gone |-> g] EXCEPT !.gone = y]
          = [flight |-> f, sent |-> s, late |-> l, gone |-> y]
    OBVIOUS
  <1>5. [[flight |-> f, sent |-> s, late |-> l, gone |-> g] EXCEPT !.flight = y, !.sent = w]
          = [flight |-> y, sent |-> w, late |-> l, gone |-> g]
    <2>1. [[flight |-> f, sent |-> s, late |-> l, gone |-> g] EXCEPT !.flight = y, !.sent = w]
            = [[[flight |-> f, sent |-> s, late |-> l, gone |-> g] EXCEPT !.flight = y] EXCEPT !.sent = w]
      OBVIOUS
    <2>2. [[flight |-> y, sent |-> s, late |-> l, gone |-> g] EXCEPT !.sent = w]
            = [flight |-> y, sent |-> w, late |-> l, gone |-> g]
      OBVIOUS
    <2> QED
      BY <1>2, <2>1, <2>2
  <1> QED
    BY <1>1, <1>2, <1>3, <1>4, <1>5, Zenon DEF f, s, l, g, y, w

LEMMA LogChange ==
  ASSUME Typed, NEW x, NEW y, NEW z, NEW w
  PROVE  /\ [log EXCEPT !.lines = x] = [seen |-> log.seen, input |-> log.input, replies |-> log.replies, lines |-> x, cut |-> log.cut, failed |-> log.failed]
         /\ [log EXCEPT !.input = x, !.cut = y] = [seen |-> log.seen, input |-> x, replies |-> log.replies, lines |-> log.lines, cut |-> y, failed |-> log.failed]
         /\ [log EXCEPT !.failed = x, !.lines = y] = [seen |-> log.seen, input |-> log.input, replies |-> log.replies, lines |-> y, cut |-> log.cut, failed |-> x]
         /\ [log EXCEPT !.seen = x, !.input = y, !.replies = z, !.cut = w] = [seen |-> x, input |-> y, replies |-> z, lines |-> log.lines, cut |-> w, failed |-> log.failed]
  <1> DEFINE s == log.seen
             i == log.input
             r == log.replies
             l == log.lines
             c == log.cut
             f == log.failed
             a == x
             b == y
             d == z
             e == w
             v == [seen |-> s, input |-> i, replies |-> r, lines |-> l, cut |-> c, failed |-> f]
  <1> HIDE DEF s, i, r, l, c, f, a, b, d, e
  <1>1. log = v
    BY DEF Typed, s, i, r, l, c, f
  <1>2. [v EXCEPT !.lines = a] = [seen |-> s, input |-> i, replies |-> r, lines |-> a, cut |-> c, failed |-> f]
    OBVIOUS
  <1>3. [v EXCEPT !.input = a, !.cut = b] = [seen |-> s, input |-> a, replies |-> r, lines |-> l, cut |-> b, failed |-> f]
    <2>1. [v EXCEPT !.input = a, !.cut = b] = [[v EXCEPT !.input = a] EXCEPT !.cut = b]
      OBVIOUS
    <2>2. [v EXCEPT !.input = a] = [seen |-> s, input |-> a, replies |-> r, lines |-> l, cut |-> c, failed |-> f]
      OBVIOUS
    <2>3. [[seen |-> s, input |-> a, replies |-> r, lines |-> l, cut |-> c, failed |-> f] EXCEPT !.cut = b] = [seen |-> s, input |-> a, replies |-> r, lines |-> l, cut |-> b, failed |-> f]
      OBVIOUS
    <2> QED
      BY <2>1, <2>2, <2>3
  <1>4. [v EXCEPT !.failed = a, !.lines = b] = [seen |-> s, input |-> i, replies |-> r, lines |-> b, cut |-> c, failed |-> a]
    <2>1. [v EXCEPT !.failed = a, !.lines = b] = [[v EXCEPT !.failed = a] EXCEPT !.lines = b]
      OBVIOUS
    <2>2. [v EXCEPT !.failed = a] = [seen |-> s, input |-> i, replies |-> r, lines |-> l, cut |-> c, failed |-> a]
      OBVIOUS
    <2>3. [[seen |-> s, input |-> i, replies |-> r, lines |-> l, cut |-> c, failed |-> a] EXCEPT !.lines = b] = [seen |-> s, input |-> i, replies |-> r, lines |-> b, cut |-> c, failed |-> a]
      OBVIOUS
    <2> QED
      BY <2>1, <2>2, <2>3
  <1>5. [v EXCEPT !.seen = a, !.input = b, !.replies = d, !.cut = e] = [seen |-> a, input |-> b, replies |-> d, lines |-> l, cut |-> e, failed |-> f]
    <2>1. [v EXCEPT !.seen = a, !.input = b, !.replies = d, !.cut = e]
            = [[[[v EXCEPT !.seen = a] EXCEPT !.input = b] EXCEPT !.replies = d] EXCEPT !.cut = e]
      OBVIOUS
    <2>2. [v EXCEPT !.seen = a] = [seen |-> a, input |-> i, replies |-> r, lines |-> l, cut |-> c, failed |-> f]
      OBVIOUS
    <2>3. [[seen |-> a, input |-> i, replies |-> r, lines |-> l, cut |-> c, failed |-> f] EXCEPT !.input = b] = [seen |-> a, input |-> b, replies |-> r, lines |-> l, cut |-> c, failed |-> f]
      OBVIOUS
    <2>4. [[seen |-> a, input |-> b, replies |-> r, lines |-> l, cut |-> c, failed |-> f] EXCEPT !.replies = d] = [seen |-> a, input |-> b, replies |-> d, lines |-> l, cut |-> c, failed |-> f]
      OBVIOUS
    <2>5. [[seen |-> a, input |-> b, replies |-> d, lines |-> l, cut |-> c, failed |-> f] EXCEPT !.cut = e] = [seen |-> a, input |-> b, replies |-> d, lines |-> l, cut |-> e, failed |-> f]
      OBVIOUS
    <2> QED
      BY <2>1, <2>2, <2>3, <2>4, <2>5
  <1> QED
    BY <1>1, <1>2, <1>3, <1>4, <1>5, Zenon DEF s, i, r, l, c, f, a, b, d, e

LEMMA StartDecoded == Init => TelnetInv
  <1> SUFFICES ASSUME Init PROVE TelnetInv
    OBVIOUS
  <1>1. /\ pc = "caller" /\ rd = NoRead /\ line = <<>> /\ buf.bytes = <<>> /\ net.flight = <<>>
        /\ log.seen = <<>> /\ log.input = <<>> /\ log.replies = <<>> /\ log.lines = <<>>
    BY DEF Init
  <1>2. <<>> \in Seq(Bytes) /\ <<>> \in Replies /\ <<>> \o <<>> = <<>>
    BY DEF Replies
  <1>3. Typed
    <2>1. buf = [bytes |-> buf.bytes, err |-> buf.err]
      BY Zenon DEF Init
    <2>2. net = [flight |-> net.flight, sent |-> net.sent, late |-> net.late, gone |-> net.gone]
      BY Zenon DEF Init
    <2>3. log = [seen |-> log.seen, input |-> log.input, replies |-> log.replies, lines |-> log.lines,
                 cut |-> log.cut, failed |-> log.failed]
      BY Zenon DEF Init
    <2> QED
      BY <1>1, <1>2, <2>1, <2>2, <2>3, NoReadFacts, Zenon DEF Typed
  <1>4. Decoded
    <2>1. \A t \in Seq(Bytes) : Says(<<>> \o t) = Plus(Nothing, Says(<<>> \o t))
      <3> SUFFICES ASSUME NEW t \in Seq(Bytes) PROVE Says(<<>> \o t) = Plus(Nothing, Says(<<>> \o t))
        OBVIOUS
      <3>1. <<>> \o t = t /\ Says(t) \in Speech /\ Nothing \in Speech
        BY Tuples, SaysType, SpeechFacts, Zenon
      <3> QED
        BY <3>1, PlusFacts, Zenon
    <2>2. NoRead.at \notin {"iac", "opt", "sb", "sbIac"}
      BY NoReadFacts
    <2>3. Pending(NoRead, <<>>)
      BY <1>2, <2>2, Zenon DEF Pending
    <2>4. Hear(<<>>, Nothing, NoRead)
      BY <2>1, <2>3, Zenon DEF Hear
    <2>5. Hear(log.seen, [input |-> log.input \o rd.p, replies |-> log.replies], rd)
      BY <1>1, <1>2, <2>4, NoReadFacts, Zenon DEF Nothing
    <2> QED
      BY <1>1, <2>5, NoReadFacts, Zenon DEF Decoded
  <1>5. Lined
    <2>1. "caller" # "peek" /\ "caller" # "line"
      OBVIOUS
    <2>2. LineAt(<<>>, "caller", <<>>, <<>>, <<>>)
      BY <2>1, NoInputNoLines, Zenon DEF LineAt, NoLines
    <2>3. log.input = <<>> \o buf.bytes /\ (~log.failed => LineAt(<<>>, pc, line, log.lines, buf.bytes))
      BY <1>1, <1>2, <2>2, Zenon
    <2> QED
      BY <1>2, <2>3, Zenon DEF Lined
  <1> QED
    BY <1>3, <1>4, <1>5 DEF TelnetInv

\* A step that leaves the Read alone.
LEMMA DecodedSame ==
  ASSUME Decoded, rd' = rd, log'.seen = log.seen, log'.input = log.input, log'.replies = log.replies,
         log'.cut = log.cut
  PROVE  Decoded'
  BY Zenon DEF Decoded

\* A step of the client or the clock.
LEMMA NetStep ==
  ASSUME TelnetInv, UNCHANGED <<pc, rd, buf, line, log>>, net'.flight \in Seq(Bytes),
         net' = [flight |-> net'.flight, sent |-> net'.sent, late |-> net'.late, gone |-> net'.gone]
  PROVE  TelnetInv'
  <1>1. Typed'
    BY Zenon DEF TelnetInv, Typed
  <1>2. Decoded' /\ Lined'
    BY Zenon DEF TelnetInv, Decoded, Lined
  <1> QED
    BY <1>1, <1>2 DEF TelnetInv

LEMMA SendStep == TelnetInv /\ Send => TelnetInv'
  <1> SUFFICES ASSUME TelnetInv, Send PROVE TelnetInv'
    OBVIOUS
  <1>1. PICK u \in Units : net' = [net EXCEPT !.flight = u, !.sent = @ + 1]
    BY DEF Send
  <1>2. net' = [net EXCEPT !.flight = u, !.sent = net.sent + 1]
    BY <1>1, Zenon
  <1>3. net' = [flight |-> u, sent |-> net.sent + 1, late |-> net.late, gone |-> net.gone]
    BY <1>2, NetChange, Zenon DEF TelnetInv
  <1>4. u \in Seq(Bytes)
    BY ByteFacts
  <1>5. net'.flight = u /\ net' = [flight |-> net'.flight, sent |-> net'.sent, late |-> net'.late, gone |-> net'.gone]
    BY <1>3, Zenon
  <1> QED
    BY <1>4, <1>5, NetStep, Zenon DEF Send

LEMMA HangUpStep == TelnetInv /\ HangUp => TelnetInv'
  <1> SUFFICES ASSUME TelnetInv, HangUp PROVE TelnetInv'
    OBVIOUS
  <1>1. net' = [flight |-> net.flight, sent |-> net.sent, late |-> net.late, gone |-> TRUE]
    BY NetChange, Zenon DEF TelnetInv, HangUp
  <1>2. net'.flight = net.flight /\ net' = [flight |-> net'.flight, sent |-> net'.sent, late |-> net'.late, gone |-> net'.gone]
    BY <1>1, Zenon
  <1>3. net.flight \in Seq(Bytes)
    BY DEF TelnetInv, Typed
  <1> QED
    BY <1>2, <1>3, NetStep, Zenon DEF HangUp

LEMMA DeadlineStep == TelnetInv /\ Deadline => TelnetInv'
  <1> SUFFICES ASSUME TelnetInv, Deadline PROVE TelnetInv'
    OBVIOUS
  <1>1. net' = [flight |-> net.flight, sent |-> net.sent, late |-> TRUE, gone |-> net.gone]
    BY NetChange, Zenon DEF TelnetInv, Deadline
  <1>2. net'.flight = net.flight /\ net' = [flight |-> net'.flight, sent |-> net'.sent, late |-> net'.late, gone |-> net'.gone]
    BY <1>1, Zenon
  <1>3. net.flight \in Seq(Bytes)
    BY DEF TelnetInv, Typed
  <1> QED
    BY <1>2, <1>3, NetStep, Zenon DEF Deadline

LEMMA ReadLineStep == TelnetInv /\ ReadLine => TelnetInv'
  <1> SUFFICES ASSUME TelnetInv, ReadLine PROVE TelnetInv'
    OBVIOUS
  <1>1. pc = "caller" /\ pc' = "line" /\ line' = <<>> /\ rd' = rd /\ buf' = buf /\ log' = log
    BY DEF ReadLine
  <1>2. net' = [flight |-> net.flight, sent |-> net.sent, late |-> FALSE, gone |-> net.gone]
    BY NetChange, Zenon DEF TelnetInv, ReadLine
  <1>3. net'.flight = net.flight /\ net' = [flight |-> net'.flight, sent |-> net'.sent, late |-> net'.late, gone |-> net'.gone]
    BY <1>2, Zenon
  <1>4. Typed'
    <2>1. <<>> \in Seq(Bytes)
      OBVIOUS
    <2> QED
      BY <1>1, <1>3, <2>1, Zenon DEF TelnetInv, Typed
  <1>5. Decoded'
    BY <1>1, DecodedSame, Zenon DEF TelnetInv
  <1>6. Lined'
    <2>1. PICK k \in Seq(Bytes) : /\ log.input = k \o buf.bytes
                                  /\ ~log.failed => LineAt(k, pc, line, log.lines, buf.bytes)
      BY Zenon DEF TelnetInv, Lined
    <2>2. ~log.failed => LineAt(k, "line", <<>>, log.lines, buf.bytes)
      BY <1>1, <2>1, LineStarts, Zenon
    <2> QED
      BY <1>1, <2>1, <2>2, Zenon DEF Lined
  <1> QED
    BY <1>4, <1>5, <1>6 DEF TelnetInv

\* The part of a step of ReadLine that all of them share: bytes move from the
\* buffer to what was taken, and the lines are those of what was taken.
LEMMA LineStep ==
  ASSUME TelnetInv, rd' = rd, net' = net, pc' \in {"caller", "line", "peek"}, line' \in Seq(Bytes),
         NEW bs \in Seq(Bytes), NEW e, buf' = [bytes |-> bs, err |-> e],
         NEW ls, NEW f,
         log' = [seen |-> log.seen, input |-> log.input, replies |-> log.replies, lines |-> ls,
                 cut |-> log.cut, failed |-> f],
         NEW k \in Seq(Bytes), log.input = k \o bs, ~f => LineAt(k, pc', line', ls, bs)
  PROVE  TelnetInv'
  <1>1. buf'.bytes = bs /\ buf' = [bytes |-> buf'.bytes, err |-> buf'.err]
    BY Zenon
  <1>2. /\ log'.seen = log.seen /\ log'.input = log.input /\ log'.replies = log.replies /\ log'.lines = ls
        /\ log'.cut = log.cut /\ log'.failed = f
        /\ log' = [seen |-> log'.seen, input |-> log'.input, replies |-> log'.replies, lines |-> log'.lines,
                   cut |-> log'.cut, failed |-> log'.failed]
    BY Zenon
  <1>3. Typed'
    BY <1>1, <1>2, Zenon DEF TelnetInv, Typed
  <1>4. Decoded'
    BY <1>2, DecodedSame, Zenon DEF TelnetInv
  <1>5. Lined'
    BY <1>1, <1>2, Zenon DEF Lined
  <1> QED
    BY <1>3, <1>4, <1>5 DEF TelnetInv

LEMMA LogSame ==
  ASSUME Typed
  PROVE  log = [seen |-> log.seen, input |-> log.input, replies |-> log.replies, lines |-> log.lines,
                cut |-> log.cut, failed |-> log.failed]
  BY Zenon DEF Typed

LEMMA TakeByteStep == TelnetInv /\ TakeByte => TelnetInv'
  <1> SUFFICES ASSUME TelnetInv, TakeByte PROVE TelnetInv'
    OBVIOUS
  <1> DEFINE c == Head(buf.bytes)
             ts == Tail(buf.bytes)
             l == Append(line, c)
  <1>1. Typed /\ line \in Seq(Bytes) /\ buf.bytes \in Seq(Bytes)
    BY DEF TelnetInv, Typed
  <1>2. /\ pc = "line" /\ buf.bytes # <<>> /\ rd' = rd /\ net' = net
        /\ buf' = [buf EXCEPT !.bytes = ts]
        /\ \/ c = "lf" /\ Return(line) /\ line' = line
           \/ c = "cr" /\ pc' = "peek" /\ line' = line /\ log' = log
           \/ /\ c \notin {"lf", "cr"} /\ line' = l
              /\ IF Len(l) >= MaxLine THEN Return(l) ELSE pc' = pc /\ log' = log
    BY Zenon DEF TakeByte
  <1>3. buf' = [bytes |-> ts, err |-> buf.err]
    BY <1>1, <1>2, BufChange, Zenon
  <1>4. PICK k \in Seq(Bytes) : /\ log.input = k \o buf.bytes
                                /\ ~log.failed => LineAt(k, pc, line, log.lines, buf.bytes)
    BY Zenon DEF TelnetInv, Lined
  <1> DEFINE u == k \o <<c>>
  <1>5. c \in Bytes /\ ts \in Seq(Bytes) /\ u \in Seq(Bytes) /\ log.input = u \o ts
    BY <1>1, <1>2, <1>4, MoveOne, Zenon
  <1>6. l \in Seq(Bytes)
    <2> HIDE DEF c
    <2> QED
      BY <1>1, <1>5
  <1>7. ~log.failed =>
         /\ c = "lf" => LineAt(u, "caller", line, Append(log.lines, line), ts)
         /\ c = "cr" => LineAt(u, "peek", line, log.lines, ts)
         /\ c \notin {"lf", "cr"} /\ Len(l) >= MaxLine => LineAt(u, "caller", l, Append(log.lines, l), ts)
         /\ c \notin {"lf", "cr"} /\ ~(Len(l) >= MaxLine) => LineAt(u, "line", l, log.lines, ts)
    BY <1>1, <1>2, <1>4, <1>5, LineTaken, Zenon
  <1> HIDE DEF c, ts, l, u
  <1>8. \A x : Return(x) => /\ pc' = "caller"
                            /\ log' = [seen |-> log.seen, input |-> log.input, replies |-> log.replies,
                                       lines |-> Append(log.lines, x), cut |-> log.cut, failed |-> log.failed]
    BY <1>1, LogChange, Zenon DEF Return
  <1>9. CASE c = "lf" /\ Return(line) /\ line' = line
    <2>1. ~log.failed => LineAt(u, pc', line', Append(log.lines, line), ts)
      BY <1>7, <1>8, <1>9, Zenon
    <2> QED
      BY <1>1, <1>2, <1>3, <1>5, <1>8, <1>9, <2>1, LineStep, Zenon
  <1>10. CASE c = "cr" /\ pc' = "peek" /\ line' = line /\ log' = log
    <2>1. ~log.failed => LineAt(u, pc', line', log.lines, ts)
      BY <1>7, <1>10, Zenon
    <2>2. log' = [seen |-> log.seen, input |-> log.input, replies |-> log.replies, lines |-> log.lines,
                  cut |-> log.cut, failed |-> log.failed]
      BY <1>1, <1>10, LogSame, Zenon
    <2> QED
      BY <1>1, <1>2, <1>3, <1>5, <1>10, <2>1, <2>2, LineStep, Zenon
  <1>11. CASE c \notin {"lf", "cr"} /\ line' = l /\ Len(l) >= MaxLine /\ Return(l)
    <2>1. ~log.failed => LineAt(u, pc', line', Append(log.lines, l), ts)
      BY <1>7, <1>8, <1>11, Zenon
    <2> QED
      BY <1>2, <1>3, <1>5, <1>6, <1>8, <1>11, <2>1, LineStep, Zenon
  <1>12. CASE c \notin {"lf", "cr"} /\ line' = l /\ ~(Len(l) >= MaxLine) /\ pc' = pc /\ log' = log
    <2>1. ~log.failed => LineAt(u, pc', line', log.lines, ts)
      BY <1>2, <1>7, <1>12, Zenon
    <2>2. log' = [seen |-> log.seen, input |-> log.input, replies |-> log.replies, lines |-> log.lines,
                  cut |-> log.cut, failed |-> log.failed]
      BY <1>1, <1>12, LogSame, Zenon
    <2> QED
      BY <1>2, <1>3, <1>5, <1>6, <1>12, <2>1, <2>2, LineStep, Zenon
  <1> QED
    BY <1>2, <1>9, <1>10, <1>11, <1>12, Zenon

LEMMA PeekByteStep == TelnetInv /\ PeekByte => TelnetInv'
  <1> SUFFICES ASSUME TelnetInv, PeekByte PROVE TelnetInv'
    OBVIOUS
  <1> DEFINE c == Head(buf.bytes)
             ts == Tail(buf.bytes)
             ls == Append(log.lines, line)
  <1>1. Typed /\ line \in Seq(Bytes) /\ buf.bytes \in Seq(Bytes)
    BY DEF TelnetInv, Typed
  <1>2. /\ pc = "peek" /\ buf.bytes # <<>> /\ rd' = rd /\ net' = net /\ line' = line
        /\ buf' = IF c \in {"lf", "nul"} THEN [buf EXCEPT !.bytes = ts] ELSE buf
        /\ pc' = "caller" /\ log' = [log EXCEPT !.lines = ls]
    BY Zenon DEF PeekByte, Return
  <1>3. log' = [seen |-> log.seen, input |-> log.input, replies |-> log.replies,
                lines |-> ls, cut |-> log.cut, failed |-> log.failed]
    BY <1>1, <1>2, LogChange, Zenon
  <1>4. PICK k \in Seq(Bytes) : /\ log.input = k \o buf.bytes
                                /\ ~log.failed => LineAt(k, pc, line, log.lines, buf.bytes)
    BY Zenon DEF TelnetInv, Lined
  <1> DEFINE u == k \o <<c>>
  <1>5. c \in Bytes /\ ts \in Seq(Bytes) /\ u \in Seq(Bytes) /\ log.input = u \o ts
    BY <1>1, <1>2, <1>4, MoveOne, Zenon
  <1>6. ~log.failed =>
         /\ c \in {"lf", "nul"} => LineAt(u, "caller", line, ls, ts)
         /\ c \notin {"lf", "nul"} => LineAt(k, "caller", line, ls, buf.bytes)
    BY <1>2, <1>4, <1>5, LinePeeked, Zenon
  <1> HIDE DEF c, ts, ls, u
  <1>7. CASE c \in {"lf", "nul"}
    <2>1. buf' = [bytes |-> ts, err |-> buf.err]
      BY <1>1, <1>2, <1>7, BufChange, Zenon
    <2>2. ~log.failed => LineAt(u, pc', line', ls, ts)
      BY <1>2, <1>6, <1>7, Zenon
    <2> QED
      BY <1>1, <1>2, <1>3, <1>5, <2>1, <2>2, LineStep, Zenon
  <1>8. CASE c \notin {"lf", "nul"}
    <2>1. buf' = [bytes |-> buf.bytes, err |-> buf.err]
      BY <1>1, <1>2, <1>8, Zenon DEF Typed
    <2>2. ~log.failed => LineAt(k, pc', line', ls, buf.bytes)
      BY <1>2, <1>6, <1>8, Zenon
    <2> QED
      BY <1>1, <1>2, <1>3, <1>4, <2>1, <2>2, LineStep, Zenon
  <1> QED
    BY <1>7, <1>8

LEMMA TakeErrorStep == TelnetInv /\ TakeError => TelnetInv'
  <1> SUFFICES ASSUME TelnetInv, TakeError PROVE TelnetInv'
    OBVIOUS
  <1> DEFINE ls == IF pc = "peek" THEN Append(log.lines, line) ELSE log.lines
  <1>1. Typed /\ line \in Seq(Bytes) /\ buf.bytes \in Seq(Bytes)
    BY DEF TelnetInv, Typed
  <1>2. /\ rd' = rd /\ net' = net /\ line' = line /\ pc' = "caller" /\ buf' = [buf EXCEPT !.err = FALSE]
        /\ log' = [log EXCEPT !.failed = TRUE, !.lines = ls]
    BY Zenon DEF TakeError
  <1>3. buf' = [bytes |-> buf.bytes, err |-> FALSE]
    BY <1>1, <1>2, BufChange, Zenon
  <1>4. log' = [seen |-> log.seen, input |-> log.input, replies |-> log.replies,
                lines |-> ls, cut |-> log.cut, failed |-> TRUE]
    BY <1>1, <1>2, LogChange, Zenon
  <1>5. PICK k \in Seq(Bytes) : log.input = k \o buf.bytes
    BY Zenon DEF TelnetInv, Lined
  <1> QED
    BY <1>1, <1>2, <1>3, <1>4, <1>5, LineStep, Zenon

\* What a Read hands on joins the input and the buffer alike.
LEMMA LinedMore ==
  ASSUME Typed, Lined, NEW v \in Seq(Bytes), pc' = pc, line' = line,
         log'.input = log.input \o v, buf'.bytes = buf.bytes \o v,
         log'.lines = log.lines, log'.failed = log.failed
  PROVE  Lined'
  <1>1. PICK k \in Seq(Bytes) : /\ log.input = k \o buf.bytes
                                /\ ~log.failed => LineAt(k, pc, line, log.lines, buf.bytes)
    BY Zenon DEF Lined
  <1>2. buf.bytes \in Seq(Bytes)
    BY DEF Typed
  <1> DEFINE bs == buf.bytes
  <1>3. bs \in Seq(Bytes)
    BY <1>2
  <1> HIDE DEF bs
  <1>4. (k \o bs) \o v = k \o (bs \o v)
    BY <1>3, Associates
  <1>5. ~log.failed => LineAt(k, pc, line, log.lines, bs \o v)
    BY <1>1, <1>3, LineMore, Zenon DEF bs
  <1>6. log'.input = k \o buf'.bytes
    BY <1>1, <1>4, Zenon DEF bs
  <1>7. ~log'.failed => LineAt(k, pc', line', log'.lines, buf'.bytes)
    BY <1>5, Zenon DEF bs
  <1> QED
    BY <1>6, <1>7, Zenon DEF Lined

LEMMA FillStep == TelnetInv /\ Fill => TelnetInv'
  <1> SUFFICES ASSUME TelnetInv, Fill PROVE TelnetInv'
    OBVIOUS
  <1> DEFINE R == [NoRead EXCEPT !.at = "data"]
  <1>1. /\ rd.at = "none" /\ rd' = R
        /\ pc' = pc /\ buf' = buf /\ line' = line /\ net' = net /\ log' = log
    BY Zenon DEF Fill
  <1>2. R \in Reader /\ R.at = "data" /\ R.p = <<>> /\ Bounded(R)
    BY NoReadFacts, Zenon
  <1> HIDE DEF R
  <1>3. Typed'
    BY <1>1, <1>2, Zenon DEF TelnetInv, Typed
  <1>4. Lined'
    BY <1>1, Zenon DEF TelnetInv, Lined
  <1>5. Decoded'
    <2>1. rd \in Reader /\ rd.p = <<>> /\ log.input \in Seq(Bytes)
      BY <1>1, Zenon DEF TelnetInv, Typed, Decoded
    <2>2. R.at # "none"
      BY <1>2
    <2>3. log.input \o <<>> = log.input
      BY <2>1, Tuples, Zenon
    <2>4. ASSUME ~log.cut PROVE Hear(log.seen, [input |-> log.input \o R.p, replies |-> log.replies], R)
      <3>1. Hear(log.seen, [input |-> log.input \o rd.p, replies |-> log.replies], rd)
        BY <2>4, Zenon DEF TelnetInv, Decoded
      <3>2. Hear(log.seen, [input |-> (log.input \o rd.p) \o R.p, replies |-> log.replies], R)
        <4>1. Between(rd) /\ Between(R) /\ HearsSo(log.seen, log.input, log.replies, rd)
          BY <1>1, <1>2, <3>1 DEF Between, HearsSo
        <4>2. HearsSo(log.seen, log.input \o rd.p, log.replies, R)
          BY <1>2, <2>1, <4>1, HearBetween, Zenon
        <4> QED
          BY <4>2, Zenon DEF HearsSo
      <3>3. (log.input \o rd.p) \o R.p = log.input \o R.p
        BY <1>2, <2>1, <2>3, Zenon
      <3> QED
        BY <3>2, <3>3, Zenon
    <2> QED
      BY <1>1, <1>2, <2>2, <2>4, Zenon DEF Decoded
  <1> QED
    BY <1>3, <1>4, <1>5 DEF TelnetInv

LEMMA ReadFailsStep == TelnetInv /\ ReadFails => TelnetInv'
  <1> SUFFICES ASSUME TelnetInv, ReadFails PROVE TelnetInv'
    OBVIOUS
  <1> DEFINE e == rd.p = <<>> \/ rd.at \in {"sb", "sbIac"}
             in == log.input \o rd.p
             bs == buf.bytes \o rd.p
             cut == log.cut \/ rd.at # "data"
  <1>1. /\ rd' = NoRead /\ buf' = [bytes |-> bs, err |-> e]
        /\ log' = [log EXCEPT !.input = in, !.cut = cut]
        /\ pc' = pc /\ line' = line /\ net' = net
    BY Zenon DEF ReadFails, ReadReturns
  <1>2. /\ Typed /\ rd \in Reader /\ rd.p \in Seq(Bytes) /\ buf.bytes \in Seq(Bytes) /\ log.input \in Seq(Bytes)
    BY DEF TelnetInv, Typed, Reader
  <1>3. in \in Seq(Bytes) /\ bs \in Seq(Bytes)
    BY <1>2, Tuples, Zenon
  <1>4. log' = [seen |-> log.seen, input |-> in, replies |-> log.replies,
                lines |-> log.lines, cut |-> cut, failed |-> log.failed]
    BY <1>1, <1>2, LogChange, Zenon
  <1> HIDE DEF e, in, bs, cut
  <1>5. buf'.bytes = bs /\ buf' = [bytes |-> buf'.bytes, err |-> buf'.err]
    BY <1>1, Zenon
  <1>6. /\ log'.seen = log.seen /\ log'.input = in /\ log'.replies = log.replies /\ log'.lines = log.lines
        /\ log'.cut = cut /\ log'.failed = log.failed
        /\ log' = [seen |-> log'.seen, input |-> log'.input, replies |-> log'.replies, lines |-> log'.lines,
                   cut |-> log'.cut, failed |-> log'.failed]
    BY <1>4, Zenon
  <1>7. Typed'
    BY <1>1, <1>3, <1>5, <1>6, NoReadFacts, Zenon DEF TelnetInv, Typed
  <1>8. Lined'
    BY <1>1, <1>2, <1>5, <1>6, LinedMore, Zenon DEF TelnetInv, in, bs
  <1>9. Decoded'
    <2>1. ASSUME ~cut PROVE Hear(log.seen, [input |-> in \o NoRead.p, replies |-> log.replies], NoRead)
      <3>1. ~log.cut /\ rd.at = "data"
        BY <2>1, Zenon DEF cut
      <3>2. Hear(log.seen, [input |-> log.input \o rd.p, replies |-> log.replies], rd)
        BY <3>1, Zenon DEF TelnetInv, Decoded
      <3>3. Hear(log.seen, [input |-> (log.input \o rd.p) \o NoRead.p, replies |-> log.replies], NoRead)
        <4>1. Between(rd) /\ Between(NoRead) /\ HearsSo(log.seen, log.input, log.replies, rd)
          BY <3>1, <3>2, NoReadFacts DEF Between, HearsSo
        <4>2. HearsSo(log.seen, log.input \o rd.p, log.replies, NoRead)
          BY <1>2, <4>1, NoReadFacts, HearBetween, Zenon
        <4> QED
          BY <4>2, Zenon DEF HearsSo
      <3> QED
        BY <3>3, Zenon DEF in
    <2> QED
      BY <1>1, <1>6, <2>1, NoReadFacts, Zenon DEF Decoded
  <1> QED
    BY <1>7, <1>8, <1>9 DEF TelnetInv

\* A Read that returns without cutting a command in two returns behind one.
LEMMA ReturnsBetween ==
  ASSUME rd \in Reader, rd.at # "none", NEW b \in Bytes, Bounded(rd),
         Flood(Scan(rd, b)) \/ Full(Scan(rd, b), b), ~Oversized(Scan(rd, b))
  PROVE  Scan(rd, b).at = "data"
  <1> DEFINE R == Scan(rd, b)
  <1>1. Took(rd, b, R) /\ R \in Reader
    BY ScanTakes, ScanType
  <1>2. rd.at \in Places /\ rd.negs \in Nat /\ rd.negs <= MaxNegs
    BY DEF Reader, Bounded
  <1>3. CASE Flood(R)
    <2>1. R.negs > MaxNegs
      BY <1>3 DEF Flood
    <2>2. R.negs # rd.negs
      <3> HIDE DEF R
      <3> QED
        BY <1>2, <2>1, LimitsFacts
    <2> HIDE DEF R
    <2>3. rd.at = "opt"
      BY <1>1, <1>2, <2>2 DEF Took, Places
    <2>4. R.at = "data"
      BY <1>1, <2>3 DEF Took
    <2> QED
      BY <2>4 DEF R
  <1>4. CASE Full(R, b)
    <2>1. R.at = "data" \/ (rd.at = "data" /\ b = "lf")
      BY <1>4, Zenon DEF Full
    <2> HIDE DEF R
    <2>2. "lf" # "iac"
      OBVIOUS
    <2>3. R.at = "data"
      BY <1>1, <2>1, <2>2 DEF Took
    <2> QED
      BY <2>3 DEF R
  <1> QED
    BY <1>3, <1>4

LEMMA ReceiveStep == TelnetInv /\ Receive => TelnetInv'
  <1> SUFFICES ASSUME TelnetInv, Receive PROVE TelnetInv'
    OBVIOUS
  <1> DEFINE b == Head(net.flight)
             R == Scan(rd, b)
             q == IF rd.at = "opt" THEN negotiate(rd.verb, b) ELSE <<>>
             back == Flood(R) \/ Oversized(R) \/ Full(R, b)
             seen == Append(log.seen, b)
             in == IF rd' = NoRead THEN log.input \o R.p ELSE log.input
             rep == log.replies \o q
             cut == log.cut \/ Oversized(R)
             fl == Tail(net.flight)
  <1>1. /\ Typed /\ Decoded /\ Lined /\ rd \in Reader /\ rd.p \in Seq(Bytes) /\ buf.bytes \in Seq(Bytes)
        /\ log.input \in Seq(Bytes) /\ log.seen \in Seq(Bytes) /\ log.replies \in Replies
        /\ net.flight \in Seq(Bytes)
    BY DEF TelnetInv, Typed, Reader
  <1>2. rd.at # "none" /\ net.flight # <<>> /\ ReadByte(b) /\ net' = [net EXCEPT !.flight = fl]
    BY Zenon DEF Receive
  <1>3. b \in Bytes /\ fl \in Seq(Bytes)
    BY <1>1, <1>2
  <1>4. /\ back => rd' = NoRead /\ buf'.bytes = buf.bytes \o R.p /\ buf' = [bytes |-> buf'.bytes, err |-> buf'.err]
        /\ ~back => rd' = R /\ buf' = buf
    <2>1. IF Flood(R) \/ Oversized(R) THEN ReadReturns(R, TRUE)
          ELSE IF Full(R, b) THEN ReadReturns(R, FALSE)
          ELSE rd' = R /\ UNCHANGED buf
      BY <1>2, Zenon DEF ReadByte
    <2>2. ASSUME NEW e, ReadReturns(R, e)
          PROVE  rd' = NoRead /\ buf'.bytes = buf.bytes \o R.p /\ buf' = [bytes |-> buf'.bytes, err |-> buf'.err]
      BY <2>2, Zenon DEF ReadReturns
    <2> HIDE DEF R
    <2> QED
      BY <2>1, <2>2, Zenon
  <1>5. pc' = pc /\ line' = line /\ log' = Logged(R, b)
    BY <1>2, Zenon DEF ReadByte
  <1>6. R \in Reader /\ R.at # "none" /\ R.p \in Seq(Bytes) /\ R # NoRead
    <2>1. R \in Reader /\ R.at # "none"
      BY <1>1, <1>2, <1>3, ScanType, Zenon
    <2>2. R.p \in Seq(Bytes)
      BY <2>1 DEF Reader
    <2> QED
      BY <2>1, <2>2, NoReadFacts, Zenon
  <1>7. q \in Replies /\ rep \in Replies
    <2>1. q \in Replies
      <3>1. CASE rd.at = "opt"
        <4>1. negotiate(rd.verb, b) \in {<<[verb |-> "wont", opt |-> b]>>, <<[verb |-> "dont", opt |-> b]>>, <<>>}
          BY DEF negotiate
        <4> DEFINE x == [verb |-> "wont", opt |-> b]
                   y == [verb |-> "dont", opt |-> b]
                   V == [verb : Verbs, opt : Bytes]
        <4>2. x \in V /\ y \in V
          BY <1>3 DEF Verbs
        <4> HIDE DEF x, y, V
        <4>3. <<x>> \in Seq(V) /\ <<y>> \in Seq(V) /\ <<>> \in Seq(V)
          BY <4>2, OneByte
        <4> QED
          BY <3>1, <4>1, <4>3, Zenon DEF Replies, x, y, V
      <3>2. CASE rd.at # "opt"
        <4>1. <<>> \in Replies
          BY DEF Replies
        <4> QED
          BY <3>2, <4>1, Zenon
      <3> QED
        BY <3>1, <3>2
    <2> HIDE DEF q
    <2>2. rep \in Replies
      BY <1>1, <2>1, ConcatProperties DEF Replies
    <2> QED
      BY <2>1, <2>2 DEF q
  <1>8. log' = [log EXCEPT !.seen = seen, !.input = in, !.replies = rep, !.cut = cut]
    <2>1. rep = IF rd.at = "opt" THEN log.replies \o negotiate(rd.verb, b) ELSE log.replies
      <3>1. log.replies \o <<>> = log.replies
        BY <1>1, ConcatEmptySeq DEF Replies
      <3> QED
        BY <3>1, Zenon
    <2>2. log' = [log EXCEPT !.seen = Append(log.seen, b),
                             !.input = IF rd' = NoRead THEN log.input \o R.p ELSE log.input,
                             !.replies = IF rd.at = "opt" THEN log.replies \o negotiate(rd.verb, b) ELSE log.replies,
                             !.cut = log.cut \/ Oversized(R)]
      BY <1>5, Zenon DEF Logged
    <2> QED
      BY <2>1, <2>2, Zenon
  <1>9. log' = [seen |-> seen, input |-> in, replies |-> rep,
                lines |-> log.lines, cut |-> cut, failed |-> log.failed]
    BY <1>1, <1>8, LogChange, Zenon
  <1>10. seen \in Seq(Bytes) /\ in \in Seq(Bytes)
    <2>1. seen \in Seq(Bytes)
      BY <1>1, <1>3, AppendProperties, Zenon
    <2>2. log.input \o R.p \in Seq(Bytes)
      BY <1>1, <1>6, Tuples, Zenon
    <2> QED
      BY <1>1, <2>1, <2>2, Zenon
  <1>11. ~log.cut => Hear(seen, [input |-> log.input \o R.p, replies |-> rep], R)
    <2>1. ASSUME ~log.cut PROVE Hear(seen, [input |-> log.input \o R.p, replies |-> rep], R)
      <3>1. Hear(log.seen, [input |-> log.input \o rd.p, replies |-> log.replies], rd)
        BY <1>1, <2>1, Zenon DEF Decoded
      <3> QED
        BY <1>1, <1>2, <1>3, <3>1, HearStep, Zenon
    <2> QED
      BY <2>1
  <1>12. ~back => Bounded(R)
    <2>1. Bounded(rd)
      BY <1>1, Zenon DEF Decoded
    <2>2. ~back => ~(R.at = "data" /\ Len(R.p) = BufSize)
      BY Zenon DEF Full
    <2> QED
      BY <1>1, <1>2, <1>3, <2>1, <2>2, ScanBounded, Zenon
  <1>13. back /\ ~Oversized(R) => R.at = "data"
    BY <1>1, <1>2, <1>3, ReturnsBetween, Zenon DEF Decoded
  <1>14. net'.flight = fl /\ net' = [flight |-> net'.flight, sent |-> net'.sent, late |-> net'.late, gone |-> net'.gone]
    <2>1. net' = [flight |-> fl, sent |-> net.sent, late |-> net.late, gone |-> net.gone]
      BY <1>1, <1>2, NetChange, Zenon
    <2> QED
      BY <2>1, Zenon
  <1> HIDE DEF R, q, back, seen, in, rep, cut, fl, b
  <1>15. /\ log'.seen = seen /\ log'.input = in /\ log'.replies = rep /\ log'.lines = log.lines
         /\ log'.cut = cut /\ log'.failed = log.failed
         /\ log' = [seen |-> log'.seen, input |-> log'.input, replies |-> log'.replies, lines |-> log'.lines,
                    cut |-> log'.cut, failed |-> log'.failed]
    BY <1>9, Zenon
  <1>16. CASE back
    <2>1. in = log.input \o R.p
      BY <1>4, <1>16, Zenon DEF in
    <2>2. buf.bytes \o R.p \in Seq(Bytes)
      BY <1>1, <1>6, Tuples, Zenon
    <2>3. Typed'
      BY <1>1, <1>3, <1>4, <1>5, <1>7, <1>10, <1>14, <1>15, <1>16, <2>2, NoReadFacts, Zenon DEF Typed
    <2>4. Lined'
      BY <1>1, <1>4, <1>5, <1>6, <1>15, <1>16, <2>1, LinedMore, Zenon
    <2>5. ASSUME ~cut PROVE Hear(seen, [input |-> in \o NoRead.p, replies |-> rep], NoRead)
      <3>1. ~log.cut /\ R.at = "data"
        BY <1>13, <1>16, <2>5, Zenon DEF cut
      <3>2. Hear(seen, [input |-> log.input \o R.p, replies |-> rep], R)
        BY <1>11, <3>1, Zenon
      <3>3. Hear(seen, [input |-> (log.input \o R.p) \o NoRead.p, replies |-> rep], NoRead)
        <4>1. Between(R) /\ Between(NoRead) /\ HearsSo(seen, log.input, rep, R)
          BY <3>1, <3>2, NoReadFacts DEF Between, HearsSo
        <4>2. HearsSo(seen, log.input \o R.p, rep, NoRead)
          BY <1>1, <1>6, <4>1, NoReadFacts, HearBetween, Zenon
        <4> QED
          BY <4>2, Zenon DEF HearsSo
      <3> QED
        BY <2>1, <3>3, Zenon
    <2>6. Decoded'
      BY <1>4, <1>15, <1>16, <2>5, NoReadFacts, Zenon DEF Decoded
    <2> QED
      BY <2>3, <2>4, <2>6 DEF TelnetInv
  <1>17. CASE ~back
    <2>1. in = log.input
      BY <1>4, <1>6, <1>17, Zenon DEF in
    <2>2. Typed'
      BY <1>1, <1>3, <1>4, <1>5, <1>6, <1>7, <1>10, <1>14, <1>15, <1>17, Zenon DEF Typed
    <2>3. Lined'
      BY <1>1, <1>4, <1>5, <1>15, <1>17, <2>1, Zenon DEF Lined
    <2>4. ~cut => Hear(seen, [input |-> in \o R.p, replies |-> rep], R)
      BY <1>11, <2>1, Zenon DEF cut
    <2>5. Decoded'
      BY <1>4, <1>6, <1>12, <1>15, <1>17, <2>4, Zenon DEF Decoded
    <2> QED
      BY <2>2, <2>3, <2>5 DEF TelnetInv
  <1> QED
    BY <1>16, <1>17

LEMMA StaysDecoded == TelnetInv /\ [Next]_vars => TelnetInv'
  <1>1. ASSUME TelnetInv, UNCHANGED vars PROVE TelnetInv'
    BY <1>1, Zenon DEF vars, TelnetInv, Typed, Decoded, Lined
  <1> QED
    BY <1>1, FillStep, ReceiveStep, ReadFailsStep, ReadLineStep, TakeByteStep, PeekByteStep, TakeErrorStep,
       SendStep, HangUpStep, DeadlineStep, Zenon DEF Next

LEMMA DecodedImplies == TelnetInv => StreamDecoded
  <1> SUFFICES ASSUME TelnetInv PROVE StreamDecoded
    OBVIOUS
  <1> DEFINE taken == SubSeq(log.input, 1, Len(log.input) - Len(buf.bytes))
             X == [input |-> log.input \o rd.p, replies |-> log.replies]
  <1>1. /\ rd \in Reader /\ buf.bytes \in Seq(Bytes)
        /\ log.input \in Seq(Bytes) /\ log.seen \in Seq(Bytes) /\ log.replies \in Replies
    BY DEF TelnetInv, Typed
  <1>2. rd.negs <= MaxNegs /\ rd.sb <= MaxSubneg + 1 /\ Len(rd.p) < BufSize
    BY Zenon DEF TelnetInv, Decoded, Bounded
  <1>3. ASSUME ~log.cut PROVE X = Says(log.seen)
    <2>1. Hear(log.seen, X, rd)
      BY <1>3, Zenon DEF TelnetInv, Decoded
    <2>2. X \in Speech
      <3>1. rd.p \in Seq(Bytes)
        BY <1>1 DEF Reader
      <3>2. log.input \o rd.p \in Seq(Bytes)
        BY <1>1, <3>1, Tuples, Zenon
      <3> QED
        BY <1>1, <3>2 DEF Speech
    <2> HIDE DEF X
    <2> QED
      BY <1>1, <2>1, <2>2, HearSays, Zenon
  <1>4. ASSUME ~log.failed
        PROVE  LinesOf(taken).lines = IF pc = "peek" THEN Append(log.lines, line) ELSE log.lines
    <2>1. PICK k \in Seq(Bytes) : log.input = k \o buf.bytes /\ LineAt(k, pc, line, log.lines, buf.bytes)
      BY <1>4, Zenon DEF TelnetInv, Lined
    <2>2. taken = k
      BY <1>1, <2>1, TakenPart, Zenon
    <2>3. PICK x : LinesOf(k) = [lines |-> IF pc = "peek" THEN Append(log.lines, line) ELSE log.lines,
                                 open |-> IF pc = "line" THEN line ELSE <<>>, cr |-> x]
      BY <2>1, Zenon DEF LineAt
    <2> DEFINE ls == IF pc = "peek" THEN Append(log.lines, line) ELSE log.lines
               o == IF pc = "line" THEN line ELSE <<>>
    <2>4. LinesOf(k) = [lines |-> ls, open |-> o, cr |-> x]
      BY <2>3
    <2> HIDE DEF ls, o
    <2>5. LinesOf(k).lines = ls
      BY <2>4
    <2> QED
      BY <2>2, <2>5 DEF ls
  <1> QED
    BY <1>2, <1>3, <1>4, Zenon DEF StreamDecoded

\* Whatever a client sends in whatever pieces, wherever deadlines and errors
\* fall: iacReader.Read hands the session exactly the data of the stream and
\* negotiate answers each option command as it should, until an error cuts a
\* command in two; Session.ReadLine returns the lines of that data, until a
\* read fails; and no Read takes more commands, longer ones, or more data than
\* its limits.
THEOREM StreamIsDecoded == Spec => []StreamDecoded
  <1>1. Init => TelnetInv
    BY StartDecoded
  <1>2. TelnetInv /\ [Next]_vars => TelnetInv'
    BY StaysDecoded
  <1>3. TelnetInv => StreamDecoded
    BY DecodedImplies
  <1> QED
    BY <1>1, <1>2, <1>3, PTL DEF Spec

=============================================================================
