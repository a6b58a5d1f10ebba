------------------------- MODULE BulkDispatchProof -------------------------
(***************************************************************************)
(* Proofs about Schedulers and BulkDispatch for any nodes, devices and     *)
(* requests, any capacity and any number of faults.                        *)
(***************************************************************************)
EXTENDS BulkDispatch, FiniteSetTheorems, SequenceTheorems, WellFoundedInduction, TLAPS

-----------------------------------------------------------------------------
(* Counting. *)

(* A nonempty set of numbers has a least one, which serves as induction. *)
LEMMA Least ==
  ASSUME NEW T \in SUBSET Nat, T # {}
  PROVE  \E x \in T : \A y \in T : x <= y
  <1>1. IsWellFoundedOn(OpToRel(<, Nat), Nat)
    BY NatLessThanWellFounded
  <1>2. PICK x \in T : \A y \in T : ~(<<y, x>> \in OpToRel(<, Nat))
    BY <1>1, WFMin
  <1>3. ASSUME NEW y \in T PROVE x <= y
    <2>1. ~(<<y, x>> \in OpToRel(<, Nat))
      BY <1>2
    <2>2. ~(y < x)
      BY <2>1 DEF OpToRel
    <2>3. QED
      BY <2>2
  <1>4. QED
    BY <1>3

(* Two disjoint finite sets count separately. *)
LEMMA Disjoint ==
  ASSUME NEW S, NEW T, IsFiniteSet(S), IsFiniteSet(T), S \cap T = {}
  PROVE  /\ IsFiniteSet(S \cup T)
         /\ Cardinality(S \cup T) = Cardinality(S) + Cardinality(T)
  <1>1. Cardinality(S) \in Nat /\ Cardinality(T) \in Nat
    BY FS_CardinalityType
  <1>2. Cardinality(S \cap T) = 0
    BY FS_EmptySet
  <1>3. /\ IsFiniteSet(S \cup T)
        /\ Cardinality(S \cup T) = Cardinality(S) + Cardinality(T) - Cardinality(S \cap T)
    BY FS_Union
  <1>4. QED
    BY <1>1, <1>2, <1>3

(* Positions of a list are finitely many. *)
LEMMA Positions ==
  ASSUME NEW h \in Nat, NEW Y \in SUBSET (1..h)
  PROVE  IsFiniteSet(Y) /\ Cardinality(Y) \in Nat
  <1>1. IsFiniteSet(1..h)
    BY FS_Interval
  <1>2. IsFiniteSet(Y)
    BY <1>1, FS_Subset
  <1>3. QED
    BY <1>2, FS_CardinalityType

(* NodeInfo records of finitely many nodes, none of them over its capacity. *)
GoodSnap(snap) ==
  /\ IsFiniteSet(DOMAIN snap) /\ DOMAIN snap \subseteq Nat
  /\ \A n \in DOMAIN snap :
       /\ snap[n].count \in Nat /\ snap[n].cap \in Nat
       /\ snap[n].count <= snap[n].cap

(* The places of finitely many nodes are finitely many. *)
LEMMA PlacesFinite ==
  ASSUME NEW snap, GoodSnap(snap), NEW S \in SUBSET DOMAIN snap
  PROVE  IsFiniteSet(Places(snap, S)) /\ Cardinality(Places(snap, S)) \in Nat
  <1> DEFINE P(n) == {n} \X (1..Room(snap, n))
             I == {P(n) : n \in S}
             f == [n \in S |-> P(n)]
  <1>1. IsFiniteSet(S)
    BY FS_Subset DEF GoodSnap
  <1>2. f \in Surjection(S, I)
    <2> HIDE DEF P
    <2>1. f \in [S -> I]
      OBVIOUS
    <2>2. \A t \in I : \E n \in S : f[n] = t
      OBVIOUS
    <2>3. QED
      BY <2>1, <2>2 DEF Surjection
  <1>3. IsFiniteSet(I)
    BY <1>1, <1>2, FS_Surjection
  <1>4. ASSUME NEW n \in S PROVE IsFiniteSet(P(n))
    <2>1. Room(snap, n) \in Int
      BY DEF GoodSnap, Room
    <2>2. IsFiniteSet(1..Room(snap, n))
      BY <2>1, FS_Interval
    <2>3. IsFiniteSet({n})
      BY FS_Singleton
    <2>4. QED
      BY <2>2, <2>3, FS_Product
  <1>5. IsFiniteSet(UNION I)
    BY <1>3, <1>4, FS_UNION
  <1>6. QED
    BY <1>5, FS_CardinalityType DEF Places

(* One more node adds its room. *)
LEMMA PlacesAdd ==
  ASSUME NEW snap, GoodSnap(snap), NEW S \in SUBSET DOMAIN snap,
         NEW n \in DOMAIN snap, n \notin S
  PROVE  /\ Room(snap, n) \in Nat
         /\ Cardinality(Places(snap, S \cup {n})) = Cardinality(Places(snap, S)) + Room(snap, n)
  <1> DEFINE P == {n} \X (1..Room(snap, n))
  <1>1. Room(snap, n) \in Nat
    BY DEF GoodSnap, Room
  <1>2. IsFiniteSet(1..Room(snap, n)) /\ Cardinality(1..Room(snap, n)) = Room(snap, n)
    BY <1>1, FS_Interval
  <1>3. IsFiniteSet({n}) /\ Cardinality({n}) = 1
    BY FS_Singleton
  <1>4. IsFiniteSet(P) /\ Cardinality(P) = Room(snap, n)
    <2> DEFINE R == 1..Room(snap, n)
               N == {n}
    <2> HIDE DEF R, N
    <2>1. IsFiniteSet(N \X R) /\ Cardinality(N \X R) = Cardinality(N) * Cardinality(R)
      BY <1>2, <1>3, FS_Product DEF R, N
    <2>2. Cardinality(N) = 1 /\ Cardinality(R) = Room(snap, n)
      BY <1>2, <1>3 DEF R, N
    <2>3. Cardinality(N) * Cardinality(R) = Room(snap, n)
      BY <1>1, <2>2
    <2>4. QED
      BY <2>1, <2>3 DEF R, N
  <1>5. Places(snap, S \cup {n}) = Places(snap, S) \cup P
    BY DEF Places
  <1>6. Places(snap, S) \cap P = {}
    BY DEF Places
  <1> HIDE DEF P
  <1>7. IsFiniteSet(Places(snap, S)) /\ Cardinality(Places(snap, S)) \in Nat
    BY PlacesFinite
  <1>8. Cardinality(Places(snap, S) \cup P) = Cardinality(Places(snap, S)) + Cardinality(P)
    BY <1>4, <1>6, <1>7, Disjoint
  <1>9. QED
    BY <1>1, <1>4, <1>5, <1>7, <1>8

(* More nodes have no fewer places. *)
LEMMA PlacesMono ==
  ASSUME NEW snap, GoodSnap(snap), NEW T \in SUBSET DOMAIN snap, NEW S \in SUBSET T
  PROVE  Cardinality(Places(snap, S)) <= Cardinality(Places(snap, T))
  <1>1. Places(snap, S) \subseteq Places(snap, T)
    BY DEF Places
  <1>2. QED
    BY <1>1, PlacesFinite, FS_Subset

(* Full nodes have no place. *)
LEMMA PlacesAvailable ==
  ASSUME NEW snap, GoodSnap(snap)
  PROVE  Cardinality(Places(snap, Available(snap))) = TotalRoom(snap)
  <1>1. ASSUME NEW n \in DOMAIN snap, n \notin Available(snap) PROVE 1..Room(snap, n) = {}
    BY <1>1 DEF GoodSnap, Room, Available
  <1>2. Available(snap) \subseteq DOMAIN snap
    BY DEF Available
  <1>3. Places(snap, Available(snap)) = Places(snap, DOMAIN snap)
    BY <1>1, <1>2 DEF Places
  <1>4. QED
    BY <1>3 DEF TotalRoom

-----------------------------------------------------------------------------
(* Lists of nodes. *)

(* Repeating a node at the end of a list adds to its share only. *)
LEMMA TimesAppend ==
  ASSUME NEW A, NEW s \in Seq(A), NEW c \in A, NEW a \in Nat
  PROVE  LET t == s \o [i \in 1..a |-> c] IN
         /\ t \in Seq(A) /\ Len(t) = Len(s) + a
         /\ Times(t, c) = Times(s, c) + a
         /\ \A n : n # c => Times(t, n) = Times(s, n)
         /\ \A n : Times(s, n) \in Nat
  <1> DEFINE r == [i \in 1..a |-> c]
             t == s \o r
             At(u, n) == {i \in DOMAIN u : u[i] = n}
             New == (Len(s) + 1)..(Len(s) + a)
  <1>1. r \in Seq(A) /\ Len(r) = a
    OBVIOUS
  <1>2. /\ t \in Seq(A) /\ Len(t) = Len(s) + a
        /\ \A i \in 1..(Len(s) + a) : t[i] = IF i <= Len(s) THEN s[i] ELSE r[i - Len(s)]
    BY <1>1, ConcatProperties
  <1> HIDE DEF t
  <1>3. Len(s) \in Nat /\ DOMAIN s = 1..Len(s) /\ DOMAIN t = 1..(Len(s) + a)
    BY <1>2
  <1>4. \A i \in 1..Len(s) : t[i] = s[i]
    BY <1>2, <1>3
  <1>5. \A i \in New : t[i] = c
    BY <1>2, <1>3
  <1>6. At(t, c) = At(s, c) \cup New
    BY <1>3, <1>4, <1>5
  <1>7. ASSUME NEW n, n # c PROVE At(t, n) = At(s, n)
    <2>1. DOMAIN t = (1..Len(s)) \cup New
      BY <1>3
    <2>2. QED
      BY <1>3, <1>4, <1>5, <1>7, <2>1
  <1>8. ASSUME NEW n PROVE IsFiniteSet(At(s, n)) /\ Cardinality(At(s, n)) \in Nat
    <2>1. IsFiniteSet(1..Len(s))
      BY <1>3, FS_Interval
    <2>2. At(s, n) \in SUBSET (1..Len(s))
      BY <1>3
    <2>3. QED
      BY <2>1, <2>2, FS_Subset, FS_CardinalityType
  <1>9. IsFiniteSet(New) /\ Cardinality(New) = a
    BY <1>3, FS_Interval
  <1>10. At(s, c) \cap New = {}
    BY <1>3
  <1>11. Cardinality(At(t, c)) = Cardinality(At(s, c)) + a
    <2> HIDE DEF At, New
    <2>1. QED
      BY <1>6, <1>8, <1>9, <1>10, Disjoint
  <1>12. QED
    BY <1>2, <1>7, <1>8, <1>11 DEF Times, t

-----------------------------------------------------------------------------
(* Fill: its list after k nodes. *)

More(snap, order, h, s, k) ==
  s \o [i \in 1..AtMost(Room(snap, order[k]), h - Len(s)) |-> order[k]]

ListsOf(snap, order, h) ==
  CHOOSE list : list = [k \in 0..Len(order) |->
                          IF k = 0 THEN <<>> ELSE More(snap, order, h, list[k - 1], k)]

(* Fill returns the list after the last node. *)
LEMMA FillList ==
  ASSUME NEW snap, NEW order, NEW h
  PROVE  Fill(snap, order, h) = ListsOf(snap, order, h)[Len(order)]
  BY DEF Fill, ListsOf, More

(* The recursion defines a list for every number of nodes. *)
LEMMA ListsExist ==
  ASSUME NEW snap, NEW order, NEW h, Len(order) \in Nat
  PROVE  LET list == ListsOf(snap, order, h) IN
         /\ list[0] = <<>>
         /\ \A k \in 1..Len(order) : list[k] = More(snap, order, h, list[k - 1], k)
  <1> DEFINE N == Len(order)
             Def(g, k) == IF k = 0 THEN <<>> ELSE More(snap, order, h, g[k - 1], k)
             Good(n) == \E g : g = [k \in 0..n |-> Def(g, k)]
             Bad == {n \in 0..N : ~Good(n)}
  <1>1. Good(0)
    <2> DEFINE g == [k \in 0..0 |-> <<>>]
    <2>1. g = [k \in 0..0 |-> Def(g, k)]
      OBVIOUS
    <2>2. QED
      BY <2>1
  <1>2. ASSUME NEW n \in Nat, Good(n) PROVE Good(n + 1)
    <2>1. PICK g : g = [k \in 0..n |-> Def(g, k)]
      BY <1>2
    <2> DEFINE f == [k \in 0..(n + 1) |-> IF k = n + 1 THEN Def(g, n + 1) ELSE g[k]]
    <2> HIDE DEF Def
    <2>2. \A k \in 0..n : f[k] = g[k]
      OBVIOUS
    <2>3. ASSUME NEW k \in 0..(n + 1) PROVE f[k] = Def(f, k)
      <3>1. CASE k = 0
        <4>1. f[k] = g[k] /\ g[k] = Def(g, k)
          BY <2>1, <2>2, <3>1
        <4>2. QED
          BY <3>1, <4>1 DEF Def
      <3>2. CASE k # 0
        <4>1. f[k - 1] = g[k - 1]
          BY <2>2, <2>3, <3>2
        <4>2. Def(f, k) = Def(g, k)
          BY <3>2, <4>1 DEF Def
        <4>3. f[k] = Def(g, k)
          BY <2>1, <2>2, <2>3
        <4>4. QED
          BY <4>2, <4>3
      <3>3. QED
        BY <3>1, <3>2
    <2> DEFINE gg == [k \in 0..(n + 1) |-> Def(f, k)]
    <2>4. f = gg
      <3>1. \A k \in 0..(n + 1) : f[k] = gg[k]
        BY <2>3
      <3>2. QED
        BY <3>1, Zenon
    <2>5. QED
      BY <2>4
  <1> HIDE DEF Good
  <1>3. Bad = {}
    <2> SUFFICES ASSUME Bad # {} PROVE FALSE
      OBVIOUS
    <2>1. Bad \in SUBSET Nat
      OBVIOUS
    <2> HIDE DEF Bad
    <2>2. PICK x \in Bad : \A y \in Bad : x <= y
      BY <2>1, Least
    <2>3. x \in 0..N /\ ~Good(x) /\ x # 0
      BY <1>1, <2>2 DEF Bad
    <2>4. x - 1 \in 0..N /\ x - 1 \notin Bad
      BY <2>1, <2>2, <2>3
    <2>5. x - 1 \in Nat /\ Good(x - 1)
      BY <2>3, <2>4 DEF Bad
    <2>6. Good((x - 1) + 1)
      BY <1>2, <2>5
    <2>7. QED
      BY <2>3, <2>6
  <1>4. Good(N)
    BY <1>3
  <1> DEFINE list == ListsOf(snap, order, h)
  <1>5. list = [k \in 0..N |-> Def(list, k)]
    BY <1>4 DEF Good, ListsOf
  <1> HIDE DEF list
  <1>6. \A k \in 0..N : list[k] = Def(list, k)
    BY <1>5
  <1>7. QED
    BY <1>6 DEF list

(* The first k nodes of an order, and the list Fill makes of them: within  *)
(* their room, and while hosts are left, all of it; a node is used only    *)
(* when those before it are used up.                                       *)
FirstOf(order, k) == {order[i] : i \in 1..k}

FillOK(snap, order, h, s, k) ==
  /\ s \in Seq(Available(snap)) /\ Len(s) <= h
  /\ \A n : Times(s, n) \in Nat
  /\ \A n \in FirstOf(order, k) : Times(s, n) <= Room(snap, n)
  /\ \A n : n \notin FirstOf(order, k) => Times(s, n) = 0
  /\ Len(s) < h => /\ Len(s) = Cardinality(Places(snap, FirstOf(order, k)))
                   /\ \A n \in FirstOf(order, k) : Times(s, n) = Room(snap, n)
  /\ \A i, j \in 1..k : i < j /\ Times(s, order[j]) > 0 =>
                         Times(s, order[i]) = Room(snap, order[i])

(* No order lists a node twice. *)
OrderOf(snap, order) ==
  /\ order \in Seq(Available(snap))
  /\ \A i, j \in 1..Len(order) : i # j => order[i] # order[j]

(* Fill begins with an empty list. *)
LEMMA FillBegins ==
  ASSUME NEW snap, NEW order, NEW h \in Nat
  PROVE  FillOK(snap, order, h, <<>>, 0)
  <1>1. FirstOf(order, 0) = {}
    BY DEF FirstOf
  <1>2. \A n : Times(<<>>, n) = 0
    <2>1. \A n : {i \in DOMAIN <<>> : <<>>[i] = n} = {}
      OBVIOUS
    <2>2. QED
      BY <2>1, FS_EmptySet DEF Times
  <1>3. Cardinality(Places(snap, {})) = 0
    <2>1. Places(snap, {}) = {}
      BY DEF Places
    <2>2. QED
      BY <2>1, FS_EmptySet
  <1>4. <<>> \in Seq(Available(snap)) /\ Len(<<>>) = 0
    OBVIOUS
  <1> DEFINE e == <<>>
  <1> HIDE DEF e
  <1>5. FillOK(snap, order, h, e, 0)
    <2>1. e \in Seq(Available(snap)) /\ Len(e) = 0 /\ \A n : Times(e, n) = 0
      BY <1>2, <1>4 DEF e
    <2>2. 1..0 = {}
      OBVIOUS
    <2>3. QED
      BY <1>1, <1>3, <2>1, <2>2 DEF FillOK
  <1>6. QED
    BY <1>5 DEF e

(* The next node takes its share. *)
LEMMA FillGoesOn ==
  ASSUME NEW snap, GoodSnap(snap), NEW order, OrderOf(snap, order), NEW h \in Nat,
         NEW k \in 1..Len(order), NEW s, FillOK(snap, order, h, s, k - 1)
  PROVE  FillOK(snap, order, h, More(snap, order, h, s, k), k)
  <1> DEFINE A == Available(snap)
             c == order[k]
             R == Room(snap, c)
             a == AtMost(R, h - Len(s))
             t == s \o [i \in 1..a |-> c]
             F == FirstOf(order, k - 1)
             G == FirstOf(order, k)
  <1>1. c \in A /\ c \in DOMAIN snap /\ R \in Nat /\ A \subseteq DOMAIN snap
    BY DEF OrderOf, Available, Room, GoodSnap
  <1>2. s \in Seq(A) /\ Len(s) \in Nat /\ Len(s) <= h
    BY DEF FillOK
  <1>3. a \in Nat /\ a <= R /\ a <= h - Len(s) /\ (a < h - Len(s) => a = R)
    BY <1>1, <1>2 DEF AtMost
  <1>4. G = F \cup {c} /\ F \subseteq A
    <2>1. k \in Nat /\ 1..k = (1..(k - 1)) \cup {k}
      OBVIOUS
    <2>2. QED
      BY <2>1 DEF FirstOf, OrderOf
  <1>5. c \notin F
    <2>1. \A i \in 1..(k - 1) : i \in 1..Len(order) /\ i # k
      BY DEF OrderOf
    <2>2. QED
      BY <2>1 DEF FirstOf, OrderOf
  <1> HIDE DEF a
  <1>6. /\ t \in Seq(A) /\ Len(t) = Len(s) + a
        /\ Times(t, c) = Times(s, c) + a
        /\ \A n : n # c => Times(t, n) = Times(s, n)
    BY <1>1, <1>2, <1>3, TimesAppend
  <1> HIDE DEF t, F, G, c, A, R
  <1>7. /\ \A n : Times(s, n) \in Nat
        /\ \A n \in F : Times(s, n) <= Room(snap, n)
        /\ \A n : n \notin F => Times(s, n) = 0
        /\ Len(s) < h => /\ Len(s) = Cardinality(Places(snap, F))
                         /\ \A n \in F : Times(s, n) = Room(snap, n)
    BY DEF FillOK, F
  <1>8. Times(t, c) = a /\ Room(snap, c) = R
    BY <1>3, <1>5, <1>6, <1>7 DEF R
  <1>9. t \in Seq(A) /\ Len(t) <= h
    BY <1>2, <1>3, <1>6
  <1>10. \A n : Times(t, n) \in Nat
    BY <1>3, <1>6, <1>7, <1>8
  <1>11. \A n \in G : Times(t, n) <= Room(snap, n)
    BY <1>3, <1>4, <1>6, <1>7, <1>8
  <1>12. \A n : n \notin G => Times(t, n) = 0
    BY <1>4, <1>6, <1>7
  <1>13. ASSUME Len(t) < h
         PROVE  /\ Len(t) = Cardinality(Places(snap, G))
                /\ \A n \in G : Times(t, n) = Room(snap, n)
    <2>1. Len(s) < h /\ a = R
      BY <1>2, <1>3, <1>6, <1>13
    <2>2. Cardinality(Places(snap, G)) = Cardinality(Places(snap, F)) + R
      <3>1. F \in SUBSET DOMAIN snap
        BY <1>1, <1>4
      <3>2. QED
        BY <1>1, <1>4, <1>5, <3>1, PlacesAdd DEF R
    <2>3. QED
      BY <1>4, <1>6, <1>7, <1>8, <2>1, <2>2
  <1>14. ASSUME NEW i \in 1..k, NEW j \in 1..k, i < j, Times(t, order[j]) > 0
         PROVE  Times(t, order[i]) = Room(snap, order[i])
    <2>1. i \in 1..(k - 1) /\ i \in 1..Len(order)
      BY <1>14 DEF OrderOf
    <2>2. order[i] \in F /\ order[i] # c
      BY <1>5, <2>1 DEF FirstOf, F
    <2>3. CASE j = k
      <3>1. a > 0
        BY <1>8, <1>14, <2>3 DEF c
      <3>2. Len(s) < h
        BY <1>2, <1>3, <3>1
      <3>3. QED
        BY <1>6, <1>7, <2>2, <3>2
    <2>4. CASE j # k
      <3>1. j \in 1..(k - 1) /\ j \in 1..Len(order)
        BY <1>14, <2>4 DEF OrderOf
      <3>2. order[j] \in F
        BY <3>1 DEF FirstOf, F
      <3>3. Times(s, order[j]) > 0
        BY <1>5, <1>6, <1>14, <3>2
      <3>4. Times(s, order[i]) = Room(snap, order[i])
        BY <1>14, <2>1, <3>1, <3>3 DEF FillOK
      <3>5. QED
        BY <1>6, <2>2, <3>4
    <2>5. QED
      BY <2>3, <2>4
  <1>15. FillOK(snap, order, h, t, k)
    BY <1>9, <1>10, <1>11, <1>12, <1>13, <1>14 DEF FillOK, A, G
  <1>16. QED
    BY <1>15 DEF More, t, a, c, R

(* The list after the last node. *)
LEMMA FillEnds ==
  ASSUME NEW snap, GoodSnap(snap), NEW order, OrderOf(snap, order), NEW h \in Nat
  PROVE  FillOK(snap, order, h, Fill(snap, order, h), Len(order))
  <1> DEFINE list == ListsOf(snap, order, h)
             N == Len(order)
             OK(k) == FillOK(snap, order, h, list[k], k)
             Bad == {k \in 0..N : ~OK(k)}
  <1>1. N \in Nat
    BY DEF OrderOf
  <1>2. OK(0)
    BY <1>1, FillBegins, ListsExist
  <1>3. ASSUME NEW k \in 1..N, OK(k - 1) PROVE OK(k)
    <2>1. list[k] = More(snap, order, h, list[k - 1], k)
      BY <1>1, ListsExist
    <2>2. QED
      BY <1>3, <2>1, FillGoesOn
  <1> HIDE DEF OK
  <1>4. Bad = {}
    <2> SUFFICES ASSUME Bad # {} PROVE FALSE
      OBVIOUS
    <2>1. Bad \in SUBSET Nat
      OBVIOUS
    <2> HIDE DEF Bad
    <2>2. PICK x \in Bad : \A y \in Bad : x <= y
      BY <2>1, Least
    <2>3. x \in 1..N /\ ~OK(x)
      BY <1>1, <1>2, <2>2 DEF Bad
    <2>4. x - 1 \in 0..N /\ x - 1 \notin Bad
      BY <1>1, <2>1, <2>2, <2>3
    <2>5. OK(x - 1)
      BY <2>4 DEF Bad
    <2>6. QED
      BY <1>3, <2>3, <2>5
  <1>5. OK(N)
    BY <1>1, <1>4
  <1>6. QED
    BY <1>5, FillList DEF OK

-----------------------------------------------------------------------------
(* What a scheduler may return. *)

(* A node or None for each host, within the room of every node. *)
SelOK(plug, snap, h, sel) ==
  /\ sel \in [1..h -> Available(snap) \cup {None}]
  /\ WithinRoom(snap, sel)
  /\ plug # "least_load_random" => \A i \in 1..h : sel[i] \in Available(snap)
  /\ plug = "least_load" =>
       \A m, n \in Available(snap) :
         Times(sel, m) > 0 /\ snap[n].count < snap[m].count
           => Times(sel, n) >= Room(snap, n)
  /\ plug = "least_load_random" =>
       \A m, n \in Available(snap) :
         Times(sel, m) > 0 /\ snap[n].count < snap[m].count /\ n \in BestOf(snap, snap[n].count)
           => Times(sel, n) >= Room(snap, n)

(* A list of all available nodes without repetition has each of them. *)
LEMMA AllListed ==
  ASSUME NEW snap, GoodSnap(snap), NEW order \in SetToSeqs(Available(snap))
  PROVE  /\ OrderOf(snap, order)
         /\ DOMAIN order = 1..Len(order) /\ Len(order) \in Nat
         /\ FirstOf(order, Len(order)) = Available(snap)
  <1> DEFINE A == Available(snap)
             D == 1..Cardinality(A)
  <1>1. IsFiniteSet(A) /\ Cardinality(A) \in Nat
    <2>1. A \in SUBSET DOMAIN snap
      BY DEF Available
    <2>2. QED
      BY <2>1, FS_Subset, FS_CardinalityType DEF GoodSnap
  <1>2. order \in [D -> A] /\ \A i, j \in D : i # j => order[i] # order[j]
    BY DEF SetToSeqs
  <1> HIDE DEF A
  <1>3. order \in Seq(A) /\ Len(order) = Cardinality(A)
    BY <1>1, <1>2
  <1>4. Cardinality(D) = Cardinality(A)
    BY <1>1, FS_Interval
  <1>5. order \in Injection(D, A)
    BY <1>2 DEF Injection, IsInjective
  <1>6. order \in Surjection(D, A)
    <2> HIDE DEF D
    <2>1. QED
      BY <1>1, <1>4, <1>5, FS_Injection
  <1>7. \A n \in A : \E i \in D : order[i] = n
    BY <1>6 DEF Surjection
  <1>8. FirstOf(order, Len(order)) = A
    BY <1>2, <1>3, <1>7 DEF FirstOf
  <1>9. QED
    BY <1>1, <1>2, <1>3, <1>8 DEF OrderOf, A

(* With room for all, greedy and least_load find a node for every host. *)
LEMMA FillSelects ==
  ASSUME NEW snap, GoodSnap(snap), NEW h \in Nat, ~TooMany(snap, h),
         NEW order \in SetToSeqs(Available(snap)), NEW sel, sel = Fill(snap, order, h)
  PROVE  /\ sel \in [1..h -> Available(snap)]
         /\ WithinRoom(snap, sel)
         /\ \A i, j \in DOMAIN order : i < j /\ Times(sel, order[j]) > 0 =>
              Times(sel, order[i]) = Room(snap, order[i])
         /\ \A n \in Available(snap) : \E i \in DOMAIN order : order[i] = n
  <1>1. /\ OrderOf(snap, order)
        /\ DOMAIN order = 1..Len(order) /\ Len(order) \in Nat
        /\ FirstOf(order, Len(order)) = Available(snap)
    BY AllListed
  <1>2. FillOK(snap, order, h, sel, Len(order))
    BY <1>1, FillEnds
  <1>3. Len(sel) = h
    <2>1. sel \in Seq(Available(snap)) /\ Len(sel) \in Nat /\ Len(sel) <= h
      BY <1>2 DEF FillOK
    <2>2. ASSUME Len(sel) < h PROVE FALSE
      <3>1. Len(sel) = TotalRoom(snap)
        BY <1>1, <1>2, <2>2, PlacesAvailable DEF FillOK
      <3>2. QED
        BY <2>2, <3>1 DEF TooMany
    <2>3. QED
      BY <2>1, <2>2
  <1>4. sel \in [1..h -> Available(snap)]
    BY <1>2, <1>3 DEF FillOK
  <1>5. WithinRoom(snap, sel)
    <2>1. ASSUME NEW n \in DOMAIN snap PROVE Times(sel, n) <= Room(snap, n)
      <3>1. Room(snap, n) \in Nat
        BY DEF Room, GoodSnap
      <3>2. QED
        BY <1>1, <1>2, <3>1 DEF FillOK
    <2>2. QED
      BY <2>1 DEF WithinRoom
  <1>6. \A n \in Available(snap) : \E i \in DOMAIN order : order[i] = n
    BY <1>1 DEF FirstOf
  <1>7. QED
    BY <1>1, <1>2, <1>4, <1>5, <1>6 DEF FillOK

(* greedy. *)
LEMMA GreedySelects ==
  ASSUME NEW snap, GoodSnap(snap), NEW h \in Nat, ~TooMany(snap, h),
         NEW sel \in Greedy(snap, h)
  PROVE  SelOK("greedy", snap, h, sel)
  <1>1. PICK order \in SetToSeqs(Available(snap)) : sel = Fill(snap, order, h)
    BY DEF Greedy, ByFullest
  <1>2. sel \in [1..h -> Available(snap)] /\ WithinRoom(snap, sel)
    BY <1>1, FillSelects
  <1>3. QED
    BY <1>2 DEF SelOK

(* least_load: the order is by load, so what comes before is used up. *)
LEMMA LeastLoadSelects ==
  ASSUME NEW snap, GoodSnap(snap), NEW h \in Nat, ~TooMany(snap, h),
         NEW sel \in LeastLoad(snap, h)
  PROVE  SelOK("least_load", snap, h, sel)
  <1>1. PICK order \in SetToSeqs(Available(snap)) :
          /\ sel = Fill(snap, order, h)
          /\ \A i, j \in DOMAIN order : i < j => EmptiestFirst(snap, order[i], order[j])
    BY DEF LeastLoad, ByEmptiest
  <1>2. /\ sel \in [1..h -> Available(snap)] /\ WithinRoom(snap, sel)
        /\ \A i, j \in DOMAIN order : i < j /\ Times(sel, order[j]) > 0 =>
             Times(sel, order[i]) = Room(snap, order[i])
        /\ \A n \in Available(snap) : \E i \in DOMAIN order : order[i] = n
    BY <1>1, FillSelects
  <1>3. ASSUME NEW m \in Available(snap), NEW n \in Available(snap),
               Times(sel, m) > 0, snap[n].count < snap[m].count
        PROVE  Times(sel, n) >= Room(snap, n)
    <2>1. PICK i \in DOMAIN order : order[i] = n
      BY <1>2
    <2>2. PICK j \in DOMAIN order : order[j] = m
      BY <1>2
    <2>3. /\ snap[n].count \in Nat /\ snap[m].count \in Nat /\ Room(snap, n) \in Nat
      BY DEF GoodSnap, Room, Available
    <2>4. ~(j < i) /\ i # j
      <3>1. ASSUME j < i PROVE FALSE
        <4>1. EmptiestFirst(snap, m, n)
          BY <1>1, <2>1, <2>2, <3>1
        <4>2. QED
          BY <1>3, <2>3, <4>1 DEF EmptiestFirst
      <3>2. QED
        BY <1>3, <2>1, <2>2, <2>3, <3>1
    <2>5. i < j
      BY <2>4, AllListed
    <2>6. Times(sel, n) = Room(snap, n)
      BY <1>2, <1>3, <2>1, <2>2, <2>5
    <2>7. QED
      BY <2>3, <2>6
  <1>4. QED
    BY <1>2, <1>3 DEF SelOK

(* load_weighted_random. *)
LEMMA WeightedSelects ==
  ASSUME NEW snap, NEW h \in Nat, NEW sel \in LoadWeightedRandom(snap, h)
  PROVE  SelOK("load_weighted_random", snap, h, sel)
  BY DEF SelOK, LoadWeightedRandom

-----------------------------------------------------------------------------
(* least_load_random. *)

(* The positions given to some nodes are no more than their places. *)
LEMMA Shares ==
  ASSUME NEW snap, GoodSnap(snap), NEW h \in Nat, NEW X, NEW r \in [1..h -> X],
         WithinRoom(snap, r), NEW K \in SUBSET (1..h), NEW S \in SUBSET DOMAIN snap
  PROVE  Cardinality({j \in K : r[j] \in S}) <= Cardinality(Places(snap, S))
  <1> DEFINE Given(T) == {j \in K : r[j] \in T}
             OK(T) == Cardinality(Given(T)) <= Cardinality(Places(snap, T))
             Bad == {c \in Nat : \E T \in SUBSET DOMAIN snap : Cardinality(T) = c /\ ~OK(T)}
  <1>1. ASSUME NEW Y \in SUBSET (1..h) PROVE IsFiniteSet(Y) /\ Cardinality(Y) \in Nat
    BY Positions
  <1>2. \A T \in SUBSET DOMAIN snap : IsFiniteSet(T) /\ Cardinality(T) \in Nat
    BY FS_Subset, FS_CardinalityType DEF GoodSnap
  <1>3. OK({})
    <2>1. Given({}) = {} /\ Places(snap, {}) = {}
      BY DEF Places
    <2> HIDE DEF Given
    <2>2. QED
      BY <2>1, FS_EmptySet
  <1>4. ASSUME NEW T \in SUBSET DOMAIN snap, NEW n \in T, OK(T \ {n}) PROVE OK(T)
    <2> DEFINE U == T \ {n}
               At == {j \in K : r[j] = n}
               All == {j \in DOMAIN r : r[j] = n}
    <2>1. Given(T) = Given(U) \cup At /\ Given(U) \cap At = {}
      OBVIOUS
    <2>2. Given(U) \in SUBSET (1..h) /\ At \in SUBSET All /\ All \in SUBSET (1..h)
      OBVIOUS
    <2>3. T = U \cup {n} /\ n \notin U /\ U \in SUBSET DOMAIN snap /\ n \in DOMAIN snap
      OBVIOUS
    <2>4. Times(r, n) <= Room(snap, n) /\ Times(r, n) = Cardinality(All)
      BY <2>3 DEF WithinRoom, Times
    <2> HIDE DEF Given, At, All, U
    <2>5. /\ IsFiniteSet(Given(U)) /\ Cardinality(Given(U)) \in Nat
          /\ IsFiniteSet(All) /\ Cardinality(All) \in Nat
      BY <1>1, <2>2
    <2>6. IsFiniteSet(At) /\ Cardinality(At) \in Nat /\ Cardinality(At) <= Cardinality(All)
      BY <2>2, <2>5, FS_Subset, FS_CardinalityType
    <2>7. Cardinality(Given(T)) = Cardinality(Given(U)) + Cardinality(At)
      BY <2>1, <2>5, <2>6, Disjoint
    <2>8. /\ Room(snap, n) \in Nat
          /\ Cardinality(Places(snap, T)) = Cardinality(Places(snap, U)) + Room(snap, n)
      BY <2>3, PlacesAdd
    <2>9. Cardinality(Places(snap, U)) \in Nat
      BY <2>3, PlacesFinite
    <2>10. Cardinality(Given(U)) <= Cardinality(Places(snap, U))
      BY <1>4 DEF U
    <2>11. QED
      BY <2>4, <2>5, <2>6, <2>7, <2>8, <2>9, <2>10
  <1> HIDE DEF OK
  <1>5. Bad = {}
    <2> SUFFICES ASSUME Bad # {} PROVE FALSE
      OBVIOUS
    <2>1. Bad \in SUBSET Nat
      OBVIOUS
    <2>2. PICK c \in Bad : \A y \in Bad : c <= y
      <3> HIDE DEF Bad
      <3>1. QED
        BY <2>1, Least
    <2>3. PICK T \in SUBSET DOMAIN snap : Cardinality(T) = c /\ ~OK(T)
      BY <2>2
    <2>4. PICK n \in T : TRUE
      BY <1>3, <2>3
    <2>5. T \ {n} \in SUBSET DOMAIN snap /\ Cardinality(T \ {n}) = c - 1 /\ Cardinality(T) \in Nat
      BY <1>2, <2>3, <2>4, FS_RemoveElement
    <2>6. c - 1 \in Nat
      BY <1>2, <2>5
    <2>7. c - 1 \notin Bad
      BY <2>1, <2>2, <2>6
    <2>8. OK(T \ {n})
      BY <2>5, <2>6, <2>7
    <2>9. QED
      BY <1>4, <2>3, <2>4, <2>8
  <1>6. OK(S)
    BY <1>2, <1>5
  <1>7. QED
    BY <1>6 DEF OK

(* The best nodes of a level are available ones with its count; the levels *)
(* below the next one are those below this one and this one.               *)
LEMMA Levels ==
  ASSUME NEW snap, GoodSnap(snap), NEW c \in Nat
  PROVE  /\ BestOf(snap, c) \subseteq Available(snap)
         /\ BestBelow(snap, c) \in SUBSET DOMAIN snap
         /\ \A n \in BestOf(snap, c) : snap[n].count = c
         /\ RoomBelow(snap, c) \in Nat /\ RoomOfBest(snap, c) \in Nat
         /\ RoomBelow(snap, c + 1) = RoomBelow(snap, c) + RoomOfBest(snap, c)
         /\ RoomBelow(snap, 0) = 0
  <1> DEFINE B == BestBelow(snap, c)
             L == BestOf(snap, c)
  <1>1. \A b : BestOf(snap, b) \subseteq Available(snap) /\ \A n \in BestOf(snap, b) : snap[n].count = b
    BY DEF BestOf, Level
  <1>2. Available(snap) \subseteq DOMAIN snap
    BY DEF Available
  <1>3. B \in SUBSET DOMAIN snap /\ L \in SUBSET DOMAIN snap
    BY <1>1, <1>2 DEF BestBelow
  <1>4. BestBelow(snap, c + 1) = B \cup L
    <2>1. 0..((c + 1) - 1) = (0..(c - 1)) \cup {c}
      OBVIOUS
    <2>2. QED
      BY <2>1 DEF BestBelow
  <1>5. B \cap L = {}
    BY <1>1 DEF BestBelow
  <1>6. /\ Places(snap, B \cup L) = Places(snap, B) \cup Places(snap, L)
        /\ Places(snap, B) \cap Places(snap, L) = {}
    BY <1>5 DEF Places
  <1>7. /\ IsFiniteSet(Places(snap, B)) /\ Cardinality(Places(snap, B)) \in Nat
        /\ IsFiniteSet(Places(snap, L)) /\ Cardinality(Places(snap, L)) \in Nat
    BY <1>3, PlacesFinite
  <1>8. Cardinality(Places(snap, B \cup L)) =
          Cardinality(Places(snap, B)) + Cardinality(Places(snap, L))
    BY <1>6, <1>7, Disjoint
  <1>9. RoomBelow(snap, 0) = 0
    <2>1. 0..(0 - 1) = {}
      OBVIOUS
    <2>2. Places(snap, BestBelow(snap, 0)) = {}
      BY <2>1 DEF BestBelow, Places
    <2>3. QED
      BY <2>2, FS_EmptySet DEF RoomBelow
  <1>10. QED
    BY <1>1, <1>3, <1>4, <1>7, <1>8, <1>9 DEF RoomBelow, RoomOfBest

(* The levels below c provide for the positions up to their room. *)
LEMMA LevelsServe ==
  ASSUME NEW snap, GoodSnap(snap), NEW c \in Nat, NEW j \in 1..RoomBelow(snap, c)
  PROVE  NodesFor(snap, j) # {} /\ NodesFor(snap, j) \subseteq BestBelow(snap, c)
  <1> DEFINE Reached == {b \in Nat : j <= RoomBelow(snap, b)}
  <1>1. j \in Nat /\ j <= RoomBelow(snap, c) /\ j > 0
    BY Levels
  <1>2. PICK x \in Reached : \A y \in Reached : x <= y
    <2>1. Reached \in SUBSET Nat /\ c \in Reached
      BY <1>1
    <2> HIDE DEF Reached
    <2>2. QED
      BY <2>1, Least
  <1>3. x \in Nat /\ x # 0 /\ x - 1 \in Nat
    BY <1>1, <1>2, Levels
  <1>4. PICK b \in Nat : b = x - 1
    BY <1>3
  <1>5. /\ RoomBelow(snap, b) \in Nat /\ RoomOfBest(snap, b) \in Nat
        /\ RoomBelow(snap, x) = RoomBelow(snap, b) + RoomOfBest(snap, b)
    <2>1. x = b + 1
      BY <1>3, <1>4
    <2>2. QED
      BY <2>1, Levels
  <1>6. b \notin Reached
    BY <1>2, <1>3, <1>4
  <1>7. RoomBelow(snap, b) < j /\ j <= RoomBelow(snap, b) + RoomOfBest(snap, b)
    BY <1>1, <1>2, <1>5, <1>6
  <1>8. BestOf(snap, b) # {}
    <2>1. ASSUME BestOf(snap, b) = {} PROVE FALSE
      <3>1. Places(snap, BestOf(snap, b)) = {}
        BY <2>1 DEF Places
      <3>2. RoomOfBest(snap, b) = 0
        BY <3>1, FS_EmptySet DEF RoomOfBest
      <3>3. QED
        BY <1>1, <1>5, <1>7, <3>2
    <2>2. QED
      BY <2>1
  <1>9. PICK n \in BestOf(snap, b) : n \in Available(snap) /\ snap[n].count = b
    BY <1>8, Levels
  <1>10. n \in NodesFor(snap, j)
    BY <1>7, <1>9 DEF NodesFor
  <1>11. ASSUME NEW m \in NodesFor(snap, j) PROVE m \in BestBelow(snap, c)
    <2>1. PICK e \in {snap[k].count : k \in Available(snap)} :
            m \in BestOf(snap, e) /\ RoomBelow(snap, e) < j
      BY <1>11 DEF NodesFor
    <2>2. e \in Nat
      BY <2>1 DEF GoodSnap, Available
    <2>3. ASSUME c <= e PROVE FALSE
      <3>1. BestBelow(snap, c) \subseteq BestBelow(snap, e)
        <4>1. 0..(c - 1) \subseteq 0..(e - 1)
          BY <2>2, <2>3
        <4>2. QED
          BY <4>1 DEF BestBelow
      <3>2. RoomBelow(snap, c) <= RoomBelow(snap, e)
        BY <2>2, <3>1, Levels, PlacesMono DEF RoomBelow
      <3>3. RoomBelow(snap, c) \in Nat /\ RoomBelow(snap, e) \in Nat
        BY <2>2, Levels
      <3>4. QED
        BY <1>1, <2>1, <3>2, <3>3
    <2>4. e \in 0..(c - 1)
      BY <2>2, <2>3
    <2>5. QED
      BY <2>1, <2>4 DEF BestBelow
  <1>12. QED
    BY <1>10, <1>11

(* least_load_random: positions up to the room of the levels below a used *)
(* node went to the best nodes of those levels, which have no more of it.  *)
LEMMA RandomSelects ==
  ASSUME NEW snap, GoodSnap(snap), None \notin DOMAIN snap, NEW h \in Nat,
         NEW sel \in LeastLoadRandom(snap, h, None)
  PROVE  SelOK("least_load_random", snap, h, sel)
  <1>1. /\ sel \in [1..h -> Available(snap) \cup {None}] /\ WithinRoom(snap, sel)
        /\ \A i \in 1..h : IF NodesFor(snap, i) = {} THEN sel[i] = None
                                                    ELSE sel[i] \in NodesFor(snap, i)
    BY DEF LeastLoadRandom
  <1>2. ASSUME NEW m \in Available(snap), NEW n \in Available(snap), Times(sel, m) > 0,
               snap[n].count < snap[m].count, n \in BestOf(snap, snap[n].count)
        PROVE  Times(sel, n) >= Room(snap, n)
    <2> DEFINE c == snap[m].count
               K == 1..RoomBelow(snap, c)
               B == BestBelow(snap, c)
               Rest == {j \in K : sel[j] \in B \ {n}}
               At == {j \in K : sel[j] = n}
               All == {j \in DOMAIN sel : sel[j] = n}
    <2>1. c \in Nat /\ snap[n].count \in Nat /\ n \in DOMAIN snap
      BY DEF GoodSnap, Available
    <2>2. PICK i \in 1..h : sel[i] = m
      <3>1. {j \in DOMAIN sel : sel[j] = m} # {}
        BY <1>2, FS_EmptySet DEF Times
      <3>2. QED
        BY <1>1, <3>1
    <2>3. m \in NodesFor(snap, i)
      BY <1>1, <2>2 DEF Available
    <2>4. PICK e : m \in BestOf(snap, e) /\ RoomBelow(snap, e) < i
      BY <2>3 DEF NodesFor
    <2>5. e = c
      BY <2>4 DEF BestOf, Level
    <2>6. RoomBelow(snap, c) \in Nat /\ B \in SUBSET DOMAIN snap
      BY <2>1, Levels
    <2>7. K \in SUBSET (1..h)
      BY <2>4, <2>5, <2>6
    <2>8. n \in B
      <3>1. snap[n].count \in 0..(c - 1)
        BY <1>2, <2>1
      <3>2. QED
        BY <1>2, <3>1 DEF BestBelow
    <2>9. \A j \in K : sel[j] \in B
      <3>1. ASSUME NEW j \in K PROVE sel[j] \in B
        <4>1. NodesFor(snap, j) # {} /\ NodesFor(snap, j) \subseteq B
          BY <2>1, LevelsServe
        <4>2. j \in 1..h
          BY <2>7
        <4>3. QED
          BY <1>1, <4>1, <4>2
      <3>2. QED
        BY <3>1
    <2>10. Cardinality(Rest) <= Cardinality(Places(snap, B \ {n}))
      <3>1. B \ {n} \in SUBSET DOMAIN snap
        BY <2>6
      <3> HIDE DEF B, K
      <3>2. QED
        BY <1>1, <2>7, <3>1, Shares
    <2>11. Cardinality(K) = RoomBelow(snap, c) /\ IsFiniteSet(K)
      BY <2>6, FS_Interval
    <2>12. /\ RoomBelow(snap, c) = Cardinality(Places(snap, B \ {n})) + Room(snap, n)
           /\ Room(snap, n) \in Nat /\ Cardinality(Places(snap, B \ {n})) \in Nat
      <3>1. (B \ {n}) \cup {n} = B /\ B \ {n} \in SUBSET DOMAIN snap
        BY <2>6, <2>8
      <3> HIDE DEF B
      <3>2. QED
        BY <2>1, <3>1, PlacesAdd, PlacesFinite DEF RoomBelow, B
    <2>13. Rest \in SUBSET K /\ At \in SUBSET K /\ K = Rest \cup At /\ Rest \cap At = {}
      BY <2>9
    <2>14. At \in SUBSET All /\ All \in SUBSET (1..h)
      BY <1>1, <2>7
    <2>15. Times(sel, n) = Cardinality(All)
      BY DEF Times
    <2> HIDE DEF K, Rest, At, All, c, B
    <2>16. /\ IsFiniteSet(Rest) /\ Cardinality(Rest) \in Nat
           /\ IsFiniteSet(At) /\ Cardinality(At) \in Nat
      BY <2>11, <2>13, FS_Subset, FS_CardinalityType
    <2>17. Cardinality(K) = Cardinality(Rest) + Cardinality(At)
      BY <2>13, <2>16, Disjoint
    <2>18. IsFiniteSet(All) /\ Cardinality(All) \in Nat /\ Cardinality(At) <= Cardinality(All)
      <3>1. IsFiniteSet(All)
        BY <2>14, Positions
      <3>2. QED
        BY <2>14, <3>1, FS_Subset, FS_CardinalityType
    <2>19. QED
      BY <2>10, <2>11, <2>12, <2>15, <2>16, <2>17, <2>18
  <1>3. QED
    BY <1>1, <1>2 DEF SelOK

(* All four. *)
LEMMA Selects ==
  ASSUME NEW plug \in Plugins, NEW snap, GoodSnap(snap), None \notin DOMAIN snap,
         NEW h \in Nat, ~TooMany(snap, h), NEW sel \in BatchNodeSelect(plug, snap, h, None)
  PROVE  SelOK(plug, snap, h, sel)
  <1>1. CASE plug = "greedy"
    BY <1>1, GreedySelects DEF BatchNodeSelect
  <1>2. CASE plug = "least_load"
    BY <1>2, LeastLoadSelects DEF BatchNodeSelect
  <1>3. CASE plug = "least_load_random"
    BY <1>3, RandomSelects DEF BatchNodeSelect
  <1>4. CASE plug = "load_weighted_random"
    BY <1>4, WeightedSelects DEF BatchNodeSelect
  <1>5. QED
    BY <1>1, <1>2, <1>3, <1>4 DEF Plugins

-----------------------------------------------------------------------------
(* The invariant of a request. *)

Fields == {"pc", "fifo", "batch", "locks", "assigned", "unassigned", "snap", "sel", "k",
           "failed", "succ"}
PCs == {"idle", "fifo", "locks", "info", "select", "group", "send", "done", "refused"}
NodeInfo == [count : 0..MaxCapacity, cap : 1..MaxCapacity]

(* The nodes; until something happens to the pool, those with an entry live. *)
PoolInv ==
  /\ plugin \in Plugins
  /\ info \in [Nodes -> {None} \cup NodeInfo]
  /\ \A n \in Nodes : info[n] # None => info[n].count <= info[n].cap
  /\ alive \subseteq Nodes
  /\ lock \in [Hosts -> Nodes \cup {None}]
  /\ faults \in 0..MaxFaults
  /\ faults = 0 => \A n \in Nodes : info[n] # None => n \in alive

(* The two reads: a device listed twice is assigned both times or not at all. *)
ScanInv ==
  /\ DOMAIN d = Fields /\ d.pc \in PCs
  /\ d.batch \in Seq(Hosts)
  /\ d.pc = "info" => \A i, j \in Indices : Host(i) = Host(j) => d.locks[i] = d.locks[j]
  /\ d.assigned \subseteq Indices
  /\ d.unassigned \in Seq(Indices \ d.assigned)
  /\ \A i \in d.assigned, j \in Indices \ d.assigned : Host(i) # Host(j)
  /\ d.pc \in {"idle", "fifo", "locks", "info"} => d.assigned = {} /\ d.unassigned = <<>>
  /\ d.pc = "select" => Len(d.unassigned) > 0

(* The scheduler's answer, and the group that is launched. *)
SelInv ==
  /\ GoodSnap(d.snap) /\ DOMAIN d.snap \subseteq Nodes
  /\ d.sel = <<>> \/ SelOK(plugin, d.snap, Len(d.unassigned), d.sel)
  /\ d.pc = "group" => d.sel # <<>> /\ d.k \in 1..Len(d.unassigned)
  /\ d.k \in Nat
  /\ d.pc \in {"idle", "fifo", "locks", "info", "select"} => d.sel = <<>> /\ d.failed = {} /\ d.k = 1

(* A spawn job is the one of its group. *)
QueueInv ==
  /\ d.sel = <<>> => nodeq = {}
  /\ \A s \in nodeq : \E j \in 1..Len(d.unassigned) :
       s = <<d.sel[j], Host(UnassignedAt(j)), j>> /\ d.sel[j] # None

(* Every group that was dealt with has its spawn job or has failed. *)
Launched(j) == \E n \in Nodes : <<n, Host(UnassignedAt(j)), j>> \in nodeq
Settled(j) == Host(UnassignedAt(j)) \in d.failed \/ Launched(j)

LaunchInv ==
  /\ d.pc = "group" =>
       /\ \A j \in 1..Len(d.unassigned) : d.sel[j] = None => Host(UnassignedAt(j)) \in d.failed
       /\ \A j \in 1..(d.k - 1) : Settled(j)
  /\ d.pc = "send" => \A j \in 1..Len(d.unassigned) : Settled(j)
  /\ QueuedIsLaunched

(* The answer; before it, only devices without a worker have failed. *)
AnswerInv ==
  /\ d.pc # "done" =>
       /\ d.succ = {} /\ hostq = {}
       /\ d.failed \subseteq {Host(i) : i \in Indices \ d.assigned}
  /\ d.failed \subseteq Hosts /\ d.succ \subseteq Indices /\ hostq \subseteq Indices
  /\ Accounted

(* What a failure is due to. *)
CauseInv ==
  /\ faults = 0 => DOMAIN d.snap \subseteq alive
  /\ d.pc \in {"group", "send", "done"} /\ faults = 0 /\ plugin # "least_load_random"
       /\ Len(d.unassigned) <= TotalRoom(d.snap) => d.failed = {}

BulkInv == PoolInv /\ ScanInv /\ SelInv /\ QueueInv /\ LaunchInv /\ AnswerInv /\ CauseInv

(* What the steps do to the locals of the dispatch. *)
KeepsScan ==
  /\ DOMAIN d' = Fields
  /\ d'.batch = d.batch /\ d'.fifo = d.fifo
  /\ d'.assigned = d.assigned /\ d'.unassigned = d.unassigned

KeepsSel == d'.snap = d.snap /\ d'.sel = d.sel

(* The route starts with empty locals. *)
LEMMA ReceiveEffect ==
  ASSUME NEW b \in Batches, NEW fifo \in BOOLEAN, Receive(b, fifo)
  PROVE  /\ DOMAIN d' = Fields /\ d'.batch = b /\ d'.pc \in {"refused", "fifo", "locks"}
         /\ d'.assigned = {} /\ d'.unassigned = <<>> /\ d'.snap = <<>> /\ d'.sel = <<>>
         /\ d'.k = 1 /\ d'.failed = {} /\ d'.succ = {}
         /\ d.pc = "idle" /\ UNCHANGED <<plugin, pool, nodeq, hostq, faults>>
  BY DEF Receive, NoDispatch, Fields

(* The FIFO strategy. *)
LEMMA SendFifoEffect ==
  ASSUME DOMAIN d = Fields, SendFifo
  PROVE  /\ KeepsScan /\ KeepsSel /\ d'.k = d.k /\ d'.failed = d.failed
         /\ d.pc = "fifo" /\ UNCHANGED <<plugin, pool, nodeq, faults>>
         /\ \/ d'.pc = "done" /\ d'.succ = Indices /\ hostq' = Indices
            \/ d'.pc = "refused" /\ d'.succ = d.succ /\ hostq' = hostq
  BY DEF SendFifo, KeepsScan, KeepsSel, Fields

(* The first read. *)
LEMMA ReadLocksEffect ==
  ASSUME DOMAIN d = Fields, ReadLocks
  PROVE  /\ KeepsScan /\ KeepsSel /\ d'.k = d.k /\ d'.failed = d.failed /\ d'.succ = d.succ
         /\ d.pc = "locks" /\ d'.pc = "info" /\ d'.locks = [i \in Indices |-> lock[Host(i)]]
         /\ UNCHANGED <<plugin, pool, nodeq, hostq, faults>>
  BY DEF ReadLocks, KeepsScan, KeepsSel, Fields

(* The second read. *)
LEMMA ReadInfoEffect ==
  ASSUME DOMAIN d = Fields, ReadInfo
  PROVE  /\ DOMAIN d' = Fields /\ d'.batch = d.batch /\ d'.fifo = d.fifo /\ KeepsSel
         /\ d'.k = d.k /\ d'.failed = d.failed /\ d'.succ = d.succ
         /\ d'.assigned = {i \in Indices : d.locks[i] # None /\ info[d.locks[i]] # None}
         /\ d'.unassigned \in SetToSeqs(Indices \ d'.assigned)
         /\ d.pc = "info" /\ d'.pc \in {"send", "select"}
         /\ d'.pc = "send" <=> d'.unassigned = <<>>
         /\ UNCHANGED <<plugin, pool, nodeq, hostq, faults>>
  <1>1. PICK missing \in Ascending(Indices \ {i \in Indices : d.locks[i] # None /\ info[d.locks[i]] # None}) :
          d' = [d EXCEPT !.pc = IF missing = <<>> THEN "send" ELSE "select",
                         !.assigned = {i \in Indices : d.locks[i] # None /\ info[d.locks[i]] # None},
                         !.unassigned = missing]
    BY DEF ReadInfo
  <1>2. missing \in SetToSeqs(Indices \ {i \in Indices : d.locks[i] # None /\ info[d.locks[i]] # None})
    BY DEF Ascending
  <1>3. QED
    BY <1>1, <1>2 DEF ReadInfo, KeepsSel, Fields

(* The handler around the scheduling. *)
LEMMA AllFailedEffect ==
  ASSUME DOMAIN d = Fields, d' = AllFailed
  PROVE  /\ KeepsScan /\ KeepsSel /\ d'.k = d.k /\ d'.succ = d.succ
         /\ d'.pc = "send" /\ d'.failed = d.failed \cup UnassignedHosts
  BY DEF AllFailed, KeepsScan, KeepsSel, Fields

(* The scheduler. *)
LEMMA SelectEffect ==
  ASSUME DOMAIN d = Fields, Select
  PROVE  /\ KeepsScan /\ d'.k = d.k /\ d'.succ = d.succ /\ d'.snap = Snapshot
         /\ d.pc = "select" /\ UNCHANGED <<plugin, pool, nodeq, hostq, faults>>
         /\ \/ /\ TooMany(Snapshot, Len(d.unassigned)) /\ d'.pc = "send" /\ d'.sel = d.sel
               /\ d'.failed = d.failed \cup UnassignedHosts
            \/ /\ ~TooMany(Snapshot, Len(d.unassigned)) /\ d'.pc = "group"
               /\ d'.sel \in BatchNodeSelect(plugin, Snapshot, Len(d.unassigned), None)
               /\ d'.failed = {Host(UnassignedAt(k)) :
                                 k \in {j \in 1..Len(d.unassigned) : d'.sel[j] = None}}
  <1> DEFINE h == Len(d.unassigned)
  <1>1. CASE TooMany(Snapshot, h)
    <2> DEFINE e == AllFailed
    <2>1. d' = [e EXCEPT !.snap = Snapshot]
      BY <1>1 DEF Select
    <2>2. /\ DOMAIN e = Fields /\ e.batch = d.batch /\ e.fifo = d.fifo
          /\ e.assigned = d.assigned /\ e.unassigned = d.unassigned /\ e.sel = d.sel
          /\ e.k = d.k /\ e.succ = d.succ
          /\ e.pc = "send" /\ e.failed = d.failed \cup UnassignedHosts
      BY DEF AllFailed, Fields
    <2> HIDE DEF e
    <2>3. QED
      BY <1>1, <2>1, <2>2 DEF Select, KeepsScan, Fields
  <1>2. CASE ~TooMany(Snapshot, h)
    <2>1. PICK sel \in BatchNodeSelect(plugin, Snapshot, h, None) :
            d' = [d EXCEPT !.pc = "group", !.snap = Snapshot, !.sel = sel,
                           !.failed = {Host(UnassignedAt(k)) : k \in {j \in 1..h : sel[j] = None}}]
      BY <1>2 DEF Select
    <2> DEFINE f == {Host(UnassignedAt(k)) : k \in {j \in 1..h : sel[j] = None}}
    <2> HIDE DEF f
    <2>2. d' = [d EXCEPT !.pc = "group", !.snap = Snapshot, !.sel = sel, !.failed = f]
      BY <2>1 DEF f
    <2>3. /\ KeepsScan /\ d'.k = d.k /\ d'.succ = d.succ /\ d'.snap = Snapshot
          /\ d'.pc = "group" /\ d'.sel = sel /\ d'.failed = f
      BY <2>2 DEF KeepsScan, Fields
    <2>4. d.pc = "select" /\ UNCHANGED <<plugin, pool, nodeq, hostq, faults>>
      BY DEF Select
    <2>5. d'.failed = {Host(UnassignedAt(k)) : k \in {j \in 1..h : d'.sel[j] = None}}
      BY <2>3 DEF f
    <2>6. d'.sel \in BatchNodeSelect(plugin, Snapshot, h, None)
      BY <2>1, <2>3
    <2> HIDE DEF h
    <2>7. QED
      BY <1>2, <2>3, <2>4, <2>5, <2>6 DEF h
  <1>3. QED
    BY <1>1, <1>2

(* The loop over the groups. *)
LEMMA NextGroupEffect ==
  ASSUME DOMAIN d = Fields, NEW f, d' = NextGroup(f)
  PROVE  /\ KeepsScan /\ KeepsSel /\ d'.k = d.k + 1 /\ d'.succ = d.succ
         /\ d'.pc = (IF d.k = Len(d.sel) THEN "send" ELSE "group") /\ d'.failed = f
  BY DEF NextGroup, KeepsScan, KeepsSel, Fields

(* The pipeline. *)
LEMMA SendEffect ==
  ASSUME DOMAIN d = Fields, Send
  PROVE  /\ KeepsScan /\ KeepsSel /\ d'.k = d.k /\ d'.failed = d.failed
         /\ d.pc = "send" /\ d'.pc = "done" /\ d'.succ = Ready /\ hostq' = hostq \cup Ready
         /\ UNCHANGED <<plugin, pool, nodeq, faults>>
  BY DEF Send, KeepsScan, KeepsSel, Fields

(* The pipeline raises. *)
LEMMA SendRaisesEffect ==
  ASSUME DOMAIN d = Fields, SendRaises
  PROVE  /\ KeepsScan /\ KeepsSel /\ d'.k = d.k /\ d'.succ = d.succ
         /\ d'.failed = d.failed \cup {Host(i) : i \in Ready}
         /\ d.pc = "send" /\ d'.pc = "done" /\ hostq' \in {hostq, hostq \cup Ready}
         /\ faults < MaxFaults /\ faults' = faults + 1
         /\ UNCHANGED <<plugin, pool, nodeq>>
  BY DEF SendRaises, KeepsScan, KeepsSel, Fields

-----------------------------------------------------------------------------
(* The invariant holds at the start and is kept by every step. *)

(* At the start nothing has been received. *)
LEMMA BulkStart == Init => BulkInv
  <1> SUFFICES ASSUME Init PROVE BulkInv
    OBVIOUS
  <1>1. /\ DOMAIN d = Fields /\ d.pc = "idle" /\ d.batch = <<>>
        /\ d.assigned = {} /\ d.unassigned = <<>> /\ d.snap = <<>> /\ d.sel = <<>>
        /\ d.k = 1 /\ d.failed = {} /\ d.succ = {} /\ nodeq = {} /\ hostq = {} /\ faults = 0
    BY DEF Init, NoDispatch, Fields
  <1>2. PoolInv
    BY <1>1, BulkAssumption DEF Init, PoolInv, NodeInfo
  <1>3. ScanInv
    BY <1>1 DEF ScanInv, PCs, Indices, Host
  <1>4. DOMAIN d.snap = {}
    BY <1>1
  <1>5. GoodSnap(d.snap)
    BY <1>4, FS_EmptySet DEF GoodSnap
  <1>6. SelInv
    BY <1>1, <1>4, <1>5 DEF SelInv
  <1>7. QueueInv /\ LaunchInv /\ AnswerInv
    BY <1>1 DEF QueueInv, LaunchInv, AnswerInv, QueuedIsLaunched, Accounted
  <1>8. CauseInv
    BY <1>1, <1>4 DEF CauseInv
  <1>9. QED
    BY <1>2, <1>3, <1>6, <1>7, <1>8 DEF BulkInv

(* Nothing about the pool is part of a step that leaves it alone. *)
LEMMA PoolKept ==
  ASSUME PoolInv, UNCHANGED <<plugin, pool>>, faults' = faults \/ faults' \in 1..MaxFaults
  PROVE  PoolInv'
  BY DEF PoolInv, pool

(* The route. *)
LEMMA ReceiveKeeps ==
  ASSUME BulkInv, NEW b \in Batches, NEW fifo \in BOOLEAN, Receive(b, fifo)
  PROVE  BulkInv'
  <1>1. /\ DOMAIN d' = Fields /\ d'.batch = b /\ d'.pc \in {"refused", "fifo", "locks"}
        /\ d'.assigned = {} /\ d'.unassigned = <<>> /\ d'.snap = <<>> /\ d'.sel = <<>>
        /\ d'.k = 1 /\ d'.failed = {} /\ d'.succ = {}
        /\ d.pc = "idle" /\ UNCHANGED <<plugin, pool, nodeq, hostq, faults>>
    BY ReceiveEffect
  <1>2. PoolInv'
    BY <1>1, PoolKept DEF BulkInv
  <1>3. ScanInv'
    BY <1>1, BulkAssumption DEF ScanInv, PCs, Indices, Host
  <1>4. DOMAIN d'.snap = {}
    BY <1>1
  <1>5. GoodSnap(d'.snap)
    BY <1>4, FS_EmptySet DEF GoodSnap
  <1>6. SelInv'
    BY <1>1, <1>4, <1>5 DEF SelInv
  <1>7. nodeq = {} /\ hostq = {}
    BY <1>1 DEF BulkInv, SelInv, QueueInv, AnswerInv
  <1>8. QueueInv' /\ LaunchInv' /\ AnswerInv'
    BY <1>1, <1>7 DEF QueueInv, LaunchInv, AnswerInv, QueuedIsLaunched, Accounted
  <1>9. CauseInv'
    BY <1>1, <1>4 DEF CauseInv
  <1>10. QED
    BY <1>2, <1>3, <1>6, <1>8, <1>9 DEF BulkInv

(* The FIFO strategy. *)
LEMMA SendFifoKeeps ==
  ASSUME BulkInv, SendFifo
  PROVE  BulkInv'
  <1>1. /\ KeepsScan /\ KeepsSel /\ d'.k = d.k /\ d'.failed = d.failed
        /\ d.pc = "fifo" /\ UNCHANGED <<plugin, pool, nodeq, faults>>
        /\ \/ d'.pc = "done" /\ d'.succ = Indices /\ hostq' = Indices
           \/ d'.pc = "refused" /\ d'.succ = d.succ /\ hostq' = hostq
    BY SendFifoEffect DEF BulkInv, ScanInv
  <1>2. PoolInv'
    BY <1>1, PoolKept DEF BulkInv
  <1>3. ScanInv'
    BY <1>1 DEF BulkInv, ScanInv, KeepsScan, PCs, Indices, Host
  <1>4. SelInv'
    BY <1>1 DEF BulkInv, SelInv, KeepsScan, KeepsSel
  <1>5. QueueInv'
    BY <1>1 DEF BulkInv, QueueInv, KeepsScan, KeepsSel, Host, UnassignedAt
  <1>6. LaunchInv'
    <2>1. DOMAIN d'.unassigned = {}
      BY <1>1 DEF BulkInv, ScanInv, KeepsScan
    <2>2. QED
      BY <1>1, <2>1 DEF LaunchInv, QueuedIsLaunched
  <1>7. AnswerInv'
    BY <1>1 DEF BulkInv, AnswerInv, SelInv, Accounted, KeepsScan, Indices, Host
  <1>8. CauseInv'
    BY <1>1 DEF BulkInv, CauseInv, SelInv, KeepsScan, KeepsSel, pool
  <1>9. QED
    BY <1>2, <1>3, <1>4, <1>5, <1>6, <1>7, <1>8 DEF BulkInv

(* Equal hosts read equal locks. *)
LEMMA ReadLocksKeeps ==
  ASSUME BulkInv, ReadLocks
  PROVE  BulkInv'
  <1>1. /\ KeepsScan /\ KeepsSel /\ d'.k = d.k /\ d'.failed = d.failed /\ d'.succ = d.succ
        /\ d.pc = "locks" /\ d'.pc = "info" /\ d'.locks = [i \in Indices |-> lock[Host(i)]]
        /\ UNCHANGED <<plugin, pool, nodeq, hostq, faults>>
    BY ReadLocksEffect DEF BulkInv, ScanInv
  <1>2. PoolInv'
    BY <1>1, PoolKept DEF BulkInv
  <1>3. ScanInv'
    BY <1>1 DEF BulkInv, ScanInv, KeepsScan, PCs, Indices, Host
  <1>4. SelInv'
    BY <1>1 DEF BulkInv, SelInv, KeepsScan, KeepsSel
  <1>5. QueueInv'
    BY <1>1 DEF BulkInv, QueueInv, KeepsScan, KeepsSel, Host, UnassignedAt
  <1>6. LaunchInv'
    BY <1>1 DEF LaunchInv, QueuedIsLaunched
  <1>7. AnswerInv'
    BY <1>1 DEF BulkInv, AnswerInv, SelInv, Accounted, KeepsScan, Indices, Host
  <1>8. CauseInv'
    BY <1>1 DEF BulkInv, CauseInv, SelInv, KeepsScan, KeepsSel, pool
  <1>9. QED
    BY <1>2, <1>3, <1>4, <1>5, <1>6, <1>7, <1>8 DEF BulkInv

(* Equal locks are found or missing together. *)
LEMMA ReadInfoKeeps ==
  ASSUME BulkInv, ReadInfo
  PROVE  BulkInv'
  <1>1. /\ DOMAIN d' = Fields /\ d'.batch = d.batch /\ d'.fifo = d.fifo /\ KeepsSel
        /\ d'.k = d.k /\ d'.failed = d.failed /\ d'.succ = d.succ
        /\ d'.assigned = {i \in Indices : d.locks[i] # None /\ info[d.locks[i]] # None}
        /\ d'.unassigned \in SetToSeqs(Indices \ d'.assigned)
        /\ d.pc = "info" /\ d'.pc \in {"send", "select"}
        /\ d'.pc = "send" <=> d'.unassigned = <<>>
        /\ UNCHANGED <<plugin, pool, nodeq, hostq, faults>>
    BY ReadInfoEffect DEF BulkInv, ScanInv
  <1>2. d'.unassigned \in Seq(Indices \ d'.assigned) /\ (d'.pc = "select" => Len(d'.unassigned) > 0)
    <2> DEFINE S == Indices \ d'.assigned
               u == d'.unassigned
    <2>1. S \in SUBSET (1..Len(d.batch)) /\ Len(d.batch) \in Nat
      BY DEF BulkInv, ScanInv, Indices
    <2>2. Cardinality(S) \in Nat
      BY <2>1, Positions
    <2>3. u \in [1..Cardinality(S) -> S]
      BY <1>1 DEF SetToSeqs
    <2> HIDE DEF S, u
    <2>4. u \in Seq(S)
      BY <2>2, <2>3
    <2>5. u # <<>> => Len(u) > 0
      BY <2>4
    <2>6. QED
      BY <1>1, <2>4, <2>5 DEF S, u
  <1>3. PoolInv'
    BY <1>1, PoolKept DEF BulkInv
  <1>4. \A i \in d'.assigned, j \in Indices \ d'.assigned : Host(i) # Host(j)
    BY <1>1 DEF BulkInv, ScanInv
  <1>5. ScanInv'
    BY <1>1, <1>2, <1>4 DEF BulkInv, ScanInv, PCs, Indices, Host
  <1>6. d.sel = <<>> /\ d.failed = {} /\ d.k = 1 /\ nodeq = {} /\ d.succ = {} /\ hostq = {}
    BY <1>1 DEF BulkInv, SelInv, QueueInv, AnswerInv
  <1>7. SelInv'
    BY <1>1, <1>6 DEF BulkInv, SelInv, KeepsSel
  <1>8. QueueInv'
    BY <1>1, <1>6 DEF QueueInv
  <1>9. LaunchInv'
    BY <1>1 DEF LaunchInv, QueuedIsLaunched
  <1>10. AnswerInv'
    BY <1>1, <1>6 DEF AnswerInv, Accounted
  <1>11. CauseInv'
    BY <1>1, <1>6 DEF BulkInv, CauseInv, KeepsSel, pool
  <1>12. QED
    BY <1>3, <1>5, <1>7, <1>8, <1>9, <1>10, <1>11 DEF BulkInv

(* get_all_nodes reads records of nodes within their capacity. *)
LEMMA SnapshotIsGood ==
  ASSUME PoolInv
  PROVE  /\ GoodSnap(Snapshot) /\ DOMAIN Snapshot \subseteq Nodes
         /\ None \notin DOMAIN Snapshot
         /\ faults = 0 => DOMAIN Snapshot \subseteq alive
         /\ TotalRoom(Snapshot) \in Nat
  <1>1. DOMAIN Snapshot = {n \in Nodes : info[n] # None}
    BY DEF Snapshot
  <1>2. IsFiniteSet(DOMAIN Snapshot)
    <2>1. DOMAIN Snapshot \in SUBSET Nodes
      BY <1>1
    <2>2. QED
      BY <2>1, BulkAssumption, FS_Subset
  <1>3. ASSUME NEW n \in DOMAIN Snapshot
        PROVE  /\ Snapshot[n].count \in Nat /\ Snapshot[n].cap \in Nat
               /\ Snapshot[n].count <= Snapshot[n].cap
    <2>1. Snapshot[n] = info[n] /\ info[n] \in NodeInfo /\ info[n].count <= info[n].cap
      BY <1>1 DEF Snapshot, PoolInv
    <2>2. QED
      BY <2>1, BulkAssumption DEF NodeInfo
  <1>4. GoodSnap(Snapshot)
    BY <1>1, <1>2, <1>3, BulkAssumption DEF GoodSnap
  <1>5. TotalRoom(Snapshot) \in Nat
    BY <1>4, PlacesFinite DEF TotalRoom
  <1>6. QED
    BY <1>1, <1>4, <1>5, BulkAssumption DEF PoolInv

(* The scheduler meets SelOK, or everything fails. *)
LEMMA SelectKeeps ==
  ASSUME BulkInv, Select
  PROVE  BulkInv'
  <1> DEFINE h == Len(d.unassigned)
  <1>1. /\ KeepsScan /\ d'.k = d.k /\ d'.succ = d.succ /\ d'.snap = Snapshot
        /\ d.pc = "select" /\ UNCHANGED <<plugin, pool, nodeq, hostq, faults>>
        /\ \/ /\ TooMany(Snapshot, h) /\ d'.pc = "send" /\ d'.sel = d.sel
              /\ d'.failed = d.failed \cup UnassignedHosts
           \/ /\ ~TooMany(Snapshot, h) /\ d'.pc = "group"
              /\ d'.sel \in BatchNodeSelect(plugin, Snapshot, h, None)
              /\ d'.failed = {Host(UnassignedAt(k)) : k \in {j \in 1..h : d'.sel[j] = None}}
    BY SelectEffect DEF BulkInv, ScanInv
  <1>2. /\ GoodSnap(Snapshot) /\ DOMAIN Snapshot \subseteq Nodes
        /\ None \notin DOMAIN Snapshot
        /\ faults = 0 => DOMAIN Snapshot \subseteq alive
        /\ TotalRoom(Snapshot) \in Nat
    BY SnapshotIsGood DEF BulkInv
  <1>3. h \in Nat /\ h > 0 /\ d.unassigned \in [1..h -> Indices \ d.assigned]
    BY <1>1 DEF BulkInv, ScanInv
  <1>4. plugin \in Plugins
    BY DEF BulkInv, PoolInv
  <1>5. d.sel = <<>> /\ d.failed = {} /\ d.k = 1 /\ nodeq = {} /\ d.succ = {} /\ hostq = {}
    BY <1>1 DEF BulkInv, SelInv, QueueInv, AnswerInv
  <1>6. PoolInv'
    BY <1>1, PoolKept DEF BulkInv
  <1>7. ScanInv'
    BY <1>1 DEF BulkInv, ScanInv, KeepsScan, PCs, Indices, Host
  <1>8. ASSUME d'.pc = "group"
        PROVE  SelOK(plugin, Snapshot, h, d'.sel) /\ d'.sel # <<>>
    <2>1. SelOK(plugin, Snapshot, h, d'.sel)
      BY <1>1, <1>2, <1>3, <1>4, <1>8, Selects
    <2>2. DOMAIN d'.sel = 1..h
      BY <2>1 DEF SelOK
    <2>3. 1 \in DOMAIN d'.sel
      BY <1>3, <2>2
    <2>4. QED
      BY <2>1, <2>3
  <1>9. SelInv'
    <2>1. GoodSnap(Snapshot)' <=> GoodSnap(Snapshot)
      BY <1>1 DEF Snapshot, GoodSnap, pool
    <2>2. CASE d'.pc = "send"
      BY <1>1, <1>2, <1>5, <2>2 DEF SelInv, KeepsScan
    <2>3. CASE d'.pc = "group"
      BY <1>1, <1>2, <1>3, <1>5, <1>8, <2>3 DEF SelInv, KeepsScan
    <2>4. QED
      BY <1>1, <2>2, <2>3
  <1>10. QueueInv'
    BY <1>1, <1>5 DEF QueueInv
  <1>11. d'.failed \subseteq {Host(i) : i \in Indices \ d.assigned}
    BY <1>1, <1>3, <1>5 DEF UnassignedHosts, UnassignedAt
  <1>12. LaunchInv'
    <2>1. CASE d'.pc = "send"
      <3>1. \A j \in 1..h : Host(UnassignedAt(j)) \in d'.failed
        BY <1>1, <1>3, <2>1 DEF UnassignedHosts
      <3>2. QED
        BY <1>1, <2>1, <3>1 DEF LaunchInv, QueuedIsLaunched, Settled, KeepsScan, Host, UnassignedAt
    <2>2. CASE d'.pc = "group"
      <3>1. \A j \in 1..h : d'.sel[j] = None => Host(UnassignedAt(j)) \in d'.failed
        BY <1>1, <2>2
      <3>2. 1..(d'.k - 1) = {}
        BY <1>1, <1>5
      <3>3. QED
        BY <1>1, <2>2, <3>1, <3>2 DEF LaunchInv, QueuedIsLaunched, KeepsScan, Host, UnassignedAt
    <2>3. QED
      BY <1>1, <2>1, <2>2
  <1>13. AnswerInv'
    <2>1. d'.failed \subseteq Hosts
      BY <1>11 DEF BulkInv, ScanInv, Indices, Host
    <2>2. QED
      BY <1>1, <1>5, <1>11, <2>1 DEF AnswerInv, Accounted, KeepsScan, Indices, Host
  <1>14. CauseInv'
    <2>1. CASE d'.pc = "send"
      <3>1. ~(h <= TotalRoom(Snapshot))
        BY <1>1, <1>2, <1>3, <2>1 DEF TooMany
      <3>2. QED
        BY <1>1, <1>2, <3>1 DEF CauseInv, KeepsScan, pool
    <2>2. CASE d'.pc = "group"
      <3>1. plugin # "least_load_random" => d'.failed = {}
        BY <1>1, <1>2, <1>8, <2>2 DEF SelOK, Available
      <3>2. QED
        BY <1>1, <1>2, <3>1 DEF CauseInv, KeepsScan, pool
    <2>3. QED
      BY <1>1, <2>1, <2>2
  <1>15. QED
    BY <1>6, <1>7, <1>9, <1>10, <1>12, <1>13, <1>14 DEF BulkInv

(* Going on to the next group, whatever became of this one. *)
LEMMA GroupKeeps ==
  ASSUME BulkInv, d.pc = "group", NEW f, d' = NextGroup(f), UNCHANGED <<plugin, hostq>>,
         d.failed \subseteq f, f \subseteq d.failed \cup {Host(UnassignedAt(d.k))},
         nodeq \subseteq nodeq',
         \A s \in nodeq' \ nodeq :
           s = <<d.sel[d.k], Host(UnassignedAt(d.k)), d.k>> /\ d.sel[d.k] # None,
         \/ Host(UnassignedAt(d.k)) \in f
         \/ \E n \in Nodes : <<n, Host(UnassignedAt(d.k)), d.k>> \in nodeq'
  PROVE  ScanInv' /\ SelInv' /\ QueueInv' /\ LaunchInv' /\ AnswerInv'
  <1> DEFINE h == Len(d.unassigned)
             k == d.k
  <1>1. /\ KeepsScan /\ KeepsSel /\ d'.k = k + 1 /\ d'.succ = d.succ
        /\ d'.pc = (IF k = Len(d.sel) THEN "send" ELSE "group") /\ d'.failed = f
    BY NextGroupEffect DEF BulkInv, ScanInv
  <1>2. /\ h \in Nat /\ d.unassigned \in [1..h -> Indices \ d.assigned]
        /\ k \in 1..h /\ d.sel # <<>> /\ SelOK(plugin, d.snap, h, d.sel)
    BY DEF BulkInv, ScanInv, SelInv
  <1>3. Len(d.sel) = h
    BY <1>2 DEF SelOK
  <1>4. ScanInv'
    BY <1>1 DEF BulkInv, ScanInv, KeepsScan, PCs, Indices, Host
  <1>5. SelInv'
    BY <1>1, <1>2, <1>3 DEF BulkInv, SelInv, KeepsScan, KeepsSel
  <1>6. QueueInv'
    <2>1. ASSUME NEW s \in nodeq'
          PROVE  \E j \in 1..h : s = <<d.sel[j], Host(UnassignedAt(j)), j>> /\ d.sel[j] # None
      BY <1>2 DEF BulkInv, QueueInv
    <2>2. QED
      BY <1>1, <1>2, <2>1 DEF QueueInv, KeepsScan, KeepsSel, Host, UnassignedAt
  <1>7. LaunchInv'
    <2> DEFINE Done(j) == \/ Host(UnassignedAt(j)) \in f
                          \/ \E n \in Nodes : <<n, Host(UnassignedAt(j)), j>> \in nodeq'
    <2>1. \A j \in 1..k : Done(j)
      <3>1. \A j \in 1..(k - 1) : Done(j)
        BY DEF BulkInv, LaunchInv, Settled, Launched
      <3>2. Done(k)
        OBVIOUS
      <3> HIDE DEF Done
      <3>3. QED
        BY <1>2, <3>1, <3>2
    <2>2. \A j \in 1..k : Settled(j)'
      BY <1>1, <2>1 DEF Settled, Launched, KeepsScan, Host, UnassignedAt
    <2>3. \A j \in 1..h : d.sel[j] = None => Host(UnassignedAt(j)) \in f
      BY DEF BulkInv, LaunchInv
    <2>4. CASE k = h
      BY <1>1, <1>3, <2>2, <2>4 DEF LaunchInv, QueuedIsLaunched, KeepsScan
    <2>5. CASE k # h
      <3>1. 1..(d'.k - 1) = 1..k
        BY <1>1, <1>2
      <3>2. QED
        BY <1>1, <1>3, <2>2, <2>3, <2>5, <3>1
        DEF LaunchInv, QueuedIsLaunched, KeepsScan, KeepsSel, Host, UnassignedAt
    <2>6. QED
      BY <2>4, <2>5
  <1>8. AnswerInv'
    <2>1. d.unassigned[k] \in Indices \ d.assigned
      BY <1>2
    <2>2. f \subseteq {Host(i) : i \in Indices \ d.assigned} /\ f \subseteq Hosts
      BY <2>1 DEF BulkInv, AnswerInv, ScanInv, UnassignedAt, Host, Indices
    <2>3. QED
      BY <1>1, <2>2 DEF BulkInv, AnswerInv, Accounted, KeepsScan, Indices, Host
  <1>9. QED
    BY <1>4, <1>5, <1>6, <1>7, <1>8

(* A group has no node, a live one or a dead one. *)
LEMMA LaunchGroupKeeps ==
  ASSUME BulkInv, LaunchGroup
  PROVE  BulkInv'
  <1> DEFINE n == d.sel[d.k]
             x == Host(UnassignedAt(d.k))
  <1>1. d.pc = "group" /\ UNCHANGED <<plugin, hostq, faults>>
    BY DEF LaunchGroup
  <1>2. /\ d.k \in 1..Len(d.unassigned) /\ n \in Available(d.snap) \cup {None}
        /\ plugin # "least_load_random" => n \in Available(d.snap)
        /\ DOMAIN d.snap \subseteq Nodes /\ None \notin Nodes
    BY <1>1, BulkAssumption DEF BulkInv, SelInv, SelOK
  <1>3. n # None => n \in DOMAIN d.snap /\ n \in Nodes
    BY <1>2 DEF Available
  <1>4. CASE n = None
    <2>1. d' = NextGroup(d.failed) /\ UNCHANGED <<pool, nodeq>>
      BY <1>4 DEF LaunchGroup
    <2>2. x \in d.failed
      BY <1>1, <1>2, <1>4 DEF BulkInv, LaunchInv
    <2>3. ScanInv' /\ SelInv' /\ QueueInv' /\ LaunchInv' /\ AnswerInv'
      BY <1>1, <2>1, <2>2, GroupKeeps
    <2>4. PoolInv'
      BY <1>1, <2>1, PoolKept DEF BulkInv
    <2>5. CauseInv'
      <3>1. KeepsScan /\ KeepsSel /\ d'.failed = d.failed
        BY <2>1, NextGroupEffect DEF BulkInv, ScanInv
      <3>2. QED
        BY <1>1, <2>1, <3>1 DEF BulkInv, CauseInv, KeepsScan, KeepsSel, pool
    <2>6. QED
      BY <2>3, <2>4, <2>5 DEF BulkInv
  <1>5. CASE n # None /\ n \in alive
    <2>1. nodeq' = nodeq \cup {<<n, x, d.k>>} /\ d' = NextGroup(d.failed) /\ UNCHANGED pool
      BY <1>5 DEF LaunchGroup
    <2>2. ScanInv' /\ SelInv' /\ QueueInv' /\ LaunchInv' /\ AnswerInv'
      BY <1>1, <1>3, <1>5, <2>1, GroupKeeps
    <2>3. PoolInv'
      BY <1>1, <2>1, PoolKept DEF BulkInv
    <2>4. CauseInv'
      <3>1. KeepsScan /\ KeepsSel /\ d'.failed = d.failed
        BY <2>1, NextGroupEffect DEF BulkInv, ScanInv
      <3>2. QED
        BY <1>1, <2>1, <3>1 DEF BulkInv, CauseInv, KeepsScan, KeepsSel, pool
    <2>5. QED
      BY <2>2, <2>3, <2>4 DEF BulkInv
  <1>6. CASE n # None /\ n \notin alive
    <2>1. /\ lock' = [y \in Hosts |-> IF lock[y] = n THEN None ELSE lock[y]]
          /\ info' = [info EXCEPT ![n] = None]
          /\ d' = NextGroup(d.failed \cup {x}) /\ UNCHANGED <<alive, nodeq>>
      BY <1>6 DEF LaunchGroup, DeadNode
    <2>2. ScanInv' /\ SelInv' /\ QueueInv' /\ LaunchInv' /\ AnswerInv'
      BY <1>1, <2>1, GroupKeeps
    <2>3. PoolInv'
      BY <1>1, <1>3, <1>6, <2>1 DEF BulkInv, PoolInv
    <2>4. faults # 0
      BY <1>3, <1>6 DEF BulkInv, CauseInv
    <2>5. CauseInv'
      BY <1>1, <2>4 DEF CauseInv
    <2>6. QED
      BY <2>2, <2>3, <2>5 DEF BulkInv
  <1>7. QED
    BY <1>4, <1>5, <1>6

(* Redis fails at a group. *)
LEMMA LaunchRaisesKeeps ==
  ASSUME BulkInv, LaunchRaises
  PROVE  BulkInv'
  <1>1. /\ d.pc = "group" /\ faults < MaxFaults /\ faults' = faults + 1
        /\ UNCHANGED <<plugin, pool, nodeq, hostq>>
    BY DEF LaunchRaises
  <1>2. faults \in Nat /\ faults' \in 1..MaxFaults
    BY <1>1, BulkAssumption DEF BulkInv, PoolInv
  <1>3. PoolInv'
    BY <1>1, <1>2, PoolKept DEF BulkInv
  <1>4. CauseInv'
    BY <1>2 DEF CauseInv
  <1>5. CASE d' = NextGroup(d.failed \cup {Host(UnassignedAt(d.k))})
    <2>1. ScanInv' /\ SelInv' /\ QueueInv' /\ LaunchInv' /\ AnswerInv'
      BY <1>1, <1>5, GroupKeeps
    <2>2. QED
      BY <1>3, <1>4, <2>1 DEF BulkInv
  <1>6. CASE d' = AllFailed
    <2> DEFINE h == Len(d.unassigned)
    <2>1. /\ KeepsScan /\ KeepsSel /\ d'.k = d.k /\ d'.succ = d.succ
          /\ d'.pc = "send" /\ d'.failed = d.failed \cup UnassignedHosts
      BY <1>6, AllFailedEffect DEF BulkInv, ScanInv
    <2>2. h \in Nat /\ d.unassigned \in [1..h -> Indices \ d.assigned]
      BY DEF BulkInv, ScanInv
    <2>3. ScanInv'
      BY <2>1 DEF BulkInv, ScanInv, KeepsScan, PCs, Indices, Host
    <2>4. SelInv'
      BY <1>1, <2>1 DEF BulkInv, SelInv, KeepsScan, KeepsSel
    <2>5. QueueInv'
      BY <1>1, <2>1 DEF BulkInv, QueueInv, KeepsScan, KeepsSel, Host, UnassignedAt
    <2>6. LaunchInv'
      <3>1. \A j \in 1..h : Host(UnassignedAt(j)) \in d'.failed
        BY <2>1, <2>2 DEF UnassignedHosts
      <3>2. QED
        BY <2>1, <3>1 DEF LaunchInv, QueuedIsLaunched, Settled, KeepsScan, Host, UnassignedAt
    <2>7. AnswerInv'
      <3>1. UnassignedHosts \subseteq {Host(i) : i \in Indices \ d.assigned}
        BY <2>2 DEF UnassignedHosts, UnassignedAt
      <3>2. {Host(i) : i \in Indices \ d.assigned} \subseteq Hosts
        BY DEF BulkInv, ScanInv, Indices, Host
      <3>3. d'.failed \subseteq {Host(i) : i \in Indices \ d.assigned} /\ d'.failed \subseteq Hosts
        BY <1>1, <2>1, <3>1, <3>2 DEF BulkInv, AnswerInv
      <3>4. QED
        BY <1>1, <2>1, <3>3 DEF BulkInv, AnswerInv, Accounted, KeepsScan, Indices, Host
    <2>8. QED
      BY <1>3, <1>4, <2>3, <2>4, <2>5, <2>6, <2>7 DEF BulkInv
  <1>7. QED
    BY <1>5, <1>6 DEF LaunchRaises

(* Ready are the devices with a worker and those that have not failed. *)
LEMMA ReadyIs ==
  ASSUME BulkInv, d.pc = "send"
  PROVE  /\ Ready \subseteq Indices
         /\ \A i \in Indices : i \in Ready <=> Host(i) \notin d.failed
  BY DEF BulkInv, ScanInv, AnswerInv, Ready

(* What is ready is settled, and so was launched. *)
LEMMA SendKeeps ==
  ASSUME BulkInv, Send
  PROVE  BulkInv'
  <1>1. /\ KeepsScan /\ KeepsSel /\ d'.k = d.k /\ d'.failed = d.failed
        /\ d.pc = "send" /\ d'.pc = "done" /\ d'.succ = Ready /\ hostq' = hostq \cup Ready
        /\ UNCHANGED <<plugin, pool, nodeq, faults>>
    BY SendEffect DEF BulkInv, ScanInv
  <1>2. Ready \subseteq Indices /\ \A i \in Indices : i \in Ready <=> Host(i) \notin d.failed
    BY <1>1, ReadyIs
  <1>3. PoolInv'
    BY <1>1, PoolKept DEF BulkInv
  <1>4. ScanInv'
    BY <1>1 DEF BulkInv, ScanInv, KeepsScan, PCs, Indices, Host
  <1>5. SelInv'
    BY <1>1 DEF BulkInv, SelInv, KeepsScan, KeepsSel
  <1>6. QueueInv'
    BY <1>1 DEF BulkInv, QueueInv, KeepsScan, KeepsSel, Host, UnassignedAt
  <1>7. LaunchInv'
    <2>1. ASSUME NEW k \in DOMAIN d.unassigned, UnassignedAt(k) \in Ready
          PROVE  \E n \in Nodes : <<n, Host(UnassignedAt(k)), k>> \in nodeq
      <3>1. k \in 1..Len(d.unassigned) /\ UnassignedAt(k) \in Indices
        BY DEF BulkInv, ScanInv, UnassignedAt
      <3>2. Settled(k)
        BY <1>1, <3>1 DEF BulkInv, LaunchInv
      <3>3. QED
        BY <1>2, <2>1, <3>1, <3>2 DEF Settled, Launched
    <2>2. QED
      BY <1>1, <2>1 DEF LaunchInv, QueuedIsLaunched, KeepsScan, Host, UnassignedAt
  <1>8. AnswerInv'
    BY <1>1, <1>2 DEF BulkInv, AnswerInv, Accounted, KeepsScan, Indices, Host
  <1>9. CauseInv'
    BY <1>1 DEF BulkInv, CauseInv, KeepsScan, KeepsSel, pool
  <1>10. QED
    BY <1>3, <1>4, <1>5, <1>6, <1>7, <1>8, <1>9 DEF BulkInv

(* All that was ready has failed. *)
LEMMA SendRaisesKeeps ==
  ASSUME BulkInv, SendRaises
  PROVE  BulkInv'
  <1>1. /\ KeepsScan /\ KeepsSel /\ d'.k = d.k /\ d'.succ = d.succ
        /\ d'.failed = d.failed \cup {Host(i) : i \in Ready}
        /\ d.pc = "send" /\ d'.pc = "done" /\ hostq' \in {hostq, hostq \cup Ready}
        /\ faults < MaxFaults /\ faults' = faults + 1
        /\ UNCHANGED <<plugin, pool, nodeq>>
    BY SendRaisesEffect DEF BulkInv, ScanInv
  <1>2. Ready \subseteq Indices /\ \A i \in Indices : i \in Ready <=> Host(i) \notin d.failed
    BY <1>1, ReadyIs
  <1>3. faults \in Nat /\ faults' \in 1..MaxFaults
    BY <1>1, BulkAssumption DEF BulkInv, PoolInv
  <1>4. PoolInv'
    BY <1>1, <1>3, PoolKept DEF BulkInv
  <1>5. ScanInv'
    BY <1>1 DEF BulkInv, ScanInv, KeepsScan, PCs, Indices, Host
  <1>6. SelInv'
    BY <1>1 DEF BulkInv, SelInv, KeepsScan, KeepsSel
  <1>7. QueueInv'
    BY <1>1 DEF BulkInv, QueueInv, KeepsScan, KeepsSel, Host, UnassignedAt
  <1>8. d'.succ = {}
    BY <1>1 DEF BulkInv, AnswerInv
  <1>9. LaunchInv'
    BY <1>1, <1>8 DEF LaunchInv, QueuedIsLaunched
  <1>10. AnswerInv'
    <2>1. \A i \in Indices : Host(i) \in d'.failed
      BY <1>1, <1>2
    <2>2. d'.failed \subseteq Hosts
      BY <1>1, <1>2 DEF BulkInv, ScanInv, AnswerInv, Indices, Host
    <2>3. QED
      BY <1>1, <1>2, <1>8, <2>1, <2>2 DEF BulkInv, AnswerInv, Accounted, KeepsScan, Indices, Host
  <1>11. CauseInv'
    BY <1>3 DEF CauseInv
  <1>12. QED
    BY <1>4, <1>5, <1>6, <1>7, <1>9, <1>10, <1>11 DEF BulkInv

(* What happens to the pool meanwhile. *)
LEMMA PoolStepKeeps ==
  ASSUME BulkInv, PoolStep
  PROVE  BulkInv'
  <1>1. /\ faults < MaxFaults /\ faults' = faults + 1 /\ UNCHANGED <<plugin, nodeq, hostq, d>>
    BY DEF PoolStep, NodeDies, OtherPins
  <1>2. faults \in Nat /\ faults' \in 1..MaxFaults
    BY <1>1, BulkAssumption DEF BulkInv, PoolInv
  <1>3. PoolInv'
    <2>1. ASSUME NEW n \in Nodes, NodeDies(n) PROVE PoolInv'
      BY <1>2, <2>1 DEF BulkInv, PoolInv, NodeDies
    <2>2. ASSUME NEW n \in Nodes, NEW h \in Hosts, OtherPins(n, h) PROVE PoolInv'
      <3> DEFINE r == [info[n] EXCEPT !.count = @ + 1]
      <3>1. info[n] \in NodeInfo /\ info[n].count < info[n].cap
        BY <2>2 DEF BulkInv, PoolInv, OtherPins
      <3>2. r \in NodeInfo /\ r.count <= r.cap
        BY <3>1, BulkAssumption DEF NodeInfo
      <3>3. info' = [info EXCEPT ![n] = r] /\ lock' = [lock EXCEPT ![h] = n] /\ alive' = alive
        BY <2>2 DEF OtherPins
      <3> HIDE DEF r
      <3>4. QED
        BY <1>1, <1>2, <3>2, <3>3 DEF BulkInv, PoolInv
    <2>3. QED
      BY <2>1, <2>2 DEF PoolStep
  <1>4. ScanInv'
    BY <1>1 DEF BulkInv, ScanInv, Indices, Host
  <1>5. SelInv'
    BY <1>1 DEF BulkInv, SelInv
  <1>6. QueueInv'
    BY <1>1 DEF BulkInv, QueueInv, Host, UnassignedAt
  <1>7. LaunchInv'
    BY <1>1 DEF BulkInv, LaunchInv, QueuedIsLaunched, Settled, Launched, Host, UnassignedAt
  <1>8. AnswerInv'
    BY <1>1 DEF BulkInv, AnswerInv, Accounted, Indices, Host
  <1>9. CauseInv'
    BY <1>2 DEF CauseInv
  <1>10. QED
    BY <1>3, <1>4, <1>5, <1>6, <1>7, <1>8, <1>9 DEF BulkInv

(* Every step. *)
LEMMA BulkNext == BulkInv /\ [Next]_vars => BulkInv'
  <1> SUFFICES ASSUME BulkInv, [Next]_vars PROVE BulkInv'
    OBVIOUS
  <1>1. ASSUME NEW b \in Batches, NEW fifo \in BOOLEAN, Receive(b, fifo) PROVE BulkInv'
    BY <1>1, ReceiveKeeps
  <1>2. CASE SendFifo
    BY <1>2, SendFifoKeeps
  <1>3. CASE ReadLocks
    BY <1>3, ReadLocksKeeps
  <1>4. CASE ReadInfo
    BY <1>4, ReadInfoKeeps
  <1>5. CASE Select
    BY <1>5, SelectKeeps
  <1>6. CASE LaunchGroup
    BY <1>6, LaunchGroupKeeps
  <1>7. CASE LaunchRaises
    BY <1>7, LaunchRaisesKeeps
  <1>8. CASE Send
    BY <1>8, SendKeeps
  <1>9. CASE SendRaises
    BY <1>9, SendRaisesKeeps
  <1>10. CASE PoolStep
    BY <1>10, PoolStepKeeps
  <1>11. CASE UNCHANGED vars
    <2>1. PoolInv' /\ ScanInv' /\ SelInv' /\ QueueInv'
      BY <1>11 DEF BulkInv, PoolInv, ScanInv, SelInv, QueueInv, vars, Indices, Host, UnassignedAt
    <2>2. LaunchInv' /\ AnswerInv'
      BY <1>11 DEF BulkInv, LaunchInv, QueuedIsLaunched, Settled, Launched, AnswerInv, Accounted,
                   vars, Indices, Host, UnassignedAt
    <2>3. CauseInv'
      BY <1>11 DEF BulkInv, CauseInv, vars
    <2>4. QED
      BY <2>1, <2>2, <2>3 DEF BulkInv
  <1>12. QED
    BY <1>1, <1>2, <1>3, <1>4, <1>5, <1>6, <1>7, <1>8, <1>9, <1>10, <1>11 DEF Next, Step

(* BulkInv is an invariant. *)
THEOREM BulkInvariant == Spec => []BulkInv
  <1>1. Init => BulkInv
    BY BulkStart
  <1>2. BulkInv /\ [Next]_vars => BulkInv'
    BY BulkNext
  <1>3. QED
    BY <1>1, <1>2, PTL DEF Spec

-----------------------------------------------------------------------------
(* The properties. *)

(* The locals of a request keep their shape; in particular the scheduler   *)
(* answers for as many hosts as it was asked about.                        *)
THEOREM BulkTypeCorrect == Spec => []TypeOK
  <1>1. BulkInv => TypeOK
    <2> SUFFICES ASSUME BulkInv PROVE TypeOK
      OBVIOUS
    <2>1. \A n \in Nodes : info[n] # None => info[n].count \in 0..info[n].cap
      BY BulkAssumption DEF BulkInv, PoolInv, NodeInfo
    <2>2. ASSUME NEW s \in nodeq PROVE s \in Nodes \X Hosts \X Nat
      <3>1. d.sel # <<>> /\ SelOK(plugin, d.snap, Len(d.unassigned), d.sel)
        BY DEF BulkInv, SelInv, QueueInv
      <3>2. PICK j \in 1..Len(d.unassigned) :
              s = <<d.sel[j], Host(UnassignedAt(j)), j>> /\ d.sel[j] # None
        BY DEF BulkInv, QueueInv
      <3>3. d.sel[j] \in Nodes
        BY <3>1, <3>2 DEF BulkInv, SelInv, SelOK, Available
      <3>4. Host(UnassignedAt(j)) \in Hosts /\ j \in Nat
        BY <3>2 DEF BulkInv, ScanInv, Host, UnassignedAt, Indices
      <3>5. QED
        BY <3>2, <3>3, <3>4
    <2>3. d.pc = "group" => d.k \in DOMAIN d.sel /\ Len(d.sel) = Len(d.unassigned)
      <3>1. ASSUME d.pc = "group" PROVE d.k \in DOMAIN d.sel /\ Len(d.sel) = Len(d.unassigned)
        <4>1. /\ d.k \in 1..Len(d.unassigned) /\ Len(d.unassigned) \in Nat
              /\ d.sel \in [1..Len(d.unassigned) -> Available(d.snap) \cup {None}]
          BY <3>1 DEF BulkInv, ScanInv, SelInv, SelOK
        <4>2. QED
          BY <4>1
      <3>2. QED
        BY <3>1
    <2>4. QED
      BY <2>1, <2>2, <2>3 DEF BulkInv, PoolInv, ScanInv, PCs, AnswerInv, TypeOK
  <1>2. QED
    BY <1>1, BulkInvariant, PTL

(* Every device of a request is in the answer: as a job that was queued or *)
(* as a failed host, also when it is listed twice, the pool changes        *)
(* between the two reads, or the pipeline raises.                          *)
THEOREM DevicesAreAccounted == Spec => []Accounted
  <1>1. BulkInv => Accounted
    BY DEF BulkInv, AnswerInv
  <1>2. QED
    BY <1>1, BulkInvariant, PTL

(* dispatch_bulk_rpc_jobs queues no job for a host without a worker whose  *)
(* worker it has not asked a node for.                                     *)
THEOREM QueuedAreLaunched == Spec => []QueuedIsLaunched
  <1>1. BulkInv => QueuedIsLaunched
    BY DEF BulkInv, LaunchInv
  <1>2. QED
    BY <1>1, BulkInvariant, PTL

(* No plugin makes a batch ask more of a node than it had room for. *)
THEOREM BatchFitsSnapshot == Spec => []WithinSnapshot
  <1>1. BulkInv => WithinSnapshot
    <2> SUFFICES ASSUME BulkInv, NEW n \in DOMAIN d.snap
                 PROVE  Cardinality({s \in nodeq : s[1] = n}) <= Room(d.snap, n)
      BY DEF WithinSnapshot
    <2> DEFINE h == Len(d.unassigned)
               Q == {s \in nodeq : s[1] = n}
               At == {i \in DOMAIN d.sel : d.sel[i] = n}
               f == [s \in Q |-> s[3]]
    <2>1. Room(d.snap, n) \in Nat
      BY DEF BulkInv, SelInv, GoodSnap, Room
    <2>2. CASE d.sel = <<>>
      <3>1. Q = {}
        BY <2>2 DEF BulkInv, QueueInv
      <3>2. QED
        BY <2>1, <3>1, FS_EmptySet
    <2>3. CASE d.sel # <<>>
      <3>1. /\ h \in Nat /\ d.sel \in [1..h -> Available(d.snap) \cup {None}]
            /\ WithinRoom(d.snap, d.sel)
        BY <2>3 DEF BulkInv, ScanInv, SelInv, SelOK
      <3>2. Cardinality(At) <= Room(d.snap, n)
        BY <3>1 DEF WithinRoom, Times
      <3>3. IsFiniteSet(At) /\ Cardinality(At) \in Nat
        <4>1. At \in SUBSET (1..h)
          BY <3>1
        <4>2. QED
          BY <3>1, <4>1, Positions
      <3>4. ASSUME NEW s \in Q
            PROVE  s[3] \in At /\ s = <<n, Host(UnassignedAt(s[3])), s[3]>>
        <4>1. PICK j \in 1..h : s = <<d.sel[j], Host(UnassignedAt(j)), j>>
          BY DEF BulkInv, QueueInv
        <4>2. QED
          BY <3>1, <4>1
      <3>5. f \in Injection(Q, At)
        <4>1. f \in [Q -> At]
          BY <3>4
        <4>2. \A s, t \in Q : f[s] = f[t] => s = t
          BY <3>4
        <4>3. QED
          BY <4>1, <4>2 DEF Injection, IsInjective
      <3> HIDE DEF Q, At, f
      <3>6. IsFiniteSet(Q) /\ Cardinality(Q) <= Cardinality(At)
        BY <3>3, <3>5, FS_Injection
      <3>7. Cardinality(Q) \in Nat
        BY <3>6, FS_CardinalityType
      <3>8. QED
        BY <2>1, <3>2, <3>3, <3>6, <3>7 DEF Q
    <2>4. QED
      BY <2>2, <2>3
  <1>2. QED
    BY <1>1, BulkInvariant, PTL

(* With room for all and nothing happening meanwhile, every plugin but     *)
(* least_load_random finds a live node for every host.                     *)
THEOREM FailuresHaveCauses == Spec => []NoFailureWithoutCause
  <1>1. BulkInv => NoFailureWithoutCause
    BY DEF BulkInv, CauseInv, NoFailureWithoutCause
  <1>2. QED
    BY <1>1, BulkInvariant, PTL

(* least_load and least_load_random use a node only when the less loaded   *)
(* ones they take into account are used up.                                *)
THEOREM LessLoadedAreUsedUp == Spec => []LeastLoadedFirst
  <1>1. BulkInv => LeastLoadedFirst
    <2> SUFFICES ASSUME BulkInv, d.sel # <<>>, plugin \in {"least_load", "least_load_random"}
                 PROVE  \A m, n \in Available(d.snap) :
                          /\ Times(d.sel, m) > 0 /\ d.snap[n].count < d.snap[m].count
                          /\ plugin = "least_load" \/ n \in BestOf(d.snap, d.snap[n].count)
                          => Times(d.sel, n) >= Room(d.snap, n)
      BY DEF LeastLoadedFirst
    <2>1. SelOK(plugin, d.snap, Len(d.unassigned), d.sel)
      BY DEF BulkInv, SelInv
    <2>2. QED
      BY <2>1 DEF SelOK
  <1>2. QED
    BY <1>1, BulkInvariant, PTL
=============================================================================
