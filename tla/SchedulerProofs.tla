-------------------------- MODULE SchedulerProofs --------------------------
(***************************************************************************)
(* Proofs about AuthScheduler (sdk/cliproxy/auth/scheduler.go): that the  *)
(* indexes always agree, that the scheduler implements AuthPool, and that *)
(* in rotation everyone has a turn.                                       *)
(***************************************************************************)
EXTENDS AuthScheduler, FiniteSetTheorems, WellFoundedInduction, TLAPS

-----------------------------------------------------------------------------
(* Least numbers, and a part of an order. *)

\* Every nonempty set of naturals has a least.
LEMMA LeastNat ==
    ASSUME NEW T, T \subseteq Nat, T # {}
    PROVE  \E x \in T : \A y \in T : x <= y
  <1> DEFINE R == {ss \in Nat \X Nat : ss[1] < ss[2]}
  <1>1. IsWellFoundedOn(R, Nat)
    BY NatLessThanWellFounded DEF OpToRel
  <1>2. PICK x \in T : \A y \in T : ~(<<y, x>> \in R)
    <2> HIDE DEF R
    <2> QED
      BY <1>1, WFMin
  <1>3. \A y \in T : ~(y < x)
    BY <1>2
  <1> QED
    BY <1>3

\* The least that Min chooses.
LEMMA MinIsLeast ==
    ASSUME NEW T, T \subseteq Nat, T # {}
    PROVE  Min(T) \in T /\ \A y \in T : Min(T) <= y
  <1>1. \E x \in T : \A y \in T : x <= y
    BY LeastNat
  <1> QED
    BY <1>1 DEF Min

\* The recursion of Sorted has a solution: otherwise it had none up to some
\* length, but one up to the length before.
SortedUpTo(order, S, n, f) ==
    f = [i \in 0 .. n |-> IF i = 0 THEN <<>>
                          ELSE IF order[i] \in S THEN Append(f[i - 1], order[i]) ELSE f[i - 1]]

\* The recursion that Sorted follows has a solution.
LEMMA SortedExists ==
    ASSUME NEW order, NEW S, NEW n \in Nat
    PROVE  \E f : SortedUpTo(order, S, n, f)
  <1> DEFINE Bad == {k \in Nat : ~\E f : SortedUpTo(order, S, k, f)}
  <1>1. ASSUME NEW k \in Bad, \A j \in Bad : k <= j PROVE FALSE
    <2>1. CASE k = 0
      <3>1. SortedUpTo(order, S, 0, [i \in 0 .. 0 |-> <<>>])
        BY DEF SortedUpTo
      <3> QED  BY <1>1, <2>1, <3>1
    <2>2. CASE k # 0
      <3>1. k - 1 \in Nat /\ k - 1 \notin Bad /\ k \in Nat
        <4>1. k \in Nat
          OBVIOUS
        <4> HIDE DEF Bad
        <4> QED  BY <1>1, <2>2, <4>1
      <3>2. PICK f : SortedUpTo(order, S, k - 1, f)
        BY <3>1
      <3> DEFINE top == IF order[k] \in S THEN Append(f[k - 1], order[k]) ELSE f[k - 1]
                 g == [i \in 0 .. k |-> IF i = k THEN top ELSE f[i]]
      <3>3. SortedUpTo(order, S, k, g)
        <4>1. \A i \in 0 .. k : i # k => g[i] = f[i] /\ i \in 0 .. k - 1
          BY <3>1
        <4>2. \A i \in 0 .. k : i # 0 => i - 1 \in 0 .. k - 1 /\ g[i - 1] = f[i - 1]
          BY <3>1
        <4>3. g[k] = top /\ DOMAIN g = 0 .. k
          BY <3>1
        <4> HIDE DEF g, top
        <4>4. \A i \in 0 .. k - 1 :
                 f[i] = IF i = 0 THEN <<>>
                        ELSE IF order[i] \in S THEN Append(f[i - 1], order[i]) ELSE f[i - 1]
          BY <3>2 DEF SortedUpTo
        <4>5. \A i \in 0 .. k :
                 g[i] = IF i = 0 THEN <<>>
                        ELSE IF order[i] \in S THEN Append(g[i - 1], order[i]) ELSE g[i - 1]
          BY <4>1, <4>2, <4>3, <4>4, <2>2 DEF top
        <4>6. g = [i \in 0 .. k |-> g[i]]
          BY DEF g
        <4> QED  BY <4>5, <4>6 DEF SortedUpTo
      <3> HIDE DEF g
      <3> QED  BY <1>1, <3>3
    <2> QED  BY <2>1, <2>2
  <1>2. Bad = {}
    <2> HIDE DEF Bad
    <2>1. Bad \subseteq Nat
      BY DEF Bad
    <2> QED  BY <1>1, <2>1, LeastNat
  <1> QED  BY <1>2

\* What is sorted is a sequence of those of the order that are in S.
LEMMA SortedHasAll ==
    ASSUME NEW T, NEW order \in Seq(T), NEW S
    PROVE  Sorted(order, S) \in Seq(T) /\ ToSet(Sorted(order, S)) = S \cap ToSet(order)
  <1> DEFINE N == Len(order)
             f == CHOOSE h : SortedUpTo(order, S, N, h)
  <1>1. N \in Nat
    OBVIOUS
  <1>2. SortedUpTo(order, S, N, f)
    BY <1>1, SortedExists
  <1>3. Sorted(order, S) = f[N]
    BY DEF Sorted, SortedUpTo
  <1> HIDE DEF f
  <1> DEFINE Upto(i) == {order[k] : k \in 1 .. i} \cap S
             Right(i) == f[i] \in Seq(T) /\ ToSet(f[i]) = Upto(i)
             Bad == {i \in 0 .. N : ~Right(i)}
  <1>4. ASSUME NEW i \in Bad, \A j \in Bad : i <= j PROVE FALSE
    <2>0. i \in 0 .. N /\ ~Right(i)
      OBVIOUS
    <2>1. CASE i = 0
      <3>1. f[0] = <<>>
        BY <1>1, <1>2 DEF SortedUpTo
      <3>2. ToSet(<<>>) = {} /\ <<>> \in Seq(T)
        BY DEF ToSet
      <3> QED  BY <2>0, <2>1, <3>1, <3>2
    <2>2. CASE i # 0
      <3>1. i - 1 \in 0 .. N /\ i - 1 \notin Bad
        <4> HIDE DEF Bad
        <4> QED  BY <1>1, <1>4, <2>0, <2>2
      <3>2. Right(i - 1)
        BY <3>1
      <3>3. f[i] = IF order[i] \in S THEN Append(f[i - 1], order[i]) ELSE f[i - 1]
        BY <1>2, <2>0, <2>2 DEF SortedUpTo
      <3>4. order[i] \in T
        BY <1>1, <2>0, <2>2
      <3>5. Upto(i) = IF order[i] \in S THEN Upto(i - 1) \cup {order[i]} ELSE Upto(i - 1)
        <4>1. \A k : k \in 1 .. i <=> k \in 1 .. i - 1 \/ k = i
          BY <2>0, <2>2
        <4> QED  BY <4>1
      <3> HIDE DEF Upto
      <3>6. \A s \in Seq(T), e \in T : /\ Append(s, e) \in Seq(T)
                                    /\ ToSet(Append(s, e)) = ToSet(s) \cup {e}
        <4> SUFFICES ASSUME NEW s \in Seq(T), NEW e \in T
                     PROVE  Append(s, e) \in Seq(T) /\ ToSet(Append(s, e)) = ToSet(s) \cup {e}
          OBVIOUS
        <4>1. Len(Append(s, e)) = Len(s) + 1 /\ Len(s) \in Nat
          OBVIOUS
        <4>2. \A k \in 1 .. Len(s) : Append(s, e)[k] = s[k]
          OBVIOUS
        <4>3. Append(s, e)[Len(s) + 1] = e
          OBVIOUS
        <4>4. \A k : k \in 1 .. Len(s) + 1 <=> k \in 1 .. Len(s) \/ k = Len(s) + 1
          BY <4>1
        <4>5. DOMAIN Append(s, e) = 1 .. Len(s) + 1 /\ DOMAIN s = 1 .. Len(s)
          OBVIOUS
        <4> QED  BY <4>1, <4>2, <4>3, <4>4, <4>5 DEF ToSet
      <3> QED  BY <2>0, <3>2, <3>3, <3>4, <3>5, <3>6
    <2> QED  BY <2>1, <2>2
  <1>5. Bad = {}
    <2> HIDE DEF Bad
    <2>1. Bad \subseteq Nat
      BY <1>1 DEF Bad
    <2> QED  BY <1>4, <2>1, LeastNat
  <1>6. Right(N)
    BY <1>1, <1>5
  <1>7. Upto(N) = S \cap ToSet(order)
    BY DEF ToSet
  <1> QED
    BY <1>3, <1>6, <1>7

\* Division with a remainder.
LEMMA Divided ==
    ASSUME NEW n \in Nat \ {0}, NEW start \in Nat
    PROVE  \E q \in Nat, r \in 0 .. n - 1 : start = n * q + r
  <1> DEFINE Bad == {x \in Nat : ~\E q \in Nat, r \in 0 .. n - 1 : x = n * q + r}
  <1>1. ASSUME NEW x \in Bad, \A y \in Bad : x <= y PROVE FALSE
    <2>0. x \in Nat /\ ~\E q \in Nat, r \in 0 .. n - 1 : x = n * q + r
      OBVIOUS
    <2>1. CASE x < n
      <3>1. x \in 0 .. n - 1 /\ x = n * 0 + x
        BY <2>0, <2>1
      <3> QED  BY <2>0, <3>1
    <2>2. CASE ~(x < n)
      <3>1. x - n \in Nat /\ x - n \notin Bad
        <4> HIDE DEF Bad
        <4> QED  BY <1>1, <2>0, <2>2
      <3>2. PICK q \in Nat, r \in 0 .. n - 1 : x - n = n * q + r
        BY <3>1
      <3>3. n * (q + 1) = n * q + n /\ n * q \in Nat
        OBVIOUS
      <3>4. x = n * (q + 1) + r /\ q + 1 \in Nat
        BY <2>0, <3>2, <3>3
      <3> QED  BY <2>0, <3>4
    <2> QED  BY <2>1, <2>2
  <1>2. Bad = {}
    <2> HIDE DEF Bad
    <2>1. Bad \subseteq Nat
      BY DEF Bad
    <2> QED  BY <1>1, <2>1, LeastNat
  <1> QED  BY <1>2

\* Positions, going round.
LEMMA GoingRound ==
    ASSUME NEW n \in Nat \ {0}, NEW start \in Nat
    PROVE  /\ start % n \in 0 .. n - 1
           /\ \A i \in 0 .. n - 1 : \E k \in 0 .. n - 1 : (start + k) % n = i
  <1>1. start % n \in 0 .. n - 1
    OBVIOUS
  <1>2. ASSUME NEW q \in Nat, NEW i \in 0 .. n - 1 PROVE (n * q + i) % n = i
    OBVIOUS
  <1>3. ASSUME NEW i \in 0 .. n - 1 PROVE \E k \in 0 .. n - 1 : (start + k) % n = i
    <2>1. PICK q \in Nat, r \in 0 .. n - 1 : start = n * q + r
      BY Divided
    <2>2. CASE r <= i
      <3>1. i - r \in 0 .. n - 1 /\ start + (i - r) = n * q + i
        BY <2>1, <2>2
      <3> QED  BY <1>2, <2>1, <3>1
    <2>3. CASE ~(r <= i)
      <3>1. i - r + n \in 0 .. n - 1 /\ n * (q + 1) = n * q + n /\ n * q \in Nat
        BY <2>1, <2>3
      <3>2. start + (i - r + n) = n * (q + 1) + i
        BY <2>1, <3>1
      <3>3. (n * (q + 1) + i) % n = i
        BY <1>2
      <3> QED  BY <3>1, <3>2, <3>3
    <2> QED  BY <2>2, <2>3
  <1> QED
    BY <1>1, <1>3

\* A finite set of numbers that is not empty has a greatest one.
LEMMA GreatestOf ==
    ASSUME NEW S, S \subseteq Int, S # {}, IsFiniteSet(S)
    PROVE  Max(S) \in S /\ \A y \in S : y <= Max(S)
  <1> DEFINE Tops(X) == \E x \in X : \A y \in X : y <= x
             Bad == {k \in Nat : \E X \in SUBSET Int : /\ IsFiniteSet(X) /\ Cardinality(X) = k
                                                      /\ X # {} /\ ~Tops(X)}
  <1>1. ASSUME NEW k \in Bad, \A j \in Bad : k <= j PROVE FALSE
    <2>0. k \in Nat
      OBVIOUS
    <2>1. PICK X \in SUBSET Int : /\ IsFiniteSet(X) /\ Cardinality(X) = k /\ X # {} /\ ~Tops(X)
      OBVIOUS
    <2>2. PICK x \in X : TRUE
      BY <2>1
    <2> DEFINE Y == X \ {x}
    <2>3. IsFiniteSet(Y) /\ Cardinality(Y) = k - 1 /\ k - 1 \in Nat /\ Y \in SUBSET Int
      <3>1. IsFiniteSet(Y) /\ Cardinality(Y) = Cardinality(X) - 1
        BY <2>1, <2>2, FS_RemoveElement
      <3>2. Cardinality(Y) \in Nat
        BY <3>1, FS_CardinalityType
      <3>3. Y \in SUBSET Int
        BY <2>1
      <3> HIDE DEF Y
      <3> QED  BY <2>1, <3>1, <3>2, <3>3
    <2>4. CASE Y = {}
      BY <2>1, <2>2, <2>4
    <2>5. CASE Y # {}
      <3>1. k - 1 \notin Bad
        <4> HIDE DEF Bad
        <4> QED  BY <1>1, <2>0, <2>3
      <3>2. Tops(Y)
        BY <2>3, <2>5, <3>1
      <3>3. PICK y \in Y : \A z \in Y : z <= y
        BY <3>2
      <3>4. CASE x <= y
        BY <2>1, <2>2, <3>3, <3>4
      <3>5. CASE ~(x <= y)
        <4>1. \A z \in X : z <= x
          BY <2>2, <3>3, <3>5
        <4> QED  BY <2>1, <4>1
      <3> QED  BY <3>4, <3>5
    <2> QED  BY <2>4, <2>5
  <1>2. Bad = {}
    <2> HIDE DEF Bad
    <2>1. Bad \subseteq Nat
      BY DEF Bad
    <2> QED  BY <1>1, <2>1, LeastNat
  <1>3. Cardinality(S) \in Nat
    BY FS_CardinalityType
  <1>4. Tops(S)
    BY <1>2, <1>3
  <1>5. \E x \in S : \A y \in S : x >= y
    BY <1>4
  <1> HIDE DEF Tops
  <1> QED  BY <1>5 DEF Max

\* The search from a place on finds a candidate, if there is one.
LEMMA FirstFromServes ==
    ASSUME NEW T, NEW order \in Seq(T), NEW start \in Nat, NEW C, ToSet(order) \cap C # {}
    PROVE  /\ FirstFrom(order, start, C) \in 0 .. Len(order) - 1
           /\ order[FirstFrom(order, start, C) + 1] \in ToSet(order) \cap C
  <1> DEFINE n == Len(order)
             K == {k \in 0 .. (n - 1) : order[((start + k) % n) + 1] \in C}
  <1>1. PICK i \in 1 .. n : order[i] \in C
    BY DEF ToSet
  <1>2. n \in Nat \ {0} /\ i - 1 \in 0 .. n - 1
    BY <1>1
  <1>3. PICK k \in 0 .. n - 1 : (start + k) % n = i - 1
    BY <1>2, GoingRound
  <1>4. ((start + k) % n) + 1 = i
    BY <1>2, <1>3
  <1>5. K # {} /\ K \subseteq Nat
    <2>1. order[((start + k) % n) + 1] \in C
      BY <1>1, <1>4
    <2>2. k \in K
      BY <2>1
    <2>3. K \subseteq 0 .. (n - 1) /\ 0 .. (n - 1) \subseteq Nat
      BY <1>2
    <2> HIDE DEF K
    <2> QED  BY <2>2, <2>3
  <1> DEFINE f == (start + Min(K)) % n
  <1>6. Min(K) \in K
    <2> HIDE DEF K
    <2> QED  BY <1>5, MinIsLeast
  <1>7. f \in 0 .. n - 1 /\ order[f + 1] \in C
    <2>1. Min(K) \in Nat /\ start + Min(K) \in Nat /\ order[f + 1] \in C
      BY <1>6
    <2> HIDE DEF K, n
    <2> QED  BY <1>2, <2>1, GoingRound
  <1>8. f + 1 \in DOMAIN order
    BY <1>7
  <1> HIDE DEF f
  <1>9. order[f + 1] \in ToSet(order)
    BY <1>8 DEF ToSet
  <1> QED
    BY <1>7, <1>9 DEF f, FirstFrom

-----------------------------------------------------------------------------
(* Views of the ready credentials. *)

\* The credentials of a provider, each with its snapshot.
IsKnown(known) ==
    /\ DOMAIN known \subseteq Auths
    /\ \A a \in DOMAIN known : IsSnapshot(known[a])

ParentsOf(S, known) == {known[a].parent : a \in S}
KidsOf(S, known, g) == {a \in S : known[a].parent = g}

\* A view differs from the one that is built of it by its cursors only.
Turned(w, c, pc, cc) ==
    [flat |-> w.flat, cursor |-> c, parents |-> w.parents, parentCursor |-> pc,
     children |-> [g \in DOMAIN w.children |-> [flat |-> w.children[g].flat, cursor |-> cc[g]]]]
IsTurned(v, w) ==
    \E c, pc \in Nat, cc \in [DOMAIN w.children -> Nat] : v = Turned(w, c, pc, cc)

\* In order there are the members, all of them and no others.
LEMMA InOrderHasAll ==
    ASSUME NEW S \in SUBSET Auths
    PROVE  InOrder(S) \in Seq(Auths) /\ ToSet(InOrder(S)) = S
  <1>1. Sorted(IdOrder, S) \in Seq(Auths) /\ ToSet(Sorted(IdOrder, S)) = S \cap ToSet(IdOrder)
    BY SortedHasAll, OrdersAreTotal
  <1> QED
    BY <1>1, OrdersAreTotal DEF InOrder

\* What a view has.
LEMMA ViewHas ==
    ASSUME NEW known, IsKnown(known), NEW S \in SUBSET DOMAIN known
    PROVE  /\ View(S, known).flat = InOrder(S)
           /\ View(S, known).parents \in Seq(ToSet(ParentOrder))
           /\ DOMAIN View(S, known).children = ToSet(View(S, known).parents)
           /\ \A g \in ToSet(View(S, known).parents) :
                 View(S, known).children[g] =
                    [flat |-> InOrder(KidsOf(S, known, g)), cursor |-> 0]
           /\ View(S, known).parents # <<>> =>
                 ToSet(View(S, known).parents) = ParentsOf(S, known)
           /\ View(S, known) =
                 Turned(View(S, known), 0, 0, [g \in DOMAIN View(S, known).children |-> 0])
  <1> DEFINE grouped == Nil \notin ParentsOf(S, known) /\ Cardinality(ParentsOf(S, known)) > 1
             order == IF grouped THEN Sorted(ParentOrder, ParentsOf(S, known)) ELSE <<>>
             children == [p \in ToSet(order) |->
                            [flat |-> InOrder(KidsOf(S, known, p)), cursor |-> 0]]
  <1>1. View(S, known) = [flat |-> InOrder(S), cursor |-> 0, parents |-> order,
                          parentCursor |-> 0, children |-> children]
    BY DEF View, ParentsOf, KidsOf
  <1>2. \A a \in S : known[a].parent \in ToSet(ParentOrder) \cup {Nil}
    BY DEF IsKnown, IsSnapshot
  <1>3. grouped => ParentsOf(S, known) \subseteq ToSet(ParentOrder)
    BY <1>2 DEF ParentsOf
  <1>4. /\ Sorted(ParentOrder, ParentsOf(S, known)) \in Seq(ToSet(ParentOrder))
        /\ ToSet(Sorted(ParentOrder, ParentsOf(S, known))) = ParentsOf(S, known) \cap ToSet(ParentOrder)
    BY SortedHasAll, OrdersAreTotal
  <1>5. order \in Seq(ToSet(ParentOrder)) /\ (order # <<>> => ToSet(order) = ParentsOf(S, known))
    <2>1. CASE grouped
      BY <1>3, <1>4, <2>1
    <2>2. CASE ~grouped
      BY <2>2
    <2> QED  BY <2>1, <2>2
  <1> HIDE DEF order
  <1>6. \A p \in ToSet(order) : children[p] =
                            [flat |-> InOrder(KidsOf(S, known, p)), cursor |-> 0]
    OBVIOUS
  <1>7. DOMAIN children = ToSet(order)
    OBVIOUS
  <1>8. children = [g \in DOMAIN children |-> [flat |-> children[g].flat,
                                               cursor |-> [h \in DOMAIN children |-> 0][g]]]
    OBVIOUS
  <1> HIDE DEF children
  <1>9. View(S, known) = Turned(View(S, known), 0, 0, [g \in DOMAIN View(S, known).children |-> 0])
    BY <1>1, <1>8 DEF Turned
  <1> QED
    BY <1>1, <1>5, <1>6, <1>7, <1>9

\* The group of a parent lists the members of that parent.
LEMMA ViewKids ==
    ASSUME NEW known, IsKnown(known), NEW S \in SUBSET DOMAIN known
    PROVE  \A g \in ToSet(View(S, known).parents) :
              View(S, known).children[g].flat = InOrder(KidsOf(S, known, g))
  <1> SUFFICES ASSUME NEW g \in ToSet(View(S, known).parents)
               PROVE  View(S, known).children[g].flat = InOrder(KidsOf(S, known, g))
    OBVIOUS
  <1>1. View(S, known).children[g] =
           [flat |-> InOrder(KidsOf(S, known, g)), cursor |-> 0]
    BY ViewHas
  <1> QED
    BY <1>1

\* The fields of a view whose cursors have turned.
LEMMA TurnedHas ==
    ASSUME NEW known, IsKnown(known), NEW S \in SUBSET DOMAIN known,
           NEW v, IsTurned(v, View(S, known))
    PROVE  /\ v.flat = InOrder(S) /\ v.parents = View(S, known).parents
           /\ v.cursor \in Nat /\ v.parentCursor \in Nat
           /\ DOMAIN v.children = ToSet(v.parents)
           /\ \A g \in ToSet(v.parents) :
                 /\ v.children[g].flat = InOrder(KidsOf(S, known, g))
                 /\ v.children[g].cursor \in Nat
  <1> DEFINE w == View(S, known)
  <1>1. PICK c, pc \in Nat, cc \in [DOMAIN w.children -> Nat] : v = Turned(w, c, pc, cc)
    BY DEF IsTurned
  <1>2. w.flat = InOrder(S) /\ DOMAIN w.children = ToSet(w.parents)
    BY ViewHas
  <1>3. \A g \in ToSet(w.parents) : w.children[g].flat = InOrder(KidsOf(S, known, g))
    BY ViewKids
  <1> HIDE DEF w
  <1>4. v.flat = w.flat /\ v.cursor = c /\ v.parents = w.parents /\ v.parentCursor = pc
    BY <1>1 DEF Turned
  <1>5. v.children = [g \in DOMAIN w.children |-> [flat |-> w.children[g].flat, cursor |-> cc[g]]]
    BY <1>1 DEF Turned
  <1>6. \A g \in DOMAIN w.children : v.children[g] = [flat |-> w.children[g].flat, cursor |-> cc[g]]
    BY <1>5
  <1>7. \A g \in DOMAIN w.children : /\ v.children[g].cursor = cc[g] /\ cc[g] \in Nat
                                     /\ v.children[g].flat = w.children[g].flat
    <2> SUFFICES ASSUME NEW g \in DOMAIN w.children
                 PROVE  /\ v.children[g].cursor = cc[g] /\ cc[g] \in Nat
                        /\ v.children[g].flat = w.children[g].flat
      OBVIOUS
    <2>1. v.children[g] = [flat |-> w.children[g].flat, cursor |-> cc[g]]
      BY <1>6
    <2> QED  BY <2>1
  <1>8. \A g \in ToSet(v.parents) :
                 /\ v.children[g].flat = InOrder(KidsOf(S, known, g))
                 /\ v.children[g].cursor \in Nat
    BY <1>2, <1>3, <1>4, <1>7
  <1>9. DOMAIN v.children = ToSet(v.parents)
    BY <1>2, <1>4, <1>5
  <1> QED
    BY <1>1, <1>2, <1>4, <1>8, <1>9 DEF w

\* A cursor wrapped to a length is a cursor.
LEMMA WrappedIsPosition ==
    ASSUME NEW c \in Nat, NEW n \in Nat
    PROVE  Wrapped(c, n) \in Nat
  BY DEF Wrapped

\* Cursors of an earlier view can be restored.
CursorsOK(v) == /\ v.cursor \in Nat /\ v.parentCursor \in Nat
                /\ \A g \in DOMAIN v.children : v.children[g].cursor \in Nat

\* A view with cursors restored (scheduler.go 129-152) lists what it listed.
LEMMA RestoredIsTurned ==
    ASSUME NEW known, IsKnown(known), NEW S \in SUBSET DOMAIN known, NEW old, CursorsOK(old)
    PROVE  IsTurned(Restored(View(S, known), old), View(S, known))
  <1> DEFINE w == View(S, known)
             order == w.parents
             kids == w.children
             len(g) == Len(kids[g].flat)
             cc == [g \in DOMAIN kids |-> IF g \in DOMAIN old.children
                                          THEN Wrapped(old.children[g].cursor, len(g)) ELSE 0]
             c == Wrapped(old.cursor, Len(w.flat))
             pc == Wrapped(old.parentCursor, Len(order))
  <1>1. /\ w.flat = InOrder(S) /\ order \in Seq(ToSet(ParentOrder)) /\ DOMAIN kids = ToSet(order)
        /\ \A g \in DOMAIN kids :
              kids[g] = [flat |-> InOrder(KidsOf(S, known, g)), cursor |-> 0]
        /\ w = Turned(w, 0, 0, [g \in DOMAIN w.children |-> 0])
    <2>1. w.flat = InOrder(S) /\ order \in Seq(ToSet(ParentOrder)) /\ DOMAIN kids = ToSet(order)
      BY ViewHas
    <2>2. \A g \in ToSet(order) :
              kids[g] = [flat |-> InOrder(KidsOf(S, known, g)), cursor |-> 0]
      BY ViewHas
    <2>3. w = Turned(w, 0, 0, [g \in DOMAIN w.children |-> 0])
      BY ViewHas
    <2> QED  BY <2>1, <2>2, <2>3
  <1>2. S \in SUBSET Auths
    BY DEF IsKnown
  <1>3. Len(w.flat) \in Nat /\ Len(order) \in Nat
    BY <1>1, <1>2, InOrderHasAll
  <1>4. \A g \in DOMAIN kids : len(g) \in Nat
    <2> SUFFICES ASSUME NEW g \in DOMAIN kids PROVE len(g) \in Nat
      OBVIOUS
    <2>0. kids[g] = [flat |-> InOrder(KidsOf(S, known, g)), cursor |-> 0]
      BY <1>1
    <2>1. kids[g].flat = InOrder(KidsOf(S, known, g))
      BY <2>0
    <2>2. KidsOf(S, known, g) \in SUBSET Auths
      BY <1>2 DEF KidsOf
    <2> QED  BY <2>1, <2>2, InOrderHasAll
  <1>5. c \in Nat /\ pc \in Nat
    BY <1>3, WrappedIsPosition DEF CursorsOK
  <1> HIDE DEF len
  <1>6. cc \in [DOMAIN kids -> Nat]
    BY <1>4, WrappedIsPosition DEF CursorsOK
  <1>7. Restored(w, old) =
           [w EXCEPT !.cursor = c, !.parentCursor = pc,
                     !.children = [g \in DOMAIN kids |-> [kids[g] EXCEPT !.cursor = cc[g]]]]
    BY DEF Restored, len
  <1>8. w = [flat |-> w.flat, cursor |-> 0, parents |-> order, parentCursor |-> 0, children |-> kids]
    <2>1. w = [flat |-> w.flat, cursor |-> 0, parents |-> order, parentCursor |-> 0,
               children |-> [g \in DOMAIN kids |-> [flat |-> kids[g].flat,
                                                    cursor |-> [h \in DOMAIN kids |-> 0][g]]]]
      BY <1>1 DEF Turned
    <2>2. kids = [g \in DOMAIN kids |-> [flat |-> kids[g].flat,
                                                    cursor |-> [h \in DOMAIN kids |-> 0][g]]]
      <3> HIDE DEF w, cc, c, pc
      <3>1. w.children = [g \in DOMAIN kids |-> [flat |-> kids[g].flat,
                                                    cursor |-> [h \in DOMAIN kids |-> 0][g]]]
        BY <2>1
      <3> QED  BY <3>1
    <2> QED  BY <2>1, <2>2
  <1>9. \A g \in DOMAIN kids :
           [kids[g] EXCEPT !.cursor = cc[g]] = [flat |-> kids[g].flat, cursor |-> cc[g]]
    <2>1. \A x, n : [[flat |-> x, cursor |-> 0] EXCEPT !.cursor = n] = [flat |-> x, cursor |-> n]
      OBVIOUS
    <2>2. ASSUME NEW g \in DOMAIN kids
          PROVE  kids[g] = [flat |-> kids[g].flat, cursor |-> 0]
      <3>1. kids[g] = [flat |-> InOrder(KidsOf(S, known, g)), cursor |-> 0]
        BY <1>1
      <3> QED  BY <3>1
    <2> HIDE DEF cc, w, c, pc
    <2>3. ASSUME NEW g \in DOMAIN kids, NEW r, r = kids[g]
          PROVE  [r EXCEPT !.cursor = cc[g]] = [flat |-> r.flat, cursor |-> cc[g]]
      <3>1. r = [flat |-> r.flat, cursor |-> 0]
        BY <2>2, <2>3
      <3> QED  BY <2>1, <3>1
    <2> QED  BY <2>3
  <1> HIDE DEF c, pc, cc, w
  <1>10. [g \in DOMAIN kids |-> [kids[g] EXCEPT !.cursor = cc[g]]]
           = [g \in DOMAIN kids |-> [flat |-> kids[g].flat, cursor |-> cc[g]]]
    BY <1>9
  <1>11. Restored(w, old) = Turned(w, c, pc, cc)
    BY <1>7, <1>8, <1>10 DEF Turned
  <1> QED
    BY <1>5, <1>6, <1>11 DEF IsTurned, w

\* A view serves what its credentials have in common with those allowed.
LEMMA ViewServes ==
    ASSUME NEW known, IsKnown(known), NEW S \in SUBSET DOMAIN known,
           NEW v, IsTurned(v, View(S, known)), NEW C
    PROVE  Serves(v, C) <=> S \cap C # {}
  <1>1. S \in SUBSET Auths
    BY DEF IsKnown
  <1>2. v.flat = InOrder(S)
    BY TurnedHas
  <1> QED
    BY <1>1, <1>2, InOrderHasAll DEF Serves

\* Fill-first offers a candidate and moves no cursor.
LEMMA FirstServes ==
    ASSUME NEW known, IsKnown(known), NEW S \in SUBSET DOMAIN known,
           NEW v, IsTurned(v, View(S, known)), NEW C, S \cap C # {}
    PROVE  First(v, C).auth \in S \cap C /\ First(v, C).view = v
  <1>1. S \in SUBSET Auths
    BY DEF IsKnown
  <1>2. v.flat = InOrder(S) /\ InOrder(S) \in Seq(Auths) /\ ToSet(InOrder(S)) = S
    BY <1>1, TurnedHas, InOrderHasAll
  <1>3. v.flat[FirstFrom(v.flat, 0, C) + 1] \in S \cap C
    BY <1>2, FirstFromServes
  <1> QED
    BY <1>3 DEF First

\* A turn offers one of the credentials that are allowed, and turns cursors.
LEMMA RoundRobinServes ==
    ASSUME NEW known, IsKnown(known), NEW S \in SUBSET DOMAIN known,
           NEW v, IsTurned(v, View(S, known)), NEW C, S \cap C # {}
    PROVE  /\ RoundRobin(v, C).auth \in S \cap C
           /\ IsTurned(RoundRobin(v, C).view, View(S, known))
  <1> DEFINE w == View(S, known)
  <1>1. S \in SUBSET Auths
    BY DEF IsKnown
  <1>2. PICK c, pc \in Nat, cc \in [DOMAIN w.children -> Nat] : v = Turned(w, c, pc, cc)
    BY DEF IsTurned
  <1>3. /\ v.flat = InOrder(S) /\ v.parents = w.parents /\ v.cursor \in Nat /\ v.parentCursor \in Nat
        /\ DOMAIN v.children = ToSet(v.parents)
    BY TurnedHas
  <1>4. \A g \in ToSet(v.parents) :
                 /\ v.children[g].flat = InOrder(KidsOf(S, known, g))
                 /\ v.children[g].cursor \in Nat
    BY TurnedHas
  <1>5. /\ v.parents \in Seq(ToSet(ParentOrder))
        /\ DOMAIN w.children = ToSet(v.parents)
        /\ v.parents # <<>> => ToSet(v.parents) = ParentsOf(S, known)
    BY <1>3, ViewHas
  <1>6. CASE v.parents = <<>>
    <2> DEFINE i == FirstFrom(v.flat, v.cursor, C)
    <2>1. i \in Nat /\ v.flat[i + 1] \in S \cap C
      BY <1>1, <1>3, InOrderHasAll, FirstFromServes
    <2> HIDE DEF i
    <2>2. RoundRobin(v, C) = [auth |-> v.flat[i + 1], view |-> [v EXCEPT !.cursor = i + 1]]
      BY <1>6 DEF RoundRobin, i
    <2>3. [v EXCEPT !.cursor = i + 1] = Turned(w, i + 1, pc, cc)
      <3> HIDE DEF w
      <3> QED  BY <1>2 DEF Turned
    <2> QED  BY <2>1, <2>2, <2>3 DEF IsTurned
  <1>7. CASE v.parents # <<>>
    <2> DEFINE G == {p \in DOMAIN v.children : Serves(v.children[p], C)}
               i == FirstFrom(v.parents, v.parentCursor, G)
               p == v.parents[i + 1]
               j == FirstFrom(v.children[p].flat, v.children[p].cursor, C)
    <2>1. \A g \in ToSet(v.parents) :
             /\ v.children[g].flat \in Seq(Auths)
             /\ ToSet(v.children[g].flat) = KidsOf(S, known, g)
      <3> SUFFICES ASSUME NEW g \in ToSet(v.parents)
                   PROVE  /\ v.children[g].flat \in Seq(Auths)
                          /\ ToSet(v.children[g].flat) = KidsOf(S, known, g)
        OBVIOUS
      <3>2. v.children[g].flat = InOrder(KidsOf(S, known, g))
        BY <1>4
      <3>3. KidsOf(S, known, g) \in SUBSET Auths
        BY <1>1 DEF KidsOf
      <3> QED  BY <3>2, <3>3, InOrderHasAll
    <2>2. ToSet(v.parents) \cap G # {}
      <3>1. PICK a \in S : a \in C
        OBVIOUS
      <3>2. known[a].parent \in ToSet(v.parents)
        BY <1>5, <1>7 DEF ParentsOf
      <3>3. a \in ToSet(v.children[known[a].parent].flat)
        BY <2>1, <3>2 DEF KidsOf
      <3> QED  BY <1>3, <3>1, <3>2, <3>3 DEF Serves
    <2>3. i \in 0 .. Len(v.parents) - 1 /\ p \in ToSet(v.parents) \cap G
      <3> HIDE DEF G
      <3> QED  BY <1>3, <1>5, <2>2, FirstFromServes
    <2>4. i \in Nat
      <3>1. Len(v.parents) \in Nat
        BY <1>5
      <3> HIDE DEF i
      <3> QED  BY <2>3, <3>1
    <2>5. ToSet(v.children[p].flat) \cap C # {}
      <3>1. Serves(v.children[p], C)
        <4> HIDE DEF p
        <4> QED  BY <2>3
      <3> QED  BY <3>1 DEF Serves
    <2> HIDE DEF G, i, p
    <2>6. p \in ToSet(v.parents) /\ v.children[p].cursor \in Nat
      BY <1>4, <2>3
    <2>7. v.children[p].flat \in Seq(Auths) /\ ToSet(v.children[p].flat) \subseteq S
      BY <2>1, <2>6 DEF KidsOf
    <2>8. j \in 0 .. Len(v.children[p].flat) - 1 /\ v.children[p].flat[j + 1] \in S \cap C
      BY <2>5, <2>6, <2>7, FirstFromServes
    <2>9. j \in Nat
      <3>1. Len(v.children[p].flat) \in Nat
        BY <2>7
      <3> HIDE DEF j
      <3> QED  BY <2>8, <3>1
    <2>10. RoundRobin(v, C) = [auth |-> v.children[p].flat[j + 1],
                    view |-> [v EXCEPT !.parentCursor = i + 1, !.children[p].cursor = j + 1]]
      BY <1>7 DEF RoundRobin, G, i, p
    <2> HIDE DEF j
    <2> DEFINE dd == [cc EXCEPT ![p] = j + 1]
    <2>11. dd \in [DOMAIN w.children -> Nat]
      <3>1. \A D : \A f \in [D -> Nat] : \A n \in Nat : [f EXCEPT ![p] = n] \in [D -> Nat]
        OBVIOUS
      <3>2. cc \in [DOMAIN w.children -> Nat] /\ j + 1 \in Nat
        BY <1>2, <2>9
      <3> QED  BY <3>1, <3>2
    <2>12. [v EXCEPT !.parentCursor = i + 1, !.children[p].cursor = j + 1] = Turned(w, c, i + 1, dd)
      <3>0. p \in DOMAIN w.children
        BY <1>5, <2>6
      <3> HIDE DEF w
      <3> DEFINE kids == [g \in DOMAIN w.children |-> [flat |-> w.children[g].flat, cursor |-> cc[g]]]
      <3>1. v.children = kids
        BY <1>2 DEF Turned
      <3>2. [kids EXCEPT ![p].cursor = j + 1] =
               [g \in DOMAIN w.children |-> [flat |-> w.children[g].flat, cursor |-> dd[g]]]
        BY <1>2, <3>0
      <3>3. v = [flat |-> w.flat, cursor |-> c, parents |-> w.parents, parentCursor |-> pc,
                 children |-> kids]
        BY <1>2 DEF Turned
      <3> HIDE DEF kids
      <3>4. [v EXCEPT !.parentCursor = i + 1, !.children[p].cursor = j + 1]
              = [flat |-> w.flat, cursor |-> c, parents |-> w.parents, parentCursor |-> i + 1,
                 children |-> [kids EXCEPT ![p].cursor = j + 1]]
        <4>1. p \in DOMAIN kids
          BY <3>0 DEF kids
        <4>2. [v EXCEPT !.parentCursor = i + 1, !.children[p].cursor = j + 1]
                = [[v EXCEPT !.parentCursor = i + 1] EXCEPT !.children[p].cursor = j + 1]
          OBVIOUS
        <4>3. [v EXCEPT !.parentCursor = i + 1]
                = [flat |-> w.flat, cursor |-> c, parents |-> w.parents, parentCursor |-> i + 1,
                   children |-> kids]
          BY <3>3
        <4>4. ASSUME NEW r, r = [flat |-> w.flat, cursor |-> c, parents |-> w.parents,
                                 parentCursor |-> i + 1, children |-> kids]
              PROVE  [r EXCEPT !.children[p].cursor = j + 1]
                       = [flat |-> w.flat, cursor |-> c, parents |-> w.parents,
                          parentCursor |-> i + 1, children |-> [kids EXCEPT ![p].cursor = j + 1]]
          BY <4>4
        <4> QED  BY <4>2, <4>3, <4>4
      <3> QED  BY <3>2, <3>4 DEF Turned
    <2> HIDE DEF dd, w
    <2>13. IsTurned(RoundRobin(v, C).view, w)
      <3>1. RoundRobin(v, C).view = Turned(w, c, i + 1, dd) /\ i + 1 \in Nat
        BY <2>4, <2>10, <2>12
      <3> QED  BY <1>2, <2>11, <3>1 DEF IsTurned
    <2> QED  BY <2>8, <2>10, <2>13 DEF w
  <1> QED
    BY <1>6, <1>7


-----------------------------------------------------------------------------
(* Shards. *)

\* A verdict on a credential, of now or of earlier.
Judged(entry, avail, m, t) == \E u \in 1 .. t : entry = Verdict(avail, m, u)

\* Those ready, those of them with websockets, and their priorities.
ReadyOf(entries) == {a \in DOMAIN entries : entries[a].state = "ready"}
WsOf(S, known) == {a \in S : known[a].ws}
Levels(entries, known) == {known[a].priority : a \in ReadyOf(entries)}

EntriesOK(entries, known, m, t) ==
    /\ DOMAIN entries = {a \in DOMAIN known : m \in known[a].models}
    /\ entries = [a \in DOMAIN entries |-> entries[a]]
    /\ \A a \in DOMAIN entries : Judged(entries[a], known[a].avail, m, t)

\* Both views of a bucket are those of S, up to where the cursors stand.
BucketOK(b, S, known) ==
    /\ b = [all |-> b.all, ws |-> b.ws]
    /\ IsTurned(b.all, View(S, known))
    /\ IsTurned(b.ws, View(WsOf(S, known), known))

ReadyOK(ready, entries, known) ==
    /\ ready = [n \in Levels(entries, known) |-> ready[n]]
    /\ \A n \in Levels(entries, known) : BucketOK(ready[n], ReadyAt(entries, known, n), known)

\* The buckets and the queue of a shard are those of its entries, and these are
\* the credentials that have the model.
ShardOK(s, known, m, t) ==
    /\ s = [entries |-> s.entries, ready |-> s.ready, blocked |-> Queued(s.entries)]
    /\ EntriesOK(s.entries, known, m, t)
    /\ ReadyOK(s.ready, s.entries, known)

\* Cursors that rebuilt buckets can take over.
BucketsTurn(s) ==
    \A n \in DOMAIN s.ready : CursorsOK(s.ready[n].all) /\ CursorsOK(s.ready[n].ws)

\* The ready of a priority are among the known.
LEMMA ReadyAtKnown ==
    ASSUME NEW known, IsKnown(known), NEW entries, DOMAIN entries \subseteq DOMAIN known, NEW n
    PROVE  /\ ReadyAt(entries, known, n) \in SUBSET DOMAIN known
           /\ WsOf(ReadyAt(entries, known, n), known) \in SUBSET DOMAIN known
  BY DEF ReadyAt, WsOf

\* The cursors of a view can be restored to the next one.
LEMMA TurnedCursors ==
    ASSUME NEW known, IsKnown(known), NEW S \in SUBSET DOMAIN known,
           NEW v, IsTurned(v, View(S, known))
    PROVE  CursorsOK(v)
  <1>1. v.cursor \in Nat /\ v.parentCursor \in Nat /\ DOMAIN v.children = ToSet(v.parents)
    BY TurnedHas
  <1>2. \A g \in ToSet(v.parents) : v.children[g].cursor \in Nat
    BY TurnedHas
  <1> QED
    BY <1>1, <1>2 DEF CursorsOK

\* The buckets of a shard that agrees can be restored, too.
LEMMA ShardTurns ==
    ASSUME NEW known, IsKnown(known), NEW s, NEW m, NEW t, ShardOK(s, known, m, t)
    PROVE  BucketsTurn(s)
  <1>1. DOMAIN s.ready = Levels(s.entries, known) /\ DOMAIN s.entries \subseteq DOMAIN known
    BY DEF ShardOK, ReadyOK, EntriesOK
  <1>2. SUFFICES ASSUME NEW n \in Levels(s.entries, known)
                 PROVE  CursorsOK(s.ready[n].all) /\ CursorsOK(s.ready[n].ws)
    BY <1>1 DEF BucketsTurn
  <1>3. BucketOK(s.ready[n], ReadyAt(s.entries, known, n), known)
    BY DEF ShardOK, ReadyOK
  <1> QED
    BY <1>1, <1>3, ReadyAtKnown, TurnedCursors DEF BucketOK

\* A view just built lists what it should.
LEMMA BuiltIsTurned ==
    ASSUME NEW known, IsKnown(known), NEW S \in SUBSET DOMAIN known
    PROVE  IsTurned(View(S, known), View(S, known))
  <1> DEFINE w == View(S, known)
             cc == [g \in DOMAIN w.children |-> 0]
  <1>1. w = Turned(w, 0, 0, cc)
    BY ViewHas
  <1>2. cc \in [DOMAIN w.children -> Nat]
    OBVIOUS
  <1> HIDE DEF w, cc
  <1> QED
    BY <1>1, <1>2 DEF IsTurned, w

\* Rebuilt indexes agree with the entries.
LEMMA IndexedOK ==
    ASSUME NEW known, IsKnown(known), NEW shard, BucketsTurn(shard), NEW m, NEW t,
           NEW entries, EntriesOK(entries, known, m, t)
    PROVE  ShardOK(Indexed(shard, entries, known), known, m, t)
  <1> DEFINE S(n) == ReadyAt(entries, known, n)
             all(n) == View(S(n), known)
             ws(n) == View(WsOf(S(n), known), known)
             bucket(n) == IF n \in DOMAIN shard.ready
                          THEN [all |-> Restored(all(n), shard.ready[n].all),
                                ws |-> Restored(ws(n), shard.ready[n].ws)]
                          ELSE [all |-> all(n), ws |-> ws(n)]
             ready == [n \in Levels(entries, known) |-> bucket(n)]
  <1>1. Indexed(shard, entries, known) =
           [entries |-> entries, ready |-> ready, blocked |-> Queued(entries)]
    BY DEF Indexed, Levels, ReadyOf, WsOf
  <1>2. ASSUME NEW n PROVE BucketOK(bucket(n), S(n), known)
    <2>1. S(n) \in SUBSET DOMAIN known /\ WsOf(S(n), known) \in SUBSET DOMAIN known
      BY ReadyAtKnown DEF EntriesOK
    <2>2. CASE n \in DOMAIN shard.ready
      <3>1. CursorsOK(shard.ready[n].all) /\ CursorsOK(shard.ready[n].ws)
        BY <2>2 DEF BucketsTurn
      <3>2. IsTurned(Restored(all(n), shard.ready[n].all), all(n))
        <4> HIDE DEF S
        <4> QED  BY <2>1, <3>1, RestoredIsTurned
      <3>3. IsTurned(Restored(ws(n), shard.ready[n].ws), ws(n))
        <4> HIDE DEF S
        <4> QED  BY <2>1, <3>1, RestoredIsTurned
      <3> HIDE DEF S
      <3> QED  BY <2>2, <3>2, <3>3 DEF BucketOK
    <2>3. CASE n \notin DOMAIN shard.ready
      <3> HIDE DEF S
      <3>1. IsTurned(all(n), all(n)) /\ IsTurned(ws(n), ws(n))
        BY <2>1, BuiltIsTurned
      <3> QED  BY <2>3, <3>1 DEF BucketOK
    <2> QED  BY <2>2, <2>3
  <1> HIDE DEF bucket, S
  <1>3. ready = [n \in Levels(entries, known) |-> ready[n]]
        /\ \A n \in Levels(entries, known) : ready[n] = bucket(n)
    OBVIOUS
  <1> HIDE DEF ready
  <1>4. ReadyOK(ready, entries, known)
    BY <1>2, <1>3 DEF ReadyOK, S
  <1> QED
    BY <1>1, <1>4 DEF ShardOK

\* What a shard depends on, of the credentials that it has.
SameIn(S, known, other) ==
    \A a \in S : /\ known[a].priority = other[a].priority
                 /\ known[a].parent = other[a].parent
                 /\ known[a].ws = other[a].ws

\* A view depends on its members alone.
LEMMA ViewSame ==
    ASSUME NEW S, NEW known, NEW other, SameIn(S, known, other)
    PROVE  View(S, known) = View(S, other) /\ WsOf(S, known) = WsOf(S, other)
  <1>1. {known[a].parent : a \in S} = {other[a].parent : a \in S}
    BY DEF SameIn
  <1>2. \A p : {a \in S : known[a].parent = p} = {a \in S : other[a].parent = p}
    BY DEF SameIn
  <1>3. WsOf(S, known) = WsOf(S, other)
    BY DEF SameIn, WsOf
  <1>4. View(S, known) = View(S, other)
    BY <1>1, <1>2 DEF View
  <1> QED
    BY <1>3, <1>4

\* The buckets depend on the entries alone.
LEMMA ReadySame ==
    ASSUME NEW known, NEW other, NEW entries, SameIn(DOMAIN entries, known, other),
           NEW ready, ReadyOK(ready, entries, known)
    PROVE  ReadyOK(ready, entries, other)
  <1>1. Levels(entries, known) = Levels(entries, other)
    BY DEF Levels, ReadyOf, SameIn
  <1>2. ASSUME NEW n PROVE ReadyAt(entries, known, n) = ReadyAt(entries, other, n)
    BY DEF ReadyAt, SameIn
  <1>3. ASSUME NEW n PROVE SameIn(ReadyAt(entries, known, n), known, other)
    BY DEF ReadyAt, SameIn
  <1>4. ASSUME NEW n \in Levels(entries, known)
        PROVE  BucketOK(ready[n], ReadyAt(entries, other, n), other)
    <2> DEFINE S == ReadyAt(entries, known, n)
    <2>1. BucketOK(ready[n], S, known)
      BY DEF ReadyOK
    <2>2. View(S, known) = View(S, other) /\ WsOf(S, known) = WsOf(S, other)
      BY <1>3, ViewSame
    <2>3. SameIn(WsOf(S, known), known, other)
      BY <1>3 DEF SameIn, WsOf
    <2>4. View(WsOf(S, known), known) = View(WsOf(S, known), other)
      BY <2>3, ViewSame
    <2> HIDE DEF S
    <2>5. BucketOK(ready[n], S, other)
      BY <2>1, <2>2, <2>4 DEF BucketOK
    <2> QED  BY <1>2, <2>5 DEF S
  <1> QED
    BY <1>1, <1>4 DEF ReadyOK

\* A time of the model.
IsTime(t) == t \in Nat \ {0}

\* An entry just judged is judged right.
LEMMA JudgedNow ==
    ASSUME NEW t, IsTime(t), NEW avail, NEW m
    PROVE  Judged(Verdict(avail, m, t), avail, m, t)
  <1>1. t \in 1 .. t
    BY DEF IsTime
  <1> QED
    BY <1>1 DEF Judged

\* What an assignment to a map leaves.
LEMMA AssignedHas ==
    ASSUME NEW f, NEW k, NEW v
    PROVE  /\ DOMAIN Assigned(f, k, v) = DOMAIN f \cup {k}
           /\ Assigned(f, k, v)[k] = v
           /\ \A x \in DOMAIN f \ {k} : Assigned(f, k, v)[x] = f[x]
  BY DEF Assigned

\* A credential that has the model is told of.
LEMMA WithEntryOK ==
    ASSUME IsTime(now), NEW known, IsKnown(known), NEW a \in Auths, NEW snap, IsSnapshot(snap),
           NEW m \in snap.models, NEW shard, ShardOK(shard, known, m, now), NEW old,
           a \in DOMAIN known => old = known[a]
    PROVE  ShardOK(WithEntry(shard, a, old, m, Assigned(known, a, snap)),
                   Assigned(known, a, snap), m, now)
  <1> DEFINE all == Assigned(known, a, snap)
             entry == Verdict(snap.avail, m, now)
             entries == [b \in DOMAIN shard.entries \cup {a} |->
                            IF b = a THEN entry ELSE shard.entries[b]]
  <1>1. /\ DOMAIN all = DOMAIN known \cup {a} /\ all[a] = snap
        /\ \A x \in DOMAIN known \ {a} : all[x] = known[x]
    BY DEF Assigned
  <1>2. IsKnown(all)
    <2> HIDE DEF all
    <2> QED  BY <1>1 DEF IsKnown
  <1>3. EntriesOK(shard.entries, known, m, now)
    BY DEF ShardOK
  <1>4. EntriesOK(entries, all, m, now)
    <2> HIDE DEF all, entry
    <2>1. DOMAIN entries = {x \in DOMAIN all : m \in all[x].models}
      BY <1>1, <1>3 DEF EntriesOK
    <2>2. ASSUME NEW x \in DOMAIN entries PROVE Judged(entries[x], all[x].avail, m, now)
      <3>1. CASE x = a
        BY <1>1, <3>1, JudgedNow DEF entry
      <3>2. CASE x # a
        <4>1. x \in DOMAIN shard.entries /\ entries[x] = shard.entries[x]
          BY <3>2
        <4>2. all[x] = known[x]
          BY <1>1, <1>3, <3>2, <4>1 DEF EntriesOK
        <4> QED  BY <1>3, <4>1, <4>2 DEF EntriesOK
      <3> QED  BY <3>1, <3>2
    <2> QED  BY <2>1, <2>2 DEF EntriesOK
  <1>5. BucketsTurn(shard)
    BY ShardTurns
  <1> DEFINE same == /\ a \in DOMAIN shard.entries /\ shard.entries[a] = entry
                     /\ old.priority = snap.priority /\ old.parent = snap.parent
                     /\ old.ws = snap.ws
  <1>6. WithEntry(shard, a, old, m, all) = IF same THEN shard ELSE Indexed(shard, entries, all)
    <2>1. all[a] = snap
      BY <1>1
    <2> HIDE DEF all
    <2> QED  BY <2>1 DEF WithEntry
  <1> HIDE DEF all
  <1>7. ASSUME same PROVE ShardOK(WithEntry(shard, a, old, m, all), all, m, now)
    <2>1. entries = shard.entries
      <3>1. shard.entries = [x \in DOMAIN shard.entries |-> shard.entries[x]]
        BY <1>3 DEF EntriesOK
      <3> HIDE DEF entry
      <3> QED  BY <1>7, <3>1
    <2>2. SameIn(DOMAIN shard.entries, known, all)
      <3>1. a \in DOMAIN known
        BY <1>3, <1>7 DEF EntriesOK
      <3>2. DOMAIN shard.entries \subseteq DOMAIN known
        BY <1>3 DEF EntriesOK
      <3> HIDE DEF entry
      <3> QED  BY <1>1, <1>7, <3>1, <3>2 DEF SameIn
    <2>3. ReadyOK(shard.ready, shard.entries, all)
      BY <2>2, ReadySame DEF ShardOK
    <2>4. EntriesOK(shard.entries, all, m, now)
      BY <1>4, <2>1
    <2> HIDE DEF same, entries
    <2> QED  BY <1>6, <1>7, <2>3, <2>4 DEF ShardOK
  <1>8. ASSUME ~same PROVE ShardOK(WithEntry(shard, a, old, m, all), all, m, now)
    <2> HIDE DEF same, entries
    <2> QED  BY <1>2, <1>4, <1>5, <1>6, <1>8, IndexedOK
  <1> HIDE DEF same
  <1>9. ShardOK(WithEntry(shard, a, old, m, all), all, m, now)
    BY <1>7, <1>8
  <1> QED
    BY <1>9 DEF all

\* A credential is gone, or has the model no longer.
LEMMA WithoutEntryOK ==
    ASSUME IsTime(now), NEW known, IsKnown(known), NEW other, IsKnown(other), NEW a, NEW m,
           {x \in DOMAIN other : m \in other[x].models}
              = {x \in DOMAIN known : m \in known[x].models} \ {a},
           \A x \in DOMAIN known \ {a} : other[x] = known[x],
           NEW shard, ShardOK(shard, known, m, now)
    PROVE  ShardOK(WithoutEntry(shard, a, other), other, m, now)
  <1> DEFINE entries == [b \in DOMAIN shard.entries \ {a} |-> shard.entries[b]]
  <1>1. EntriesOK(shard.entries, known, m, now)
    BY DEF ShardOK
  <1>2. \A x \in DOMAIN shard.entries \ {a} : other[x] = known[x]
    BY <1>1 DEF EntriesOK
  <1>3. CASE a \notin DOMAIN shard.entries
    <2>1. SameIn(DOMAIN shard.entries, known, other)
      BY <1>2, <1>3 DEF SameIn
    <2>2. ReadyOK(shard.ready, shard.entries, other)
      BY <2>1, ReadySame DEF ShardOK
    <2>3. EntriesOK(shard.entries, other, m, now)
      BY <1>1, <1>2, <1>3 DEF EntriesOK
    <2> QED  BY <1>3, <2>2, <2>3 DEF ShardOK, WithoutEntry
  <1>4. CASE a \in DOMAIN shard.entries
    <2>1. EntriesOK(entries, other, m, now)
      BY <1>1, <1>2 DEF EntriesOK
    <2>2. BucketsTurn(shard)
      BY ShardTurns
    <2>3. WithoutEntry(shard, a, other) = Indexed(shard, entries, other)
      BY <1>4 DEF WithoutEntry
    <2> HIDE DEF entries
    <2> QED  BY <2>1, <2>2, <2>3, IndexedOK
  <1> QED
    BY <1>3, <1>4

\* What promoteExpiredLocked evaluates again, and its entries then.
Due(shard) == {a \in shard.blocked : shard.entries[a].next # 0 /\ shard.entries[a].next <= now}
Anew(shard, m, known) ==
    [a \in DOMAIN shard.entries |->
        IF a \in Due(shard) THEN Verdict(known[a].avail, m, now) ELSE shard.entries[a]]

\* Entries judged anew are right.
LEMMA AnewOK ==
    ASSUME IsTime(now), NEW known, NEW m, NEW shard, EntriesOK(shard.entries, known, m, now)
    PROVE  EntriesOK(Anew(shard, m, known), known, m, now)
  <1>1. DOMAIN Anew(shard, m, known) = DOMAIN shard.entries
    BY DEF Anew
  <1>2. ASSUME NEW a \in DOMAIN shard.entries
        PROVE  Judged(Anew(shard, m, known)[a], known[a].avail, m, now)
    <2>1. CASE a \in Due(shard)
      BY <2>1, JudgedNow DEF Anew
    <2>2. CASE a \notin Due(shard)
      BY <2>2 DEF Anew, EntriesOK
    <2> QED  BY <2>1, <2>2
  <1>3. Anew(shard, m, known) = [a \in DOMAIN Anew(shard, m, known) |-> Anew(shard, m, known)[a]]
    BY DEF Anew
  <1> QED
    BY <1>1, <1>2, <1>3 DEF EntriesOK

\* A promotion (scheduler.go 725-758) leaves the shard agreeing.
LEMMA PromotedOK ==
    ASSUME IsTime(now), NEW known, IsKnown(known), NEW m, NEW shard, ShardOK(shard, known, m, now)
    PROVE  ShardOK(Promoted(shard, m, known), known, m, now)
  <1>1. EntriesOK(Anew(shard, m, known), known, m, now) /\ BucketsTurn(shard)
    BY AnewOK, ShardTurns DEF ShardOK
  <1>2. Promoted(shard, m, known) =
           IF Due(shard) = {} THEN shard ELSE Indexed(shard, Anew(shard, m, known), known)
    BY DEF Promoted, Due, Anew
  <1> QED
    BY <1>1, <1>2, IndexedOK

\* The entries of a shard that is asked for the first time.
NewEntries(known, m) ==
    [a \in {b \in DOMAIN known : m \in known[b].models} |-> Verdict(known[a].avail, m, now)]

\* A shard just made (scheduler.go 631-653) agrees.
LEMMA NewShardOK ==
    ASSUME IsTime(now), NEW known, IsKnown(known), NEW m
    PROVE  ShardOK(Indexed(NoShard, NewEntries(known, m), known), known, m, now)
  <1>1. EntriesOK(NewEntries(known, m), known, m, now)
    BY JudgedNow DEF EntriesOK, NewEntries
  <1>2. BucketsTurn(NoShard)
    BY DEF BucketsTurn, NoShard
  <1> QED
    BY <1>1, <1>2, IndexedOK

\* The shards of one provider.
ProviderOK(known, built, t) ==
    /\ IsKnown(known)
    /\ \A m \in DOMAIN built : ShardOK(built[m], known, m, t)

\* The shard a query is served from agrees, found or made.
LEMMA ShardIsOK ==
    ASSUME IsTime(now), NEW built, NEW p, NEW m, ProviderOK(metas[p], built[p], now)
    PROVE  ShardOK(Shard(built, p, m), metas[p], m, now)
  <1>1. Shard(built, p, m) = IF m \in DOMAIN built[p] THEN Promoted(built[p][m], m, metas[p])
                             ELSE Indexed(NoShard, NewEntries(metas[p], m), metas[p])
    BY DEF Shard, NewEntries
  <1> QED
    BY <1>1, PromotedOK, NewShardOK DEF ProviderOK

\* Removing a credential (scheduler.go 618-628) leaves its provider agreeing.
LEMMA DroppedOK ==
    ASSUME IsTime(now), NEW known, NEW built, ProviderOK(known, built, now), NEW a
    PROVE  LET d == Dropped(known, built, a)
           IN  ProviderOK(d.metas, d.shards, now) /\ DOMAIN d.metas = DOMAIN known \ {a}
               /\ \A b \in DOMAIN d.metas : d.metas[b] = known[b]
  <1> DEFINE rest == [b \in DOMAIN known \ {a} |-> known[b]]
             left == [m \in DOMAIN built |-> WithoutEntry(built[m], a, rest)]
  <1>1. IsKnown(rest)
    BY DEF IsKnown, ProviderOK
  <1>2. DOMAIN rest = DOMAIN known \ {a} /\ \A x \in DOMAIN known \ {a} : rest[x] = known[x]
    OBVIOUS
  <1>3. Dropped(known, built, a) = [metas |-> rest, shards |-> left]
    BY DEF Dropped
  <1> HIDE DEF rest
  <1>4. ASSUME NEW m \in DOMAIN built PROVE ShardOK(WithoutEntry(built[m], a, rest), rest, m, now)
    <2>1. {x \in DOMAIN rest : m \in rest[x].models}
              = {x \in DOMAIN known : m \in known[x].models} \ {a}
      BY <1>2
    <2> QED  BY <1>1, <1>2, <2>1, WithoutEntryOK DEF ProviderOK
  <1>5. DOMAIN left = DOMAIN built /\ \A m \in DOMAIN left : ShardOK(left[m], rest, m, now)
    BY <1>4
  <1> HIDE DEF left
  <1>6. ProviderOK(rest, left, now)
    BY <1>1, <1>5 DEF ProviderOK
  <1> QED
    BY <1>2, <1>3, <1>6

\* Telling of a credential (scheduler.go 600-615) leaves its provider agreeing.
LEMMA PutOK ==
    ASSUME IsTime(now), NEW known, NEW built, ProviderOK(known, built, now), NEW a \in Auths,
           NEW snap, IsSnapshot(snap)
    PROVE  LET d == Put(known, built, a, snap)
           IN  ProviderOK(d.metas, d.shards, now) /\ d.metas = Assigned(known, a, snap)
  <1> DEFINE all == Assigned(known, a, snap)
             old == IF a \in DOMAIN known THEN known[a] ELSE snap
             next == [m \in DOMAIN built |->
                   IF m \in snap.models THEN WithEntry(built[m], a, old, m, all)
                   ELSE WithoutEntry(built[m], a, all)]
  <1>1. /\ DOMAIN all = DOMAIN known \cup {a} /\ all[a] = snap
        /\ \A x \in DOMAIN known \ {a} : all[x] = known[x]
    BY DEF Assigned
  <1>2. IsKnown(all)
    <2> HIDE DEF all
    <2> QED  BY <1>1 DEF IsKnown, ProviderOK
  <1>3. Put(known, built, a, snap) = [metas |-> all, shards |-> next]
    BY DEF Put
  <1>4. a \in DOMAIN known => old = known[a]
    OBVIOUS
  <1> HIDE DEF old
  <1>5. ASSUME NEW m \in DOMAIN built PROVE ShardOK(next[m], all, m, now)
    <2>1. CASE m \in snap.models
      <3>1. ShardOK(WithEntry(built[m], a, old, m, all), all, m, now)
        BY <1>4, <2>1, WithEntryOK DEF ProviderOK
      <3> HIDE DEF all
      <3> QED  BY <2>1, <3>1
    <2>2. CASE m \notin snap.models
      <3> HIDE DEF all
      <3>1. {x \in DOMAIN all : m \in all[x].models}
              = {x \in DOMAIN known : m \in known[x].models} \ {a}
        BY <1>1, <2>2
      <3>2. ShardOK(WithoutEntry(built[m], a, all), all, m, now)
        BY <1>1, <1>2, <3>1, WithoutEntryOK DEF ProviderOK
      <3> QED  BY <2>2, <3>2
    <2> QED  BY <2>1, <2>2
  <1>6. DOMAIN next = DOMAIN built
    OBVIOUS
  <1> HIDE DEF next, all
  <1>7. ProviderOK(all, next, now)
    BY <1>2, <1>5, <1>6 DEF ProviderOK
  <1> QED
    BY <1>3, <1>7 DEF all

-----------------------------------------------------------------------------
(* The choice within a shard. *)

\* The choice from a view, by either strategy.
Turn(view, strat, C) == IF strat = "fillFirst" THEN First(view, C) ELSE RoundRobin(view, C)

\* A turn offers a candidate, in either strategy.
LEMMA TurnServes ==
    ASSUME NEW known, IsKnown(known), NEW S \in SUBSET DOMAIN known,
           NEW v, IsTurned(v, View(S, known)), NEW C, S \cap C # {}, NEW strat
    PROVE  /\ Turn(v, strat, C).auth \in S \cap C
           /\ IsTurned(Turn(v, strat, C).view, View(S, known))
  <1>1. CASE strat = "fillFirst"
    BY <1>1, FirstServes DEF Turn
  <1>2. CASE strat # "fillFirst"
    BY <1>2, RoundRobinServes DEF Turn
  <1> QED
    BY <1>1, <1>2

\* A bucket after the turn of one of its views.
WithView(s, n, b) ==
    [entries |-> s.entries, ready |-> [s.ready EXCEPT ![n] = b], blocked |-> s.blocked]

\* A bucket replaced by one that agrees leaves the shard agreeing.
LEMMA WithViewOK ==
    ASSUME NEW known, NEW m, NEW t, NEW s, ShardOK(s, known, m, t),
           NEW n \in Levels(s.entries, known), NEW b,
           BucketOK(b, ReadyAt(s.entries, known, n), known)
    PROVE  ShardOK(WithView(s, n, b), known, m, t)
  <1>1. WithView(s, n, b).entries = s.entries
        /\ WithView(s, n, b).ready = [s.ready EXCEPT ![n] = b]
        /\ WithView(s, n, b).blocked = Queued(s.entries)
    BY DEF WithView, ShardOK
  <1>2. s.ready = [k \in Levels(s.entries, known) |-> s.ready[k]]
        /\ \A k \in Levels(s.entries, known) :
              BucketOK(s.ready[k], ReadyAt(s.entries, known, k), known)
    BY DEF ShardOK, ReadyOK
  <1> DEFINE r == [s.ready EXCEPT ![n] = b]
  <1>3. r = [k \in Levels(s.entries, known) |-> r[k]]
        /\ \A k \in Levels(s.entries, known) : r[k] = IF k = n THEN b ELSE s.ready[k]
    BY <1>2
  <1> HIDE DEF r
  <1>4. ReadyOK(r, s.entries, known)
    <2>1. ASSUME NEW k \in Levels(s.entries, known)
          PROVE  BucketOK(r[k], ReadyAt(s.entries, known, k), known)
      BY <1>2, <1>3
    <2> QED  BY <1>3, <2>1 DEF ReadyOK
  <1>5. EntriesOK(s.entries, known, m, t)
    BY DEF ShardOK
  <1>6. WithView(s, n, b) = [entries |-> WithView(s, n, b).entries, ready |-> WithView(s, n, b).ready,
                             blocked |-> Queued(WithView(s, n, b).entries)]
    BY <1>1 DEF WithView
  <1> QED
    BY <1>1, <1>4, <1>5, <1>6 DEF ShardOK, r

\* A pick at a priority offers one of its ready, one of the websockets first.
LEMMA PickAtOK ==
    ASSUME NEW known, IsKnown(known), NEW m, NEW t, NEW s, ShardOK(s, known, m, t),
           NEW n \in Levels(s.entries, known), NEW prefer, NEW strat, NEW C,
           ReadyAt(s.entries, known, n) \cap C # {}
    PROVE  LET S  == ReadyAt(s.entries, known, n)
               ws == WsOf(S, known)
               p  == PickAt(s, n, prefer, strat, C)
           IN  /\ ShardOK(p.shard, known, m, t)
               /\ p.auth \in S \cap C
               /\ prefer /\ ws \cap C # {} => p.auth \in ws
  <1> DEFINE S  == ReadyAt(s.entries, known, n)
             ws == WsOf(S, known)
             b == s.ready[n]
  <1>1. DOMAIN s.entries \subseteq DOMAIN known
    BY DEF ShardOK, EntriesOK
  <1>2. S \in SUBSET DOMAIN known /\ ws \in SUBSET DOMAIN known /\ ws \subseteq S
    BY <1>1, ReadyAtKnown DEF WsOf
  <1>3. BucketOK(b, S, known) /\ n \in DOMAIN s.ready
    BY DEF ShardOK, ReadyOK
  <1>4. s = [entries |-> s.entries, ready |-> s.ready, blocked |-> s.blocked]
    BY DEF ShardOK
  <1> HIDE DEF S
  <1>5. Serves(b.ws, C) <=> ws \cap C # {}
    BY <1>2, <1>3, ViewServes DEF BucketOK
  <1>6. ASSUME prefer /\ ws \cap C # {}
        PROVE  /\ ShardOK(PickAt(s, n, prefer, strat, C).shard, known, m, t)
               /\ PickAt(s, n, prefer, strat, C).auth \in ws \cap C
    <2> DEFINE pick == Turn(b.ws, strat, C)
               new == [b EXCEPT !["ws"] = pick.view]
    <2>1. pick.auth \in ws \cap C /\ IsTurned(pick.view, View(ws, known))
      BY <1>2, <1>3, <1>6, TurnServes DEF BucketOK
    <2>2. PickAt(s, n, prefer, strat, C) =
             [auth |-> pick.auth, shard |-> [s EXCEPT !.ready[n]["ws"] = pick.view]]
      BY <1>5, <1>6 DEF PickAt, Turn
    <2> HIDE DEF pick
    <2>3. [s EXCEPT !.ready[n]["ws"] = pick.view] = WithView(s, n, new)
      BY <1>3, <1>4 DEF WithView
    <2>4. BucketOK(new, S, known)
      <3> DEFINE x == b.all
                 y == b.ws
                 v == pick.view
      <3>0. b = [all |-> x, ws |-> y]
        BY <1>3 DEF BucketOK
      <3> HIDE DEF b, x, y, v
      <3>1. new = [all |-> x, ws |-> v]
        BY <3>0 DEF v
      <3> HIDE DEF new
      <3>2. new.all = b.all /\ new.ws = pick.view /\ new = [all |-> new.all, ws |-> new.ws]
        BY <3>1 DEF x, v
      <3> QED  BY <1>3, <2>1, <3>2 DEF BucketOK
    <2> HIDE DEF new
    <2>5. ShardOK(WithView(s, n, new), known, m, t)
      BY <2>4, WithViewOK DEF S
    <2> QED  BY <2>1, <2>2, <2>3, <2>5
  <1>7. ASSUME ~(prefer /\ ws \cap C # {})
        PROVE  /\ ShardOK(PickAt(s, n, prefer, strat, C).shard, known, m, t)
               /\ PickAt(s, n, prefer, strat, C).auth \in S \cap C
    <2> DEFINE pick == Turn(b.all, strat, C)
               new == [b EXCEPT !["all"] = pick.view]
    <2>0. S \cap C # {}
      BY DEF S
    <2>1. pick.auth \in S \cap C /\ IsTurned(pick.view, View(S, known))
      BY <1>2, <1>3, <2>0, TurnServes DEF BucketOK
    <2>2. PickAt(s, n, prefer, strat, C) =
             [auth |-> pick.auth, shard |-> [s EXCEPT !.ready[n]["all"] = pick.view]]
      BY <1>5, <1>7 DEF PickAt, Turn
    <2> HIDE DEF pick
    <2>3. [s EXCEPT !.ready[n]["all"] = pick.view] = WithView(s, n, new)
      BY <1>3, <1>4 DEF WithView
    <2>4. BucketOK(new, S, known)
      <3> DEFINE x == b.all
                 y == b.ws
                 v == pick.view
      <3>0. b = [all |-> x, ws |-> y]
        BY <1>3 DEF BucketOK
      <3> HIDE DEF b, x, y, v
      <3>1. new = [all |-> v, ws |-> y]
        BY <3>0 DEF v
      <3> HIDE DEF new
      <3>2. new.all = pick.view /\ new.ws = b.ws /\ new = [all |-> new.all, ws |-> new.ws]
        BY <3>1 DEF y, v
      <3> QED  BY <1>3, <2>1, <3>2 DEF BucketOK
    <2> HIDE DEF new
    <2>5. ShardOK(WithView(s, n, new), known, m, t)
      BY <2>4, WithViewOK DEF S
    <2> QED  BY <2>1, <2>2, <2>3, <2>5
  <1>8. PickAt(s, n, prefer, strat, C).auth \in S \cap C
    BY <1>2, <1>6, <1>7
  <1> QED
    BY <1>6, <1>7, <1>8 DEF S

\* The image of a finite set is finite.
LEMMA ImageFinite ==
    ASSUME NEW S, IsFiniteSet(S), NEW f
    PROVE  IsFiniteSet({f[x] : x \in S})
  <1> DEFINE T == {f[x] : x \in S}
             g == [x \in S |-> f[x]]
  <1>1. g \in Surjection(S, T)
    BY DEF Surjection
  <1> QED
    BY <1>1, FS_Surjection

\* The credentials are those of an order.
LEMMA AuthsFinite == IsFiniteSet(Auths)
  <1>1. Len(IdOrder) \in Nat /\ DOMAIN IdOrder = 1 .. Len(IdOrder)
    BY OrdersAreTotal
  <1>2. IsFiniteSet(1 .. Len(IdOrder))
    BY <1>1, FS_Interval
  <1>3. IsFiniteSet({IdOrder[i] : i \in 1 .. Len(IdOrder)})
    BY <1>2, ImageFinite
  <1> QED
    BY <1>1, <1>3, OrdersAreTotal DEF ToSet

PriorityOf(S, known) == {known[a].priority : a \in S}

\* Finitely many have finitely many priorities.
LEMMA PriorityOfFinite ==
    ASSUME NEW S, IsFiniteSet(S), NEW known
    PROVE  IsFiniteSet(PriorityOf(S, known))
  <1> DEFINE f == [a \in S |-> known[a].priority]
  <1>1. PriorityOf(S, known) = {f[a] : a \in S}
    BY DEF PriorityOf
  <1> HIDE DEF f
  <1> QED
    BY <1>1, ImageFinite

\* The levels at which a side of the buckets serves C.
LEMMA PrioritiesHas ==
    ASSUME NEW known, IsKnown(known), NEW m, NEW t, NEW s, ShardOK(s, known, m, t), NEW C
    PROVE  LET R == ReadyOf(s.entries) \cap C
           IN  /\ Priorities(s, "all", C) = PriorityOf(R, known)
               /\ Priorities(s, "ws", C) = PriorityOf(WsOf(R, known), known)
               /\ IsFiniteSet(Priorities(s, "all", C)) /\ IsFiniteSet(Priorities(s, "ws", C))
               /\ Priorities(s, "all", C) \subseteq Int /\ Priorities(s, "ws", C) \subseteq Int
  <1> DEFINE R == ReadyOf(s.entries) \cap C
             S(n) == ReadyAt(s.entries, known, n)
  <1>1. DOMAIN s.entries \subseteq DOMAIN known /\ DOMAIN s.ready = Levels(s.entries, known)
    BY DEF ShardOK, EntriesOK, ReadyOK
  <1>2. ASSUME NEW n \in Levels(s.entries, known)
        PROVE  /\ Serves(s.ready[n].all, C) <=> S(n) \cap C # {}
               /\ Serves(s.ready[n].ws, C) <=> WsOf(S(n), known) \cap C # {}
    <2>1. S(n) \in SUBSET DOMAIN known /\ WsOf(S(n), known) \in SUBSET DOMAIN known
      BY <1>1, ReadyAtKnown
    <2>2. BucketOK(s.ready[n], S(n), known)
      BY DEF ShardOK, ReadyOK
    <2> HIDE DEF S
    <2> QED  BY <2>1, <2>2, ViewServes DEF BucketOK
  <1>3. Priorities(s, "all", C) = PriorityOf(R, known)
    <2>1. Priorities(s, "all", C) = {n \in Levels(s.entries, known) : S(n) \cap C # {}}
      BY <1>1, <1>2 DEF Priorities
    <2> QED  BY <2>1 DEF Levels, ReadyOf, ReadyAt, PriorityOf
  <1>4. Priorities(s, "ws", C) = PriorityOf(WsOf(R, known), known)
    <2>1. Priorities(s, "ws", C) = {n \in Levels(s.entries, known) : WsOf(S(n), known) \cap C # {}}
      BY <1>1, <1>2 DEF Priorities
    <2> QED  BY <2>1 DEF Levels, ReadyOf, ReadyAt, WsOf, PriorityOf
  <1>5. R \subseteq Auths /\ WsOf(R, known) \subseteq Auths
    BY <1>1 DEF IsKnown, ReadyOf, WsOf
  <1>6. IsFiniteSet(R) /\ IsFiniteSet(WsOf(R, known))
    BY <1>5, AuthsFinite, FS_Subset
  <1>7. \A a \in DOMAIN known : known[a].priority \in Int
    BY DEF IsKnown, IsSnapshot
  <1>8. R \subseteq DOMAIN known /\ WsOf(R, known) \subseteq DOMAIN known
    BY <1>1 DEF ReadyOf, WsOf
  <1> HIDE DEF R
  <1>9. IsFiniteSet(PriorityOf(R, known)) /\ IsFiniteSet(PriorityOf(WsOf(R, known), known))
    BY <1>6, PriorityOfFinite
  <1>10. PriorityOf(R, known) \subseteq Int /\ PriorityOf(WsOf(R, known), known) \subseteq Int
    BY <1>7, <1>8 DEF PriorityOf
  <1> QED
    BY <1>3, <1>4, <1>9, <1>10 DEF R

\* Those of R that come first: websockets, if they are preferred and there are
\* any, and the highest priority.
Favored(R, known, prefer) == IF prefer /\ WsOf(R, known) # {} THEN WsOf(R, known) ELSE R
Foremost(R, known, prefer) ==
    {a \in Favored(R, known, prefer) :
        \A b \in Favored(R, known, prefer) : known[b].priority <= known[a].priority}

\* The highest priority found is one of a candidate and none is higher.
LEMMA HighestReadyOK ==
    ASSUME NEW known, IsKnown(known), NEW m, NEW t, NEW s, ShardOK(s, known, m, t), NEW C,
           NEW prefer, ReadyOf(s.entries) \cap C # {}
    PROVE  LET R == ReadyOf(s.entries) \cap C
               h == HighestReady(s, prefer, C)
           IN  /\ \E a \in Favored(R, known, prefer) : known[a].priority = h
               /\ \A a \in Favored(R, known, prefer) : known[a].priority <= h
  <1> DEFINE R == ReadyOf(s.entries) \cap C
  <1>1. /\ Priorities(s, "all", C) = PriorityOf(R, known)
        /\ Priorities(s, "ws", C) = PriorityOf(WsOf(R, known), known)
        /\ IsFiniteSet(PriorityOf(R, known)) /\ IsFiniteSet(PriorityOf(WsOf(R, known), known))
        /\ PriorityOf(R, known) \subseteq Int /\ PriorityOf(WsOf(R, known), known) \subseteq Int
    BY PrioritiesHas
  <1>2. R # {}
    OBVIOUS
  <1> HIDE DEF R
  <1>3. PriorityOf(WsOf(R, known), known) # {} <=> WsOf(R, known) # {}
    BY DEF PriorityOf
  <1>4. HighestReady(s, prefer, C) = Max(PriorityOf(Favored(R, known, prefer), known))
    BY <1>1, <1>3 DEF HighestReady, Favored
  <1>5. LET F == PriorityOf(Favored(R, known, prefer), known)
        IN  F # {} /\ F \subseteq Int /\ IsFiniteSet(F)
    <2>1. PriorityOf(R, known) # {}
      BY <1>2 DEF PriorityOf
    <2>2. CASE prefer /\ WsOf(R, known) # {}
      BY <1>1, <1>3, <2>2 DEF Favored
    <2>3. CASE ~(prefer /\ WsOf(R, known) # {})
      BY <1>1, <2>1, <2>3 DEF Favored
    <2> QED  BY <2>2, <2>3
  <1>6. LET F == PriorityOf(Favored(R, known, prefer), known)
        IN  Max(F) \in F /\ \A y \in F : y <= Max(F)
    BY <1>5, GreatestOf
  <1> QED
    BY <1>4, <1>6 DEF R, PriorityOf

\* A pick in a shard offers one of the foremost candidates, or nothing.
LEMMA PickReadyOK ==
    ASSUME NEW known, IsKnown(known), NEW m, NEW t, NEW s, ShardOK(s, known, m, t), NEW C, NEW q,
           NEW prefer, prefer = PrefersWebsocket(q)
    PROVE  LET R == ReadyOf(s.entries) \cap C
               r == PickReady(s, q, C)
           IN  /\ ShardOK(r.shard, known, m, t)
               /\ R = {} => r.auth = Nil
               /\ R # {} => r.auth \in Foremost(R, known, prefer)
  <1> DEFINE R == ReadyOf(s.entries) \cap C
             h == HighestReady(s, prefer, C)
  <1>1. /\ Priorities(s, "all", C) = PriorityOf(R, known)
        /\ Priorities(s, "ws", C) = PriorityOf(WsOf(R, known), known)
        /\ IsFiniteSet(PriorityOf(R, known)) /\ IsFiniteSet(PriorityOf(WsOf(R, known), known))
        /\ PriorityOf(R, known) \subseteq Int /\ PriorityOf(WsOf(R, known), known) \subseteq Int
    BY PrioritiesHas
  <1>2. Priorities(s, "all", C) = {} <=> R = {}
    BY <1>1 DEF PriorityOf
  <1>3. CASE R = {}
    BY <1>2, <1>3 DEF PickReady
  <1>4. CASE R # {}
    <2> DEFINE p == PickAt(s, h, prefer, strategy, C)
               S == ReadyAt(s.entries, known, h)
    <2>1. PickReady(s, q, C) = p
      BY <1>2, <1>4 DEF PickReady
    <2>2. /\ \E a \in Favored(R, known, prefer) : known[a].priority = h
          /\ \A a \in Favored(R, known, prefer) : known[a].priority <= h
      <3>1. ReadyOf(s.entries) \cap C # {}
        BY <1>4
      <3> QED  BY ONLY <3>1, HighestReadyOK, IsKnown(known), ShardOK(s, known, m, t)
    <2> HIDE DEF h, p
    <2>3. S \cap C # {} /\ h \in Levels(s.entries, known)
      BY <2>2 DEF Favored, Levels, ReadyAt, ReadyOf, WsOf
    <2>4. (prefer /\ WsOf(R, known) # {}) => WsOf(S, known) \cap C # {}
      BY <2>2 DEF Favored, ReadyAt, ReadyOf, WsOf
    <2>5. /\ ShardOK(p.shard, known, m, t)
          /\ p.auth \in S \cap C
          /\ prefer /\ WsOf(S, known) \cap C # {} => p.auth \in WsOf(S, known)
      BY <2>3, PickAtOK DEF p
    <2>6. p.auth \in R /\ known[p.auth].priority = h
      BY <2>5 DEF ReadyAt, ReadyOf
    <2>7. p.auth \in Favored(R, known, prefer)
      BY <2>4, <2>5, <2>6 DEF Favored, WsOf
    <2>8. p.auth \in Foremost(R, known, prefer)
      BY <2>2, <2>6, <2>7 DEF Foremost
    <2> QED  BY <1>4, <2>1, <2>5, <2>8
  <1> QED
    BY <1>3, <1>4

-----------------------------------------------------------------------------
(* The choice among providers. *)

\* The recursion of SlotsBefore has a solution.
SlotsUpTo(weight, n, f) == f = [i \in 0 .. n |-> IF i = 0 THEN 0 ELSE f[i - 1] + weight[i - 1]]

\* The recursion that the slots follow has a solution.
LEMMA SlotsExist ==
    ASSUME NEW weight, NEW n \in Nat
    PROVE  \E f : SlotsUpTo(weight, n, f)
  <1> DEFINE Bad == {k \in Nat : ~\E f : SlotsUpTo(weight, k, f)}
  <1>1. ASSUME NEW k \in Bad, \A j \in Bad : k <= j PROVE FALSE
    <2>1. CASE k = 0
      <3>1. SlotsUpTo(weight, 0, [i \in 0 .. 0 |-> 0])
        BY DEF SlotsUpTo
      <3> QED  BY <1>1, <2>1, <3>1
    <2>2. CASE k # 0
      <3>1. k - 1 \in Nat /\ k - 1 \notin Bad /\ k \in Nat
        <4>1. k \in Nat
          OBVIOUS
        <4> HIDE DEF Bad
        <4> QED  BY <1>1, <2>2, <4>1
      <3>2. PICK f : SlotsUpTo(weight, k - 1, f)
        BY <3>1
      <3> DEFINE top == f[k - 1] + weight[k - 1]
                 g == [i \in 0 .. k |-> IF i = k THEN top ELSE f[i]]
      <3>3. SlotsUpTo(weight, k, g)
        <4>1. \A i \in 0 .. k : i # k => g[i] = f[i] /\ i \in 0 .. k - 1
          BY <3>1
        <4>2. \A i \in 0 .. k : i # 0 => i - 1 \in 0 .. k - 1 /\ g[i - 1] = f[i - 1]
          BY <3>1
        <4>3. g[k] = top /\ DOMAIN g = 0 .. k
          BY <3>1
        <4> HIDE DEF g, top
        <4>4. \A i \in 0 .. k - 1 : f[i] = IF i = 0 THEN 0 ELSE f[i - 1] + weight[i - 1]
          BY <3>2 DEF SlotsUpTo
        <4>5. \A i \in 0 .. k : g[i] = IF i = 0 THEN 0 ELSE g[i - 1] + weight[i - 1]
          BY <4>1, <4>2, <4>3, <4>4, <2>2 DEF top
        <4>6. g = [i \in 0 .. k |-> g[i]]
          BY DEF g
        <4> QED  BY <4>5, <4>6 DEF SlotsUpTo
      <3> HIDE DEF g
      <3> QED  BY <1>1, <3>3
    <2> QED  BY <2>1, <2>2
  <1>2. Bad = {}
    <2> HIDE DEF Bad
    <2>1. Bad \subseteq Nat
      BY DEF Bad
    <2> QED  BY <1>1, <2>1, LeastNat
  <1> QED  BY <1>2

IsWeight(weight, n) == weight \in [0 .. (n - 1) -> Nat]

\* Each provider has as many slots as its weight, after those before it.
LEMMA SlotsAre ==
    ASSUME NEW n \in Nat, NEW weight, IsWeight(weight, n)
    PROVE  LET before == SlotsBefore(weight)
           IN  /\ before[0] = 0
               /\ \A i \in 1 .. n : before[i] = before[i - 1] + weight[i - 1]
               /\ \A i \in 0 .. n : before[i] \in Nat
  <1> DEFINE f == CHOOSE h : SlotsUpTo(weight, n, h)
             Bad == {i \in 0 .. n : f[i] \notin Nat}
  <1>0. n = Cardinality(DOMAIN weight)
    <2>1. DOMAIN weight = 0 .. (n - 1) /\ n - 1 \in Int
      BY DEF IsWeight
    <2> QED  BY <2>1, FS_Interval
  <1>1. SlotsUpTo(weight, n, f)
    BY SlotsExist
  <1>2. SlotsBefore(weight) = f
    BY <1>0 DEF SlotsBefore, SlotsUpTo
  <1> HIDE DEF f
  <1>3. f[0] = 0 /\ \A i \in 1 .. n : f[i] = f[i - 1] + weight[i - 1]
    BY <1>1 DEF SlotsUpTo
  <1>4. ASSUME NEW i \in Bad, \A j \in Bad : i <= j PROVE FALSE
    <2>0. i \in 0 .. n /\ f[i] \notin Nat
      OBVIOUS
    <2>1. i # 0
      BY <1>3, <2>0
    <2>2. i - 1 \in 0 .. n /\ i - 1 \notin Bad /\ i \in 1 .. n
      <3> HIDE DEF Bad
      <3> QED  BY <1>4, <2>0, <2>1
    <2>3. f[i - 1] \in Nat /\ weight[i - 1] \in Nat
      BY <2>2 DEF IsWeight
    <2> QED  BY <1>3, <2>0, <2>2, <2>3
  <1>5. Bad = {}
    <2> HIDE DEF Bad
    <2>1. Bad \subseteq Nat
      BY DEF Bad
    <2> QED  BY <1>4, <2>1, LeastNat
  <1> QED
    BY <1>2, <1>3, <1>5

\* There are slots if a provider has some.
LEMMA SomeSlots ==
    ASSUME NEW n \in Nat, NEW weight, IsWeight(weight, n), NEW i \in 0 .. n - 1, weight[i] # 0
    PROVE  SlotsBefore(weight)[n] \in Nat \ {0}
  <1> DEFINE f == SlotsBefore(weight)
             Bad == {k \in i + 1 .. n : f[k] = 0}
  <1>1. /\ f[0] = 0 /\ \A k \in 1 .. n : f[k] = f[k - 1] + weight[k - 1]
        /\ \A k \in 0 .. n : f[k] \in Nat
    BY SlotsAre
  <1> HIDE DEF f
  <1>2. \A k \in 0 .. n - 1 : weight[k] \in Nat
    BY DEF IsWeight
  <1>3. ASSUME NEW k \in Bad, \A j \in Bad : k <= j PROVE FALSE
    <2>0. k \in i + 1 .. n /\ f[k] = 0
      OBVIOUS
    <2>1. f[k] = f[k - 1] + weight[k - 1] /\ f[k - 1] \in Nat /\ weight[k - 1] \in Nat
      BY <1>1, <1>2, <2>0
    <2>2. CASE k = i + 1
      BY <2>0, <2>1, <2>2, <1>2
    <2>3. CASE k # i + 1
      <3>1. k - 1 \in i + 1 .. n /\ k - 1 \notin Bad
        <4> HIDE DEF Bad
        <4> QED  BY <1>3, <2>0, <2>3
      <3> QED  BY <2>0, <2>1, <3>1
    <2> QED  BY <2>2, <2>3
  <1>4. Bad = {}
    <2> HIDE DEF Bad
    <2>1. Bad \subseteq Nat
      BY DEF Bad
    <2> QED  BY <1>3, <2>1, LeastNat
  <1>5. n \in i + 1 .. n /\ n \in 0 .. n
    OBVIOUS
  <1> QED
    BY <1>1, <1>4, <1>5 DEF f

\* The slots before a provider are no fewer than those before an earlier one.
LEMMA SlotsGrow ==
    ASSUME NEW n \in Nat, NEW weight, IsWeight(weight, n), NEW i \in 0 .. n
    PROVE  \A j \in i .. n : SlotsBefore(weight)[i] <= SlotsBefore(weight)[j]
  <1> DEFINE f == SlotsBefore(weight)
             Bad == {j \in i .. n : ~(f[i] <= f[j])}
  <1>1. /\ \A k \in 1 .. n : f[k] = f[k - 1] + weight[k - 1]
        /\ \A k \in 0 .. n : f[k] \in Nat
    BY SlotsAre
  <1> HIDE DEF f
  <1>2. ASSUME NEW j \in Bad, \A k \in Bad : j <= k PROVE FALSE
    <2>0. j \in i .. n /\ ~(f[i] <= f[j])
      OBVIOUS
    <2>1. j # i
      BY <1>1, <2>0
    <2>2. j - 1 \in i .. n /\ j - 1 \notin Bad /\ j \in 1 .. n
      <3> HIDE DEF Bad
      <3> QED  BY <1>2, <2>0, <2>1
    <2>3. f[i] <= f[j - 1] /\ weight[j - 1] \in Nat
      BY <2>2 DEF IsWeight
    <2>4. f[i] \in Nat /\ f[j - 1] \in Nat /\ f[j] = f[j - 1] + weight[j - 1]
      BY <1>1, <2>2
    <2> QED  BY <2>0, <2>3, <2>4
  <1>3. Bad = {}
    <2> HIDE DEF Bad
    <2>1. Bad \subseteq Nat
      BY DEF Bad
    <2> QED  BY <1>2, <2>1, LeastNat
  <1> QED
    BY <1>3 DEF f

\* A slot of the segment of a provider.
SlotOf(weight, i, slot) ==
    SlotsBefore(weight)[i] <= slot /\ slot < SlotsBefore(weight)[i] + weight[i]

\* Each slot lies in the segment of one provider.
LEMMA SlotIsOf ==
    ASSUME NEW n \in Nat, NEW weight, IsWeight(weight, n), NEW slot \in Nat,
           slot < SlotsBefore(weight)[n]
    PROVE  /\ ProviderAt(weight, slot) \in 0 .. n - 1
           /\ \A i \in 0 .. n - 1 : SlotOf(weight, i, slot) <=> i = ProviderAt(weight, slot)
  <1> DEFINE f == SlotsBefore(weight)
             e == ProviderAt(weight, slot)
             T == {k \in 0 .. n : slot < f[k]}
  <1>1. f[0] = 0 /\ \A k \in 0 .. n : f[k] \in Nat
    BY SlotsAre
  <1>2. \A i \in 0 .. n - 1 : f[i + 1] = f[i] + weight[i] /\ weight[i] \in Nat
    <2>1. \A k \in 1 .. n : f[k] = f[k - 1] + weight[k - 1]
      BY SlotsAre
    <2> HIDE DEF f
    <2> SUFFICES ASSUME NEW i \in 0 .. n - 1
                 PROVE  f[i + 1] = f[i] + weight[i] /\ weight[i] \in Nat
      OBVIOUS
    <2>2. i + 1 \in 1 .. n /\ (i + 1) - 1 = i
      OBVIOUS
    <2> QED  BY <2>1, <2>2 DEF IsWeight
  <1>3. PICK j \in T : \A y \in T : j <= y
    <2>1. T \subseteq Nat /\ n \in T
      OBVIOUS
    <2> HIDE DEF T
    <2> QED  BY <2>1, LeastNat
  <1>4. \A i \in 0 .. n : \A k \in i .. n : f[i] <= f[k]
    BY SlotsGrow
  <1> HIDE DEF f
  <1>5. j \in 0 .. n /\ slot < f[j] /\ j # 0
    BY <1>1, <1>3
  <1>6. j - 1 \in 0 .. n - 1 /\ j - 1 \in 0 .. n /\ j - 1 \notin T
    <2> HIDE DEF T
    <2> QED  BY <1>3, <1>5
  <1>7. DOMAIN weight = 0 .. n - 1
    BY DEF IsWeight
  <1>8. \E i \in DOMAIN weight : f[i] <= slot /\ slot < f[i + 1]
    <2>1. (j - 1) + 1 = j /\ f[j - 1] <= slot
      BY <1>1, <1>5, <1>6
    <2> QED  BY <1>5, <1>6, <1>7, <2>1
  <1>9. e \in 0 .. n - 1 /\ f[e] <= slot /\ slot < f[e + 1]
    BY <1>7, <1>8 DEF ProviderAt, f
  <1> HIDE DEF e
  <1>10. ASSUME NEW i \in 0 .. n - 1, f[i] <= slot, slot < f[i + 1]
         PROVE  i = e
    <2>1. \A x \in 0 .. n - 1 : x \in 0 .. n /\ x + 1 \in 0 .. n
      OBVIOUS
    <2>2. CASE i < e
      <3>1. i + 1 \in 0 .. n /\ e \in (i + 1) .. n
        BY <1>9, <2>2
      <3>2. f[i + 1] <= f[e] /\ f[i + 1] \in Nat /\ f[e] \in Nat
        BY <1>1, <1>4, <1>9, <2>1, <3>1
      <3> QED  BY <1>9, <1>10, <3>2
    <2>3. CASE e < i
      <3>1. e + 1 \in 0 .. n /\ i \in (e + 1) .. n
        BY <1>9, <2>3
      <3>2. f[e + 1] <= f[i] /\ f[e + 1] \in Nat /\ f[i] \in Nat
        BY <1>1, <1>4, <1>10, <2>1, <3>1
      <3> QED  BY <1>9, <1>10, <3>2
    <2> QED  BY <1>9, <2>2, <2>3
  <1>11. \A i \in 0 .. n - 1 : SlotOf(weight, i, slot) <=> i = e
    BY <1>2, <1>9, <1>10 DEF SlotOf, f
  <1> QED
    BY <1>9, <1>11 DEF e

\* The shards of the providers asked for, each agreeing with what is known.
AllOK(shard, knowns, n, m, t) ==
    /\ n \in Nat \ {0} /\ DOMAIN shard = 0 .. n - 1
    /\ \A i \in 0 .. n - 1 : IsKnown(knowns[i]) /\ ShardOK(shard[i], knowns[i], m, t)

ServesAt(s, known, best, C) == ReadyAt(s.entries, known, best) \cap C # {}

\* A bucket serves candidates just if some of its ready are.
LEMMA ServesAtLevel ==
    ASSUME NEW known, IsKnown(known), NEW m, NEW t, NEW s, ShardOK(s, known, m, t), NEW best, NEW C
    PROVE  /\ (best \in DOMAIN s.ready /\ Serves(s.ready[best].all, C))
                 <=> ServesAt(s, known, best, C)
           /\ best \in DOMAIN s.ready => Len(s.ready[best].all.flat) \in Nat
           /\ ServesAt(s, known, best, C) => Len(s.ready[best].all.flat) # 0
  <1> DEFINE S == ReadyAt(s.entries, known, best)
  <1>1. DOMAIN s.entries \subseteq DOMAIN known /\ DOMAIN s.ready = Levels(s.entries, known)
    BY DEF ShardOK, EntriesOK, ReadyOK
  <1>2. S \in SUBSET DOMAIN known /\ S \in SUBSET Auths
    BY <1>1, ReadyAtKnown DEF IsKnown
  <1>3. S # {} => best \in Levels(s.entries, known)
    BY DEF ReadyAt, Levels, ReadyOf
  <1>4. ASSUME best \in DOMAIN s.ready
        PROVE  /\ Serves(s.ready[best].all, C) <=> S \cap C # {}
               /\ s.ready[best].all.flat = InOrder(S)
    <2>1. BucketOK(s.ready[best], S, known)
      BY <1>1, <1>4 DEF ShardOK, ReadyOK
    <2> HIDE DEF S
    <2> QED  BY <1>2, <2>1, ViewServes, TurnedHas DEF BucketOK
  <1>5. InOrder(S) \in Seq(Auths) /\ ToSet(InOrder(S)) = S
    BY <1>2, InOrderHasAll
  <1>6. Len(InOrder(S)) \in Nat /\ (S # {} => Len(InOrder(S)) # 0)
    BY <1>5 DEF ToSet
  <1> QED
    BY <1>1, <1>3, <1>4, <1>6 DEF ServesAt

\* The search from a provider on finds one that serves, if there is one.
LEMMA ProviderFromServes ==
    ASSUME NEW shard, NEW knowns, NEW n, NEW m, NEW t, AllOK(shard, knowns, n, m, t),
           NEW best, NEW start \in Nat, NEW C,
           NEW e \in 0 .. n - 1, ServesAt(shard[e], knowns[e], best, C)
    PROVE  LET i == ProviderFrom(shard, best, start, C)
           IN  i \in 0 .. n - 1 /\ ServesAt(shard[i], knowns[i], best, C)
  <1> DEFINE at(i) == best \in DOMAIN shard[i].ready /\ Serves(shard[i].ready[best].all, C)
             K == {k \in 0 .. (n - 1) : at((start + k) % n)}
             f == (start + Min(K)) % n
  <1>0. n = Cardinality(DOMAIN shard) /\ n \in Nat \ {0}
    <2>1. DOMAIN shard = 0 .. (n - 1) /\ n - 1 \in Int /\ n \in Nat \ {0}
      BY DEF AllOK
    <2> QED  BY <2>1, FS_Interval
  <1>1. \A i \in 0 .. n - 1 : at(i) <=> ServesAt(shard[i], knowns[i], best, C)
    BY ServesAtLevel DEF AllOK
  <1>2. ProviderFrom(shard, best, start, C) = f
    BY <1>0 DEF ProviderFrom
  <1> HIDE DEF at
  <1>3. PICK k \in 0 .. n - 1 : (start + k) % n = e
    BY <1>0, GoingRound
  <1>4. K # {} /\ K \subseteq Nat
    <2>1. k \in K
      BY <1>1, <1>3
    <2>2. K \subseteq 0 .. (n - 1) /\ 0 .. (n - 1) \subseteq Nat
      BY <1>0
    <2> HIDE DEF K
    <2> QED  BY <2>1, <2>2
  <1>5. Min(K) \in K
    <2> HIDE DEF K
    <2> QED  BY <1>4, MinIsLeast
  <1>6. at(f) /\ Min(K) \in Nat
    BY <1>4, <1>5
  <1>7. f \in 0 .. n - 1
    <2>1. start + Min(K) \in Nat
      BY <1>6
    <2> HIDE DEF K
    <2> QED  BY <1>0, <2>1, GoingRound
  <1> HIDE DEF f
  <1> QED
    BY <1>1, <1>2, <1>6, <1>7

\* The shards of all providers, and the cursors of the mixed rotation.
ShardsOK(built, known, t) ==
    /\ DOMAIN built = Providers
    /\ \A p \in Providers : ProviderOK(known[p], built[p], t)
CursorsAreNat(cursors) == \A key \in DOMAIN cursors : cursors[key] \in Nat

\* A shard replaced by one that agrees leaves its provider agreeing.
LEMMA AssignedShard ==
    ASSUME NEW known, NEW built, NEW t, ProviderOK(known, built, t), NEW m, NEW s,
           ShardOK(s, known, m, t)
    PROVE  ProviderOK(known, Assigned(built, m, s), t)
  <1> DEFINE all == Assigned(built, m, s)
  <1>1. /\ DOMAIN all = DOMAIN built \cup {m} /\ all[m] = s
        /\ \A x \in DOMAIN built \ {m} : all[x] = built[x]
    BY DEF Assigned
  <1> HIDE DEF all
  <1>2. ASSUME NEW x \in DOMAIN all PROVE ShardOK(all[x], known, x, t)
    <2>1. CASE x = m
      BY <1>1, <2>1
    <2>2. CASE x # m
      BY <1>1, <2>2 DEF ProviderOK
    <2> QED  BY <2>1, <2>2
  <1>3. ProviderOK(known, all, t)
    BY <1>2 DEF ProviderOK
  <1> QED
    BY <1>3 DEF all

\* A cursor set leaves cursors.
LEMMA AssignedCursor ==
    ASSUME NEW cursors, CursorsAreNat(cursors), NEW key, NEW c \in Nat
    PROVE  CursorsAreNat(Assigned(cursors, key, c))
  BY DEF CursorsAreNat, Assigned

\* The providers a query asks for, and what is known of each.
Asked(knowns, n, q) ==
    /\ q.providers \in Seq(Providers) /\ n = Len(q.providers)
    /\ \A i \in 0 .. n - 1 : knowns[i] = metas[q.providers[i + 1]]

\* Storing a pick among providers leaves all agreeing.
LEMMA PlacedAmongOK ==
    ASSUME NEW st, ShardsOK(st.shards, metas, now), CursorsAreNat(st.mixed), NEW q, NEW knowns,
           NEW n,
           Asked(knowns, n, q), NEW shard, AllOK(shard, knowns, n, q.model, now),
           NEW i, NEW pick, i \in 0 .. n - 1 => ShardOK(pick.shard, knowns[i], q.model, now),
           NEW cursor, cursor = Nil \/ cursor \in Nat
    PROVE  LET r == PlacedAmong(st, q, shard, i, pick, cursor)
           IN  r.auth = pick.auth /\ ShardsOK(r.shards, metas, now) /\ CursorsAreNat(r.mixed)
  <1> DEFINE K(p) == CHOOSE k \in DOMAIN shard : q.providers[k + 1] = p
             to == [p \in Providers |->
                   IF \E k \in DOMAIN shard : q.providers[k + 1] = p
                   THEN Assigned(st.shards[p], q.model, IF K(p) = i THEN pick.shard ELSE shard[K(p)])
                   ELSE st.shards[p]]
             cursors == IF cursor = Nil THEN st.mixed
                        ELSE Assigned(st.mixed, <<q.providers, q.model>>, cursor)
  <1>1. PlacedAmong(st, q, shard, i, pick, cursor) = [auth |-> pick.auth, shards |-> to, mixed |-> cursors]
    BY DEF PlacedAmong
  <1>2. ASSUME NEW p \in Providers PROVE ProviderOK(metas[p], to[p], now)
    <2>1. CASE \E k \in DOMAIN shard : q.providers[k + 1] = p
      <3> DEFINE k == K(p)
      <3>1. k \in DOMAIN shard /\ q.providers[k + 1] = p
        BY <2>1
      <3> HIDE DEF k
      <3>2. k \in 0 .. n - 1 /\ knowns[k] = metas[p] /\ ShardOK(shard[k], metas[p], q.model, now)
        BY <3>1 DEF AllOK, Asked
      <3> DEFINE s == IF k = i THEN pick.shard ELSE shard[k]
      <3>3. ShardOK(s, metas[p], q.model, now)
        BY <3>2
      <3>4. to[p] = Assigned(st.shards[p], q.model, s)
        BY <2>1 DEF k
      <3> HIDE DEF s, to
      <3> QED  BY <3>3, <3>4, AssignedShard DEF ShardsOK
    <2>2. CASE ~\E k \in DOMAIN shard : q.providers[k + 1] = p
      BY <2>2 DEF ShardsOK
    <2> QED  BY <2>1, <2>2
  <1>3. ShardsOK(to, metas, now)
    <2>1. DOMAIN to = Providers
      OBVIOUS
    <2> HIDE DEF to
    <2> QED  BY <1>2, <2>1 DEF ShardsOK
  <1>4. CursorsAreNat(cursors)
    BY AssignedCursor
  <1> HIDE DEF to, cursors
  <1> QED
    BY <1>1, <1>3, <1>4

\* Of the highest priority among all that are ready at the providers.
Leading(a, e, shard, knowns, n, C) ==
    /\ a \in ReadyOf(shard[e].entries) \cap C
    /\ \A j \in 0 .. n - 1 : \A b \in ReadyOf(shard[j].entries) \cap C :
          knowns[j][b].priority <= knowns[e][a].priority

\* The highest priority ready at any of the providers.
Summit(shard, knowns, n, C, best) ==
    /\ \E e \in 0 .. n - 1 : ServesAt(shard[e], knowns[e], best, C)
    /\ \A j \in 0 .. n - 1 : \A b \in ReadyOf(shard[j].entries) \cap C : knowns[j][b].priority <= best

\* A pick at the highest priority leads everywhere.
LEMMA LeadingAt ==
    ASSUME NEW shard, NEW knowns, NEW n, NEW m, NEW t, AllOK(shard, knowns, n, m, t), NEW best,
           NEW C,
           Summit(shard, knowns, n, C, best), NEW e \in 0 .. n - 1,
           ServesAt(shard[e], knowns[e], best, C), NEW strat
    PROVE  LET p == PickAt(shard[e], best, FALSE, strat, C)
           IN  ShardOK(p.shard, knowns[e], m, t) /\ Leading(p.auth, e, shard, knowns, n, C)
  <1> DEFINE s == shard[e]
             known == knowns[e]
             S == ReadyAt(s.entries, known, best)
             p == PickAt(s, best, FALSE, strat, C)
  <1>1. IsKnown(known) /\ ShardOK(s, known, m, t) /\ S \cap C # {}
    BY DEF AllOK, ServesAt
  <1>2. best \in Levels(s.entries, known)
    BY <1>1 DEF Levels, ReadyOf, ReadyAt
  <1>3. ShardOK(p.shard, known, m, t) /\ p.auth \in S \cap C
    <2> HIDE DEF s, known
    <2> QED  BY <1>1, <1>2, PickAtOK
  <1> HIDE DEF p
  <1>4. p.auth \in ReadyOf(s.entries) \cap C /\ known[p.auth].priority = best
    BY <1>3 DEF ReadyAt, ReadyOf
  <1>5. Leading(p.auth, e, shard, knowns, n, C)
    BY <1>4 DEF Leading, Summit
  <1> QED
    BY <1>3, <1>5 DEF p

\* The weights count the ready, and one that serves has some.
LEMMA WeightsAre ==
    ASSUME NEW shard, NEW knowns, NEW n, NEW m, NEW t, AllOK(shard, knowns, n, m, t), NEW best,
           NEW C,
           NEW e \in 0 .. n - 1, ServesAt(shard[e], knowns[e], best, C)
    PROVE  IsWeight(Weights(shard, best), n) /\ Weights(shard, best)[e] # 0
  <1> DEFINE w(i) == IF best \in DOMAIN shard[i].ready THEN Len(shard[i].ready[best].all.flat) ELSE 0
  <1>1. Weights(shard, best) = [i \in 0 .. (n - 1) |-> w(i)]
    BY DEF Weights, AllOK
  <1>2. \A i \in 0 .. (n - 1) : w(i) \in Nat
    BY ServesAtLevel DEF AllOK
  <1>3. w(e) # 0
    BY ServesAtLevel DEF AllOK
  <1> HIDE DEF w
  <1> QED
    BY <1>1, <1>2, <1>3 DEF IsWeight

\* A pick among providers at the highest priority leads everywhere.
LEMMA PickAtBestOK ==
    ASSUME NEW st, ShardsOK(st.shards, metas, now), CursorsAreNat(st.mixed), NEW q, NEW knowns,
           NEW n,
           Asked(knowns, n, q), NEW shard, AllOK(shard, knowns, n, q.model, now),
           NEW C, NEW best, Summit(shard, knowns, n, C, best)
    PROVE  LET r == PickAtBest(st, q, shard, best, Weights(shard, best), C)
           IN  /\ ShardsOK(r.shards, metas, now) /\ CursorsAreNat(r.mixed)
               /\ \E e \in 0 .. n - 1 : Leading(r.auth, e, shard, knowns, n, C)
  <1> DEFINE weight == Weights(shard, best)
             r == PickAtBest(st, q, shard, best, weight, C)
             Good == /\ ShardsOK(r.shards, metas, now) /\ CursorsAreNat(r.mixed)
                     /\ \E e \in 0 .. n - 1 : Leading(r.auth, e, shard, knowns, n, C)
  <1>0. n \in Nat \ {0}
    BY DEF AllOK
  <1>1. PICK e \in 0 .. n - 1 : ServesAt(shard[e], knowns[e], best, C)
    BY DEF Summit
  <1>2. IsWeight(weight, n) /\ weight[e] # 0
    BY <1>1, WeightsAre
  <1> HIDE DEF weight
  <1>3. ASSUME NEW start \in Nat, NEW cursor, cursor = Nil \/ cursor \in Nat,
               NEW i, i = ProviderFrom(shard, best, start, C),
               r = PlacedAmong(st, q, shard, i, PickAt(shard[i], best, FALSE, strategy, C), cursor)
        PROVE  Good
    <2> DEFINE p == PickAt(shard[i], best, FALSE, strategy, C)
    <2>1. i \in 0 .. n - 1 /\ ServesAt(shard[i], knowns[i], best, C)
      BY <1>1, <1>3, ProviderFromServes
    <2>2. ShardOK(p.shard, knowns[i], q.model, now) /\ Leading(p.auth, i, shard, knowns, n, C)
      BY <2>1, LeadingAt
    <2> HIDE DEF p, r
    <2>3. LET x == PlacedAmong(st, q, shard, i, p, cursor)
          IN  x.auth = p.auth /\ ShardsOK(x.shards, metas, now) /\ CursorsAreNat(x.mixed)
      BY <1>3, <2>2, PlacedAmongOK
    <2>4. r = PlacedAmong(st, q, shard, i, p, cursor)
      BY <1>3 DEF p
    <2> QED  BY <2>1, <2>2, <2>3, <2>4
  <1>4. ASSUME strategy = "fillFirst" PROVE Good
    <2> DEFINE i == ProviderFrom(shard, best, 0, C)
    <2>1. r = PlacedAmong(st, q, shard, i, PickAt(shard[i], best, FALSE, strategy, C), Nil)
      BY <1>4 DEF PickAtBest
    <2> HIDE DEF r, i, Good
    <2>2. i = ProviderFrom(shard, best, 0, C)
      BY DEF i
    <2> QED  BY <1>3, <2>1, <2>2
  <1>5. ASSUME strategy # "fillFirst" PROVE Good
    <2> DEFINE key == <<q.providers, q.model>>
               before == SlotsBefore(weight)
               cursor == IF key \in DOMAIN st.mixed THEN st.mixed[key] ELSE 0
               slot == cursor % before[n]
               start == ProviderAt(weight, slot)
               i == ProviderFrom(shard, best, start, C)
               next == (IF i = start THEN slot ELSE before[i]) + 1
    <2>1. cursor \in Nat
      BY DEF CursorsAreNat
    <2>2. before[n] \in Nat \ {0}
      BY <1>0, <1>1, <1>2, SomeSlots
    <2>3. r = PlacedAmong(st, q, shard, i, PickAt(shard[i], best, FALSE, strategy, C), next)
      BY <1>5 DEF PickAtBest, Rotate, Asked
    <2> HIDE DEF cursor, r
    <2>4. slot \in Nat /\ slot < before[n]
      <3> HIDE DEF before
      <3> QED  BY <2>1, <2>2
    <2> HIDE DEF slot
    <2>5. start \in 0 .. n - 1
      BY <1>0, <1>2, <2>4, SlotIsOf
    <2>6. start \in Nat
      BY <1>0, <2>5
    <2> HIDE DEF start
    <2>7. i \in 0 .. n - 1
      BY <1>1, <2>6, ProviderFromServes
    <2>8. before[i] \in Nat
      <3>1. \A k \in 0 .. n : before[k] \in Nat
        BY <1>0, <1>2, SlotsAre
      <3>2. i \in 0 .. n
        BY <1>0, <2>7
      <3> HIDE DEF i, before
      <3> QED  BY <3>1, <3>2
    <2>9. next \in Nat
      BY <2>4, <2>8
    <2>10. i = ProviderFrom(shard, best, start, C)
      OBVIOUS
    <2> HIDE DEF i, next, before, Good
    <2> QED  BY <1>3, <2>3, <2>6, <2>9, <2>10
  <1> HIDE DEF r
  <1>6. Good
    <2> HIDE DEF Good
    <2> QED  BY <1>4, <1>5
  <1> QED
    BY <1>6 DEF r, weight

\* A shard has a priority to offer just if it has a candidate.
LEMMA SomePriority ==
    ASSUME NEW known, IsKnown(known), NEW m, NEW t, NEW s, ShardOK(s, known, m, t), NEW C
    PROVE  Priorities(s, "all", C) = {} <=> ReadyOf(s.entries) \cap C = {}
  <1>1. Priorities(s, "all", C) = PriorityOf(ReadyOf(s.entries) \cap C, known)
    BY PrioritiesHas
  <1> QED
    BY <1>1 DEF PriorityOf

\* The positions of the providers that serve, and the highest priority there.
ServingOf(shard, C) == {i \in DOMAIN shard : Priorities(shard[i], "all", C) # {}}
BestOf(shard, C) == Max({HighestReady(shard[i], FALSE, C) : i \in ServingOf(shard, C)})

\* What is found over all the providers is the highest priority there.
LEMMA BestOfIsSummit ==
    ASSUME NEW shard, NEW knowns, NEW n, NEW m, NEW t, AllOK(shard, knowns, n, m, t), NEW C
    PROVE  /\ ServingOf(shard, C) = {i \in 0 .. n - 1 : ReadyOf(shard[i].entries) \cap C # {}}
           /\ ServingOf(shard, C) # {} => Summit(shard, knowns, n, C, BestOf(shard, C))
  <1> DEFINE R(i) == ReadyOf(shard[i].entries) \cap C
             serving == ServingOf(shard, C)
             h(i) == HighestReady(shard[i], FALSE, C)
             H == {h(i) : i \in serving}
             best == Max(H)
  <1>1. n \in Nat \ {0} /\ DOMAIN shard = 0 .. n - 1
        /\ \A i \in 0 .. n - 1 : IsKnown(knowns[i]) /\ ShardOK(shard[i], knowns[i], m, t)
    BY DEF AllOK
  <1>2. serving = {i \in 0 .. n - 1 : R(i) # {}}
    <2>1. ASSUME NEW i \in 0 .. n - 1 PROVE Priorities(shard[i], "all", C) = {} <=> R(i) = {}
      BY <1>1, SomePriority
    <2> HIDE DEF R
    <2> QED  BY <1>1, <2>1 DEF ServingOf
  <1>3. ASSUME NEW i \in 0 .. n - 1, R(i) # {}
        PROVE  /\ \E a \in R(i) : knowns[i][a].priority = h(i)
               /\ \A a \in R(i) : knowns[i][a].priority <= h(i)
    <2> DEFINE F == Favored(R(i), knowns[i], FALSE)
    <2>1. F = R(i)
      BY DEF Favored
    <2>2. /\ \E a \in F : knowns[i][a].priority = h(i)
          /\ \A a \in F : knowns[i][a].priority <= h(i)
      BY <1>1, <1>3, HighestReadyOK
    <2> HIDE DEF F, R, h
    <2> QED  BY <2>1, <2>2
  <1>4. ASSUME NEW i \in 0 .. n - 1, R(i) # {}
        PROVE  h(i) \in Int
    <2>1. PICK a \in R(i) : knowns[i][a].priority = h(i)
      BY <1>3, <1>4
    <2>2. a \in DOMAIN knowns[i]
      BY <1>1, <2>1 DEF ShardOK, EntriesOK, ReadyOf
    <2>3. knowns[i][a].priority \in Int
      BY <1>1, <2>2 DEF IsKnown, IsSnapshot
    <2> HIDE DEF R, h
    <2> QED  BY <2>1, <2>3
  <1>5. IsFiniteSet(H)
    <2> DEFINE f == [i \in serving |-> h(i)]
    <2>1. IsFiniteSet(0 .. n - 1)
      BY <1>1, FS_Interval
    <2>2. IsFiniteSet(serving)
      <3>1. serving \subseteq 0 .. n - 1
        <4> HIDE DEF serving
        <4> QED  BY <1>2
      <3> HIDE DEF serving
      <3> QED  BY <2>1, <3>1, FS_Subset
    <2> HIDE DEF h, serving
    <2>3. H = {f[i] : i \in serving}
      OBVIOUS
    <2> HIDE DEF f, H
    <2> QED  BY <2>2, <2>3, ImageFinite
  <1>6. H \subseteq Int
    <2> HIDE DEF h, R
    <2> QED  BY <1>2, <1>4
  <1>7. ASSUME serving # {} PROVE Summit(shard, knowns, n, C, best)
    <2>1. best \in H /\ \A y \in H : y <= best
      <3>1. H # {}
        BY <1>7
      <3> HIDE DEF H
      <3> QED  BY <1>5, <1>6, <3>1, GreatestOf
    <2> HIDE DEF best
    <2>2. \A j \in 0 .. n - 1 : \A b \in R(j) : knowns[j][b].priority <= best
      <3> SUFFICES ASSUME NEW j \in 0 .. n - 1, NEW b \in R(j)
                   PROVE  knowns[j][b].priority <= best
        OBVIOUS
      <3>1. j \in serving /\ R(j) # {}
        BY <1>2
      <3>2. knowns[j][b].priority <= h(j)
        BY <1>3, <3>1
      <3>3. h(j) <= best /\ h(j) \in Int /\ best \in Int
        <4> HIDE DEF h, serving
        <4> QED  BY <1>4, <1>6, <2>1, <3>1
      <3>4. knowns[j][b].priority \in Int
        <4>1. b \in DOMAIN knowns[j]
          BY <1>1 DEF ShardOK, EntriesOK, ReadyOf
        <4> QED  BY <1>1, <4>1 DEF IsKnown, IsSnapshot
      <3> HIDE DEF h, R, serving
      <3> QED  BY <3>2, <3>3, <3>4
    <2>3. \E e \in 0 .. n - 1 : ServesAt(shard[e], knowns[e], best, C)
      <3>1. PICK e \in serving : h(e) = best
        BY <2>1
      <3>2. e \in 0 .. n - 1 /\ R(e) # {}
        BY <1>2
      <3>3. PICK a \in R(e) : knowns[e][a].priority = best
        <4> HIDE DEF h, R, serving
        <4> QED  BY <1>3, <3>1, <3>2
      <3>4. ServesAt(shard[e], knowns[e], best, C)
        BY <3>3 DEF ServesAt, ReadyAt, ReadyOf
      <3> QED  BY <3>2, <3>4
    <2>4. Summit(shard, knowns, n, C, best)
      BY <2>2, <2>3 DEF Summit
    <2> QED  BY <2>4
  <1> HIDE DEF R, serving, H
  <1> QED
    BY <1>2, <1>7 DEF BestOf, R, serving, H

\* A pick among shards offers one that leads, or nothing.
LEMMA PickFromShardsOK ==
    ASSUME NEW st, ShardsOK(st.shards, metas, now), CursorsAreNat(st.mixed), NEW q, NEW knowns,
           NEW n,
           Asked(knowns, n, q), NEW shard, AllOK(shard, knowns, n, q.model, now), NEW C
    PROVE  LET r == PickFromShards(st, q, shard, C)
           IN  /\ ShardsOK(r.shards, metas, now) /\ CursorsAreNat(r.mixed)
               /\ (\A i \in 0 .. n - 1 : ReadyOf(shard[i].entries) \cap C = {}) => r.auth = Nil
               /\ (\E i \in 0 .. n - 1 : ReadyOf(shard[i].entries) \cap C # {})
                     => \E e \in 0 .. n - 1 : Leading(r.auth, e, shard, knowns, n, C)
  <1> DEFINE r == PickFromShards(st, q, shard, C)
             best == BestOf(shard, C)
  <1>1. r = IF ServingOf(shard, C) = {} THEN PlacedAmong(st, q, shard, Nil, Quiet, Nil)
            ELSE PickAtBest(st, q, shard, best, Weights(shard, best), C)
    BY DEF PickFromShards, ServingOf, BestOf
  <1> HIDE DEF r, best
  <1>2. ASSUME ServingOf(shard, C) = {}
        PROVE  ShardsOK(r.shards, metas, now) /\ CursorsAreNat(r.mixed) /\ r.auth = Nil
    <2>1. r = PlacedAmong(st, q, shard, Nil, Quiet, Nil)
      BY <1>1, <1>2
    <2>2. n \in Nat \ {0} /\ Nil \notin 0 .. n - 1 /\ Quiet.auth = Nil
      BY NilIsNothing DEF AllOK, Quiet
    <2> QED  BY <2>1, <2>2, PlacedAmongOK
  <1>3. ASSUME ServingOf(shard, C) # {}
        PROVE  /\ ShardsOK(r.shards, metas, now) /\ CursorsAreNat(r.mixed)
               /\ \E e \in 0 .. n - 1 : Leading(r.auth, e, shard, knowns, n, C)
    <2>1. Summit(shard, knowns, n, C, best)
      BY <1>3, BestOfIsSummit DEF best
    <2>2. r = PickAtBest(st, q, shard, best, Weights(shard, best), C)
      BY <1>1, <1>3
    <2> QED  BY <2>1, <2>2, PickAtBestOK
  <1>4. ServingOf(shard, C) = {i \in 0 .. n - 1 : ReadyOf(shard[i].entries) \cap C # {}}
    BY BestOfIsSummit
  <1> QED
    BY <1>2, <1>3, <1>4 DEF r

\* The credentials of a provider that a query may be answered with.
Offerable(built, p, q) == ReadyOf(Shard(built, p, q.model).entries) \cap Allowed(q)

\* A pick among providers offers one of the best of all, or nothing.
LEMMA PickAmongOK ==
    ASSUME now \in Nat \ {0}, NEW st, ShardsOK(st.shards, metas, now), CursorsAreNat(st.mixed),
           NEW q,
           q.providers \in Seq(Providers), q.providers # <<>>
    PROVE  LET r == PickAmong(st, q)
               P == ToSet(q.providers)
           IN  /\ ShardsOK(r.shards, metas, now) /\ CursorsAreNat(r.mixed)
               /\ (\A p \in P : Offerable(st.shards, p, q) = {}) => r.auth = Nil
               /\ (\E p \in P : Offerable(st.shards, p, q) # {}) =>
                     \E p \in P : /\ r.auth \in Offerable(st.shards, p, q)
                                  /\ \A o \in P : \A b \in Offerable(st.shards, o, q) :
                                        metas[o][b].priority <= metas[p][r.auth].priority
  <1> DEFINE n == Len(q.providers)
             P == ToSet(q.providers)
             r == PickAmong(st, q)
             shard == [i \in 0 .. (n - 1) |-> Shard(st.shards, q.providers[i + 1], q.model)]
             knowns == [i \in 0 .. (n - 1) |-> metas[q.providers[i + 1]]]
             C == Allowed(q)
  <1>1. n \in Nat \ {0} /\ \A i \in 0 .. (n - 1) : q.providers[i + 1] \in Providers
    <2>1. n \in Nat /\ n # 0 /\ \A k \in 1 .. n : q.providers[k] \in Providers
      OBVIOUS
    <2>2. \A i \in 0 .. (n - 1) : i + 1 \in 1 .. n
      BY <2>1
    <2> QED  BY <2>1, <2>2
  <1>2. \A o : o \in P <=> \E i \in 0 .. (n - 1) : o = q.providers[i + 1]
    <2>1. \A k \in 1 .. n : k - 1 \in 0 .. (n - 1) /\ (k - 1) + 1 = k
      BY <1>1
    <2>2. \A i \in 0 .. (n - 1) : i + 1 \in 1 .. n
      BY <1>1
    <2>3. DOMAIN q.providers = 1 .. n
      OBVIOUS
    <2>4. P = {q.providers[k] : k \in 1 .. n}
      BY <2>3 DEF ToSet
    <2> HIDE DEF n, P
    <2> QED  BY <2>1, <2>2, <2>4
  <1>3. ASSUME NEW i \in 0 .. (n - 1)
        PROVE  IsKnown(knowns[i]) /\ ShardOK(shard[i], knowns[i], q.model, now)
    <2> DEFINE p == q.providers[i + 1]
    <2>1. p \in Providers
      BY <1>1
    <2>2. ProviderOK(metas[p], st.shards[p], now)
      BY <2>1 DEF ShardsOK
    <2> HIDE DEF p
    <2>3. ShardOK(Shard(st.shards, p, q.model), metas[p], q.model, now) /\ IsKnown(metas[p])
      BY <2>2, ShardIsOK DEF ProviderOK, IsTime
    <2> QED  BY <2>3 DEF p
  <1>4. AllOK(shard, knowns, n, q.model, now)
    <2>1. DOMAIN shard = 0 .. (n - 1)
      OBVIOUS
    <2> HIDE DEF n, shard, knowns
    <2> QED  BY <1>1, <1>3, <2>1 DEF AllOK
  <1>5. Asked(knowns, n, q)
    BY DEF Asked
  <1>6. r = PickFromShards(st, q, shard, C)
    BY DEF PickAmong
  <1>7. \A i \in 0 .. (n - 1) : /\ knowns[i] = metas[q.providers[i + 1]]
                                /\ ReadyOf(shard[i].entries) \cap C
                                     = Offerable(st.shards, q.providers[i + 1], q)
    BY DEF Offerable
  <1> HIDE DEF r, shard, knowns, C, P, n
  <1>8. /\ ShardsOK(r.shards, metas, now) /\ CursorsAreNat(r.mixed)
        /\ (\A i \in 0 .. n - 1 : ReadyOf(shard[i].entries) \cap C = {}) => r.auth = Nil
        /\ (\E i \in 0 .. n - 1 : ReadyOf(shard[i].entries) \cap C # {})
                     => \E e \in 0 .. n - 1 : Leading(r.auth, e, shard, knowns, n, C)
    BY <1>4, <1>5, <1>6, PickFromShardsOK
  <1>9. (\A p \in P : Offerable(st.shards, p, q) = {}) => r.auth = Nil
    BY <1>2, <1>7, <1>8
  <1>10. ASSUME \E p \in P : Offerable(st.shards, p, q) # {}
         PROVE  \E p \in P : /\ r.auth \in Offerable(st.shards, p, q)
                             /\ \A o \in P : \A b \in Offerable(st.shards, o, q) :
                                        metas[o][b].priority <= metas[p][r.auth].priority
    <2> PICK w \in P : Offerable(st.shards, w, q) # {}
      BY <1>10
    <2> PICK i \in 0 .. (n - 1) : w = q.providers[i + 1]
      BY <1>2
    <2>1. ReadyOf(shard[i].entries) \cap C # {}
      BY <1>7
    <2>2. PICK e \in 0 .. n - 1 : Leading(r.auth, e, shard, knowns, n, C)
      BY <1>8, <2>1
    <2> DEFINE p == q.providers[e + 1]
    <2>3. p \in P /\ r.auth \in Offerable(st.shards, p, q) /\ knowns[e] = metas[p]
      BY <1>2, <1>7, <2>2 DEF Leading
    <2>4. ASSUME NEW o \in P, NEW b \in Offerable(st.shards, o, q)
          PROVE  metas[o][b].priority <= metas[p][r.auth].priority
      <3>1. PICK j \in 0 .. (n - 1) : o = q.providers[j + 1]
        BY <1>2
      <3>2. b \in ReadyOf(shard[j].entries) \cap C /\ knowns[j] = metas[o]
        BY <1>7, <3>1
      <3>3. knowns[j][b].priority <= knowns[e][r.auth].priority
        BY <2>2, <3>2 DEF Leading
      <3> QED  BY <2>3, <3>2, <3>3
    <2> QED  BY <2>3, <2>4
  <1> QED
    BY <1>8, <1>9, <1>10 DEF r, P

\* A pick at one provider offers one of its foremost, or nothing.
LEMMA PickInOK ==
    ASSUME now \in Nat \ {0}, NEW st, ShardsOK(st.shards, metas, now), CursorsAreNat(st.mixed),
           NEW q,
           NEW p \in Providers
    PROVE  LET r == PickIn(st, p, q)
               R == Offerable(st.shards, p, q)
           IN  /\ ShardsOK(r.shards, metas, now) /\ CursorsAreNat(r.mixed)
               /\ R = {} => r.auth = Nil
               /\ R # {} => r.auth \in Foremost(R, metas[p], PrefersWebsocket(q))
  <1> DEFINE s == Shard(st.shards, p, q.model)
             R == ReadyOf(s.entries) \cap Allowed(q)
             pick == PickReady(s, q, Allowed(q))
             to == [st.shards EXCEPT ![p] = Assigned(st.shards[p], q.model, pick.shard)]
  <1>1. ProviderOK(metas[p], st.shards[p], now) /\ DOMAIN st.shards = Providers
    BY DEF ShardsOK
  <1>2. ShardOK(s, metas[p], q.model, now) /\ IsKnown(metas[p])
    BY <1>1, ShardIsOK DEF ProviderOK, IsTime
  <1>3. PickIn(st, p, q) = [auth |-> pick.auth, shards |-> to, mixed |-> st.mixed]
    BY DEF PickIn, Placed
  <1>4. R = Offerable(st.shards, p, q)
    BY DEF Offerable
  <1> HIDE DEF s
  <1>5. /\ ShardOK(pick.shard, metas[p], q.model, now)
        /\ R = {} => pick.auth = Nil
        /\ R # {} => pick.auth \in Foremost(R, metas[p], PrefersWebsocket(q))
    BY <1>2, PickReadyOK
  <1> HIDE DEF pick, R
  <1>6. ProviderOK(metas[p], Assigned(st.shards[p], q.model, pick.shard), now)
    BY <1>1, <1>5, AssignedShard
  <1>7. DOMAIN to = Providers /\ to[p] = Assigned(st.shards[p], q.model, pick.shard)
        /\ \A o \in Providers \ {p} : to[o] = st.shards[o]
    BY <1>1
  <1> HIDE DEF to
  <1>8. ShardsOK(to, metas, now)
    <2>1. ASSUME NEW o \in Providers PROVE ProviderOK(metas[o], to[o], now)
      <3>1. CASE o = p
        BY <1>6, <1>7, <3>1
      <3>2. CASE o # p
        BY <1>7, <3>2 DEF ShardsOK
      <3> QED  BY <3>1, <3>2
    <2> QED  BY <1>7, <2>1 DEF ShardsOK
  <1> QED
    BY <1>3, <1>4, <1>5, <1>8

-----------------------------------------------------------------------------
(* The invariant of the scheduler. *)

\* A credential is known at the provider it is of, and nowhere else.
\* A credential is known at its home only, and there as one of that provider.
HomesAgree ==
    /\ DOMAIN home = Auths /\ home = [a \in Auths |-> home[a]]
    /\ DOMAIN metas = Providers
    /\ \A p \in Providers : DOMAIN metas[p] = {a \in Auths : home[a] = p}
    /\ \A p \in Providers : \A a \in DOMAIN metas[p] : metas[p][a].provider = p
    /\ \A a \in Auths : home[a] \in Providers \cup {Nil}

\* The inductive invariant: at every provider, each shard is of some verdicts on
\* what is known there, of now or of earlier.
SchedInv ==
    /\ now \in Nat \ {0}
    /\ HomesAgree
    /\ ShardsOK(shards, metas, now)
    /\ CursorsAreNat(mixed)

\* The invariant holds at first.
LEMMA SchedInit == Init => SchedInv
  <1> SUFFICES ASSUME Init PROVE SchedInv
    OBVIOUS
  <1>1. /\ \A p \in Providers : DOMAIN metas[p] = {} /\ DOMAIN shards[p] = {}
        /\ DOMAIN metas = Providers /\ DOMAIN shards = Providers
        /\ DOMAIN mixed = {} /\ now = 1 /\ home = [a \in Auths |-> Nil]
    BY DEF Init
  <1>2. HomesAgree
    BY <1>1, NilIsNothing DEF HomesAgree
  <1>3. ShardsOK(shards, metas, now)
    BY <1>1 DEF ShardsOK, ProviderOK, IsKnown
  <1> QED
    BY <1>1, <1>2, <1>3 DEF SchedInv, CursorsAreNat

\* A judgement stands as time goes on: promotion is for the next pick.
LEMMA JudgedLater ==
    ASSUME NEW t \in Nat, NEW entry, NEW avail, NEW m, Judged(entry, avail, m, t)
    PROVE  Judged(entry, avail, m, t + 1)
  <1>1. 1 .. t \subseteq 1 .. t + 1
    OBVIOUS
  <1> QED
    BY <1>1 DEF Judged

\* The shards agree as time goes on.
LEMMA ShardsAge ==
    ASSUME NEW t \in Nat, NEW built, NEW known, ShardsOK(built, known, t)
    PROVE  ShardsOK(built, known, t + 1)
  <1>1. ASSUME NEW k, NEW m, NEW s, ShardOK(s, k, m, t) PROVE ShardOK(s, k, m, t + 1)
    <2>1. EntriesOK(s.entries, k, m, t + 1)
      BY <1>1, JudgedLater DEF ShardOK, EntriesOK
    <2> QED  BY <1>1, <2>1 DEF ShardOK
  <1> QED
    BY <1>1 DEF ShardsOK, ProviderOK

\* Time passes.
LEMMA TickKeeps ==
    ASSUME SchedInv, Tick
    PROVE  SchedInv'
  <1>1. UNCHANGED <<home, metas, shards, mixed>> /\ now' = now + 1 /\ now \in Nat
    BY DEF Tick, SchedInv
  <1>2. HomesAgree'
    BY <1>1 DEF SchedInv, HomesAgree
  <1>3. ShardsOK(shards, metas, now + 1)
    BY <1>1, ShardsAge DEF SchedInv
  <1>4. ShardsOK(shards, metas, now)' /\ CursorsAreNat(mixed)'
    BY <1>1, <1>3 DEF SchedInv
  <1> QED
    BY <1>1, <1>2, <1>4 DEF SchedInv

\* The strategy changes.
LEMMA SetSelectorKeeps ==
    ASSUME SchedInv, SetSelector
    PROVE  SchedInv'
  <1>1. UNCHANGED <<home, metas, shards, now>> /\ DOMAIN mixed' = {}
    BY DEF SetSelector
  <1>2. HomesAgree'
    BY <1>1 DEF SchedInv, HomesAgree
  <1> QED
    BY <1>1, <1>2 DEF SchedInv, CursorsAreNat

\* All is indexed anew (scheduler.go 200-213).
LEMMA RebuildKeeps ==
    ASSUME SchedInv, NEW snap \in Loads, Rebuild(snap)
    PROVE  SchedInv'
  <1> DEFINE Kept(p) == {a \in Auths : /\ snap[a] # Nil /\ snap[a].provider = p
                                       /\ ~snap[a].avail.disabled}
  <1>1. /\ metas' = [p \in Providers |-> [a \in Kept(p) |-> snap[a]]]
        /\ home' = [a \in Auths |-> IF \E p \in Providers : a \in Kept(p)
                                    THEN snap[a].provider ELSE Nil]
        /\ shards' = [p \in Providers |-> <<>>] /\ mixed' = <<>> /\ now' = now
    BY DEF Rebuild
  <1>2. \A a \in Auths : snap[a] # Nil => IsSnapshot(snap[a])
    BY SnapshotsAreTyped
  <1>3. ASSUME NEW p \in Providers
        PROVE  /\ DOMAIN metas'[p] = {a \in Auths : home'[a] = p}
               /\ \A a \in DOMAIN metas'[p] : metas'[p][a].provider = p
               /\ IsKnown(metas'[p])
    <2>1. DOMAIN metas'[p] = Kept(p) /\ \A a \in Kept(p) : metas'[p][a] = snap[a]
      BY <1>1
    <2>2. ASSUME NEW a \in Auths PROVE home'[a] = p <=> a \in Kept(p)
      <3>1. a \in Kept(p) => home'[a] = p
        BY <1>1
      <3>2. home'[a] = p => a \in Kept(p)
        BY <1>1, NilIsNothing
      <3> QED  BY <3>1, <3>2
    <2>3. Kept(p) \subseteq Auths /\ \A a \in Kept(p) : snap[a] # Nil /\ snap[a].provider = p
      OBVIOUS
    <2> HIDE DEF Kept
    <2>4. IsKnown(metas'[p])
      BY <1>2, <2>1, <2>3 DEF IsKnown
    <2> QED  BY <2>1, <2>2, <2>3, <2>4
  <1>4. \A a \in Auths : home'[a] \in Providers \cup {Nil}
    BY <1>1
  <1>5. /\ DOMAIN metas' = Providers /\ DOMAIN home' = Auths /\ home' = [a \in Auths |-> home'[a]]
        /\ DOMAIN shards' = Providers /\ \A p \in Providers : DOMAIN shards'[p] = {}
        /\ DOMAIN mixed' = {}
    BY <1>1
  <1> HIDE DEF Kept
  <1>6. HomesAgree'
    BY <1>3, <1>4, <1>5 DEF HomesAgree
  <1>7. ShardsOK(shards, metas, now)'
    BY <1>3, <1>5 DEF ShardsOK, ProviderOK
  <1> QED
    BY <1>1, <1>5, <1>6, <1>7 DEF SchedInv, CursorsAreNat

\* A credential is told of, moved or removed (scheduler.go 508-540).
LEMMA UpsertKeeps ==
    ASSUME SchedInv, NEW a \in Auths, NEW snap \in Snapshots[a], Upsert(a, snap)
    PROVE  SchedInv'
  <1> DEFINE gone == snap.avail.disabled
             here == snap.provider
             left == IF gone THEN {home[a]} ELSE {home[a]} \ {here}
             drop(p) == Dropped(metas[p], shards[p], a)
             put == Put(metas[here], shards[here], a, snap)
             after(p) == CASE p \in left -> drop(p)
                           [] p \notin left /\ p = here /\ ~gone -> put
                           [] OTHER -> [metas |-> metas[p], shards |-> shards[p]]
  <1>1. /\ home' = [home EXCEPT ![a] = IF gone THEN Nil ELSE here]
        /\ metas' = [p \in Providers |-> after(p).metas]
        /\ shards' = [p \in Providers |-> after(p).shards]
        /\ now' = now /\ mixed' = mixed
    BY DEF Upsert
  <1>2. IsSnapshot(snap) /\ here \in Providers /\ IsTime(now)
    BY SnapshotsAreTyped DEF IsSnapshot, SchedInv, IsTime
  <1>3. \A p \in Providers : ProviderOK(metas[p], shards[p], now)
    BY DEF SchedInv, ShardsOK
  <1>4. /\ DOMAIN home = Auths /\ \A x \in Auths : home[x] \in Providers \cup {Nil}
        /\ \A p \in Providers : DOMAIN metas[p] = {x \in Auths : home[x] = p}
        /\ \A p \in Providers : \A x \in DOMAIN metas[p] : metas[p][x].provider = p
    BY DEF SchedInv, HomesAgree
  <1>5. \A p \in Providers : /\ ProviderOK(drop(p).metas, drop(p).shards, now)
                             /\ DOMAIN drop(p).metas = DOMAIN metas[p] \ {a}
                             /\ \A b \in DOMAIN drop(p).metas : drop(p).metas[b] = metas[p][b]
    BY <1>2, <1>3, DroppedOK
  <1>6. ProviderOK(put.metas, put.shards, now) /\ put.metas = Assigned(metas[here], a, snap)
    BY <1>2, <1>3, PutOK
  <1>7. /\ DOMAIN put.metas = DOMAIN metas[here] \cup {a} /\ put.metas[a] = snap
        /\ \A b \in DOMAIN metas[here] \ {a} : put.metas[b] = metas[here][b]
    BY <1>6 DEF Assigned
  <1> HIDE DEF drop, put
  <1>8. ASSUME NEW p \in Providers
        PROVE  /\ ProviderOK(metas'[p], shards'[p], now)
               /\ DOMAIN metas'[p] = {x \in Auths : home'[x] = p}
               /\ \A x \in DOMAIN metas'[p] : metas'[p][x].provider = p
    <2>1. metas'[p] = after(p).metas /\ shards'[p] = after(p).shards
      BY <1>1
    <2>2. \A x \in Auths : home'[x] = IF x = a THEN (IF gone THEN Nil ELSE here) ELSE home[x]
      BY <1>1, <1>4
    <2>3. CASE p \in left
      <3>1. after(p) = drop(p)
        BY <2>3
      <3>2. p # Nil /\ (gone \/ p # here)
        BY <2>3, NilIsNothing
      <3> HIDE DEF after, left, gone, here
      <3>3. DOMAIN metas'[p] = {x \in Auths : home'[x] = p}
        BY <1>4, <1>5, <2>1, <2>2, <3>1, <3>2
      <3> QED  BY <1>4, <1>5, <2>1, <3>1, <3>3
    <2>4. CASE p \notin left /\ p = here /\ ~gone
      <3>1. after(p) = put
        BY <2>4
      <3>2. here = snap.provider
        OBVIOUS
      <3> HIDE DEF after, left, gone, here
      <3>3. DOMAIN metas'[p] = {x \in Auths : home'[x] = p}
        BY <1>4, <1>7, <2>1, <2>2, <2>4, <3>1
      <3>4. \A x \in DOMAIN metas'[p] : metas'[p][x].provider = p
        BY <1>4, <1>7, <2>1, <2>4, <3>1, <3>2
      <3> QED  BY <1>6, <2>1, <3>1, <3>3, <3>4
    <2>5. CASE p \notin left /\ ~(p = here /\ ~gone)
      <3>1. after(p) = [metas |-> metas[p], shards |-> shards[p]]
        BY <2>5
      <3>2. home[a] # p
        BY <2>5
      <3>3. p # Nil /\ (gone \/ p # here)
        BY <2>5, NilIsNothing
      <3> HIDE DEF after, left, gone, here
      <3>4. DOMAIN metas'[p] = {x \in Auths : home'[x] = p}
        BY <1>4, <2>1, <2>2, <3>1, <3>2, <3>3
      <3> QED  BY <1>3, <1>4, <2>1, <3>1, <3>4
    <2> QED  BY <2>3, <2>4, <2>5
  <1>9. /\ DOMAIN home' = Auths /\ home' = [x \in Auths |-> home'[x]]
        /\ \A x \in Auths : home'[x] \in Providers \cup {Nil}
    BY <1>1, <1>2, <1>4 DEF SchedInv, HomesAgree
  <1>10. DOMAIN metas' = Providers /\ DOMAIN shards' = Providers
    BY <1>1
  <1> HIDE DEF after, left, gone, here
  <1>11. HomesAgree'
    BY <1>8, <1>9, <1>10 DEF HomesAgree
  <1>12. ShardsOK(shards, metas, now)'
    BY <1>1, <1>8, <1>10 DEF ShardsOK
  <1> QED
    BY <1>1, <1>11, <1>12 DEF SchedInv

\* An answer to a query leaves the shards agreeing.
LEMMA ServedKeeps ==
    ASSUME SchedInv, NEW q \in Queries, NEW st, st = [shards |-> shards, mixed |-> mixed]
    PROVE  ShardsOK(Served(st, q).shards, metas, now) /\ CursorsAreNat(Served(st, q).mixed)
  <1>1. q.providers \in Seq(Providers) /\ q.providers # <<>> /\ Len(q.providers) \in Nat \ {0}
    <2>1. q.providers \in Seq(Providers) /\ q.providers # <<>>
      BY QueriesAreTyped
    <2> QED  BY <2>1
  <1>2. ShardsOK(st.shards, metas, now) /\ CursorsAreNat(st.mixed) /\ now \in Nat \ {0}
    BY DEF SchedInv
  <1>3. CASE Len(q.providers) = 1
    <2>1. Served(st, q) = PickIn(st, q.providers[1], q) /\ q.providers[1] \in Providers
      BY <1>1, <1>3 DEF Served
    <2> QED  BY <1>2, <2>1, PickInOK
  <1>4. CASE Len(q.providers) > 1 /\ q.pinned = Nil
    <2>1. Served(st, q) = PickAmong(st, q)
      BY <1>4 DEF Served
    <2> QED  BY <1>1, <1>2, <2>1, PickAmongOK
  <1>5. CASE Len(q.providers) > 1 /\ q.pinned # Nil
    <2> DEFINE p == home[q.pinned]
    <2>1. Served(st, q) = IF p \in ToSet(q.providers) THEN PickIn(st, p, q)
                          ELSE [auth |-> Nil, shards |-> st.shards, mixed |-> st.mixed]
      BY <1>5 DEF Served
    <2>2. ToSet(q.providers) \subseteq Providers
      BY <1>1 DEF ToSet
    <2> HIDE DEF p
    <2>3. CASE p \in ToSet(q.providers)
      BY <1>2, <2>1, <2>2, <2>3, PickInOK
    <2>4. CASE p \notin ToSet(q.providers)
      BY <1>2, <2>1, <2>4
    <2> QED  BY <2>3, <2>4
  <1>6. Len(q.providers) = 1 \/ Len(q.providers) > 1
    <2> DEFINE n == Len(q.providers)
    <2>1. n \in Nat \ {0}
      BY <1>1
    <2> HIDE DEF n
    <2>2. n = 1 \/ n > 1
      BY <2>1
    <2> QED  BY <2>2 DEF n
  <1> QED
    BY <1>3, <1>4, <1>5, <1>6

\* A query is answered.
LEMMA PickKeeps ==
    ASSUME SchedInv, NEW q \in Queries, Pick(q)
    PROVE  SchedInv'
  <1> DEFINE st == [shards |-> shards, mixed |-> mixed]
  <1>1. shards' = Served(st, q).shards /\ mixed' = Served(st, q).mixed
        /\ UNCHANGED <<home, metas, strategy, now>>
    BY DEF Pick
  <1>2. ShardsOK(Served(st, q).shards, metas, now) /\ CursorsAreNat(Served(st, q).mixed)
    BY ServedKeeps
  <1> HIDE DEF st
  <1>3. HomesAgree'
    BY <1>1 DEF SchedInv, HomesAgree
  <1>4. ShardsOK(shards, metas, now)' /\ CursorsAreNat(mixed)'
    BY <1>1, <1>2
  <1> QED
    BY <1>1, <1>3, <1>4 DEF SchedInv

\* Every step keeps the invariant.
LEMMA SchedStep == SchedInv /\ [Next]_vars => SchedInv'
  <1> SUFFICES ASSUME SchedInv, [Next]_vars PROVE SchedInv'
    OBVIOUS
  <1>1. CASE \E a \in Auths : \E snap \in Snapshots[a] : Upsert(a, snap)
    BY <1>1, UpsertKeeps
  <1>2. CASE \E snap \in Loads : Rebuild(snap)
    BY <1>2, RebuildKeeps
  <1>3. CASE SetSelector
    BY <1>3, SetSelectorKeeps
  <1>4. CASE \E q \in Queries : Pick(q)
    BY <1>4, PickKeeps
  <1>5. CASE Tick
    BY <1>5, TickKeeps
  <1>6. CASE UNCHANGED vars
    <2>1. UNCHANGED <<home, metas, shards, mixed, now>>
      BY <1>6 DEF vars
    <2>2. HomesAgree'
      BY <2>1 DEF SchedInv, HomesAgree
    <2> QED  BY <2>1, <2>2 DEF SchedInv
  <1> QED
    BY <1>1, <1>2, <1>3, <1>4, <1>5, <1>6 DEF Next

\* The invariant of the scheduler: maps, shards and buckets agree, the entries are
\* judged right, and the cursors are positions (scheduler.go 200-1060).
THEOREM Invariant == Spec => []SchedInv
  <1>1. SchedInv /\ [Next]_vars => SchedInv'
    BY SchedStep
  <1> QED
    BY SchedInit, <1>1, PTL DEF Spec

\* What a bucket that agrees lists, in the words of IndexesAgree.
LEMMA BucketAgrees ==
    ASSUME NEW known, IsKnown(known), NEW S \in SUBSET DOMAIN known, NEW b, BucketOK(b, S, known)
    PROVE  /\ b.all.flat = InOrder(S)
           /\ b.ws.flat = InOrder(WsOf(S, known))
           /\ b.all.parents # <<>> =>
                 b.all.children = [g \in ParentsOf(S, known) |->
                                     [flat |-> InOrder(KidsOf(S, known, g)),
                                      cursor |-> b.all.children[g].cursor]]
  <1> DEFINE w == View(S, known)
  <1>1. WsOf(S, known) \in SUBSET DOMAIN known
    BY DEF WsOf
  <1>2. b.all.flat = InOrder(S) /\ b.ws.flat = InOrder(WsOf(S, known))
    BY <1>1, TurnedHas DEF BucketOK
  <1>3. PICK c, pc \in Nat, cc \in [DOMAIN w.children -> Nat] : b.all = Turned(w, c, pc, cc)
    BY DEF BucketOK, IsTurned
  <1>4. /\ DOMAIN w.children = ToSet(w.parents)
        /\ w.parents # <<>> => ToSet(w.parents) = ParentsOf(S, known)
        /\ \A g \in ToSet(w.parents) : w.children[g].flat = InOrder(KidsOf(S, known, g))
    BY ViewHas, ViewKids
  <1> HIDE DEF w
  <1>5. b.all.parents = w.parents
        /\ b.all.children = [g \in DOMAIN w.children |-> [flat |-> w.children[g].flat, cursor |-> cc[g]]]
    BY <1>3 DEF Turned
  <1>6. \A g \in DOMAIN w.children : b.all.children[g].cursor = cc[g]
    <2> SUFFICES ASSUME NEW g \in DOMAIN w.children PROVE b.all.children[g].cursor = cc[g]
      OBVIOUS
    <2>1. b.all.children[g] = [flat |-> w.children[g].flat, cursor |-> cc[g]]
      BY <1>5
    <2> QED  BY <2>1
  <1>7. ASSUME b.all.parents # <<>>
        PROVE  b.all.children = [g \in ParentsOf(S, known) |->
                                     [flat |-> InOrder(KidsOf(S, known, g)),
                                      cursor |-> b.all.children[g].cursor]]
    <2>1. DOMAIN w.children = ParentsOf(S, known)
      BY <1>4, <1>5, <1>7
    <2>2. \A g \in ParentsOf(S, known) : /\ w.children[g].flat = InOrder(KidsOf(S, known, g))
                                         /\ cc[g] = b.all.children[g].cursor
      BY <1>4, <1>6, <2>1
    <2>3. b.all.children = [g \in ParentsOf(S, known) |-> [flat |-> w.children[g].flat, cursor |-> cc[g]]]
      BY <1>5, <2>1
    <2> QED  BY <2>2, <2>3
  <1> QED
    BY <1>2, <1>7

\* The maps, the shards and the buckets of the scheduler tell one story
\* (scheduler.go 521-830), whatever is upserted, rebuilt and picked.
THEOREM IndexesAlwaysAgree == Spec => []IndexesAgree
  <1>1. SchedInv => IndexesAgree
    <2> SUFFICES ASSUME SchedInv, NEW p \in Providers
                 PROVE  /\ DOMAIN metas[p] = {a \in Auths : home[a] = p}
                        /\ \A m \in DOMAIN shards[p] :
                           LET s     == shards[p][m]
                               ready == {a \in DOMAIN s.entries : s.entries[a].state = "ready"}
                           IN  /\ DOMAIN s.entries = {a \in DOMAIN metas[p] : m \in metas[p][a].models}
                               /\ s.blocked = Queued(s.entries)
                               /\ DOMAIN s.ready = {metas[p][a].priority : a \in ready}
                               /\ \A n \in DOMAIN s.ready :
                                     LET S == ReadyAt(s.entries, metas[p], n) IN
                                     /\ s.ready[n].all.flat = InOrder(S)
                                     /\ s.ready[n].ws.flat = InOrder({a \in S : metas[p][a].ws})
                                     /\ s.ready[n].all.parents # <<>> =>
                                           s.ready[n].all.children =
                                           [g \in {metas[p][a].parent : a \in S} |->
                                              [flat |-> InOrder({a \in S : metas[p][a].parent = g}),
                                               cursor |-> s.ready[n].all.children[g].cursor]]
      BY DEF IndexesAgree
    <2>1. DOMAIN metas[p] = {a \in Auths : home[a] = p}
      BY DEF SchedInv, HomesAgree
    <2>2. ASSUME NEW m \in DOMAIN shards[p]
          PROVE  LET s == shards[p][m] IN
                  /\ DOMAIN s.entries = {a \in DOMAIN metas[p] : m \in metas[p][a].models}
                  /\ s.blocked = Queued(s.entries)
                  /\ DOMAIN s.ready = Levels(s.entries, metas[p])
                  /\ \A n \in DOMAIN s.ready :
                        LET S == ReadyAt(s.entries, metas[p], n) IN
                        /\ s.ready[n].all.flat = InOrder(S)
                        /\ s.ready[n].ws.flat = InOrder(WsOf(S, metas[p]))
                        /\ s.ready[n].all.parents # <<>> =>
                              s.ready[n].all.children =
                              [g \in ParentsOf(S, metas[p]) |->
                                 [flat |-> InOrder(KidsOf(S, metas[p], g)),
                                  cursor |-> s.ready[n].all.children[g].cursor]]
      <3> DEFINE s == shards[p][m]
                 known == metas[p]
      <3>1. IsKnown(known) /\ ShardOK(s, known, m, now)
        BY DEF SchedInv, ShardsOK, ProviderOK
      <3> HIDE DEF s, known
      <3>2. /\ DOMAIN s.entries = {a \in DOMAIN known : m \in known[a].models}
            /\ DOMAIN s.ready = Levels(s.entries, known)
        BY <3>1 DEF ShardOK, EntriesOK, ReadyOK
      <3>3. s.blocked = Queued(s.entries)
        BY <3>1 DEF ShardOK
      <3>4. ASSUME NEW n \in DOMAIN s.ready
            PROVE  LET S == ReadyAt(s.entries, known, n) IN
                        /\ s.ready[n].all.flat = InOrder(S)
                        /\ s.ready[n].ws.flat = InOrder(WsOf(S, known))
                        /\ s.ready[n].all.parents # <<>> =>
                              s.ready[n].all.children =
                              [g \in ParentsOf(S, known) |->
                                 [flat |-> InOrder(KidsOf(S, known, g)),
                                  cursor |-> s.ready[n].all.children[g].cursor]]
        <4> DEFINE S == ReadyAt(s.entries, known, n)
                   b == s.ready[n]
        <4>1. S \in SUBSET DOMAIN known /\ BucketOK(b, S, known)
          BY <3>1, <3>2, ReadyAtKnown DEF ShardOK, ReadyOK
        <4> HIDE DEF S, b
        <4>2. /\ b.all.flat = InOrder(S)
              /\ b.ws.flat = InOrder(WsOf(S, known))
              /\ b.all.parents # <<>> =>
                 b.all.children = [g \in ParentsOf(S, known) |->
                                     [flat |-> InOrder(KidsOf(S, known, g)),
                                      cursor |-> b.all.children[g].cursor]]
          BY <3>1, <4>1, BucketAgrees
        <4> QED  BY <4>2 DEF S, b
      <3> QED  BY <3>2, <3>3, <3>4 DEF s, known
    <2> QED  BY <2>1, <2>2 DEF Levels, ReadyOf, WsOf, ParentsOf, KidsOf
  <1> QED
    BY Invariant, <1>1, PTL

-----------------------------------------------------------------------------
(* What an entry of earlier says of now. *)

\* An entry that waits to be judged again, and one whose time has come.
Held(entry) == entry.state \in {"cooldown", "blocked"}
Waiting(entry, t) == Held(entry) /\ entry.next > t
Queueing(entry, t) == Held(entry) /\ entry.next # 0 /\ entry.next <= t

\* A hold that lasts held before; the time noted of one is ahead, and outlasts it
\* only for a quota.
LEMMA HoldLasts ==
    ASSUME NEW w, HasTimes(w), NEW t \in Nat, NEW u \in 1 .. t
    PROVE  /\ Holds(w, t) => Holds(w, u)
           /\ Holds(w, u) => /\ Held(HeldBy(w, u))
                             /\ HeldBy(w, u).next \in Nat /\ HeldBy(w, u).next > u
                             /\ HeldBy(w, u).next > t =>
                                   Holds(w, t) \/ (w.unavailable /\ w.recoverAt > t)
  <1>1. u \in Nat /\ 1 <= u /\ u <= t /\ w.retryAt \in Nat /\ w.recoverAt \in Nat
    BY DEF HasTimes
  <1>2. Holds(w, t) => Holds(w, u)
    BY <1>1 DEF Holds
  <1>3. Held(HeldBy(w, u)) /\ HeldBy(w, u).next = EndsAt(w, u)
    BY DEF HeldBy, Held
  <1>4. Holds(w, u) => /\ EndsAt(w, u) \in Nat /\ EndsAt(w, u) > u
                       /\ EndsAt(w, u) > t => Holds(w, t) \/ (w.unavailable /\ w.recoverAt > t)
    BY <1>1 DEF Holds, EndsAt
  <1> QED
    BY <1>2, <1>3, <1>4

\* Ready stays ready; one that may be called and is not ready waits for a quota.
StillTells(entry, avail, m, t) ==
    /\ entry.state = "ready" => Callable(avail, m, t)
    /\ Callable(avail, m, t) => entry.state = "ready" \/ Held(entry)
    /\ Held(entry) => entry.next \in Nat \ {0}
    /\ Callable(avail, m, t) /\ Waiting(entry, t) => Pool!QuotaAhead(avail, m, t)

\* The times of a credential and of its models.
Timed(avail) == HasTimes(avail) /\ \A m \in DOMAIN avail.states : HasTimes(avail.states[m])

\* What an entry judged at some time says of a later one.
LEMMA JudgedTells ==
    ASSUME NEW avail, Timed(avail), NEW m, NEW t \in Nat \ {0}, NEW entry,
           Judged(entry, avail, m, t)
    PROVE  StillTells(entry, avail, m, t)
  <1>1. PICK u \in 1 .. t : entry = Verdict(avail, m, u)
    BY DEF Judged
  <1> DEFINE own == m \in DOMAIN avail.states
             w == avail.states[m]
             Tells(v) == /\ Holds(v, t) => Holds(v, u)
                         /\ Holds(v, u) => /\ Held(HeldBy(v, u))
                                           /\ HeldBy(v, u).next \in Nat \ {0}
                                           /\ HeldBy(v, u).next > t =>
                                                 Holds(v, t) \/ (v.unavailable /\ v.recoverAt > t)
  <1>2. \A v : HasTimes(v) => Tells(v)
    <2> SUFFICES ASSUME NEW v, HasTimes(v) PROVE Tells(v)
      OBVIOUS
    <2>1. u \in Nat /\ u > 0 /\ t \in Nat
      OBVIOUS
    <2> QED  BY <2>1, HoldLasts
  <1>3. Tells(avail) /\ (own => Tells(w))
    BY <1>2 DEF Timed
  <1>4. \A x \in 1 .. t :
           Verdict(avail, m, x) =
              IF avail.disabled THEN [state |-> "disabled", next |-> 0]
              ELSE IF Holds(avail, x) THEN HeldBy(avail, x)
              ELSE IF own /\ Holds(w, x) THEN HeldBy(w, x)
              ELSE [state |-> "ready", next |-> 0]
    BY DEF Verdict
  <1>5. \A v, x : HeldBy(v, x).state # "ready"
    BY DEF HeldBy
  <1>6. t \in 1 .. t
    OBVIOUS
  <1>7. /\ avail.unavailable /\ avail.recoverAt > t => Pool!QuotaAhead(avail, m, t)
        /\ own /\ w.unavailable /\ w.recoverAt > t => Pool!QuotaAhead(avail, m, t)
    BY DEF Pool!QuotaAhead
  <1> HIDE DEF own, w
  <1>8. Callable(avail, m, t) <=> ~avail.disabled /\ ~Holds(avail, t) /\ ~(own /\ Holds(w, t))
    BY <1>4, <1>5, <1>6 DEF Callable
  <1>9. CASE avail.disabled
    <2>1. entry = [state |-> "disabled", next |-> 0]
      BY <1>1, <1>4, <1>9
    <2> QED  BY <1>8, <1>9, <2>1 DEF StillTells, Held, Waiting
  <1>10. CASE ~avail.disabled /\ Holds(avail, u)
    <2>1. entry = HeldBy(avail, u)
      BY <1>1, <1>4, <1>10
    <2> QED  BY <1>3, <1>5, <1>7, <1>8, <1>10, <2>1 DEF StillTells, Waiting
  <1>11. CASE ~avail.disabled /\ ~Holds(avail, u) /\ own /\ Holds(w, u)
    <2>1. entry = HeldBy(w, u)
      BY <1>1, <1>4, <1>11
    <2> QED  BY <1>3, <1>5, <1>7, <1>8, <1>11, <2>1 DEF StillTells, Waiting
  <1>12. CASE ~avail.disabled /\ ~Holds(avail, u) /\ ~(own /\ Holds(w, u))
    <2>1. entry = [state |-> "ready", next |-> 0]
      BY <1>1, <1>4, <1>12
    <2> QED  BY <1>3, <1>8, <1>12, <2>1 DEF StillTells, Held, Waiting
  <1> QED
    BY <1>9, <1>10, <1>11, <1>12

\* A verdict of now is ready exactly if the credential may be called.
LEMMA VerdictTells ==
    ASSUME NEW avail, Timed(avail), NEW m, NEW t \in Nat \ {0}
    PROVE  /\ ~Queueing(Verdict(avail, m, t), t)
           /\ Waiting(Verdict(avail, m, t), t) => ~Callable(avail, m, t)
  <1>1. \A w : HasTimes(w) /\ Holds(w, t) => ~(EndsAt(w, t) <= t)
    BY DEF HasTimes, Holds, EndsAt
  <1>2. HasTimes(avail) /\ \A x \in DOMAIN avail.states : HasTimes(avail.states[x])
    BY DEF Timed
  <1>3. ~Queueing(Verdict(avail, m, t), t)
    BY <1>1, <1>2 DEF Verdict, HeldBy, Queueing
  <1> QED
    BY <1>3 DEF Callable, Waiting, Held

\* An entry of a shard that is asked for was there and is not due, or is judged
\* now and was not waiting.
IsAsked(entry, built, p, m, a) ==
    \/ /\ m \in DOMAIN built[p] /\ a \in DOMAIN built[p][m].entries
       /\ entry = built[p][m].entries[a] /\ ~Queueing(entry, now)
    \/ /\ entry = Verdict(metas[p][a].avail, m, now)
       /\ ~(/\ m \in DOMAIN built[p] /\ a \in DOMAIN built[p][m].entries
            /\ Waiting(built[p][m].entries[a], now))

\* Every one is one or the other.
LEMMA EntryIsAsked ==
    ASSUME now \in Nat \ {0}, NEW built, NEW p, NEW m, ProviderOK(metas[p], built[p], now),
           NEW a \in DOMAIN Shard(built, p, m).entries
    PROVE  IsAsked(Shard(built, p, m).entries[a], built, p, m, a)
  <1> DEFINE known == metas[p]
  <1>1. Shard(built, p, m) = IF m \in DOMAIN built[p] THEN Promoted(built[p][m], m, known)
                             ELSE Indexed(NoShard, NewEntries(known, m), known)
    BY DEF Shard, NewEntries
  <1>2. \A s, es : Indexed(s, es, known).entries = es
    BY DEF Indexed
  <1>3. CASE m \notin DOMAIN built[p]
    <2>1. Shard(built, p, m).entries = NewEntries(known, m)
      BY <1>1, <1>2, <1>3
    <2> QED  BY <1>3, <2>1 DEF NewEntries, IsAsked
  <1>4. CASE m \in DOMAIN built[p]
    <2> DEFINE s == built[p][m]
    <2>1. s.blocked = Queued(s.entries)
          /\ \A b \in DOMAIN s.entries : Held(s.entries[b]) => s.entries[b].next \in Nat \ {0}
      <3>1. ShardOK(s, known, m, now) /\ IsKnown(known)
        BY <1>4 DEF ProviderOK
      <3> HIDE DEF s, known
      <3>2. ASSUME NEW b \in DOMAIN s.entries
            PROVE  Held(s.entries[b]) => s.entries[b].next \in Nat \ {0}
        <4>1. Judged(s.entries[b], known[b].avail, m, now) /\ b \in DOMAIN known
          BY <3>1 DEF ShardOK, EntriesOK
        <4>2. Timed(known[b].avail)
          BY <3>1, <4>1 DEF IsKnown, IsSnapshot, Timed
        <4> QED  BY <4>1, <4>2, JudgedTells DEF StillTells
      <3> QED  BY <3>1, <3>2 DEF ShardOK
    <2>2. Promoted(s, m, known) =
             IF Due(s) = {} THEN s ELSE Indexed(s, Anew(s, m, known), known)
      BY DEF Promoted, Due, Anew
    <2>3. \A b \in DOMAIN s.entries : /\ Queueing(s.entries[b], now) <=> b \in Due(s)
                                      /\ Queueing(s.entries[b], now) => ~Waiting(s.entries[b], now)
      BY <2>1 DEF Queueing, Waiting, Held, Due, Queued
    <2>4. Shard(built, p, m) = Promoted(s, m, known)
      BY <1>1, <1>4
    <2> HIDE DEF s, known
    <2>5. CASE Due(s) = {}
      <3>1. Shard(built, p, m).entries[a] = s.entries[a] /\ a \in DOMAIN s.entries
            /\ ~Queueing(s.entries[a], now)
        BY <2>2, <2>3, <2>4, <2>5
      <3> QED  BY <1>4, <3>1 DEF IsAsked, s
    <2>6. CASE Due(s) # {}
      <3>1. Shard(built, p, m).entries = Anew(s, m, known)
        BY <1>2, <2>2, <2>4, <2>6
      <3>2. a \in DOMAIN s.entries
        BY <3>1 DEF Anew
      <3>3. Anew(s, m, known)[a] =
               IF a \in Due(s) THEN Verdict(known[a].avail, m, now) ELSE s.entries[a]
        BY <3>2 DEF Anew
      <3>4. \/ /\ Shard(built, p, m).entries[a] = s.entries[a] /\ ~Queueing(s.entries[a], now)
            \/ /\ Shard(built, p, m).entries[a] = Verdict(known[a].avail, m, now)
               /\ ~Waiting(s.entries[a], now)
        BY <2>3, <3>1, <3>2, <3>3
      <3> QED  BY <1>4, <3>2, <3>4 DEF IsAsked, s, known
    <2> QED  BY <2>5, <2>6
  <1> QED
    BY <1>3, <1>4

\* The entries of a shard that is asked for are not due.
LEMMA NoneIsDue ==
    ASSUME now \in Nat \ {0}, NEW built, NEW p, NEW m, ProviderOK(metas[p], built[p], now),
           NEW a \in DOMAIN Shard(built, p, m).entries
    PROVE  ~Queueing(Shard(built, p, m).entries[a], now)
  <1> DEFINE entry == Shard(built, p, m).entries[a]
  <1>1. IsAsked(entry, built, p, m, a)
    BY EntryIsAsked
  <1>2. Timed(metas[p][a].avail)
    <2>1. ShardOK(Shard(built, p, m), metas[p], m, now) /\ IsKnown(metas[p])
      BY ShardIsOK DEF ProviderOK, IsTime
    <2>2. a \in DOMAIN metas[p]
      BY <2>1 DEF ShardOK, EntriesOK
    <2> QED  BY <2>1, <2>2 DEF IsKnown, IsSnapshot, Timed
  <1> HIDE DEF entry
  <1>3. ~Queueing(entry, now)
    BY <1>1, <1>2, VerdictTells DEF IsAsked
  <1> QED
    BY <1>3 DEF entry

-----------------------------------------------------------------------------
(* What the scheduler adds up to. *)

\* What the pool knows of a credential is what its provider was told of it.
LEMMA KnownIs ==
    ASSUME SchedInv
    PROVE  /\ \A a \in Auths : home[a] = Nil => Known[a] = Nil
           /\ \A p \in Providers : \A a \in DOMAIN metas[p] :
                 /\ a \in Auths /\ Known[a] = metas[p][a] /\ Known[a] # Nil
                 /\ home[a] = p /\ Known[a].provider = p
           /\ \A a \in Auths : Known[a] # Nil => home[a] \in Providers /\ a \in DOMAIN metas[home[a]]
           /\ DOMAIN Known = Auths /\ Known = [a \in Auths |-> Known[a]]
  <1>1. /\ \A a \in Auths : home[a] \in Providers \cup {Nil}
        /\ \A p \in Providers : DOMAIN metas[p] = {a \in Auths : home[a] = p}
        /\ \A p \in Providers : \A a \in DOMAIN metas[p] : metas[p][a].provider = p
    BY DEF SchedInv, HomesAgree
  <1>2. \A p \in Providers : \A a \in DOMAIN metas[p] : metas[p][a] # Nil
    BY DEF SchedInv, ShardsOK, ProviderOK, IsKnown, IsSnapshot
  <1>3. \A a \in Auths : Known[a] = IF home[a] = Nil THEN Nil ELSE metas[home[a]][a]
    BY DEF Known
  <1>4. DOMAIN Known = Auths /\ Known = [a \in Auths |-> Known[a]]
    BY DEF Known
  <1> QED
    BY <1>1, <1>2, <1>3, <1>4, NilIsNothing

\* A credential is withheld for the models whose shard has it waiting.
WithheldAgrees ==
    \A a \in Auths :
        /\ home[a] = Nil => Withheld[a] = {}
        /\ home[a] # Nil =>
              /\ home[a] \in Providers /\ a \in DOMAIN metas[home[a]]
              /\ \A m : m \in Withheld[a] <=>
                    /\ m \in DOMAIN shards[home[a]]
                    /\ a \in DOMAIN shards[home[a]][m].entries
                    /\ Waiting(shards[home[a]][m].entries[a], now)

\* The invariant says so of every state.
LEMMA WithheldIs == SchedInv => WithheldAgrees
  <1> SUFFICES ASSUME SchedInv, NEW a \in Auths
               PROVE  /\ home[a] = Nil => Withheld[a] = {}
                      /\ home[a] # Nil =>
                            /\ home[a] \in Providers /\ a \in DOMAIN metas[home[a]]
                            /\ \A m : m \in Withheld[a] <=>
                                  /\ m \in DOMAIN shards[home[a]]
                                  /\ a \in DOMAIN shards[home[a]][m].entries
                                  /\ Waiting(shards[home[a]][m].entries[a], now)
    BY DEF WithheldAgrees
  <1> DEFINE p == home[a]
  <1>1. Withheld[a] = {m \in (IF p = Nil THEN {} ELSE DOMAIN shards[p]) :
                          a \in shards[p][m].blocked /\ shards[p][m].entries[a].next > now}
    BY DEF Withheld
  <1>2. p # Nil => p \in Providers /\ a \in DOMAIN metas[p]
    BY DEF SchedInv, HomesAgree
  <1> HIDE DEF p
  <1>3. ASSUME p # Nil, NEW m \in DOMAIN shards[p]
        PROVE  shards[p][m].blocked = Queued(shards[p][m].entries)
    <2> DEFINE s == shards[p][m]
    <2>1. ShardOK(s, metas[p], m, now)
      BY <1>2, <1>3 DEF SchedInv, ShardsOK, ProviderOK
    <2> HIDE DEF s
    <2>2. s.blocked = Queued(s.entries)
      BY <2>1 DEF ShardOK
    <2> QED  BY <2>2 DEF s
  <1>4. ASSUME p # Nil, NEW m
        PROVE  m \in Withheld[a] <=>
                  /\ m \in DOMAIN shards[p]
                  /\ a \in DOMAIN shards[p][m].entries
                  /\ Waiting(shards[p][m].entries[a], now)
    BY <1>1, <1>3, <1>4 DEF Queued, Waiting, Held
  <1> QED
    BY <1>1, <1>2, <1>4 DEF p

\* The ready of a shard that is asked for are those that may be called now and
\* are not withheld.
LEMMA ShardReady ==
    ASSUME SchedInv, NEW p \in Providers, NEW m
    PROVE  ReadyOf(Shard(shards, p, m).entries)
              = {a \in DOMAIN metas[p] : /\ m \in metas[p][a].models
                                         /\ Callable(metas[p][a].avail, m, now)
                                         /\ m \notin Withheld[a]}
  <1> DEFINE E == Shard(shards, p, m).entries
  <1>1. now \in Nat \ {0} /\ ProviderOK(metas[p], shards[p], now)
    BY DEF SchedInv, ShardsOK
  <1>2. EntriesOK(E, metas[p], m, now) /\ IsKnown(metas[p])
    BY <1>1, ShardIsOK DEF ShardOK, IsTime, ProviderOK
  <1>3. DOMAIN E = {a \in DOMAIN metas[p] : m \in metas[p][a].models}
    BY <1>2 DEF EntriesOK
  <1>4. ASSUME NEW a \in DOMAIN E
        PROVE  E[a].state = "ready" <=> Callable(metas[p][a].avail, m, now) /\ m \notin Withheld[a]
    <2> DEFINE avail == metas[p][a].avail
               was == shards[p][m].entries[a]
               there == m \in DOMAIN shards[p] /\ a \in DOMAIN shards[p][m].entries
    <2>1. Judged(E[a], avail, m, now) /\ Timed(avail)
      BY <1>2, <1>3 DEF EntriesOK, IsKnown, IsSnapshot, Timed
    <2>2. IsAsked(E[a], shards, p, m, a) /\ ~Queueing(E[a], now)
      BY <1>1, EntryIsAsked, NoneIsDue
    <2>3. m \in Withheld[a] <=> there /\ Waiting(was, now)
      <3>1. a \in Auths /\ home[a] = p /\ p # Nil
        BY <1>3, KnownIs, NilIsNothing
      <3>2. WithheldAgrees
        BY WithheldIs
      <3> QED  BY <3>1, <3>2 DEF WithheldAgrees
    <2>4. \/ there /\ E[a] = was /\ ~Queueing(E[a], now)
          \/ E[a] = Verdict(avail, m, now) /\ ~(there /\ Waiting(was, now))
      BY <2>2 DEF IsAsked
    <2> HIDE DEF E, avail, was, there
    <2>5. StillTells(E[a], avail, m, now)
      BY <1>1, <2>1, JudgedTells
    <2>6. CASE there /\ E[a] = was
      <3>1. Held(E[a]) => Queueing(E[a], now) \/ Waiting(E[a], now)
        BY <1>1, <2>5 DEF StillTells, Queueing, Waiting
      <3>2. E[a].state = "ready" => ~Waiting(E[a], now)
        BY DEF Waiting, Held
      <3>3. E[a].state = "ready" <=> Callable(avail, m, now) /\ m \notin Withheld[a]
        BY <2>2, <2>3, <2>5, <2>6, <3>1, <3>2 DEF StillTells
      <3> QED  BY <3>3 DEF avail
    <2>7. CASE E[a] = Verdict(avail, m, now) /\ ~(there /\ Waiting(was, now))
      <3>1. E[a].state = "ready" <=> Callable(avail, m, now) /\ m \notin Withheld[a]
        BY <2>3, <2>7 DEF Callable
      <3> QED  BY <3>1 DEF avail
    <2> QED  BY <2>4, <2>6, <2>7
  <1> HIDE DEF E
  <1>5. ReadyOf(E) =
           {a \in DOMAIN metas[p] : /\ m \in metas[p][a].models
                                    /\ Callable(metas[p][a].avail, m, now) /\ m \notin Withheld[a]}
    BY <1>3, <1>4 DEF ReadyOf
  <1> QED
    BY <1>5 DEF E

\* What may be offered is what the pool has free.
LEMMA OfferableIsFree ==
    ASSUME SchedInv, NEW p \in Providers, NEW q
    PROVE  Offerable(shards, p, q) =
              {a \in Auths : /\ Known[a] # Nil /\ Known[a].provider = p /\ q.model \in Known[a].models
                             /\ q.pinned \in {Nil, a} /\ a \notin q.tried
                             /\ Callable(Known[a].avail, q.model, now)
                             /\ q.model \notin Withheld[a]}
  <1>1. /\ \A a \in DOMAIN metas[p] : a \in Auths /\ Known[a] = metas[p][a] /\ Known[a] # Nil
                                                  /\ Known[a].provider = p
        /\ \A a \in Auths : Known[a] # Nil /\ Known[a].provider = p => a \in DOMAIN metas[p]
    BY KnownIs
  <1>2. ReadyOf(Shard(shards, p, q.model).entries)
          = {a \in DOMAIN metas[p] : /\ q.model \in metas[p][a].models
                                     /\ Callable(metas[p][a].avail, q.model, now)
                                     /\ q.model \notin Withheld[a]}
    BY ShardReady
  <1>3. Allowed(q) = {a \in Auths : q.pinned \in {Nil, a} /\ a \notin q.tried}
    BY DEF Allowed
  <1> QED
    BY <1>1, <1>2, <1>3 DEF Offerable

\* The selector and the scheduler judge alike.
LEMMA SameVerdicts ==
    ASSUME NEW avail, NEW m, NEW t
    PROVE  Pool!Callable(avail, m, t) <=> Callable(avail, m, t)
  <1>1. \A w : Pool!Holds(w, t) <=> Holds(w, t)
    BY DEF Pool!Holds, Holds
  <1>2. \A w : Pool!HeldBy(w, t) = HeldBy(w, t)
    BY DEF Pool!HeldBy, HeldBy, Pool!EndsAt, EndsAt
  <1>3. Pool!Verdict(avail, m, t) = Verdict(avail, m, t)
    BY <1>1, <1>2 DEF Pool!Verdict, Verdict
  <1> QED
    BY <1>3 DEF Pool!Callable, Callable

\* The pool's free credentials are those the shards can offer.
LEMMA FreeIs ==
    ASSUME SchedInv, NEW q \in Queries
    PROVE  /\ Pool!Free(q) = UNION {Offerable(shards, p, q) : p \in ToSet(q.providers)}
           /\ ToSet(q.providers) \subseteq Providers
           /\ \A p \in ToSet(q.providers) : \A a \in Offerable(shards, p, q) :
                 Known[a] = metas[p][a] /\ home[a] = p /\ a \in Auths
  <1>1. q.providers \in Seq(Providers)
    BY QueriesAreTyped
  <1>2. /\ ToSet(q.providers) \subseteq Providers
        /\ \A a : (\E i \in DOMAIN q.providers : q.providers[i] = a) <=> a \in ToSet(q.providers)
    BY <1>1 DEF ToSet
  <1>3. Pool!Free(q) = {a \in Auths : /\ Known[a] # Nil /\ Known[a].provider \in ToSet(q.providers)
                                      /\ q.model \in Known[a].models
                                      /\ q.pinned \in {Nil, a} /\ a \notin q.tried
                                      /\ Callable(Known[a].avail, q.model, now)
                                      /\ q.model \notin Withheld[a]}
    BY <1>2, SameVerdicts DEF Pool!Free, Pool!Eligible
  <1>4. \A p \in ToSet(q.providers) :
           Offerable(shards, p, q) =
              {a \in Auths : /\ Known[a] # Nil /\ Known[a].provider = p /\ q.model \in Known[a].models
                             /\ q.pinned \in {Nil, a} /\ a \notin q.tried
                             /\ Callable(Known[a].avail, q.model, now)
                             /\ q.model \notin Withheld[a]}
    BY <1>2, OfferableIsFree
  <1>5. \A p \in ToSet(q.providers) : \A a \in Offerable(shards, p, q) :
           a \in Auths /\ Known[a] # Nil /\ Known[a].provider = p
    BY <1>4
  <1>6. \A p \in ToSet(q.providers) : \A a \in Offerable(shards, p, q) :
                 Known[a] = metas[p][a] /\ home[a] = p /\ a \in Auths
    <2> SUFFICES ASSUME NEW p \in ToSet(q.providers), NEW a \in Offerable(shards, p, q)
                 PROVE  Known[a] = metas[p][a] /\ home[a] = p /\ a \in Auths
      OBVIOUS
    <2>1. home[a] \in Providers /\ a \in DOMAIN metas[home[a]]
      BY <1>5, KnownIs
    <2>2. Known[a] = metas[home[a]][a] /\ Known[a].provider = home[a]
      BY <2>1, KnownIs
    <2> QED  BY <1>5, <2>1, <2>2
  <1>7. Pool!Free(q) = UNION {Offerable(shards, p, q) : p \in ToSet(q.providers)}
    BY <1>3, <1>4
  <1> QED
    BY <1>2, <1>6, <1>7

\* What it is to be among the best, without the choice of a maximum.
LEMMA BestIs ==
    ASSUME NEW q
    PROVE  /\ Pool!Best(q) \subseteq Pool!Free(q)
           /\ \A a : a \in Pool!Best(q) <=>
                 /\ a \in Pool!Preferred(q)
                 /\ \A b \in Pool!Preferred(q) : Known[b].priority <= Known[a].priority
           /\ ~PrefersWebsocket(q) => Pool!Preferred(q) = Pool!Free(q)
           /\ PrefersWebsocket(q) => Pool!Preferred(q) = Favored(Pool!Free(q), Known, TRUE)
  <1>1. Pool!PrefersWebsocket(q) <=> PrefersWebsocket(q)
    BY DEF Pool!PrefersWebsocket, PrefersWebsocket
  <1>2. PrefersWebsocket(q) => Pool!Preferred(q) = Favored(Pool!Free(q), Known, TRUE)
    BY <1>1 DEF Pool!Preferred, Favored, WsOf
  <1>3. ~PrefersWebsocket(q) => Pool!Preferred(q) = Pool!Free(q)
    BY <1>1 DEF Pool!Preferred
  <1>4. Pool!Preferred(q) \subseteq Pool!Free(q)
    BY <1>2, <1>3 DEF Favored, WsOf
  <1> QED
    BY <1>2, <1>3, <1>4 DEF Pool!Best

\* The foremost of one provider, if it is the only one that has some.
LEMMA BestIsForemost ==
    ASSUME NEW q, NEW p, NEW R, Pool!Free(q) = R, \A a \in R : Known[a] = metas[p][a]
    PROVE  Pool!Best(q) = Foremost(R, metas[p], PrefersWebsocket(q))
  <1> DEFINE F == Favored(R, Known, PrefersWebsocket(q))
  <1>1. Favored(R, metas[p], PrefersWebsocket(q)) = F
    <2>1. WsOf(R, metas[p]) = WsOf(R, Known)
      BY DEF WsOf
    <2> QED  BY <2>1 DEF Favored
  <1>2. F \subseteq R
    BY DEF Favored, WsOf
  <1>3. Pool!Preferred(q) = F
    BY BestIs DEF Favored
  <1>4. \A a : a \in Pool!Best(q) <=> a \in F /\ \A b \in F : Known[b].priority <= Known[a].priority
    BY <1>3, BestIs
  <1>5. Foremost(R, metas[p], PrefersWebsocket(q))
           = {a \in F : \A b \in F : metas[p][b].priority <= metas[p][a].priority}
    BY <1>1 DEF Foremost
  <1>6. \A a \in F : metas[p][a] = Known[a]
    BY <1>2
  <1> HIDE DEF F
  <1>7. \A a : a \in Foremost(R, metas[p], PrefersWebsocket(q))
                 <=> a \in F /\ \A b \in F : Known[b].priority <= Known[a].priority
    BY <1>5, <1>6
  <1> QED
    BY <1>4, <1>7

\* A query names one provider or several.
LEMMA SomeProvider ==
    ASSUME NEW q \in Queries
    PROVE  Len(q.providers) = 1 \/ Len(q.providers) > 1
  <1> DEFINE n == Len(q.providers)
  <1>1. n \in Nat \ {0}
    BY QueriesAreTyped
  <1> HIDE DEF n
  <1>2. n = 1 \/ n > 1
    BY <1>1
  <1> QED
    BY <1>2 DEF n

\* An answer is one of the best, or there are none.
LEMMA ServedIsBest ==
    ASSUME SchedInv, NEW q \in Queries, NEW st, st = [shards |-> shards, mixed |-> mixed],
           NEW a, a = Served(st, q).auth
    PROVE  (a \in Auths /\ a \in Pool!Best(q)) \/ (a = Nil /\ Pool!Best(q) = {})
  <1> DEFINE R(p) == Offerable(shards, p, q)
             P == ToSet(q.providers)
  <1>1. /\ q.providers \in Seq(Providers) /\ q.providers # <<>> /\ q.pinned \in Auths \cup {Nil}
    BY QueriesAreTyped
  <1>2. /\ ShardsOK(st.shards, metas, now) /\ CursorsAreNat(st.mixed) /\ now \in Nat \ {0}
        /\ st.shards = shards
    BY DEF SchedInv
  <1>3. /\ Pool!Free(q) = UNION {R(p) : p \in P} /\ P \subseteq Providers
        /\ \A p \in P : \A x \in R(p) : Known[x] = metas[p][x] /\ home[x] = p /\ x \in Auths
    BY FreeIs
  <1>4. /\ Pool!Best(q) \subseteq Pool!Free(q)
        /\ \A x : x \in Pool!Best(q) <=>
                 /\ x \in Pool!Preferred(q)
                 /\ \A b \in Pool!Preferred(q) : Known[b].priority <= Known[x].priority
        /\ ~PrefersWebsocket(q) => Pool!Preferred(q) = Pool!Free(q)
    BY BestIs
  <1>5. ASSUME NEW p \in P, Pool!Free(q) = R(p), a = PickIn(st, p, q).auth
        PROVE  (a \in Auths /\ a \in Pool!Best(q)) \/ (a = Nil /\ Pool!Best(q) = {})
    <2>1. /\ R(p) = {} => a = Nil
          /\ R(p) # {} => a \in Foremost(R(p), metas[p], PrefersWebsocket(q))
      BY <1>2, <1>3, <1>5, PickInOK
    <2> HIDE DEF R, P
    <2>2. CASE R(p) = {}
      BY <1>4, <1>5, <2>1, <2>2
    <2>3. CASE R(p) # {}
      <3>1. a \in Pool!Best(q)
        BY <1>3, <1>5, <2>1, <2>3, BestIsForemost
      <3> QED  BY <1>3, <1>4, <1>5, <3>1
    <2> QED  BY <2>2, <2>3
  <1>6. CASE Len(q.providers) = 1
    <2> DEFINE p == q.providers[1]
    <2>1. a = PickIn(st, p, q).auth
      BY <1>6 DEF Served
    <2>2. P = {p}
      <3>1. DOMAIN q.providers = {1}
        BY <1>1, <1>6
      <3> QED  BY <3>1 DEF ToSet
    <2> HIDE DEF p, P, R
    <2>3. Pool!Free(q) = R(p) /\ p \in P
      BY <1>3, <2>2
    <2> QED  BY <1>5, <2>1, <2>3
  <1>7. CASE Len(q.providers) > 1 /\ q.pinned = Nil
    <2>1. a = PickAmong(st, q).auth
      BY <1>7 DEF Served
    <2>2. ~PrefersWebsocket(q)
      <3>1. Len(<<Codex>>) = 1
        OBVIOUS
      <3>2. ASSUME q.providers = <<Codex>> PROVE FALSE
        <4>1. Len(q.providers) = 1
          BY <3>1, <3>2
        <4> QED  BY <1>7, <4>1
      <3> QED  BY <3>2 DEF PrefersWebsocket
    <2>3. /\ (\A p \in P : R(p) = {}) => a = Nil
          /\ (\E p \in P : R(p) # {}) =>
                     \E p \in P : /\ a \in R(p)
                                  /\ \A o \in P : \A b \in R(o) :
                                        metas[o][b].priority <= metas[p][a].priority
      BY <1>1, <1>2, <2>1, PickAmongOK
    <2> HIDE DEF P, R
    <2>4. CASE \A p \in P : R(p) = {}
      BY <1>3, <1>4, <2>3, <2>4
    <2>5. CASE \E p \in P : R(p) # {}
      <3>1. PICK p \in P : /\ a \in R(p)
                           /\ \A o \in P : \A b \in R(o) : metas[o][b].priority <= metas[p][a].priority
        BY <2>3, <2>5
      <3>2. a \in Pool!Free(q) /\ a \in Auths
        BY <1>3, <3>1
      <3>3. \A b \in Pool!Free(q) : Known[b].priority <= Known[a].priority
        BY <1>3, <3>1
      <3> QED  BY <1>4, <2>2, <3>2, <3>3
    <2> QED  BY <2>4, <2>5
  <1>8. CASE Len(q.providers) > 1 /\ q.pinned # Nil
    <2> DEFINE p == home[q.pinned]
    <2>1. Served(st, q) = IF p \in P THEN PickIn(st, p, q)
                          ELSE [auth |-> Nil, shards |-> st.shards, mixed |-> st.mixed]
      BY <1>8 DEF Served
    <2>2. \A o \in P : \A x \in R(o) : o = p
      <3>1. \A o \in P : \A x \in R(o) : x = q.pinned
        BY <1>8 DEF Offerable, Allowed
      <3> HIDE DEF R, P
      <3> QED  BY <1>3, <3>1
    <2> HIDE DEF p, P, R
    <2>3. CASE p \in P
      <3>1. Pool!Free(q) = R(p) /\ a = PickIn(st, p, q).auth
        BY <1>3, <2>1, <2>2, <2>3
      <3> QED  BY <1>5, <2>3, <3>1
    <2>4. CASE p \notin P
      <3>1. Pool!Free(q) = {} /\ a = Nil
        BY <1>3, <2>1, <2>2, <2>4
      <3> QED  BY <1>4, <3>1
    <2> QED  BY <2>3, <2>4
  <1>9. Len(q.providers) = 1 \/ Len(q.providers) > 1
    BY SomeProvider
  <1> QED
    BY <1>6, <1>7, <1>8, <1>9

\* A choice keeps the entries of the shard.
LEMMA EntriesStay ==
    ASSUME NEW known, NEW m, NEW t, NEW s, ShardOK(s, known, m, t), NEW n, NEW prefer, NEW strat,
           NEW C
    PROVE  PickAt(s, n, prefer, strat, C).shard.entries = s.entries
  <1> DEFINE side == IF prefer /\ Serves(s.ready[n].ws, C) THEN "ws" ELSE "all"
             new == IF strat = "fillFirst" THEN First(s.ready[n][side], C).view
                                           ELSE RoundRobin(s.ready[n][side], C).view
  <1>1. s = [entries |-> s.entries, ready |-> s.ready, blocked |-> s.blocked]
    BY DEF ShardOK
  <1>2. PickAt(s, n, prefer, strat, C).shard = [s EXCEPT !.ready[n][side] = new]
    BY DEF PickAt
  <1> HIDE DEF side, new
  <1> QED
    BY <1>1, <1>2

\* Every entry after a step is one of before, not among those told of, or judged
\* anew.
KeptOrJudged(told) ==
    \A p \in Providers : \A m \in DOMAIN shards'[p] : \A a \in DOMAIN shards'[p][m].entries :
        \/ shards'[p][m].entries[a] = Verdict(metas'[p][a].avail, m, now')
        \/ /\ a \notin told
           /\ m \in DOMAIN shards[p] /\ a \in DOMAIN shards[p][m].entries
           /\ shards'[p][m].entries[a] = shards[p][m].entries[a]

\* Then credentials are withheld as the pool says.
LEMMA WithholdingKept ==
    ASSUME SchedInv, SchedInv', NEW told, KeptOrJudged(told), now' \in {now, now + 1}
    PROVE  Pool!Withholding(told)
  <1>0. SUFFICES ASSUME NEW a \in Auths, NEW m \in Withheld'[a]
                 PROVE  Pool!MayWithhold(a, m, told)
    <2>1. \A a \in Auths : \A m \in Withheld'[a] : Pool!MayWithhold(a, m, told)
      BY <1>0
    <2>2. Withheld' = [a \in Auths |-> Withheld'[a]]
      BY DEF Withheld
    <2>3. \A a \in Auths : Withheld'[a] \in SUBSET UNION {Pool!ModelsOf(b)' : b \in Auths}
      BY <2>1 DEF Pool!MayWithhold
    <2>4. Withheld' \in [Auths -> SUBSET UNION {Pool!ModelsOf(b)' : b \in Auths}]
      BY <2>2, <2>3
    <2> QED  BY <2>1, <2>4 DEF Pool!Withholding
  <1>00. SUFFICES /\ Known'[a] # Nil /\ m \in Known'[a].models
                  /\ \/ ~Callable(Known'[a].avail, m, now')
                     \/ /\ a \notin told /\ m \in Withheld[a]
                        /\ Pool!QuotaAhead(Known'[a].avail, m, now')
    BY SameVerdicts DEF Pool!MayWithhold, Pool!ModelsOf
  <1> DEFINE p == home'[a]
             entry == shards'[p][m].entries[a]
             avail == Known'[a].avail
  <1>1. WithheldAgrees /\ WithheldAgrees'
    BY WithheldIs, PTL
  <1>2. home'[a] # Nil
    BY <1>1 DEF WithheldAgrees
  <1>3. /\ p \in Providers /\ a \in DOMAIN metas'[p] /\ m \in DOMAIN shards'[p]
        /\ a \in DOMAIN shards'[p][m].entries /\ Waiting(entry, now')
    BY <1>1, <1>2 DEF WithheldAgrees
  <1>4. Known'[a] = metas'[p][a]
    BY <1>2 DEF Known
  <1>5. now' \in Nat \ {0} /\ now \in Nat /\ now <= now'
    BY DEF SchedInv
  <1>6. /\ Known'[a] # Nil /\ Timed(avail)
        /\ m \in Known'[a].models
        /\ Judged(entry, avail, m, now')
    <2>1. ProviderOK(metas'[p], shards'[p], now')
      BY <1>3 DEF SchedInv, ShardsOK
    <2> HIDE DEF p
    <2>2. IsKnown(metas'[p]) /\ ShardOK(shards'[p][m], metas'[p], m, now')
      BY <1>3, <2>1 DEF ProviderOK
    <2>3. Known'[a] # Nil /\ Timed(Known'[a].avail)
      BY <1>3, <1>4, <2>2 DEF IsKnown, IsSnapshot, Timed
    <2>4. Judged(shards'[p][m].entries[a], metas'[p][a].avail, m, now')
      BY <1>3, <2>2 DEF ShardOK, EntriesOK
    <2>5. m \in metas'[p][a].models
      BY <1>3, <2>2 DEF ShardOK, EntriesOK
    <2> QED  BY <1>4, <2>3, <2>4, <2>5
  <1> HIDE DEF p, entry, avail
  <1>7. StillTells(entry, avail, m, now')
    BY <1>5, <1>6, JudgedTells
  <1>8. CASE entry = Verdict(avail, m, now')
    <2>1. ~Callable(avail, m, now')
      BY <1>3, <1>5, <1>6, <1>8, VerdictTells
    <2> QED  BY <1>6, <2>1 DEF avail
  <1>9. CASE /\ a \notin told
             /\ m \in DOMAIN shards[p] /\ a \in DOMAIN shards[p][m].entries
             /\ entry = shards[p][m].entries[a]
    <2>1. Waiting(shards[p][m].entries[a], now)
      <3>1. Held(entry) /\ entry.next > now' /\ entry.next \in Nat
        BY <1>3, <1>7 DEF Waiting, StillTells
      <3> QED  BY <1>5, <1>9, <3>1 DEF Waiting
    <2>2. home[a] = p /\ p # Nil
      <3>1. ProviderOK(metas[p], shards[p], now)
        BY <1>3 DEF SchedInv, ShardsOK
      <3>2. ShardOK(shards[p][m], metas[p], m, now)
        BY <1>9, <3>1 DEF ProviderOK
      <3>3. a \in DOMAIN metas[p]
        BY <1>9, <3>2 DEF ShardOK, EntriesOK
      <3> QED  BY <1>3, <3>3, KnownIs, NilIsNothing
    <2>3. m \in Withheld[a]
      BY <1>1, <1>9, <2>1, <2>2 DEF WithheldAgrees
    <2>4. Callable(avail, m, now') => Pool!QuotaAhead(avail, m, now')
      BY <1>3, <1>7 DEF StillTells
    <2> QED  BY <1>6, <1>9, <2>3, <2>4 DEF avail
  <1>10. \/ entry = Verdict(avail, m, now')
         \/ /\ a \notin told
            /\ m \in DOMAIN shards[p] /\ a \in DOMAIN shards[p][m].entries
            /\ entry = shards[p][m].entries[a]
    BY <1>3, <1>4 DEF KeptOrJudged, entry, avail
  <1> QED
    BY <1>8, <1>9, <1>10

\* Nothing changes in the shards.
LEMMA ShardsKept ==
    ASSUME shards' = shards
    PROVE  KeptOrJudged({})
  BY DEF KeptOrJudged

\* Taking a credential out of a shard leaves the others as they were.
LEMMA WithoutLeaves ==
    ASSUME NEW shard, NEW a, NEW known, NEW b \in DOMAIN WithoutEntry(shard, a, known).entries
    PROVE  /\ b # a /\ b \in DOMAIN shard.entries
           /\ WithoutEntry(shard, a, known).entries[b] = shard.entries[b]
  <1> DEFINE rest == [x \in DOMAIN shard.entries \ {a} |-> shard.entries[x]]
  <1>1. WithoutEntry(shard, a, known) =
           IF a \notin DOMAIN shard.entries THEN shard ELSE Indexed(shard, rest, known)
    BY DEF WithoutEntry
  <1>2. Indexed(shard, rest, known).entries = rest
    BY DEF Indexed
  <1> QED
    BY <1>1, <1>2

\* Telling a shard of a credential judges it and leaves the others.
LEMMA WithLeaves ==
    ASSUME NEW shard, NEW a, NEW old, NEW m, NEW known,
           NEW b \in DOMAIN WithEntry(shard, a, old, m, known).entries
    PROVE  \/ /\ b = a
              /\ WithEntry(shard, a, old, m, known).entries[b] = Verdict(known[a].avail, m, now)
           \/ /\ b # a /\ b \in DOMAIN shard.entries
              /\ WithEntry(shard, a, old, m, known).entries[b] = shard.entries[b]
  <1> DEFINE entry == Verdict(known[a].avail, m, now)
             all == [x \in DOMAIN shard.entries \cup {a} |->
                        IF x = a THEN entry ELSE shard.entries[x]]
             same == /\ a \in DOMAIN shard.entries /\ shard.entries[a] = entry
                     /\ old.priority = known[a].priority
                     /\ old.parent = known[a].parent
                     /\ old.ws = known[a].ws
  <1>1. WithEntry(shard, a, old, m, known) = IF same THEN shard ELSE Indexed(shard, all, known)
    BY DEF WithEntry
  <1>2. Indexed(shard, all, known).entries = all
    BY DEF Indexed
  <1> HIDE DEF entry
  <1>3. CASE same
    BY <1>1, <1>3 DEF entry
  <1>4. CASE ~same
    <2> HIDE DEF same
    <2> QED  BY <1>1, <1>2, <1>4 DEF entry
  <1> QED
    BY <1>3, <1>4

\* An upsert judges the credential it tells of, and no other.
LEMMA UpsertJudges ==
    ASSUME SchedInv, NEW a \in Auths, NEW snap \in Snapshots[a], Upsert(a, snap)
    PROVE  KeptOrJudged({a})
  <1> DEFINE gone == snap.avail.disabled
             here == snap.provider
             left == IF gone THEN {home[a]} ELSE {home[a]} \ {here}
             drop(p) == Dropped(metas[p], shards[p], a)
             put == Put(metas[here], shards[here], a, snap)
             after(p) == CASE p \in left -> drop(p)
                           [] p \notin left /\ p = here /\ ~gone -> put
                           [] OTHER -> [metas |-> metas[p], shards |-> shards[p]]
  <1>1. /\ metas' = [p \in Providers |-> after(p).metas]
        /\ shards' = [p \in Providers |-> after(p).shards]
        /\ now' = now
    BY DEF Upsert
  <1> SUFFICES ASSUME NEW p \in Providers, NEW m \in DOMAIN shards'[p],
                      NEW b \in DOMAIN shards'[p][m].entries
               PROVE  \/ shards'[p][m].entries[b] = Verdict(metas'[p][b].avail, m, now')
                      \/ /\ b \notin {a}
                         /\ m \in DOMAIN shards[p] /\ b \in DOMAIN shards[p][m].entries
                         /\ shards'[p][m].entries[b] = shards[p][m].entries[b]
    BY DEF KeptOrJudged
  <1>2. metas'[p] = after(p).metas /\ shards'[p] = after(p).shards
    BY <1>1
  <1>3. CASE p \in left
    <2> DEFINE rest == [x \in DOMAIN metas[p] \ {a} |-> metas[p][x]]
    <2>1. shards'[p] = [n \in DOMAIN shards[p] |-> WithoutEntry(shards[p][n], a, rest)]
      <3>1. after(p) = drop(p)
        BY <1>3
      <3> HIDE DEF after
      <3> QED  BY <1>2, <3>1 DEF Dropped
    <2> HIDE DEF rest, left, after
    <2>2. m \in DOMAIN shards[p] /\ shards'[p][m] = WithoutEntry(shards[p][m], a, rest)
      BY <2>1
    <2> QED  BY <2>2, WithoutLeaves
  <1>4. CASE p \notin left /\ p = here /\ ~gone
    <2> DEFINE all == Assigned(metas[p], a, snap)
               old == IF a \in DOMAIN metas[p] THEN metas[p][a] ELSE snap
    <2>1. after(p) = put
      BY <1>4
    <2>2. /\ metas'[p] = all
          /\ shards'[p] = [n \in DOMAIN shards[p] |->
                             IF n \in snap.models THEN WithEntry(shards[p][n], a, old, n, all)
                             ELSE WithoutEntry(shards[p][n], a, all)]
      <3> HIDE DEF after
      <3> QED  BY <1>2, <1>4, <2>1 DEF Put
    <2> HIDE DEF all, old, left, after, put
    <2>3. /\ m \in DOMAIN shards[p]
          /\ shards'[p][m] = IF m \in snap.models THEN WithEntry(shards[p][m], a, old, m, all)
                             ELSE WithoutEntry(shards[p][m], a, all)
      BY <2>2
    <2>4. CASE m \in snap.models
      BY <1>1, <2>2, <2>3, <2>4, WithLeaves
    <2>5. CASE m \notin snap.models
      BY <2>3, <2>5, WithoutLeaves
    <2> QED  BY <2>4, <2>5
  <1>5. CASE p \notin left /\ ~(p = here /\ ~gone)
    <2>1. after(p) = [metas |-> metas[p], shards |-> shards[p]]
      BY <1>5
    <2>2. home[a] # p
      BY <1>5
    <2> HIDE DEF after, left, gone, here
    <2>3. shards'[p] = shards[p]
      BY <1>2, <2>1
    <2>4. b # a
      <3>1. ShardOK(shards[p][m], metas[p], m, now)
        BY <2>3 DEF SchedInv, ShardsOK, ProviderOK
      <3>2. b \in DOMAIN metas[p]
        BY <2>3, <3>1 DEF ShardOK, EntriesOK
      <3> QED  BY <2>2, <3>2, KnownIs
    <2> QED  BY <2>3, <2>4
  <1> QED
    BY <1>3, <1>4, <1>5

\* The entries of a provider's shards after a query: those of before, or of the
\* shard that was asked for.
EntriesOf(built, st, p) ==
    \A m \in DOMAIN built :
        \/ m \in DOMAIN st.shards[p] /\ built[m].entries = st.shards[p][m].entries
        \/ built[m].entries = Shard(st.shards, p, m).entries

\* The shard that was asked for is put back.
LEMMA AskedPutBack ==
    ASSUME NEW st, NEW p, NEW m, NEW s, s.entries = Shard(st.shards, p, m).entries
    PROVE  EntriesOf(Assigned(st.shards[p], m, s), st, p)
  <1> DEFINE built == Assigned(st.shards[p], m, s)
  <1>1. /\ DOMAIN built = DOMAIN st.shards[p] \cup {m} /\ built[m] = s
        /\ \A x \in DOMAIN st.shards[p] \ {m} : built[x] = st.shards[p][x]
    BY DEF Assigned
  <1> HIDE DEF built
  <1>2. EntriesOf(built, st, p)
    BY <1>1 DEF EntriesOf
  <1> QED
    BY <1>2 DEF built

\* So it is after a pick at one provider.
LEMMA PickInHas ==
    ASSUME SchedInv, NEW st, st = [shards |-> shards, mixed |-> mixed], NEW q, NEW o \in Providers,
           NEW p \in Providers
    PROVE  EntriesOf(PickIn(st, o, q).shards[p], st, p)
  <1> DEFINE s == Shard(st.shards, o, q.model)
             pick == PickReady(s, q, Allowed(q))
  <1>1. PickIn(st, o, q).shards = [st.shards EXCEPT ![o] = Assigned(st.shards[o], q.model, pick.shard)]
    BY DEF PickIn, Placed
  <1>2. ShardOK(s, metas[o], q.model, now)
    <2>1. ProviderOK(metas[o], st.shards[o], now) /\ now \in Nat \ {0}
      BY DEF SchedInv, ShardsOK
    <2> QED  BY <2>1, ShardIsOK DEF IsTime
  <1>3. DOMAIN st.shards = Providers
    BY DEF SchedInv, ShardsOK
  <1>4. pick.shard.entries = s.entries
    <2> HIDE DEF s
    <2> QED  BY <1>2, EntriesStay DEF PickReady
  <1> HIDE DEF pick
  <1>5. CASE p = o
    <2>1. PickIn(st, o, q).shards[p] = Assigned(st.shards[p], q.model, pick.shard)
      BY <1>1, <1>3, <1>5
    <2> QED  BY <1>4, <1>5, <2>1, AskedPutBack
  <1>6. CASE p # o
    <2>1. PickIn(st, o, q).shards[p] = st.shards[p]
      BY <1>1, <1>3, <1>6
    <2> QED  BY <2>1 DEF EntriesOf
  <1> QED
    BY <1>5, <1>6

\* And after one among several.
LEMMA PlacedHas ==
    ASSUME NEW st, NEW q, NEW n \in Nat, NEW shard,
           shard = [i \in 0 .. n - 1 |-> Shard(st.shards, q.providers[i + 1], q.model)],
           NEW i, NEW pick, NEW cursor,
           i \in DOMAIN shard => pick.shard.entries = shard[i].entries,
           NEW p \in Providers
    PROVE  EntriesOf(PlacedAmong(st, q, shard, i, pick, cursor).shards[p], st, p)
  <1> DEFINE K == CHOOSE k \in DOMAIN shard : q.providers[k + 1] = p
             to == PlacedAmong(st, q, shard, i, pick, cursor).shards[p]
  <1>1. to = IF \E k \in DOMAIN shard : q.providers[k + 1] = p
             THEN Assigned(st.shards[p], q.model, IF K = i THEN pick.shard ELSE shard[K])
             ELSE st.shards[p]
    BY DEF PlacedAmong
  <1>2. (\E k \in DOMAIN shard : q.providers[k + 1] = p) =>
           K \in DOMAIN shard /\ q.providers[K + 1] = p
    OBVIOUS
  <1>3. DOMAIN shard = 0 .. n - 1
        /\ \A k \in DOMAIN shard : shard[k] = Shard(st.shards, q.providers[k + 1], q.model)
    OBVIOUS
  <1> HIDE DEF K, to
  <1>4. CASE \E k \in DOMAIN shard : q.providers[k + 1] = p
    <2> DEFINE s == IF K = i THEN pick.shard ELSE shard[K]
    <2>1. s.entries = Shard(st.shards, p, q.model).entries
      BY <1>2, <1>3, <1>4
    <2>2. to = Assigned(st.shards[p], q.model, s)
      BY <1>1, <1>4
    <2> HIDE DEF s
    <2> QED  BY <2>1, <2>2, AskedPutBack DEF to
  <1>5. CASE ~\E k \in DOMAIN shard : q.providers[k + 1] = p
    <2>1. to = st.shards[p]
      BY <1>1, <1>5
    <2> QED  BY <2>1 DEF EntriesOf, to
  <1> QED
    BY <1>4, <1>5

\* However it was picked among them.
LEMMA PickAmongHas ==
    ASSUME SchedInv, NEW st, st = [shards |-> shards, mixed |-> mixed], NEW q \in Queries,
           NEW p \in Providers
    PROVE  EntriesOf(PickAmong(st, q).shards[p], st, p)
  <1> DEFINE n == Len(q.providers)
             shard == [i \in 0 .. n - 1 |-> Shard(st.shards, q.providers[i + 1], q.model)]
             C == Allowed(q)
             has(r) == EntriesOf(r.shards[p], st, p)
  <1>1. n \in Nat /\ \A i \in 0 .. n - 1 : q.providers[i + 1] \in Providers
    <2>1. q.providers \in Seq(Providers)
      BY QueriesAreTyped
    <2>2. n \in Nat /\ \A k \in 1 .. n : q.providers[k] \in Providers
      BY <2>1
    <2>3. \A i \in 0 .. n - 1 : i + 1 \in 1 .. n
      BY <2>2
    <2> QED  BY <2>2, <2>3
  <1>2. ASSUME NEW i \in DOMAIN shard, NEW best, NEW prefer, NEW strat
        PROVE  PickAt(shard[i], best, prefer, strat, C).shard.entries = shard[i].entries
    <2> DEFINE o == q.providers[i + 1]
    <2>1. o \in Providers /\ shard[i] = Shard(st.shards, o, q.model)
      BY <1>1
    <2>2. ProviderOK(metas[o], st.shards[o], now) /\ now \in Nat \ {0}
      BY <2>1 DEF SchedInv, ShardsOK
    <2> HIDE DEF o
    <2>3. ShardOK(Shard(st.shards, o, q.model), metas[o], q.model, now)
      BY <2>2, ShardIsOK DEF IsTime
    <2> HIDE DEF shard, C
    <2>4. ShardOK(shard[i], metas[o], q.model, now)
      BY <2>1, <2>3
    <2> QED  BY <2>4, EntriesStay
  <1>3. PickAmong(st, q) = PickFromShards(st, q, shard, C)
    BY DEF PickAmong
  <1>4. shard = [i \in 0 .. n - 1 |-> Shard(st.shards, q.providers[i + 1], q.model)]
    OBVIOUS
  <1> HIDE DEF shard, C, n
  <1>5. \A i, best, prefer, strat, cursor :
           has(PlacedAmong(st, q, shard, i, PickAt(shard[i], best, prefer, strat, C), cursor))
    <2> SUFFICES ASSUME NEW i, NEW best, NEW prefer, NEW strat, NEW cursor
                 PROVE  EntriesOf(PlacedAmong(st, q, shard, i, PickAt(shard[i], best, prefer, strat, C),
                                              cursor).shards[p], st, p)
      OBVIOUS
    <2> DEFINE pick == PickAt(shard[i], best, prefer, strat, C)
    <2>1. i \in DOMAIN shard => pick.shard.entries = shard[i].entries
      BY <1>2
    <2> HIDE DEF pick
    <2>2. EntriesOf(PlacedAmong(st, q, shard, i, pick, cursor).shards[p], st, p)
      BY <1>1, <1>4, <2>1, PlacedHas
    <2> QED  BY <2>2 DEF pick
  <1>6. has(PlacedAmong(st, q, shard, Nil, Quiet, Nil))
    <2>1. Nil \notin DOMAIN shard
      <3>1. DOMAIN shard = 0 .. n - 1
        BY <1>4
      <3> QED  BY <1>1, <3>1, NilIsNothing
    <2> QED  BY <1>1, <1>4, <2>1, PlacedHas
  <1> HIDE DEF has
  <1>7. \A best, weight, slot : has(Rotate(st, q, shard, best, weight, slot, C))
    BY <1>5 DEF Rotate
  <1>8. \A best, weight : has(PickAtBest(st, q, shard, best, weight, C))
    BY <1>5, <1>7 DEF PickAtBest
  <1>9. has(PickFromShards(st, q, shard, C))
    BY <1>6, <1>8 DEF PickFromShards
  <1> QED
    BY <1>3, <1>9 DEF has

\* A query judges what is due, and leaves the rest.
LEMMA PickJudges ==
    ASSUME SchedInv, NEW q \in Queries, Pick(q)
    PROVE  KeptOrJudged({})
  <1> DEFINE st == [shards |-> shards, mixed |-> mixed]
  <1>1. shards' = Served(st, q).shards /\ UNCHANGED <<home, metas, now>>
    BY DEF Pick
  <1>2. st.shards = shards
    OBVIOUS
  <1> SUFFICES ASSUME NEW p \in Providers, NEW m \in DOMAIN shards'[p],
                      NEW a \in DOMAIN shards'[p][m].entries
               PROVE  \/ shards'[p][m].entries[a] = Verdict(metas'[p][a].avail, m, now')
                      \/ /\ m \in DOMAIN shards[p] /\ a \in DOMAIN shards[p][m].entries
                         /\ shards'[p][m].entries[a] = shards[p][m].entries[a]
    BY DEF KeptOrJudged
  <1>3. EntriesOf(Served(st, q).shards[p], st, p)
    <2>1. q.providers \in Seq(Providers) /\ q.providers # <<>>
      BY QueriesAreTyped
    <2>2. ToSet(q.providers) \subseteq Providers
      BY <2>1 DEF ToSet
    <2>3. CASE Len(q.providers) = 1
      <3>1. Served(st, q) = PickIn(st, q.providers[1], q) /\ q.providers[1] \in Providers
        BY <2>1, <2>3 DEF Served
      <3> QED  BY <3>1, PickInHas
    <2>4. CASE Len(q.providers) > 1 /\ q.pinned = Nil
      <3>1. Served(st, q) = PickAmong(st, q)
        BY <2>4 DEF Served
      <3> QED  BY <3>1, PickAmongHas
    <2>5. CASE Len(q.providers) > 1 /\ q.pinned # Nil
      <3> DEFINE o == home[q.pinned]
      <3>1. Served(st, q) = IF o \in ToSet(q.providers) THEN PickIn(st, o, q)
                            ELSE [auth |-> Nil, shards |-> st.shards, mixed |-> st.mixed]
        BY <2>5 DEF Served
      <3> HIDE DEF o
      <3>2. CASE o \in ToSet(q.providers)
        <4>1. o \in Providers /\ Served(st, q) = PickIn(st, o, q)
          BY <2>2, <3>1, <3>2
        <4> HIDE DEF st
        <4> QED  BY <4>1, PickInHas DEF st
      <3>3. CASE o \notin ToSet(q.providers)
        <4>1. Served(st, q).shards[p] = st.shards[p]
          BY <3>1, <3>3
        <4> QED  BY <4>1 DEF EntriesOf
      <3> QED  BY <3>2, <3>3
    <2> QED  BY <2>3, <2>4, <2>5, SomeProvider
  <1> HIDE DEF st
  <1>4. \/ m \in DOMAIN shards[p] /\ shards'[p][m].entries = shards[p][m].entries
        \/ shards'[p][m].entries = Shard(shards, p, m).entries
    BY <1>1, <1>2, <1>3 DEF EntriesOf
  <1>5. CASE m \in DOMAIN shards[p] /\ shards'[p][m].entries = shards[p][m].entries
    BY <1>5
  <1>6. CASE shards'[p][m].entries = Shard(shards, p, m).entries
    <2>1. ProviderOK(metas[p], shards[p], now) /\ now \in Nat \ {0}
      BY DEF SchedInv, ShardsOK
    <2>2. IsAsked(Shard(shards, p, m).entries[a], shards, p, m, a)
      BY <1>6, <2>1, EntryIsAsked
    <2> QED  BY <1>1, <1>6, <2>2 DEF IsAsked
  <1> QED
    BY <1>4, <1>5, <1>6

\* An upsert tells the pool.
LEMMA TellStep ==
    ASSUME SchedInv, SchedInv', NEW a \in Auths, NEW snap \in Snapshots[a], Upsert(a, snap)
    PROVE  Pool!Tell(a, snap)
  <1> DEFINE gone == snap.avail.disabled
             here == snap.provider
             left == IF gone THEN {home[a]} ELSE {home[a]} \ {here}
             drop(p) == Dropped(metas[p], shards[p], a)
             put == Put(metas[here], shards[here], a, snap)
             after(p) == CASE p \in left -> drop(p)
                           [] p \notin left /\ p = here /\ ~gone -> put
                           [] OTHER -> [metas |-> metas[p], shards |-> shards[p]]
  <1>1. /\ home' = [home EXCEPT ![a] = IF gone THEN Nil ELSE here]
        /\ metas' = [p \in Providers |-> after(p).metas]
        /\ answer' = Quiet /\ now' = now
    BY DEF Upsert
  <1>2. here \in Providers /\ snap # Nil /\ here # Nil
    BY SnapshotsAreTyped, NilIsNothing DEF IsSnapshot
  <1>3. /\ DOMAIN home = Auths /\ \A x \in Auths : home[x] \in Providers \cup {Nil}
        /\ \A p \in Providers : DOMAIN metas[p] = {x \in Auths : home[x] = p}
    BY DEF SchedInv, HomesAgree
  <1>4. \A p \in Providers : \A b \in DOMAIN metas[p] \ {a} : drop(p).metas[b] = metas[p][b]
    BY DEF Dropped
  <1>5. /\ put.metas[a] = snap
        /\ \A b \in DOMAIN metas[here] \ {a} : put.metas[b] = metas[here][b]
    BY DEF Put, Assigned
  <1> HIDE DEF drop, put
  <1>6. /\ \A x \in Auths : home'[x] = IF x = a THEN (IF gone THEN Nil ELSE here) ELSE home[x]
        /\ \A p \in Providers : metas'[p] = after(p).metas
    BY <1>1, <1>3
  <1>7. ASSUME NEW p \in Providers, NEW x \in DOMAIN metas[p] \ {a} PROVE metas'[p][x] = metas[p][x]
    <2>1. CASE p \in left
      BY <1>4, <1>6, <2>1
    <2>2. CASE p \notin left /\ p = here /\ ~gone
      <3>1. metas'[p] = put.metas
        BY <1>6, <2>2
      <3> HIDE DEF here, after
      <3> QED  BY <1>5, <2>2, <3>1
    <2>3. CASE p \notin left /\ ~(p = here /\ ~gone)
      BY <1>6, <2>3
    <2> QED  BY <2>1, <2>2, <2>3
  <1>8. ~gone => metas'[here][a] = snap
    <2> SUFFICES ASSUME ~gone PROVE metas'[here][a] = snap
      OBVIOUS
    <2>1. after(here) = put
      OBVIOUS
    <2>2. metas'[here] = put.metas
      BY <1>2, <1>6, <2>1
    <2> HIDE DEF here, gone, after
    <2> QED  BY <1>5, <2>2
  <1>9. /\ \A x \in Auths : Known[x] = IF home[x] = Nil THEN Nil ELSE metas[home[x]][x]
        /\ \A x \in Auths : Known'[x] = IF home'[x] = Nil THEN Nil ELSE metas'[home'[x]][x]
        /\ DOMAIN Known = Auths
    BY DEF Known
  <1>10. Known' = [x \in Auths |-> Known'[x]] /\ Known = [x \in Auths |-> Known[x]]
    BY DEF Known
  <1>11. Pool!Told(snap) = IF gone THEN Nil ELSE snap
    BY <1>2 DEF Pool!Told
  <1> HIDE DEF gone, here, left, after
  <1>12. ASSUME NEW x \in Auths PROVE Known'[x] = IF x = a THEN Pool!Told(snap) ELSE Known[x]
    <2>1. CASE x = a
      BY <1>2, <1>6, <1>8, <1>9, <1>11, <2>1
    <2>2. CASE x # a /\ home[x] = Nil
      BY <1>6, <1>9, <2>2
    <2>3. CASE x # a /\ home[x] # Nil
      <3>1. home[x] \in Providers /\ x \in DOMAIN metas[home[x]] \ {a}
        BY <1>3, <2>3
      <3> QED  BY <1>6, <1>7, <1>9, <2>3, <3>1
    <2> QED  BY <2>1, <2>2, <2>3
  <1>13. Known' = [Known EXCEPT ![a] = Pool!Told(snap)]
    <2>1. [Known EXCEPT ![a] = Pool!Told(snap)]
             = [x \in Auths |-> IF x = a THEN Pool!Told(snap) ELSE Known[x]]
      BY <1>10
    <2>2. Known' = [x \in Auths |-> IF x = a THEN Pool!Told(snap) ELSE Known[x]]
      BY <1>10, <1>12
    <2> QED  BY <2>1, <2>2
  <1>14. Pool!Withholding({a})
    BY <1>1, UpsertJudges, WithholdingKept
  <1> QED
    BY <1>1, <1>13, <1>14 DEF Pool!Tell, Pool!Quiet, Quiet

\* A rebuild tells the pool of all.
LEMMA TellAllStep ==
    ASSUME SchedInv, SchedInv', NEW snap \in Loads, Rebuild(snap)
    PROVE  Pool!TellAll(snap)
  <1> DEFINE Kept(p) == {a \in Auths : /\ snap[a] # Nil /\ snap[a].provider = p
                                       /\ ~snap[a].avail.disabled}
  <1>1. /\ metas' = [p \in Providers |-> [a \in Kept(p) |-> snap[a]]]
        /\ home' = [a \in Auths |-> IF \E p \in Providers : a \in Kept(p)
                                    THEN snap[a].provider ELSE Nil]
        /\ answer' = Quiet /\ now' = now /\ shards' = [p \in Providers |-> <<>>]
    BY DEF Rebuild
  <1>2. \A a \in Auths : snap[a] # Nil => snap[a].provider \in Providers /\ snap[a].provider # Nil
    BY SnapshotsAreTyped, NilIsNothing DEF IsSnapshot
  <1>3. \A x \in Auths : Known'[x] = IF home'[x] = Nil THEN Nil ELSE metas'[home'[x]][x]
    BY DEF Known
  <1>4. Known' = [x \in Auths |-> Known'[x]]
    BY DEF Known
  <1>5. ASSUME NEW x \in Auths PROVE Known'[x] = Pool!Told(snap[x])
    <2>1. CASE snap[x] = Nil \/ snap[x].avail.disabled
      <3>1. home'[x] = Nil
        BY <1>1, <2>1
      <3> QED  BY <1>3, <2>1, <3>1 DEF Pool!Told
    <2>2. CASE snap[x] # Nil /\ ~snap[x].avail.disabled
      <3> DEFINE p == snap[x].provider
      <3>1. p \in Providers /\ p # Nil /\ x \in Kept(p)
        BY <1>2, <2>2
      <3>2. home'[x] = p
        BY <1>1, <3>1
      <3>3. metas'[p][x] = snap[x]
        BY <1>1, <3>1
      <3> HIDE DEF p, Kept
      <3> QED  BY <1>3, <2>2, <3>1, <3>2, <3>3 DEF Pool!Told
    <2> QED  BY <2>1, <2>2
  <1>6. Known' = [a \in Auths |-> Pool!Told(snap[a])]
    BY <1>4, <1>5
  <1>7. Pool!Withholding(Auths)
    <2>1. KeptOrJudged(Auths)
      BY <1>1 DEF KeptOrJudged
    <2> QED  BY <1>1, <2>1, WithholdingKept
  <1> QED
    BY <1>1, <1>6, <1>7 DEF Pool!TellAll, Pool!Quiet, Quiet

\* A pick offers or refuses as the pool does.
LEMMA OfferStep ==
    ASSUME SchedInv, SchedInv', NEW q \in Queries, Pick(q)
    PROVE  Pool!Offer(q) \/ Pool!Refuse(q)
  <1> DEFINE st == [shards |-> shards, mixed |-> mixed]
             a == Served(st, q).auth
  <1>1. answer' = [to |-> q, auth |-> a] /\ UNCHANGED <<home, metas, now>>
    BY DEF Pick
  <1>2. (a \in Auths /\ a \in Pool!Best(q)) \/ (a = Nil /\ Pool!Best(q) = {})
    BY ServedIsBest
  <1> HIDE DEF a
  <1>3. Known' = Known
    BY <1>1 DEF Known
  <1>4. Pool!Withholding({})
    BY <1>1, PickJudges, WithholdingKept
  <1> QED
    BY <1>1, <1>2, <1>3, <1>4 DEF Pool!Offer, Pool!Refuse

\* Every step of the scheduler is one of the pool, or none.
LEMMA PoolStep ==
    ASSUME SchedInv, SchedInv', [Next]_vars
    PROVE  [Pool!PoolNext]_(Pool!poolVars)
  <1>1. ASSUME NEW a \in Auths, NEW snap \in Snapshots[a], Upsert(a, snap)
        PROVE  [Pool!PoolNext]_(Pool!poolVars)
    BY <1>1, TellStep DEF Pool!PoolNext
  <1>2. ASSUME NEW snap \in Loads, Rebuild(snap)
        PROVE  [Pool!PoolNext]_(Pool!poolVars)
    BY <1>2, TellAllStep DEF Pool!PoolNext
  <1>3. ASSUME NEW q \in Queries, Pick(q)
        PROVE  [Pool!PoolNext]_(Pool!poolVars)
    BY <1>3, OfferStep DEF Pool!PoolNext
  <1>4. ASSUME Tick
        PROVE  [Pool!PoolNext]_(Pool!poolVars)
    <2>1. UNCHANGED <<home, metas, shards>> /\ now < MaxNow /\ now' = now + 1 /\ answer' = Quiet
      BY <1>4 DEF Tick
    <2>2. Known' = Known
      BY <2>1 DEF Known
    <2>3. Pool!Withholding({})
      BY <2>1, ShardsKept, WithholdingKept
    <2> QED  BY <2>1, <2>2, <2>3 DEF Pool!PoolNext, Pool!Tick, Pool!Quiet, Quiet
  <1>5. ASSUME UNCHANGED <<home, metas, shards, now, answer>>
        PROVE  [Pool!PoolNext]_(Pool!poolVars)
    <2>1. Known' = Known /\ Withheld' = Withheld
      BY <1>5 DEF Known, Withheld
    <2> QED  BY <1>5, <2>1 DEF Pool!poolVars
  <1>6. ASSUME SetSelector
        PROVE  [Pool!PoolNext]_(Pool!poolVars)
    BY <1>5, <1>6 DEF SetSelector
  <1>7. ASSUME UNCHANGED vars
        PROVE  [Pool!PoolNext]_(Pool!poolVars)
    BY <1>5, <1>7 DEF vars
  <1> QED
    BY <1>1, <1>2, <1>3, <1>4, <1>6, <1>7 DEF Next

\* The scheduler implements the pool (scheduler.go 150-480, 631-735 against
\* selector.go 378-419, 430-480): each offer is of the highest priority among the
\* credentials that may be called now and are not withheld, a refusal means that
\* there are none, and one that may be called is withheld only for a quota's
\* recovery time noted while it was held, if nothing was told of it since.
THEOREM SchedulerImplementsPool == Spec => PoolSpec
  <1>1. Init => SchedInv /\ Pool!PoolInit
    <2> SUFFICES ASSUME Init PROVE SchedInv /\ Pool!PoolInit
      OBVIOUS
    <2>1. Known = [a \in Auths |-> Nil] /\ Withheld = [a \in Auths |-> {}]
      BY DEF Init, Known, Withheld
    <2>2. now = 1 /\ answer = Quiet
      BY DEF Init
    <2> QED  BY <2>1, <2>2, SchedInit DEF Pool!PoolInit, Pool!Quiet, Quiet
  <1>2. SchedInv /\ [Next]_vars => SchedInv' /\ [Pool!PoolNext]_(Pool!poolVars)
    BY SchedStep, PoolStep
  <1> QED
    BY <1>1, <1>2, PTL DEF Spec, PoolSpec, Pool!PoolSpec

-----------------------------------------------------------------------------
(* Orders without repetition, and turns that go round them. *)

\* What is sorted has none twice if the order has none twice.
LEMMA SortedDistinct ==
    ASSUME NEW T, NEW order \in Seq(T), IsInjective(order), NEW S
    PROVE  IsInjective(Sorted(order, S))
  <1> DEFINE N == Len(order)
             f == CHOOSE h : SortedUpTo(order, S, N, h)
  <1>1. N \in Nat /\ DOMAIN order = 1 .. N
    OBVIOUS
  <1>2. SortedUpTo(order, S, N, f)
    BY <1>1, SortedExists
  <1>3. Sorted(order, S) = f[N]
    BY DEF Sorted, SortedUpTo
  <1> HIDE DEF f
  <1> DEFINE Upto(i) == {order[k] : k \in 1 .. i}
             Right(i) == f[i] \in Seq(T) /\ ToSet(f[i]) \subseteq Upto(i) /\ IsInjective(f[i])
             Bad == {i \in 0 .. N : ~Right(i)}
  <1>4. ASSUME NEW i \in Bad, \A j \in Bad : i <= j PROVE FALSE
    <2>0. i \in 0 .. N /\ ~Right(i)
      OBVIOUS
    <2>1. CASE i = 0
      <3>1. f[0] = <<>>
        BY <1>1, <1>2 DEF SortedUpTo
      <3>2. ToSet(<<>>) = {} /\ <<>> \in Seq(T) /\ IsInjective(<<>>)
        BY DEF ToSet, IsInjective
      <3> QED  BY <2>0, <2>1, <3>1, <3>2
    <2>2. CASE i # 0
      <3>1. i - 1 \in 0 .. N /\ i - 1 \notin Bad
        <4> HIDE DEF Bad
        <4> QED  BY <1>1, <1>4, <2>0, <2>2
      <3>2. Right(i - 1)
        BY <3>1
      <3>3. f[i] = IF order[i] \in S THEN Append(f[i - 1], order[i]) ELSE f[i - 1]
        BY <1>2, <2>0, <2>2 DEF SortedUpTo
      <3>4. order[i] \in T /\ i \in 1 .. N
        BY <1>1, <2>0, <2>2
      <3>5. Upto(i) = Upto(i - 1) \cup {order[i]}
        <4>1. \A k : k \in 1 .. i <=> k \in 1 .. i - 1 \/ k = i
          BY <2>0, <2>2
        <4> QED  BY <4>1
      <3>6. order[i] \notin Upto(i - 1)
        <4> SUFFICES ASSUME NEW k \in 1 .. i - 1, order[i] = order[k] PROVE FALSE
          OBVIOUS
        <4>1. k \in 1 .. N /\ k # i
          BY <1>1, <3>4
        <4> QED  BY <1>1, <3>4, <4>1 DEF IsInjective
      <3> HIDE DEF Upto
      <3>7. \A s \in Seq(T), e \in T : e \notin ToSet(s) /\ IsInjective(s) =>
                /\ Append(s, e) \in Seq(T) /\ ToSet(Append(s, e)) = ToSet(s) \cup {e}
                /\ IsInjective(Append(s, e))
        <4> SUFFICES ASSUME NEW s \in Seq(T), NEW e \in T, e \notin ToSet(s), IsInjective(s)
                     PROVE  /\ Append(s, e) \in Seq(T)
                            /\ ToSet(Append(s, e)) = ToSet(s) \cup {e}
                            /\ IsInjective(Append(s, e))
          OBVIOUS
        <4>1. Len(Append(s, e)) = Len(s) + 1 /\ Len(s) \in Nat /\ Append(s, e) \in Seq(T)
          OBVIOUS
        <4>2. \A k \in 1 .. Len(s) : Append(s, e)[k] = s[k]
          OBVIOUS
        <4>3. Append(s, e)[Len(s) + 1] = e
          OBVIOUS
        <4>4. \A k : k \in 1 .. Len(s) + 1 <=> k \in 1 .. Len(s) \/ k = Len(s) + 1
          BY <4>1
        <4>5. DOMAIN Append(s, e) = 1 .. Len(s) + 1 /\ DOMAIN s = 1 .. Len(s)
          OBVIOUS
        <4>6. ToSet(Append(s, e)) = ToSet(s) \cup {e}
          BY <4>1, <4>2, <4>3, <4>4, <4>5 DEF ToSet
        <4>7. \A k \in 1 .. Len(s) : s[k] # e
          BY <4>5 DEF ToSet
        <4>8. IsInjective(Append(s, e))
          BY <4>2, <4>3, <4>4, <4>5, <4>7 DEF IsInjective
        <4> QED  BY <4>1, <4>6, <4>8
      <3>8. CASE order[i] \in S
        <4>1. f[i] = Append(f[i - 1], order[i]) /\ order[i] \notin ToSet(f[i - 1])
          BY <3>2, <3>3, <3>6, <3>8
        <4>2. /\ Append(f[i - 1], order[i]) \in Seq(T) /\ IsInjective(Append(f[i - 1], order[i]))
              /\ ToSet(Append(f[i - 1], order[i])) = ToSet(f[i - 1]) \cup {order[i]}
          BY <3>2, <3>4, <3>7, <4>1
        <4>3. Right(i)
          BY <3>2, <3>5, <4>1, <4>2
        <4> QED  BY <2>0, <4>3
      <3>9. CASE order[i] \notin S
        <4>1. Right(i)
          BY <3>2, <3>3, <3>5, <3>9
        <4> QED  BY <2>0, <4>1
      <3> QED  BY <3>8, <3>9
    <2> QED  BY <2>1, <2>2
  <1>5. Bad = {}
    <2> HIDE DEF Bad
    <2>1. Bad \subseteq Nat
      BY <1>1 DEF Bad
    <2> QED  BY <1>4, <2>1, LeastNat
  <1>6. Right(N)
    <2>1. N \in 0 .. N
      BY <1>1
    <2>2. N \notin Bad
      BY <1>5
    <2> QED  BY <2>1, <2>2
  <1> QED
    BY <1>3, <1>6

\* A sequence without repetition is as long as it has elements.
LEMMA AsLongAsMany ==
    ASSUME NEW T, NEW s \in Seq(T), IsInjective(s)
    PROVE  IsFiniteSet(ToSet(s)) /\ Cardinality(ToSet(s)) = Len(s)
  <1>1. Len(s) \in Nat /\ DOMAIN s = 1 .. Len(s)
    OBVIOUS
  <1>2. IsFiniteSet(1 .. Len(s)) /\ Cardinality(1 .. Len(s)) = Len(s)
    <2>1. 1 \in Int /\ Len(s) \in Int
      BY <1>1
    <2>2. IsFiniteSet(1 .. Len(s))
          /\ Cardinality(1 .. Len(s)) = IF 1 > Len(s) THEN 0 ELSE Len(s) - 1 + 1
      BY ONLY <2>1, FS_Interval
    <2> QED  BY <1>1, <2>2
  <1>3. s \in [1 .. Len(s) -> ToSet(s)]
    BY <1>1 DEF ToSet
  <1>4. ExistsBijection(1 .. Len(s), ToSet(s))
    <2>1. \A e \in ToSet(s) : \E k \in 1 .. Len(s) : s[k] = e
      BY <1>1 DEF ToSet
    <2> QED  BY <1>3, <2>1 DEF ExistsBijection, Bijection, Injection, Surjection
  <1> QED
    BY <1>2, <1>4, FS_Bijection

\* The next place, going round.
LEMMA NextPlace ==
    ASSUME NEW n \in Nat \ {0}, NEW t \in Nat
    PROVE  /\ t % n \in 0 .. n - 1
           /\ (t + 1) % n = (IF t % n = n - 1 THEN 0 ELSE (t % n) + 1)
           /\ ((t % n) + 1) % n = (IF t % n = n - 1 THEN 0 ELSE (t % n) + 1)
  <1>1. PICK d \in Nat, r \in 0 .. n - 1 : t = n * d + r
    BY Divided
  <1>2. ASSUME NEW q \in Nat, NEW i \in 0 .. n - 1 PROVE (n * q + i) % n = i
    OBVIOUS
  <1>3. t % n = r
    BY <1>1, <1>2
  <1>4. (t + 1) % n = IF r = n - 1 THEN 0 ELSE r + 1
    <2>1. CASE r = n - 1
      <3>1. n * (d + 1) = n * d + n /\ n * d \in Nat /\ n * (d + 1) \in Nat
        BY <1>1
      <3>2. t + 1 = n * (d + 1) + 0
        BY <1>1, <2>1, <3>1
      <3>3. (n * (d + 1) + 0) % n = 0
        BY <1>1, <1>2
      <3> QED  BY <2>1, <3>2, <3>3
    <2>2. CASE r # n - 1
      <3>1. r + 1 \in 0 .. n - 1 /\ n * d \in Nat
        BY <1>1, <2>2
      <3>2. t + 1 = n * d + (r + 1)
        BY <1>1, <3>1
      <3>3. (n * d + (r + 1)) % n = r + 1
        BY <1>2, <3>1
      <3> QED  BY <2>2, <3>2, <3>3
    <2> QED  BY <2>1, <2>2
  <1>5. (r + 1) % n = IF r = n - 1 THEN 0 ELSE r + 1
    <2>1. CASE r = n - 1
      <3>1. r + 1 = n * 1 + 0 /\ (n * 1 + 0) % n = 0
        BY <1>2, <2>1
      <3> QED  BY <2>1, <3>1
    <2>2. CASE r # n - 1
      <3>1. r + 1 \in 0 .. n - 1 /\ r + 1 = n * 0 + (r + 1)
        BY <2>2
      <3>2. (n * 0 + (r + 1)) % n = r + 1
        BY <1>2, <3>1
      <3> QED  BY <2>2, <3>1, <3>2
    <2> QED  BY <2>1, <2>2
  <1> QED
    BY <1>1, <1>3, <1>4, <1>5

\* The search starts at the cursor, and ends there if all are allowed.
LEMMA FirstFromStart ==
    ASSUME NEW T, NEW order \in Seq(T), order # <<>>, NEW start \in Nat, NEW C,
           ToSet(order) \subseteq C
    PROVE  FirstFrom(order, start, C) = start % Len(order)
  <1> DEFINE n == Len(order)
             K == {k \in 0 .. (n - 1) : order[((start + k) % n) + 1] \in C}
  <1>1. n \in Nat \ {0} /\ DOMAIN order = 1 .. n
    OBVIOUS
  <1>2. order[((start + 0) % n) + 1] \in C
    <2>1. start % n \in 0 .. n - 1
      BY <1>1, GoingRound
    <2>2. (start % n) + 1 \in 1 .. n
      BY <1>1, <2>1
    <2> QED  BY <1>1, <2>2 DEF ToSet
  <1>3. 0 \in K /\ K \subseteq Nat
    BY <1>1, <1>2
  <1>4. Min(K) = 0
    <2>1. Min(K) \in K /\ Min(K) <= 0
      <3> HIDE DEF K
      <3> QED  BY <1>3, MinIsLeast
    <2> HIDE DEF K
    <2>2. Min(K) \in Nat
      BY <1>3, <2>1
    <2> QED  BY <2>1, <2>2
  <1>5. FirstFrom(order, start, C) = (start + Min(K)) % n
    BY DEF FirstFrom
  <1> HIDE DEF K, n
  <1>6. FirstFrom(order, start, C) = start % n
    BY <1>4, <1>5
  <1> QED
    BY <1>6 DEF n

\* A place that moves on when it is its turn, with the count of its turns.
Rotates(place, count, n, N) ==
    /\ place[0] \in Nat /\ count[0] = 0
    /\ \A k \in 1 .. N :
          \/ place[k] = (place[k - 1] % n) + 1 /\ count[k] = count[k - 1] + 1
          \/ place[k] = place[k - 1] /\ count[k] = count[k - 1]

\* It is where the count says.
LEMMA CountedOn ==
    ASSUME NEW n \in Nat \ {0}, NEW N \in Nat, NEW place, NEW count, Rotates(place, count, n, N)
    PROVE  \A k \in 0 .. N : /\ place[k] \in Nat /\ count[k] \in Nat
                             /\ place[k] % n = (place[0] + count[k]) % n
  <1> DEFINE Right(k) == /\ place[k] \in Nat /\ count[k] \in Nat
                         /\ place[k] % n = (place[0] + count[k]) % n
             Bad == {k \in 0 .. N : ~Right(k)}
  <1>1. ASSUME NEW k \in Bad, \A j \in Bad : k <= j PROVE FALSE
    <2>0. k \in 0 .. N /\ ~Right(k)
      OBVIOUS
    <2>1. CASE k = 0
      BY <2>0, <2>1 DEF Rotates
    <2>2. CASE k # 0
      <3>1. k - 1 \in 0 .. N /\ k - 1 \notin Bad /\ k \in 1 .. N
        <4> HIDE DEF Bad
        <4> QED  BY <1>1, <2>0, <2>2
      <3> DEFINE c == place[k - 1]
                 t == place[0] + count[k - 1]
      <3>2. c \in Nat /\ count[k - 1] \in Nat /\ c % n = t % n /\ t \in Nat
            /\ place[0] \in Nat
        BY <3>1 DEF Rotates
      <3>3. CASE place[k] = (place[k - 1] % n) + 1 /\ count[k] = count[k - 1] + 1
        <4>1. /\ ((c % n) + 1) % n = (IF c % n = n - 1 THEN 0 ELSE (c % n) + 1)
              /\ c % n \in 0 .. n - 1
          <5> HIDE DEF c
          <5> QED  BY <3>2, NextPlace
        <4>2. (t + 1) % n = (IF t % n = n - 1 THEN 0 ELSE (t % n) + 1)
          <5> HIDE DEF t
          <5> QED  BY <3>2, NextPlace
        <4>3. place[0] + count[k] = t + 1 /\ count[k] \in Nat
          BY <3>2, <3>3
        <4>4. place[k] = (c % n) + 1
          BY <3>3
        <4> HIDE DEF c, t
        <4>5. place[k] \in Nat /\ place[k] % n = (place[0] + count[k]) % n
          BY <3>2, <4>1, <4>2, <4>3, <4>4
        <4> QED  BY <2>0, <4>3, <4>5
      <3>4. CASE place[k] = place[k - 1] /\ count[k] = count[k - 1]
        BY <2>0, <3>2, <3>4
      <3> QED  BY <3>1, <3>3, <3>4 DEF Rotates
    <2> QED  BY <2>1, <2>2
  <1>2. Bad = {}
    <2> HIDE DEF Bad
    <2>1. Bad \subseteq Nat
      BY DEF Bad
    <2> QED  BY <1>1, <2>1, LeastNat
  <1> QED
    BY <1>2

\* As many turns in a row as there are places come to every place.
LEMMA EachPlace ==
    ASSUME NEW n \in Nat \ {0}, NEW place, place[0] \in Nat,
           \A k \in 1 .. n : place[k] = (place[k - 1] % n) + 1
    PROVE  /\ \A k \in 1 .. n : place[k - 1] % n \in 0 .. n - 1
           /\ \A i \in 0 .. n - 1 : \E k \in 1 .. n : place[k - 1] % n = i
  <1> DEFINE count == [k \in 0 .. n |-> k]
  <1>1. \A k \in 0 .. n : count[k] = k
    OBVIOUS
  <1> HIDE DEF count
  <1>2. count[0] = 0 /\ \A k \in 1 .. n : count[k] = count[k - 1] + 1
    BY <1>1
  <1>3. \A k \in 0 .. n : place[k] \in Nat /\ place[k] % n = (place[0] + count[k]) % n
    <2>1. Rotates(place, count, n, n)
      BY <1>2 DEF Rotates
    <2> QED  BY <2>1, CountedOn
  <1>4. \A k \in 1 .. n : /\ place[k - 1] \in Nat
                          /\ place[k - 1] % n = (place[0] + (k - 1)) % n
    BY <1>1, <1>3
  <1>5. \A k \in 1 .. n : place[k - 1] % n \in 0 .. n - 1
    BY <1>4, GoingRound
  <1>6. ASSUME NEW i \in 0 .. n - 1 PROVE \E k \in 1 .. n : place[k - 1] % n = i
    <2>1. PICK j \in 0 .. n - 1 : (place[0] + j) % n = i
      BY GoingRound
    <2>2. j + 1 \in 1 .. n /\ (j + 1) - 1 = j
      BY <2>1
    <2> QED  BY <1>4, <2>1, <2>2
  <1> QED
    BY <1>5, <1>6

-----------------------------------------------------------------------------
(* Turns at one provider. *)

\* Where the rotation of a view stands: among the parents if it is over them.
Place(v) == IF v.parents = <<>> THEN v.cursor ELSE v.parentCursor
Stops(w) == IF w.parents = <<>> THEN Len(w.flat) ELSE Len(w.parents)
AtStop(w, known, a, i) ==
    IF w.parents = <<>> THEN a = w.flat[i + 1] ELSE known[a].parent = w.parents[i + 1]

\* A turn of a view that offers a: the one where the rotation stands, which
\* moves on to the next.
Advances(v, v2, w, known, a) ==
    /\ Place(v) \in Nat /\ Stops(w) \in Nat \ {0}
    /\ AtStop(w, known, a, Place(v) % Stops(w))
    /\ Place(v2) = (Place(v) % Stops(w)) + 1

\* If all are allowed, the one where the rotation stands is offered, and the
\* rotation moves on to the next.
LEMMA TurnIsNext ==
    ASSUME NEW known, IsKnown(known), NEW S \in SUBSET DOMAIN known,
           NEW v, IsTurned(v, View(S, known)), NEW C, S # {}, S \subseteq C
    PROVE  LET w == View(S, known)
               u == RoundRobin(v, C)
           IN  Advances(v, u.view, w, known, u.auth)
  <1> DEFINE w == View(S, known)
             u == RoundRobin(v, C)
  <1>1. S \in SUBSET Auths
    BY DEF IsKnown
  <1>2. /\ v.flat = InOrder(S) /\ v.parents = w.parents /\ v.cursor \in Nat /\ v.parentCursor \in Nat
        /\ DOMAIN v.children = ToSet(v.parents)
    BY TurnedHas
  <1>3. \A g \in ToSet(v.parents) :
                 /\ v.children[g].flat = InOrder(KidsOf(S, known, g))
                 /\ v.children[g].cursor \in Nat
    BY TurnedHas
  <1>4. /\ w.flat = InOrder(S) /\ v.parents \in Seq(ToSet(ParentOrder))
        /\ v.parents # <<>> => ToSet(v.parents) = ParentsOf(S, known)
    BY <1>2, ViewHas
  <1>5. InOrder(S) \in Seq(Auths) /\ ToSet(InOrder(S)) = S /\ InOrder(S) # <<>>
    <2>1. InOrder(S) \in Seq(Auths) /\ ToSet(InOrder(S)) = S
      BY <1>1, InOrderHasAll
    <2>2. ToSet(<<>>) = {}
      BY DEF ToSet
    <2> QED  BY <2>1, <2>2
  <1> HIDE DEF w
  <1>6. CASE v.parents = <<>>
    <2> DEFINE i == FirstFrom(v.flat, v.cursor, C)
    <2>1. i = v.cursor % Len(InOrder(S))
      BY <1>2, <1>5, FirstFromStart
    <2> HIDE DEF i
    <2>2. u = [auth |-> v.flat[i + 1], view |-> [v EXCEPT !.cursor = i + 1]]
      BY <1>6 DEF RoundRobin, i
    <2>3. Place(v) = v.cursor /\ Stops(w) = Len(InOrder(S)) /\ Len(InOrder(S)) \in Nat \ {0}
      BY <1>2, <1>4, <1>5, <1>6 DEF Place, Stops
    <2>4. u.auth = w.flat[i + 1] /\ u.view.cursor = i + 1 /\ u.view.parents = <<>>
      <3>1. DOMAIN v = DOMAIN Turned(w, 0, 0, <<>>)
        BY DEF IsTurned, Turned, w
      <3>2. "cursor" \in DOMAIN v
        BY <3>1 DEF Turned
      <3>3. u.auth = v.flat[i + 1] /\ u.view = [v EXCEPT !.cursor = i + 1]
        BY <2>2
      <3> QED  BY <1>2, <1>4, <1>6, <3>2, <3>3
    <2> QED
      BY <1>2, <1>6, <2>1, <2>3, <2>4 DEF Place, AtStop, Advances, w
  <1>7. CASE v.parents # <<>>
    <2> DEFINE G == {p \in DOMAIN v.children : Serves(v.children[p], C)}
               i == FirstFrom(v.parents, v.parentCursor, G)
               p == v.parents[i + 1]
               j == FirstFrom(v.children[p].flat, v.children[p].cursor, C)
               n == Len(v.parents)
    <2>1. \A g \in ToSet(v.parents) :
             /\ v.children[g].flat \in Seq(Auths)
             /\ ToSet(v.children[g].flat) = KidsOf(S, known, g)
      <3> SUFFICES ASSUME NEW g \in ToSet(v.parents)
                   PROVE  /\ v.children[g].flat \in Seq(Auths)
                          /\ ToSet(v.children[g].flat) = KidsOf(S, known, g)
        OBVIOUS
      <3>2. v.children[g].flat = InOrder(KidsOf(S, known, g))
        BY <1>3
      <3>3. KidsOf(S, known, g) \in SUBSET Auths
        BY <1>1 DEF KidsOf
      <3> QED  BY <3>2, <3>3, InOrderHasAll
    <2>2. \A g \in ToSet(v.parents) : ToSet(v.children[g].flat) \cap C # {}
      <3> SUFFICES ASSUME NEW g \in ToSet(v.parents)
                   PROVE  ToSet(v.children[g].flat) \cap C # {}
        OBVIOUS
      <3>1. PICK a \in S : known[a].parent = g
        BY <1>4, <1>7 DEF ParentsOf
      <3>2. a \in ToSet(v.children[g].flat) /\ a \in C
        BY <2>1, <3>1 DEF KidsOf
      <3> QED  BY <3>2
    <2>3. ToSet(v.parents) \subseteq G
      BY <1>2, <2>2 DEF Serves
    <2>4. i = v.parentCursor % n /\ n \in Nat \ {0}
      <3> HIDE DEF G
      <3>1. i = v.parentCursor % n
        BY <1>2, <1>4, <1>7, <2>3, FirstFromStart
      <3> QED  BY <1>4, <1>7, <3>1
    <2>5. i \in 0 .. n - 1
      <3> HIDE DEF i, n
      <3> QED  BY <1>2, <2>4, GoingRound
    <2>6. p \in ToSet(v.parents)
      <3>1. i + 1 \in 1 .. n
        <4> HIDE DEF i, n
        <4> QED  BY <2>4, <2>5
      <3>2. DOMAIN v.parents = 1 .. n
        BY <1>4
      <3> HIDE DEF i, n
      <3> QED  BY <3>1, <3>2 DEF ToSet
    <2> HIDE DEF G, i, n
    <2>7. p \in ToSet(v.parents) /\ v.children[p].cursor \in Nat
      BY <1>3, <2>6
    <2> HIDE DEF p
    <2>8. v.children[p].flat[j + 1] \in KidsOf(S, known, p)
      <3>1. v.children[p].flat \in Seq(Auths) /\ ToSet(v.children[p].flat) \cap C # {}
            /\ ToSet(v.children[p].flat) = KidsOf(S, known, p)
        BY <2>1, <2>2, <2>7
      <3> QED  BY <2>7, <3>1, FirstFromServes
    <2>9. u = [auth |-> v.children[p].flat[j + 1],
                    view |-> [v EXCEPT !.parentCursor = i + 1, !.children[p].cursor = j + 1]]
      BY <1>7 DEF RoundRobin, G, i, p
    <2> HIDE DEF j
    <2>10. known[u.auth].parent = p
      BY <2>8, <2>9 DEF KidsOf
    <2>11. u.view.parentCursor = i + 1 /\ u.view.parents = v.parents
      <3>1. DOMAIN v = DOMAIN Turned(w, 0, 0, <<>>)
        BY DEF IsTurned, Turned, w
      <3>2. "parentCursor" \in DOMAIN v /\ "parents" \in DOMAIN v /\ "children" \in DOMAIN v
        BY <3>1 DEF Turned
      <3>3. u.view = [v EXCEPT !.parentCursor = i + 1, !.children[p].cursor = j + 1]
        BY <2>9
      <3>4. u.view = [[v EXCEPT !.parentCursor = i + 1] EXCEPT !.children[p].cursor = j + 1]
        BY <3>3
      <3>5. [v EXCEPT !.parentCursor = i + 1].parentCursor = i + 1
            /\ [v EXCEPT !.parentCursor = i + 1].parents = v.parents
        BY <3>2
      <3> QED  BY <3>4, <3>5
    <2>12. Place(v) = v.parentCursor /\ Stops(w) = n
      BY <1>2, <1>7 DEF Place, Stops, n
    <2> QED
      BY <1>2, <1>7, <2>4, <2>10, <2>11, <2>12 DEF Place, AtStop, Advances, p, w
  <1> QED
    BY <1>6, <1>7 DEF w

\* Of the views of a bucket, the one that is chosen from.
Side(S, known, prefer) == IF prefer /\ WsOf(S, known) # {} THEN "ws" ELSE "all"

\* A pick at a priority all of which is allowed moves the rotation on by one.
LEMMA PickAtTurns ==
    ASSUME NEW known, IsKnown(known), NEW m, NEW t, NEW s, ShardOK(s, known, m, t),
           NEW n \in Levels(s.entries, known), NEW prefer, NEW C,
           ReadyAt(s.entries, known, n) \subseteq C
    PROVE  LET L == ReadyAt(s.entries, known, n)
               side == Side(L, known, prefer)
               w == View(Favored(L, known, prefer), known)
               r == PickAt(s, n, prefer, "roundRobin", C)
           IN  Advances(s.ready[n][side], r.shard.ready[n][side], w, known, r.auth)
  <1> DEFINE L == ReadyAt(s.entries, known, n)
             S == Favored(L, known, prefer)
             side == Side(L, known, prefer)
             v == s.ready[n][side]
             u == RoundRobin(v, C)
             r == PickAt(s, n, prefer, "roundRobin", C)
  <1>1. DOMAIN s.entries \subseteq DOMAIN known /\ DOMAIN s.ready = Levels(s.entries, known)
    BY DEF ShardOK, EntriesOK, ReadyOK
  <1>2. L # {} /\ L \in SUBSET DOMAIN known /\ WsOf(L, known) \in SUBSET DOMAIN known
    <2>1. L # {}
      <3>1. PICK a \in ReadyOf(s.entries) : known[a].priority = n
        BY DEF Levels
      <3> QED  BY <3>1 DEF ReadyOf, ReadyAt
    <2> QED  BY <1>1, <2>1, ReadyAtKnown
  <1>3. S # {} /\ S \in SUBSET DOMAIN known /\ S \subseteq C
    <2> HIDE DEF L
    <2>1. L \subseteq C
      BY DEF L
    <2> QED  BY <1>2, <2>1 DEF Favored, WsOf
  <1>4. BucketOK(s.ready[n], L, known)
    BY DEF ShardOK, ReadyOK
  <1> HIDE DEF L
  <1>5. IsTurned(v, View(S, known)) /\ side \in {"all", "ws"} /\ side \in DOMAIN s.ready[n]
    <2>1. DOMAIN s.ready[n] = {"all", "ws"}
      BY <1>4 DEF BucketOK
    <2> QED  BY <1>4, <2>1 DEF BucketOK, Side, Favored
  <1>6. Serves(s.ready[n].ws, C) <=> WsOf(L, known) # {}
    <2>1. Serves(s.ready[n].ws, C) <=> WsOf(L, known) \cap C # {}
      BY <1>2, <1>4, ViewServes DEF BucketOK
    <2>2. WsOf(L, known) \subseteq C
      BY DEF WsOf, L
    <2> QED  BY <2>1, <2>2
  <1>7. r = [auth |-> u.auth, shard |-> [s EXCEPT !.ready[n][side] = u.view]]
    <2>1. (IF prefer /\ Serves(s.ready[n].ws, C) THEN "ws" ELSE "all") = side
      BY <1>6 DEF Side
    <2> HIDE DEF side
    <2> QED  BY <2>1 DEF PickAt
  <1> HIDE DEF S, side, v, u, r
  <1>8. Advances(v, u.view, View(S, known), known, u.auth)
    BY <1>3, <1>5, TurnIsNext DEF u
  <1>9. r.auth = u.auth /\ r.shard = [s EXCEPT !.ready[n][side] = u.view]
    BY <1>7
  <1>10. {"entries", "ready"} \subseteq DOMAIN s
    BY DEF ShardOK
  <1>11. r.shard.ready = [s.ready EXCEPT ![n][side] = u.view]
    BY <1>9, <1>10
  <1>12. r.shard.ready[n][side] = u.view
    BY <1>1, <1>5, <1>11
  <1> QED
    BY <1>8, <1>9, <1>12 DEF S, side, v, r, L

\* A shard of those entries, none of which is due.
Settled(s, E, known, m) ==
    /\ ShardOK(s, known, m, now) /\ s.entries = E
    /\ \A a \in DOMAIN E : ~Queueing(E[a], now)

\* It is not promoted when it is asked for.
LEMMA SettledStays ==
    ASSUME NEW built, NEW p, NEW m \in DOMAIN built[p], NEW E,
           Settled(built[p][m], E, metas[p], m)
    PROVE  Shard(built, p, m) = built[p][m]
  <1> DEFINE s == built[p][m]
             due == {a \in s.blocked : s.entries[a].next # 0 /\ s.entries[a].next <= now}
  <1>1. s.blocked = Queued(s.entries) /\ s.entries = E
    <2> HIDE DEF s
    <2>1. ShardOK(s, metas[p], m, now)
      BY DEF Settled, s
    <2>2. s = [entries |-> s.entries, ready |-> s.ready, blocked |-> Queued(s.entries)]
      BY <2>1 DEF ShardOK
    <2> QED  BY <2>2 DEF Settled, s
  <1>2. due = {}
    <2> HIDE DEF s
    <2> QED  BY <1>1 DEF Queued, Settled, Queueing, Held
  <1>3. Shard(built, p, m) = Promoted(s, m, metas[p])
    BY DEF Shard
  <1>4. Promoted(s, m, metas[p]) = s
    <2> HIDE DEF s
    <2> QED  BY <1>2 DEF Promoted
  <1> QED
    BY <1>3, <1>4

\* A shard that is asked for is settled.
LEMMA ShardSettles ==
    ASSUME now \in Nat \ {0}, NEW built, NEW p, NEW m, ProviderOK(metas[p], built[p], now)
    PROVE  Settled(Shard(built, p, m), Shard(built, p, m).entries, metas[p], m)
  <1>1. ShardOK(Shard(built, p, m), metas[p], m, now)
    BY ShardIsOK DEF IsTime
  <1> QED
    BY <1>1, NoneIsDue DEF Settled

\* The level of those of R that come first.
Top(R, known, prefer, h) ==
    /\ \E a \in Favored(R, known, prefer) : known[a].priority = h
    /\ \A a \in Favored(R, known, prefer) : known[a].priority <= h

\* The highest priority found is the one that is at the top.
LEMMA TopIsHighest ==
    ASSUME NEW known, IsKnown(known), NEW m, NEW t, NEW s, ShardOK(s, known, m, t), NEW C,
           NEW prefer, NEW h, Top(ReadyOf(s.entries) \cap C, known, prefer, h)
    PROVE  HighestReady(s, prefer, C) = h
  <1> DEFINE R == ReadyOf(s.entries) \cap C
             F == Favored(R, known, prefer)
             g == HighestReady(s, prefer, C)
  <1>1. \A a \in F : a \in R /\ known[a].priority \in Int
    <2>1. DOMAIN s.entries \subseteq DOMAIN known
      BY DEF ShardOK, EntriesOK
    <2> QED  BY <2>1 DEF Favored, WsOf, ReadyOf, IsKnown, IsSnapshot
  <1>2. PICK a \in F : known[a].priority = h
    BY DEF Top
  <1>3. R # {}
    BY <1>1, <1>2
  <1>4. (\E b \in F : known[b].priority = g) /\ \A b \in F : known[b].priority <= g
    BY <1>3, HighestReadyOK
  <1>5. PICK b \in F : known[b].priority = g
    BY <1>4
  <1>6. \A c \in F : known[c].priority <= h
    BY DEF Top
  <1> HIDE DEF F, g
  <1>7. g <= h /\ h <= g /\ g \in Int /\ h \in Int
    BY <1>1, <1>2, <1>4, <1>5, <1>6
  <1> QED
    BY <1>7 DEF g

\* Those that come first are the ones of the chosen view.
LEMMA ForemostIsView ==
    ASSUME NEW E, NEW known, IsKnown(known), DOMAIN E \subseteq DOMAIN known, NEW prefer, NEW h,
           Top(ReadyOf(E), known, prefer, h)
    PROVE  Foremost(ReadyOf(E), known, prefer) = Favored(ReadyAt(E, known, h), known, prefer)
  <1> DEFINE R == ReadyOf(E)
             F == Favored(R, known, prefer)
             L == ReadyAt(E, known, h)
  <1>1. L = {a \in R : known[a].priority = h}
    BY DEF ReadyAt, ReadyOf
  <1>2. PICK a \in F : known[a].priority = h
    BY DEF Top
  <1>3. \A b \in F : b \in R /\ known[b].priority \in Int /\ known[b].priority <= h
    BY DEF Top, Favored, WsOf, ReadyOf, IsKnown, IsSnapshot
  <1>4. Foremost(R, known, prefer) = {b \in F : known[b].priority = h}
    <2>1. Foremost(R, known, prefer)
             = {b \in F : \A c \in F : known[c].priority <= known[b].priority}
      BY DEF Foremost
    <2> HIDE DEF F, R
    <2>2. ASSUME NEW b \in F
          PROVE  known[b].priority = h <=> \A c \in F : known[c].priority <= known[b].priority
      BY <1>2, <1>3
    <2> QED  BY <2>1, <2>2
  <1>5. {b \in F : known[b].priority = h} = Favored(L, known, prefer)
    <2>1. CASE prefer /\ WsOf(R, known) # {}
      <3>1. F = WsOf(R, known)
        BY <2>1 DEF Favored
      <3>2. a \in WsOf(L, known)
        BY <1>1, <1>2, <3>1 DEF WsOf
      <3>3. Favored(L, known, prefer) = WsOf(L, known)
        BY <2>1, <3>2 DEF Favored
      <3> HIDE DEF F, L, R
      <3> QED  BY <1>1, <3>1, <3>3 DEF WsOf
    <2>2. CASE ~(prefer /\ WsOf(R, known) # {})
      <3>1. F = R
        BY <2>2 DEF Favored
      <3>2. WsOf(L, known) \subseteq WsOf(R, known)
        BY <1>1 DEF WsOf
      <3>3. Favored(L, known, prefer) = L
        BY <2>2, <3>2 DEF Favored
      <3> HIDE DEF F, L, R
      <3> QED  BY <1>1, <3>1, <3>3
    <2> QED  BY <2>1, <2>2
  <1> QED
    BY <1>4, <1>5

\* A choice at one provider, when all that are ready there are allowed, is a turn
\* of the view of those that come first; the shard keeps its entries.
LEMMA PickInTurns ==
    ASSUME now \in Nat \ {0}, strategy = "roundRobin", NEW st, ShardsOK(st.shards, metas, now),
           CursorsAreNat(st.mixed), NEW q, NEW p \in Providers, NEW E,
           Settled(Shard(st.shards, p, q.model), E, metas[p], q.model),
           ReadyOf(E) \subseteq Allowed(q), NEW h, Top(ReadyOf(E), metas[p], PrefersWebsocket(q), h)
    PROVE  LET L == ReadyAt(E, metas[p], h)
               side == Side(L, metas[p], PrefersWebsocket(q))
               w == View(Favored(L, metas[p], PrefersWebsocket(q)), metas[p])
               r == PickIn(st, p, q)
               s == Shard(st.shards, p, q.model)
               s2 == Shard(r.shards, p, q.model)
           IN  /\ ShardsOK(r.shards, metas, now) /\ CursorsAreNat(r.mixed)
               /\ Settled(s2, E, metas[p], q.model)
               /\ r.auth \in Foremost(ReadyOf(E), metas[p], PrefersWebsocket(q))
               /\ Advances(s.ready[h][side], s2.ready[h][side], w, metas[p], r.auth)
  <1> DEFINE known == metas[p]
             m == q.model
             C == Allowed(q)
             prefer == PrefersWebsocket(q)
             L == ReadyAt(E, known, h)
             side == Side(L, known, prefer)
             w == View(Favored(L, known, prefer), known)
             r == PickIn(st, p, q)
             s == Shard(st.shards, p, m)
             s2 == Shard(r.shards, p, m)
             pick == PickAt(s, h, prefer, "roundRobin", C)
  <1>1. IsKnown(known) /\ ShardOK(s, known, m, now) /\ s.entries = E
    BY DEF Settled, ShardsOK, ProviderOK
  <1>2. ReadyOf(s.entries) \cap C = ReadyOf(E)
    BY <1>1
  <1>3. HighestReady(s, prefer, C) = h
    <2>1. Top(ReadyOf(s.entries) \cap C, known, prefer, h)
      BY <1>2
    <2> HIDE DEF known, m, C, prefer, s
    <2> QED  BY <1>1, <2>1, TopIsHighest
  <1>4. PICK a \in ReadyOf(E) : known[a].priority = h
    BY DEF Top, Favored, WsOf
  <1>5. Priorities(s, "all", C) # {}
    <2> HIDE DEF s, known, m, C
    <2> QED  BY <1>1, <1>2, <1>4, SomePriority
  <1>6. PickReady(s, q, C) = pick
    BY <1>3, <1>5 DEF PickReady
  <1>7. h \in Levels(s.entries, known) /\ L \subseteq C /\ L # {}
    BY <1>1, <1>4 DEF Levels, ReadyAt, ReadyOf
  <1>8. /\ Advances(s.ready[h][side], pick.shard.ready[h][side], w, known, pick.auth)
        /\ pick.shard.entries = E
    <2> HIDE DEF known, m, C, prefer, s
    <2> DEFINE L1 == ReadyAt(s.entries, known, h)
               side1 == Side(L1, known, prefer)
               w1 == View(Favored(L1, known, prefer), known)
    <2>1. L1 = L
      BY <1>1
    <2>2. L1 \subseteq C
      BY <1>7, <2>1
    <2>3. Advances(s.ready[h][side1], pick.shard.ready[h][side1], w1, known, pick.auth)
      BY <1>1, <1>7, <2>2, PickAtTurns
    <2>5. pick.shard.entries = s.entries
      BY <1>1, EntriesStay
    <2>4. side1 = side /\ w1 = w
      BY <2>1
    <2> HIDE DEF L1, side1, w1, pick, L, side, w
    <2> QED  BY <1>1, <2>3, <2>4, <2>5
  <1>9. ShardOK(pick.shard, known, m, now)
    <2>1. ReadyAt(s.entries, known, h) \cap C # {}
      BY <1>1, <1>7
    <2> HIDE DEF known, m, C, prefer, s
    <2> QED  BY <1>1, <1>7, <2>1, PickAtOK
  <1>10. r.auth = pick.auth /\ r.mixed = st.mixed
         /\ r.shards = [st.shards EXCEPT ![p] = Assigned(@, m, pick.shard)]
    BY <1>6 DEF PickIn, Placed
  <1>11. /\ ShardsOK(r.shards, metas, now) /\ CursorsAreNat(r.mixed)
         /\ r.auth \in Foremost(ReadyOf(E), known, prefer)
    <2>1. Offerable(st.shards, p, q) = ReadyOf(E)
      BY <1>1, <1>2 DEF Offerable
    <2>2. ReadyOf(E) # {}
      BY <1>4
    <2> HIDE DEF r, known, prefer
    <2> QED  BY <2>1, <2>2, PickInOK DEF r, known, prefer
  <1> HIDE DEF pick, r
  <1>12. r.shards[p] = Assigned(st.shards[p], m, pick.shard)
    BY <1>10 DEF ShardsOK
  <1>13. m \in DOMAIN r.shards[p] /\ r.shards[p][m] = pick.shard
    BY <1>12 DEF Assigned
  <1>14. Settled(pick.shard, E, known, m)
    BY <1>8, <1>9 DEF Settled
  <1>15. s2 = pick.shard
    <2> HIDE DEF m
    <2> QED  BY <1>13, <1>14, SettledStays
  <1> HIDE DEF s2, s, w, side, L
  <1> QED
    BY <1>8, <1>10, <1>11, <1>14, <1>15 DEF s2, s, w, side, L, r

\* The stops of a view, and those that stand there.
LEMMA StopsAre ==
    ASSUME NEW known, IsKnown(known), NEW S \in SUBSET DOMAIN known, NEW P, P = ParentsOf(S, known)
    PROVE  LET w == View(S, known)
               grouped == Nil \notin P /\ Cardinality(P) > 1
           IN  /\ grouped <=> w.parents # <<>>
               /\ Cardinality(S) \in Nat /\ Stops(w) <= Cardinality(S)
               /\ grouped => /\ Stops(w) = Cardinality(P) /\ ToSet(w.parents) = P
                             /\ DOMAIN w.parents = 1 .. Stops(w)
               /\ ~grouped => /\ Stops(w) = Cardinality(S) /\ ToSet(w.flat) = S
                              /\ DOMAIN w.flat = 1 .. Stops(w)
  <1> DEFINE w == View(S, known)
             grouped == Nil \notin P /\ Cardinality(P) > 1
  <1>1. w.flat = InOrder(S) /\ w.parents = IF grouped THEN Sorted(ParentOrder, P) ELSE <<>>
    BY DEF View, ParentsOf
  <1>2. S \in SUBSET Auths
    BY DEF IsKnown
  <1>3. InOrder(S) \in Seq(Auths) /\ ToSet(InOrder(S)) = S
    BY <1>2, InOrderHasAll
  <1>4. IsInjective(InOrder(S))
    <2>1. IsInjective(Sorted(IdOrder, S))
      BY OrdersAreTotal, SortedDistinct
    <2> QED  BY <2>1 DEF InOrder
  <1>5. IsFiniteSet(S) /\ Cardinality(S) = Len(InOrder(S))
    BY <1>3, <1>4, AsLongAsMany
  <1>6. Len(InOrder(S)) \in Nat /\ DOMAIN InOrder(S) = 1 .. Len(InOrder(S))
    BY <1>3
  <1>7. IsFiniteSet(P) /\ Cardinality(P) <= Cardinality(S)
    <2> DEFINE f == [a \in S |-> known[a].parent]
    <2>1. f \in [S -> P] /\ \A g \in P : \E a \in S : f[a] = g
      BY DEF ParentsOf
    <2> HIDE DEF f
    <2>2. f \in Surjection(S, P)
      BY <2>1 DEF Surjection
    <2> QED  BY <1>5, <2>2, FS_Surjection
  <1>8. CASE grouped
    <2>1. \A a \in S : known[a].parent \in ToSet(ParentOrder) \cup {Nil}
      BY DEF IsKnown, IsSnapshot
    <2>2. P \subseteq ToSet(ParentOrder)
      BY <1>8, <2>1 DEF ParentsOf
    <2> DEFINE order == Sorted(ParentOrder, P)
    <2>3. order \in Seq(ToSet(ParentOrder)) /\ ToSet(order) = P
      <3>1. order \in Seq(ToSet(ParentOrder)) /\ ToSet(order) = P \cap ToSet(ParentOrder)
        BY SortedHasAll, OrdersAreTotal
      <3> HIDE DEF order
      <3> QED  BY <2>2, <3>1
    <2>4. IsInjective(order)
      BY OrdersAreTotal, SortedDistinct
    <2> HIDE DEF order
    <2>5. Cardinality(P) = Len(order)
      BY <2>3, <2>4, AsLongAsMany
    <2>6. order # <<>> /\ Len(order) \in Nat /\ DOMAIN order = 1 .. Len(order)
      BY <1>8, <2>3, <2>5
    <2>7. w.parents = order
      BY <1>1, <1>8 DEF order
    <2> HIDE DEF w
    <2>8. Stops(w) = Len(order)
      BY <2>6, <2>7 DEF Stops
    <2> QED
      BY <1>5, <1>6, <1>7, <1>8, <2>3, <2>5, <2>6, <2>7, <2>8 DEF w
  <1>9. CASE ~grouped
    <2>1. w.parents = <<>> /\ w.flat = InOrder(S)
      BY <1>1, <1>9
    <2> HIDE DEF w
    <2>2. Stops(w) = Len(InOrder(S))
      BY <2>1 DEF Stops
    <2> QED
      BY <1>3, <1>5, <1>6, <1>9, <2>1, <2>2 DEF w
  <1> QED
    BY <1>8, <1>9

\* The best of one provider, if it is the only one that has some.
\* Answers to a query one after the other, from where the scheduler is.
TakesTurns(turn, q, N) ==
    /\ turn[0].shards = shards /\ turn[0].mixed = mixed
    /\ \A k \in 1 .. N : turn[k] = Served(turn[k - 1], q)

\* A query that leaves all open.
IsOpen(q) == q.pinned = Nil /\ q.tried = {}

\* A query that leaves all open allows all.
LEMMA OpenAllows ==
    ASSUME NEW q, IsOpen(q)
    PROVE  Allowed(q) = Auths
  BY DEF IsOpen, Allowed

\* What is settled at a provider before the first turn.
LEMMA SettledFirst ==
    ASSUME SchedInv, NEW p \in Providers, NEW q, IsOpen(q), NEW E,
           E = Shard(shards, p, q.model).entries
    PROVE  /\ IsKnown(metas[p]) /\ Settled(Shard(shards, p, q.model), E, metas[p], q.model)
           /\ ReadyOf(E) = Offerable(shards, p, q) /\ ReadyOf(E) \subseteq DOMAIN metas[p]
           /\ DOMAIN E \subseteq DOMAIN metas[p] /\ DOMAIN metas[p] \subseteq Auths
           /\ \A a \in DOMAIN metas[p] : Known[a] = metas[p][a] /\ home[a] = p
  <1>1. now \in Nat \ {0} /\ ProviderOK(metas[p], shards[p], now)
    BY DEF SchedInv, ShardsOK
  <1>2. \A a \in DOMAIN metas[p] : a \in Auths /\ Known[a] = metas[p][a] /\ Known[a] # Nil
                                  /\ home[a] = p
    BY KnownIs
  <1>4. Settled(Shard(shards, p, q.model), E, metas[p], q.model)
    BY <1>1, ShardSettles
  <1>5. DOMAIN E \subseteq DOMAIN metas[p]
    BY <1>4 DEF Settled, ShardOK, EntriesOK
  <1>6. ReadyOf(E) \subseteq DOMAIN E
    BY DEF ReadyOf
  <1>7. ReadyOf(E) = Offerable(shards, p, q)
    BY <1>2, <1>5, <1>6, OpenAllows DEF Offerable
  <1> QED
    BY <1>1, <1>2, <1>4, <1>5, <1>6, <1>7 DEF ProviderOK

\* Turns at one provider: those of S are offered once each, or their parents P
\* are if they take turns by parent.
EvenAtOne(turn, q, S, P) ==
    /\ ~(Nil \notin P /\ Cardinality(P) > 1) => {turn[k].auth : k \in 1 .. Cardinality(S)} = S
    /\ Nil \notin P /\ Cardinality(P) > 1 =>
          {Known[turn[k].auth].parent : k \in 1 .. Cardinality(P)} = P
    /\ \A a \in S : home[a] = q.providers[1]

\* At one provider everyone has a turn, and every parent of grouped ones.
LEMMA TurnsAtOne ==
    ASSUME SchedInv, strategy = "roundRobin", NEW q \in Queries, IsOpen(q), Len(q.providers) = 1,
           NEW S, S = Pool!Best(q), NEW P, P = {Known[a].parent : a \in S},
           NEW turn, TakesTurns(turn, q, Cardinality(S))
    PROVE  EvenAtOne(turn, q, S, P)
  <1> DEFINE p == q.providers[1]
             m == q.model
             E == Shard(shards, p, m).entries
             R == ReadyOf(E)
             known == metas[p]
             prefer == PrefersWebsocket(q)
  <1>1. q.providers \in Seq(Providers) /\ p \in Providers /\ ToSet(q.providers) = {p}
    <2>1. q.providers \in Seq(Providers) /\ DOMAIN q.providers = {1}
      BY QueriesAreTyped
    <2> QED  BY <2>1 DEF ToSet
  <1>2. /\ IsKnown(known) /\ Settled(Shard(shards, p, m), E, known, m)
        /\ R = Offerable(shards, p, q) /\ R \subseteq DOMAIN known
        /\ DOMAIN E \subseteq DOMAIN known /\ DOMAIN known \subseteq Auths
        /\ \A a \in DOMAIN known : Known[a] = known[a] /\ home[a] = p
    BY <1>1, SettledFirst
  <1> HIDE DEF E
  <1>3. Pool!Free(q) = R
    <2>1. Pool!Free(q) = UNION {Offerable(shards, o, q) : o \in ToSet(q.providers)}
      BY FreeIs
    <2>2. {Offerable(shards, o, q) : o \in ToSet(q.providers)} = {Offerable(shards, p, q)}
      BY <1>1
    <2> QED  BY <1>2, <2>1, <2>2
  <1>4. S = Foremost(R, known, prefer)
    <2>1. \A a \in R : Known[a] = known[a]
      BY <1>2
    <2> HIDE DEF R
    <2> QED  BY <1>3, <2>1, BestIsForemost
  <1>5. S \subseteq R
    BY <1>4 DEF Foremost, Favored, WsOf
  <1>6. P = ParentsOf(S, known) /\ S \in SUBSET DOMAIN known
    <2>1. \A a \in S : Known[a] = known[a]
      BY <1>2, <1>5
    <2> HIDE DEF R
    <2> QED  BY <1>2, <1>5, <2>1 DEF ParentsOf, R
  <1> DEFINE w == View(S, known)
             n == Stops(w)
             N == Cardinality(S)
             grouped == Nil \notin P /\ Cardinality(P) > 1
  <1>7. /\ grouped <=> w.parents # <<>>
        /\ N \in Nat /\ n <= N
        /\ grouped => n = Cardinality(P) /\ ToSet(w.parents) = P /\ DOMAIN w.parents = 1 .. n
        /\ ~grouped => n = N /\ ToSet(w.flat) = S /\ DOMAIN w.flat = 1 .. n
    BY <1>2, <1>6, StopsAre
  <1>8. CASE R = {}
    <2>1. S = {} /\ P = {}
      BY <1>5, <1>8
    <2>2. N = 0 /\ Cardinality(P) = 0
      BY <2>1, FS_EmptySet
    <2> QED  BY <2>1, <2>2 DEF EvenAtOne
  <1>9. CASE R # {}
    <2> DEFINE h == HighestReady(Shard(shards, p, m), prefer, Auths)
    <2>1. Top(R, known, prefer, h)
      <3> DEFINE s == Shard(shards, p, m)
      <3>1. ShardOK(s, known, m, now) /\ ReadyOf(s.entries) \cap Auths = R
        BY <1>2 DEF Settled
      <3> DEFINE X == ReadyOf(s.entries) \cap Auths
                 g == HighestReady(s, prefer, Auths)
      <3>2. X = R /\ X # {}
        BY <1>9, <3>1
      <3> HIDE DEF s, known, m, R, prefer
      <3>3. /\ \E a \in Favored(X, known, prefer) : known[a].priority = g
            /\ \A a \in Favored(X, known, prefer) : known[a].priority <= g
        BY <1>2, <3>1, <3>2, HighestReadyOK
      <3> HIDE DEF X, g
      <3>4. Top(R, known, prefer, g)
        BY <3>2, <3>3 DEF Top
      <3> QED  BY <3>4 DEF g, s
    <2> HIDE DEF h
    <2> DEFINE L == ReadyAt(E, known, h)
               side == Side(L, known, prefer)
    <2>2. Favored(L, known, prefer) = S
      <3> HIDE DEF known, prefer
      <3> QED  BY <1>2, <1>4, <2>1, ForemostIsView
    <2> DEFINE Good(k) == /\ ShardsOK(turn[k].shards, metas, now) /\ CursorsAreNat(turn[k].mixed)
                          /\ Settled(Shard(turn[k].shards, p, m), E, known, m)
               At(k) == Place(Shard(turn[k].shards, p, m).ready[h][side])
    <2>3. ASSUME NEW k \in 1 .. N, Good(k - 1)
          PROVE  /\ Good(k) /\ At(k - 1) \in Nat /\ n \in Nat \ {0}
                 /\ turn[k].auth \in S
                 /\ AtStop(w, known, turn[k].auth, At(k - 1) % n)
                 /\ At(k) = (At(k - 1) % n) + 1
      <3> DEFINE st == turn[k - 1]
                 r == PickIn(st, p, q)
      <3>1. turn[k] = r
        BY DEF TakesTurns, Served
      <3>2. R \subseteq Allowed(q) /\ now \in Nat \ {0}
        BY <1>2, OpenAllows DEF SchedInv
      <3>3. /\ ShardsOK(r.shards, metas, now) /\ CursorsAreNat(r.mixed)
            /\ Settled(Shard(r.shards, p, m), E, known, m)
            /\ r.auth \in Foremost(R, known, prefer)
            /\ Advances(Shard(st.shards, p, m).ready[h][side], Shard(r.shards, p, m).ready[h][side],
                        w, known, r.auth)
        <4> HIDE DEF r, st
        <4>1. /\ ShardsOK(st.shards, metas, now) /\ CursorsAreNat(st.mixed)
              /\ Settled(Shard(st.shards, p, m), E, known, m)
          BY <2>3 DEF st
        <4> DEFINE w1 == View(Favored(L, known, prefer), known)
        <4>2. w1 = w
          BY <2>2
        <4>3. /\ ShardsOK(r.shards, metas, now) /\ CursorsAreNat(r.mixed)
              /\ Settled(Shard(r.shards, p, m), E, known, m)
              /\ r.auth \in Foremost(R, known, prefer)
              /\ Advances(Shard(st.shards, p, m).ready[h][side], Shard(r.shards, p, m).ready[h][side],
                          w1, known, r.auth)
          <5> HIDE DEF p
          <5> QED  BY <1>1, <2>1, <3>2, <4>1, PickInTurns DEF r
        <4> HIDE DEF w1, w, p, m, known, prefer, R, L, side
        <4> QED  BY <4>2, <4>3 DEF st
      <3>4. /\ At(k - 1) \in Nat /\ n \in Nat \ {0}
            /\ AtStop(w, known, r.auth, At(k - 1) % n)
            /\ Place(Shard(r.shards, p, m).ready[h][side]) = (At(k - 1) % n) + 1
        <4> HIDE DEF w, p, m, known, r, L, side
        <4> QED  BY <3>3 DEF Advances
      <3> HIDE DEF r, st
      <3> QED  BY <1>4, <3>1, <3>3, <3>4
    <2> HIDE DEF L, side, w, n, N
    <2> DEFINE Bad == {k \in 0 .. N : ~Good(k)}
    <2>4. Good(0)
      BY <1>2 DEF TakesTurns, SchedInv
    <2> HIDE DEF Good
    <2>5. ASSUME NEW k \in Bad, \A j \in Bad : k <= j PROVE FALSE
      <3>0. k \in 0 .. N /\ ~Good(k) /\ k # 0
        BY <2>4
      <3>1. k \in 1 .. N /\ k - 1 \in 0 .. N /\ k - 1 \notin Bad
        <4> HIDE DEF Bad
        <4> QED  BY <1>7, <2>5, <3>0
      <3>2. Good(k - 1)
        BY <3>1
      <3> QED  BY <2>3, <3>0, <3>1, <3>2
    <2>6. \A k \in 0 .. N : Good(k)
      <3>1. Bad \subseteq Nat
        BY <1>7
      <3> HIDE DEF Bad
      <3>2. Bad = {}
        BY <2>5, <3>1, LeastNat
      <3> QED  BY <3>2 DEF Bad
    <2>7. \A k \in 1 .. N : k - 1 \in 0 .. N /\ Good(k - 1)
      BY <1>7, <2>6
    <2> DEFINE place == [k \in 0 .. N |-> At(k)]
    <2>8. N \in Nat \ {0} /\ n \in Nat \ {0} /\ 1 \in 1 .. N
      <3>1. PICK a \in S : TRUE
        <4>1. PICK a \in Favored(R, known, prefer) : known[a].priority = h
          BY <2>1 DEF Top
        <4>2. a \in S
          BY <1>4, <2>1, <4>1 DEF Top, Foremost
        <4> QED  BY <4>2
      <3>2. N # 0
        <4>1. IsFiniteSet(S)
          <5>1. S \subseteq Auths
            BY <1>2, <1>6
          <5> QED  BY <5>1, AuthsFinite, FS_Subset
        <4> QED  BY <3>1, <4>1, FS_EmptySet DEF N
      <3>3. N \in Nat \ {0} /\ 1 \in 1 .. N
        BY <1>7, <3>2
      <3> QED  BY <2>3, <2>7, <3>3
    <2>9. /\ \A k \in 1 .. n : /\ k \in 1 .. N /\ turn[k].auth \in S
                               /\ AtStop(w, known, turn[k].auth, place[k - 1] % n)
                               /\ place[k] = (place[k - 1] % n) + 1
          /\ place[0] \in Nat
      <3>1. \A k \in 1 .. n : k \in 1 .. N /\ k \in 0 .. N /\ k - 1 \in 0 .. N
        BY <1>7, <2>8
      <3>2. \A k \in 0 .. N : place[k] = At(k)
        OBVIOUS
      <3>3. \A k \in 1 .. N : /\ At(k - 1) \in Nat /\ turn[k].auth \in S
                             /\ AtStop(w, known, turn[k].auth, At(k - 1) % n)
                            /\ At(k) = (At(k - 1) % n) + 1
        <4> HIDE DEF At
        <4> QED  BY <2>3, <2>7
      <3>4. At(0) \in Nat
        <4>1. At(1 - 1) \in Nat
          BY <2>8, <3>3
        <4> QED  BY <4>1
      <3> HIDE DEF At, place
      <3>5. 0 \in 0 .. N
        BY <2>8
      <3> QED  BY <3>1, <3>2, <3>3, <3>4, <3>5
    <2> HIDE DEF place, At
    <2>10. /\ \A k \in 1 .. n : place[k - 1] % n \in 0 .. n - 1
           /\ \A i \in 0 .. n - 1 : \E k \in 1 .. n : place[k - 1] % n = i
      BY <2>8, <2>9, EachPlace
    <2>11. ASSUME NEW o, NEW X, DOMAIN o = 1 .. n, ToSet(o) = X
           PROVE  /\ \A x \in X : \E k \in 1 .. n : o[(place[k - 1] % n) + 1] = x
                  /\ \A k \in 1 .. n : o[(place[k - 1] % n) + 1] \in X
      <3>1. \A x \in X : \E j \in 1 .. n : o[j] = x
        BY <2>11 DEF ToSet
      <3>2. \A j \in 1 .. n : o[j] \in X
        BY <2>11 DEF ToSet
      <3>3. \A j \in 1 .. n : j - 1 \in 0 .. n - 1 /\ (j - 1) + 1 = j
        BY <2>8
      <3>4. \A i \in 0 .. n - 1 : i + 1 \in 1 .. n
        BY <2>8
      <3>5. ASSUME NEW x \in X PROVE \E k \in 1 .. n : o[(place[k - 1] % n) + 1] = x
        <4>1. PICK j \in 1 .. n : o[j] = x
          BY <3>1
        <4>2. PICK k \in 1 .. n : place[k - 1] % n = j - 1
          BY <2>10, <3>3
        <4> QED  BY <3>3, <4>1, <4>2
      <3>6. \A k \in 1 .. n : o[(place[k - 1] % n) + 1] \in X
        BY <2>10, <3>2, <3>4
      <3> QED  BY <3>5, <3>6
    <2>12. ~grouped => {turn[k].auth : k \in 1 .. N} = S
      <3> SUFFICES ASSUME ~grouped PROVE {turn[k].auth : k \in 1 .. N} = S
        OBVIOUS
      <3>1. n = N /\ ToSet(w.flat) = S /\ DOMAIN w.flat = 1 .. n /\ w.parents = <<>>
        BY <1>7
      <3>2. \A k \in 1 .. n : turn[k].auth = w.flat[(place[k - 1] % n) + 1]
        BY <2>9, <3>1 DEF AtStop
      <3>3. \A x \in S : \E k \in 1 .. n : w.flat[(place[k - 1] % n) + 1] = x
        BY <2>11, <3>1
      <3> QED  BY <2>9, <3>1, <3>2, <3>3
    <2>13. grouped => {Known[turn[k].auth].parent : k \in 1 .. Cardinality(P)} = P
      <3> SUFFICES ASSUME grouped
                   PROVE  {Known[turn[k].auth].parent : k \in 1 .. Cardinality(P)} = P
        OBVIOUS
      <3>1. n = Cardinality(P) /\ ToSet(w.parents) = P /\ DOMAIN w.parents = 1 .. n /\ w.parents # <<>>
        BY <1>7
      <3>2. \A k \in 1 .. n : Known[turn[k].auth].parent = w.parents[(place[k - 1] % n) + 1]
        <4>1. \A k \in 1 .. n : known[turn[k].auth].parent = w.parents[(place[k - 1] % n) + 1]
          BY <2>9, <3>1 DEF AtStop
        <4>2. \A a \in S : Known[a] = known[a]
          BY <1>2, <1>6
        <4> QED  BY <2>9, <4>1, <4>2
      <3>3. /\ \A x \in P : \E k \in 1 .. n : w.parents[(place[k - 1] % n) + 1] = x
            /\ \A k \in 1 .. n : w.parents[(place[k - 1] % n) + 1] \in P
        BY <2>11, <3>1
      <3> HIDE DEF w
      <3> DEFINE g(k) == Known[turn[k].auth].parent
      <3>4. {g(k) : k \in 1 .. n} = P
        <4>1. \A k \in 1 .. n : g(k) \in P
          BY <3>2, <3>3
        <4>2. ASSUME NEW x \in P PROVE \E k \in 1 .. n : g(k) = x
          <5>1. PICK k \in 1 .. n : w.parents[(place[k - 1] % n) + 1] = x
            BY <3>3
          <5>2. g(k) = x
            BY <3>2, <5>1
          <5> QED  BY <5>2
        <4> HIDE DEF g
        <4> QED  BY <4>1, <4>2
      <3> QED  BY <3>1, <3>4
    <2> QED  BY <1>2, <1>6, <2>12, <2>13 DEF N, EvenAtOne
  <1> QED
    BY <1>8, <1>9

-----------------------------------------------------------------------------
(* Turns among providers. *)

\* The slots of earlier providers come first.
\* Counting on from a place for less than a round.
LEMMA RoundOnce ==
    ASSUME NEW n \in Nat \ {0}, NEW t \in Nat, NEW k \in 0 .. n - 1
    PROVE  /\ t % n \in 0 .. n - 1
           /\ (t + k) % n = IF (t % n) + k < n THEN (t % n) + k ELSE (t % n) + k - n
  <1>1. PICK d \in Nat, r \in 0 .. n - 1 : t = n * d + r
    BY Divided
  <1>2. ASSUME NEW q \in Nat, NEW i \in 0 .. n - 1 PROVE (n * q + i) % n = i
    OBVIOUS
  <1>3. t % n = r
    BY <1>1, <1>2
  <1>4. CASE r + k < n
    <2>1. r + k \in 0 .. n - 1 /\ n * d \in Nat
      BY <1>4
    <2>2. t + k = n * d + (r + k)
      BY <1>1, <2>1
    <2> QED  BY <1>2, <1>3, <1>4, <2>1, <2>2
  <1>5. CASE ~(r + k < n)
    <2>1. r + k - n \in 0 .. n - 1 /\ n * (d + 1) = n * d + n /\ n * d \in Nat
      BY <1>5
    <2>2. t + k = n * (d + 1) + (r + k - n)
      BY <1>1, <2>1
    <2>3. (n * (d + 1) + (r + k - n)) % n = r + k - n
      <3> DEFINE e == d + 1
                 i == r + k - n
      <3>1. e \in Nat /\ i \in 0 .. n - 1
        BY <2>1
      <3> HIDE DEF e, i
      <3>2. (n * e + i) % n = i
        BY <1>2, <3>1
      <3> QED  BY <3>2 DEF e, i
    <2> QED  BY <1>3, <1>5, <2>2, <2>3
  <1> QED
    BY <1>4, <1>5

\* How often a walk over T slots that has come to x, now in its second round if
\* x is T or more, was in the w slots from b on.
Within(x, w) == IF x < 0 THEN 0 ELSE IF x > w THEN w ELSE x
Visits(x, b, w, T) == Within(x - b, w) + Within(x - T - b, w)
Folded(x, T) == IF x < T THEN x ELSE x - T

\* A count of visits to a segment rises by one at each, and only there.
LEMMA VisitCounts ==
    ASSUME NEW T \in Nat, NEW b \in Nat, NEW w \in Nat, b + w <= T, NEW c \in 0 .. T - 1,
           NEW k \in 0 .. T - 1
    PROVE  /\ Visits(c + k, b, w, T) \in Nat
           /\ Visits(c + k + 1, b, w, T) =
                 IF b <= Folded(c + k, T) /\ Folded(c + k, T) < b + w
                 THEN Visits(c + k, b, w, T) + 1 ELSE Visits(c + k, b, w, T)
  BY DEF Visits, Within, Folded

\* After less than a round it comes there for the j-th time, from 0.
ComesFor(j, c, b, w, T) ==
    \E k \in 0 .. T - 1 :
       /\ b <= Folded(c + k, T) /\ Folded(c + k, T) < b + w
       /\ Visits(c + k, b, w, T) - Visits(c, b, w, T) = j

\* In one round it comes there w times, with every count below w.
LEMMA VisitWithCount ==
    ASSUME NEW T \in Nat, NEW b \in Nat, NEW w \in Nat, b + w <= T, NEW c \in 0 .. T - 1,
           NEW j \in 0 .. w - 1
    PROVE  ComesFor(j, c, b, w, T)
  <1> DEFINE g == Within(c - b, w)
             x == IF g + j < w THEN b + g + j ELSE T + b + g + j - w
  <1>1. g \in 0 .. w /\ Visits(c, b, w, T) = g
    BY DEF Visits, Within
  <1>2. x - c \in 0 .. T - 1 /\ c + (x - c) = x
    BY DEF Within
  <1>3. b <= Folded(x, T) /\ Folded(x, T) < b + w
    <2> HIDE DEF g
    <2> QED  BY <1>1 DEF Folded
  <1>4. Visits(x, b, w, T) = g + j
    <2> HIDE DEF g
    <2> QED  BY <1>1 DEF Visits, Within
  <1> HIDE DEF g, x
  <1>5. Visits(x, b, w, T) - Visits(c, b, w, T) = j
    BY <1>1, <1>4
  <1> QED
    BY <1>2, <1>3, <1>5 DEF ComesFor

\* Parts that have none in common, taken together.
LEMMA ManyInAll ==
    ASSUME NEW n \in Nat, NEW part, NEW weight,
           weight = [i \in 0 .. (n - 1) |-> Cardinality(part[i])],
           \A i \in 0 .. n - 1 : IsFiniteSet(part[i]),
           \A i, j \in 0 .. n - 1 : i # j => part[i] \cap part[j] = {}
    PROVE  /\ IsWeight(weight, n)
           /\ Cardinality(UNION {part[i] : i \in 0 .. n - 1}) = SlotsBefore(weight)[n]
  <1> DEFINE f == SlotsBefore(weight)
             U(j) == UNION {part[i] : i \in 0 .. j - 1}
             Right(j) == IsFiniteSet(U(j)) /\ Cardinality(U(j)) = f[j]
             Bad == {j \in 0 .. n : ~Right(j)}
  <1>1. IsWeight(weight, n)
    <2>1. \A i \in 0 .. n - 1 : Cardinality(part[i]) \in Nat
      BY FS_CardinalityType
    <2> QED  BY <2>1 DEF IsWeight
  <1>2. f[0] = 0 /\ \A i \in 1 .. n : f[i] = f[i - 1] + weight[i - 1]
    BY <1>1, SlotsAre
  <1> HIDE DEF f
  <1>3. ASSUME NEW j \in Bad, \A k \in Bad : j <= k PROVE FALSE
    <2>0. j \in 0 .. n /\ ~Right(j)
      OBVIOUS
    <2>1. CASE j = 0
      <3>1. U(0) = {}
        OBVIOUS
      <3> QED  BY <1>2, <2>0, <2>1, <3>1, FS_EmptySet
    <2>2. CASE j # 0
      <3>1. j - 1 \in 0 .. n /\ j - 1 \notin Bad /\ j \in 1 .. n /\ j - 1 \in 0 .. n - 1
        <4> HIDE DEF Bad
        <4> QED  BY <1>3, <2>0, <2>2
      <3>2. Right(j - 1)
        BY <3>1
      <3>3. U(j) = U(j - 1) \cup part[j - 1]
        <4>1. \A i : i \in 0 .. j - 1 <=> i \in 0 .. (j - 1) - 1 \/ i = j - 1
          BY <2>0, <2>2
        <4> QED  BY <4>1
      <3>4. U(j - 1) \cap part[j - 1] = {}
        <4>1. \A i \in 0 .. (j - 1) - 1 : i \in 0 .. n - 1 /\ i # j - 1
          BY <3>1
        <4> QED  BY <3>1, <4>1
      <3> HIDE DEF U
      <3>5. IsFiniteSet(U(j - 1)) /\ Cardinality(U(j - 1)) = f[j - 1] /\ IsFiniteSet(part[j - 1])
        BY <3>1, <3>2
      <3>6. /\ IsFiniteSet(U(j - 1) \cup part[j - 1])
            /\ Cardinality(U(j - 1) \cup part[j - 1]) =
                  Cardinality(U(j - 1)) + Cardinality(part[j - 1]) - Cardinality(U(j - 1) \cap part[j - 1])
        BY <3>5, FS_Union
      <3>7. /\ Cardinality(U(j - 1) \cap part[j - 1]) = 0
            /\ Cardinality(U(j - 1)) \in Nat /\ Cardinality(part[j - 1]) \in Nat
        BY <3>4, <3>5, FS_EmptySet, FS_CardinalityType
      <3>8. f[j] = f[j - 1] + Cardinality(part[j - 1])
        BY <1>2, <3>1
      <3>9. Right(j)
        BY <3>3, <3>5, <3>6, <3>7, <3>8
      <3> QED  BY <2>0, <3>9
    <2> QED  BY <2>1, <2>2
  <1>4. Bad = {}
    <2> HIDE DEF Bad
    <2>1. Bad \subseteq Nat
      BY DEF Bad
    <2> QED  BY <1>3, <2>1, LeastNat
  <1>5. Right(n)
    <2>1. n \in 0 .. n /\ n \notin Bad
      BY <1>4
    <2> QED  BY <2>1
  <1> QED
    BY <1>1, <1>5 DEF f

\* As long in order as there are members.
LEMMA InOrderCounts ==
    ASSUME NEW S \in SUBSET Auths
    PROVE  Len(InOrder(S)) = Cardinality(S)
  <1>1. InOrder(S) \in Seq(Auths) /\ ToSet(InOrder(S)) = S
    BY InOrderHasAll
  <1>2. IsInjective(InOrder(S))
    BY OrdersAreTotal, SortedDistinct DEF InOrder
  <1> QED
    BY <1>1, <1>2, AsLongAsMany

\* The search starts at a provider, and ends there if it serves.
LEMMA ProviderFromStart ==
    ASSUME NEW shard, NEW knowns, NEW n, NEW m, NEW t, AllOK(shard, knowns, n, m, t),
           NEW best, NEW C, NEW start \in 0 .. n - 1, ServesAt(shard[start], knowns[start], best, C)
    PROVE  ProviderFrom(shard, best, start, C) = start
  <1> DEFINE at(i) == best \in DOMAIN shard[i].ready /\ Serves(shard[i].ready[best].all, C)
             K == {k \in 0 .. (n - 1) : at((start + k) % n)}
  <1>0. n = Cardinality(DOMAIN shard) /\ n \in Nat \ {0}
    <2>1. DOMAIN shard = 0 .. (n - 1) /\ n - 1 \in Int /\ n \in Nat \ {0}
      BY DEF AllOK
    <2> QED  BY <2>1, FS_Interval
  <1>1. at(start)
    BY ServesAtLevel DEF AllOK
  <1>2. ProviderFrom(shard, best, start, C) = (start + Min(K)) % n
    BY <1>0 DEF ProviderFrom
  <1> HIDE DEF at
  <1>3. start \in Nat /\ start % n = start
    BY <1>0
  <1>4. 0 \in K /\ K \subseteq Nat
    <2>1. (start + 0) % n = start /\ 0 \in 0 .. (n - 1)
      BY <1>0, <1>3
    <2> QED  BY <1>0, <1>1, <2>1
  <1>5. Min(K) = 0
    <2>1. Min(K) \in K /\ Min(K) <= 0
      <3> HIDE DEF K
      <3> QED  BY <1>4, MinIsLeast
    <2> HIDE DEF K
    <2>2. Min(K) \in Nat
      BY <1>4, <2>1
    <2> QED  BY <2>1, <2>2
  <1> HIDE DEF K
  <1> QED
    BY <1>2, <1>3, <1>5

\* The provider at a position of a query's.
Nth(q, i) == q.providers[i + 1]

\* What a choice of pick at provider i leaves behind.
IsPlaced(r, st, q, shard, i, pick, cursor) ==
    /\ r.auth = pick.auth
    /\ r.mixed = Assigned(st.mixed, <<q.providers, q.model>>, cursor)
    /\ \A k \in DOMAIN shard :
          r.shards[Nth(q, k)] = Assigned(st.shards[Nth(q, k)], q.model,
                                         IF k = i THEN pick.shard ELSE shard[k])

\* What a pick stored among providers changes and what it leaves.
LEMMA PlacedAmongHas ==
    ASSUME NEW st, NEW q, q.providers \in Seq(Providers), IsInjective(q.providers), NEW shard,
           DOMAIN shard = 0 .. Len(q.providers) - 1, NEW i, NEW pick, NEW cursor \in Nat
    PROVE  IsPlaced(PlacedAmong(st, q, shard, i, pick, cursor), st, q, shard, i, pick, cursor)
  <1> DEFINE K(p) == CHOOSE k \in DOMAIN shard : q.providers[k + 1] = p
             to == [p \in Providers |->
                   IF \E k \in DOMAIN shard : q.providers[k + 1] = p
                   THEN Assigned(st.shards[p], q.model, IF K(p) = i THEN pick.shard ELSE shard[K(p)])
                   ELSE st.shards[p]]
             cursors == IF cursor = Nil THEN st.mixed
                        ELSE Assigned(st.mixed, <<q.providers, q.model>>, cursor)
  <1>1. PlacedAmong(st, q, shard, i, pick, cursor) = [auth |-> pick.auth, shards |-> to, mixed |-> cursors]
    BY DEF PlacedAmong
  <1>2. cursors = Assigned(st.mixed, <<q.providers, q.model>>, cursor)
    BY NilIsNothing
  <1>3. ASSUME NEW k \in DOMAIN shard
        PROVE  Nth(q, k) \in Providers /\ K(Nth(q, k)) = k
    <2>1. \A x \in DOMAIN shard : x \in Int /\ x + 1 \in DOMAIN q.providers
      OBVIOUS
    <2>2. Nth(q, k) \in Providers
      BY <2>1 DEF Nth
    <2>3. \A x \in DOMAIN shard : q.providers[x + 1] = Nth(q, k) => x = k
      <3> SUFFICES ASSUME NEW x \in DOMAIN shard, q.providers[x + 1] = q.providers[k + 1]
                   PROVE  x = k
        BY DEF Nth
      <3>1. x + 1 = k + 1
        BY <2>1 DEF IsInjective
      <3> QED  BY <2>1, <3>1
    <2>4. K(Nth(q, k)) \in DOMAIN shard /\ q.providers[K(Nth(q, k)) + 1] = Nth(q, k)
      BY DEF Nth
    <2> HIDE DEF K
    <2> QED  BY <2>2, <2>3, <2>4
  <1>4. ASSUME NEW k \in DOMAIN shard
        PROVE  to[Nth(q, k)] = Assigned(st.shards[Nth(q, k)], q.model,
                                        IF k = i THEN pick.shard ELSE shard[k])
    <2>1. \E x \in DOMAIN shard : q.providers[x + 1] = Nth(q, k)
      BY DEF Nth
    <2>2. Nth(q, k) \in Providers /\ K(Nth(q, k)) = k
      BY <1>3
    <2> HIDE DEF K
    <2> QED  BY <2>1, <2>2
  <1> HIDE DEF to, cursors
  <1> QED
    BY <1>1, <1>2, <1>4 DEF IsPlaced
\* There is one highest priority.
LEMMA SummitIsOne ==
    ASSUME NEW shard, NEW knowns, NEW n, NEW m, NEW t, AllOK(shard, knowns, n, m, t), NEW C,
           NEW best, Summit(shard, knowns, n, C, best), NEW h, Summit(shard, knowns, n, C, h)
    PROVE  h = best
  <1>1. ASSUME NEW x, Summit(shard, knowns, n, C, x), NEW y, Summit(shard, knowns, n, C, y)
        PROVE  x \in Int /\ x <= y
    <2>1. PICK e \in 0 .. n - 1 : ServesAt(shard[e], knowns[e], x, C)
      BY <1>1 DEF Summit
    <2>2. PICK a \in ReadyOf(shard[e].entries) \cap C : knowns[e][a].priority = x
      BY <2>1 DEF ServesAt, ReadyAt, ReadyOf
    <2>3. IsKnown(knowns[e]) /\ a \in DOMAIN knowns[e]
      BY <2>2 DEF AllOK, ShardOK, EntriesOK, ReadyOf
    <2>4. x \in Int
      BY <2>2, <2>3 DEF IsKnown, IsSnapshot
    <2>5. x <= y
      BY <1>1, <2>2 DEF Summit
    <2> QED  BY <2>4, <2>5
  <1>2. h \in Int /\ best \in Int /\ h <= best /\ best <= h
    BY <1>1
  <1> QED
    BY <1>2

\* The best at any of the providers is served.
LEMMA SummitIsPicked ==
    ASSUME NEW st, NEW q, NEW shard, NEW knowns, NEW n, NEW m, NEW t,
           AllOK(shard, knowns, n, m, t), NEW C, NEW best, Summit(shard, knowns, n, C, best)
    PROVE  PickFromShards(st, q, shard, C) = PickAtBest(st, q, shard, best, Weights(shard, best), C)
  <1>1. ServingOf(shard, C) # {}
    <2>1. PICK e \in 0 .. n - 1 : ServesAt(shard[e], knowns[e], best, C)
      BY DEF Summit
    <2>2. ReadyOf(shard[e].entries) \cap C # {}
      BY <2>1 DEF ServesAt, ReadyAt, ReadyOf
    <2>3. ServingOf(shard, C) = {i \in 0 .. n - 1 : ReadyOf(shard[i].entries) \cap C # {}}
      BY BestOfIsSummit
    <2> QED  BY <2>2, <2>3
  <1>2. Summit(shard, knowns, n, C, BestOf(shard, C))
    BY <1>1, BestOfIsSummit
  <1>3. BestOf(shard, C) = best
    BY <1>2, SummitIsOne
  <1> QED
    BY <1>1, <1>3 DEF PickFromShards, ServingOf, BestOf

\* The shard of a provider that a query asks for, and those of its entries that
\* are ready at a priority; how many they are at each.
ShardFor(built, q, i) == Shard(built, Nth(q, i), q.model)
Part(Es, q, best, i) == ReadyAt(Es[i], metas[Nth(q, i)], best)
Shares(Es, q, best) == [i \in 0 .. (Len(q.providers) - 1) |-> Cardinality(Part(Es, q, best, i))]

\* The shards a query asks for have those entries, none of which is due.
AllSettled(st, q, Es) ==
    /\ ShardsOK(st.shards, metas, now) /\ CursorsAreNat(st.mixed)
    /\ \A i \in 0 .. Len(q.providers) - 1 :
          Settled(ShardFor(st.shards, q, i), Es[i], metas[Nth(q, i)], q.model)

\* The highest priority among what is ready there.
Peak(Es, q, best) ==
    /\ \E e \in 0 .. Len(q.providers) - 1 : Part(Es, q, best, e) # {}
    /\ \A j \in 0 .. Len(q.providers) - 1 : \A b \in ReadyOf(Es[j]) : metas[Nth(q, j)][b].priority <= best

\* Where a query's rotation among its providers stands.
MixedCursor(st, q) ==
    LET key == <<q.providers, q.model>> IN IF key \in DOMAIN st.mixed THEN st.mixed[key] ELSE 0

\* A query for several providers: as typed.
AsksFor(q, n) ==
    /\ q.providers \in Seq(Providers) /\ IsInjective(q.providers)
    /\ n = Len(q.providers) /\ n \in Nat \ {0}
    /\ \A i \in 0 .. n - 1 : Nth(q, i) \in Providers

\* What is ready at a settled provider.
LEMMA SettledHas ==
    ASSUME NEW q, NEW n, AsksFor(q, n), NEW Es, NEW st, AllSettled(st, q, Es), NEW i \in 0 .. n - 1,
           NEW best
    PROVE  LET s == ShardFor(st.shards, q, i)
               known == metas[Nth(q, i)]
           IN  /\ IsKnown(known) /\ ShardOK(s, known, q.model, now) /\ s.entries = Es[i]
               /\ Part(Es, q, best, i) \in SUBSET DOMAIN known /\ DOMAIN known \subseteq Auths
               /\ ReadyOf(Es[i]) \subseteq DOMAIN known
  <1> DEFINE s == ShardFor(st.shards, q, i)
             known == metas[Nth(q, i)]
  <1>1. IsKnown(known)
    BY DEF AsksFor, AllSettled, ShardsOK, ProviderOK
  <1>2. ShardOK(s, known, q.model, now) /\ s.entries = Es[i]
    BY DEF AsksFor, AllSettled, Settled
  <1> HIDE DEF s
  <1>3. ReadyOf(Es[i]) \subseteq DOMAIN known
    BY <1>2 DEF ShardOK, EntriesOK, ReadyOf
  <1>4. Part(Es, q, best, i) \subseteq ReadyOf(Es[i])
    BY DEF Part, ReadyAt, ReadyOf
  <1>5. DOMAIN known \subseteq Auths
    BY <1>1 DEF IsKnown
  <1> HIDE DEF known
  <1>6. Part(Es, q, best, i) \in SUBSET DOMAIN known
    BY <1>3, <1>4
  <1> QED
    BY <1>1, <1>2, <1>3, <1>5, <1>6 DEF s, known

\* The weights are what there is ready.
LEMMA WeightsAreShares ==
    ASSUME NEW q, NEW n, AsksFor(q, n), NEW Es, NEW st, AllSettled(st, q, Es), NEW best, NEW shard,
           shard = [i \in 0 .. (n - 1) |-> ShardFor(st.shards, q, i)]
    PROVE  Weights(shard, best) = Shares(Es, q, best)
  <1> DEFINE w(i) == IF best \in DOMAIN shard[i].ready THEN Len(shard[i].ready[best].all.flat) ELSE 0
             c(i) == Cardinality(Part(Es, q, best, i))
  <1>1. Weights(shard, best) = [i \in 0 .. (n - 1) |-> w(i)]
    BY DEF Weights
  <1>2. Shares(Es, q, best) = [i \in 0 .. (n - 1) |-> c(i)]
    BY DEF Shares, AsksFor
  <1>3. ASSUME NEW i \in 0 .. (n - 1) PROVE w(i) = c(i)
    <2> DEFINE s == ShardFor(st.shards, q, i)
               known == metas[Nth(q, i)]
               S == ReadyAt(s.entries, known, best)
    <2>1. /\ IsKnown(known) /\ ShardOK(s, known, q.model, now) /\ s.entries = Es[i]
          /\ Part(Es, q, best, i) \in SUBSET DOMAIN known /\ DOMAIN known \subseteq Auths
      BY <1>3, SettledHas
    <2>2. shard[i] = s /\ S = Part(Es, q, best, i) /\ S \in SUBSET Auths
      BY <2>1 DEF Part
    <2> HIDE DEF s, known
    <2>3. DOMAIN s.ready = Levels(s.entries, known)
      BY <2>1 DEF ShardOK, ReadyOK
    <2>4. best \in Levels(s.entries, known) <=> S # {}
      BY DEF Levels, ReadyOf, ReadyAt
    <2>5. ASSUME best \in DOMAIN s.ready PROVE Len(s.ready[best].all.flat) = Cardinality(S)
      <3>1. BucketOK(s.ready[best], S, known)
        BY <2>1, <2>3, <2>5 DEF ShardOK, ReadyOK
      <3>2. S \in SUBSET DOMAIN known
        BY <2>1, <2>2
      <3> HIDE DEF S
      <3>3. s.ready[best].all.flat = InOrder(S)
        BY <2>1, <3>1, <3>2, TurnedHas DEF BucketOK
      <3> QED  BY <2>2, <3>3, InOrderCounts
    <2>6. S = {} => Cardinality(S) = 0
      BY FS_EmptySet
    <2> HIDE DEF S
    <2> QED  BY <2>2, <2>3, <2>4, <2>5, <2>6
  <1> HIDE DEF w, c
  <1> QED
    BY <1>1, <1>2, <1>3

\* A turn among the providers: of the one whose segment the rotation stands in,
\* which moves on to the next slot.
Walks(st, r, q, Es, best) ==
    LET weight == Shares(Es, q, best)
        T      == SlotsBefore(weight)[Len(q.providers)]
        slot   == MixedCursor(st, q) % T
        e      == ProviderAt(weight, slot)
    IN  /\ T \in Nat \ {0} /\ MixedCursor(st, q) \in Nat /\ MixedCursor(r, q) = slot + 1
        /\ e \in 0 .. Len(q.providers) - 1 /\ weight[e] # 0
        /\ Advances(ShardFor(st.shards, q, e).ready[best].all, ShardFor(r.shards, q, e).ready[best].all,
                    View(Part(Es, q, best, e), metas[Nth(q, e)]), metas[Nth(q, e)], r.auth)
        /\ \A i \in 0 .. Len(q.providers) - 1 :
              i # e => ShardFor(r.shards, q, i) = ShardFor(st.shards, q, i)

\* When all are allowed, an answer is such a turn.
LEMMA StepAmong ==
    ASSUME now \in Nat \ {0}, strategy = "roundRobin", NEW q, NEW n, AsksFor(q, n), IsOpen(q),
           NEW Es, NEW st, AllSettled(st, q, Es), NEW best, Peak(Es, q, best)
    PROVE  AllSettled(PickAmong(st, q), q, Es) /\ Walks(st, PickAmong(st, q), q, Es, best)
  <1> DEFINE m == q.model
             C == Allowed(q)
             shard == [i \in 0 .. (n - 1) |-> ShardFor(st.shards, q, i)]
             knowns == [i \in 0 .. (n - 1) |-> metas[Nth(q, i)]]
             weight == Shares(Es, q, best)
             T == SlotsBefore(weight)[n]
             slot == MixedCursor(st, q) % T
             e == ProviderAt(weight, slot)
             pick == PickAt(shard[e], best, FALSE, "roundRobin", C)
             r == PickAmong(st, q)
  <1>1. n \in Nat \ {0} /\ n = Len(q.providers)
    BY DEF AsksFor
  <1>2. \A i \in 0 .. n - 1 :
           /\ shard[i] = ShardFor(st.shards, q, i) /\ knowns[i] = metas[Nth(q, i)]
           /\ IsKnown(knowns[i]) /\ ShardOK(shard[i], knowns[i], m, now) /\ shard[i].entries = Es[i]
           /\ Part(Es, q, best, i) \in SUBSET DOMAIN knowns[i] /\ DOMAIN knowns[i] \subseteq Auths
           /\ ReadyOf(Es[i]) \subseteq DOMAIN knowns[i]
    <2> SUFFICES ASSUME NEW i \in 0 .. n - 1
                 PROVE
           /\ shard[i] = ShardFor(st.shards, q, i) /\ knowns[i] = metas[Nth(q, i)]
           /\ IsKnown(knowns[i]) /\ ShardOK(shard[i], knowns[i], m, now) /\ shard[i].entries = Es[i]
           /\ Part(Es, q, best, i) \in SUBSET DOMAIN knowns[i] /\ DOMAIN knowns[i] \subseteq Auths
           /\ ReadyOf(Es[i]) \subseteq DOMAIN knowns[i]
      OBVIOUS
    <2>1. shard[i] = ShardFor(st.shards, q, i) /\ knowns[i] = metas[Nth(q, i)]
      OBVIOUS
    <2> HIDE DEF shard, knowns
    <2> QED  BY <2>1, SettledHas
  <1>3. C = Auths
    BY OpenAllows
  <1>4. DOMAIN shard = 0 .. n - 1
    OBVIOUS
  <1>5. r = PickFromShards(st, q, shard, C)
    BY <1>1 DEF PickAmong, ShardFor, Nth
  <1>6. weight = Weights(shard, best)
    BY WeightsAreShares
  <1> HIDE DEF shard, knowns, C, m
  <1>7. AllOK(shard, knowns, n, m, now) /\ Asked(knowns, n, q)
    <2>1. AllOK(shard, knowns, n, m, now)
      BY <1>1, <1>2, <1>4 DEF AllOK
    <2>2. Asked(knowns, n, q)
      BY <1>1, <1>2 DEF Asked, AsksFor, Nth
    <2> QED  BY <2>1, <2>2
  <1>8. \A i \in 0 .. n - 1 : /\ ReadyOf(shard[i].entries) \cap C = ReadyOf(Es[i])
                              /\ ReadyAt(shard[i].entries, knowns[i], best) = Part(Es, q, best, i)
                              /\ Part(Es, q, best, i) \subseteq C
    BY <1>2, <1>3 DEF Part
  <1>9. Summit(shard, knowns, n, C, best)
    <2>1. PICK i \in 0 .. n - 1 : Part(Es, q, best, i) # {}
      BY <1>1 DEF Peak
    <2>2. ServesAt(shard[i], knowns[i], best, C)
      BY <1>8, <2>1 DEF ServesAt
    <2>3. \A j \in 0 .. n - 1 : \A b \in ReadyOf(Es[j]) : knowns[j][b].priority <= best
      BY <1>1, <1>2 DEF Peak
    <2> QED  BY <1>8, <2>2, <2>3 DEF Summit
  <1>10. r = PickAtBest(st, q, shard, best, weight, C)
    BY <1>5, <1>6, <1>7, <1>9, SummitIsPicked
  <1> HIDE DEF r, weight
  <1>11. IsWeight(weight, n) /\ T \in Nat \ {0} /\ MixedCursor(st, q) \in Nat
         /\ \A i \in 0 .. n - 1 : weight[i] = Cardinality(Part(Es, q, best, i))
    <2>1. PICK i \in 0 .. n - 1 : ServesAt(shard[i], knowns[i], best, C)
      BY <1>9 DEF Summit
    <2>2. IsWeight(weight, n) /\ weight[i] # 0
      BY <1>6, <1>7, <2>1, WeightsAre
    <2>3. T \in Nat \ {0}
      BY <1>1, <2>2, SomeSlots
    <2>4. MixedCursor(st, q) \in Nat
      BY DEF MixedCursor, AllSettled, CursorsAreNat
    <2>5. \A j \in 0 .. n - 1 : weight[j] = Cardinality(Part(Es, q, best, j))
      BY <1>1 DEF weight, Shares
    <2> QED  BY <2>2, <2>3, <2>4, <2>5
  <1>12. slot \in Nat /\ slot < T
    <2> HIDE DEF T
    <2> QED  BY <1>11
  <1>13. e \in 0 .. n - 1 /\ weight[e] # 0
    <2> HIDE DEF slot
    <2>1. e \in 0 .. n - 1 /\ SlotOf(weight, e, slot)
      BY <1>1, <1>11, <1>12, SlotIsOf
    <2>2. SlotsBefore(weight)[e] \in Nat /\ weight[e] \in Nat
      <3>1. \A i \in 0 .. n : SlotsBefore(weight)[i] \in Nat
        BY <1>1, <1>11, SlotsAre
      <3>2. e \in 0 .. n
        BY <1>1, <2>1
      <3> QED  BY <1>11, <2>1, <3>1, <3>2 DEF IsWeight
    <2> HIDE DEF e
    <2> QED  BY <1>12, <2>1, <2>2 DEF SlotOf
  <1>14. Part(Es, q, best, e) # {} /\ ServesAt(shard[e], knowns[e], best, C)
    <2> HIDE DEF e
    <2>1. Part(Es, q, best, e) # {}
      BY <1>11, <1>13, FS_EmptySet
    <2> QED  BY <1>8, <1>13, <2>1 DEF ServesAt
  <1>15. ProviderFrom(shard, best, e, C) = e
    <2> HIDE DEF e
    <2> QED  BY <1>7, <1>13, <1>14, ProviderFromStart
  <1>16. r = PlacedAmong(st, q, shard, e, pick, slot + 1)
    BY <1>1, <1>10, <1>15 DEF PickAtBest, Rotate, MixedCursor
  <1> HIDE DEF e, slot, T
  <1> DEFINE known == knowns[e]
             s == shard[e]
             L == Part(Es, q, best, e)
             w == View(L, known)
  <1>17. /\ Advances(s.ready[best].all, pick.shard.ready[best].all, w, known, pick.auth)
         /\ Settled(pick.shard, Es[e], known, m)
    <2>1. /\ IsKnown(known) /\ ShardOK(s, known, m, now) /\ s.entries = Es[e]
          /\ ReadyAt(s.entries, known, best) = L /\ L \subseteq C
      BY <1>2, <1>8, <1>13
    <2>2. best \in Levels(s.entries, known) /\ ReadyAt(s.entries, known, best) \cap C # {}
      BY <1>14, <2>1 DEF Levels, ReadyAt, ReadyOf
    <2>3. pick = PickAt(s, best, FALSE, "roundRobin", C)
      OBVIOUS
    <2> HIDE DEF pick, s, known
    <2>4. ShardOK(pick.shard, known, m, now) /\ pick.shard.entries = Es[e]
      <3>1. PickAt(s, best, FALSE, "roundRobin", C).shard.entries = s.entries
        <4>1. ShardOK(s, known, m, now)
          BY <2>1
        <4>2. \A prefer, strat : PickAt(s, best, prefer, strat, C).shard.entries = s.entries
          BY <4>1, EntriesStay
        <4> QED  BY <4>2, Zenon
      <3>2. ShardOK(PickAt(s, best, FALSE, "roundRobin", C).shard, known, m, now)
        BY <2>1, <2>2, PickAtOK
      <3> QED  BY <2>1, <2>3, <3>1, <3>2
    <2>5. \A a \in DOMAIN Es[e] : ~Queueing(Es[e][a], now)
      BY <1>1, <1>13 DEF AllSettled, Settled
    <2>6. Settled(pick.shard, Es[e], known, m)
      BY <2>4, <2>5 DEF Settled
    <2> DEFINE L1 == ReadyAt(s.entries, known, best)
               side == Side(L1, known, FALSE)
               w1 == View(Favored(L1, known, FALSE), known)
    <2>7. L1 = L /\ side = "all" /\ w1 = w
      BY <2>1 DEF Side, Favored
    <2>8. Advances(s.ready[best][side], pick.shard.ready[best][side], w1, known, pick.auth)
      <3>1. L1 \subseteq C
        BY <2>1
      <3> HIDE DEF L, w
      <3> QED  BY <2>1, <2>2, <2>3, <3>1, PickAtTurns
    <2> HIDE DEF L1, side, w1, w, L
    <2> QED  BY <2>6, <2>7, <2>8
  <1> HIDE DEF pick
  <1>18. /\ r.auth = pick.auth /\ r.mixed = Assigned(st.mixed, <<q.providers, m>>, slot + 1)
         /\ \A i \in 0 .. n - 1 :
               r.shards[Nth(q, i)] = Assigned(st.shards[Nth(q, i)], m, IF i = e THEN pick.shard ELSE shard[i])
    <2>1. slot + 1 \in Nat
      BY <1>12
    <2> DEFINE c == slot + 1
    <2> HIDE DEF c
    <2>2. /\ r.auth = pick.auth /\ r.mixed = Assigned(st.mixed, <<q.providers, q.model>>, c)
          /\ \A i \in DOMAIN shard :
               r.shards[Nth(q, i)] = Assigned(st.shards[Nth(q, i)], q.model,
                                              IF i = e THEN pick.shard ELSE shard[i])
      <3>1. /\ q.providers \in Seq(Providers) /\ IsInjective(q.providers) /\ c \in Nat
        BY <2>1 DEF AsksFor, c
      <3>2. DOMAIN shard = 0 .. Len(q.providers) - 1
        BY <1>1, <1>4
      <3>3. IsPlaced(PlacedAmong(st, q, shard, e, pick, c), st, q, shard, e, pick, c)
        BY <3>1, <3>2, PlacedAmongHas
      <3>4. r = PlacedAmong(st, q, shard, e, pick, c)
        BY <1>16 DEF c
      <3> QED  BY <3>3, <3>4 DEF IsPlaced
    <2> QED  BY <1>4, <2>2 DEF c, m
  <1>19. ShardsOK(r.shards, metas, now) /\ CursorsAreNat(r.mixed)
    <2> DEFINE c == slot + 1
    <2>1. c \in Nat /\ ShardsOK(st.shards, metas, now) /\ CursorsAreNat(st.mixed)
          /\ ShardOK(pick.shard, knowns[e], m, now) /\ AllOK(shard, knowns, n, q.model, now)
          /\ r = PlacedAmong(st, q, shard, e, pick, c)
      BY <1>7, <1>12, <1>16, <1>17 DEF AllSettled, Settled, m
    <2> HIDE DEF c
    <2>2. LET x == PlacedAmong(st, q, shard, e, pick, c)
          IN  x.auth = pick.auth /\ ShardsOK(x.shards, metas, now) /\ CursorsAreNat(x.mixed)
      BY <1>7, <2>1, PlacedAmongOK DEF m
    <2> QED  BY <2>1, <2>2
  <1>20. ASSUME NEW i \in 0 .. n - 1
         PROVE  LET x == IF i = e THEN pick.shard ELSE shard[i]
                IN  ShardFor(r.shards, q, i) = x /\ Settled(x, Es[i], metas[Nth(q, i)], m)
    <2> DEFINE x == IF i = e THEN pick.shard ELSE shard[i]
    <2>1. Settled(x, Es[i], metas[Nth(q, i)], m)
      <3>1. Settled(shard[i], Es[i], metas[Nth(q, i)], m)
        BY <1>1, <1>2 DEF AllSettled, m
      <3>2. knowns[e] = metas[Nth(q, e)]
        BY <1>2, <1>13
      <3> QED  BY <1>17, <3>1, <3>2
    <2>2. r.shards[Nth(q, i)] = Assigned(st.shards[Nth(q, i)], m, x)
      BY <1>18
    <2> HIDE DEF x
    <2>3. m \in DOMAIN r.shards[Nth(q, i)] /\ r.shards[Nth(q, i)][m] = x
      BY <2>2 DEF Assigned
    <2>4. Shard(r.shards, Nth(q, i), m) = x
      <3> DEFINE p == Nth(q, i)
      <3> HIDE DEF p
      <3>1. m \in DOMAIN r.shards[p] /\ r.shards[p][m] = x /\ Settled(x, Es[i], metas[p], m)
        BY <2>1, <2>3 DEF p
      <3>2. Shard(r.shards, p, m) = r.shards[p][m]
        BY <3>1, SettledStays
      <3> QED  BY <3>1, <3>2 DEF p
    <2> QED  BY <2>1, <2>4 DEF ShardFor, m, x
  <1>21. AllSettled(r, q, Es)
    BY <1>1, <1>19, <1>20 DEF AllSettled, m
  <1>22. MixedCursor(r, q) = slot + 1
    BY <1>18 DEF MixedCursor, Assigned, m
  <1>23. /\ ShardFor(r.shards, q, e) = pick.shard /\ s = ShardFor(st.shards, q, e)
         /\ known = metas[Nth(q, e)]
         /\ \A i \in 0 .. n - 1 : i # e => ShardFor(r.shards, q, i) = ShardFor(st.shards, q, i)
    BY <1>2, <1>13, <1>20
  <1>24. Advances(ShardFor(st.shards, q, e).ready[best].all, ShardFor(r.shards, q, e).ready[best].all,
                  View(Part(Es, q, best, e), metas[Nth(q, e)]), metas[Nth(q, e)], r.auth)
    BY <1>17, <1>18, <1>23
  <1>25. Walks(st, r, q, Es, best)
    BY <1>1, <1>11, <1>13, <1>22, <1>23, <1>24 DEF Walks, T, slot, e, weight
  <1> QED
    BY <1>21, <1>25 DEF r

\* A rotation over slots: the provider of the slot where it stands has its turn,
\* and its own rotation moves on.
WalksOver(cursor, place, weight, n, T) ==
    /\ cursor[0] \in Nat
    /\ \A i \in 0 .. n - 1 : weight[i] # 0 => place[i][0] \in Nat
    /\ \A k \in 1 .. T :
          LET e == ProviderAt(weight, cursor[k - 1] % T) IN
          /\ cursor[k] = (cursor[k - 1] % T) + 1
          /\ place[e][k] = (place[e][k - 1] % weight[e]) + 1
          /\ \A i \in 0 .. n - 1 : i # e => place[i][k] = place[i][k - 1]

\* It comes to place j of provider i.
ComesTo(i, j, cursor, place, weight, T) ==
    \E k \in 1 .. T : /\ ProviderAt(weight, cursor[k - 1] % T) = i
                      /\ place[i][k - 1] % weight[i] = j

\* A round of it comes to every place of every provider.
LEMMA EachPlaceOfEach ==
    ASSUME NEW n \in Nat, NEW weight, IsWeight(weight, n), NEW T \in Nat \ {0},
           T = SlotsBefore(weight)[n], NEW cursor, NEW place,
           WalksOver(cursor, place, weight, n, T), NEW i \in 0 .. n - 1, NEW j \in 0 .. weight[i] - 1
    PROVE  ComesTo(i, j, cursor, place, weight, T)
  <1> DEFINE b == SlotsBefore(weight)[i]
             w == weight[i]
             c == cursor[0] % T
             Inside(k) == b <= Folded(c + k, T) /\ Folded(c + k, T) < b + w
             count == [k \in 0 .. T |-> Visits(c + k, b, w, T) - Visits(c, b, w, T)]
  <1>1. w \in Nat \ {0} /\ b \in Nat /\ b + w <= T
    <2>1. w \in Nat
      BY DEF IsWeight
    <2>2. /\ \A k \in 1 .. n : SlotsBefore(weight)[k] = SlotsBefore(weight)[k - 1] + weight[k - 1]
          /\ \A k \in 0 .. n : SlotsBefore(weight)[k] \in Nat
      BY SlotsAre
    <2>3. i + 1 \in 1 .. n /\ i + 1 \in 0 .. n /\ (i + 1) - 1 = i /\ i \in 0 .. n /\ n \in (i + 1) .. n
      OBVIOUS
    <2>4. SlotsBefore(weight)[i + 1] = b + w /\ b \in Nat
      BY <2>2, <2>3
    <2>5. SlotsBefore(weight)[i + 1] <= SlotsBefore(weight)[n]
      BY <2>3, SlotsGrow
    <2> HIDE DEF b
    <2> QED  BY <2>1, <2>4, <2>5
  <1>2. \A k \in 0 .. T - 1 : cursor[k] \in Nat /\ cursor[k] % T = Folded(c + k, T)
    <2> DEFINE turns == [k \in 0 .. T |-> k]
    <2>1. \A k \in 0 .. T : turns[k] = k
      OBVIOUS
    <2> HIDE DEF turns
    <2>2. turns[0] = 0 /\ \A k \in 1 .. T : turns[k] = turns[k - 1] + 1
      BY <2>1
    <2>3. Rotates(cursor, turns, T, T)
      BY <2>2 DEF Rotates, WalksOver
    <2>4. \A k \in 0 .. T : cursor[k] \in Nat /\ cursor[k] % T = (cursor[0] + turns[k]) % T
      BY <2>3, CountedOn
    <2> SUFFICES ASSUME NEW k \in 0 .. T - 1
                 PROVE  cursor[k] \in Nat /\ cursor[k] % T = Folded(c + k, T)
      OBVIOUS
    <2>5. k \in 0 .. T
      OBVIOUS
    <2>6. cursor[k] \in Nat /\ cursor[k] % T = (cursor[0] + k) % T
      BY <2>1, <2>4, <2>5
    <2>7. c \in 0 .. T - 1 /\ (cursor[0] + k) % T = IF c + k < T THEN c + k ELSE c + k - T
      BY RoundOnce DEF WalksOver
    <2> QED  BY <2>6, <2>7 DEF Folded
  <1>3. c \in 0 .. T - 1 /\ cursor[0] \in Nat
    BY GoingRound DEF WalksOver
  <1> HIDE DEF c
  <1>4. \A k \in 0 .. T - 1 : /\ Folded(c + k, T) \in Nat /\ Folded(c + k, T) < T
    BY <1>3 DEF Folded
  <1>5. ASSUME NEW k \in 0 .. T - 1
        PROVE  Inside(k) <=> i = ProviderAt(weight, cursor[k] % T)
    <2> DEFINE slot == cursor[k] % T
    <2>1. slot = Folded(c + k, T)
      BY <1>2
    <2> HIDE DEF slot
    <2>2. slot \in Nat /\ slot < SlotsBefore(weight)[n]
      BY <1>4, <2>1
    <2>3. SlotOf(weight, i, slot) <=> i = ProviderAt(weight, slot)
      BY <2>2, SlotIsOf
    <2> QED  BY <2>1, <2>3 DEF SlotOf, slot
  <1> HIDE DEF b, w
  <1>6. \A k \in 0 .. T - 1 :
           /\ Visits(c + k, b, w, T) \in Nat
           /\ Visits(c + k + 1, b, w, T) = IF Inside(k) THEN Visits(c + k, b, w, T) + 1
                                           ELSE Visits(c + k, b, w, T)
    BY <1>1, <1>3, VisitCounts
  <1>7. \A k \in 0 .. T - 1 : count[k + 1] = IF Inside(k) THEN count[k] + 1 ELSE count[k]
    <2> SUFFICES ASSUME NEW k \in 0 .. T - 1
                 PROVE  count[k + 1] = IF Inside(k) THEN count[k] + 1 ELSE count[k]
      OBVIOUS
    <2>1. k \in 0 .. T /\ k + 1 \in 0 .. T /\ c + (k + 1) = c + k + 1 /\ 0 \in 0 .. T - 1 /\ c + 0 = c
      BY <1>3
    <2>2. count[k + 1] = Visits(c + k + 1, b, w, T) - Visits(c, b, w, T)
          /\ count[k] = Visits(c + k, b, w, T) - Visits(c, b, w, T)
      BY <2>1
    <2>3. Visits(c, b, w, T) \in Nat /\ Visits(c + k, b, w, T) \in Nat
      BY <1>6, <2>1
    <2> HIDE DEF count, Inside
    <2> QED  BY <1>6, <2>2, <2>3
  <1>8. count[0] = 0
    <2>1. 0 \in 0 .. T - 1 /\ 0 \in 0 .. T /\ c + 0 = c
      BY <1>3
    <2>2. Visits(c, b, w, T) \in Nat
      BY <1>6, <2>1
    <2> QED  BY <2>1, <2>2
  <1> HIDE DEF Inside
  <1>9. Rotates(place[i], count, w, T)
    <2>1. place[i][0] \in Nat
      BY <1>1 DEF WalksOver, w
    <2>2. ASSUME NEW k \in 1 .. T
          PROVE  \/ place[i][k] = (place[i][k - 1] % w) + 1 /\ count[k] = count[k - 1] + 1
                 \/ place[i][k] = place[i][k - 1] /\ count[k] = count[k - 1]
      <3>1. k - 1 \in 0 .. T - 1 /\ (k - 1) + 1 = k
        OBVIOUS
      <3>2. count[k] = IF Inside(k - 1) THEN count[k - 1] + 1 ELSE count[k - 1]
        <4> HIDE DEF count
        <4> QED  BY <1>7, <3>1
      <3>3. Inside(k - 1) <=> i = ProviderAt(weight, cursor[k - 1] % T)
        BY <1>5, <3>1
      <3>4. /\ i = ProviderAt(weight, cursor[k - 1] % T) => place[i][k] = (place[i][k - 1] % w) + 1
            /\ i # ProviderAt(weight, cursor[k - 1] % T) => place[i][k] = place[i][k - 1]
        BY DEF WalksOver, w
      <3> HIDE DEF count
      <3> QED  BY <3>2, <3>3, <3>4
    <2> HIDE DEF count
    <2> QED  BY <1>8, <2>1, <2>2 DEF Rotates
  <1>10. \A k \in 0 .. T : place[i][k] % w = (place[i][0] + count[k]) % w
    <2> HIDE DEF count
    <2> QED  BY <1>1, <1>9, CountedOn
  <1>11. PICK y \in 0 .. w - 1 : (place[i][0] + y) % w = j
    <2>1. place[i][0] \in Nat /\ j \in 0 .. w - 1
      BY <1>1 DEF WalksOver, w
    <2> QED  BY <1>1, <2>1, GoingRound
  <1>12. PICK k \in 0 .. T - 1 : /\ b <= Folded(c + k, T) /\ Folded(c + k, T) < b + w
                                 /\ Visits(c + k, b, w, T) - Visits(c, b, w, T) = y
    <2>1. y \in 0 .. w - 1 /\ w \in Nat /\ b \in Nat /\ b + w <= T /\ c \in 0 .. T - 1 /\ T \in Nat
      BY <1>1, <1>3, <1>11
    <2>2. ComesFor(y, c, b, w, T)
      BY <2>1, VisitWithCount
    <2> QED  BY <2>2 DEF ComesFor
  <1>13. k \in 0 .. T /\ count[k] = y /\ k + 1 \in 1 .. T /\ (k + 1) - 1 = k
    BY <1>12
  <1> HIDE DEF count
  <1>14. ProviderAt(weight, cursor[k] % T) = i
    BY <1>5, <1>12 DEF Inside
  <1>15. place[i][k] % w = j
    BY <1>10, <1>11, <1>13
  <1> QED
    BY <1>13, <1>14, <1>15 DEF ComesTo, w

\* The entries of the shards that a query asks for.
EntriesFor(q) == [i \in 0 .. (Len(q.providers) - 1) |-> ShardFor(shards, q, i).entries]

\* What is settled at each of the providers before the first turn.
LEMMA OpenAt ==
    ASSUME SchedInv, NEW q, IsOpen(q), NEW n, AsksFor(q, n), NEW Es, Es = EntriesFor(q),
           NEW i \in 0 .. n - 1
    PROVE  LET known == metas[Nth(q, i)]
           IN  /\ IsKnown(known) /\ DOMAIN known \subseteq Auths
               /\ Settled(ShardFor(shards, q, i), Es[i], known, q.model)
               /\ ReadyOf(Es[i]) = Offerable(shards, Nth(q, i), q)
               /\ ReadyOf(Es[i]) \subseteq DOMAIN known
               /\ \A a \in DOMAIN known : Known[a] = known[a] /\ home[a] = Nth(q, i)
  <1> DEFINE p == Nth(q, i)
             E == Shard(shards, p, q.model).entries
  <1>1. p \in Providers /\ Es[i] = E
    BY DEF AsksFor, EntriesFor, ShardFor
  <1> HIDE DEF p
  <1>2. /\ IsKnown(metas[p]) /\ Settled(Shard(shards, p, q.model), E, metas[p], q.model)
        /\ ReadyOf(E) = Offerable(shards, p, q) /\ ReadyOf(E) \subseteq DOMAIN metas[p]
        /\ DOMAIN E \subseteq DOMAIN metas[p] /\ DOMAIN metas[p] \subseteq Auths
        /\ \A a \in DOMAIN metas[p] : Known[a] = metas[p][a] /\ home[a] = p
    <2> HIDE DEF E
    <2> QED  BY <1>1, SettledFirst DEF E
  <1> QED
    BY <1>1, <1>2 DEF ShardFor, p

\* The best among several providers are those ready at the highest priority.
LEMMA BestAreParts ==
    ASSUME SchedInv, NEW q \in Queries, IsOpen(q), ~PrefersWebsocket(q), NEW n, AsksFor(q, n),
           NEW Es, Es = EntriesFor(q), NEW best, Peak(Es, q, best)
    PROVE  /\ Pool!Best(q) = UNION {Part(Es, q, best, i) : i \in 0 .. n - 1}
           /\ \A i \in 0 .. n - 1 : Part(Es, q, best, i) = {a \in Pool!Best(q) : home[a] = Nth(q, i)}
  <1> DEFINE S == Pool!Best(q)
             L(i) == Part(Es, q, best, i)
             R(i) == ReadyOf(Es[i])
             F == Pool!Free(q)
  <1>1. n \in Nat \ {0} /\ n = Len(q.providers)
    BY DEF AsksFor
  <1>2. \A i \in 0 .. n - 1 : R(i) = Offerable(shards, Nth(q, i), q)
    BY OpenAt
  <1>3. \A i \in 0 .. n - 1 : \A a \in R(i) : /\ Known[a] = metas[Nth(q, i)][a] /\ home[a] = Nth(q, i)
                                             /\ Known[a].priority \in Int
    <2> SUFFICES ASSUME NEW i \in 0 .. n - 1, NEW a \in R(i)
                 PROVE  /\ Known[a] = metas[Nth(q, i)][a] /\ home[a] = Nth(q, i)
                        /\ Known[a].priority \in Int
      OBVIOUS
    <2> DEFINE known == metas[Nth(q, i)]
    <2>1. /\ IsKnown(known) /\ R(i) \subseteq DOMAIN known
          /\ \A b \in DOMAIN known : Known[b] = known[b] /\ home[b] = Nth(q, i)
      BY OpenAt
    <2> HIDE DEF known
    <2>2. a \in DOMAIN known /\ Known[a] = known[a] /\ home[a] = Nth(q, i)
      BY <2>1
    <2> QED  BY <2>1, <2>2 DEF known, IsKnown, IsSnapshot
  <1>4. \A a : a \in F <=> \E i \in 0 .. n - 1 : a \in R(i)
    <2>1. F = UNION {Offerable(shards, p, q) : p \in ToSet(q.providers)}
      BY FreeIs
    <2>2. \A p : p \in ToSet(q.providers) <=> \E i \in 0 .. n - 1 : p = Nth(q, i)
      <3>1. DOMAIN q.providers = 1 .. n
        BY <1>1 DEF AsksFor
      <3>2. \A k \in 1 .. n : k - 1 \in 0 .. n - 1 /\ Nth(q, k - 1) = q.providers[k]
        BY <1>1 DEF Nth
      <3>3. \A i \in 0 .. n - 1 : i + 1 \in 1 .. n
        BY <1>1
      <3> QED  BY <3>1, <3>2, <3>3 DEF ToSet, Nth
    <2> HIDE DEF F, R
    <2> QED  BY <1>2, <2>1, <2>2
  <1>5. \A a : a \in S <=> a \in F /\ \A b \in F : Known[b].priority <= Known[a].priority
    <2>1. Pool!Preferred(q) = F
      BY BestIs
    <2> QED  BY <2>1, BestIs
  <1>6. \A i \in 0 .. n - 1 : \A a : a \in L(i) <=> a \in R(i) /\ Known[a].priority = best
    <2> SUFFICES ASSUME NEW i \in 0 .. n - 1, NEW a
                 PROVE  a \in L(i) <=> a \in R(i) /\ Known[a].priority = best
      OBVIOUS
    <2>1. a \in L(i) <=> a \in R(i) /\ metas[Nth(q, i)][a].priority = best
      BY DEF Part, ReadyAt, ReadyOf
    <2> HIDE DEF L, R
    <2> QED  BY <1>3, <2>1
  <1>7. /\ \E i \in 0 .. n - 1 : \E a \in R(i) : Known[a].priority = best
        /\ \A i \in 0 .. n - 1 : \A a \in R(i) : Known[a].priority <= best
    <2>1. PICK i \in 0 .. n - 1 : L(i) # {}
      BY <1>1 DEF Peak
    <2>2. \A j \in 0 .. n - 1 : \A b \in R(j) : metas[Nth(q, j)][b].priority <= best
      BY <1>1 DEF Peak
    <2> HIDE DEF L, R
    <2> QED  BY <1>3, <1>6, <2>1, <2>2
  <1> HIDE DEF L, R, F, S
  <1>8. \A a : a \in S <=> \E i \in 0 .. n - 1 : a \in L(i)
    <2>0. PICK i \in 0 .. n - 1 : \E b \in R(i) : Known[b].priority = best
      BY <1>7
    <2>1. PICK b \in R(i) : Known[b].priority = best
      BY <2>0
    <2>2. b \in F /\ best \in Int
      BY <1>3, <1>4, <2>1
    <2> SUFFICES ASSUME NEW a PROVE a \in S <=> \E j \in 0 .. n - 1 : a \in L(j)
      OBVIOUS
    <2>3. ASSUME a \in S PROVE \E j \in 0 .. n - 1 : a \in L(j)
      <3>1. PICK j \in 0 .. n - 1 : a \in R(j)
        BY <1>4, <1>5, <2>3
      <3>2. Known[b].priority <= Known[a].priority /\ Known[a].priority <= best
            /\ Known[a].priority \in Int
        BY <1>3, <1>5, <1>7, <2>2, <2>3, <3>1
      <3>3. Known[a].priority = best
        BY <2>1, <2>2, <3>2
      <3> QED  BY <1>6, <3>1, <3>3
    <2>4. ASSUME NEW j \in 0 .. n - 1, a \in L(j) PROVE a \in S
      <3>1. a \in F /\ Known[a].priority = best
        BY <1>4, <1>6, <2>4
      <3>2. \A x \in F : Known[x].priority <= best
        BY <1>4, <1>7
      <3> QED  BY <1>5, <3>1, <3>2
    <2> QED  BY <2>3, <2>4
  <1>9. S = UNION {L(i) : i \in 0 .. n - 1}
    BY <1>8
  <1>10. ASSUME NEW i \in 0 .. n - 1 PROVE L(i) = {a \in S : home[a] = Nth(q, i)}
    <2>1. \A a \in L(i) : a \in S /\ home[a] = Nth(q, i)
      BY <1>3, <1>6, <1>8
    <2>2. ASSUME NEW a \in S, home[a] = Nth(q, i) PROVE a \in L(i)
      <3>1. PICK j \in 0 .. n - 1 : a \in L(j)
        BY <1>8
      <3>2. Nth(q, j) = Nth(q, i)
        BY <1>3, <1>6, <2>2, <3>1
      <3>3. i + 1 \in DOMAIN q.providers /\ j + 1 \in DOMAIN q.providers
        BY <1>1 DEF AsksFor
      <3>4. i + 1 = j + 1
        BY <3>2, <3>3 DEF Nth, AsksFor, IsInjective
      <3>5. i = j
        BY <3>4
      <3> QED  BY <3>1, <3>5
    <2> QED  BY <2>1, <2>2
  <1> QED
    BY <1>9, <1>10 DEF S, L

\* If any is ready there is a highest priority.
LEMMA SomePeak ==
    ASSUME NEW q, NEW n, AsksFor(q, n), IsOpen(q), NEW Es, NEW st, AllSettled(st, q, Es),
           NEW e \in 0 .. n - 1, ReadyOf(Es[e]) # {}
    PROVE  \E best : Peak(Es, q, best)
  <1> DEFINE C == Auths
             shard == [i \in 0 .. (n - 1) |-> ShardFor(st.shards, q, i)]
             knowns == [i \in 0 .. (n - 1) |-> metas[Nth(q, i)]]
             best == BestOf(shard, C)
  <1>1. n \in Nat \ {0} /\ n = Len(q.providers)
    BY DEF AsksFor
  <1>2. \A i \in 0 .. n - 1 :
           /\ shard[i] = ShardFor(st.shards, q, i) /\ knowns[i] = metas[Nth(q, i)]
           /\ IsKnown(knowns[i]) /\ ShardOK(shard[i], knowns[i], q.model, now)
           /\ shard[i].entries = Es[i] /\ ReadyOf(Es[i]) \subseteq C
    <2> SUFFICES ASSUME NEW i \in 0 .. n - 1
                 PROVE
           /\ shard[i] = ShardFor(st.shards, q, i) /\ knowns[i] = metas[Nth(q, i)]
           /\ IsKnown(knowns[i]) /\ ShardOK(shard[i], knowns[i], q.model, now)
           /\ shard[i].entries = Es[i] /\ ReadyOf(Es[i]) \subseteq C
      OBVIOUS
    <2>1. shard[i] = ShardFor(st.shards, q, i) /\ knowns[i] = metas[Nth(q, i)]
      OBVIOUS
    <2> HIDE DEF shard, knowns
    <2> QED  BY <2>1, SettledHas
  <1>3. DOMAIN shard = 0 .. n - 1
    OBVIOUS
  <1> HIDE DEF shard, knowns, C, best
  <1>4. AllOK(shard, knowns, n, q.model, now)
    BY <1>1, <1>2, <1>3 DEF AllOK
  <1>5. ServingOf(shard, C) # {}
    <2>1. ServingOf(shard, C) = {i \in 0 .. n - 1 : ReadyOf(shard[i].entries) \cap C # {}}
      BY <1>4, BestOfIsSummit
    <2>2. ReadyOf(shard[e].entries) \cap C # {}
      BY <1>2
    <2> QED  BY <2>1, <2>2
  <1>6. Summit(shard, knowns, n, C, best)
    BY <1>4, <1>5, BestOfIsSummit DEF best
  <1>7. \E i \in 0 .. n - 1 : Part(Es, q, best, i) # {}
    <2>1. PICK i \in 0 .. n - 1 : ServesAt(shard[i], knowns[i], best, C)
      BY <1>6 DEF Summit
    <2> QED  BY <1>2, <2>1 DEF ServesAt, Part
  <1>8. \A j \in 0 .. n - 1 : \A b \in ReadyOf(Es[j]) : metas[Nth(q, j)][b].priority <= best
    <2> SUFFICES ASSUME NEW j \in 0 .. n - 1, NEW b \in ReadyOf(Es[j])
                 PROVE  metas[Nth(q, j)][b].priority <= best
      OBVIOUS
    <2>1. b \in ReadyOf(shard[j].entries) \cap C /\ knowns[j] = metas[Nth(q, j)]
      BY <1>2
    <2> QED  BY <1>6, <2>1 DEF Summit
  <1> QED
    BY <1>1, <1>7, <1>8 DEF Peak

\* Rotations stand somewhere.
LEMMA PlaceIsNat ==
    ASSUME NEW q, NEW n, AsksFor(q, n), NEW Es, NEW st, AllSettled(st, q, Es), NEW best,
           NEW i \in 0 .. n - 1, Part(Es, q, best, i) # {}
    PROVE  Place(ShardFor(st.shards, q, i).ready[best].all) \in Nat
  <1> DEFINE s == ShardFor(st.shards, q, i)
             known == metas[Nth(q, i)]
             S == ReadyAt(s.entries, known, best)
  <1>1. /\ IsKnown(known) /\ ShardOK(s, known, q.model, now) /\ s.entries = Es[i]
        /\ Part(Es, q, best, i) \in SUBSET DOMAIN known
    BY SettledHas
  <1>2. S = Part(Es, q, best, i) /\ S \in SUBSET DOMAIN known
    BY <1>1 DEF Part
  <1> HIDE DEF s, known
  <1>3. best \in Levels(s.entries, known)
    BY <1>2 DEF Levels, ReadyAt, ReadyOf
  <1>4. BucketOK(s.ready[best], S, known)
    BY <1>1, <1>3 DEF ShardOK, ReadyOK
  <1> HIDE DEF S
  <1>5. IsTurned(s.ready[best].all, View(S, known))
    BY <1>4 DEF BucketOK
  <1> DEFINE v == s.ready[best].all
  <1> HIDE DEF v
  <1>6. v.cursor \in Nat /\ v.parentCursor \in Nat
    BY <1>1, <1>2, <1>5, TurnedHas DEF v
  <1> QED
    BY <1>6 DEF Place, v, s

\* The parents among those of S at a provider.
ParentsAt(S, p) == {Known[a].parent : a \in {b \in S : home[b] = p}}

\* Turns among several providers: the credentials to choose from are offered once
\* each.
LEMMA TurnsAmong ==
    ASSUME SchedInv, strategy = "roundRobin", NEW q \in Queries, IsOpen(q), Len(q.providers) > 1,
           NEW S, S = Pool!Best(q), NEW turn, TakesTurns(turn, q, Cardinality(S)),
           \A p \in Providers : ~(Nil \notin ParentsAt(S, p) /\ Cardinality(ParentsAt(S, p)) > 1)
    PROVE  {turn[k].auth : k \in 1 .. Cardinality(S)} = S
  <1> DEFINE n == Len(q.providers)
             Es == EntriesFor(q)
             N == Cardinality(S)
  <1>1. AsksFor(q, n) /\ n \in Nat \ {0} /\ ~PrefersWebsocket(q)
    <2>1. q.providers \in Seq(Providers) /\ q.providers # <<>> /\ IsInjective(q.providers)
      BY QueriesAreTyped
    <2>2. n \in Nat \ {0} /\ DOMAIN q.providers = 1 .. n
      BY <2>1
    <2>3. \A i \in 0 .. n - 1 : Nth(q, i) \in Providers
      BY <2>1, <2>2 DEF Nth
    <2>4. q.providers # <<Codex>>
      <3>1. Len(<<Codex>>) = 1 /\ ~(1 > 1)
        OBVIOUS
      <3> QED  BY <3>1
    <2>5. ~PrefersWebsocket(q)
      BY <2>4 DEF PrefersWebsocket
    <2> QED  BY <2>1, <2>2, <2>3, <2>5 DEF AsksFor
  <1> HIDE DEF n, Es
  <1>2. Es = EntriesFor(q) /\ n = Len(q.providers)
    BY DEF n, Es
  <1>3. \A i \in 0 .. n - 1 :
           /\ IsKnown(metas[Nth(q, i)]) /\ DOMAIN metas[Nth(q, i)] \subseteq Auths
           /\ Settled(ShardFor(shards, q, i), Es[i], metas[Nth(q, i)], q.model)
           /\ ReadyOf(Es[i]) = Offerable(shards, Nth(q, i), q)
           /\ ReadyOf(Es[i]) \subseteq DOMAIN metas[Nth(q, i)]
           /\ \A a \in DOMAIN metas[Nth(q, i)] : Known[a] = metas[Nth(q, i)][a] /\ home[a] = Nth(q, i)
    <2> SUFFICES ASSUME NEW i \in 0 .. n - 1
                 PROVE
           /\ IsKnown(metas[Nth(q, i)]) /\ DOMAIN metas[Nth(q, i)] \subseteq Auths
           /\ Settled(ShardFor(shards, q, i), Es[i], metas[Nth(q, i)], q.model)
           /\ ReadyOf(Es[i]) = Offerable(shards, Nth(q, i), q)
           /\ ReadyOf(Es[i]) \subseteq DOMAIN metas[Nth(q, i)]
           /\ \A a \in DOMAIN metas[Nth(q, i)] : Known[a] = metas[Nth(q, i)][a] /\ home[a] = Nth(q, i)
      OBVIOUS
    <2> QED  BY <1>1, <1>2, OpenAt
  <1>4. AllSettled(turn[0], q, Es)
    <2>1. ShardsOK(shards, metas, now) /\ CursorsAreNat(mixed)
      BY DEF SchedInv
    <2>2. turn[0].shards = shards /\ turn[0].mixed = mixed
      BY DEF TakesTurns
    <2> QED  BY <1>2, <1>3, <2>1, <2>2 DEF AllSettled
  <1>5. CASE \A i \in 0 .. n - 1 : ReadyOf(Es[i]) = {}
    <2>1. Pool!Free(q) = UNION {Offerable(shards, p, q) : p \in ToSet(q.providers)}
      BY FreeIs
    <2>2. \A p \in ToSet(q.providers) : Offerable(shards, p, q) = {}
      <3> SUFFICES ASSUME NEW p \in ToSet(q.providers) PROVE Offerable(shards, p, q) = {}
        OBVIOUS
      <3>1. PICK k \in DOMAIN q.providers : p = q.providers[k]
        BY DEF ToSet
      <3>2. DOMAIN q.providers = 1 .. n
        BY <1>1 DEF AsksFor
      <3>3. k - 1 \in 0 .. n - 1 /\ (k - 1) + 1 = k
        BY <1>1, <3>2
      <3>4. Nth(q, k - 1) = p
        BY <3>1, <3>3 DEF Nth
      <3> QED  BY <1>3, <1>5, <3>3, <3>4
    <2>3. S = {}
      <3>1. Pool!Free(q) = {}
        BY <2>1, <2>2
      <3>2. Pool!Best(q) \subseteq Pool!Free(q)
        BY BestIs
      <3> QED  BY <3>1, <3>2
    <2>4. N = 0
      BY <2>3, FS_EmptySet
    <2> QED  BY <2>3, <2>4
  <1>6. ASSUME NEW best, Peak(Es, q, best)
        PROVE  {turn[k].auth : k \in 1 .. N} = S
    <2> DEFINE L(i) == Part(Es, q, best, i)
               weight == Shares(Es, q, best)
               T == SlotsBefore(weight)[n]
               known(i) == metas[Nth(q, i)]
               w(i) == View(L(i), known(i))
    <2>1. /\ S = UNION {L(i) : i \in 0 .. n - 1}
          /\ \A i \in 0 .. n - 1 : L(i) = {a \in S : home[a] = Nth(q, i)}
      <3> HIDE DEF L
      <3> QED  BY <1>1, <1>2, <1>6, BestAreParts DEF L
    <2>2. \A i \in 0 .. n - 1 : L(i) \in SUBSET DOMAIN known(i) /\ IsKnown(known(i))
                                /\ L(i) \in SUBSET Auths
      <3>1. \A i \in 0 .. n - 1 : L(i) \subseteq ReadyOf(Es[i])
        BY DEF Part, ReadyAt, ReadyOf
      <3> HIDE DEF L
      <3> QED  BY <1>3, <3>1
    <2>3. weight = [i \in 0 .. (n - 1) |-> Cardinality(L(i))]
      BY <1>2 DEF Shares
    <2>4. \A i, j \in 0 .. n - 1 : i # j => L(i) \cap L(j) = {}
      <3> SUFFICES ASSUME NEW i \in 0 .. n - 1, NEW j \in 0 .. n - 1, NEW a \in L(i), a \in L(j)
                   PROVE  i = j
        OBVIOUS
      <3>1. Nth(q, i) = Nth(q, j)
        <4> HIDE DEF L
        <4> QED  BY <2>1
      <3>2. i + 1 \in DOMAIN q.providers /\ j + 1 \in DOMAIN q.providers
        BY <1>1, <1>2 DEF AsksFor
      <3>3. i + 1 = j + 1
        BY <1>1, <3>1, <3>2 DEF Nth, AsksFor, IsInjective
      <3> QED  BY <3>3
    <2> DEFINE part == [i \in 0 .. (n - 1) |-> L(i)]
    <2>5. IsWeight(weight, n) /\ Cardinality(S) = T
      <3>1. \A i \in 0 .. n - 1 : part[i] = L(i)
        OBVIOUS
      <3> HIDE DEF part, L, weight
      <3>2. weight = [i \in 0 .. (n - 1) |-> Cardinality(part[i])]
        BY <2>3, <3>1
      <3>3. \A i \in 0 .. n - 1 : IsFiniteSet(part[i])
        BY <2>2, <3>1, AuthsFinite, FS_Subset
      <3>4. \A i, j \in 0 .. n - 1 : i # j => part[i] \cap part[j] = {}
        BY <2>4, <3>1
      <3>5. UNION {part[i] : i \in 0 .. n - 1} = S
        BY <2>1, <3>1
      <3>6. /\ IsWeight(weight, n)
            /\ Cardinality(UNION {part[i] : i \in 0 .. n - 1}) = SlotsBefore(weight)[n]
        BY <1>1, <3>2, <3>3, <3>4, ManyInAll
      <3> QED  BY <3>5, <3>6
    <2> HIDE DEF part
    <2>6. ASSUME NEW i \in 0 .. n - 1
          PROVE  /\ w(i).parents = <<>> /\ Stops(w(i)) = weight[i]
                 /\ ToSet(w(i).flat) = L(i) /\ DOMAIN w(i).flat = 1 .. weight[i]
      <3> DEFINE P == ParentsOf(L(i), known(i))
                 grouped == Nil \notin P /\ Cardinality(P) > 1
      <3>1. P = ParentsAt(S, Nth(q, i))
        <4>1. \A a \in L(i) : Known[a] = known(i)[a]
          <5> HIDE DEF L
          <5> QED  BY <1>3, <2>2
        <4>2. L(i) = {b \in S : home[b] = Nth(q, i)}
          BY <2>1
        <4> HIDE DEF L
        <4> QED  BY <4>1, <4>2 DEF ParentsOf, ParentsAt
      <3>2. ~grouped
        <4>1. Nth(q, i) \in Providers
          BY <1>1 DEF AsksFor
        <4> HIDE DEF P
        <4> QED  BY <3>1, <4>1
      <3>3. weight[i] = Cardinality(L(i))
        BY <2>3
      <3> HIDE DEF L, weight
      <3>4. /\ grouped <=> w(i).parents # <<>>
            /\ ~grouped => /\ Stops(w(i)) = Cardinality(L(i)) /\ ToSet(w(i).flat) = L(i)
                           /\ DOMAIN w(i).flat = 1 .. Stops(w(i))
        <4> DEFINE K == known(i)
        <4>1. L(i) \in SUBSET DOMAIN K /\ IsKnown(K) /\ P = ParentsOf(L(i), K) /\ w(i) = View(L(i), K)
          BY <2>2
        <4> HIDE DEF K, P
        <4> QED  BY <4>1, StopsAre
      <3> QED  BY <3>2, <3>3, <3>4
    <2> HIDE DEF w, L, T
    <2> DEFINE Good(k) == AllSettled(turn[k], q, Es)
               Bad == {k \in 0 .. N : ~Good(k)}
    <2>7. ASSUME NEW k \in 1 .. N, Good(k - 1)
          PROVE  Good(k) /\ Walks(turn[k - 1], turn[k], q, Es, best)
      <3> DEFINE st == turn[k - 1]
      <3>1. turn[k] = PickAmong(st, q)
        BY DEF TakesTurns, Served, IsOpen
      <3>2. now \in Nat \ {0}
        BY DEF SchedInv
      <3>3. AllSettled(st, q, Es)
        BY <2>7
      <3> HIDE DEF st
      <3>4. AllSettled(PickAmong(st, q), q, Es) /\ Walks(st, PickAmong(st, q), q, Es, best)
        BY <1>1, <1>6, <3>2, <3>3, StepAmong
      <3> QED  BY <3>1, <3>4 DEF st
    <2>8. N \in Nat
      <3>1. S \subseteq Auths
        BY <2>1, <2>2
      <3>2. IsFiniteSet(S)
        BY <3>1, AuthsFinite, FS_Subset
      <3> QED  BY <3>2, FS_CardinalityType
    <2> HIDE DEF N
    <2>9. ASSUME NEW k \in Bad, \A j \in Bad : k <= j PROVE FALSE
      <3>0. k \in 0 .. N /\ ~Good(k) /\ k # 0
        BY <1>4
      <3>1. k \in 1 .. N /\ k - 1 \in 0 .. N /\ k - 1 \notin Bad
        <4> HIDE DEF Bad
        <4> QED  BY <2>8, <2>9, <3>0
      <3>2. Good(k - 1)
        BY <3>1
      <3> QED  BY <2>7, <3>0, <3>1, <3>2
    <2>10. \A k \in 0 .. N : Good(k)
      <3>1. Bad \subseteq Nat
        BY <2>8
      <3> HIDE DEF Bad
      <3>2. Bad = {}
        BY <2>9, <3>1, LeastNat
      <3> QED  BY <3>2 DEF Bad
    <2>11. \A k \in 1 .. N : k - 1 \in 0 .. N /\ k \in 0 .. N /\ Walks(turn[k - 1], turn[k], q, Es, best)
      <3> HIDE DEF Good
      <3> QED  BY <2>7, <2>8, <2>10
    <2>12. CASE N = 0
      <3>1. S = {}
        <4>1. S \subseteq Auths
          BY <2>1, <2>2
        <4>2. IsFiniteSet(S)
          BY <4>1, AuthsFinite, FS_Subset
        <4> QED  BY <2>12, <4>2, FS_EmptySet DEF N
      <3> QED  BY <2>12, <3>1
    <2>13. CASE N # 0
      <3> DEFINE cursor == [k \in 0 .. N |-> MixedCursor(turn[k], q)]
                 at(i, k) == Place(ShardFor(turn[k].shards, q, i).ready[best].all)
                 place == [i \in 0 .. (n - 1) |-> [k \in 0 .. N |-> at(i, k)]]
                 e(k) == ProviderAt(weight, cursor[k - 1] % N)
      <3>1. N = T /\ N \in Nat \ {0}
        BY <2>5, <2>8, <2>13 DEF N
      <3>2. /\ \A k \in 0 .. N : cursor[k] = MixedCursor(turn[k], q)
            /\ \A i \in 0 .. n - 1 : \A k \in 0 .. N : place[i][k] = at(i, k)
        OBVIOUS
      <3> HIDE DEF cursor, place, weight
      <3>3. ASSUME NEW k \in 1 .. N
            PROVE  /\ cursor[k] = (cursor[k - 1] % N) + 1 /\ cursor[k - 1] \in Nat
                   /\ e(k) \in 0 .. n - 1 /\ weight[e(k)] # 0
                   /\ place[e(k)][k - 1] \in Nat /\ weight[e(k)] \in Nat \ {0}
                   /\ AtStop(w(e(k)), known(e(k)), turn[k].auth, place[e(k)][k - 1] % weight[e(k)])
                   /\ place[e(k)][k] = (place[e(k)][k - 1] % weight[e(k)]) + 1
                   /\ \A i \in 0 .. n - 1 : i # e(k) => place[i][k] = place[i][k - 1]
        <4> DEFINE st == turn[k - 1]
                   r == turn[k]
                   slot == MixedCursor(st, q) % N
                   x == ProviderAt(weight, slot)
        <4>1. k - 1 \in 0 .. N /\ k \in 0 .. N /\ Walks(st, r, q, Es, best)
          BY <2>11
        <4>2. cursor[k - 1] = MixedCursor(st, q) /\ cursor[k] = MixedCursor(r, q)
          BY <3>2, <4>1
        <4> HIDE DEF st, r
        <4>3. /\ MixedCursor(st, q) \in Nat /\ MixedCursor(r, q) = slot + 1
              /\ x \in 0 .. n - 1 /\ weight[x] # 0
              /\ Advances(ShardFor(st.shards, q, x).ready[best].all, ShardFor(r.shards, q, x).ready[best].all,
                          w(x), known(x), r.auth)
              /\ \A i \in 0 .. n - 1 : i # x => ShardFor(r.shards, q, i) = ShardFor(st.shards, q, i)
          BY <1>2, <3>1, <4>1 DEF Walks, weight, T, w, L
        <4>4. e(k) = x
          BY <4>2
        <4> HIDE DEF slot, x, e
        <4>5. Stops(w(x)) = weight[x]
          BY <2>6, <4>3
        <4>6. /\ at(x, k - 1) \in Nat /\ weight[x] \in Nat \ {0}
              /\ AtStop(w(x), known(x), r.auth, at(x, k - 1) % weight[x])
              /\ at(x, k) = (at(x, k - 1) % weight[x]) + 1
          BY <4>3, <4>5 DEF Advances, st, r
        <4>7. \A i \in 0 .. n - 1 : i # x => at(i, k) = at(i, k - 1)
          BY <4>3 DEF st, r
        <4> HIDE DEF at
        <4>8. place[x][k - 1] = at(x, k - 1) /\ place[x][k] = at(x, k)
          BY <3>2, <4>1, <4>3
        <4>9. \A i \in 0 .. n - 1 : i # x => place[i][k] = place[i][k - 1]
          BY <3>2, <4>1, <4>7
        <4>10. cursor[k] = (cursor[k - 1] % N) + 1 /\ cursor[k - 1] \in Nat
          BY <4>2, <4>3 DEF slot
        <4> QED  BY <4>3, <4>4, <4>6, <4>8, <4>9, <4>10 DEF r
      <3>4. \A i \in 0 .. n - 1 : weight[i] # 0 => place[i][0] \in Nat
        <4> SUFFICES ASSUME NEW i \in 0 .. n - 1, weight[i] # 0 PROVE place[i][0] \in Nat
          OBVIOUS
        <4>1. Part(Es, q, best, i) # {}
          BY <2>3, FS_EmptySet DEF L
        <4>2. Place(ShardFor(turn[0].shards, q, i).ready[best].all) \in Nat
          BY <1>1, <1>4, <4>1, PlaceIsNat
        <4>3. 0 \in 0 .. N
          BY <2>8
        <4> QED  BY <3>2, <4>2, <4>3
      <3>5. cursor[0] \in Nat
        <4>1. 1 \in 1 .. N /\ 1 - 1 = 0
          BY <3>1
        <4> QED  BY <3>3, <4>1
      <3>6. WalksOver(cursor, place, weight, n, N)
        <4> HIDE DEF at
        <4> QED  BY <3>3, <3>4, <3>5 DEF WalksOver
      <3>7. ASSUME NEW a \in S PROVE \E k \in 1 .. N : turn[k].auth = a
        <4>1. PICK i \in 0 .. n - 1 : a \in L(i)
          BY <2>1
        <4>2. PICK y \in 1 .. weight[i] : w(i).flat[y] = a
          <5>1. ToSet(w(i).flat) = L(i) /\ DOMAIN w(i).flat = 1 .. weight[i]
            BY <2>6
          <5>2. a \in ToSet(w(i).flat)
            BY <4>1, <5>1
          <5>3. PICK y \in DOMAIN w(i).flat : w(i).flat[y] = a
            BY <5>2 DEF ToSet
          <5> QED  BY <5>1, <5>3
        <4>3. y - 1 \in 0 .. weight[i] - 1 /\ (y - 1) + 1 = y
          BY <2>5, <4>2 DEF IsWeight
        <4> DEFINE j == y - 1
        <4> HIDE DEF j
        <4>4. j \in 0 .. weight[i] - 1
          BY <4>3 DEF j
        <4>5. PICK k \in 1 .. N : /\ ProviderAt(weight, cursor[k - 1] % N) = i
                                  /\ place[i][k - 1] % weight[i] = j
          <5>1. N = SlotsBefore(weight)[n] /\ n \in Nat /\ IsWeight(weight, n)
            BY <1>1, <2>5, <3>1 DEF T
          <5>2. ComesTo(i, j, cursor, place, weight, N)
            BY <3>1, <3>6, <4>4, <5>1, EachPlaceOfEach
          <5> QED  BY <5>2 DEF ComesTo
        <4>6. AtStop(w(i), known(i), turn[k].auth, j)
          BY <3>3, <4>5
        <4>7. turn[k].auth = w(i).flat[j + 1]
          BY <2>6, <4>6 DEF AtStop
        <4> QED  BY <4>2, <4>3, <4>7 DEF j
      <3>8. ASSUME NEW k \in 1 .. N PROVE turn[k].auth \in S
        <4> DEFINE i == e(k)
                   c == place[i][k - 1]
        <4>1. /\ i \in 0 .. n - 1 /\ c \in Nat /\ weight[i] \in Nat \ {0}
              /\ AtStop(w(i), known(i), turn[k].auth, c % weight[i])
          BY <3>3
        <4> HIDE DEF i, c
        <4>2. turn[k].auth = w(i).flat[(c % weight[i]) + 1]
          BY <2>6, <4>1 DEF AtStop
        <4>3. (c % weight[i]) + 1 \in 1 .. weight[i]
          <5> DEFINE u == weight[i]
          <5> HIDE DEF u
          <5>1. u \in Nat \ {0}
            BY <4>1 DEF u
          <5>2. c % u \in 0 .. u - 1
            BY <4>1, <5>1, GoingRound
          <5>3. (c % u) + 1 \in 1 .. u
            BY <5>1, <5>2
          <5> QED  BY <5>3 DEF u
        <4>4. turn[k].auth \in L(i)
          BY <2>6, <4>1, <4>2, <4>3 DEF ToSet
        <4> QED  BY <2>1, <4>1, <4>4
      <3> QED  BY <3>7, <3>8
    <2> QED  BY <2>12, <2>13
  <1>7. CASE ~\A i \in 0 .. n - 1 : ReadyOf(Es[i]) = {}
    <2>1. PICK i \in 0 .. n - 1 : ReadyOf(Es[i]) # {}
      BY <1>7
    <2>2. \E best : Peak(Es, q, best)
      BY <1>1, <1>4, <2>1, SomePeak
    <2> QED  BY <1>6, <2>2
  <1> QED
    BY <1>5, <1>7

\* A query with a pinned credential: it is the one to choose from, if any is.
LEMMA TurnsPinned ==
    ASSUME SchedInv, NEW q \in Queries, q.pinned # Nil, NEW S, S = Pool!Best(q),
           NEW turn, TakesTurns(turn, q, Cardinality(S))
    PROVE  /\ {turn[k].auth : k \in 1 .. Cardinality(S)} = S
           /\ \A p : ~(Cardinality(ParentsAt(S, p)) > 1)
  <1>1. S \subseteq {q.pinned}
    <2>1. Pool!Free(q) = UNION {Offerable(shards, p, q) : p \in ToSet(q.providers)}
      BY FreeIs
    <2>2. \A p : Offerable(shards, p, q) \subseteq {q.pinned}
      BY DEF Offerable, Allowed
    <2>3. Pool!Best(q) \subseteq Pool!Free(q)
      BY BestIs
    <2> QED  BY <2>1, <2>2, <2>3
  <1>2. CASE S = {}
    <2>1. Cardinality(S) = 0
      BY <1>2, FS_EmptySet
    <2>2. \A p : ParentsAt(S, p) = {}
      BY <1>2 DEF ParentsAt
    <2>3. \A p : Cardinality(ParentsAt(S, p)) = 0
      BY <2>2, FS_EmptySet
    <2> QED  BY <1>2, <2>1, <2>3
  <1>3. CASE S = {q.pinned}
    <2>1. Cardinality(S) = 1
      BY <1>3, FS_Singleton
    <2> DEFINE st == [shards |-> shards, mixed |-> mixed]
               a == Served(st, q).auth
    <2>2. turn[1] = Served(turn[0], q) /\ turn[0].shards = shards
      <3>1. 1 \in 1 .. 1 /\ 1 - 1 = 0
        OBVIOUS
      <3> QED  BY <2>1, <3>1 DEF TakesTurns
    <2>3. Served(turn[0], q).auth = a
      <3> DEFINE x == turn[0]
                 y == st
      <3>1. x.shards = y.shards
        BY <2>2
      <3> HIDE DEF x, y
      <3>2. \A p : PickIn(x, p, q).auth = PickIn(y, p, q).auth
        BY <3>1 DEF PickIn, Placed
      <3> DEFINE p == home[q.pinned]
                 one == Len(q.providers) = 1
      <3>3. one \/ Len(q.providers) > 1
        BY SomeProvider
      <3>4. ASSUME NEW z, one PROVE Served(z, q) = PickIn(z, q.providers[1], q)
        BY <3>4 DEF Served
      <3>5. ASSUME NEW z, ~one
            PROVE  Served(z, q) = IF p \in ToSet(q.providers) THEN PickIn(z, p, q)
                                  ELSE [auth |-> Nil, shards |-> z.shards, mixed |-> z.mixed]
        <4> HIDE DEF p
        <4> QED  BY <3>3, <3>5 DEF Served, p
      <3> HIDE DEF p, one
      <3>6. ASSUME one PROVE Served(x, q).auth = Served(y, q).auth
        <4>1. /\ Served(x, q) = PickIn(x, q.providers[1], q)
              /\ Served(y, q) = PickIn(y, q.providers[1], q)
          BY <3>4, <3>6
        <4> QED  BY <3>2, <4>1
      <3>7. ASSUME ~one /\ p \in ToSet(q.providers) PROVE Served(x, q).auth = Served(y, q).auth
        <4>1. Served(x, q) = PickIn(x, p, q) /\ Served(y, q) = PickIn(y, p, q)
          BY <3>5, <3>7
        <4> QED  BY <3>2, <4>1
      <3>8. ASSUME ~one /\ p \notin ToSet(q.providers) PROVE Served(x, q).auth = Served(y, q).auth
        <4>1. /\ Served(x, q) = [auth |-> Nil, shards |-> x.shards, mixed |-> x.mixed]
              /\ Served(y, q) = [auth |-> Nil, shards |-> y.shards, mixed |-> y.mixed]
          BY <3>5, <3>8
        <4> QED  BY <4>1
      <3>9. Served(x, q).auth = Served(y, q).auth
        BY <3>6, <3>7, <3>8
      <3> QED  BY <3>9 DEF x, y
    <2>4. a = q.pinned
      <3>1. (a \in Auths /\ a \in Pool!Best(q)) \/ (a = Nil /\ Pool!Best(q) = {})
        <4> DEFINE y == st
        <4> HIDE DEF y
        <4>1. y = [shards |-> shards, mixed |-> mixed]
          BY DEF y
        <4>2. a = Served(y, q).auth
          BY DEF y
        <4> HIDE DEF a
        <4> QED  BY <4>1, <4>2, ServedIsBest
      <3> HIDE DEF a
      <3> QED  BY <1>3, <3>1
    <2> HIDE DEF a
    <2>5. {turn[k].auth : k \in 1 .. 1} = {q.pinned}
      <3>1. 1 .. 1 = {1}
        OBVIOUS
      <3> QED  BY <2>2, <2>3, <2>4, <3>1
    <2>6. ASSUME NEW p PROVE ~(Cardinality(ParentsAt(S, p)) > 1)
      <3> DEFINE P == ParentsAt(S, p)
      <3>1. P \subseteq {Known[q.pinned].parent}
        BY <1>3 DEF ParentsAt
      <3> HIDE DEF P
      <3>2. P = {} \/ P = {Known[q.pinned].parent}
        BY <3>1
      <3>3. Cardinality(P) = 0 \/ Cardinality(P) = 1
        BY <3>2, FS_EmptySet, FS_Singleton
      <3> QED  BY <3>3 DEF P
    <2> QED  BY <1>3, <2>1, <2>5, <2>6
  <1> QED
    BY <1>1, <1>2, <1>3

\* The recursion of EvenTurns has a solution.
TurnsUpTo(q, n, f) ==
    f = [k \in 0 .. n |-> IF k = 0 THEN [auth |-> Nil, shards |-> shards, mixed |-> mixed]
                          ELSE Served(f[k - 1], q)]

\* The recursion that the turns follow has a solution.
LEMMA TurnsExist ==
    ASSUME NEW q, NEW n \in Nat
    PROVE  \E f : TurnsUpTo(q, n, f)
  <1> DEFINE Bad == {k \in Nat : ~\E f : TurnsUpTo(q, k, f)}
             start == [auth |-> Nil, shards |-> shards, mixed |-> mixed]
  <1>1. ASSUME NEW k \in Bad, \A j \in Bad : k <= j PROVE FALSE
    <2>1. CASE k = 0
      <3>1. TurnsUpTo(q, 0, [i \in 0 .. 0 |-> start])
        BY DEF TurnsUpTo
      <3> QED  BY <1>1, <2>1, <3>1
    <2>2. CASE k # 0
      <3>1. k - 1 \in Nat /\ k - 1 \notin Bad /\ k \in Nat
        <4>1. k \in Nat
          OBVIOUS
        <4> HIDE DEF Bad
        <4> QED  BY <1>1, <2>2, <4>1
      <3>2. PICK f : TurnsUpTo(q, k - 1, f)
        BY <3>1
      <3> DEFINE top == Served(f[k - 1], q)
                 g == [i \in 0 .. k |-> IF i = k THEN top ELSE f[i]]
      <3>3. TurnsUpTo(q, k, g)
        <4>1. \A i \in 0 .. k : i # k => g[i] = f[i] /\ i \in 0 .. k - 1
          BY <3>1
        <4>2. \A i \in 0 .. k : i # 0 => i - 1 \in 0 .. k - 1 /\ g[i - 1] = f[i - 1]
          BY <3>1
        <4>3. g[k] = top /\ DOMAIN g = 0 .. k
          BY <3>1
        <4> HIDE DEF g, top, start
        <4>4. \A i \in 0 .. k - 1 : f[i] = IF i = 0 THEN start ELSE Served(f[i - 1], q)
          BY <3>2 DEF TurnsUpTo, start
        <4>5. \A i \in 0 .. k : g[i] = IF i = 0 THEN start ELSE Served(g[i - 1], q)
          BY <4>1, <4>2, <4>3, <4>4, <2>2 DEF top
        <4>6. g = [i \in 0 .. k |-> g[i]]
          BY DEF g
        <4>7. g = [i \in 0 .. k |-> IF i = 0 THEN start ELSE Served(g[i - 1], q)]
          BY <4>5, <4>6
        <4> QED  BY <4>7 DEF TurnsUpTo, start
      <3> HIDE DEF g
      <3> QED  BY <1>1, <3>3
    <2> QED  BY <2>1, <2>2
  <1>2. Bad = {}
    <2> HIDE DEF Bad
    <2>1. Bad \subseteq Nat
      BY DEF Bad
    <2> QED  BY <1>1, <2>1, LeastNat
  <1> QED
    BY <1>2

\* What is even about some turns.
AreEven(turn, q, S) ==
    LET grouped == {p \in Providers : Nil \notin ParentsAt(S, p) /\ Cardinality(ParentsAt(S, p)) > 1}
    IN  /\ grouped = {} => {turn[k].auth : k \in 1 .. Cardinality(S)} = S
        /\ \A p \in grouped : q.providers = <<p>> =>
              {Known[turn[k].auth].parent : k \in 1 .. Cardinality(ParentsAt(S, p))} = ParentsAt(S, p)

\* Everyone has a turn, at one provider or among several.
LEMMA AllTurnsEven ==
    ASSUME SchedInv, strategy = "roundRobin", NEW q \in Queries, q.tried = {},
           NEW S, S = Pool!Best(q), NEW turn, TakesTurns(turn, q, Cardinality(S))
    PROVE  AreEven(turn, q, S)
  <1>1. q.providers \in Seq(Providers) /\ Len(q.providers) \in Nat \ {0}
        /\ DOMAIN q.providers = 1 .. Len(q.providers)
    BY QueriesAreTyped
  <1>5. Len(q.providers) = 1 \/ Len(q.providers) > 1
    BY SomeProvider
  <1>2. CASE q.pinned # Nil
    BY <1>2, TurnsPinned DEF AreEven
  <1>3. CASE q.pinned = Nil /\ Len(q.providers) = 1
    <2> DEFINE P == {Known[a].parent : a \in S}
               p == q.providers[1]
    <2>1. EvenAtOne(turn, q, S, P)
      <3>1. IsOpen(q) /\ Len(q.providers) = 1
        BY <1>3 DEF IsOpen
      <3>2. P = {Known[a].parent : a \in S}
        OBVIOUS
      <3> HIDE DEF P
      <3> QED  BY <3>1, <3>2, TurnsAtOne
    <2>2. ParentsAt(S, p) = P
      <3>1. {b \in S : home[b] = p} = S
        BY <2>1 DEF EvenAtOne
      <3> QED  BY <3>1 DEF ParentsAt
    <2>3. p \in Providers /\ \A o : q.providers = <<o>> => o = p
      <3>1. 1 \in DOMAIN q.providers
        BY <1>1, <1>3
      <3> QED  BY <1>1, <3>1
    <2> HIDE DEF P, p
    <2> QED  BY <2>1, <2>2, <2>3 DEF AreEven, EvenAtOne
  <1>4. CASE q.pinned = Nil /\ Len(q.providers) > 1
    <2>1. \A p : q.providers # <<p>>
      <3>1. \A p : Len(<<p>>) = 1
        OBVIOUS
      <3>2. ~(1 > 1)
        OBVIOUS
      <3> QED  BY <1>4, <3>1, <3>2
    <2>2. IsOpen(q)
      BY <1>4 DEF IsOpen
    <2>3. ASSUME \A p \in Providers : ~(Nil \notin ParentsAt(S, p) /\ Cardinality(ParentsAt(S, p)) > 1)
          PROVE  {turn[k].auth : k \in 1 .. Cardinality(S)} = S
      BY <1>4, <2>2, <2>3, TurnsAmong
    <2> QED  BY <2>1, <2>3 DEF AreEven
  <1> QED
    BY <1>2, <1>3, <1>4, <1>5

\* What EvenTurns says of the state the scheduler is in.
LEMMA EvenNow ==
    ASSUME SchedInv
    PROVE  EvenTurns
  <1> SUFFICES ASSUME strategy = "roundRobin", NEW q \in Queries, q.tried = {}
               PROVE  AreEven(CHOOSE f : TurnsUpTo(q, Cardinality(Pool!Best(q)), f), q, Pool!Best(q))
    BY DEF EvenTurns, AreEven, ParentsAt, TurnsUpTo
  <1> DEFINE S == Pool!Best(q)
             N == Cardinality(S)
             turn == CHOOSE f : TurnsUpTo(q, N, f)
  <1>1. N \in Nat
    <2>1. S \subseteq Auths
      <3>1. Pool!Best(q) \subseteq Pool!Free(q)
        BY BestIs
      <3>2. Pool!Free(q) = UNION {Offerable(shards, p, q) : p \in ToSet(q.providers)}
        BY FreeIs
      <3>3. \A p : Offerable(shards, p, q) \subseteq Auths
        BY DEF Offerable, Allowed
      <3> QED  BY <3>1, <3>2, <3>3
    <2> HIDE DEF S
    <2>2. IsFiniteSet(S)
      BY <2>1, AuthsFinite, FS_Subset
    <2> QED  BY <2>2, FS_CardinalityType
  <1> HIDE DEF N
  <1>2. TurnsUpTo(q, N, turn)
    BY <1>1, TurnsExist
  <1> HIDE DEF turn
  <1>3. turn[0] = [auth |-> Nil, shards |-> shards, mixed |-> mixed]
        /\ \A k \in 1 .. N : turn[k] = Served(turn[k - 1], q)
    <2>1. 0 \in 0 .. N /\ \A k \in 1 .. N : k \in 0 .. N /\ k # 0
      BY <1>1
    <2> QED  BY <1>2, <2>1 DEF TurnsUpTo
  <1>4. TakesTurns(turn, q, N)
    BY <1>3 DEF TakesTurns
  <1> HIDE DEF S
  <1>5. AreEven(turn, q, S)
    BY <1>4, AllTurnsEven DEF N, S
  <1> QED
    BY <1>5 DEF turn, N, S

\* As many choices in a row as there are credentials to choose from offer each
\* of them once, and each parent of grouped ones once (scheduler.go 1007-1060 for
\* the rotations of a view, 805-828 for the view chosen, 280-430 for the turns
\* among providers), from wherever the rotations were left.
THEOREM EvenTurnsAlways == Spec => []EvenTurns
  <1>1. Init => SchedInv
    BY SchedInit
  <1>2. SchedInv /\ [Next]_vars => SchedInv'
    BY SchedStep
  <1>3. SchedInv => EvenTurns
    BY EvenNow
  <1> QED
    BY <1>1, <1>2, <1>3, PTL DEF Spec
=============================================================================
