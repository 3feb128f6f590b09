--------------------------- MODULE RegistryProofs ---------------------------
(***************************************************************************)
(* The registry of models keeps right counts and fresh lists, alone and    *)
(* under the service: for any number of clients, models, providers and     *)
(* readers, any lists, and any window.                                     *)
(***************************************************************************)
EXTENDS ServiceRegistration, FiniteSetTheorems, WellFoundedInduction, TLAPS

-----------------------------------------------------------------------------
(* Natural numbers. *)

\* A set of natural numbers has a least one.
LEMMA LeastNat ==
    ASSUME NEW T, T \subseteq Nat, T # {}
    PROVE  \E x \in T : \A y \in T : x <= y
  <1> DEFINE R == {ss \in Nat \X Nat : ss[1] < ss[2]}
  <1>1. IsWellFoundedOn(R, Nat)
    BY NatLessThanWellFounded DEF OpToRel
  <1>2. PICK x \in T : \A y \in T : ~(<<y, x>> \in R)
    <2> HIDE DEF R
    <2> QED
      BY <1>1, WFMin
  <1>3. \A y \in T : ~(y < x)
    BY <1>2
  <1> QED
    BY <1>3

LEMMA MinIsLeast ==
    ASSUME NEW T, T \subseteq Nat, T # {}
    PROVE  Min(T) \in T /\ \A y \in T : Min(T) <= y
  <1>1. \E x \in T : \A y \in T : x <= y
    BY LeastNat
  <1> QED
    BY <1>1 DEF Min

LEMMA MaxWithZero ==
    ASSUME NEW x \in Int
    PROVE  Max({0, x}) = IF x >= 0 THEN x ELSE 0
  BY DEF Max

LEMMA MinOfTwo ==
    ASSUME NEW x \in Nat, NEW y \in Nat
    PROVE  Min({x, y}) = IF x <= y THEN x ELSE y
  BY DEF Min

-----------------------------------------------------------------------------
(* Sums over a finite set of clients: l[c] is the list of client c. *)

SumOf(l, m, S) == MapThenSumSet(LAMBDA c : l[c][m], S)

Picked(s) == CHOOSE x \in s : TRUE

IsSum(f, l, m, D) ==
    f = [s \in D |-> IF s = {} THEN 0 ELSE l[Picked(s)][m] + f[s \ {Picked(s)}]]

LEMMA SumUnfolds ==
    ASSUME NEW l, NEW m, NEW S
    PROVE  SumOf(l, m, S) = (CHOOSE f : IsSum(f, l, m, SUBSET S))[S]
  BY DEF SumOf, MapThenSumSet, MapThenFoldSet, IsSum, Picked

\* The recursion has a solution on the sets of at most n clients, for every n.
LEMMA SumExists ==
    ASSUME NEW l, NEW m, NEW S, IsFiniteSet(S)
    PROVE  \E f : IsSum(f, l, m, SUBSET S)
  <1> DEFINE Small(n) == {s \in SUBSET S : Cardinality(s) <= n}
             Bad == {n \in Nat : ~\E f : IsSum(f, l, m, Small(n))}
  <1>0. \A s \in SUBSET S : IsFiniteSet(s) /\ Cardinality(s) \in Nat
    BY FS_Subset, FS_CardinalityType
  <1>1. ASSUME NEW n \in Bad, \A k \in Bad : n <= k PROVE FALSE
    <2>1. CASE n = 0
      <3>1. Small(0) = {{}}
        BY <1>0, FS_EmptySet
      <3> DEFINE f == [s \in {{}} |-> 0]
      <3>2. IsSum(f, l, m, {{}})
        BY DEF IsSum
      <3> QED
        BY <1>1, <2>1, <3>1, <3>2
    <2>2. CASE n # 0
      <3>1. n - 1 \in Nat /\ n - 1 \notin Bad
        <4>1. n \in Nat
          OBVIOUS
        <4> HIDE DEF Bad
        <4> QED
          BY <1>1, <2>2, <4>1
      <3>2. PICK f : IsSum(f, l, m, Small(n - 1))
        BY <3>1
      <3> DEFINE g == [s \in Small(n) |-> IF s = {} THEN 0
                                           ELSE l[Picked(s)][m] + f[s \ {Picked(s)}]]
      <3>3. ASSUME NEW s \in Small(n), s # {} PROVE g[s \ {Picked(s)}] = f[s \ {Picked(s)}]
        <4>1. Picked(s) \in s
          BY <3>3 DEF Picked
        <4> DEFINE t == s \ {Picked(s)}
        <4>2. Cardinality(t) = Cardinality(s) - 1 /\ t \in SUBSET S
          BY <1>0, <4>1, FS_RemoveElement
        <4>3. t \in Small(n - 1) /\ t \in Small(n)
          BY <1>0, <4>2, n \in Nat
        <4> HIDE DEF t, Small
        <4>4. f[t] = IF t = {} THEN 0 ELSE l[Picked(t)][m] + f[t \ {Picked(t)}]
          BY <3>2, <4>3 DEF IsSum
        <4>5. g[t] = IF t = {} THEN 0 ELSE l[Picked(t)][m] + f[t \ {Picked(t)}]
          BY <4>3
        <4> QED
          BY <4>4, <4>5 DEF t
      <3>4. IsSum(g, l, m, Small(n))
        <4> HIDE DEF Small
        <4> QED
          BY <3>3 DEF IsSum
      <3> HIDE DEF g
      <3> QED
        BY <1>1, <3>4
    <2> QED
      BY <2>1, <2>2
  <1>2. Bad = {}
    <2> HIDE DEF Bad
    <2>1. Bad \subseteq Nat
      BY DEF Bad
    <2> QED
      BY <1>1, <2>1, LeastNat
  <1>3. Cardinality(S) \in Nat /\ Small(Cardinality(S)) = SUBSET S
    BY FS_Subset, FS_CardinalityType
  <1> HIDE DEF Small
  <1>4. \E f : IsSum(f, l, m, Small(Cardinality(S)))
    BY <1>2, <1>3
  <1> QED
    BY <1>3, <1>4

\* All sums over subsets of S are read off one solution.
LEMMA SumsAgree ==
    ASSUME NEW l, NEW m, NEW S, IsFiniteSet(S), NEW f, IsSum(f, l, m, SUBSET S)
    PROVE  \A T \in SUBSET S : SumOf(l, m, T) = f[T]
  <1> SUFFICES ASSUME NEW T \in SUBSET S PROVE SumOf(l, m, T) = f[T]
    OBVIOUS
  <1>1. IsFiniteSet(T)
    BY FS_Subset
  <1> DEFINE g == CHOOSE h : IsSum(h, l, m, SUBSET T)
             Bad == {n \in Nat : \E s \in SUBSET T : Cardinality(s) = n /\ g[s] # f[s]}
  <1>2. IsSum(g, l, m, SUBSET T)
    BY <1>1, SumExists
  <1> HIDE DEF g
  <1>3. \A s \in SUBSET T : IsFiniteSet(s) /\ Cardinality(s) \in Nat
    BY <1>1, FS_Subset, FS_CardinalityType
  <1>4. ASSUME NEW n \in Bad, \A k \in Bad : n <= k PROVE FALSE
    <2>1. PICK s \in SUBSET T : Cardinality(s) = n /\ g[s] # f[s]
      OBVIOUS
    <2>2. s # {}
      BY <1>2, <2>1 DEF IsSum
    <2> DEFINE t == s \ {Picked(s)}
    <2>3. Picked(s) \in s
      BY <2>2 DEF Picked
    <2>4. Cardinality(t) = n - 1 /\ t \in SUBSET T
      BY <1>3, <2>1, <2>3, FS_RemoveElement
    <2>5. n - 1 \notin Bad /\ n - 1 \in Nat
      BY <1>3, <1>4, <2>4
    <2>6. g[t] = f[t]
      BY <2>4, <2>5
    <2>7. g[s] = l[Picked(s)][m] + g[t] /\ f[s] = l[Picked(s)][m] + f[t]
      BY <1>2, <2>2 DEF IsSum
    <2> QED
      BY <2>1, <2>6, <2>7
  <1>5. Bad = {}
    <2> HIDE DEF Bad
    <2>1. Bad \subseteq Nat
      BY DEF Bad
    <2> QED
      BY <1>4, <2>1, LeastNat
  <1>6. g[T] = f[T]
    BY <1>1, <1>5, FS_CardinalityType
  <1> QED
    BY <1>6, SumUnfolds DEF g

LEMMA SumOfEmpty ==
    ASSUME NEW l, NEW m
    PROVE  SumOf(l, m, {}) = 0
  <1>1. ASSUME NEW S, IsFiniteSet(S) PROVE S = {} => SumOf(l, m, S) = 0
    <2>1. PICK f : IsSum(f, l, m, SUBSET S)
      BY <1>1, SumExists
    <2>2. SumOf(l, m, S) = f[S]
      BY <1>1, <2>1, SumsAgree
    <2> QED
      BY <2>1, <2>2 DEF IsSum
  <1> QED
    BY <1>1, FS_EmptySet

LEMMA SumOfPicked ==
    ASSUME NEW l, NEW m, NEW S, IsFiniteSet(S), S # {}
    PROVE  SumOf(l, m, S) = l[Picked(S)][m] + SumOf(l, m, S \ {Picked(S)})
  <1>1. PICK f : IsSum(f, l, m, SUBSET S)
    BY SumExists
  <1>2. f[S] = l[Picked(S)][m] + f[S \ {Picked(S)}]
    BY <1>1 DEF IsSum
  <1> QED
    BY <1>1, <1>2, SumsAgree

\* The order of the clients does not matter.
LEMMA SumOfOther ==
    ASSUME NEW l, NEW m, NEW S, IsFiniteSet(S), \A c \in S : l[c][m] \in Int
    PROVE  /\ SumOf(l, m, S) \in Int
           /\ \A c \in S : SumOf(l, m, S) = l[c][m] + SumOf(l, m, S \ {c})
  <1> DEFINE Right(s) == /\ SumOf(l, m, s) \in Int
                         /\ \A c \in s : SumOf(l, m, s) = l[c][m] + SumOf(l, m, s \ {c})
             Bad == {n \in Nat : \E s \in SUBSET S : Cardinality(s) = n /\ ~Right(s)}
  <1>1. \A s \in SUBSET S : IsFiniteSet(s) /\ Cardinality(s) \in Nat
    BY FS_Subset, FS_CardinalityType
  <1>2. ASSUME NEW n \in Bad, \A k \in Bad : n <= k PROVE FALSE
    <2>1. PICK s \in SUBSET S : Cardinality(s) = n /\ ~Right(s)
      OBVIOUS
    <2> DEFINE k == Picked(s)
    <2>2. s # {}
      <3> SUFFICES ASSUME s = {} PROVE FALSE
        OBVIOUS
      <3>1. SumOf(l, m, s) = 0
        BY SumOfEmpty
      <3> QED
        BY <2>1, <3>1
    <2>3. k \in s
      BY <2>2 DEF Picked
    <2>4. SumOf(l, m, s) = l[k][m] + SumOf(l, m, s \ {k})
      BY <1>1, <2>2, SumOfPicked
    <2> HIDE DEF k
    <2>5. ASSUME NEW t \in SUBSET s, t # s PROVE Right(t)
      <3>1. Cardinality(t) < n
        BY <1>1, <2>1, <2>5, FS_Subset
      <3>2. Cardinality(t) \in Nat /\ Cardinality(t) \notin Bad
        BY <1>1, <1>2, <2>1, <3>1
      <3> QED
        BY <3>2
    <2>6. SumOf(l, m, s \ {k}) \in Int
      BY <2>3, <2>5
    <2>7. ASSUME NEW c \in s, c # k PROVE SumOf(l, m, s) = l[c][m] + SumOf(l, m, s \ {c})
      <3>1. SumOf(l, m, s \ {k}) = l[c][m] + SumOf(l, m, (s \ {k}) \ {c})
        BY <2>3, <2>5, <2>7
      <3>2. SumOf(l, m, s \ {c}) = l[k][m] + SumOf(l, m, (s \ {c}) \ {k})
        BY <2>3, <2>5, <2>7
      <3>3. (s \ {k}) \ {c} = (s \ {c}) \ {k}
        OBVIOUS
      <3>4. SumOf(l, m, (s \ {k}) \ {c}) \in Int
        BY <2>3, <2>5
      <3>5. l[c][m] \in Int /\ l[k][m] \in Int
        BY <2>3
      <3> DEFINE rest == SumOf(l, m, (s \ {k}) \ {c})
      <3>6. SumOf(l, m, s \ {c}) = l[k][m] + rest
        BY <3>2, <3>3
      <3> HIDE DEF rest
      <3>7. SumOf(l, m, s) = l[k][m] + (l[c][m] + rest) /\ rest \in Int
        BY <2>4, <3>1, <3>4 DEF rest
      <3> QED
        BY <3>5, <3>6, <3>7
    <2>8. SumOf(l, m, s) \in Int
      <3>1. l[k][m] \in Int
        BY <2>3
      <3> QED
        BY <2>4, <2>6, <3>1
    <2>9. \A c \in s : SumOf(l, m, s) = l[c][m] + SumOf(l, m, s \ {c})
      BY <2>4, <2>7
    <2> QED
      BY <2>1, <2>8, <2>9
  <1>3. Bad = {}
    <2> HIDE DEF Bad
    <2>1. Bad \subseteq Nat
      BY DEF Bad
    <2> QED
      BY <1>2, <2>1, LeastNat
  <1> QED
    BY <1>3, FS_CardinalityType

\* Lists that are the same have the same sum.
LEMMA SumOfSame ==
    ASSUME NEW l, NEW k, NEW m, NEW S, IsFiniteSet(S), \A c \in S : l[c][m] = k[c][m]
    PROVE  SumOf(l, m, S) = SumOf(k, m, S)
  <1> DEFINE Bad == {n \in Nat : \E s \in SUBSET S :
                        Cardinality(s) = n /\ SumOf(l, m, s) # SumOf(k, m, s)}
  <1>1. \A s \in SUBSET S : IsFiniteSet(s) /\ Cardinality(s) \in Nat
    BY FS_Subset, FS_CardinalityType
  <1>2. ASSUME NEW n \in Bad, \A j \in Bad : n <= j PROVE FALSE
    <2>1. PICK s \in SUBSET S : Cardinality(s) = n /\ SumOf(l, m, s) # SumOf(k, m, s)
      OBVIOUS
    <2>2. s # {}
      BY <2>1, SumOfEmpty
    <2> DEFINE c == Picked(s)
    <2>3. c \in s
      BY <2>2 DEF Picked
    <2>4. /\ SumOf(l, m, s) = l[c][m] + SumOf(l, m, s \ {c})
          /\ SumOf(k, m, s) = k[c][m] + SumOf(k, m, s \ {c})
      BY <1>1, <2>2, SumOfPicked
    <2>5. Cardinality(s \ {c}) = n - 1 /\ n - 1 \in Nat
      BY <1>1, <2>1, <2>3, FS_RemoveElement
    <2>6. n - 1 \notin Bad
      BY <1>2, <2>5
    <2>7. SumOf(l, m, s \ {c}) = SumOf(k, m, s \ {c})
      BY <2>5, <2>6
    <2> QED
      BY <2>1, <2>3, <2>4, <2>7
  <1>3. Bad = {}
    <2> HIDE DEF Bad
    <2>1. Bad \subseteq Nat
      BY DEF Bad
    <2> QED
      BY <1>2, <2>1, LeastNat
  <1> QED
    BY <1>3, FS_CardinalityType

\* Sums of counts are counts, and nothing adds up to nothing.
LEMMA SumOfNats ==
    ASSUME NEW l, NEW m, NEW S, IsFiniteSet(S), \A c \in S : l[c][m] \in Nat
    PROVE  /\ SumOf(l, m, S) \in Nat
           /\ SumOf(l, m, S) = 0 <=> \A c \in S : l[c][m] = 0
  <1> DEFINE Right(s) == /\ SumOf(l, m, s) \in Nat
                         /\ SumOf(l, m, s) = 0 <=> \A c \in s : l[c][m] = 0
             Bad == {n \in Nat : \E s \in SUBSET S : Cardinality(s) = n /\ ~Right(s)}
  <1>1. \A s \in SUBSET S : IsFiniteSet(s) /\ Cardinality(s) \in Nat
    BY FS_Subset, FS_CardinalityType
  <1>2. ASSUME NEW n \in Bad, \A j \in Bad : n <= j PROVE FALSE
    <2>1. PICK s \in SUBSET S : Cardinality(s) = n /\ ~Right(s)
      OBVIOUS
    <2>2. s # {}
      BY <2>1, SumOfEmpty
    <2> DEFINE c == Picked(s)
    <2>3. c \in s
      BY <2>2 DEF Picked
    <2>4. SumOf(l, m, s) = l[c][m] + SumOf(l, m, s \ {c})
      BY <1>1, <2>2, SumOfPicked
    <2> HIDE DEF c
    <2>5. Cardinality(s \ {c}) = n - 1 /\ n - 1 \in Nat
      BY <1>1, <2>1, <2>3, FS_RemoveElement
    <2>6. n - 1 \notin Bad
      BY <1>2, <2>5
    <2>7. Right(s \ {c})
      BY <2>5, <2>6
    <2>8. l[c][m] \in Nat
      BY <2>3
    <2> QED
      BY <2>1, <2>3, <2>4, <2>7, <2>8
  <1>3. Bad = {}
    <2> HIDE DEF Bad
    <2>1. Bad \subseteq Nat
      BY DEF Bad
    <2> QED
      BY <1>2, <2>1, LeastNat
  <1> QED
    BY <1>3, FS_CardinalityType

Share(c, S, n) == IF c \in S THEN n ELSE 0

Moved(l, k, m, S, T, c) ==
    LET rest == SumOf(l, m, S \ {c}) IN
    /\ rest \in Nat
    /\ SumOf(l, m, S) = Share(c, S, l[c][m]) + rest
    /\ SumOf(k, m, T) = Share(c, T, k[c][m]) + rest
    /\ rest = 0 <=> \A d \in S \ {c} : l[d][m] = 0

\* One client changes its list, and a group of clients that may or may not count it
\* adds up to what it did but for that.
LEMMA SumMoves ==
    ASSUME NEW l, NEW k, NEW m, NEW S, NEW T, NEW c, IsFiniteSet(S), IsFiniteSet(T),
           \A d \in S : l[d][m] \in Nat, \A d \in T : k[d][m] \in Nat,
           S \ {c} = T \ {c}, \A d \in S \ {c} : l[d][m] = k[d][m]
    PROVE  Moved(l, k, m, S, T, c)
  <1> DEFINE rest == SumOf(l, m, S \ {c})
  <1>1. IsFiniteSet(S \ {c})
    BY FS_RemoveElement
  <1>2. rest \in Nat /\ (rest = 0 <=> \A d \in S \ {c} : l[d][m] = 0)
    BY <1>1, SumOfNats
  <1>3. SumOf(k, m, T \ {c}) = rest
    <2>1. SumOf(l, m, S \ {c}) = SumOf(k, m, S \ {c})
      BY <1>1, SumOfSame
    <2> QED
      BY <2>1
  <1>4. SumOf(l, m, S) = Share(c, S, l[c][m]) + rest
    <2>1. CASE c \in S
      BY <2>1, SumOfOther DEF Share
    <2>2. CASE c \notin S
      <3>1. SumOf(l, m, S) = rest
        <4>1. S \ {c} = S
          BY <2>2
        <4> QED
          BY <4>1
      <3> HIDE DEF rest
      <3> QED
        BY <1>2, <2>2, <3>1 DEF Share
    <2> QED
      BY <2>1, <2>2
  <1>5. SumOf(k, m, T) = Share(c, T, k[c][m]) + rest
    <2>1. CASE c \in T
      BY <1>3, <2>1, SumOfOther DEF Share
    <2>2. CASE c \notin T
      <3>1. SumOf(k, m, T) = rest
        <4>1. T \ {c} = T
          BY <2>2
        <4> QED
          BY <1>3, <4>1
      <3> HIDE DEF rest
      <3> QED
        BY <1>2, <2>2, <3>1 DEF Share
    <2> QED
      BY <2>1, <2>2
  <1> QED
    BY <1>2, <1>4, <1>5 DEF Moved

-----------------------------------------------------------------------------
(* Registrations of one model. *)

Registration == [count : Nat, providers : [RegProviders -> Nat], over : [Clients -> Nat],
                 suspended : [Clients -> {"no", "quota", "other"}]]

Names == RegProviders \cup {NoProvider}

\* What registration r says of the number of its clients: n in all, x[p] of provider p.
Says(r, n, x) ==
    /\ r \in Registration /\ r.count = n /\ r.providers = x
    /\ n = 0 => r = Empty

LEMMA EmptyTyped == Empty \in Registration
  BY DEF Empty, Registration

LEMMA FieldsTyped ==
    ASSUME NEW r \in Registration
    PROVE  /\ \A n \in Nat : [r EXCEPT !.count = n] \in Registration
           /\ \A x \in [RegProviders -> Nat] : [r EXCEPT !.providers = x] \in Registration
           /\ \A n \in Nat, x \in [RegProviders -> Nat] :
                 [r EXCEPT !.count = n, !.providers = x] \in Registration
           /\ \A c \in Clients, t \in Nat : [r EXCEPT !.over[c] = t] \in Registration
           /\ \A c \in Clients, s \in {"no", "quota", "other"} :
                 [r EXCEPT !.suspended[c] = s] \in Registration
           /\ \A x \in [Clients -> Nat] : [r EXCEPT !.over = x] \in Registration
  BY DEF Registration

LEMMA PlusCounts ==
    ASSUME NEW x \in [RegProviders -> Nat], NEW p \in Names, NEW n \in Int
    PROVE  /\ Plus(x, p, n) \in [RegProviders -> Nat]
           /\ \A q \in RegProviders :
                 Plus(x, p, n)[q] = IF q # p THEN x[q] ELSE IF x[q] + n >= 0 THEN x[q] + n ELSE 0
  <1>1. CASE p = NoProvider
    BY <1>1, RegistryAssumption DEF Plus
  <1>2. CASE p # NoProvider
    <2>1. p \in RegProviders /\ x[p] + n \in Int
      BY <1>2 DEF Names
    <2>2. Max({0, x[p] + n}) = IF x[p] + n >= 0 THEN x[p] + n ELSE 0
      BY <2>1, MaxWithZero
    <2>3. Plus(x, p, n) = [x EXCEPT ![p] = Max({0, x[p] + n})]
      BY <1>2 DEF Plus
    <2>4. Max({0, x[p] + n}) \in Nat
      BY <2>1, <2>2
    <2> QED
      BY <2>1, <2>2, <2>3, <2>4
  <1> QED
    BY <1>1, <1>2

\* What a provider adds to x of one client's n entries.
With(x, p, n) == [q \in RegProviders |-> IF q = p THEN x[q] + n ELSE x[q]]

LEMMA WithTyped ==
    ASSUME NEW x \in [RegProviders -> Nat], NEW p, NEW n \in Nat
    PROVE  With(x, p, n) \in [RegProviders -> Nat]
  BY DEF With

LEMMA PlusWith ==
    ASSUME NEW x \in [RegProviders -> Nat], NEW p \in Names, NEW n \in Nat, NEW k \in Int,
           n + k >= 0
    PROVE  Plus(With(x, p, n), p, k) = With(x, p, n + k)
  <1>1. With(x, p, n) \in [RegProviders -> Nat] /\ n + k \in Nat
    BY WithTyped
  <1>2. \A q \in RegProviders : Plus(With(x, p, n), p, k)[q] = With(x, p, n + k)[q]
    <2> SUFFICES ASSUME NEW q \in RegProviders
                 PROVE  Plus(With(x, p, n), p, k)[q] = With(x, p, n + k)[q]
      OBVIOUS
    <2>1. With(x, p, n)[q] = IF q = p THEN x[q] + n ELSE x[q]
      BY DEF With
    <2>2. With(x, p, n + k)[q] = IF q = p THEN x[q] + (n + k) ELSE x[q]
      BY DEF With
    <2> DEFINE y == With(x, p, n)
    <2>3. Plus(y, p, k)[q] = IF q # p THEN y[q] ELSE IF y[q] + k >= 0 THEN y[q] + k ELSE 0
      <3>1. y \in [RegProviders -> Nat]
        BY <1>1
      <3> HIDE DEF y
      <3> QED
        BY <3>1, PlusCounts
    <2>4. x[q] \in Nat
      OBVIOUS
    <2> HIDE DEF y
    <2> QED
      BY <2>1, <2>2, <2>3, <2>4 DEF y
  <1>3. Plus(With(x, p, n), p, k) \in [RegProviders -> Nat]
    BY <1>1, PlusCounts
  <1>4. With(x, p, n + k) \in [RegProviders -> Nat]
    BY <1>1, WithTyped
  <1> QED
    BY <1>2, <1>3, <1>4

LEMMA WithNothing ==
    ASSUME NEW x \in [RegProviders -> Nat], NEW p
    PROVE  With(x, p, 0) = x
  BY DEF With

LEMMA ProvidersSay ==
    ASSUME NEW r, NEW n, NEW x, Says(r, n, x), NEW y \in [RegProviders -> Nat], n = 0 => y = x
    PROVE  Says([r EXCEPT !.providers = y], n, y)
  <1>1. r \in Registration /\ r.count = n /\ r.providers = x
    BY DEF Says
  <1>2. [r EXCEPT !.providers = y] \in Registration
    BY <1>1, FieldsTyped
  <1>3. [r EXCEPT !.providers = y].count = n /\ [r EXCEPT !.providers = y].providers = y
    BY <1>1 DEF Registration
  <1>4. y = x => [r EXCEPT !.providers = y] = r
    BY <1>1 DEF Registration
  <1> QED
    BY <1>2, <1>3, <1>4 DEF Says

LEMMA AddedSays ==
    ASSUME NEW r, NEW k \in Nat, NEW x, Says(r, k, x), NEW p \in Names, NEW n \in Nat
    PROVE  Says(Added(r, p, n), k + n, Plus(x, p, n))
  <1>1. r \in Registration /\ r.count = k /\ r.providers = x /\ x \in [RegProviders -> Nat]
    BY DEF Says, Registration
  <1> DEFINE y == Plus(x, p, n)
  <1>2. y \in [RegProviders -> Nat]
    BY <1>1, PlusCounts
  <1>3. n = 0 => y = x
    <2> SUFFICES ASSUME n = 0 PROVE y = x
      OBVIOUS
    <2>1. x = With(x, p, 0)
      BY <1>1, WithNothing
    <2>2. Plus(With(x, p, 0), p, 0) = With(x, p, 0 + 0)
      BY <1>1, PlusWith
    <2> QED
      BY <2>1, <2>2
  <1>4. Added(r, p, n) = [r EXCEPT !.count = k + n, !.providers = y]
    BY <1>1 DEF Added
  <1> HIDE DEF y
  <1>5. k + n \in Nat
    OBVIOUS
  <1>6. Added(r, p, n) \in Registration
    <2>1. \A t \in Nat : [r EXCEPT !.count = t, !.providers = y] \in Registration
      BY <1>1, <1>2, FieldsTyped
    <2> QED
      BY <1>4, <1>5, <2>1
  <1>7. Added(r, p, n).count = k + n /\ Added(r, p, n).providers = y
    BY <1>1, <1>4 DEF Registration
  <1>8. k + n = 0 => Added(r, p, n) = Empty
    <2> SUFFICES ASSUME k = 0, n = 0 PROVE Added(r, p, n) = Empty
      OBVIOUS
    <2>1. Added(r, p, n) = r
      <3>1. k + n = r.count /\ y = r.providers
        BY <1>1, <1>3
      <3>2. [r EXCEPT !.count = r.count, !.providers = r.providers] = r
        BY <1>1 DEF Registration
      <3> QED
        BY <1>4, <3>1, <3>2
    <2> QED
      BY <2>1 DEF Says
  <1> QED
    BY <1>6, <1>7, <1>8 DEF Says, y

LEMMA UnmarkedTyped ==
    ASSUME NEW r \in Registration, NEW c \in Clients
    PROVE  /\ Unmarked(r, c) \in Registration
           /\ Unmarked(r, c).count = r.count /\ Unmarked(r, c).providers = r.providers
  <1> DEFINE s == [r EXCEPT !.over[c] = 0]
  <1>1. s \in Registration /\ s.count = r.count /\ s.providers = r.providers
    BY FieldsTyped DEF Registration
  <1>2. Unmarked(r, c) = [s EXCEPT !.suspended[c] = "no"]
    BY DEF Unmarked, Registration
  <1> HIDE DEF s
  <1>3. Unmarked(r, c) \in Registration
    BY <1>1, <1>2, FieldsTyped
  <1> QED
    BY <1>1, <1>2, <1>3 DEF Registration

\* The marks of a client go, and those of the others stay.
LEMMA UnmarkedSays ==
    ASSUME NEW r, NEW n, NEW x, Says(r, n, x), n # 0, NEW c \in Clients
    PROVE  Says(Unmarked(r, c), n, x)
  BY UnmarkedTyped DEF Says

\* Some of a client's entries go.
LEMMA RemovedSays ==
    ASSUME NEW r, NEW rest \in Nat, NEW x \in [RegProviders -> Nat], NEW p \in Names,
           NEW old \in Nat, NEW n \in Nat, n <= old, NEW c \in Clients,
           Says(r, rest + old, With(x, p, old)),
           rest = 0 => x = [q \in RegProviders |-> 0]
    PROVE  Says(Removed(r, c, p, n), rest + (old - n), With(x, p, old - n))
  <1>1. r \in Registration /\ r.count = rest + old /\ r.providers = With(x, p, old)
    BY DEF Says
  <1>2. CASE n = 0
    BY <1>2 DEF Removed
  <1>3. CASE n # 0 /\ r.count <= n
    <2>1. rest = 0 /\ n = old
      BY <1>1, <1>3
    <2>2. Removed(r, c, p, n) = Empty
      BY <1>3 DEF Removed
    <2>3. With(x, p, 0) = [q \in RegProviders |-> 0]
      BY <2>1, WithNothing
    <2>4. Says(Empty, 0, [q \in RegProviders |-> 0])
      BY EmptyTyped DEF Says, Empty
    <2>5. rest + (old - n) = 0 /\ old - n = 0
      BY <2>1
    <2> QED
      BY <2>2, <2>3, <2>4, <2>5
  <1>4. CASE n # 0 /\ ~(r.count <= n)
    <2> DEFINE s == Unmarked(r, c)
               y == With(x, p, old - n)
    <2>1. s \in Registration /\ s.count = rest + old /\ s.providers = With(x, p, old)
      BY <1>1, UnmarkedTyped
    <2>2. Plus(With(x, p, old), p, -n) = y
      <3>1. old + (-n) = old - n /\ -n \in Int /\ old + (-n) >= 0
        OBVIOUS
      <3> QED
        BY <3>1, PlusWith
    <2>3. Removed(r, c, p, n) = [s EXCEPT !.count = @ - n, !.providers = Plus(@, p, -n)]
      BY <1>4 DEF Removed
    <2>4. y \in [RegProviders -> Nat]
      BY WithTyped
    <2>5. (rest + old) - n \in Nat /\ (rest + old) - n # 0
      BY <1>1, <1>4
    <2> HIDE DEF s, y
    <2>6. Removed(r, c, p, n) = [s EXCEPT !.count = (rest + old) - n, !.providers = y]
      BY <2>1, <2>2, <2>3
    <2>7. Removed(r, c, p, n) \in Registration
      <3>1. \A t \in Nat : [s EXCEPT !.count = t, !.providers = y] \in Registration
        BY <2>1, <2>4, FieldsTyped
      <3> QED
        BY <2>5, <2>6, <3>1
    <2>8. Removed(r, c, p, n).count = (rest + old) - n /\ Removed(r, c, p, n).providers = y
      BY <2>1, <2>6 DEF Registration
    <2>9. (rest + old) - n = rest + (old - n)
      OBVIOUS
    <2> QED
      BY <2>5, <2>7, <2>8, <2>9 DEF Says, y
  <1> QED
    BY <1>2, <1>3, <1>4

\* A client comes with another list or another provider.
LEMMA ReconciledSays ==
    ASSUME NEW r, NEW rest \in Nat, NEW x \in [RegProviders -> Nat],
           NEW oldp \in Names, NEW p \in Names, NEW old \in Nat, NEW new \in Nat,
           NEW c \in Clients, Says(r, rest + old, With(x, oldp, old)),
           rest = 0 => x = [q \in RegProviders |-> 0]
    PROVE  Says(Reconciled(r, c, oldp, p, old, new), rest + new, With(x, p, new))
  <1> DEFINE kept == IF oldp = p THEN 0 ELSE Min({old, new})
             left == [r EXCEPT !.providers = Plus(@, oldp, -kept)]
             count == IF new > old THEN Added(left, p, new - old)
                                   ELSE Removed(left, c, oldp, old - new)
             fresh == IF new = 0 THEN count ELSE Unmarked(count, c)
  <1>0. Reconciled(r, c, oldp, p, old, new) =
           IF kept = 0 THEN fresh ELSE [fresh EXCEPT !.providers = Plus(@, p, kept)]
    BY DEF Reconciled
  <1>1. r \in Registration /\ r.count = rest + old /\ r.providers = With(x, oldp, old)
    BY DEF Says
  <1>2. kept \in Nat /\ kept <= old /\ kept <= new
        /\ kept = IF oldp = p THEN 0 ELSE IF old <= new THEN old ELSE new
    BY MinOfTwo
  <1> HIDE DEF kept
  <1>3. Says(left, rest + old, With(x, oldp, old - kept))
    <2> DEFINE y == With(x, oldp, old - kept)
    <2>1. Plus(With(x, oldp, old), oldp, -kept) = y
      <3>1. old + (-kept) = old - kept /\ -kept \in Int /\ old + (-kept) >= 0
        BY <1>2
      <3> QED
        BY <3>1, PlusWith
    <2>2. y \in [RegProviders -> Nat]
      BY <1>2, WithTyped
    <2>3. rest + old = 0 => y = With(x, oldp, old)
      <3>1. rest + old = 0 => old - kept = old
        BY <1>2
      <3> QED
        BY <3>1
    <2> HIDE DEF y
    <2>4. left = [r EXCEPT !.providers = y]
      BY <1>1, <2>1
    <2> QED
      BY <2>2, <2>3, <2>4, ProvidersSay DEF y
  <1> HIDE DEF left
  \* The entries that stay are with no provider, or with the one they had.
  <1>4. Says(count, rest + new, With(x, p, new - kept))
    <2>1. CASE new > old
      <3>1. Says(Added(left, p, new - old), (rest + old) + (new - old),
                 Plus(With(x, oldp, old - kept), p, new - old))
        <4>1. rest + old \in Nat /\ new - old \in Nat
          BY <2>1
        <4> QED
          BY <1>3, <4>1, AddedSays
      <3>2. (rest + old) + (new - old) = rest + new
        OBVIOUS
      <3>3. Plus(With(x, oldp, old - kept), p, new - old) = With(x, p, new - kept)
        <4>1. With(x, oldp, old - kept) = With(x, p, old - kept)
          <5>1. CASE oldp = p
            BY <5>1
          <5>2. CASE oldp # p
            <6>1. old - kept = 0
              BY <1>2, <2>1, <5>2
            <6> QED
              BY <6>1, WithNothing
          <5> QED
            BY <5>1, <5>2
        <4>2. /\ old - kept \in Nat /\ new - old \in Int /\ (old - kept) + (new - old) >= 0
              /\ (old - kept) + (new - old) = new - kept
          BY <1>2
        <4> QED
          BY <4>1, <4>2, PlusWith
      <3> QED
        BY <2>1, <3>1, <3>2, <3>3
    <2>2. CASE ~(new > old)
      <3> DEFINE n == old - new
      <3>1. n \in Nat /\ n <= old - kept /\ old - kept \in Nat /\ rest + kept \in Nat
            /\ rest + old = (rest + kept) + (old - kept)
            /\ (rest + kept) + ((old - kept) - n) = rest + new
            /\ (old - kept) - n = new - kept
        BY <1>2, <2>2
      <3>2. rest + kept = 0 => x = [q \in RegProviders |-> 0]
        BY <1>2
      <3> HIDE DEF n
      <3>3. Says(left, (rest + kept) + (old - kept), With(x, oldp, old - kept))
        BY <1>3, <3>1
      <3>4. Says(Removed(left, c, oldp, n), (rest + kept) + ((old - kept) - n),
                 With(x, oldp, (old - kept) - n))
        BY <3>1, <3>2, <3>3, RemovedSays
      <3>5. With(x, oldp, new - kept) = With(x, p, new - kept)
        <4>1. CASE oldp = p
          BY <4>1
        <4>2. CASE oldp # p
          <5>1. new - kept = 0
            BY <1>2, <2>2, <4>2
          <5> QED
            BY <5>1, WithNothing
        <4> QED
          BY <4>1, <4>2
      <3> QED
        BY <2>2, <3>1, <3>4, <3>5 DEF n
    <2> QED
      BY <2>1, <2>2
  <1> HIDE DEF count
  <1>5. Says(fresh, rest + new, With(x, p, new - kept))
    <2>1. new # 0 => rest + new # 0
      OBVIOUS
    <2> QED
      BY <1>4, <2>1, UnmarkedSays
  <1> HIDE DEF fresh
  <1>6. CASE kept = 0
    <2>1. new - kept = new
      BY <1>6
    <2> QED
      BY <1>0, <1>5, <1>6, <2>1
  <1>7. CASE kept # 0
    <2> DEFINE y == With(x, p, new)
    <2>1. Plus(With(x, p, new - kept), p, kept) = y
      <3>1. new - kept \in Nat /\ (new - kept) + kept = new /\ (new - kept) + kept >= 0 /\ kept \in Int
        BY <1>2
      <3> QED
        BY <3>1, PlusWith
    <2>2. y \in [RegProviders -> Nat] /\ rest + new # 0
      BY <1>2, <1>7, WithTyped
    <2> HIDE DEF y
    <2>3. Reconciled(r, c, oldp, p, old, new) = [fresh EXCEPT !.providers = y]
      <3>1. fresh \in Registration /\ fresh.providers = With(x, p, new - kept)
        BY <1>5 DEF Says
      <3> QED
        BY <1>0, <1>7, <2>1, <3>1
    <2> QED
      BY <1>5, <2>2, <2>3, ProvidersSay DEF y
  <1> QED
    BY <1>6, <1>7

-----------------------------------------------------------------------------
(* Counts. *)

Owned(o, p) == {c \in Clients : o[c] = p}

\* Registration r counts what the lists l of clients of the providers o add up to.
Counts(r, l, o, m) ==
    /\ r.count = SumOf(l, m, Clients)
    /\ \A p \in RegProviders : r.providers[p] = SumOf(l, m, Owned(o, p))
    /\ r.count = 0 => r = Empty

AllCount == \A m \in RegModels : Counts(regs[m], list, owner, m)

LEMMA CountsAgreeIs == CountsAgree <=> AllCount
  BY DEF CountsAgree, AllCount, Counts, SumOf, Owned

\* When one client comes with another list, for another provider, what a registration
\* should say changes by its entries only.
LEMMA OneClientMoves ==
    ASSUME NEW r \in Registration, NEW m \in RegModels, NEW c \in Clients,
           NEW l \in [Clients -> [RegModels -> Nat]], NEW o \in [Clients -> Names],
           NEW new \in [RegModels -> Nat], NEW p \in Names, Counts(r, l, o, m)
    PROVE  \E rest \in Nat, x \in [RegProviders -> Nat] :
              /\ Says(r, rest + l[c][m], With(x, o[c], l[c][m]))
              /\ rest = 0 => x = [q \in RegProviders |-> 0]
              /\ \A s : Says(s, rest + new[m], With(x, p, new[m])) =>
                           Counts(s, [l EXCEPT ![c] = new], [o EXCEPT ![c] = p], m)
  <1> DEFINE k == [l EXCEPT ![c] = new]
             u == [o EXCEPT ![c] = p]
             x == [q \in RegProviders |-> SumOf(l, m, Owned(o, q) \ {c})]
  <1>0. IsFiniteSet(Clients)
    BY RegistryAssumption
  <1>1. /\ \A d \in Clients : l[d][m] \in Nat /\ k[d][m] \in Nat
        /\ \A d \in Clients \ {c} : k[d][m] = l[d][m] /\ u[d] = o[d]
        /\ k[c][m] = new[m] /\ u[c] = p
    OBVIOUS
  <1> HIDE DEF k, u
  <1> DEFINE rest == SumOf(l, m, Clients \ {c})
  <1>2. /\ rest \in Nat
        /\ SumOf(l, m, Clients) = l[c][m] + rest
        /\ SumOf(k, m, Clients) = k[c][m] + rest
        /\ rest = 0 => \A d \in Clients \ {c} : l[d][m] = 0
    <2>1. \A d \in Clients \ {c} : l[d][m] = k[d][m]
      BY <1>1
    <2>2. /\ rest \in Nat
          /\ SumOf(l, m, Clients) = Share(c, Clients, l[c][m]) + rest
          /\ SumOf(k, m, Clients) = Share(c, Clients, k[c][m]) + rest
          /\ rest = 0 <=> \A d \in Clients \ {c} : l[d][m] = 0
      <3>1. Moved(l, k, m, Clients, Clients, c)
        BY <1>0, <1>1, <2>1, SumMoves
      <3> QED
        BY <3>1 DEF Moved
    <2> HIDE DEF rest
    <2> QED
      BY <2>2 DEF Share
  <1> HIDE DEF rest
  <1>3. ASSUME NEW q \in RegProviders
        PROVE  /\ x[q] \in Nat
               /\ rest = 0 => x[q] = 0
               /\ SumOf(l, m, Owned(o, q)) = IF q = o[c] THEN x[q] + l[c][m] ELSE x[q]
               /\ SumOf(k, m, Owned(u, q)) = IF q = p THEN x[q] + new[m] ELSE x[q]
    <2> DEFINE S == Owned(o, q)
               T == Owned(u, q)
    <2>1. S \subseteq Clients /\ T \subseteq Clients /\ S \ {c} = T \ {c}
          /\ (c \in S <=> q = o[c]) /\ (c \in T <=> q = p)
      BY <1>1 DEF Owned
    <2> HIDE DEF S, T
    <2>2. IsFiniteSet(S) /\ IsFiniteSet(T) /\ IsFiniteSet(S \ {c})
      BY <1>0, <2>1, FS_Subset
    <2>3. /\ \A d \in S : l[d][m] \in Nat
          /\ \A d \in T : k[d][m] \in Nat
          /\ \A d \in S \ {c} : l[d][m] = k[d][m]
      BY <1>1, <2>1
    <2> DEFINE y == SumOf(l, m, S \ {c})
    <2>4. /\ y \in Nat
          /\ SumOf(l, m, S) = Share(c, S, l[c][m]) + y
          /\ SumOf(k, m, T) = Share(c, T, k[c][m]) + y
          /\ y = 0 <=> \A d \in S \ {c} : l[d][m] = 0
      <3>1. S \ {c} = T \ {c}
        BY <2>1
      <3>2. Moved(l, k, m, S, T, c)
        BY <2>2, <2>3, <3>1, SumMoves
      <3> QED
        BY <3>2 DEF Moved
    <2>5. x[q] = y
      BY DEF S
    <2> HIDE DEF y
    <2>6. rest = 0 => y = 0
      BY <1>2, <2>1, <2>4
    <2>7. l[c][m] \in Nat /\ k[c][m] = new[m] /\ new[m] \in Nat
      BY <1>1
    <2> HIDE DEF x
    <2> QED
      BY <2>1, <2>4, <2>5, <2>6, <2>7 DEF S, T, Share
  <1>10. x = [q \in RegProviders |-> x[q]]
    OBVIOUS
  <1> HIDE DEF x
  <1>4. x \in [RegProviders -> Nat]
    BY <1>3, <1>10
  <1>5. rest = 0 => x = [q \in RegProviders |-> 0]
    BY <1>3, <1>10
  <1>7. l[c][m] \in Nat /\ new[m] \in Nat /\ r.providers \in [RegProviders -> Nat]
    BY <1>1 DEF Registration
  <1>8. Says(r, rest + l[c][m], With(x, o[c], l[c][m]))
    <2>1. r.count = rest + l[c][m]
      BY <1>2, <1>7 DEF Counts
    <2>2. \A q \in RegProviders : r.providers[q] = With(x, o[c], l[c][m])[q]
      BY <1>3 DEF Counts, With
    <2>3. With(x, o[c], l[c][m]) \in [RegProviders -> Nat]
      BY <1>4, <1>7, WithTyped
    <2>4. r.providers = With(x, o[c], l[c][m])
      BY <1>7, <2>2, <2>3
    <2>5. r.count = 0 => r = Empty
      BY DEF Counts
    <2> QED
      BY <2>1, <2>4, <2>5 DEF Says
  <1>9. ASSUME NEW s, Says(s, rest + new[m], With(x, p, new[m])) PROVE Counts(s, k, u, m)
    <2>1. s.count = SumOf(k, m, Clients)
      BY <1>1, <1>2, <1>7, <1>9 DEF Says
    <2>2. \A q \in RegProviders : s.providers[q] = SumOf(k, m, Owned(u, q))
      BY <1>3, <1>9 DEF Says, With
    <2>3. s.count = 0 => s = Empty
      BY <1>9 DEF Says
    <2> QED
      BY <2>1, <2>2, <2>3 DEF Counts
  <1> QED
    BY <1>2, <1>4, <1>5, <1>8, <1>9 DEF k, u

\* Marks do not count.
LEMMA MarksDoNotCount ==
    ASSUME NEW r, NEW s, NEW l, NEW o, NEW m, Counts(r, l, o, m),
           s.count = r.count, s.providers = r.providers, r = Empty => s = Empty
    PROVE  Counts(s, l, o, m)
  BY DEF Counts

-----------------------------------------------------------------------------
(* The invariant of the registry. *)

RegTypeOK ==
    /\ regs \in [RegModels -> Registration]
    /\ list \in [Clients -> [RegModels -> Nat]]
    /\ owner \in [Clients -> Names]
    /\ time \in Nat /\ time # 0
    /\ reading \in [Readers -> Nat]
    /\ \A r \in Readers : reading[r] <= time

\* What is cached was built from what is registered now, maybe some time ago.
CacheOK == cached = NoCache \/ \E t \in Nat : t <= time /\ cached = Built(t)

RegistryInv == RegTypeOK /\ CountsAgree /\ CacheOK

\* From registration r to s, one client's entries change from old of provider o to new
\* of provider p, whatever the others have.
Follows(s, r, o, old, p, new) ==
    \A rest \in Nat, x \in [RegProviders -> Nat] :
        /\ Says(r, rest + old, With(x, o, old))
        /\ rest = 0 => x = [q \in RegProviders |-> 0]
        => Says(s, rest + new, With(x, p, new))

\* A client changes its list, or goes; the cache is dropped.
LEMMA ListsChange ==
    ASSUME RegistryInv, NEW c \in Clients, NEW p \in Names, NEW new \in [RegModels -> Nat],
           list' = [list EXCEPT ![c] = new], owner' = [owner EXCEPT ![c] = p],
           cached' = NoCache, time' = time, reading' = reading,
           regs' = [m \in RegModels |-> regs'[m]],
           \A m \in RegModels :
              Follows(regs'[m], regs[m], owner[c], list[c][m], p, new[m])
    PROVE  RegistryInv'
  <1>1. RegTypeOK /\ CountsAgree
    BY DEF RegistryInv
  <1>2. ASSUME NEW m \in RegModels
        PROVE  regs'[m] \in Registration /\ Counts(regs'[m], list', owner', m)
    <2>1. /\ regs[m] \in Registration /\ list \in [Clients -> [RegModels -> Nat]]
          /\ owner \in [Clients -> Names] /\ Counts(regs[m], list, owner, m)
      BY <1>1, CountsAgreeIs DEF RegTypeOK, AllCount
    <2>2. PICK rest \in Nat, x \in [RegProviders -> Nat] :
              /\ Says(regs[m], rest + list[c][m], With(x, owner[c], list[c][m]))
              /\ rest = 0 => x = [q \in RegProviders |-> 0]
              /\ \A s : Says(s, rest + new[m], With(x, p, new[m])) =>
                           Counts(s, [list EXCEPT ![c] = new], [owner EXCEPT ![c] = p], m)
      BY <2>1, OneClientMoves
    <2>3. Says(regs'[m], rest + new[m], With(x, p, new[m]))
      BY <2>2 DEF Follows
    <2> QED
      BY <2>2, <2>3 DEF Says
  <1>3. RegTypeOK'
    BY <1>1, <1>2 DEF RegTypeOK
  <1>4. CountsAgree'
    <2>1. AllCount'
      BY <1>2 DEF AllCount
    <2> QED
      BY <2>1, CountsAgreeIs, PTL
  <1> QED
    BY <1>3, <1>4 DEF RegistryInv, CacheOK

LEMMA ForgetKeeps ==
    ASSUME RegistryInv, NEW c \in Clients, Forget(c)
    PROVE  RegistryInv'
  <1> DEFINE Gone(m) == Removed(regs[m], c, owner[c], list[c][m])
  <1>1. /\ regs' = [m \in RegModels |-> Gone(m)]
        /\ list' = [list EXCEPT ![c] = None] /\ owner' = [owner EXCEPT ![c] = NoProvider]
        /\ cached' = NoCache /\ time' = time /\ reading' = reading
    BY DEF Forget
  <1>2. None \in [RegModels -> Nat] /\ NoProvider \in Names
    BY DEF None, Names
  <1>3. ASSUME NEW m \in RegModels, NEW rest \in Nat, NEW x \in [RegProviders -> Nat],
               Says(regs[m], rest + list[c][m], With(x, owner[c], list[c][m])),
               rest = 0 => x = [q \in RegProviders |-> 0]
        PROVE  Says(Gone(m), rest + None[m], With(x, NoProvider, None[m]))
    <2> DEFINE n == list[c][m]
    <2>1. n \in Nat /\ owner[c] \in Names /\ n <= n
      BY DEF RegistryInv, RegTypeOK
    <2>2. Says(Removed(regs[m], c, owner[c], n), rest + (n - n), With(x, owner[c], n - n))
      BY <1>3, <2>1, RemovedSays
    <2>3. n - n = 0 /\ None[m] = 0
      BY <2>1 DEF None
    <2>4. With(x, owner[c], 0) = x /\ With(x, NoProvider, 0) = x
      BY WithNothing
    <2> QED
      BY <2>2, <2>3, <2>4
  <1> HIDE DEF Gone
  <1>4. \A m \in RegModels :
           Follows(Gone(m), regs[m], owner[c], list[c][m], NoProvider, None[m])
    BY <1>3 DEF Follows
  <1>5. /\ regs' = [m \in RegModels |-> regs'[m]]
        /\ \A m \in RegModels :
              Follows(regs'[m], regs[m], owner[c], list[c][m], NoProvider, None[m])
    BY <1>1, <1>4
  <1> QED
    BY <1>1, <1>2, <1>5, ListsChange

LEMMA RegisterKeeps ==
    ASSUME RegistryInv, NEW c \in Clients, NEW p \in RegProviders, NEW l \in [RegModels -> Nat],
           RegisterClient(c, p, l)
    PROVE  RegistryInv'
  <1>1. CASE l = None
    BY <1>1, ForgetKeeps DEF RegisterClient
  <1>2. CASE l # None
    <2> DEFINE Comes(m) == IF list[c] = None THEN Added(regs[m], p, l[m])
                           ELSE Reconciled(regs[m], c, owner[c], p, list[c][m], l[m])
    <2>1. /\ regs' = [m \in RegModels |-> Comes(m)]
          /\ list' = [list EXCEPT ![c] = l] /\ owner' = [owner EXCEPT ![c] = p]
          /\ cached' = NoCache /\ time' = time /\ reading' = reading
      BY <1>2 DEF RegisterClient
    <2>2. p \in Names
      BY DEF Names
    <2>3. ASSUME NEW m \in RegModels, NEW rest \in Nat, NEW x \in [RegProviders -> Nat],
                 Says(regs[m], rest + list[c][m], With(x, owner[c], list[c][m])),
                 rest = 0 => x = [q \in RegProviders |-> 0]
          PROVE  Says(Comes(m), rest + l[m], With(x, p, l[m]))
      <3>1. list[c][m] \in Nat /\ owner[c] \in Names /\ l[m] \in Nat
        BY DEF RegistryInv, RegTypeOK
      <3>2. CASE list[c] = None
        <4>1. list[c][m] = 0
          BY <3>2 DEF None
        <4>2. rest + 0 = rest /\ With(x, owner[c], 0) = x /\ With(x, p, 0) = x
          BY WithNothing
        <4>3. Says(regs[m], rest, x)
          BY <2>3, <4>1, <4>2
        <4>4. Says(Added(regs[m], p, l[m]), rest + l[m], Plus(x, p, l[m]))
          BY <2>2, <3>1, <4>3, AddedSays
        <4>5. Plus(With(x, p, 0), p, l[m]) = With(x, p, 0 + l[m])
          <5>1. l[m] \in Int /\ 0 + l[m] >= 0
            BY <3>1
          <5> QED
            BY <2>2, <5>1, PlusWith
        <4>6. 0 + l[m] = l[m]
          BY <3>1
        <4> QED
          BY <3>2, <4>2, <4>4, <4>5, <4>6
      <3>3. CASE list[c] # None
        <4>1. Says(Reconciled(regs[m], c, owner[c], p, list[c][m], l[m]), rest + l[m],
                   With(x, p, l[m]))
          BY <2>2, <2>3, <3>1, ReconciledSays
        <4> QED
          BY <3>3, <4>1
      <3> QED
        BY <3>2, <3>3
    <2> HIDE DEF Comes
    <2>4. \A m \in RegModels :
             Follows(Comes(m), regs[m], owner[c], list[c][m], p, l[m])
      BY <2>3 DEF Follows
    <2>5. /\ regs' = [m \in RegModels |-> regs'[m]]
          /\ \A m \in RegModels :
                Follows(regs'[m], regs[m], owner[c], list[c][m], p, l[m])
      BY <2>1, <2>4
    <2> QED
      BY <2>1, <2>2, <2>5, ListsChange
  <1> QED
    BY <1>1, <1>2

\* A mark is set or goes; the cache is dropped.
LEMMA MarksChange ==
    ASSUME RegistryInv, list' = list, owner' = owner, cached' = NoCache, time' = time,
           reading' = reading, regs' = [m \in RegModels |-> regs'[m]],
           \A m \in RegModels :
              /\ regs'[m] \in Registration
              /\ regs'[m].count = regs[m].count /\ regs'[m].providers = regs[m].providers
              /\ regs[m] = Empty => regs'[m] = Empty
    PROVE  RegistryInv'
  <1>1. RegTypeOK'
    BY DEF RegistryInv, RegTypeOK
  <1>2. \A m \in RegModels : Counts(regs'[m], list', owner', m)
    BY CountsAgreeIs, MarksDoNotCount DEF RegistryInv, AllCount
  <1>3. CountsAgree'
    <2>1. AllCount'
      BY <1>2 DEF AllCount
    <2> QED
      BY <2>1, CountsAgreeIs, PTL
  <1> QED
    BY <1>1, <1>3 DEF RegistryInv, CacheOK

Marks(c, m) ==
    \/ SetModelQuotaExceeded(c, m) \/ ClearModelQuotaExceeded(c, m)
    \/ ResumeClientModel(c, m)
    \/ \E reason \in {"quota", "other"} : SuspendClientModel(c, m, reason)

LEMMA MarksKeep ==
    ASSUME RegistryInv, NEW c \in Clients, NEW m \in RegModels, Marks(c, m)
    PROVE  RegistryInv'
  <1>1. regs \in [RegModels -> Registration] /\ time \in Nat
    BY DEF RegistryInv, RegTypeOK
  <1>2. regs[m] \in Registration /\ regs[m] # Empty
    BY <1>1 DEF Marks, SetModelQuotaExceeded, ClearModelQuotaExceeded, ResumeClientModel,
                SuspendClientModel
  <1>3. \E s \in Registration : /\ regs' = [regs EXCEPT ![m] = s]
                                /\ s.count = regs[m].count /\ s.providers = regs[m].providers
    <2>1. \A t \in Nat : LET s == [regs[m] EXCEPT !.over[c] = t] IN
             s \in Registration /\ s.count = regs[m].count /\ s.providers = regs[m].providers
      BY <1>2, FieldsTyped DEF Registration
    <2>2. \A x \in {"no", "quota", "other"} : LET s == [regs[m] EXCEPT !.suspended[c] = x] IN
             s \in Registration /\ s.count = regs[m].count /\ s.providers = regs[m].providers
      BY <1>2, FieldsTyped DEF Registration
    <2>3. CASE SetModelQuotaExceeded(c, m) \/ ClearModelQuotaExceeded(c, m)
      <3>1. PICK t \in Nat : regs' = [regs EXCEPT ![m].over[c] = t]
        BY <1>1, <2>3 DEF SetModelQuotaExceeded, ClearModelQuotaExceeded
      <3>2. regs' = [regs EXCEPT ![m] = [regs[m] EXCEPT !.over[c] = t]]
        BY <1>1, <3>1
      <3> QED
        BY <2>1, <3>2
    <2>4. CASE ResumeClientModel(c, m) \/ \E x \in {"quota", "other"} : SuspendClientModel(c, m, x)
      <3>1. PICK x \in {"no", "quota", "other"} : regs' = [regs EXCEPT ![m].suspended[c] = x]
        BY <2>4 DEF ResumeClientModel, SuspendClientModel
      <3>2. regs' = [regs EXCEPT ![m] = [regs[m] EXCEPT !.suspended[c] = x]]
        BY <1>1, <3>1
      <3> QED
        BY <2>2, <3>2
    <2> QED
      BY <2>3, <2>4 DEF Marks
  <1>4. list' = list /\ owner' = owner /\ cached' = NoCache /\ time' = time /\ reading' = reading
    BY DEF Marks, SetModelQuotaExceeded, ClearModelQuotaExceeded, ResumeClientModel,
           SuspendClientModel
  <1> QED
    BY <1>1, <1>2, <1>3, <1>4, MarksChange

LEMMA CleanupKeeps ==
    ASSUME RegistryInv, CleanupExpiredQuotas
    PROVE  RegistryInv'
  <1> DEFINE Left(m) == [c \in Clients |-> IF c \in Ended(regs[m], time) THEN 0
                                           ELSE regs[m].over[c]]
  <1>1. regs' = [m \in RegModels |-> [regs[m] EXCEPT !.over = Left(m)]]
    BY DEF CleanupExpiredQuotas
  <1>2. list' = list /\ owner' = owner /\ cached' = NoCache /\ time' = time /\ reading' = reading
    BY DEF CleanupExpiredQuotas
  <1>3. ASSUME NEW m \in RegModels
        PROVE  /\ Left(m) \in [Clients -> Nat]
               /\ regs[m] = Empty => Left(m) = regs[m].over
    BY DEF RegistryInv, RegTypeOK, Registration, Empty, Ended
  <1> HIDE DEF Left
  <1>4. ASSUME NEW m \in RegModels
        PROVE  /\ regs'[m] \in Registration
               /\ regs'[m].count = regs[m].count /\ regs'[m].providers = regs[m].providers
               /\ regs[m] = Empty => regs'[m] = Empty
    <2>1. regs[m] \in Registration /\ regs'[m] = [regs[m] EXCEPT !.over = Left(m)]
      BY <1>1 DEF RegistryInv, RegTypeOK
    <2>2. regs'[m] \in Registration
      BY <1>3, <2>1, FieldsTyped
    <2>3. regs[m] = Empty => regs'[m] = regs[m]
      <3>1. [regs[m] EXCEPT !.over = regs[m].over] = regs[m]
        BY <2>1 DEF Registration
      <3> QED
        BY <1>3, <2>1, <3>1
    <2> QED
      BY <2>1, <2>2, <2>3 DEF Registration
  <1> QED
    BY <1>1, <1>2, <1>4, MarksChange

\* Nobody registers; a reader looks, or time passes.
LEMMA ReadersKeep ==
    ASSUME RegistryInv,
           \/ \E r \in Readers : ReadClock(r) \/ GetAvailableModels(r)
           \/ TimePasses
           \/ UNCHANGED registryVars
    PROVE  RegistryInv'
  <1>1. /\ regs' = regs /\ list' = list /\ owner' = owner
        /\ time' \in Nat /\ time <= time' /\ time' # 0
        /\ reading' \in [Readers -> Nat] /\ \A r \in Readers : reading'[r] <= time'
    BY DEF RegistryInv, RegTypeOK, ReadClock, GetAvailableModels, TimePasses, registryVars
  <1>2. RegTypeOK' /\ CountsAgree'
    <2>1. RegTypeOK'
      BY <1>1 DEF RegistryInv, RegTypeOK
    <2>2. AllCount
      BY CountsAgreeIs DEF RegistryInv
    <2>3. AllCount'
      BY <1>1, <2>2 DEF AllCount
    <2> QED
      BY <2>1, <2>3, CountsAgreeIs, PTL
  <1>3. \A t : Built(t)' = Built(t)
    BY <1>1 DEF Built
  <1>4. cached' = cached \/ \E t \in Nat : t <= time /\ cached' = Built(t)
    <2>1. ASSUME NEW r \in Readers, GetAvailableModels(r)
          PROVE  cached' = cached \/ \E t \in Nat : t <= time /\ cached' = Built(t)
      <3>1. reading[r] \in Nat /\ reading[r] <= time
        BY DEF RegistryInv, RegTypeOK
      <3>2. cached' = cached \/ cached' = Built(reading[r])
        BY <2>1 DEF GetAvailableModels
      <3> QED
        BY <3>1, <3>2
    <2> QED
      BY <2>1 DEF ReadClock, TimePasses, registryVars
  <1>5. time \in Nat /\ CacheOK
    BY DEF RegistryInv, RegTypeOK
  <1>6. CacheOK'
    <2>1. \A t \in Nat : t <= time => t <= time'
      BY <1>1, <1>5
    <2>2. cached' = NoCache \/ \E t \in Nat : t <= time /\ cached' = Built(t)
      BY <1>4, <1>5 DEF CacheOK
    <2> QED
      BY <1>3, <2>1, <2>2 DEF CacheOK
  <1> QED
    BY <1>2, <1>6 DEF RegistryInv

LEMMA RegistryInvInit == RegistryInit => RegistryInv
  <1> SUFFICES ASSUME RegistryInit PROVE RegistryInv
    OBVIOUS
  <1>1. RegTypeOK
    BY EmptyTyped DEF RegistryInit, RegTypeOK, Names, None
  <1>2. ASSUME NEW m \in RegModels PROVE Counts(regs[m], list, owner, m)
    <2>1. \A c \in Clients : list[c][m] = 0
      BY DEF RegistryInit, None
    <2>2. ASSUME NEW S \in SUBSET Clients PROVE SumOf(list, m, S) = 0
      <3>1. IsFiniteSet(S) /\ \A c \in S : list[c][m] \in Nat
        BY <2>1, FS_Subset, RegistryAssumption
      <3> QED
        BY <2>1, <3>1, SumOfNats
    <2>3. /\ regs[m] = Empty /\ Empty.count = 0
          /\ \A p \in RegProviders : Empty.providers[p] = 0 /\ Owned(owner, p) \in SUBSET Clients
      BY DEF RegistryInit, Empty, Owned
    <2> QED
      BY <2>2, <2>3 DEF Counts
  <1>3. CountsAgree
    BY <1>2, CountsAgreeIs DEF AllCount
  <1>4. CacheOK
    BY DEF RegistryInit, CacheOK
  <1> QED
    BY <1>1, <1>3, <1>4 DEF RegistryInv

LEMMA RegistryInvStep == RegistryInv /\ [RegistryNext]_registryVars => RegistryInv'
  <1> SUFFICES ASSUME RegistryInv, [RegistryNext]_registryVars PROVE RegistryInv'
    OBVIOUS
  <1>1. ASSUME NEW c \in Clients, NEW p \in RegProviders, NEW l \in Lists, RegisterClient(c, p, l)
        PROVE  RegistryInv'
    <2>1. l \in [RegModels -> Nat]
      BY RegistryAssumption
    <2> QED
      BY <1>1, <2>1, RegisterKeeps
  <1>2. ASSUME NEW c \in Clients, NEW m \in RegModels, Marks(c, m)
        PROVE  RegistryInv'
    BY <1>2, MarksKeep
  <1> QED
    BY <1>1, <1>2, ForgetKeeps, CleanupKeeps, ReadersKeep
       DEF RegistryNext, UnregisterClient, Marks

\* A list that may be given to a reader says what the registry says now: no mark has
\* ended since it was built.
LEMMA CachedIsFresh ==
    ASSUME RegistryInv, Valid(cached, time)
    PROVE  cached.models = Built(time).models
  <1>1. PICK t \in Nat : t <= time /\ cached = Built(t)
    BY DEF RegistryInv, CacheOK, Valid
  <1> DEFINE ends == UNION {{regs[m].over[c] + Window : c \in Over(regs[m], t)} : m \in RegModels}
  <1>2. cached.until = IF ends = {} THEN 0 ELSE Min(ends)
    BY <1>1 DEF Built
  <1>3. \A m \in RegModels, c \in Clients : regs[m].over[c] \in Nat
    BY DEF RegistryInv, RegTypeOK, Registration
  <1>4. Window \in Nat /\ Window # 0 /\ time \in Nat
    BY RegistryAssumption DEF RegistryInv, RegTypeOK
  <1>5. ends \subseteq Nat /\ 0 \notin ends
    BY <1>3, <1>4 DEF Over
  <1>6. ASSUME NEW m \in RegModels, NEW c \in Over(regs[m], t)
        PROVE  time < regs[m].over[c] + Window
    <2>1. regs[m].over[c] + Window \in ends
      OBVIOUS
    <2> HIDE DEF ends
    <2>2. Min(ends) \in ends /\ Min(ends) <= regs[m].over[c] + Window
      BY <1>5, <2>1, MinIsLeast
    <2>3. cached.until = Min(ends) /\ Min(ends) # 0
      BY <1>2, <1>5, <2>1, <2>2
    <2>4. time < Min(ends)
      BY <2>3 DEF Valid
    <2>5. regs[m].over[c] \in Nat /\ Min(ends) \in Nat
      BY <1>3, <1>5, <2>2 DEF Over
    <2> QED
      BY <1>4, <2>2, <2>4, <2>5
  <1>7. \A m \in RegModels : Over(regs[m], t) = Over(regs[m], time)
    <2> SUFFICES ASSUME NEW m \in RegModels PROVE Over(regs[m], t) = Over(regs[m], time)
      OBVIOUS
    <2>1. Over(regs[m], t) \subseteq Over(regs[m], time)
      BY <1>6 DEF Over
    <2>2. ASSUME NEW c \in Clients, time < regs[m].over[c] + Window
          PROVE  t < regs[m].over[c] + Window
      BY <1>1, <1>3, <1>4, <2>2
    <2>3. Over(regs[m], time) \subseteq Over(regs[m], t)
      BY <2>2 DEF Over
    <2> QED
      BY <2>1, <2>3
  <1>8. \A m \in RegModels : Listed(regs[m], t) = Listed(regs[m], time)
    BY <1>7 DEF Listed
  <1>9. cached.models = {m \in RegModels : Listed(regs[m], t)}
    BY <1>1 DEF Built
  <1>10. Built(time).models = {m \in RegModels : Listed(regs[m], time)}
    BY DEF Built
  <1> QED
    BY <1>8, <1>9, <1>10

\* However clients come with other lists and other providers, and whatever is marked
\* meanwhile, the counts are what the lists add up to.
THEOREM RegistryCounts == RegistrySpec => []CountsAgree
  <1>1. RegistryInv => CountsAgree
    BY DEF RegistryInv
  <1> QED
    BY <1>1, RegistryInvInit, RegistryInvStep, PTL DEF RegistrySpec

\* A reader is given the list that the registry itself would give.
THEOREM RegistryLists == RegistrySpec => []FreshList
  <1>1. RegistryInv => FreshList
    BY CachedIsFresh DEF FreshList
  <1> QED
    BY <1>1, RegistryInvInit, RegistryInvStep, PTL DEF RegistrySpec

-----------------------------------------------------------------------------
(* The service that registers the credentials. *)

AuthRecord == [disabled : BOOLEAN, kind : Kinds]

ModelLists == [RegModels -> Nat]

ServiceTypeOK ==
    /\ record \in [Clients -> AuthRecord \cup {Nobody}]
    /\ catalog \in DOMAIN Catalogs
    /\ applier.pc = "idle" => applier = Idle
    /\ applier.pc # "idle" => applier.client \in Clients
    /\ applier.pc \in {"resolve", "register"} => applier.auth \in AuthRecord
    /\ applier.pc = "register" => applier.models \in ModelLists
    /\ applier.pc = "disable" => record[applier.client] # Nobody
    /\ refresher.pc = "idle" => refresher = Idle
    /\ refresher.pc \in {"first", "latest", "again"} =>
          /\ refresher = [pc |-> refresher.pc, left |-> refresher.left,
                          client |-> refresher.client, auth |-> refresher.auth]
          /\ refresher.client \in Clients /\ refresher.auth \in AuthRecord \cup {Nobody}
    /\ refresher.pc = "next" => refresher = [pc |-> "next", left |-> refresher.left]

ApplierOn(c) == applier.pc # "idle" /\ applier.client = c

RefresherOn(c) == refresher.pc \in {"first", "latest", "again"} /\ refresher.client = c

Queued(c) == refresher.pc \in {"next", "first", "latest", "again"} /\ c \in refresher.left

\* The refresher is at the credential, or it will be and will register it.
Due(c) ==
    \/ RefresherOn(c)
    \/ /\ Enabled(record[c]) /\ ProviderOf[record[c].kind] \in changed
       /\ refresher.pc \in {"idle", "notify", "list"} \/ Queued(c)

\* A credential that is not registered as it should be is on the way to it.
Pending == \A c \in Clients \ outrun : Registered(c) \/ ApplierOn(c) \/ Due(c)

\* The applier goes by the record it wrote and the catalog of now; a credential it is
\* about to disable has no models, unless the refresher gave it some and will look again.
ApplierOK ==
    /\ applier.pc \in {"resolve", "register"} => applier.auth = record[applier.client]
    /\ applier.pc = "register" /\ applier.client \notin outrun =>
          applier.models = ModelsOf(applier.auth)
    /\ applier.pc = "disable" /\ applier.client \notin outrun =>
          \/ list[applier.client] = None
          \/ refresher.pc \in {"latest", "again"} /\ refresher.client = applier.client

\* The refresher's second look is at the record of now, and it does not stop before it
\* has been through what changed.
RefresherOK ==
    /\ refresher.pc = "again" /\ refresher.client \notin outrun =>
          refresher.auth = record[refresher.client]
    /\ refresher = Idle /\ callback => changed = {}

ServiceInv == RegistryInv /\ ServiceTypeOK /\ Pending /\ ApplierOK /\ RefresherOK

-----------------------------------------------------------------------------
(* What a registration does to the registry and the lists. *)

LEMMA ModelsTyped ==
    ASSUME ServiceTypeOK, NEW auth \in AuthRecord \cup {Nobody}
    PROVE  /\ ModelsOf(auth) \in ModelLists
           /\ ModelsOf(auth) # None => auth \in AuthRecord
  BY ServiceAssumption DEF ModelsOf, Enabled, ServiceTypeOK, AuthRecord, ModelLists, None

LEMMA ForgetLists ==
    ASSUME RegistryInv, NEW c \in Clients, Forget(c)
    PROVE  /\ list'[c] = None /\ \A d \in Clients \ {c} : list'[d] = list[d] /\ owner'[d] = owner[d]
           /\ RegistryInv'
  BY ForgetKeeps DEF Forget, RegistryInv, RegTypeOK

LEMMA ResolvedRegisters ==
    ASSUME RegistryInv, NEW c \in Clients, NEW models \in ModelLists, NEW auth,
           models # None => auth \in AuthRecord,
           RegisterResolved(c, auth, models)
    PROVE  /\ list'[c] = models
           /\ models # None => owner'[c] = ProviderOf[auth.kind]
           /\ \A d \in Clients \ {c} : list'[d] = list[d] /\ owner'[d] = owner[d]
           /\ RegistryInv'
  <1>1. CASE models = None
    BY <1>1, ForgetLists DEF RegisterResolved, UnregisterClient
  <1>2. CASE models # None
    <2>1. ProviderOf[auth.kind] \in RegProviders
      BY <1>2, ServiceAssumption DEF AuthRecord
    <2>2. RegisterClient(c, ProviderOf[auth.kind], models)
      BY <1>2 DEF RegisterResolved
    <2>3. RegistryInv'
      BY <2>1, <2>2, RegisterKeeps DEF ModelLists
    <2>4. /\ list' = [list EXCEPT ![c] = models]
          /\ owner' = [owner EXCEPT ![c] = ProviderOf[auth.kind]]
      BY <1>2, <2>2 DEF RegisterClient
    <2> QED
      BY <2>3, <2>4 DEF RegistryInv, RegTypeOK
  <1> QED
    BY <1>1, <1>2

LEMMA TellingKeeps ==
    ASSUME RegistryInv, NEW c \in Clients, NEW m \in RegModels,
           TellFailure(c, m) \/ TellSuccess(c, m)
    PROVE  RegistryInv' /\ list' = list /\ owner' = owner
  <1>1. Marks(c, m)
    BY DEF TellFailure, TellSuccess, Marks
  <1>2. list' = list /\ owner' = owner
    BY <1>1 DEF Marks, SetModelQuotaExceeded, ClearModelQuotaExceeded, ResumeClientModel,
                SuspendClientModel
  <1> QED
    BY <1>1, <1>2, MarksKeep

-----------------------------------------------------------------------------
(* The applier. *)

Notes == outrun' = outrun \cup {c \in Clients : Outrun(c)}

LEMMA UpdateKeeps ==
    ASSUME ServiceInv, Notes, NEW c \in Clients, NEW auth \in AuthRecord, Update(c, auth)
    PROVE  ServiceInv'
  <1>1. /\ applier = Idle /\ record' = [record EXCEPT ![c] = auth]
        /\ applier' = [pc |-> "resolve", client |-> c, auth |-> auth]
        /\ UNCHANGED <<registryVars, catalog, refresher, callback, changed>>
    BY DEF Update
  <1>2. RegistryInv'
    BY <1>1, ReadersKeep DEF ServiceInv
  <1>3. ServiceTypeOK'
    BY <1>1 DEF ServiceInv, ServiceTypeOK
  <1>4. /\ record \in [Clients -> AuthRecord \cup {Nobody}] /\ outrun \subseteq outrun'
        /\ \A d \in Clients \ {c} : record'[d] = record[d]
        /\ record'[c] = auth /\ list' = list /\ owner' = owner
    BY <1>1 DEF ServiceInv, ServiceTypeOK, Notes, registryVars
  <1>5. Pending'
    <2> SUFFICES ASSUME NEW d \in Clients, d \notin outrun'
                 PROVE  (Registered(d) \/ ApplierOn(d) \/ Due(d))'
      BY DEF Pending
    <2>1. CASE d = c
      BY <1>1, <2>1 DEF ApplierOn
    <2>2. CASE d # c
      <3>1. d \notin outrun /\ ~ApplierOn(d)
        BY <1>1, <1>4 DEF ApplierOn, Idle
      <3>2. Registered(d) \/ Due(d)
        BY <3>1 DEF ServiceInv, Pending
      <3>3. record'[d] = record[d]
        BY <1>4, <2>2
      <3>4. Registered(d) => Registered(d)'
        BY <1>1, <1>4, <3>3 DEF Registered, ModelsOf
      <3>5. Due(d) => Due(d)'
        BY <1>1, <3>3 DEF Due, RefresherOn, Queued
      <3> QED
        BY <3>2, <3>4, <3>5
    <2> QED
      BY <2>1, <2>2
  <1>6. ApplierOK'
    BY <1>1, <1>4 DEF ApplierOK
  <1>7. RefresherOK'
    <2>1. ASSUME refresher.pc = "again", refresher.client \notin outrun'
          PROVE  refresher.auth = record'[refresher.client]
      <3>1. refresher.client \in Clients /\ refresher.client \notin outrun
        BY <1>4, <2>1 DEF ServiceInv, ServiceTypeOK
      <3>2. refresher.auth = record[refresher.client]
        BY <2>1, <3>1 DEF ServiceInv, RefresherOK
      <3>3. record[refresher.client] = record'[refresher.client]
        BY <2>1, <3>1 DEF Notes, Outrun
      <3> QED
        BY <3>2, <3>3
    <2> QED
      BY <1>1, <2>1 DEF ServiceInv, RefresherOK
  <1> QED
    BY <1>2, <1>3, <1>5, <1>6, <1>7 DEF ServiceInv

LEMMA ResolveKeeps ==
    ASSUME ServiceInv, Notes, ResolveModels
    PROVE  ServiceInv'
  <1>1. /\ applier.pc = "resolve"
        /\ applier' = [pc |-> "register", client |-> applier.client, auth |-> applier.auth,
                       models |-> ModelsOf(applier.auth)]
        /\ UNCHANGED <<registryVars, record, catalog, refresher, callback, changed>>
    BY DEF ResolveModels
  <1>2. RegistryInv'
    BY <1>1, ReadersKeep DEF ServiceInv
  <1>3. ServiceTypeOK'
    <2>1. ModelsOf(applier.auth) \in ModelLists
      BY <1>1, ModelsTyped DEF ServiceInv, ServiceTypeOK
    <2> QED
      BY <1>1, <2>1 DEF ServiceInv, ServiceTypeOK
  <1>4. outrun \subseteq outrun' /\ list' = list /\ owner' = owner
    BY <1>1 DEF Notes, registryVars
  <1>5. Pending'
    BY <1>1, <1>4 DEF ServiceInv, Pending, Registered, ModelsOf, Due, RefresherOn, Queued, ApplierOn
  <1>6. ApplierOK'
    BY <1>1 DEF ServiceInv, ApplierOK, ModelsOf
  <1>7. RefresherOK'
    BY <1>1, <1>4 DEF ServiceInv, RefresherOK
  <1> QED
    BY <1>2, <1>3, <1>5, <1>6, <1>7 DEF ServiceInv

LEMMA RegisterUpdatedKeeps ==
    ASSUME ServiceInv, Notes, RegisterUpdated
    PROVE  ServiceInv'
  <1> DEFINE c == applier.client
  <1>1. /\ applier.pc = "register" /\ RegisterResolved(c, applier.auth, applier.models)
        /\ applier' = Idle /\ UNCHANGED <<record, catalog, refresher, callback, changed>>
    BY DEF RegisterUpdated
  <1>2. c \in Clients /\ applier.auth \in AuthRecord /\ applier.models \in ModelLists
        /\ applier.auth = record[c] /\ (c \notin outrun => applier.models = ModelsOf(record[c]))
    BY <1>1 DEF ServiceInv, ServiceTypeOK, ApplierOK
  <1> HIDE DEF c
  <1>3. /\ list'[c] = applier.models
        /\ applier.models # None => owner'[c] = ProviderOf[applier.auth.kind]
        /\ \A d \in Clients \ {c} : list'[d] = list[d] /\ owner'[d] = owner[d]
        /\ RegistryInv'
    BY <1>1, <1>2, ResolvedRegisters DEF ServiceInv
  <1>4. ServiceTypeOK'
    BY <1>1 DEF ServiceInv, ServiceTypeOK, Idle
  <1>5. outrun \subseteq outrun'
    BY DEF Notes
  <1>6. Pending'
    <2> SUFFICES ASSUME NEW d \in Clients, d \notin outrun'
                 PROVE  (Registered(d) \/ ApplierOn(d) \/ Due(d))'
      BY DEF Pending
    <2>1. CASE d = c
      BY <1>1, <1>2, <1>3, <1>5, <2>1 DEF Registered, ModelsOf
    <2>2. CASE d # c
      <3>1. Registered(d) \/ Due(d)
        BY <1>5, <2>2 DEF ServiceInv, Pending, ApplierOn, c
      <3>2. list'[d] = list[d] /\ owner'[d] = owner[d]
        BY <1>3, <2>2
      <3> QED
        BY <1>1, <3>1, <3>2 DEF Registered, ModelsOf, Due, RefresherOn, Queued
    <2> QED
      BY <2>1, <2>2
  <1>7. ApplierOK'
    BY <1>1 DEF ApplierOK, Idle
  <1>8. RefresherOK'
    BY <1>1, <1>5 DEF ServiceInv, RefresherOK
  <1> QED
    BY <1>3, <1>4, <1>6, <1>7, <1>8 DEF ServiceInv

LEMMA RemoveKeeps ==
    ASSUME ServiceInv, Notes, NEW c \in Clients, Remove(c)
    PROVE  ServiceInv'
  <1>1. /\ applier = Idle /\ Forget(c)
        /\ applier' = IF record[c] = Nobody THEN Idle ELSE [pc |-> "disable", client |-> c]
        /\ UNCHANGED <<record, catalog, refresher, callback, changed>>
    BY DEF Remove, UnregisterClient
  <1>2. /\ list'[c] = None
        /\ \A d \in Clients \ {c} : list'[d] = list[d] /\ owner'[d] = owner[d]
        /\ RegistryInv'
    BY <1>1, ForgetLists DEF ServiceInv
  <1>3. ServiceTypeOK'
    BY <1>1 DEF ServiceInv, ServiceTypeOK, Idle
  <1>4. outrun \subseteq outrun'
    BY DEF Notes
  <1>5. Pending'
    <2> SUFFICES ASSUME NEW d \in Clients, d \notin outrun'
                 PROVE  (Registered(d) \/ ApplierOn(d) \/ Due(d))'
      BY DEF Pending
    <2>1. CASE d = c /\ record[c] = Nobody
      BY <1>1, <1>2, <2>1 DEF Registered, ModelsOf, Enabled
    <2>2. CASE d = c /\ record[c] # Nobody
      BY <1>1, <2>2 DEF ApplierOn
    <2>3. CASE d # c
      <3>1. Registered(d) \/ Due(d)
        BY <1>1, <1>4 DEF ServiceInv, Pending, ApplierOn, Idle
      <3>2. list'[d] = list[d] /\ owner'[d] = owner[d]
        BY <1>2, <2>3
      <3> QED
        BY <1>1, <3>1, <3>2 DEF Registered, ModelsOf, Due, RefresherOn, Queued
    <2> QED
      BY <2>1, <2>2, <2>3
  <1>6. ApplierOK'
    BY <1>1, <1>2 DEF ApplierOK, Idle
  <1>7. RefresherOK'
    BY <1>1, <1>4 DEF ServiceInv, RefresherOK
  <1> QED
    BY <1>2, <1>3, <1>5, <1>6, <1>7 DEF ServiceInv

LEMMA DisableKeeps ==
    ASSUME ServiceInv, Notes, Disable
    PROVE  ServiceInv'
  <1> DEFINE c == applier.client
             off == [record[c] EXCEPT !.disabled = TRUE]
  <1>1. /\ applier.pc = "disable" /\ record' = [record EXCEPT ![c].disabled = TRUE]
        /\ applier' = Idle /\ UNCHANGED <<registryVars, catalog, refresher, callback, changed>>
    BY DEF Disable
  <1>2. /\ c \in Clients /\ record[c] \in AuthRecord
        /\ record \in [Clients -> AuthRecord \cup {Nobody}]
    BY <1>1 DEF ServiceInv, ServiceTypeOK
  <1>3. off \in AuthRecord /\ off.disabled
    BY <1>2 DEF AuthRecord
  <1>4. record' = [record EXCEPT ![c] = off]
    BY <1>1, <1>2
  <1> HIDE DEF c, off
  <1>5. /\ record'[c] = off /\ \A d \in Clients \ {c} : record'[d] = record[d]
        /\ record' \in [Clients -> AuthRecord \cup {Nobody}]
        /\ outrun \subseteq outrun' /\ list' = list /\ owner' = owner
    BY <1>1, <1>2, <1>3, <1>4 DEF Notes, registryVars
  <1>6. RegistryInv'
    BY <1>1, ReadersKeep DEF ServiceInv
  <1>7. ServiceTypeOK'
    BY <1>1, <1>5 DEF ServiceInv, ServiceTypeOK, Idle
  <1>8. Pending'
    <2> SUFFICES ASSUME NEW d \in Clients, d \notin outrun'
                 PROVE  (Registered(d) \/ ApplierOn(d) \/ Due(d))'
      BY DEF Pending
    <2>1. CASE d = c
      <3>1. list[c] = None \/ RefresherOn(c)
        BY <1>1, <1>5, <2>1 DEF ServiceInv, ApplierOK, RefresherOn, c
      <3>2. ~Enabled(record'[c])
        BY <1>3, <1>5 DEF Enabled
      <3>3. list[d] = None => Registered(d)'
        BY <1>5, <2>1, <3>2 DEF Registered, ModelsOf
      <3>4. RefresherOn(d) => Due(d)'
        BY <1>1 DEF Due, RefresherOn
      <3> QED
        BY <2>1, <3>1, <3>3, <3>4
    <2>2. CASE d # c
      <3>1. Registered(d) \/ Due(d)
        BY <1>5, <2>2 DEF ServiceInv, Pending, ApplierOn, c
      <3>2. record'[d] = record[d] /\ list'[d] = list[d] /\ owner'[d] = owner[d]
        BY <1>5, <2>2
      <3>3. Registered(d) => Registered(d)'
        BY <1>1, <3>2 DEF Registered, ModelsOf
      <3>4. Due(d) => Due(d)'
        BY <1>1, <3>2 DEF Due, RefresherOn, Queued
      <3> QED
        BY <3>1, <3>3, <3>4
    <2> QED
      BY <2>1, <2>2
  <1>9. ApplierOK'
    BY <1>1 DEF ApplierOK, Idle
  <1>10. RefresherOK'
    <2>1. ASSUME refresher.pc = "again", refresher.client \notin outrun'
          PROVE  refresher.auth = record'[refresher.client]
      <3>1. refresher.client \in Clients /\ refresher.client \notin outrun
        BY <1>5, <2>1 DEF ServiceInv, ServiceTypeOK
      <3>2. refresher.auth = record[refresher.client]
        BY <2>1, <3>1 DEF ServiceInv, RefresherOK
      <3>3. record[refresher.client] = record'[refresher.client]
        BY <2>1, <3>1 DEF Notes, Outrun
      <3> QED
        BY <3>2, <3>3
    <2> QED
      BY <1>1, <2>1 DEF ServiceInv, RefresherOK
  <1> QED
    BY <1>6, <1>7, <1>8, <1>9, <1>10 DEF ServiceInv

-----------------------------------------------------------------------------
(* The refresher. *)

\* A step of the refresher that leaves the registry alone and forgets no credential.
LEMMA LooksKeep ==
    ASSUME ServiceInv, Notes, UNCHANGED <<registryVars, record, catalog, applier>>,
           ServiceTypeOK', RefresherOK',
           \A d \in Clients : Due(d) => Due(d)',
           refresher.pc \in {"latest", "again"} =>
              refresher'.pc = "again" /\ refresher'.client = refresher.client
    PROVE  ServiceInv'
  <1>1. RegistryInv'
    BY ReadersKeep DEF ServiceInv
  <1>2. outrun \subseteq outrun' /\ list' = list /\ owner' = owner
    BY DEF Notes, registryVars
  <1>3. Pending'
    <2> SUFFICES ASSUME NEW d \in Clients, d \notin outrun'
                 PROVE  (Registered(d) \/ ApplierOn(d) \/ Due(d))'
      BY DEF Pending
    <2>1. Registered(d) \/ ApplierOn(d) \/ Due(d)
      BY <1>2 DEF ServiceInv, Pending
    <2>2. Registered(d) => Registered(d)'
      BY <1>2 DEF Registered, ModelsOf
    <2>3. ApplierOn(d) => ApplierOn(d)'
      BY DEF ApplierOn
    <2> QED
      BY <2>1, <2>2, <2>3
  <1>4. ApplierOK'
    BY <1>2 DEF ServiceInv, ApplierOK, ModelsOf
  <1> QED
    BY <1>1, <1>3, <1>4 DEF ServiceInv

LEMMA NotifyKeeps ==
    ASSUME ServiceInv, Notes, Notify
    PROVE  ServiceInv'
  <1>1. /\ refresher.pc = "notify" /\ refresher' = IF callback THEN [pc |-> "list"] ELSE Idle
        /\ UNCHANGED <<registryVars, record, catalog, applier, callback, changed>>
    BY DEF Notify
  <1>2. ServiceTypeOK'
    BY <1>1 DEF ServiceInv, ServiceTypeOK, Idle
  <1>3. RefresherOK'
    BY <1>1 DEF RefresherOK, Idle
  <1>4. \A d \in Clients : Due(d) => Due(d)'
    BY <1>1 DEF Due, RefresherOn, Queued, Idle
  <1> QED
    BY <1>1, <1>2, <1>3, <1>4, LooksKeep

LEMMA SetCallbackKeeps ==
    ASSUME ServiceInv, Notes, SetCallback
    PROVE  ServiceInv'
  <1>1. /\ refresher' = IF refresher = Idle /\ changed # {} THEN [pc |-> "list"] ELSE refresher
        /\ UNCHANGED <<registryVars, record, catalog, applier, changed>>
    BY DEF SetCallback
  <1>2. CASE refresher = Idle /\ changed # {}
    <2>1. refresher.pc = "idle" /\ refresher' = [pc |-> "list"]
      BY <1>1, <1>2 DEF Idle
    <2>2. ServiceTypeOK'
      BY <1>1, <2>1 DEF ServiceInv, ServiceTypeOK
    <2>3. RefresherOK'
      BY <2>1 DEF RefresherOK, Idle
    <2>4. \A d \in Clients : Due(d) => Due(d)'
      BY <1>1, <2>1 DEF Due, RefresherOn, Queued
    <2> QED
      BY <1>1, <2>1, <2>2, <2>3, <2>4, LooksKeep
  <1>3. CASE ~(refresher = Idle /\ changed # {})
    <2>1. refresher' = refresher
      BY <1>1, <1>3
    <2>2. ServiceTypeOK'
      BY <1>1, <2>1 DEF ServiceInv, ServiceTypeOK
    <2>3. RefresherOK'
      BY <1>1, <1>3, <2>1 DEF ServiceInv, RefresherOK, Notes
    <2>4. RegistryInv'
      BY <1>1, ReadersKeep DEF ServiceInv
    <2>5. outrun \subseteq outrun' /\ list' = list /\ owner' = owner
      BY <1>1 DEF Notes, registryVars
    <2>6. Pending'
      BY <1>1, <2>1, <2>5
         DEF ServiceInv, Pending, Registered, ModelsOf, Due, RefresherOn, Queued, ApplierOn
    <2>7. ApplierOK'
      BY <1>1, <2>1, <2>5 DEF ServiceInv, ApplierOK, ModelsOf
    <2> QED
      BY <2>2, <2>3, <2>4, <2>6, <2>7 DEF ServiceInv
  <1> QED
    BY <1>2, <1>3

LEMMA ListAuthsKeeps ==
    ASSUME ServiceInv, Notes, ListAuths
    PROVE  ServiceInv'
  <1>1. /\ refresher.pc = "list"
        /\ refresher' = [pc |-> "next", left |-> {c \in Clients : record[c] # Nobody}]
        /\ UNCHANGED <<registryVars, record, catalog, applier, callback, changed>>
    BY DEF ListAuths
  <1>2. ServiceTypeOK'
    BY <1>1 DEF ServiceInv, ServiceTypeOK
  <1>3. RefresherOK'
    BY <1>1 DEF RefresherOK, Idle
  <1>4. \A d \in Clients : Due(d) => Due(d)'
    BY <1>1 DEF Due, RefresherOn, Queued, Enabled
  <1> QED
    BY <1>1, <1>2, <1>3, <1>4, LooksKeep

LEMMA RefreshNextKeeps ==
    ASSUME ServiceInv, Notes, NEW c \in Clients, RefreshNext(c)
    PROVE  ServiceInv'
  <1>1. /\ refresher.pc = "next" /\ c \in refresher.left
        /\ UNCHANGED <<registryVars, record, catalog, applier, callback, changed>>
    BY DEF RefreshNext
  <1>2. record[c] \in AuthRecord \cup {Nobody} /\ refresher = [pc |-> "next", left |-> refresher.left]
    BY <1>1 DEF ServiceInv, ServiceTypeOK
  <1>3. CASE Enabled(record[c]) /\ ProviderOf[record[c].kind] \in changed
    <2>1. refresher' = [pc |-> "first", left |-> refresher.left \ {c}, client |-> c,
                        auth |-> record[c]]
      BY <1>3 DEF RefreshNext
    <2>2. ServiceTypeOK'
      BY <1>1, <1>2, <2>1 DEF ServiceInv, ServiceTypeOK
    <2>3. RefresherOK'
      BY <2>1 DEF RefresherOK, Idle
    <2>4. \A d \in Clients : Due(d) => Due(d)'
      BY <1>1, <2>1 DEF Due, RefresherOn, Queued
    <2> QED
      BY <1>1, <2>2, <2>3, <2>4, LooksKeep
  <1>4. CASE ~(Enabled(record[c]) /\ ProviderOf[record[c].kind] \in changed)
    <2>1. refresher' = [pc |-> "next", left |-> refresher.left \ {c}]
      BY <1>2, <1>4 DEF RefreshNext
    <2>2. ServiceTypeOK'
      BY <1>1, <2>1 DEF ServiceInv, ServiceTypeOK
    <2>3. RefresherOK'
      BY <2>1 DEF RefresherOK, Idle
    <2>4. \A d \in Clients : Due(d) => Due(d)'
      BY <1>1, <1>4, <2>1 DEF Due, RefresherOn, Queued
    <2> QED
      BY <1>1, <2>2, <2>3, <2>4, LooksKeep
  <1> QED
    BY <1>3, <1>4

LEMMA LatestAuthKeeps ==
    ASSUME ServiceInv, Notes, LatestAuth
    PROVE  ServiceInv'
  <1>1. /\ refresher.pc = "latest"
        /\ refresher' = [refresher EXCEPT !.pc = "again", !.auth = record[refresher.client]]
        /\ UNCHANGED <<registryVars, record, catalog, applier, callback, changed>>
    BY DEF LatestAuth
  <1>2. refresher = [pc |-> "latest", left |-> refresher.left, client |-> refresher.client,
                     auth |-> refresher.auth]
        /\ refresher.client \in Clients /\ record[refresher.client] \in AuthRecord \cup {Nobody}
    BY <1>1 DEF ServiceInv, ServiceTypeOK
  <1>3. refresher' = [pc |-> "again", left |-> refresher.left, client |-> refresher.client,
                      auth |-> record[refresher.client]]
    BY <1>1, <1>2
  <1>4. ServiceTypeOK'
    BY <1>1, <1>2, <1>3 DEF ServiceInv, ServiceTypeOK
  <1>5. RefresherOK'
    BY <1>1, <1>3 DEF RefresherOK, Idle
  <1>6. \A d \in Clients : Due(d) => Due(d)'
    BY <1>1, <1>3 DEF Due, RefresherOn, Queued
  <1> QED
    BY <1>1, <1>3, <1>4, <1>5, <1>6, LooksKeep

\* The pass ends: what was due has been registered.
LEMMA RefreshEndsKeeps ==
    ASSUME ServiceInv, Notes, RefreshEnds
    PROVE  ServiceInv'
  <1>1. /\ refresher.pc = "next" /\ refresher.left = {}
        /\ refresher' = Idle /\ changed' = {}
        /\ UNCHANGED <<registryVars, record, catalog, applier, callback>>
    BY DEF RefreshEnds
  <1>2. RegistryInv'
    BY <1>1, ReadersKeep DEF ServiceInv
  <1>3. ServiceTypeOK'
    BY <1>1 DEF ServiceInv, ServiceTypeOK, Idle
  <1>4. outrun \subseteq outrun' /\ list' = list /\ owner' = owner
    BY <1>1 DEF Notes, registryVars
  <1>5. \A d \in Clients : ~Due(d)
    BY <1>1 DEF Due, RefresherOn, Queued
  <1>6. Pending'
    BY <1>1, <1>4, <1>5 DEF ServiceInv, Pending, Registered, ModelsOf, ApplierOn
  <1>7. ApplierOK'
    BY <1>1, <1>4 DEF ServiceInv, ApplierOK, ModelsOf
  <1>8. RefresherOK'
    BY <1>1 DEF RefresherOK, Idle
  <1> QED
    BY <1>2, <1>3, <1>6, <1>7, <1>8 DEF ServiceInv

\* The catalog changes only after the last pass: what it makes stale is due again, and
\* what the applier was about to register is outrun.
LEMMA CatalogChangesKeeps ==
    ASSUME ServiceInv, Notes, CatalogChanges
    PROVE  ServiceInv'
  <1>1. /\ refresher = Idle /\ (callback \/ changed = {})
        /\ catalog + 1 \in DOMAIN Catalogs /\ catalog' = catalog + 1
        /\ changed' = ChangedProviders(catalog) /\ refresher' = [pc |-> "notify"]
        /\ UNCHANGED <<registryVars, record, applier, callback>>
    BY DEF CatalogChanges
  <1>2. changed = {} /\ catalog \in Nat /\ catalog' # catalog
    BY <1>1, ServiceAssumption DEF ServiceInv, RefresherOK, ServiceTypeOK
  <1>3. RegistryInv'
    BY <1>1, ReadersKeep DEF ServiceInv
  <1>4. ServiceTypeOK'
    BY <1>1 DEF ServiceInv, ServiceTypeOK
  <1>5. outrun \subseteq outrun' /\ list' = list /\ owner' = owner
    BY <1>1 DEF Notes, registryVars
  <1>6. Pending'
    <2> SUFFICES ASSUME NEW d \in Clients, d \notin outrun'
                 PROVE  (Registered(d) \/ ApplierOn(d) \/ Due(d))'
      BY DEF Pending
    <2>1. Registered(d) \/ ApplierOn(d)
      BY <1>1, <1>2, <1>5 DEF ServiceInv, Pending, Due, RefresherOn, Idle
    <2>2. ApplierOn(d) => ApplierOn(d)'
      BY <1>1 DEF ApplierOn
    <2>3. ASSUME Registered(d), ~Enabled(record[d])
          PROVE  Registered(d)'
      BY <1>1, <1>5, <2>3 DEF Registered, ModelsOf
    <2>4. ASSUME Registered(d), Enabled(record[d]),
                 Catalogs[catalog][record[d].kind] = Catalogs[catalog + 1][record[d].kind]
          PROVE  Registered(d)'
      BY <1>1, <1>5, <2>4 DEF Registered, ModelsOf
    <2>5. ASSUME Enabled(record[d]),
                 Catalogs[catalog][record[d].kind] # Catalogs[catalog + 1][record[d].kind]
          PROVE  Due(d)'
      <3>1. record[d].kind \in Kinds
        BY <2>5 DEF ServiceInv, ServiceTypeOK, AuthRecord, Enabled
      <3>2. ProviderOf[record[d].kind] \in changed'
        BY <1>1, <2>5, <3>1 DEF ChangedProviders
      <3>3. Enabled(record'[d])
        BY <1>1, <2>5
      <3> QED
        BY <1>1, <3>2, <3>3 DEF Due
    <2> QED
      BY <2>1, <2>2, <2>3, <2>4, <2>5
  <1>7. ApplierOK'
    <2>1. applier.pc = "register" => applier.client \in outrun'
      BY <1>2 DEF ServiceInv, ServiceTypeOK, Notes, Outrun
    <2> QED
      BY <1>1, <1>5, <2>1 DEF ServiceInv, ApplierOK, Idle
  <1>8. RefresherOK'
    BY <1>1 DEF RefresherOK, Idle
  <1> QED
    BY <1>3, <1>4, <1>6, <1>7, <1>8 DEF ServiceInv

LEMMA RegisterFirstKeeps ==
    ASSUME ServiceInv, Notes, RegisterFirst
    PROVE  ServiceInv'
  <1> DEFINE c == refresher.client
             auth == refresher.auth
             models == ModelsOf(auth)
  <1>1. /\ refresher.pc = "first" /\ RegisterResolved(c, auth, models)
        /\ refresher' = [refresher EXCEPT !.pc = "latest"]
        /\ UNCHANGED <<record, catalog, applier, callback, changed>>
    BY DEF RegisterFirst
  <1>2. /\ refresher = [pc |-> "first", left |-> refresher.left, client |-> c, auth |-> auth]
        /\ c \in Clients /\ auth \in AuthRecord \cup {Nobody}
    BY <1>1 DEF ServiceInv, ServiceTypeOK
  <1>3. refresher' = [pc |-> "latest", left |-> refresher.left, client |-> c, auth |-> auth]
    BY <1>1, <1>2
  <1>4. models \in ModelLists /\ (models # None => auth \in AuthRecord)
    BY <1>2, ModelsTyped DEF ServiceInv
  <1>5. c = refresher.client
    OBVIOUS
  <1> HIDE DEF c, auth, models
  <1>6. /\ \A d \in Clients \ {c} : list'[d] = list[d] /\ owner'[d] = owner[d]
        /\ RegistryInv'
    BY <1>1, <1>2, <1>4, ResolvedRegisters DEF ServiceInv
  <1>7. ServiceTypeOK'
    BY <1>1, <1>2, <1>3 DEF ServiceInv, ServiceTypeOK
  <1>8. outrun \subseteq outrun'
    BY DEF Notes
  <1>9. Pending'
    <2> SUFFICES ASSUME NEW d \in Clients, d \notin outrun'
                 PROVE  (Registered(d) \/ ApplierOn(d) \/ Due(d))'
      BY DEF Pending
    <2>1. CASE d = c
      BY <1>3, <2>1 DEF Due, RefresherOn
    <2>2. CASE d # c
      <3>1. Registered(d) \/ ApplierOn(d) \/ Due(d)
        BY <1>8 DEF ServiceInv, Pending
      <3>2. list'[d] = list[d] /\ owner'[d] = owner[d]
        BY <1>6, <2>2
      <3>3. Registered(d) => Registered(d)'
        BY <1>1, <3>2 DEF Registered, ModelsOf
      <3>4. ApplierOn(d) => ApplierOn(d)'
        BY <1>1 DEF ApplierOn
      <3>5. Due(d) => Due(d)'
        BY <1>1, <1>3, <1>5, <2>2 DEF Due, RefresherOn, Queued
      <3> QED
        BY <3>1, <3>3, <3>4, <3>5
    <2> QED
      BY <2>1, <2>2
  <1>10. ApplierOK'
    BY <1>1, <1>3, <1>6, <1>8 DEF ServiceInv, ServiceTypeOK, ApplierOK, ModelsOf
  <1>11. RefresherOK'
    BY <1>3 DEF RefresherOK, Idle
  <1> QED
    BY <1>6, <1>7, <1>9, <1>10, <1>11 DEF ServiceInv

LEMMA RegisterAgainKeeps ==
    ASSUME ServiceInv, Notes, RegisterAgain
    PROVE  ServiceInv'
  <1> DEFINE c == refresher.client
             auth == refresher.auth
             models == ModelsOf(auth)
  <1>1. /\ refresher.pc = "again" /\ RegisterResolved(c, auth, models)
        /\ refresher' = [pc |-> "next", left |-> refresher.left]
        /\ UNCHANGED <<record, catalog, applier, callback, changed>>
    BY DEF RegisterAgain
  <1>2. /\ c \in Clients /\ auth \in AuthRecord \cup {Nobody}
        /\ c \notin outrun => auth = record[c]
    BY <1>1 DEF ServiceInv, ServiceTypeOK, RefresherOK
  <1>3. models \in ModelLists /\ (models # None => auth \in AuthRecord)
    BY <1>2, ModelsTyped DEF ServiceInv
  <1>4. c = refresher.client /\ models = ModelsOf(auth)
    OBVIOUS
  <1>5. outrun \subseteq outrun' /\ (applier.pc = "disable" /\ applier.client = c => c \in outrun')
    BY <1>1, <1>2 DEF Notes, Outrun
  <1> HIDE DEF c, auth, models
  <1>6. /\ list'[c] = models
        /\ models # None => owner'[c] = ProviderOf[auth.kind]
        /\ \A d \in Clients \ {c} : list'[d] = list[d] /\ owner'[d] = owner[d]
        /\ RegistryInv'
    BY <1>1, <1>2, <1>3, ResolvedRegisters DEF ServiceInv
  <1>7. ServiceTypeOK'
    BY <1>1 DEF ServiceInv, ServiceTypeOK
  <1>8. Pending'
    <2> SUFFICES ASSUME NEW d \in Clients, d \notin outrun'
                 PROVE  (Registered(d) \/ ApplierOn(d) \/ Due(d))'
      BY DEF Pending
    <2>1. CASE d = c
      <3>1. auth = record[c]
        BY <1>2, <1>5, <2>1
      <3>2. Registered(d)'
        BY <1>1, <1>4, <1>6, <2>1, <3>1 DEF Registered, ModelsOf
      <3> QED
        BY <3>2
    <2>2. CASE d # c
      <3>1. Registered(d) \/ ApplierOn(d) \/ Due(d)
        BY <1>5 DEF ServiceInv, Pending
      <3>2. list'[d] = list[d] /\ owner'[d] = owner[d]
        BY <1>6, <2>2
      <3>3. Registered(d) => Registered(d)'
        BY <1>1, <3>2 DEF Registered, ModelsOf
      <3>4. ApplierOn(d) => ApplierOn(d)'
        BY <1>1 DEF ApplierOn
      <3>5. Due(d) => Due(d)'
        BY <1>1, <1>4, <2>2 DEF Due, RefresherOn, Queued
      <3> QED
        BY <3>1, <3>3, <3>4, <3>5
    <2> QED
      BY <2>1, <2>2
  <1>9. ApplierOK'
    BY <1>1, <1>4, <1>5, <1>6 DEF ServiceInv, ServiceTypeOK, ApplierOK, ModelsOf
  <1>10. RefresherOK'
    BY <1>1 DEF RefresherOK, Idle
  <1> QED
    BY <1>6, <1>7, <1>8, <1>9, <1>10 DEF ServiceInv

-----------------------------------------------------------------------------
(* The theorems of the service. *)

LEMMA RestKeeps ==
    ASSUME ServiceInv, RegistryInv', outrun \subseteq outrun', list' = list, owner' = owner,
           UNCHANGED <<record, catalog, applier, refresher, callback, changed>>
    PROVE  ServiceInv'
  <1>1. ServiceTypeOK'
    BY DEF ServiceInv, ServiceTypeOK
  <1>2. Pending'
    BY DEF ServiceInv, Pending, Registered, ModelsOf, Due, RefresherOn, Queued, ApplierOn
  <1>3. ApplierOK'
    BY DEF ServiceInv, ApplierOK, ModelsOf
  <1>4. RefresherOK'
    BY DEF ServiceInv, RefresherOK
  <1> QED
    BY <1>1, <1>2, <1>3, <1>4 DEF ServiceInv

LEMMA ServiceInvInit == ServiceInit => ServiceInv
  <1> SUFFICES ASSUME ServiceInit PROVE ServiceInv
    OBVIOUS
  <1>1. RegistryInv
    BY RegistryInvInit DEF ServiceInit, ServiceStarts
  <1>2. ServiceTypeOK
    BY ServiceAssumption DEF ServiceInit, ServiceStarts, ServiceTypeOK, Idle
  <1>3. Pending
    BY DEF ServiceInit, ServiceStarts, RegistryInit, Pending, Registered, ModelsOf, Enabled
  <1>4. ApplierOK
    BY DEF ServiceInit, ServiceStarts, ApplierOK, Idle
  <1>5. RefresherOK
    BY DEF ServiceInit, ServiceStarts, RefresherOK, Idle
  <1> QED
    BY <1>1, <1>2, <1>3, <1>4, <1>5 DEF ServiceInv

LEMMA ServiceInvStep == ServiceInv /\ [ServiceNext]_registrationVars => ServiceInv'
  <1> SUFFICES ASSUME ServiceInv, [ServiceNext]_registrationVars PROVE ServiceInv'
    OBVIOUS
  <1>1. ASSUME UNCHANGED registrationVars
        PROVE  ServiceInv'
    <2>1. RegistryInv'
      BY <1>1, ReadersKeep DEF ServiceInv, registrationVars
    <2> QED
      BY <1>1, <2>1, RestKeeps DEF registrationVars, serviceVars, registryVars
  <1>2. ASSUME ServiceStep, Notes
        PROVE  ServiceInv'
    <2>1. ASSUME NEW c \in Clients, NEW kind \in Kinds, NEW off \in BOOLEAN,
                 Update(c, [disabled |-> off, kind |-> kind])
          PROVE  ServiceInv'
      <3>1. [disabled |-> off, kind |-> kind] \in AuthRecord
        BY DEF AuthRecord
      <3> QED
        BY <1>2, <2>1, <3>1, UpdateKeeps
    <2>2. ASSUME NEW c \in Clients, NEW m \in RegModels, TellFailure(c, m) \/ TellSuccess(c, m)
          PROVE  ServiceInv'
      <3>1. RegistryInv' /\ list' = list /\ owner' = owner
        BY <2>2, TellingKeeps DEF ServiceInv
      <3>2. UNCHANGED <<record, catalog, applier, refresher, callback, changed>>
        BY <2>2 DEF TellFailure, TellSuccess
      <3> QED
        BY <1>2, <3>1, <3>2, RestKeeps DEF Notes
    <2>3. ASSUME NEW c \in Clients, Remove(c)
          PROVE  ServiceInv'
      BY <1>2, <2>3, RemoveKeeps
    <2>4. ASSUME NEW c \in Clients, RefreshNext(c)
          PROVE  ServiceInv'
      BY <1>2, <2>4, RefreshNextKeeps
    <2> QED
      BY <1>2, <2>1, <2>2, <2>3, <2>4, ResolveKeeps, RegisterUpdatedKeeps, DisableKeeps,
         CatalogChangesKeeps, NotifyKeeps, SetCallbackKeeps, ListAuthsKeeps,
         RegisterFirstKeeps, LatestAuthKeeps, RegisterAgainKeeps, RefreshEndsKeeps
         DEF ServiceStep
  <1> QED
    BY <1>1, <1>2 DEF ServiceNext, Notes

\* Whatever the updates, the removals, the catalogs and the start of the service, a
\* credential that is registered otherwise than its record and the catalog say, when both
\* goroutines are done, changed behind somebody's last look.
THEOREM RegistrationsSettle == ServiceSpec => []StaleOnlyIfOutrun
  <1>1. ServiceInv => StaleOnlyIfOutrun
    BY DEF ServiceInv, Pending, ApplierOn, Due, RefresherOn, Queued, Idle, StaleOnlyIfOutrun,
           Settled
  <1> QED
    BY <1>1, ServiceInvInit, ServiceInvStep, PTL DEF ServiceSpec

\* The service goes by the registry's operations: its counts agree with its lists.
THEOREM ServiceCounts == ServiceSpec => []CountsAgree
  <1>1. ServiceInv => CountsAgree
    BY DEF ServiceInv, RegistryInv
  <1> QED
    BY <1>1, ServiceInvInit, ServiceInvStep, PTL DEF ServiceSpec

\* And so does what a reader of the registry is given.
THEOREM ServiceLists == ServiceSpec => []FreshList
  <1>1. ServiceInv => FreshList
    BY CachedIsFresh DEF ServiceInv, FreshList
  <1> QED
    BY <1>1, ServiceInvInit, ServiceInvStep, PTL DEF ServiceSpec

=============================================================================
