--------------------------- MODULE SumsAndOrders ----------------------------
(***************************************************************************)
(* What sums over functions and arrangements of sequences come to, for     *)
(* any finite set and any length.                                          *)
(***************************************************************************)
EXTENDS Availability, FiniteSetTheorems, WellFoundedInduction, TLAPS

----------------------------------------------------------------------------
(* Counting. *)

\* Induction, on what has been shown of numbers so far.
LEMMA FromNaught ==
    ASSUME NEW S, 0 \in S, \A n \in Nat : n \in S => n + 1 \in S
    PROVE  Nat \subseteq S
<1> DEFINE Rest == Nat \ S
           Below == {x \in Nat \X Nat : x[1] < x[2]}
<1>1. SUFFICES ASSUME Rest # {} PROVE FALSE OBVIOUS
<1>2. IsWellFoundedOn(Below, Nat)
  <2>1. Below = OpToRel(<, Nat) BY DEF OpToRel
  <2> QED BY <2>1, NatLessThanWellFounded
<1>3. PICK x \in Rest : \A y \in Rest : ~(<<y, x>> \in Below)
  <2> HIDE DEF Below
  <2> QED BY <1>1, <1>2, WFMin
<1>4. x # 0 OBVIOUS
<1>5. x - 1 \in Nat /\ x - 1 < x BY <1>4
<1>6. x - 1 \notin Rest BY <1>3, <1>5
<1>7. (x - 1) + 1 \in S BY <1>5, <1>6
<1> QED BY <1>7

\* The same over the subsets of a finite set, from what is left when an element goes.
LEMMA ByRemoval ==
    ASSUME NEW D, IsFiniteSet(D), NEW Good, {} \in Good,
           \A S \in SUBSET D : S # {} /\ (\A x \in S : S \ {x} \in Good) => S \in Good
    PROVE  \A S \in SUBSET D : S \in Good
<1> DEFINE Sized(n) == {S \in SUBSET D : Cardinality(S) = n}
           Ns == {n \in Nat : Sized(n) \subseteq Good}
<1>1. ASSUME NEW S \in SUBSET D PROVE IsFiniteSet(S) /\ Cardinality(S) \in Nat
  BY FS_Subset, FS_CardinalityType
<1>2. 0 \in Ns
  <2>1. ASSUME NEW S \in Sized(0) PROVE S \in Good
    <3>1. S = {} BY <1>1, FS_EmptySet
    <3> QED BY <3>1
  <2> QED BY <2>1
<1>3. ASSUME NEW n \in Nat, n \in Ns PROVE n + 1 \in Ns
  <2>1. ASSUME NEW S \in Sized(n + 1) PROVE S \in Good
    <3>1. IsFiniteSet(S) /\ Cardinality(S) = n + 1 BY <1>1
    <3>2. S # {} BY <3>1, FS_EmptySet
    <3>3. ASSUME NEW x \in S PROVE S \ {x} \in Good
      <4>1. Cardinality(S \ {x}) = Cardinality(S) - 1 BY <3>1, FS_RemoveElement
      <4>2. Cardinality(S \ {x}) = n BY <3>1, <4>1
      <4> QED BY <4>2, <1>3
    <3> QED BY <3>2, <3>3
  <2> QED BY <2>1
<1> HIDE DEF Sized
<1>4. Nat \subseteq Ns
  <2> HIDE DEF Ns
  <2> QED BY <1>2, <1>3, FromNaught
<1> QED BY <1>1, <1>4 DEF Sized

----------------------------------------------------------------------------
(* Orders: before is a set of pairs that sets the members of D in a line.  *)
InLine(D, before) ==
    /\ \A x, y \in D : x # y => <<x, y>> \in before \/ <<y, x>> \in before
    /\ \A x, y \in D : <<x, y>> \in before => <<y, x>> \notin before
    /\ \A x, y, z \in D : <<x, y>> \in before /\ <<y, z>> \in before => <<x, z>> \in before

\* Each place in the line is somebody's, and nobody else's.
LEMMA PlacesInLine ==
    ASSUME NEW D, IsFiniteSet(D), NEW before, InLine(D, before),
           NEW place, place = [x \in D |-> Cardinality({y \in D : <<y, x>> \in before})]
    PROVE  /\ place \in Bijection(D, 0..(Cardinality(D) - 1))
           /\ \A x, y \in D : <<x, y>> \in before <=> place[x] < place[y]
<1> DEFINE c == Cardinality(D)
           Ahead(x) == {y \in D : <<y, x>> \in before}
<1>1. c \in Nat BY FS_CardinalityType
<1>2. ASSUME NEW x \in D
      PROVE  IsFiniteSet(Ahead(x)) /\ Cardinality(Ahead(x)) \in 0..(c - 1)
  <2>1. Ahead(x) \subseteq D /\ x \notin Ahead(x) BY DEF InLine
  <2>2. /\ IsFiniteSet(Ahead(x)) /\ Cardinality(Ahead(x)) <= c
        /\ c = Cardinality(Ahead(x)) => D = Ahead(x)
    BY <2>1, FS_Subset
  <2>3. Cardinality(Ahead(x)) \in Nat BY <2>2, FS_CardinalityType
  <2>4. Cardinality(Ahead(x)) # c BY <2>1, <2>2
  <2> QED BY <1>1, <2>2, <2>3, <2>4
<1>3. \A x \in D : place[x] = Cardinality(Ahead(x)) OBVIOUS
<1>4. ASSUME NEW x \in D, NEW y \in D, <<x, y>> \in before PROVE place[x] < place[y]
  <2>1. Ahead(x) \subseteq Ahead(y) /\ x \in Ahead(y) /\ x \notin Ahead(x)
    BY <1>4 DEF InLine
  <2>2. /\ Cardinality(Ahead(x)) <= Cardinality(Ahead(y))
        /\ Cardinality(Ahead(y)) = Cardinality(Ahead(x)) => Ahead(y) = Ahead(x)
    BY <2>1, <1>2, FS_Subset
  <2>3. Cardinality(Ahead(x)) # Cardinality(Ahead(y)) BY <2>1, <2>2
  <2>4. PICK a, b : a = Cardinality(Ahead(x)) /\ b = Cardinality(Ahead(y)) OBVIOUS
  <2>5. a \in Int /\ b \in Int
    <3>1. a \in 0..(c - 1) BY <1>2, <1>4, <2>4
    <3>2. b \in 0..(c - 1) BY <1>2, <1>4, <2>4
    <3> QED BY ONLY <3>1, <3>2, <1>1
  <2>6. a <= b /\ a # b BY <2>2, <2>3, <2>4
  <2>7. a < b BY ONLY <2>5, <2>6
  <2> QED BY <2>4, <2>7, <1>3
<1>5. \A x \in D : place[x] \in 0..(c - 1) BY <1>2, <1>3
<1>6. \A x, y \in D : x # y => place[x] # place[y]
  <2>0. SUFFICES ASSUME NEW x \in D, NEW y \in D, x # y PROVE place[x] # place[y] OBVIOUS
  <2>1. place[x] < place[y] \/ place[y] < place[x] BY <2>0, <1>4 DEF InLine
  <2>2. place[x] \in Int /\ place[y] \in Int BY <2>0, <1>5, <1>1
  <2> QED BY ONLY <2>1, <2>2
<1>7. place \in [D -> 0..(c - 1)] BY <1>5
<1> HIDE DEF Ahead
<1>8. place \in Injection(D, 0..(c - 1)) BY <1>6, <1>7 DEF Injection, IsInjective
<1>9. IsFiniteSet(0..(c - 1)) /\ Cardinality(0..(c - 1)) = c
  <2>1. 0 \in Int /\ c - 1 \in Int /\ (0 > c - 1 => c = 0) /\ (c - 1) - 0 + 1 = c
    BY ONLY <1>1
  <2> QED BY ONLY <2>1, FS_Interval
<1>10. place \in Surjection(D, 0..(c - 1)) BY <1>8, <1>9, FS_Injection
<1>11. place \in Bijection(D, 0..(c - 1)) BY <1>8, <1>10 DEF Bijection
<1>12. \A x, y \in D : place[x] < place[y] => <<x, y>> \in before
  <2>0. SUFFICES ASSUME NEW x \in D, NEW y \in D, place[x] < place[y], <<x, y>> \notin before
        PROVE FALSE OBVIOUS
  <2>1. x # y
    <3>1. place[x] \in Int BY <2>0, <1>5, <1>1
    <3> QED BY <2>0, <3>1
  <2>2. place[y] < place[x] BY <2>0, <2>1, <1>4 DEF InLine
  <2>3. place[x] \in Int /\ place[y] \in Int BY <2>0, <1>5, <1>1
  <2> QED BY <2>0, <2>2, <2>3
<1> QED BY <1>11, <1>4, <1>12

\* Who stands at a place, read off the line.
LineOf(D, before) ==
    [n \in 1..Cardinality(D) |->
       CHOOSE x \in D : Cardinality({y \in D : <<y, x>> \in before}) = n - 1]

\* The line has everybody in it, each in his place.
LEMMA LineUp ==
    ASSUME NEW D, IsFiniteSet(D), NEW before, InLine(D, before),
           NEW line, line = LineOf(D, before)
    PROVE  /\ line \in Bijection(1..Cardinality(D), D)
           /\ \A m, n \in 1..Cardinality(D) : m < n <=> <<line[m], line[n]>> \in before
<1> DEFINE c == Cardinality(D)
<1>1. c \in Nat BY FS_CardinalityType
<1>2. PICK place : place = [x \in D |-> Cardinality({y \in D : <<y, x>> \in before})]
  OBVIOUS
<1>3. /\ place \in Bijection(D, 0..(c - 1))
      /\ \A x, y \in D : <<x, y>> \in before <=> place[x] < place[y]
  BY <1>2, PlacesInLine
<1>4. ASSUME NEW n \in 1..c PROVE line[n] \in D /\ place[line[n]] = n - 1
  <2>1. n - 1 \in 0..(c - 1) BY <1>1
  <2>2. PICK x \in D : place[x] = n - 1 BY <2>1, <1>3 DEF Bijection, Surjection
  <2>3. Cardinality({y \in D : <<y, x>> \in before}) = n - 1 BY <1>2, <2>2
  <2>4. line[n] = CHOOSE z \in D : Cardinality({y \in D : <<y, z>> \in before}) = n - 1
    BY DEF LineOf
  <2>5. line[n] \in D /\ Cardinality({y \in D : <<y, line[n]>> \in before}) = n - 1
    BY <2>3, <2>4
  <2> QED BY <2>5, <1>2
<1>5. DOMAIN line = 1..c BY DEF LineOf
<1>e. line = [n \in 1..c |-> line[n]]
  <2> DEFINE At(n) == CHOOSE x \in D : Cardinality({y \in D : <<y, x>> \in before}) = n - 1
  <2>1. line = [n \in 1..c |-> At(n)] BY DEF LineOf
  <2> HIDE DEF At
  <2> QED BY <2>1
<1>6. line \in [1..c -> D] BY <1>4, <1>5, <1>e
<1>7. \A m, n \in 1..c : m # n => line[m] # line[n]
  <2>0. SUFFICES ASSUME NEW m \in 1..c, NEW n \in 1..c, m # n PROVE line[m] # line[n] OBVIOUS
  <2>1. place[line[m]] = m - 1 /\ place[line[n]] = n - 1 BY <2>0, <1>4
  <2>2. m - 1 # n - 1 BY <2>0, <1>1
  <2> QED BY <2>1, <2>2
<1>8. \A x \in D : \E n \in 1..c : line[n] = x
  <2>0. SUFFICES ASSUME NEW x \in D PROVE \E n \in 1..c : line[n] = x OBVIOUS
  <2>1. place[x] \in 0..(c - 1) BY <1>3 DEF Bijection, Injection
  <2>2. place[x] + 1 \in 1..c /\ (place[x] + 1) - 1 = place[x] BY <2>1, <1>1
  <2>3. line[place[x] + 1] \in D /\ place[line[place[x] + 1]] = place[x] BY <2>2, <1>4
  <2>4. line[place[x] + 1] = x
    BY <2>3, <1>3 DEF Bijection, Injection, IsInjective
  <2> QED BY <2>2, <2>4
<1>9. line \in Bijection(1..c, D)
  BY <1>6, <1>7, <1>8 DEF Bijection, Injection, Surjection, IsInjective
<1>10. ASSUME NEW m \in 1..c, NEW n \in 1..c PROVE m < n <=> <<line[m], line[n]>> \in before
  <2>1. /\ line[m] \in D /\ line[n] \in D
        /\ place[line[m]] = m - 1 /\ place[line[n]] = n - 1 BY <1>4
  <2>2. m - 1 < n - 1 <=> m < n BY <1>1
  <2> QED BY <2>1, <2>2, <1>3
<1> QED BY <1>9, <1>10

\* A sequence of n that has the members of D in the order of the line.
Lined(line, n, D, before) ==
    /\ line \in [1..n -> D]
    /\ \A x \in D : \E k \in 1..n : line[k] = x
    /\ \A k, l \in 1..n : k < l => <<line[k], line[l]>> \in before

\* There is one way to stand in line.
LEMMA OneLine ==
    ASSUME NEW D, IsFiniteSet(D), NEW before, InLine(D, before),
           NEW n \in Nat, NEW line, Lined(line, n, D, before)
    PROVE  /\ n = Cardinality(D)
           /\ \A k \in 1..n : Cardinality({y \in D : <<y, line[k]>> \in before}) = k - 1
<1>0. /\ line \in [1..n -> D]
      /\ \A x \in D : \E k \in 1..n : line[k] = x
      /\ \A k, l \in 1..n : k < l => <<line[k], line[l]>> \in before
  BY DEF Lined
<1>1. \A k, l \in 1..n : line[k] = line[l] => k = l
  <2>0. SUFFICES ASSUME NEW k \in 1..n, NEW l \in 1..n, k # l PROVE line[k] # line[l] OBVIOUS
  <2>1. k < l \/ l < k BY <2>0
  <2>2. <<line[k], line[l]>> \in before \/ <<line[l], line[k]>> \in before BY <2>0, <2>1, <1>0
  <2>3. line[k] \in D /\ line[l] \in D BY <2>0, <1>0
  <2> QED BY <2>2, <2>3 DEF InLine
<1>2. line \in Bijection(1..n, D)
  BY <1>0, <1>1 DEF Bijection, Injection, Surjection, IsInjective
<1>3. n = Cardinality(D)
  <2>1. IsFiniteSet(1..n) /\ Cardinality(1..n) = n
    <3>1. 1 \in Int /\ n \in Int /\ (1 > n => n = 0) /\ n - 1 + 1 = n OBVIOUS
    <3> QED BY ONLY <3>1, FS_Interval
  <2> QED BY <1>2, <2>1, FS_Bijection DEF ExistsBijection
<1>4. ASSUME NEW k \in 1..n
      PROVE  Cardinality({y \in D : <<y, line[k]>> \in before}) = k - 1
  <2>1. {y \in D : <<y, line[k]>> \in before} = {line[m] : m \in 1..(k - 1)}
    <3>1. ASSUME NEW y \in D, <<y, line[k]>> \in before
          PROVE  \E m \in 1..(k - 1) : y = line[m]
      <4>1. PICK m \in 1..n : line[m] = y BY <3>1, <1>0
      <4>2. ~(k < m) /\ m # k
        <5>1. line[k] \in D /\ <<line[k], y>> \notin before BY <3>1, <1>4, <1>0 DEF InLine
        <5>2. <<line[k], line[k]>> \notin before BY <5>1 DEF InLine
        <5>3. k < m => <<line[k], y>> \in before BY <4>1, <1>4, <1>0
        <5>4. m = k => <<line[k], line[k]>> \in before BY <4>1, <3>1
        <5> QED BY <5>1, <5>2, <5>3, <5>4
      <4>3. m \in 1..(k - 1) BY <4>2, <1>4
      <4> QED BY <4>1, <4>3
    <3>2. ASSUME NEW m \in 1..(k - 1) PROVE line[m] \in D /\ <<line[m], line[k]>> \in before
      <4>1. m \in 1..n /\ m < k BY <1>4
      <4> QED BY <4>1, <1>4, <1>0
    <3> QED BY <3>1, <3>2
  <2>2. Cardinality({line[m] : m \in 1..(k - 1)}) = k - 1
    <3> DEFINE f == [m \in 1..(k - 1) |-> line[m]]
               T == {line[m] : m \in 1..(k - 1)}
    <3>1. 1..(k - 1) \subseteq 1..n BY <1>4
    <3>2. f \in Bijection(1..(k - 1), T)
      BY <1>0, <1>1, <3>1 DEF Bijection, Injection, Surjection, IsInjective
    <3>3. IsFiniteSet(1..(k - 1)) /\ Cardinality(1..(k - 1)) = k - 1
      <4>1. 1 \in Int /\ k - 1 \in Int /\ (1 > k - 1 => k - 1 = 0) /\ (k - 1) - 1 + 1 = k - 1
        BY <1>4
      <4> QED BY ONLY <4>1, FS_Interval
    <3> HIDE DEF f, T
    <3>4. ExistsBijection(1..(k - 1), T) BY <3>2 DEF ExistsBijection
    <3>5. Cardinality(T) = Cardinality(1..(k - 1)) BY <3>3, <3>4, FS_Bijection
    <3> QED BY <3>3, <3>5 DEF T
  <2> QED BY <2>1, <2>2
<1> QED BY <1>3, <1>4

\* Two who line up the same set by the same order make the same line.
LEMMA LinesAgree ==
    ASSUME NEW D, IsFiniteSet(D), NEW before, InLine(D, before),
           NEW n \in Nat, NEW f, Lined(f, n, D, before),
           NEW m \in Nat, NEW g, Lined(g, m, D, before)
    PROVE  n = m /\ f = g
<1>1. PICK place : place = [x \in D |-> Cardinality({y \in D : <<y, x>> \in before})]
  OBVIOUS
<1>2. /\ f \in [1..n -> D]
      /\ n = Cardinality(D)
      /\ \A k \in 1..n : Cardinality({y \in D : <<y, f[k]>> \in before}) = k - 1
  <2>1. f \in [1..n -> D] BY DEF Lined
  <2>2. n = Cardinality(D) BY OneLine
  <2>3. \A k \in 1..n : Cardinality({y \in D : <<y, f[k]>> \in before}) = k - 1
    BY OneLine
  <2> QED BY <2>1, <2>2, <2>3
<1>3. /\ g \in [1..m -> D]
      /\ m = Cardinality(D)
      /\ \A k \in 1..m : Cardinality({y \in D : <<y, g[k]>> \in before}) = k - 1
  <2>1. g \in [1..m -> D] BY DEF Lined
  <2>2. m = Cardinality(D) BY OneLine
  <2>3. \A k \in 1..m : Cardinality({y \in D : <<y, g[k]>> \in before}) = k - 1
    BY OneLine
  <2> QED BY <2>1, <2>2, <2>3
<1>4. place \in Bijection(D, 0..(Cardinality(D) - 1)) BY <1>1, PlacesInLine
<1>5. \A x, y \in D : place[x] = place[y] => x = y
  BY <1>4 DEF Bijection, Injection, IsInjective
<1>6. ASSUME NEW k \in 1..n PROVE f[k] = g[k]
  <2>1. f[k] \in D /\ g[k] \in D BY <1>2, <1>3
  <2>2. place[f[k]] = k - 1 /\ place[g[k]] = k - 1 BY <1>1, <1>2, <1>3, <2>1
  <2> QED BY <2>1, <2>2, <1>5
<1> QED BY <1>2, <1>3, <1>6

----------------------------------------------------------------------------
(* Sorting and filtering.  Who comes first of two positions is what before *)
(* says, and the order they have when it says nothing.                     *)
Turns(n, before) ==
    {p \in (1..n) \X (1..n) :
       p \in before \/ (<<p[2], p[1]>> \notin before /\ p[1] < p[2])}

\* Nothing is before what is before it, and being level with the same is being level.
Ranks(D, before) ==
    /\ \A x, y \in D : <<x, y>> \in before => <<y, x>> \notin before
    /\ \A x, y, z \in D : <<x, z>> \in before => <<x, y>> \in before \/ <<y, z>> \in before

\* Positions taken in their turns stand in a line.
LEMMA TurnsInLine ==
    ASSUME NEW n \in Nat, NEW before, Ranks(1..n, before)
    PROVE  InLine(1..n, Turns(n, before))
<1> DEFINE T == Turns(n, before)
<1>1. \A x, y \in 1..n : <<x, y>> \in T <=>
        (<<x, y>> \in before \/ (<<y, x>> \notin before /\ x < y))
  BY DEF Turns
<1> HIDE DEF T
<1>2. \A x, y \in 1..n : x # y => <<x, y>> \in T \/ <<y, x>> \in T BY <1>1
<1>3. \A x, y \in 1..n : <<x, y>> \in T => <<y, x>> \notin T BY <1>1 DEF Ranks
<1>4. ASSUME NEW x \in 1..n, NEW y \in 1..n, NEW z \in 1..n, <<x, y>> \in T, <<y, z>> \in T
      PROVE  <<x, z>> \in T
  <2>1. <<y, x>> \notin before /\ <<z, y>> \notin before BY <1>1, <1>4 DEF Ranks
  <2>2. <<z, x>> \notin before BY <2>1 DEF Ranks
  <2>3. CASE <<x, y>> \in before
    <3>1. <<x, z>> \in before \/ <<z, y>> \in before BY <2>3 DEF Ranks
    <3> QED BY <3>1, <2>1, <1>1
  <2>4. CASE <<y, z>> \in before
    <3>1. <<y, x>> \in before \/ <<x, z>> \in before BY <2>4 DEF Ranks
    <3> QED BY <3>1, <2>1, <1>1
  <2>5. CASE x < y /\ y < z
    <3>1. x < z BY <2>5
    <3> QED BY <3>1, <2>2, <1>1
  <2> QED BY <1>1, <1>4, <2>3, <2>4, <2>5
<1> QED BY <1>2, <1>3, <1>4 DEF InLine, T

\* The numbers from one to n are n.
LEMMA UpTo ==
    ASSUME NEW n \in Nat PROVE IsFiniteSet(1..n) /\ Cardinality(1..n) = n
<1>1. 1 \in Int /\ n \in Int /\ (1 > n => n = 0) /\ n - 1 + 1 = n OBVIOUS
<1> QED BY ONLY <1>1, FS_Interval

\* A sorted sequence has the elements of the one it was sorted from, each in its turn.
PutsInOrder(line, n, s, before) ==
    /\ line \in Bijection(1..n, 1..n)
    /\ Arranged(s, before) = [k \in 1..n |-> s[line[k]]]
    /\ \A k, l \in 1..n : k < l => <<line[k], line[l]>> \in Turns(n, before)

\* Sorting takes the positions in their turns.
LEMMA SortedByTurns ==
    ASSUME NEW n \in Nat, NEW s, DOMAIN s = 1..n, NEW before, Ranks(1..n, before)
    PROVE  \E line : PutsInOrder(line, n, s, before)
<1> DEFINE D == 1..n
           T == Turns(n, before)
           Ahead(i) == {j \in DOMAIN s : <<j, i>> \in before \/ (<<i, j>> \notin before /\ j < i)}
           Nth(k) == CHOOSE i \in DOMAIN s : Cardinality(Ahead(i)) = k - 1
           Th(k) == CHOOSE x \in D : Cardinality({y \in D : <<y, x>> \in T}) = k - 1
<1>1. InLine(D, T) BY TurnsInLine
<1>2. IsFiniteSet(D) /\ Cardinality(D) = n BY UpTo
<1>3. \A i \in D : Ahead(i) = {y \in D : <<y, i>> \in T} BY DEF Turns
<1>4. \A k : Nth(k) = Th(k)
  <2> HIDE DEF Ahead, T
  <2> QED BY <1>3
<1>5. PICK line : line = [k \in 1..Cardinality(D) |-> Th(k)] OBVIOUS
<1>12. line = LineOf(D, T) BY <1>5 DEF LineOf
<1>6. /\ line \in Bijection(1..Cardinality(D), D)
      /\ \A k, l \in 1..Cardinality(D) : k < l <=> <<line[k], line[l]>> \in T
  <2> HIDE DEF T
  <2>1. line \in Bijection(1..Cardinality(D), D) BY <1>1, <1>2, <1>12, LineUp
  <2>2. \A k, l \in 1..Cardinality(D) : k < l <=> <<line[k], line[l]>> \in T
    BY <1>1, <1>2, <1>12, LineUp
  <2> QED BY <2>1, <2>2
<1>7. Arranged(s, before) = [k \in DOMAIN s |-> s[Nth(k)]]
  BY DEF Arranged
<1>8. \A k \in D : line[k] = Nth(k)
  <2> HIDE DEF Nth, Th, D
  <2> QED BY <1>2, <1>4, <1>5 DEF D
<1>9. Arranged(s, before) = [k \in 1..n |-> s[line[k]]]
  <2> HIDE DEF Nth
  <2> QED BY <1>7, <1>8
<1>10. \A k, l \in 1..n : k < l => <<line[k], line[l]>> \in T
  <2> HIDE DEF T
  <2> QED BY <1>6, <1>2
<1>11. line \in Bijection(1..n, 1..n) BY <1>6, <1>2
<1>13. PutsInOrder(line, n, s, before)
  <2> HIDE DEF T
  <2> QED BY <1>9, <1>10, <1>11 DEF PutsInOrder, T
<1> QED BY <1>13

\* What a filter keeps, in the order it was in.
Keeps(line, c, s, positions) ==
    /\ line \in Bijection(1..c, positions)
    /\ Selected(s, positions) = [k \in 1..c |-> s[line[k]]]
    /\ \A k, l \in 1..c : k < l => line[k] < line[l]

\* A filter takes the positions it keeps from the lowest up.
LEMMA SelectedInOrder ==
    ASSUME NEW n \in Nat, NEW s, NEW positions \in SUBSET (1..n),
           NEW c, c = Cardinality(positions)
    PROVE  \E line : Keeps(line, c, s, positions)
<1> DEFINE U == {p \in positions \X positions : p[1] < p[2]}
           Nth(k) == CHOOSE i \in positions : Cardinality({j \in positions : j < i}) = k - 1
           Th(k) == CHOOSE x \in positions : Cardinality({y \in positions : <<y, x>> \in U}) = k - 1
<1>1. IsFiniteSet(positions)
  <2>1. IsFiniteSet(1..n) BY UpTo
  <2> QED BY <2>1, FS_Subset
<1>2. positions \subseteq Int OBVIOUS
<1>3. \A x, y \in positions : <<x, y>> \in U <=> x < y OBVIOUS
<1>4. InLine(positions, U) BY <1>2, <1>3 DEF InLine
<1>5. \A i \in positions : {j \in positions : j < i} = {y \in positions : <<y, i>> \in U}
  BY <1>3
<1> HIDE DEF U
<1>6. \A k : Nth(k) = Th(k) BY <1>5
<1>7. PICK line : line = [k \in 1..c |-> Th(k)] OBVIOUS
<1>13. line = LineOf(positions, U) BY <1>7 DEF LineOf
<1>8. /\ line \in Bijection(1..c, positions)
      /\ \A k, l \in 1..c : k < l <=> <<line[k], line[l]>> \in U
  <2>1. line \in Bijection(1..c, positions) BY <1>1, <1>4, <1>13, LineUp
  <2>2. \A k, l \in 1..c : k < l <=> <<line[k], line[l]>> \in U
    BY <1>1, <1>4, <1>13, LineUp
  <2> QED BY <2>1, <2>2
<1>9. \A k, l \in 1..c : k < l => line[k] < line[l]
  BY <1>8, <1>3 DEF Bijection, Injection
<1>10. Selected(s, positions) = [k \in 1..c |-> s[Nth(k)]] BY DEF Selected
<1>11. \A k \in 1..c : line[k] = Nth(k)
  <2> HIDE DEF Nth, Th
  <2> QED BY <1>6, <1>7
<1>12. Selected(s, positions) = [k \in 1..c |-> s[line[k]]]
  <2> HIDE DEF Nth
  <2> QED BY <1>10, <1>11
<1>14. Keeps(line, c, s, positions) BY <1>8, <1>9, <1>12 DEF Keeps
<1> QED BY <1>14

----------------------------------------------------------------------------
(* Sums.                                                                   *)
Integral(v, S) == \A x \in S : v[x] \in Int

\* tally has the sum over every subset of S, however its members are taken.
Tally(v, S, tally) ==
    /\ tally \in [SUBSET S -> Int]
    /\ tally[{}] = 0
    /\ \A T \in SUBSET S : \A x \in T : tally[T] = v[x] + tally[T \ {x}]

\* A sum can be taken element by element.
LEMMA TallyExists ==
    ASSUME NEW D, IsFiniteSet(D), NEW v, Integral(v, D)
    PROVE  \E tally : Tally(v, D, tally)
<1> DEFINE Good == {S \in SUBSET D : \E tally : Tally(v, S, tally)}
<1>1. {} \in Good
  <2> DEFINE t == [T \in SUBSET {} |-> 0]
  <2>1. t \in [SUBSET {} -> Int] /\ t[{}] = 0 OBVIOUS
  <2>2. \A T \in SUBSET {} : \A x \in T : t[T] = v[x] + t[T \ {x}] OBVIOUS
  <2>3. Tally(v, {}, t) BY <2>1, <2>2 DEF Tally
  <2> QED BY <2>3
<1>2. ASSUME NEW S \in SUBSET D, S # {}, \A x \in S : S \ {x} \in Good PROVE S \in Good
  <2>1. PICK x : x \in S BY <1>2
  <2>2. PICK t : Tally(v, S \ {x}, t) BY <1>2, <2>1
  <2>3. /\ t \in [SUBSET (S \ {x}) -> Int] /\ t[{}] = 0
        /\ \A T \in SUBSET (S \ {x}) : \A y \in T : t[T] = v[y] + t[T \ {y}]
    BY <2>2 DEF Tally
  <2> DEFINE u == [T \in SUBSET S |-> IF x \in T THEN v[x] + t[T \ {x}] ELSE t[T]]
  <2>4. v[x] \in Int BY <2>1, <1>2 DEF Integral
  <2>5. ASSUME NEW T \in SUBSET S PROVE u[T] \in Int
    <3>1. T \ {x} \in SUBSET (S \ {x}) OBVIOUS
    <3>2. t[T \ {x}] \in Int BY <2>3, <3>1
    <3>3. x \notin T => T \in SUBSET (S \ {x}) OBVIOUS
    <3> QED BY <2>3, <2>4, <3>2, <3>3
  <2>6. u \in [SUBSET S -> Int]
    <3> DEFINE Of(T) == IF x \in T THEN v[x] + t[T \ {x}] ELSE t[T]
    <3>1. \A T \in SUBSET S : Of(T) \in Int BY <2>5
    <3> HIDE DEF Of
    <3>2. [T \in SUBSET S |-> Of(T)] \in [SUBSET S -> Int] BY <3>1
    <3> QED BY <3>2 DEF Of
  <2>7. u[{}] = 0 BY <2>3
  <2>8. ASSUME NEW T \in SUBSET S, NEW y \in T PROVE u[T] = v[y] + u[T \ {y}]
    <3>1. CASE x \notin T
      <4>1. T \in SUBSET (S \ {x}) /\ T \ {y} \in SUBSET S /\ x \notin T \ {y} BY <3>1
      <4>2. t[T] = v[y] + t[T \ {y}] BY <4>1, <2>3, <2>8
      <4>3. u[T] = t[T] BY <3>1
      <4>4. u[T \ {y}] = t[T \ {y}] BY <4>1
      <4> QED BY <4>2, <4>3, <4>4
    <3>2. CASE x \in T /\ y = x
      <4>1. T \ {y} \in SUBSET S /\ x \notin T \ {y} BY <3>2
      <4>2. u[T] = v[x] + t[T \ {x}] BY <3>2
      <4>3. u[T \ {y}] = t[T \ {y}] BY <4>1
      <4> QED BY <4>2, <4>3, <3>2
    <3>3. CASE x \in T /\ y # x
      <4>1. T \ {x} \in SUBSET (S \ {x}) /\ y \in T \ {x} BY <3>3, <2>8
      <4>2. t[T \ {x}] = v[y] + t[(T \ {x}) \ {y}] BY <4>1, <2>3
      <4>3. T \ {y} \in SUBSET S /\ x \in T \ {y} BY <3>3
      <4>4. u[T] = v[x] + t[T \ {x}] BY <3>3
      <4>5. u[T \ {y}] = v[x] + t[(T \ {y}) \ {x}] BY <4>3
      <4>6. (T \ {x}) \ {y} = (T \ {y}) \ {x} OBVIOUS
      <4>7. (T \ {y}) \ {x} \in SUBSET (S \ {x}) OBVIOUS
      <4>8. PICK a : a = t[(T \ {y}) \ {x}] OBVIOUS
      <4>9. a \in Int BY <2>3, <4>7, <4>8
      <4>10. v[y] \in Int BY <2>8 DEF Integral
      <4>11. t[T \ {x}] = v[y] + a BY <4>2, <4>6, <4>8
      <4>12. u[T] = v[x] + (v[y] + a) BY <4>4, <4>11
      <4>13. u[T \ {y}] = v[x] + a BY <4>5, <4>8
      <4>14. PICK p, q : p = v[x] /\ q = v[y] OBVIOUS
      <4>15. p + (q + a) = q + (p + a) BY ONLY <2>4, <4>9, <4>10, <4>14
      <4> QED BY <4>12, <4>13, <4>14, <4>15
    <3> QED BY <3>1, <3>2, <3>3
  <2> HIDE DEF u
  <2>9. Tally(v, S, u) BY <2>6, <2>7, <2>8 DEF Tally
  <2> QED BY <2>9
<1> HIDE DEF Good
<1>3. \A T \in SUBSET D : T \in Good BY <1>1, <1>2, ByRemoval
<1> QED BY <1>3 DEF Good

\* The sum the community module computes is the tally.
LEMMA SumIsTally ==
    ASSUME NEW D, IsFiniteSet(D), NEW v, Integral(v, D), NEW tally, Tally(v, D, tally)
    PROVE  SumFunctionOnSet(v, D) = tally[D]
<1> DEFINE Step(it, S) == IF S = {} THEN 0
                          ELSE v[CHOOSE x \in S : TRUE] + it[S \ {CHOOSE x \in S : TRUE}]
           Iter(it) == it = [S \in SUBSET D |-> Step(it, S)]
<1>1. PICK it : it = CHOOSE i : Iter(i) OBVIOUS
<1>2. SumFunctionOnSet(v, D) = it[D]
  BY <1>1 DEF SumFunctionOnSet, FoldFunctionOnSet, MapThenFoldSet
<1>0. /\ tally \in [SUBSET D -> Int] /\ tally[{}] = 0
      /\ \A T \in SUBSET D : \A x \in T : tally[T] = v[x] + tally[T \ {x}]
  BY DEF Tally
<1>3. \A S \in SUBSET D : tally[S] = Step(tally, S)
  <2> SUFFICES ASSUME NEW S \in SUBSET D PROVE tally[S] = Step(tally, S) OBVIOUS
  <2>1. CASE S = {} BY <2>1, <1>0
  <2>2. CASE S # {}
    <3>1. (CHOOSE x \in S : TRUE) \in S BY <2>2
    <3> QED BY <3>1, <2>2, <1>0
  <2> QED BY <2>1, <2>2
<1>4. Iter(tally)
  <2>1. tally = [S \in SUBSET D |-> tally[S]] BY <1>0
  <2> HIDE DEF Step
  <2> QED BY <2>1, <1>3
<1>5. Iter(it)
  <2> HIDE DEF Iter
  <2> QED BY <1>1, <1>4
<1>6. \A S \in SUBSET D : it[S] = Step(it, S)
  <2> HIDE DEF Step
  <2> QED BY <1>5
<1> DEFINE Good == {S \in SUBSET D : it[S] = tally[S]}
<1>7. {} \in Good BY <1>6, <1>0
<1>8. ASSUME NEW S \in SUBSET D, S # {}, \A x \in S : S \ {x} \in Good PROVE S \in Good
  <2>1. PICK c : c = CHOOSE x \in S : TRUE OBVIOUS
  <2>2. c \in S BY <1>8, <2>1
  <2>3. it[S] = v[c] + it[S \ {c}] BY <1>6, <1>8, <2>1
  <2>4. tally[S] = v[c] + tally[S \ {c}] BY <1>0, <2>2
  <2>5. it[S \ {c}] = tally[S \ {c}] BY <1>8, <2>2
  <2> QED BY <2>3, <2>4, <2>5
<1> HIDE DEF Good
<1>9. \A T \in SUBSET D : T \in Good BY <1>7, <1>8, ByRemoval
<1> QED BY <1>2, <1>9 DEF Good

\* Nothing comes to nothing.
LEMMA SumOfNothing ==
    ASSUME NEW v PROVE SumFunctionOnSet(v, {}) = 0
<1>1. IsFiniteSet({}) BY FS_EmptySet
<1>2. Integral(v, {}) BY DEF Integral
<1>3. PICK tally : Tally(v, {}, tally) BY <1>1, <1>2, TallyExists
<1>4. SumFunctionOnSet(v, {}) = tally[{}] BY <1>1, <1>2, <1>3, SumIsTally
<1> QED BY <1>3, <1>4 DEF Tally

\* Any member may be taken out of the sum.
LEMMA SumTakingOut ==
    ASSUME NEW S, IsFiniteSet(S), NEW v, Integral(v, S), NEW x \in S
    PROVE  /\ SumFunctionOnSet(v, S) \in Int
           /\ SumFunctionOnSet(v, S \ {x}) \in Int
           /\ SumFunctionOnSet(v, S) = v[x] + SumFunctionOnSet(v, S \ {x})
<1> DEFINE R == S \ {x}
<1>1. PICK tally : Tally(v, S, tally) BY TallyExists
<1>0. /\ tally \in [SUBSET S -> Int] /\ tally[{}] = 0
      /\ \A T \in SUBSET S : \A y \in T : tally[T] = v[y] + tally[T \ {y}]
  BY <1>1 DEF Tally
<1>2. SumFunctionOnSet(v, S) = tally[S] BY <1>1, SumIsTally
<1>3. IsFiniteSet(R) BY FS_Subset
<1>4. Integral(v, R) BY DEF Integral
<1>5. PICK sub : sub = [T \in SUBSET R |-> tally[T]] OBVIOUS
<1>6. Tally(v, R, sub)
  <2>1. SUBSET R \subseteq SUBSET S OBVIOUS
  <2>2. \A T \in SUBSET R : sub[T] = tally[T] /\ tally[T] \in Int BY <1>5, <1>0, <2>1
  <2>3. sub \in [SUBSET R -> Int]
    <3> HIDE DEF R
    <3> QED BY <1>5, <2>2
  <2>4. ASSUME NEW T \in SUBSET R, NEW y \in T PROVE sub[T] = v[y] + sub[T \ {y}]
    <3>1. T \ {y} \in SUBSET R /\ T \in SUBSET S OBVIOUS
    <3>2. tally[T] = v[y] + tally[T \ {y}] BY <1>0, <3>1, <2>4
    <3> QED BY <3>1, <3>2, <2>2
  <2>5. {} \in SUBSET R OBVIOUS
  <2> QED BY <2>2, <2>3, <2>4, <2>5, <1>0 DEF Tally
<1>7. SumFunctionOnSet(v, R) = sub[R]
  <2> HIDE DEF R
  <2> QED BY <1>3, <1>4, <1>6, SumIsTally
<1>8. sub[R] = tally[R] BY <1>5
<1>9. tally[S] = v[x] + tally[R] BY <1>0
<1>10. tally[S] \in Int /\ tally[R] \in Int BY <1>0
<1> QED BY <1>2, <1>7, <1>8, <1>9, <1>10

\* Whole numbers come to a whole number.
LEMMA SumType ==
    ASSUME NEW S, IsFiniteSet(S), NEW v, Integral(v, S)
    PROVE  SumFunctionOnSet(v, S) \in Int
<1>1. CASE S = {} BY <1>1, SumOfNothing
<1>2. CASE S # {}
  <2>1. PICK x : x \in S BY <1>2
  <2> QED BY <2>1, SumTakingOut
<1> QED BY <1>1, <1>2

\* A sum is about the summands.
LEMMA SumOfSame ==
    ASSUME NEW D, IsFiniteSet(D), NEW v, Integral(v, D), NEW w, \A x \in D : w[x] = v[x]
    PROVE  SumFunctionOnSet(w, D) = SumFunctionOnSet(v, D)
<1>1. Integral(w, D) BY DEF Integral
<1>2. PICK tally : Tally(v, D, tally) BY TallyExists
<1>3. Tally(w, D, tally) BY <1>2 DEF Tally
<1>4. SumFunctionOnSet(v, D) = tally[D] BY <1>2, SumIsTally
<1>5. SumFunctionOnSet(w, D) = tally[D] BY <1>1, <1>3, SumIsTally
<1> QED BY <1>4, <1>5

\* A sum of sums is the sum of the two.
LEMMA SumOfSums ==
    ASSUME NEW D, IsFiniteSet(D), NEW v, Integral(v, D), NEW w, Integral(w, D),
           NEW u, \A x \in D : u[x] = v[x] + w[x]
    PROVE  SumFunctionOnSet(u, D) = SumFunctionOnSet(v, D) + SumFunctionOnSet(w, D)
<1>1. Integral(u, D) BY DEF Integral
<1>2. PICK s : Tally(v, D, s) BY TallyExists
<1>3. PICK t : Tally(w, D, t) BY TallyExists
<1>4. PICK r : r = [T \in SUBSET D |-> s[T] + t[T]] OBVIOUS
<1>5. /\ s \in [SUBSET D -> Int] /\ s[{}] = 0
      /\ \A T \in SUBSET D : \A x \in T : s[T] = v[x] + s[T \ {x}]
  BY <1>2 DEF Tally
<1>6. /\ t \in [SUBSET D -> Int] /\ t[{}] = 0
      /\ \A T \in SUBSET D : \A x \in T : t[T] = w[x] + t[T \ {x}]
  BY <1>3 DEF Tally
<1>7. ASSUME NEW T \in SUBSET D, NEW x \in T PROVE r[T] = u[x] + r[T \ {x}]
  <2>1. T \ {x} \in SUBSET D /\ x \in D OBVIOUS
  <2>2. r[T] = s[T] + t[T] /\ r[T \ {x}] = s[T \ {x}] + t[T \ {x}] BY <1>4, <2>1
  <2>3. s[T] = v[x] + s[T \ {x}] /\ t[T] = w[x] + t[T \ {x}] BY <1>5, <1>6, <1>7
  <2>4. u[x] = v[x] + w[x] BY <2>1
  <2>5. PICK a, b, c, d : a = v[x] /\ b = w[x] /\ c = s[T \ {x}] /\ d = t[T \ {x}] OBVIOUS
  <2>6. a \in Int /\ b \in Int BY <2>1, <2>5 DEF Integral
  <2>7. c \in Int /\ d \in Int BY <2>1, <2>5, <1>5, <1>6
  <2>8. (a + c) + (b + d) = (a + b) + (c + d) BY ONLY <2>6, <2>7
  <2> QED BY <2>2, <2>3, <2>4, <2>5, <2>8
<1>8. r \in [SUBSET D -> Int] /\ r[{}] = 0 BY <1>4, <1>5, <1>6
<1>9. Tally(u, D, r) BY <1>7, <1>8 DEF Tally
<1>10. SumFunctionOnSet(u, D) = r[D] BY <1>1, <1>9, SumIsTally
<1>11. SumFunctionOnSet(v, D) = s[D] BY <1>2, SumIsTally
<1>12. SumFunctionOnSet(w, D) = t[D] BY <1>3, SumIsTally
<1> QED BY <1>4, <1>10, <1>11, <1>12

\* What is summed under other names comes to the same.
LEMMA SumRenamed ==
    ASSUME NEW A, IsFiniteSet(A), NEW B, NEW b \in Bijection(A, B), IsFiniteSet(B),
           NEW v, Integral(v, B), NEW w, \A x \in A : w[x] = v[b[x]]
    PROVE  SumFunctionOnSet(w, A) = SumFunctionOnSet(v, B)
<1> DEFINE To(T) == {b[x] : x \in T}
<1>0. /\ \A x \in A : b[x] \in B
      /\ \A x, y \in A : b[x] = b[y] => x = y
      /\ To(A) = B
  BY DEF Bijection, Injection, Surjection, IsInjective
<1>1. Integral(w, A) BY <1>0 DEF Integral
<1>2. PICK t : Tally(v, B, t) BY TallyExists
<1>3. PICK r : r = [T \in SUBSET A |-> t[To(T)]] OBVIOUS
<1>4. /\ t \in [SUBSET B -> Int] /\ t[{}] = 0
      /\ \A T \in SUBSET B : \A x \in T : t[T] = v[x] + t[T \ {x}]
  BY <1>2 DEF Tally
<1>5. ASSUME NEW T \in SUBSET A PROVE To(T) \in SUBSET B BY <1>0
<1>6. ASSUME NEW T \in SUBSET A, NEW x \in T PROVE r[T] = w[x] + r[T \ {x}]
  <2>1. To(T \ {x}) = To(T) \ {b[x]} BY <1>0, <1>6
  <2>2. b[x] \in To(T) /\ T \ {x} \in SUBSET A OBVIOUS
  <2>3. r[T] = t[To(T)] /\ r[T \ {x}] = t[To(T \ {x})]
    <3> HIDE DEF To
    <3> QED BY <1>3, <2>2
  <2>4. t[To(T)] = v[b[x]] + t[To(T) \ {b[x]}]
    <3>1. To(T) \in SUBSET B BY <1>5
    <3> HIDE DEF To
    <3> QED BY <1>4, <2>2, <3>1
  <2>5. w[x] = v[b[x]] OBVIOUS
  <2> HIDE DEF To
  <2> QED BY <2>1, <2>3, <2>4, <2>5
<1>7. r \in [SUBSET A -> Int]
  <2>1. \A T \in SUBSET A : t[To(T)] \in Int
    <3> HIDE DEF To
    <3> QED BY <1>4, <1>5
  <2> HIDE DEF To
  <2> QED BY <1>3, <2>1
<1>8. r[{}] = 0
  <2>1. To({}) = {} OBVIOUS
  <2> HIDE DEF To
  <2> QED BY <1>3, <1>4, <2>1
<1>9. Tally(w, A, r) BY <1>6, <1>7, <1>8 DEF Tally
<1>10. SumFunctionOnSet(w, A) = r[A] BY <1>1, <1>9, SumIsTally
<1>11. SumFunctionOnSet(v, B) = t[B] BY <1>2, SumIsTally
<1>12. r[A] = t[B]
  <2> HIDE DEF To
  <2> QED BY <1>0, <1>3
<1> QED BY <1>10, <1>11, <1>12

\* What two sets apart come to.
LEMMA SumOfDisjoint ==
    ASSUME NEW A, IsFiniteSet(A), NEW B, IsFiniteSet(B), A \cap B = {},
           NEW v, Integral(v, A \cup B)
    PROVE  SumFunctionOnSet(v, A \cup B) = SumFunctionOnSet(v, A) + SumFunctionOnSet(v, B)
<1> DEFINE Sum(T) == SumFunctionOnSet(v, T)
           Good == {T \in SUBSET B : Sum(A \cup T) = Sum(A) + Sum(T)}
<1>0. ASSUME NEW T \in SUBSET B
      PROVE  /\ IsFiniteSet(T) /\ IsFiniteSet(A \cup T)
             /\ Integral(v, A) /\ Integral(v, T) /\ Integral(v, A \cup T)
  <2>1. IsFiniteSet(T) BY FS_Subset
  <2>2. IsFiniteSet(A \cup T) BY <2>1, FS_Union
  <2> QED BY <2>1, <2>2 DEF Integral
<1>1. {} \in Good
  <2>1. A \cup {} = A OBVIOUS
  <2>2. Sum(A) \in Int BY <1>0, SumType
  <2>3. Sum({}) = 0 BY SumOfNothing
  <2> HIDE DEF Sum
  <2>4. Sum(A) = Sum(A) + 0 BY <2>2
  <2> QED BY <2>1, <2>3, <2>4
<1>2. ASSUME NEW T \in SUBSET B, T # {}, \A x \in T : T \ {x} \in Good PROVE T \in Good
  <2>1. PICK x : x \in T BY <1>2
  <2>2. (A \cup T) \ {x} = A \cup (T \ {x}) BY <2>1
  <2>3. Sum(T) = v[x] + Sum(T \ {x}) BY <1>0, <2>1, SumTakingOut
  <2>4. Sum(A \cup T) = v[x] + Sum((A \cup T) \ {x})
    <3>1. x \in A \cup T BY <2>1
    <3> QED BY <1>0, <3>1, SumTakingOut
  <2>5. Sum(A \cup (T \ {x})) = Sum(A) + Sum(T \ {x}) BY <1>2, <2>1
  <2>6. Sum(A) \in Int /\ Sum(T \ {x}) \in Int
    <3>1. T \ {x} \in SUBSET B OBVIOUS
    <3> QED BY <1>0, <3>1, SumType
  <2>7. v[x] \in Int BY <2>1 DEF Integral
  <2> HIDE DEF Sum
  <2>8. PICK p, q, r : p = Sum(A) /\ q = Sum(T \ {x}) /\ r = v[x] OBVIOUS
  <2>9. r + (p + q) = p + (r + q) BY ONLY <2>6, <2>7, <2>8
  <2> QED BY <2>2, <2>3, <2>4, <2>5, <2>8, <2>9
<1> HIDE DEF Good
<1>3. B \in Good BY <1>1, <1>2, ByRemoval
<1> QED BY <1>3 DEF Good

\* The members that have a place.
Placed(S, part, k) == {x \in S : part[x] = k}

\* The parts of a set, by the place each member has, come to the whole.
LEMMA SumOfParts ==
    ASSUME NEW S, IsFiniteSet(S), NEW K, IsFiniteSet(K), NEW part, \A x \in S : part[x] \in K,
           NEW v, Integral(v, S),
           NEW w, \A k \in K : w[k] = SumFunctionOnSet(v, Placed(S, part, k))
    PROVE  SumFunctionOnSet(w, K) = SumFunctionOnSet(v, S)
<1> DEFINE Of(L) == {x \in S : part[x] \in L}
           At(k) == Placed(S, part, k)
           Good == {L \in SUBSET K : SumFunctionOnSet(w, L) = SumFunctionOnSet(v, Of(L))}
<1>0. ASSUME NEW T \in SUBSET S PROVE IsFiniteSet(T) /\ Integral(v, T)
  BY FS_Subset DEF Integral
<1>w. Integral(w, K)
  <2>1. ASSUME NEW k \in K PROVE w[k] \in Int
    <3>1. At(k) \in SUBSET S BY DEF Placed
    <3>2. SumFunctionOnSet(v, At(k)) \in Int
      <4> HIDE DEF At
      <4> QED BY <3>1, <1>0, SumType
    <3> QED BY <3>2
  <2> QED BY <2>1 DEF Integral
<1>1. {} \in Good
  <2>1. Of({}) = {} OBVIOUS
  <2> HIDE DEF Of
  <2> QED BY <2>1, SumOfNothing
<1>2. ASSUME NEW L \in SUBSET K, L # {}, \A k \in L : L \ {k} \in Good PROVE L \in Good
  <2>1. PICK k : k \in L BY <1>2
  <2>2. /\ Of(L) = At(k) \cup Of(L \ {k}) /\ At(k) \cap Of(L \ {k}) = {}
        /\ At(k) \in SUBSET S /\ Of(L \ {k}) \in SUBSET S /\ Of(L) \in SUBSET S
    BY <2>1 DEF Placed
  <2>3. w[k] = SumFunctionOnSet(v, At(k)) BY <2>1
  <2>4. SumFunctionOnSet(w, L \ {k}) = SumFunctionOnSet(v, Of(L \ {k})) BY <1>2, <2>1
  <2> HIDE DEF At, Of
  <2>5. SumFunctionOnSet(v, Of(L)) = SumFunctionOnSet(v, At(k)) + SumFunctionOnSet(v, Of(L \ {k}))
    <3>1. PICK A, B : A = At(k) /\ B = Of(L \ {k}) OBVIOUS
    <3>2. IsFiniteSet(A) /\ IsFiniteSet(B) /\ A \cap B = {} /\ Integral(v, A \cup B)
      BY <3>1, <2>2, <1>0
    <3>3. SumFunctionOnSet(v, A \cup B) = SumFunctionOnSet(v, A) + SumFunctionOnSet(v, B)
      BY <3>2, SumOfDisjoint
    <3> QED BY <3>1, <3>3, <2>2
  <2>6. SumFunctionOnSet(w, L) = w[k] + SumFunctionOnSet(w, L \ {k})
    <3>1. IsFiniteSet(L) /\ Integral(w, L) BY <1>w, FS_Subset DEF Integral
    <3> QED BY <3>1, <2>1, SumTakingOut
  <2> QED BY <2>3, <2>4, <2>5, <2>6
<1>3. K \in Good
  <2> HIDE DEF Good
  <2> QED BY <1>1, <1>2, ByRemoval
<1>4. Of(K) = S OBVIOUS
<1> HIDE DEF Of
<1> QED BY <1>3, <1>4

\* What is no more anywhere is no more in all.
LEMMA SumAtLeast ==
    ASSUME NEW D, IsFiniteSet(D), NEW v, Integral(v, D), NEW w, Integral(w, D),
           \A x \in D : v[x] <= w[x]
    PROVE  SumFunctionOnSet(v, D) <= SumFunctionOnSet(w, D)
<1> DEFINE SumV(T) == SumFunctionOnSet(v, T)
           SumW(T) == SumFunctionOnSet(w, T)
           Good == {T \in SUBSET D : SumV(T) <= SumW(T)}
<1>0. ASSUME NEW T \in SUBSET D PROVE IsFiniteSet(T) /\ Integral(v, T) /\ Integral(w, T)
  BY FS_Subset DEF Integral
<1>1. {} \in Good
  <2>1. SumV({}) = 0 /\ SumW({}) = 0 BY SumOfNothing
  <2> HIDE DEF SumV, SumW
  <2> QED BY <2>1
<1>2. ASSUME NEW T \in SUBSET D, T # {}, \A x \in T : T \ {x} \in Good PROVE T \in Good
  <2>1. PICK x : x \in T BY <1>2
  <2>2. /\ SumV(T) = v[x] + SumV(T \ {x}) /\ SumV(T \ {x}) \in Int
        /\ SumW(T) = w[x] + SumW(T \ {x}) /\ SumW(T \ {x}) \in Int
    BY <2>1, <1>0, SumTakingOut
  <2>3. SumV(T \ {x}) <= SumW(T \ {x}) BY <1>2, <2>1
  <2>4. v[x] \in Int /\ w[x] \in Int /\ v[x] <= w[x] BY <2>1 DEF Integral
  <2> HIDE DEF SumV, SumW
  <2>5. PICK a, b, c, d : /\ a = v[x] /\ b = w[x]
                          /\ c = SumV(T \ {x}) /\ d = SumW(T \ {x}) OBVIOUS
  <2>6. a + c <= b + d BY ONLY <2>2, <2>3, <2>4, <2>5
  <2> QED BY <2>2, <2>5, <2>6
<1> HIDE DEF Good
<1>3. \A T \in SUBSET D : T \in Good BY <1>1, <1>2, ByRemoval
<1> QED BY <1>3 DEF Good

\* One for each.
LEMMA SumOfOnes ==
    ASSUME NEW D, IsFiniteSet(D), NEW v, \A x \in D : v[x] = 1
    PROVE  SumFunctionOnSet(v, D) = Cardinality(D)
<1> DEFINE Sum(T) == SumFunctionOnSet(v, T)
           Good == {T \in SUBSET D : Sum(T) = Cardinality(T)}
<1>0. ASSUME NEW T \in SUBSET D
      PROVE  IsFiniteSet(T) /\ Integral(v, T) /\ Cardinality(T) \in Nat
  BY FS_Subset, FS_CardinalityType DEF Integral
<1>1. {} \in Good
  <2>1. Sum({}) = 0 BY SumOfNothing
  <2>2. Cardinality({}) = 0 BY FS_EmptySet
  <2> QED BY <2>1, <2>2
<1>2. ASSUME NEW T \in SUBSET D, T # {}, \A x \in T : T \ {x} \in Good PROVE T \in Good
  <2>1. PICK x : x \in T BY <1>2
  <2>2. Sum(T) = v[x] + Sum(T \ {x}) BY <2>1, <1>0, SumTakingOut
  <2>3. Sum(T \ {x}) = Cardinality(T \ {x}) BY <1>2, <2>1
  <2>4. Cardinality(T \ {x}) = Cardinality(T) - 1 BY <2>1, <1>0, FS_RemoveElement
  <2>5. v[x] = 1 BY <2>1
  <2>6. Cardinality(T) \in Nat BY <1>0
  <2> HIDE DEF Sum
  <2>7. Sum(T) = 1 + (Cardinality(T) - 1) BY <2>2, <2>3, <2>4, <2>5
  <2> QED BY <2>6, <2>7
<1> HIDE DEF Good
<1>3. \A T \in SUBSET D : T \in Good BY <1>1, <1>2, ByRemoval
<1> QED BY <1>3 DEF Good

\* The parts of a set have its members between them.
LEMMA CountByParts ==
    ASSUME NEW S, IsFiniteSet(S), NEW K, IsFiniteSet(K), NEW part, \A x \in S : part[x] \in K,
           NEW w, \A k \in K : w[k] = Cardinality(Placed(S, part, k))
    PROVE  SumFunctionOnSet(w, K) = Cardinality(S)
<1>1. PICK v : v = [x \in S |-> 1] OBVIOUS
<1>2. Integral(v, S) /\ SumFunctionOnSet(v, S) = Cardinality(S)
  BY <1>1, SumOfOnes DEF Integral
<1>3. ASSUME NEW k \in K PROVE w[k] = SumFunctionOnSet(v, Placed(S, part, k))
  <2> DEFINE T == Placed(S, part, k)
  <2>1. IsFiniteSet(T) BY FS_Subset DEF Placed
  <2>2. \A x \in T : v[x] = 1 BY <1>1 DEF Placed
  <2>3. w[k] = Cardinality(T) OBVIOUS
  <2> HIDE DEF T
  <2>4. SumFunctionOnSet(v, T) = Cardinality(T) BY <2>1, <2>2, SumOfOnes
  <2> QED BY <2>3, <2>4 DEF T
<1>4. \A k \in K : w[k] = SumFunctionOnSet(v, Placed(S, part, k)) BY <1>3
<1>5. SumFunctionOnSet(w, K) = SumFunctionOnSet(v, S) BY <1>2, <1>4, SumOfParts
<1> QED BY <1>2, <1>5

----------------------------------------------------------------------------
(* Folds over a sequence, and the walk over a timeline.                    *)
LEMMA LargestOf ==
    ASSUME NEW n \in Nat, NEW S \in SUBSET (1..n), S # {}
    PROVE  Max(S) \in S /\ \A y \in S : y <= Max(S)
<1> DEFINE Good == {T \in SUBSET (1..n) : T # {} => \E x \in T : \A y \in T : x >= y}
<1>1. {} \in Good OBVIOUS
<1>2. ASSUME NEW T \in SUBSET (1..n), T # {}, \A x \in T : T \ {x} \in Good PROVE T \in Good
  <2>1. PICK a : a \in T BY <1>2
  <2>2. CASE T \ {a} = {} BY <2>1, <2>2
  <2>3. CASE T \ {a} # {}
    <3>1. PICK b \in T \ {a} : \A y \in T \ {a} : b >= y BY <1>2, <2>1, <2>3
    <3>2. CASE b >= a BY <3>1, <3>2
    <3>3. CASE a > b
      <4>1. \A y \in T \ {a} : a >= y BY <2>1, <3>1, <3>3
      <4> QED BY <2>1, <4>1
    <3> QED BY <2>1, <3>1, <3>2, <3>3
  <2> QED BY <2>2, <2>3
<1>3. S \in Good
  <2>1. IsFiniteSet(1..n) BY UpTo
  <2> HIDE DEF Good
  <2> QED BY <1>1, <1>2, <2>1, ByRemoval
<1>4. \E x \in S : \A y \in S : x >= y BY <1>3
<1>5. Max(S) \in S /\ \A y \in S : Max(S) >= y BY <1>4 DEF Max
<1> QED BY <1>5

\* The walk after each event, the first of them before any.
StepsOver(walk, start, events, n, w) ==
    /\ walk[0] = start
    /\ \A k \in 0..(n - 1) : walk[k + 1] = Advance(walk[k], events[k + 1], w)

Walked(start, events, w) == FoldLeft(LAMBDA acc, e : Advance(acc, e, w), start, events)

\* A fold over a sequence is where the walk over it ends.
LEMMA WalksToItsEnd ==
    ASSUME NEW n \in Nat, NEW events, DOMAIN events = 1..n, NEW start, NEW w
    PROVE  \E walk : StepsOver(walk, start, events, n, w) /\ Walked(start, events, w) = walk[n]
<1> DEFINE D == 1..n
           Step(it, S) == IF S = {} THEN start
                          ELSE Advance(it[S \ {Max(S)}], events[Max(S)], w)
           Iter(S, it) == it = [T \in SUBSET S |-> Step(it, T)]
           Good == {S \in SUBSET D : \E it : Iter(S, it)}
<1>1. {} \in Good
  <2> DEFINE t == [T \in SUBSET {} |-> start]
  <2>1. Iter({}, t) OBVIOUS
  <2> QED BY <2>1
<1>2. ASSUME NEW S \in SUBSET D, S # {}, \A x \in S : S \ {x} \in Good PROVE S \in Good
  <2>1. PICK m : m = Max(S) OBVIOUS
  <2>2. m \in S /\ \A y \in S : y <= m BY <1>2, <2>1, LargestOf
  <2>3. PICK t : Iter(S \ {m}, t) BY <1>2, <2>2
  <2>4. PICK u : u = [T \in SUBSET S |-> IF m \in T
                        THEN Advance(t[T \ {m}], events[m], w) ELSE t[T]]
    OBVIOUS
  <2>5. ASSUME NEW T \in SUBSET S PROVE u[T] = Step(u, T)
    <3>1. CASE T = {}
      <4>1. t[{}] = start
        <5>1. {} \in SUBSET (S \ {m}) OBVIOUS
        <5> QED BY <2>3, <5>1
      <4> QED BY <2>4, <3>1, <4>1
    <3>2. CASE T # {} /\ m \in T
      <4>1. Max(T) \in T /\ \A y \in T : y <= Max(T)
        <5>1. T \in SUBSET (1..n) OBVIOUS
        <5> QED BY <5>1, <3>2, LargestOf
      <4>2. Max(T) = m
        <5>1. Max(T) <= m /\ m <= Max(T) BY <2>2, <3>2, <4>1
        <5>2. Max(T) \in 1..n /\ m \in 1..n BY <2>2, <4>1
        <5> QED BY ONLY <5>1, <5>2
      <4>3. u[T] = Advance(t[T \ {m}], events[m], w) BY <2>4, <3>2
      <4>4. u[T \ {m}] = t[T \ {m}] BY <2>4
      <4> QED BY <3>2, <4>2, <4>3, <4>4
    <3>3. CASE T # {} /\ m \notin T
      <4>1. T \in SUBSET (S \ {m}) /\ Max(T) \in T
        <5>1. T \in SUBSET (1..n) OBVIOUS
        <5> QED BY <5>1, <3>3, LargestOf
      <4>2. t[T] = Step(t, T)
        <5> HIDE DEF Step
        <5> QED BY <2>3, <4>1
      <4>3. u[T] = t[T] BY <2>4, <3>3
      <4>4. m \notin T \ {Max(T)} /\ T \ {Max(T)} \in SUBSET S BY <3>3
      <4>5. u[T \ {Max(T)}] = t[T \ {Max(T)}] BY <2>4, <4>4
      <4> QED BY <3>3, <4>2, <4>3, <4>5
    <3> QED BY <3>1, <3>2, <3>3
  <2>6. Iter(S, u)
    <3>1. u = [T \in SUBSET S |-> u[T]] BY <2>4
    <3> HIDE DEF Step
    <3> QED BY <2>5, <3>1
  <2> HIDE DEF Iter
  <2> QED BY <2>6
<1>3. PICK t : Iter(D, t)
  <2>1. IsFiniteSet(D) BY UpTo
  <2>3. \A S \in SUBSET D : S # {} /\ (\A x \in S : S \ {x} \in Good) => S \in Good BY <1>2
  <2> HIDE DEF Good, D
  <2>2. \A S \in SUBSET D : S \in Good BY <1>1, <2>1, <2>3, ByRemoval
  <2> HIDE DEF Iter
  <2> QED BY <2>2 DEF Good, D
<1>4. PICK it : it = CHOOSE i : Iter(D, i) OBVIOUS
<1>5. Iter(D, it)
  <2> HIDE DEF Iter
  <2> QED BY <1>3, <1>4
<1>6. Walked(start, events, w) = it[D]
  BY <1>4 DEF Walked, FoldLeft, MapThenFoldSet
<1>7. \A T \in SUBSET D : it[T] = Step(it, T)
  <2> HIDE DEF Step
  <2> QED BY <1>5
<1>8. PICK walk : walk = [k \in 0..n |-> it[1..k]] OBVIOUS
<1>9. walk[0] = start
  <2>1. 1..0 = {} /\ 0 \in 0..n /\ {} \in SUBSET D OBVIOUS
  <2> QED BY <1>7, <1>8, <2>1
<1>10. ASSUME NEW k \in 0..(n - 1) PROVE walk[k + 1] = Advance(walk[k], events[k + 1], w)
  <2>1. /\ k \in 0..n /\ k + 1 \in 0..n /\ k + 1 \in 1..(k + 1)
        /\ (1..(k + 1)) \in SUBSET D /\ (1..(k + 1)) \ {k + 1} = 1..k
    OBVIOUS
  <2>2. Max(1..(k + 1)) = k + 1
    <3>1. 1..(k + 1) # {} BY <2>1
    <3>2. Max(1..(k + 1)) \in 1..(k + 1) /\ \A y \in 1..(k + 1) : y <= Max(1..(k + 1))
      BY <2>1, <3>1, LargestOf
    <3>3. PICK m : m = Max(1..(k + 1)) OBVIOUS
    <3>4. m \in 1..(k + 1) /\ k + 1 <= m BY <2>1, <3>2, <3>3
    <3>5. m = k + 1 BY ONLY <3>4, k \in Int
    <3> QED BY <3>3, <3>5
  <2>3. it[1..(k + 1)] = Advance(it[1..k], events[k + 1], w)
    <3>1. 1..(k + 1) # {} BY <2>1
    <3>2. it[1..(k + 1)] = Step(it, 1..(k + 1)) BY <1>7, <2>1
    <3> QED BY <2>1, <2>2, <3>1, <3>2
  <2> QED BY <1>8, <2>1, <2>3
<1>11. walk[n] = it[D] BY <1>8
<1> QED BY <1>6, <1>9, <1>10, <1>11 DEF StepsOver

\* Only the instants and the states of the events matter to the walk.
LEMMA SameWalk ==
    ASSUME NEW n \in Nat, NEW d, DOMAIN d = 1..n, NEW e, DOMAIN e = 1..n, NEW start, NEW w,
           \A i \in 1..n : d[i].at = e[i].at /\ d[i].to = e[i].to
    PROVE  Walked(start, d, w) = Walked(start, e, w)
<1>1. PICK f : StepsOver(f, start, d, n, w) /\ Walked(start, d, w) = f[n] BY WalksToItsEnd
<1>2. PICK g : StepsOver(g, start, e, n, w) /\ Walked(start, e, w) = g[n] BY WalksToItsEnd
<1> DEFINE Same == {k \in Nat : k <= n => f[k] = g[k]}
<1>3. 0 \in Same BY <1>1, <1>2 DEF StepsOver
<1>4. ASSUME NEW k \in Nat, k \in Same PROVE k + 1 \in Same
  <2>1. SUFFICES ASSUME k + 1 <= n PROVE f[k + 1] = g[k + 1] OBVIOUS
  <2>2. k \in 0..(n - 1) /\ k + 1 \in 1..n /\ f[k] = g[k] BY <1>4, <2>1
  <2>3. f[k + 1] = Advance(f[k], d[k + 1], w) BY <1>1, <2>2 DEF StepsOver
  <2>4. g[k + 1] = Advance(g[k], e[k + 1], w) BY <1>2, <2>2 DEF StepsOver
  <2>5. d[k + 1].at = e[k + 1].at /\ d[k + 1].to = e[k + 1].to BY <2>2
  <2>6. Advance(f[k], d[k + 1], w) = Advance(f[k], e[k + 1], w) BY <2>5 DEF Advance, Spent
  <2> QED BY <2>2, <2>3, <2>4, <2>6
<1> HIDE DEF Same
<1>5. Nat \subseteq Same BY <1>3, <1>4, FromNaught
<1>6. f[n] = g[n] BY <1>5 DEF Same
<1> QED BY <1>1, <1>2, <1>6

----------------------------------------------------------------------------
(* The availability of a facing.  A history of n events, in time.          *)
InTime(h, n) ==
    /\ h.initialState \in States
    /\ DOMAIN h.events = 1..n
    /\ \A i \in 1..n : h.events[i].at \in Int /\ h.events[i].to \in States
    /\ \A i, j \in 1..n : i <= j => h.events[i].at <= h.events[j].at

\* The greater of two.
LEMMA LargerOf ==
    ASSUME NEW a \in Int, NEW b \in Int
    PROVE  Max({a, b}) = IF a >= b THEN a ELSE b
<1>1. \E x \in {a, b} : \A y \in {a, b} : x >= y OBVIOUS
<1>2. Max({a, b}) \in {a, b} /\ \A y \in {a, b} : Max({a, b}) >= y BY <1>1 DEF Max
<1> QED BY <1>2

\* The lesser of two.
LEMMA SmallerOf ==
    ASSUME NEW a \in Int, NEW b \in Int
    PROVE  Min({a, b}) = IF a <= b THEN a ELSE b
<1>1. \E x \in {a, b} : \A y \in {a, b} : x =< y OBVIOUS
<1>2. Min({a, b}) \in {a, b} /\ \A y \in {a, b} : Min({a, b}) =< y BY <1>1 DEF Min
<1> QED BY <1>2

\* The state at an instant is that of the last event not after it.
LEMMA StateThen ==
    ASSUME NEW n \in Nat, NEW h, InTime(h, n), NEW t \in Int
    PROVE  /\ (\A i \in 1..n : h.events[i].at > t) => StateAt(h, t) = h.initialState
           /\ \A p \in 1..n : /\ h.events[p].at <= t
                              /\ \A q \in 1..n : q > p => h.events[q].at > t
                 => StateAt(h, t) = h.events[p].to
           /\ StateAt(h, t) \in States
<1> DEFINE past == {i \in DOMAIN h.events : h.events[i].at <= t}
<1>0. /\ h.initialState \in States /\ DOMAIN h.events = 1..n
      /\ \A i \in 1..n : h.events[i].at \in Int /\ h.events[i].to \in States
  BY DEF InTime
<1>1. StateAt(h, t) = IF past = {} THEN h.initialState ELSE h.events[Max(past)].to
  BY DEF StateAt
<1>2. past \in SUBSET (1..n) BY <1>0
<1>3. (\A i \in 1..n : h.events[i].at > t) => past = {} BY <1>0
<1>4. ASSUME NEW p \in 1..n, h.events[p].at <= t, \A q \in 1..n : q > p => h.events[q].at > t
      PROVE  past # {} /\ Max(past) = p
  <2>1. p \in past BY <1>0, <1>4
  <2>2. Max(past) \in past /\ \A y \in past : y <= Max(past)
    <3> HIDE DEF past
    <3> QED BY <1>2, <2>1, LargestOf
  <2>3. PICK m : m = Max(past) OBVIOUS
  <2>4. m \in 1..n /\ h.events[m].at <= t /\ p <= m BY <1>0, <2>1, <2>2, <2>3
  <2>5. ~(m > p) BY <1>0, <1>4, <2>4
  <2>6. m = p
    <3>1. p \in 1..n OBVIOUS
    <3> QED BY ONLY <2>4, <2>5, <3>1
  <2> QED BY <2>1, <2>3, <2>6
<1>5. past # {} => Max(past) \in 1..n
  <2> HIDE DEF past
  <2> QED BY <1>2, LargestOf
<1> HIDE DEF past
<1>6. StateAt(h, t) \in States BY <1>0, <1>1, <1>5
<1> QED BY <1>1, <1>3, <1>4, <1>6

\* The instants of a span at which a facing was in a state.
Spells(h, from, to, s) == {x \in from..(to - 1) : StateAt(h, x) = s}

\* It was in that state all along.
Steady(h, from, to, s) == \A x \in from..(to - 1) : StateAt(h, x) = s

\* The instants spent in a state are finitely many.
LEMMA SpellsAreFew ==
    ASSUME NEW h, NEW from \in Int, NEW to \in Int, NEW s
    PROVE  IsFiniteSet(Spells(h, from, to, s)) /\ Cardinality(Spells(h, from, to, s)) \in Nat
<1>1. Spells(h, from, to, s) \subseteq from..(to - 1) BY DEF Spells
<1>2. IsFiniteSet(from..(to - 1)) BY FS_Interval
<1>3. IsFiniteSet(Spells(h, from, to, s)) BY <1>1, <1>2, FS_Subset
<1> QED BY <1>3, FS_CardinalityType

\* A steady stretch adds its instants to its own state and to no other.
LEMMA SpellsGrow ==
    ASSUME NEW h, NEW from \in Int, NEW mid \in Int, NEW to \in Int, from <= mid, mid <= to,
           NEW st, Steady(h, mid, to, st), NEW s,
           NEW gain, gain = IF s = st THEN to - mid ELSE 0
    PROVE  Cardinality(Spells(h, from, to, s)) = Cardinality(Spells(h, from, mid, s)) + gain
<1> DEFINE A == Spells(h, from, mid, s)
           B == {x \in mid..(to - 1) : StateAt(h, x) = s}
<1>1. Spells(h, from, to, s) = A \cup B /\ A \cap B = {} BY DEF Spells
<1>2. IsFiniteSet(A) /\ Cardinality(A) \in Nat BY SpellsAreFew
<1>3. IsFiniteSet(mid..(to - 1)) /\ Cardinality(mid..(to - 1)) = to - mid
  <2>1. /\ mid \in Int /\ to - 1 \in Int /\ (mid > to - 1 => to - mid = 0)
        /\ (to - 1) - mid + 1 = to - mid
    OBVIOUS
  <2> QED BY ONLY <2>1, FS_Interval
<1>4. B = IF s = st THEN mid..(to - 1) ELSE {} BY DEF Steady
<1>5. IsFiniteSet(B) /\ Cardinality(B) = IF s = st THEN to - mid ELSE 0
  <2> HIDE DEF B
  <2>1. IsFiniteSet({}) /\ Cardinality({}) = 0 BY FS_EmptySet
  <2> QED BY <1>3, <1>4, <2>1
<1> HIDE DEF A, B
<1>7. IsFiniteSet(A \cup B) /\ Cardinality(A \cup B) = Cardinality(A) + Cardinality(B) - 0
  <2>1. Cardinality({}) = 0 BY FS_EmptySet
  <2> QED BY <1>1, <1>2, <1>5, <2>1, FS_Union
<1>8. Cardinality(A \cup B) = Cardinality(A) + gain
  BY <1>2, <1>5, <1>7
<1> QED BY <1>1, <1>8 DEF A

\* The walk knows the instants before its cursor, and where it is.
Knows(walk, h, from, cursor, state) ==
    walk = [cursor |-> cursor, state |-> state,
            totals |-> [s \in States |-> Cardinality(Spells(h, from, cursor, s))]]

\* So does a step of the walk.
LEMMA SpentSteadily ==
    ASSUME NEW h, NEW w, w.from \in Int, w.to \in Int, NEW cursor \in Int, NEW until \in Int,
           w.from <= cursor, cursor <= until, until <= w.to,
           NEW state \in States, Steady(h, cursor, until, state),
           NEW walk, Knows(walk, h, w.from, cursor, state)
    PROVE  Spent(walk, w, until) = [s \in States |-> Cardinality(Spells(h, w.from, until, s))]
<1> DEFINE N(s) == Cardinality(Spells(h, w.from, cursor, s))
           M(s) == Cardinality(Spells(h, w.from, until, s))
<1>1. Overlap(w, cursor, until) = until - cursor
  <2>1. Min({until, w.to}) = until BY SmallerOf
  <2>2. Max({cursor, w.from}) = cursor BY LargerOf
  <2>3. Max({0, until - cursor}) = until - cursor
    <3>1. 0 \in Int /\ until - cursor \in Int /\ ~(0 >= until - cursor /\ 0 # until - cursor)
      OBVIOUS
    <3> QED BY <3>1, LargerOf
  <2> QED BY <2>1, <2>2, <2>3 DEF Overlap
<1>2. ASSUME NEW s \in States
      PROVE  N(s) \in Nat /\ M(s) = N(s) + (IF s = state THEN until - cursor ELSE 0)
  <2>1. PICK from : from = w.from OBVIOUS
  <2>2. from \in Int /\ from <= cursor BY <2>1
  <2>3. Cardinality(Spells(h, from, cursor, s)) \in Nat BY <2>2, SpellsAreFew
  <2>4. PICK gain : gain = IF s = state THEN until - cursor ELSE 0 OBVIOUS
  <2>5. Cardinality(Spells(h, from, until, s)) = Cardinality(Spells(h, from, cursor, s)) + gain
    BY <2>2, <2>4, SpellsGrow
  <2> QED BY <2>1, <2>3, <2>4, <2>5
<1>3. walk.cursor = cursor /\ walk.state = state /\ walk.totals = [s \in States |-> N(s)]
  BY DEF Knows
<1> HIDE DEF N, M
<1>4. Spent(walk, w, until) = [[s \in States |-> N(s)] EXCEPT ![state] = @ + (until - cursor)]
  BY <1>1, <1>3 DEF Spent
<1>5. [[s \in States |-> N(s)] EXCEPT ![state] = @ + (until - cursor)] = [s \in States |-> M(s)]
  <2>1. \A s \in States : s # state => M(s) = N(s) BY <1>2
  <2>2. M(state) = N(state) + (until - cursor) BY <1>2
  <2> QED BY <2>1, <2>2
<1> QED BY <1>4, <1>5 DEF M

\* The events within a window are those at some positions, in order: the k-th is at line[k].
WithinAt(line, c, h, n, w) ==
    /\ c \in Nat
    /\ \A k \in 1..c : /\ line[k] \in 1..n
                       /\ w.from <= h.events[line[k]].at /\ h.events[line[k]].at < w.to
    /\ \A k, l \in 1..c : k < l => line[k] < line[l]
    /\ \A i \in 1..n : w.from <= h.events[i].at /\ h.events[i].at < w.to
                         => \E k \in 1..c : line[k] = i
    /\ EventsWithin(h, w) = [k \in 1..c |-> h.events[line[k]]]

\* The events of a window, by the positions they have in the history.
LEMMA WithinInOrder ==
    ASSUME NEW n \in Nat, NEW h, InTime(h, n), NEW w
    PROVE  \E line, c : WithinAt(line, c, h, n, w)
<1> DEFINE P == {i \in DOMAIN h.events : InWindow(w, h.events[i].at)}
<1>0. DOMAIN h.events = 1..n BY DEF InTime
<1>1. P \in SUBSET (1..n) BY <1>0
<1>2. PICK c : c = Cardinality(P) OBVIOUS
<1>3. c \in Nat
  <2>1. IsFiniteSet(1..n) BY UpTo
  <2>2. IsFiniteSet(P) BY <1>1, <2>1, FS_Subset
  <2> QED BY <1>2, <2>2, FS_CardinalityType
<1>10. PICK line : Keeps(line, c, h.events, P)
  <2> HIDE DEF P
  <2> QED BY <1>1, <1>2, SelectedInOrder
<1>4. /\ line \in Bijection(1..c, P)
      /\ Selected(h.events, P) = [k \in 1..c |-> h.events[line[k]]]
      /\ \A k, l \in 1..c : k < l => line[k] < line[l]
  BY <1>10 DEF Keeps
<1>5. EventsWithin(h, w) = [k \in 1..c |-> h.events[line[k]]] BY <1>4 DEF EventsWithin
<1>6. \A k \in 1..c : line[k] \in P BY <1>4 DEF Bijection, Injection
<1>7. \A i \in P : \E k \in 1..c : line[k] = i BY <1>4 DEF Bijection, Surjection
<1>8. \A i \in 1..n : i \in P <=> w.from <= h.events[i].at /\ h.events[i].at < w.to
  BY <1>0 DEF InWindow
<1> HIDE DEF P
<1>9. WithinAt(line, c, h, n, w) BY <1>1, <1>3, <1>4, <1>5, <1>6, <1>7, <1>8 DEF WithinAt
<1> QED BY <1>9

\* Where the walk is after k of the events, and where it goes from there.
CursorAfter(line, h, w, k) == IF k = 0 THEN w.from ELSE h.events[line[k]].at
StateAfter(line, h, w, k)  == IF k = 0 THEN StateAt(h, w.from) ELSE h.events[line[k]].to
NextAfter(line, c, h, w, k) == IF k = c THEN w.to ELSE h.events[line[k + 1]].at

\* Between one event of the window and the next the state stays.
LEMMA SteadyBetween ==
    ASSUME NEW n \in Nat, NEW h, InTime(h, n), NEW w, w.from \in Int, w.to \in Int,
           w.from <= w.to, NEW line, NEW c, WithinAt(line, c, h, n, w), NEW k \in 0..c
    PROVE  /\ CursorAfter(line, h, w, k) \in Int /\ NextAfter(line, c, h, w, k) \in Int
           /\ w.from <= CursorAfter(line, h, w, k)
           /\ CursorAfter(line, h, w, k) <= NextAfter(line, c, h, w, k)
           /\ NextAfter(line, c, h, w, k) <= w.to
           /\ StateAfter(line, h, w, k) \in States
           /\ Steady(h, CursorAfter(line, h, w, k), NextAfter(line, c, h, w, k),
                     StateAfter(line, h, w, k))
<1>0. /\ c \in Nat
      /\ \A j \in 1..c : /\ line[j] \in 1..n
                         /\ w.from <= h.events[line[j]].at /\ h.events[line[j]].at < w.to
      /\ \A j, l \in 1..c : j < l => line[j] < line[l]
      /\ \A i \in 1..n : w.from <= h.events[i].at /\ h.events[i].at < w.to
                           => \E j \in 1..c : line[j] = i
  BY DEF WithinAt
<1>1. /\ DOMAIN h.events = 1..n
      /\ \A i \in 1..n : h.events[i].at \in Int /\ h.events[i].to \in States
      /\ \A i, j \in 1..n : i <= j => h.events[i].at <= h.events[j].at
  BY DEF InTime
<1>2. PICK cu : cu = CursorAfter(line, h, w, k) OBVIOUS
<1>3. PICK nx : nx = NextAfter(line, c, h, w, k) OBVIOUS
<1>4. PICK st : st = StateAfter(line, h, w, k) OBVIOUS
<1>5. k # 0 => k \in 1..c /\ cu = h.events[line[k]].at /\ st = h.events[line[k]].to
  BY <1>2, <1>4 DEF CursorAfter, StateAfter
<1>6. k = 0 => cu = w.from /\ st = StateAt(h, w.from)
  BY <1>2, <1>4 DEF CursorAfter, StateAfter
<1>7. k = c => nx = w.to BY <1>3 DEF NextAfter
<1>8. k # c => k + 1 \in 1..c /\ nx = h.events[line[k + 1]].at BY <1>0, <1>3 DEF NextAfter
<1>9. cu \in Int /\ w.from <= cu /\ cu <= w.to
  <2>1. CASE k = 0 BY <2>1, <1>6
  <2>2. CASE k # 0
    <3>1. h.events[line[k]].at \in Int BY <2>2, <1>0, <1>1, <1>5
    <3>2. w.from <= h.events[line[k]].at /\ h.events[line[k]].at < w.to BY <2>2, <1>0, <1>5
    <3> QED BY <2>2, <3>1, <3>2, <1>5
  <2> QED BY <2>1, <2>2
<1>10. nx \in Int /\ cu <= nx /\ nx <= w.to
  <2>1. CASE k = c BY <2>1, <1>7, <1>9
  <2>2. CASE k # c
    <3>1. line[k + 1] \in 1..n BY <2>2, <1>0, <1>8
    <3>2. h.events[line[k + 1]].at \in Int BY <3>1, <1>1
    <3>3. w.from <= nx /\ nx < w.to BY <2>2, <1>0, <1>8
    <3>4. k # 0 => cu <= nx
      <4>1. SUFFICES ASSUME k # 0 PROVE cu <= nx OBVIOUS
      <4>2. k \in 1..c /\ k + 1 \in 1..c /\ k < k + 1 BY <4>1, <2>2, <1>5, <1>8
      <4>3. line[k] < line[k + 1] /\ line[k] \in 1..n BY <4>2, <1>0
      <4>4. line[k] <= line[k + 1] BY <4>3, <3>1
      <4>5. h.events[line[k]].at <= h.events[line[k + 1]].at BY <4>3, <4>4, <3>1, <1>1
      <4> QED BY <4>1, <2>2, <4>5, <1>5, <1>8
    <3> QED BY <2>2, <3>2, <3>3, <3>4, <1>6, <1>8
  <2> QED BY <2>1, <2>2
<1>11. st \in States
  <2>1. CASE k = 0 BY <2>1, <1>6, StateThen
  <2>2. CASE k # 0 BY <2>2, <1>0, <1>1, <1>5
  <2> QED BY <2>1, <2>2
\* An event between the cursor and what comes next would itself come next.
<1>12. ASSUME NEW q \in 1..n, NEW x \in cu..(nx - 1), w.from <= h.events[q].at,
              h.events[q].at <= x, k # 0 => q > line[k]
       PROVE  FALSE
  <2>1. h.events[q].at < w.to BY <1>1, <1>9, <1>10, <1>12
  <2>2. PICK j \in 1..c : line[j] = q BY <1>0, <1>12, <2>1
  <2>3. k < j
    <3>1. CASE k = 0 BY <3>1
    <3>2. CASE k # 0
      <4>1. k \in 1..c /\ q > line[k] BY <3>2, <1>5, <1>12
      <4>2. ~(j < k) /\ j # k
        <5>1. line[j] \in Int /\ line[k] \in Int BY <4>1, <1>0
        <5>2. j < k => line[j] < line[k] BY <4>1, <1>0
        <5>3. j = k => line[j] = line[k] OBVIOUS
        <5>4. line[j] > line[k] BY <2>2, <4>1
        <5>5. ~(line[j] < line[k]) /\ line[j] # line[k] BY ONLY <5>1, <5>4
        <5> QED BY <5>2, <5>3, <5>5
      <4> QED BY <4>1, <4>2
    <3> QED BY <3>1, <3>2
  <2>4. k # c /\ k + 1 \in 1..c BY <2>3, <1>8
  <2>5. line[k + 1] <= line[j]
    <3>1. k + 1 = j \/ k + 1 < j BY <2>3
    <3>2. line[k + 1] \in Int /\ line[j] \in Int BY <2>4, <1>0
    <3>3. k + 1 < j => line[k + 1] < line[j] BY <2>4, <1>0
    <3>4. k + 1 = j => line[k + 1] = line[j] OBVIOUS
    <3> QED BY ONLY <3>1, <3>2, <3>3, <3>4
  <2>6. line[k + 1] \in 1..n BY <2>4, <1>0
  <2>7. h.events[line[k + 1]].at <= h.events[q].at BY <2>2, <2>5, <2>6, <1>1
  <2>8. nx <= h.events[q].at BY <2>4, <2>7, <1>8
  <2> QED BY <2>8, <1>1, <1>10, <1>12
<1>13. ASSUME NEW x \in cu..(nx - 1) PROVE StateAt(h, x) = st
  <2>1. CASE k = 0
    <3>1. \A i \in 1..n : h.events[i].at <= x <=> h.events[i].at <= w.from
      <4>1. ASSUME NEW i \in 1..n PROVE h.events[i].at <= x <=> h.events[i].at <= w.from
        <5>1. h.events[i].at <= x => ~(w.from <= h.events[i].at) BY <1>12, <1>13, <2>1
        <5>2. h.events[i].at \in Int /\ x \in Int /\ w.from <= x BY <1>1, <1>6, <1>9, <1>13, <2>1
        <5> QED BY <5>1, <5>2
      <4> QED BY <4>1
    <3>2. {i \in DOMAIN h.events : h.events[i].at <= x}
            = {i \in DOMAIN h.events : h.events[i].at <= w.from} BY <1>1, <3>1
    <3>3. StateAt(h, x) = StateAt(h, w.from) BY <3>2 DEF StateAt
    <3> QED BY <2>1, <3>3, <1>6
  <2>2. CASE k # 0
    <3>1. PICK p : p = line[k] OBVIOUS
    <3>2. p \in 1..n /\ h.events[p].at = cu /\ h.events[p].to = st
      BY <2>2, <3>1, <1>0, <1>5
    <3>3. x \in Int /\ h.events[p].at <= x BY <3>2, <1>9, <1>10, <1>13
    <3>4. ASSUME NEW q \in 1..n, q > p PROVE h.events[q].at > x
      <4>1. h.events[q].at \in Int BY <1>1
      <4>2. h.events[p].at <= h.events[q].at BY <1>1, <3>2, <3>4
      <4>3. w.from <= h.events[q].at BY <4>1, <4>2, <3>2, <1>9
      <4>4. ~(h.events[q].at <= x) BY <4>3, <3>1, <3>4, <1>12, <1>13
      <4> QED BY <4>1, <4>4, <3>3
    <3>5. StateAt(h, x) = h.events[p].to BY <3>2, <3>3, <3>4, StateThen
    <3> QED BY <3>2, <3>5
  <2> QED BY <2>1, <2>2
<1>14. Steady(h, cu, nx, st) BY <1>13 DEF Steady
<1> QED BY <1>2, <1>3, <1>4, <1>9, <1>10, <1>11, <1>14

\* The walk adds up, for each state, the instants of the window spent in it.
LEMMA EveryInstantOnce ==
    ASSUME NEW n \in Nat, NEW h, InTime(h, n), NEW w, w.from \in Int, w.to \in Int,
           w.from <= w.to, NEW of, of = [s \in States |-> Cardinality(Spells(h, w.from, w.to, s))]
    PROVE  ComputeFacingAvailability(TimelineFor(h, w), w) =
             [inStock |-> of["in_stock"], measured |-> of["in_stock"] + of["out_of_stock"],
              unknown |-> of["unknown"]]
<1>1. PICK line, c : WithinAt(line, c, h, n, w) BY WithinInOrder
<1>2. /\ c \in Nat
      /\ \A k \in 1..c : line[k] \in 1..n
      /\ EventsWithin(h, w) = [k \in 1..c |-> h.events[line[k]]]
  BY <1>1 DEF WithinAt
<1>3. PICK events : events = EventsWithin(h, w) OBVIOUS
<1>4. PICK start : start = [cursor |-> w.from, state |-> StateAt(h, w.from),
                            totals |-> [s \in States |-> 0]]
  OBVIOUS
<1>5. PICK walk : StepsOver(walk, start, events, c, w) /\ Walked(start, events, w) = walk[c]
  <2>1. DOMAIN events = 1..c BY <1>2, <1>3
  <2> QED BY <1>2, <2>1, WalksToItsEnd
<1> DEFINE Cursor(k) == CursorAfter(line, h, w, k)
           State(k) == StateAfter(line, h, w, k)
           NextAt(k) == NextAfter(line, c, h, w, k)
           There(k) == Knows(walk[k], h, w.from, Cursor(k), State(k))
<1>6. ASSUME NEW k \in 0..c
      PROVE  /\ Cursor(k) \in Int /\ NextAt(k) \in Int /\ w.from <= Cursor(k)
             /\ Cursor(k) <= NextAt(k) /\ NextAt(k) <= w.to /\ State(k) \in States
             /\ Steady(h, Cursor(k), NextAt(k), State(k))
  BY <1>1, SteadyBetween
<1>7. There(0)
  <2>1. ASSUME NEW s \in States PROVE Cardinality(Spells(h, w.from, w.from, s)) = 0
    <3>1. Spells(h, w.from, w.from, s) = {} BY DEF Spells
    <3> QED BY <3>1, FS_EmptySet
  <2>2. walk[0] = start BY <1>5 DEF StepsOver
  <2> DEFINE N(s) == Cardinality(Spells(h, w.from, w.from, s))
  <2>3. [s \in States |-> 0] = [s \in States |-> N(s)]
    <3> HIDE DEF N
    <3>1. \A s \in States : N(s) = 0 BY <2>1 DEF N
    <3> QED BY <3>1
  <2>4. Cursor(0) = w.from /\ State(0) = StateAt(h, w.from) BY DEF CursorAfter, StateAfter
  <2> QED BY <1>4, <2>2, <2>3, <2>4 DEF Knows
<1>8. ASSUME NEW k \in 0..c, There(k)
      PROVE  Spent(walk[k], w, NextAt(k)) =
               [s \in States |-> Cardinality(Spells(h, w.from, NextAt(k), s))]
  <2>1. PICK cu : cu = Cursor(k) OBVIOUS
  <2>2. PICK nx : nx = NextAt(k) OBVIOUS
  <2>3. PICK st : st = State(k) OBVIOUS
  <2>4. /\ cu \in Int /\ nx \in Int /\ w.from <= cu /\ cu <= nx /\ nx <= w.to
        /\ st \in States /\ Steady(h, cu, nx, st)
    BY <1>6, <2>1, <2>2, <2>3
  <2>5. Knows(walk[k], h, w.from, cu, st) BY <1>8, <2>1, <2>3
  <2>6. Spent(walk[k], w, nx) = [s \in States |-> Cardinality(Spells(h, w.from, nx, s))]
    BY <2>4, <2>5, SpentSteadily
  <2> QED BY <2>2, <2>6
<1>9. ASSUME NEW k \in 0..(c - 1), There(k) PROVE There(k + 1)
  <2>1. PICK e : e = events[k + 1] OBVIOUS
  <2>2. k + 1 \in 1..c /\ k \in 0..c /\ k # c /\ k + 1 # 0 BY <1>2
  <2>3. e = h.events[line[k + 1]] BY <1>2, <1>3, <2>1, <2>2
  <2>4. walk[k + 1] = Advance(walk[k], e, w) BY <1>5, <2>1 DEF StepsOver
  <2>5. NextAt(k) = e.at BY <2>2, <2>3 DEF NextAfter
  <2>6. Cursor(k + 1) = e.at /\ State(k + 1) = e.to BY <2>2, <2>3 DEF CursorAfter, StateAfter
  <2>7. /\ Cursor(k) \in Int /\ e.at \in Int /\ Cursor(k) <= e.at BY <1>6, <2>2, <2>5
  <2>8. e.at < w.to BY <1>1, <2>2, <2>3 DEF WithinAt
  <2>9. walk[k].cursor = Cursor(k) BY <1>9 DEF Knows
  <2>12. ~(e.at >= w.to)
    <3>1. e.at \in Int BY <2>7
    <3> QED BY <2>8, <3>1
  <2>10. CASE e.at <= Cursor(k)
    <3>1. e.at = Cursor(k) BY <2>7, <2>10
    <3>2. walk[k + 1] = [walk[k] EXCEPT !.state = e.to]
      BY <2>4, <2>9, <2>10, <2>12 DEF Advance
    <3>3. walk[k + 1] = [cursor |-> e.at, state |-> e.to, totals |->
              [s \in States |-> Cardinality(Spells(h, w.from, e.at, s))]]
      BY <1>9, <3>1, <3>2 DEF Knows
    <3> QED BY <2>6, <3>3 DEF Knows
  <2>11. CASE ~(e.at <= Cursor(k))
    <3>2. walk[k + 1] = [cursor |-> e.at, state |-> e.to, totals |-> Spent(walk[k], w, e.at)]
      BY <2>4, <2>9, <2>11, <2>12 DEF Advance
    <3>3. Spent(walk[k], w, e.at) =
            [s \in States |-> Cardinality(Spells(h, w.from, e.at, s))]
      BY <1>8, <1>9, <2>2, <2>5
    <3> QED BY <2>6, <3>2, <3>3 DEF Knows
  <2> QED BY <2>10, <2>11
<1> DEFINE Known == {k \in Nat : k <= c => There(k)}
<1>10. There(c)
  <2>1. 0 \in Known BY <1>7
  <2>2. ASSUME NEW k \in Nat, k \in Known PROVE k + 1 \in Known
    <3>1. SUFFICES ASSUME k + 1 <= c PROVE There(k + 1) OBVIOUS
    <3>2. k \in 0..(c - 1) /\ k <= c BY <1>2, <3>1
    <3> HIDE DEF There
    <3>3. There(k) BY <2>2, <3>2
    <3> QED BY <1>9, <3>2, <3>3
  <2> HIDE DEF Known
  <2>3. Nat \subseteq Known BY <2>1, <2>2, FromNaught
  <2> QED BY <1>2, <2>3 DEF Known
<1>11. Spent(walk[c], w, w.to) = of
  <2>1. NextAt(c) = w.to BY DEF NextAfter
  <2>2. c \in 0..c BY <1>2
  <2>3. Spent(walk[c], w, NextAt(c)) =
          [s \in States |-> Cardinality(Spells(h, w.from, NextAt(c), s))]
    BY <1>8, <1>10, <2>2
  <2> HIDE DEF NextAt
  <2> QED BY <2>1, <2>3
<1>12. Walked(start, events, w) = FoldLeft(LAMBDA acc, e : Advance(acc, e, w),
          [cursor |-> w.from, state |-> StateAt(h, w.from), totals |-> [s \in States |-> 0]],
          EventsWithin(h, w))
  BY <1>3, <1>4 DEF Walked
<1>13. ComputeFacingAvailability(TimelineFor(h, w), w) =
         LET totals == Spent(Walked(start, events, w), w, w.to)
         IN  [inStock  |-> totals["in_stock"],
              measured |-> totals["in_stock"] + totals["out_of_stock"],
              unknown  |-> totals["unknown"]]
  BY <1>12 DEF ComputeFacingAvailability, TimelineFor
<1> QED BY <1>5, <1>11, <1>13

\* The states each figure of an availability counts.
Counted == [inStock |-> {"in_stock"}, measured |-> {"in_stock", "out_of_stock"},
            unknown |-> {"unknown"}]

\* The instants of a window at which a facing was in some of the states.
Lived(h, w, states) == {x \in w.from..(w.to - 1) : StateAt(h, x) \in states}

\* Each figure of a facing counts the instants it lived in the states it stands for.
LEMMA FiguresOfFacing ==
    ASSUME NEW n \in Nat, NEW h, InTime(h, n), NEW w, w.from \in Int, w.to \in Int,
           w.from <= w.to, NEW key \in DOMAIN Counted
    PROVE  /\ ComputeFacingAvailability(TimelineFor(h, w), w)[key] \in Nat
           /\ ComputeFacingAvailability(TimelineFor(h, w), w)[key]
                = Cardinality(Lived(h, w, Counted[key]))
<1> DEFINE Of(s) == Spells(h, w.from, w.to, s)
<1>1. PICK of : of = [s \in States |-> Cardinality(Of(s))] OBVIOUS
<1>2. PICK r : r = ComputeFacingAvailability(TimelineFor(h, w), w) OBVIOUS
<1>3. r = [inStock |-> of["in_stock"], measured |-> of["in_stock"] + of["out_of_stock"],
           unknown |-> of["unknown"]]
  BY <1>1, <1>2, EveryInstantOnce
<1>4. \A s \in States : IsFiniteSet(Of(s)) /\ Cardinality(Of(s)) \in Nat
  BY SpellsAreFew
<1>5. /\ of["in_stock"] = Cardinality(Of("in_stock"))
      /\ of["out_of_stock"] = Cardinality(Of("out_of_stock"))
      /\ of["unknown"] = Cardinality(Of("unknown"))
      /\ "in_stock" \in States /\ "out_of_stock" \in States /\ "unknown" \in States
  BY <1>1 DEF States
<1>6. /\ Lived(h, w, {"in_stock"}) = Of("in_stock")
      /\ Lived(h, w, {"unknown"}) = Of("unknown")
      /\ Lived(h, w, {"in_stock", "out_of_stock"}) = Of("in_stock") \cup Of("out_of_stock")
      /\ Of("in_stock") \cap Of("out_of_stock") = {}
  BY DEF Lived, Spells
<1> HIDE DEF Of
<1>7. Cardinality(Of("in_stock") \cup Of("out_of_stock"))
        = Cardinality(Of("in_stock")) + Cardinality(Of("out_of_stock"))
  <2>1. PICK A, B : A = Of("in_stock") /\ B = Of("out_of_stock") OBVIOUS
  <2>2. IsFiniteSet(A) /\ IsFiniteSet(B) /\ A \cap B = {} BY <1>4, <1>5, <1>6, <2>1
  <2>3. Cardinality({}) = 0 BY FS_EmptySet
  <2>4. Cardinality(A \cup B) = Cardinality(A) + Cardinality(B) - Cardinality(A \cap B)
    BY <2>2, FS_Union
  <2>5. Cardinality(A) \in Nat /\ Cardinality(B) \in Nat BY <1>4, <1>5, <2>1
  <2>6. Cardinality(A \cup B) = Cardinality(A) + Cardinality(B) - 0 BY <2>2, <2>3, <2>4
  <2>7. Cardinality(A) + Cardinality(B) - 0 = Cardinality(A) + Cardinality(B) BY <2>5
  <2> QED BY <2>1, <2>6, <2>7
<1>8. CASE key = "inStock"
  <2>1. r[key] = Cardinality(Of("in_stock")) BY <1>3, <1>5, <1>8
  <2>2. Counted[key] = {"in_stock"} BY <1>8 DEF Counted
  <2> QED BY <1>2, <1>4, <1>5, <1>6, <2>1, <2>2
<1>9. CASE key = "unknown"
  <2>1. r[key] = Cardinality(Of("unknown")) BY <1>3, <1>5, <1>9
  <2>2. Counted[key] = {"unknown"} BY <1>9 DEF Counted
  <2> QED BY <1>2, <1>4, <1>5, <1>6, <2>1, <2>2
<1>10. CASE key = "measured"
  <2>1. r[key] = Cardinality(Of("in_stock")) + Cardinality(Of("out_of_stock"))
    BY <1>3, <1>5, <1>10
  <2>2. Counted[key] = {"in_stock", "out_of_stock"} BY <1>10 DEF Counted
  <2>3. r[key] = Cardinality(Lived(h, w, Counted[key])) BY <1>6, <1>7, <2>1, <2>2
  <2>4. Cardinality(Of("in_stock")) \in Nat /\ Cardinality(Of("out_of_stock")) \in Nat
    BY <1>4, <1>5
  <2>5. r[key] \in Nat BY <2>1, <2>4
  <2> QED BY <1>2, <2>3, <2>5
<1> QED BY <1>8, <1>9, <1>10 DEF Counted

\* An index adds up the figures of its facings.
LEMMA IndexAddsUp ==
    ASSUME NEW timelines, NEW w, NEW key \in DOMAIN Counted, IsFiniteSet(DOMAIN timelines),
           NEW v, \A i \in DOMAIN timelines :
             v[i] = ComputeFacingAvailability(timelines[i], w)[key] /\ v[i] \in Int
    PROVE  ComputeAvailabilityIndex(timelines, w)[key] = SumFunctionOnSet(v, DOMAIN timelines)
<1> DEFINE D == DOMAIN timelines
<1>1. PICK per : per = [i \in D |-> ComputeFacingAvailability(timelines[i], w)] OBVIOUS
<1> DEFINE Sum(k) == SumFunction([i \in DOMAIN per |-> per[i][k]])
<1>2. ComputeAvailabilityIndex(timelines, w) =
        [facingCount |-> Len(timelines), inStock |-> Sum("inStock"),
         measured |-> Sum("measured"), unknown |-> Sum("unknown"),
         coverage |-> Fraction(Sum("measured"), Duration(w) * Len(timelines)),
         index |-> Fraction(Sum("inStock"), Sum("measured"))]
  BY <1>1 DEF ComputeAvailabilityIndex
<1>3. ComputeAvailabilityIndex(timelines, w)[key] = Sum(key)
  <2> HIDE DEF Sum
  <2> QED BY <1>2 DEF Counted
<1>4. DOMAIN per = D BY <1>1
<1>5. PICK u : u = [i \in D |-> per[i][key]] OBVIOUS
<1>6. Sum(key) = SumFunctionOnSet(u, D) BY <1>4, <1>5 DEF SumFunction
<1>7. \A i \in D : u[i] = v[i] BY <1>1, <1>5
<1>8. Integral(v, D) BY DEF Integral
<1>9. SumFunctionOnSet(u, D) = SumFunctionOnSet(v, D) BY <1>7, <1>8, SumOfSame
<1> QED BY <1>3, <1>6, <1>9

\* The moments of some facings at which they were in some of the states: one for each
\* facing and instant.
Moments(hs, ids, w, states) ==
    {x \in ids \X (w.from..(w.to - 1)) : StateAt(hs[x[1]], x[2]) \in states}

\* The moments of some facings are those of each of them.
LEMMA MomentsByFacing ==
    ASSUME NEW ids, IsFiniteSet(ids), NEW hs, NEW w, w.from \in Int, w.to \in Int, NEW states,
           NEW v, \A i \in ids : v[i] = Cardinality(Lived(hs[i], w, states))
    PROVE  SumFunctionOnSet(v, ids) = Cardinality(Moments(hs, ids, w, states))
<1> DEFINE S == Moments(hs, ids, w, states)
           T == w.from..(w.to - 1)
<1>1. IsFiniteSet(S)
  <2>1. IsFiniteSet(T)
    <3>1. w.from \in Int /\ w.to - 1 \in Int OBVIOUS
    <3> QED BY <3>1, FS_Interval
  <2>2. IsFiniteSet(ids \X T)
    <3> HIDE DEF T
    <3> QED BY <2>1, FS_Product
  <2>3. S \subseteq ids \X T BY DEF Moments
  <2> HIDE DEF S, T
  <2> QED BY <2>2, <2>3, FS_Subset
<1>2. PICK part : part = [x \in S |-> x[1]] OBVIOUS
<1>3. \A x \in S : part[x] = x[1] /\ part[x] \in ids BY <1>2 DEF Moments
<1>4. ASSUME NEW i \in ids PROVE v[i] = Cardinality(Placed(S, part, i))
  <2> DEFINE L == Lived(hs[i], w, states)
             b == [t \in L |-> <<i, t>>]
  <2>1. \A t \in L : <<i, t>> \in S /\ part[<<i, t>>] = i BY <1>3 DEF Lived, Moments
  <2>2. ASSUME NEW x \in Placed(S, part, i) PROVE \E t \in L : x = <<i, t>>
    <3>1. x \in S /\ x[1] = i BY <1>3, <2>2 DEF Placed
    <3>2. x = <<x[1], x[2]>> /\ x[2] \in L BY <3>1 DEF Moments, Lived
    <3> QED BY <3>1, <3>2
  <2>3. \A t \in L : b[t] = <<i, t>> OBVIOUS
  <2>4. \A t \in L : b[t] \in Placed(S, part, i) BY <2>1, <2>3 DEF Placed
  <2>5. DOMAIN b = L OBVIOUS
  <2>a. b \in [L -> Placed(S, part, i)]
    <3> HIDE DEF L
    <3>1. \A t \in L : <<i, t>> \in Placed(S, part, i) BY <2>3, <2>4
    <3> QED BY <3>1
  <2> HIDE DEF b, L
  <2>6. b \in Injection(L, Placed(S, part, i)) BY <2>3, <2>a DEF Injection, IsInjective
  <2>7. b \in Surjection(L, Placed(S, part, i)) BY <2>2, <2>3, <2>a DEF Surjection
  <2>8. ExistsBijection(L, Placed(S, part, i)) BY <2>6, <2>7 DEF ExistsBijection, Bijection
  <2>9. IsFiniteSet(L)
    <3>1. L \subseteq T BY DEF L, Lived
    <3>2. IsFiniteSet(T)
      <4>1. w.from \in Int /\ w.to - 1 \in Int OBVIOUS
      <4> QED BY <4>1, FS_Interval
    <3> HIDE DEF T
    <3> QED BY <3>1, <3>2, FS_Subset
  <2>10. Cardinality(Placed(S, part, i)) = Cardinality(L) BY <2>8, <2>9, FS_Bijection
  <2> QED BY <2>10 DEF L
<1> HIDE DEF S
<1>5. SumFunctionOnSet(v, ids) = Cardinality(S)
  <2>1. \A x \in S : part[x] \in ids BY <1>3
  <2>2. \A i \in ids : v[i] = Cardinality(Placed(S, part, i)) BY <1>4
  <2> QED BY <1>1, <2>1, <2>2, CountByParts
<1> QED BY <1>5 DEF S

\* The index of some of the facings adds up their figures.
LEMMA MembersAddUp ==
    ASSUME NEW m \in Nat, NEW timelines, DOMAIN timelines = 1..m, NEW P \in SUBSET (1..m),
           NEW w, NEW key \in DOMAIN Counted,
           NEW v, \A i \in 1..m :
             v[i] = ComputeFacingAvailability(timelines[i], w)[key] /\ v[i] \in Int
    PROVE  ComputeAvailabilityIndex(Selected(timelines, P), w)[key] = SumFunctionOnSet(v, P)
<1>1. IsFiniteSet(P)
  <2>1. IsFiniteSet(1..m) BY UpTo
  <2> QED BY <2>1, FS_Subset
<1>2. PICK c : c = Cardinality(P) OBVIOUS
<1>3. c \in Nat BY <1>1, <1>2, FS_CardinalityType
<1>4. PICK line : Keeps(line, c, timelines, P) BY <1>2, SelectedInOrder
<1>5. PICK mine : mine = Selected(timelines, P) OBVIOUS
<1>6. /\ line \in Bijection(1..c, P)
      /\ mine = [k \in 1..c |-> timelines[line[k]]]
  BY <1>4, <1>5 DEF Keeps
<1>7. DOMAIN mine = 1..c /\ \A k \in 1..c : mine[k] = timelines[line[k]] /\ line[k] \in P
  BY <1>6 DEF Bijection, Injection
<1>8. PICK u : u = [k \in 1..c |-> v[line[k]]] OBVIOUS
<1>9. \A k \in 1..c : u[k] = ComputeFacingAvailability(mine[k], w)[key] /\ u[k] \in Int
  BY <1>7, <1>8
<1>10. PICK C : C = 1..c OBVIOUS
<1>11. IsFiniteSet(C) BY <1>3, <1>10, UpTo
<1>12. ComputeAvailabilityIndex(mine, w)[key] = SumFunctionOnSet(u, C)
  <2>1. IsFiniteSet(DOMAIN mine) BY <1>7, <1>10, <1>11
  <2>2. \A k \in DOMAIN mine : u[k] = ComputeFacingAvailability(mine[k], w)[key] /\ u[k] \in Int
    BY <1>7, <1>9
  <2>3. ComputeAvailabilityIndex(mine, w)[key] = SumFunctionOnSet(u, DOMAIN mine)
    BY <2>1, <2>2, IndexAddsUp
  <2> QED BY <1>7, <1>10, <2>3
<1>13. SumFunctionOnSet(u, C) = SumFunctionOnSet(v, P)
  <2>1. Integral(v, P) BY DEF Integral
  <2>2. \A k \in C : u[k] = v[line[k]] BY <1>8, <1>10
  <2>3. line \in Bijection(C, P) BY <1>6, <1>10
  <2> QED BY <1>1, <1>11, <2>1, <2>2, <2>3, SumRenamed
<1> QED BY <1>5, <1>12, <1>13
=============================================================================
