------------------------- MODULE CollectionsProofs -------------------------
(***************************************************************************)
(* Lists act like arrays, and what was assigned to a collection reads back *)
(* (Collections): for any values and keys, collections of any length, and  *)
(* whatever is pushed, spliced, moved, set or assigned.                    *)
(*                                                                         *)
(* A call is a loop of calls of the engine, each on what the one before it *)
(* left.  For each loop an operator says what is there when k of its calls *)
(* have been made and none of them threw (InsertedUpTo, RemovedUpTo,       *)
(* SetUpTo, AddedUpTo); one lemma says that the next call keeps it.  That  *)
(* such a loop comes to its end is GuardedLoop, from the least member of a *)
(* set of naturals.  What a slot keeps of an element is its own reading    *)
(* back, one level at a time (LeafKeeps, NestedKeeps, ElementKeeps).       *)
(***************************************************************************)
EXTENDS Collections, SequenceTheorems, FunctionTheorems, FiniteSetTheorems, WellFoundedInduction,
        TLAPS

-----------------------------------------------------------------------------
(* Loops, and sequences                                                    *)

(* A set of naturals has a least member.                                   *)
LEMMA Least ==
  ASSUME NEW T \in SUBSET Nat, T # {}
  PROVE  \E x \in T : \A y \in T : x <= y
<1> DEFINE R == {ss \in Nat \X Nat : ss[1] < ss[2]}
<1>1. IsWellFoundedOn(R, Nat)
  BY NatLessThanWellFounded DEF OpToRel
<1>2. \A x, y \in Nat : y < x => <<y, x>> \in R
  OBVIOUS
<1> HIDE DEF R
<1>3. PICK x \in T : \A y \in T : ~(<<y, x>> \in R)
  BY <1>1, WFMin
<1>4. \A y \in T : x <= y
  <2> SUFFICES ASSUME NEW y \in T PROVE x <= y
    OBVIOUS
  <2>1. x \in Nat /\ y \in Nat /\ ~(y < x)
    BY <1>2, <1>3
  <2> QED  BY <2>1
<1> QED  BY <1>4

(* What holds at the start and of each next step holds of every step.      *)
LEMMA EveryStep ==
  ASSUME NEW n \in Nat, NEW T, 0 \in T, \A i \in 1..n : i - 1 \in T => i \in T
  PROVE  0..n \subseteq T
<1> DEFINE U == {i \in 0..n : i \notin T}
<1> SUFFICES ASSUME U # {} PROVE FALSE
  OBVIOUS
<1>1. PICK u \in U : \A y \in U : u <= y
  <2>1. U \in SUBSET Nat
    OBVIOUS
  <2> HIDE DEF U
  <2> QED  BY <2>1, Least
<1>2. u \in 1..n /\ u - 1 \in 0..n
  OBVIOUS
<1>3. u - 1 \notin U
  <2>1. u \in Nat /\ ~(u <= u - 1)
    BY <1>2
  <2> HIDE DEF U
  <2> QED  BY <1>1, <2>1
<1> QED  BY <1>2, <1>3

(* A loop that does the same at each step comes to a value at each.        *)
Runs(f, n, V, start, step) ==
  f \in [0..n -> V] /\ f[0] = start /\ \A i \in 1..n : f[i] = step[<<f[i - 1], i>>]

LEMMA LoopRuns ==
  ASSUME NEW n \in Nat, NEW V, NEW start \in V, NEW step \in [V \X (1..n) -> V]
  PROVE  \E f : Runs(f, n, V, start, step)
<1> DEFINE T == {k \in 0..n : \E f : Runs(f, k, V, start, step)}
<1>1. 0 \in T
  <2> DEFINE f == [i \in 0..0 |-> start]
  <2>1. Runs(f, 0, V, start, step)
    BY DEF Runs
  <2> HIDE DEF f
  <2> QED  BY <2>1
<1>2. ASSUME NEW k \in 1..n, k - 1 \in T PROVE k \in T
  <2>1. PICK f : Runs(f, k - 1, V, start, step)
    BY <1>2
  <2> DEFINE g == [i \in 0..k |-> IF i = k THEN step[<<f[k - 1], k>>] ELSE f[i]]
  <2>2. k - 1 \in 0..(k - 1) /\ f[k - 1] \in V
    BY <2>1 DEF Runs
  <2>3. <<f[k - 1], k>> \in V \X (1..n)
    BY <2>2
  <2>4. step[<<f[k - 1], k>>] \in V
    BY <2>3
  <2>5. g \in [0..k -> V]
    <3> SUFFICES ASSUME NEW i \in 0..k PROVE g[i] \in V
      OBVIOUS
    <3>1. i # k => i \in 0..(k - 1)
      OBVIOUS
    <3>2. i # k => f[i] \in V
      BY <2>1, <3>1 DEF Runs
    <3> QED  BY <2>4, <3>2
  <2>6. g[0] = start
    <3>1. 0 # k /\ 0 \in 0..k /\ f[0] = start
      BY <2>1 DEF Runs
    <3> QED  BY <3>1
  <2>7. ASSUME NEW i \in 1..k PROVE g[i] = step[<<g[i - 1], i>>]
    <3>1. i \in 0..k /\ i - 1 \in 0..k /\ i - 1 # k
      OBVIOUS
    <3>2. g[i - 1] = f[i - 1]
      BY <3>1
    <3>3. CASE i = k
      BY <3>1, <3>2, <3>3
    <3>4. CASE i # k
      <4>1. i \in 1..(k - 1)
        BY <3>4
      <4>2. f[i] = step[<<f[i - 1], i>>]
        BY <2>1, <4>1 DEF Runs
      <4>3. g[i] = f[i]
        BY <3>1, <3>4
      <4> HIDE DEF g
      <4> QED  BY <3>2, <4>2, <4>3
    <3> QED  BY <3>3, <3>4
  <2>8. Runs(g, k, V, start, step)
    <3> HIDE DEF g
    <3> QED  BY <2>5, <2>6, <2>7 DEF Runs
  <2>9. k \in 0..n
    OBVIOUS
  <2> HIDE DEF g
  <2> QED  BY <2>8, <2>9
<1>3. 0..n \subseteq T
  <2> HIDE DEF T
  <2> QED  BY <1>1, <1>2, EveryStep
<1>4. n \in T
  BY <1>3
<1> QED  BY <1>4

(* A loop whose steps keep what the next step needs.                       *)
Guarded(n, V, Good, step) ==
  \A i \in 1..n : \A d \in V :
    <<d, i - 1>> \in Good => step[<<d, i>>] \in V /\ <<step[<<d, i>>], i>> \in Good

LEMMA GuardedLoop ==
  ASSUME NEW n \in Nat, NEW V, NEW start \in V, NEW Good, <<start, 0>> \in Good,
         NEW step, Guarded(n, V, Good, step)
  PROVE  \E f : Runs(f, n, V, start, step)
<1>0. \A i \in 1..n : \A d \in V :
        <<d, i - 1>> \in Good => step[<<d, i>>] \in V /\ <<step[<<d, i>>], i>> \in Good
  BY DEF Guarded
<1> DEFINE total == [x \in V \X (1..n) |-> IF <<x[1], x[2] - 1>> \in Good THEN step[x] ELSE x[1]]
<1>1. total \in [V \X (1..n) -> V]
  <2> SUFFICES ASSUME NEW d \in V, NEW i \in 1..n, <<d, i - 1>> \in Good
               PROVE  step[<<d, i>>] \in V
    OBVIOUS
  <2> QED  BY <1>0
<1>2. \A d \in V, i \in 1..n : <<d, i - 1>> \in Good => total[<<d, i>>] = step[<<d, i>>]
  OBVIOUS
<1>3. PICK f : Runs(f, n, V, start, total)
  <2> HIDE DEF total
  <2> QED  BY <1>1, LoopRuns
<1> HIDE DEF total
<1> DEFINE T == {i \in 0..n : <<f[i], i>> \in Good}
<1>4. 0 \in T
  BY <1>3 DEF Runs
<1>5. ASSUME NEW i \in 1..n, i - 1 \in T PROVE i \in T /\ f[i] = step[<<f[i - 1], i>>]
  <2>1. i - 1 \in 0..n /\ i \in 0..n
    OBVIOUS
  <2>2. f[i - 1] \in V /\ f[i] = total[<<f[i - 1], i>>]
    BY <1>3, <2>1 DEF Runs
  <2>3. <<f[i - 1], i - 1>> \in Good
    BY <1>5
  <2>4. f[i] = step[<<f[i - 1], i>>]
    BY <1>2, <2>2, <2>3
  <2>5. <<f[i], i>> \in Good
    BY <1>0, <2>2, <2>3, <2>4
  <2> QED  BY <2>1, <2>4, <2>5
<1>6. 0..n \subseteq T
  <2> HIDE DEF T
  <2> QED  BY <1>4, <1>5, EveryStep
<1>7. \A i \in 1..n : i - 1 \in 0..n
  OBVIOUS
<1>8. \A i \in 1..n : f[i] = step[<<f[i - 1], i>>]
  <2> HIDE DEF T
  <2> QED  BY <1>5, <1>6, <1>7
<1> QED  BY <1>3, <1>8 DEF Runs

(* One sequence after another, element by element.                         *)
LEMMA Joined ==
  ASSUME NEW U, NEW a \in Seq(U), NEW b \in Seq(U), NEW t, t = a \o b,
         NEW m, m = Len(a), NEW n, n = Len(b)
  PROVE  /\ t \in Seq(U) /\ Len(t) = m + n /\ m \in Nat /\ n \in Nat
         /\ \A j \in 1..m : t[j] = a[j]
         /\ \A j \in (m + 1)..(m + n) : t[j] = b[j - m]
<1>1. /\ a \o b \in Seq(U)
      /\ Len(a \o b) = Len(a) + Len(b)
      /\ \A i \in 1 .. Len(a) + Len(b) : (a \o b)[i] = IF i <= Len(a) THEN a[i] ELSE b[i - Len(a)]
  BY ConcatProperties
<1>2. m \in Nat /\ n \in Nat
  BY LenProperties
<1>3. \A i \in 1..(m + n) : t[i] = IF i <= m THEN a[i] ELSE b[i - m]
  BY <1>1, Zenon
<1>4. t \in Seq(U) /\ Len(t) = m + n
  BY <1>1
<1>5. \A j \in 1..m : j \in 1..(m + n) /\ j <= m
  BY <1>2
<1>6. \A j \in (m + 1)..(m + n) : j \in 1..(m + n) /\ ~(j <= m)
  BY <1>2
<1> QED  BY <1>2, <1>3, <1>4, <1>5, <1>6, Zenon

(* An element more, and one fewer.                                         *)
IsWith(t, U, s, i, x) ==
  /\ t \in Seq(U) /\ Len(t) = Len(s) + 1
  /\ t[i] = x
  /\ \A j \in 1..(Len(s) + 1) : (j < i => t[j] = s[j]) /\ (j > i => t[j] = s[j - 1])

LEMMA Inserted ==
  ASSUME NEW U, NEW s \in Seq(U), NEW i \in 1..(Len(s) + 1), NEW x \in U, NEW t, t = InsertAt(s, i, x)
  PROVE  IsWith(t, U, s, i, x)
<1> DEFINE a == SubSeq(s, 1, i - 1)  c == SubSeq(s, i, Len(s))  b == a \o <<x>>
<1>0. Len(s) \in Nat
  BY LenProperties
<1>1. a \in Seq(U) /\ Len(a) = i - 1 /\ \A j \in 1..(i - 1) : a[j] = s[j]
  <2>1. \A j \in 1..(i - 1) : s[j] \in U
    BY <1>0, ElementOfSeq
  <2>2. 1 \in Int /\ i - 1 \in Int
    BY <1>0
  <2>3. /\ a \in Seq(U)
        /\ Len(a) = IF 1 <= i - 1 THEN i - 1 - 1 + 1 ELSE 0
        /\ \A j \in 1..(i - 1 - 1 + 1) : a[j] = s[1 + j - 1]
    BY <2>1, <2>2, SubSeqProperties
  <2> QED  BY <1>0, <2>3
<1>2. c \in Seq(U) /\ Len(c) = Len(s) - i + 1 /\ \A j \in 1..(Len(s) - i + 1) : c[j] = s[i + j - 1]
  <2>1. \A j \in i..Len(s) : s[j] \in U
    BY <1>0, ElementOfSeq
  <2>2. i \in Int /\ Len(s) \in Int
    BY <1>0
  <2>3. /\ c \in Seq(U)
        /\ Len(c) = IF i <= Len(s) THEN Len(s) - i + 1 ELSE 0
        /\ \A j \in 1..(Len(s) - i + 1) : c[j] = s[i + j - 1]
    BY <2>1, <2>2, SubSeqProperties
  <2> QED  BY <1>0, <2>3
<1>3. t = (a \o <<x>>) \o c
  BY DEF InsertAt
<1>4. <<x>> \in Seq(U) /\ Len(<<x>>) = 1 /\ <<x>>[1] = x
  OBVIOUS
<1> HIDE DEF a, c
<1>5. b \in Seq(U) /\ Len(b) = i /\ (\A j \in 1..(i - 1) : b[j] = s[j]) /\ b[i] = x
  <2>1. /\ b \in Seq(U) /\ Len(b) = i - 1 + 1
        /\ \A j \in 1..(i - 1) : b[j] = a[j]
        /\ \A j \in (i - 1 + 1)..(i - 1 + 1) : b[j] = <<x>>[j - (i - 1)]
    <3> DEFINE m == i - 1
    <3>1. b = a \o <<x>> /\ m = Len(a)
      BY <1>1
    <3> HIDE DEF b, m
    <3>2. /\ b \in Seq(U) /\ Len(b) = m + 1
          /\ \A j \in 1..m : b[j] = a[j]
          /\ \A j \in (m + 1)..(m + 1) : b[j] = <<x>>[j - m]
      BY <1>1, <1>4, <3>1, Joined
    <3> QED  BY <3>2 DEF m
  <2>2. i \in Int /\ i - 1 + 1 = i /\ i \in (i - 1 + 1)..(i - 1 + 1) /\ i - (i - 1) = 1
    BY <1>0
  <2>3. b[i] = <<x>>[i - (i - 1)]
    BY <2>1, <2>2
  <2> QED  BY <1>1, <1>4, <2>1, <2>2, <2>3
<1>6. /\ t \in Seq(U) /\ Len(t) = i + (Len(s) - i + 1)
      /\ \A j \in 1..i : t[j] = b[j]
      /\ \A j \in (i + 1)..(i + (Len(s) - i + 1)) : t[j] = c[j - i]
  <2>1. t = b \o c
    BY <1>3
  <2> HIDE DEF b
  <2> QED  BY <1>2, <1>5, <2>1, Joined
<1> HIDE DEF b
<1>7. \A j \in 1..(Len(s) + 1) : j < i => t[j] = s[j]
  BY <1>0, <1>5, <1>6
<1>8. t[i] = x
  BY <1>0, <1>5, <1>6
<1>9. ASSUME NEW j \in 1..(Len(s) + 1), j > i PROVE t[j] = s[j - 1]
  <2>1. j \in (i + 1)..(i + (Len(s) - i + 1)) /\ j - i \in 1..(Len(s) - i + 1) /\ i + (j - i) - 1 = j - 1
    BY <1>0, <1>9
  <2> QED  BY <1>2, <1>6, <2>1
<1>10. Len(t) = Len(s) + 1
  BY <1>0, <1>6
<1> QED  BY <1>6, <1>7, <1>8, <1>9, <1>10 DEF IsWith

IsWithout(t, U, s, i) ==
  /\ t \in Seq(U) /\ Len(t) = Len(s) - 1
  /\ \A j \in 1..(Len(s) - 1) : (j < i => t[j] = s[j]) /\ (j >= i => t[j] = s[j + 1])

LEMMA Removed ==
  ASSUME NEW U, NEW s \in Seq(U), NEW i \in 1..Len(s), NEW t, t = RemoveAt(s, i)
  PROVE  IsWithout(t, U, s, i)
<1> DEFINE a == SubSeq(s, 1, i - 1)  c == SubSeq(s, i + 1, Len(s))
<1>0. Len(s) \in Nat
  BY LenProperties
<1>1. a \in Seq(U) /\ Len(a) = i - 1 /\ \A j \in 1..(i - 1) : a[j] = s[j]
  <2>1. \A j \in 1..(i - 1) : s[j] \in U
    BY <1>0, ElementOfSeq
  <2>2. 1 \in Int /\ i - 1 \in Int
    BY <1>0
  <2>3. /\ a \in Seq(U)
        /\ Len(a) = IF 1 <= i - 1 THEN i - 1 - 1 + 1 ELSE 0
        /\ \A j \in 1..(i - 1 - 1 + 1) : a[j] = s[1 + j - 1]
    BY <2>1, <2>2, SubSeqProperties
  <2> QED  BY <1>0, <2>3
<1>2. c \in Seq(U) /\ Len(c) = Len(s) - i /\ \A j \in 1..(Len(s) - i) : c[j] = s[i + j]
  <2>1. \A j \in (i + 1)..Len(s) : s[j] \in U
    BY <1>0, ElementOfSeq
  <2>2. i + 1 \in Int /\ Len(s) \in Int
    BY <1>0
  <2>3. /\ c \in Seq(U)
        /\ Len(c) = IF i + 1 <= Len(s) THEN Len(s) - (i + 1) + 1 ELSE 0
        /\ \A j \in 1..(Len(s) - (i + 1) + 1) : c[j] = s[i + 1 + j - 1]
    BY <2>1, <2>2, SubSeqProperties
  <2> QED  BY <1>0, <2>3
<1>3. t = a \o c
  BY DEF RemoveAt
<1> HIDE DEF a, c
<1>4. /\ t \in Seq(U) /\ Len(t) = (i - 1) + (Len(s) - i)
      /\ \A j \in 1..(i - 1) : t[j] = a[j]
      /\ \A j \in (i - 1 + 1)..((i - 1) + (Len(s) - i)) : t[j] = c[j - (i - 1)]
  <2> DEFINE m == i - 1  n == Len(s) - i
  <2>1. m = Len(a) /\ n = Len(c) /\ a \in Seq(U) /\ c \in Seq(U)
    BY <1>1, <1>2
  <2> HIDE DEF m, n
  <2>2. /\ t \in Seq(U) /\ Len(t) = m + n
        /\ \A j \in 1..m : t[j] = a[j]
        /\ \A j \in (m + 1)..(m + n) : t[j] = c[j - m]
    BY <1>3, <2>1, Joined
  <2> QED  BY <2>2 DEF m, n
<1>5. \A j \in 1..(Len(s) - 1) : j < i => t[j] = s[j]
  BY <1>0, <1>1, <1>4
<1>6. ASSUME NEW j \in 1..(Len(s) - 1), j >= i PROVE t[j] = s[j + 1]
  <2>1. /\ j \in (i - 1 + 1)..((i - 1) + (Len(s) - i)) /\ j - (i - 1) \in 1..(Len(s) - i)
        /\ i + (j - (i - 1)) = j + 1
    BY <1>0, <1>6
  <2> QED  BY <1>2, <1>4, <2>1
<1>7. Len(t) = Len(s) - 1
  BY <1>0, <1>4
<1> QED  BY <1>4, <1>5, <1>6, <1>7 DEF IsWithout

-----------------------------------------------------------------------------
(* Elements inserted one by one                                            *)

(* What calls leave behind, and what slots keep.                           *)
Lefts(V) == [into : V, threw : BOOLEAN]

IsSlot(x, U) ==
  /\ x.threw \in BOOLEAN
  /\ (x.kept = <<>> /\ x.threw) \/ \E u \in U : x.kept = <<u>>

AreSlots(slots, n, U) == Len(slots) = n /\ \A i \in 1..n : IsSlot(slots[i], U)

(* What Left says, for its records and their fields.                       *)
LEMMA LeftThere ==
  ASSUME NEW V, NEW x \in V, NEW r
  PROVE  /\ r = Left(x, TRUE) => r \in Lefts(V) /\ r.threw /\ r.into = x
         /\ r = Left(x, FALSE) => r \in Lefts(V) /\ ~r.threw /\ r.into = x
<1>1. ASSUME r = Left(x, TRUE) PROVE r \in Lefts(V)
  BY <1>1 DEF Left, Lefts
<1>2. ASSUME r = Left(x, TRUE) PROVE r.threw /\ r.into = x
  BY <1>2 DEF Left
<1>3. ASSUME r = Left(x, FALSE) PROVE r \in Lefts(V)
  BY <1>3 DEF Left, Lefts
<1>4. ASSUME r = Left(x, FALSE) PROVE ~r.threw /\ r.into = x
  BY <1>4 DEF Left
<1> QED  BY <1>1, <1>2, <1>3, <1>4, Zenon

(* A loop that has inserted k elements, unless it threw.                   *)
InsertedUpTo(s, start, slots, U, k, d) ==
  /\ d \in Lefts(Seq(U))
  /\ ~d.threw =>
       /\ k > 0 => start >= 0
       /\ Len(d.into) = Len(s) + k
       /\ \A i \in 1..k : ~slots[i].threw /\ d.into[start + i] = slots[i].kept[1]
       /\ \A j \in 1..start : d.into[j] = s[j]
       /\ \A j \in (start + 1)..Len(s) : d.into[j + k] = s[j]

(* One more element inserted.                                              *)
LEMMA InsertOneKeeps ==
  ASSUME NEW U, NEW s \in Seq(U), NEW start \in Int, start <= Len(s),
         NEW n \in Nat, NEW slots, AreSlots(slots, n, U), NEW k \in 1..n,
         NEW d, InsertedUpTo(s, start, slots, U, k - 1, d),
         NEW r, r = InsertOne(d, start + k, slots[k])
  PROVE  InsertedUpTo(s, start, slots, U, k, r)
<1>0. Len(s) \in Nat /\ d \in Lefts(Seq(U)) /\ d.into \in Seq(U) /\ d.threw \in BOOLEAN /\ k \in Nat
  BY LenProperties DEF InsertedUpTo, Lefts
<1>1. CASE d.threw
  <2>1. r = d
    BY <1>1, Zenon DEF InsertOne
  <2> QED  BY <1>0, <1>1, <2>1 DEF InsertedUpTo
<1>2. CASE ~d.threw /\ start + k < 1
  <2>1. r = Left(d.into, TRUE)
    BY <1>2, Zenon DEF InsertOne
  <2>2. r \in Lefts(Seq(U)) /\ r.threw
    BY <1>0, <2>1, LeftThere
  <2> QED  BY <2>2 DEF InsertedUpTo
<1>3. CASE ~d.threw /\ ~(start + k < 1) /\ slots[k].threw
  <2> DEFINE x == slots[k]
             into == IF x.kept = <<>> THEN d.into ELSE InsertAt(d.into, start + k, x.kept[1])
  <2>1. r = Left(into, TRUE)
    <3>1. r = Left(into, x.threw)
      BY <1>3, Zenon DEF InsertOne
    <3>2. x.threw = TRUE
      BY <1>3 DEF AreSlots, IsSlot
    <3> HIDE DEF x, into
    <3> QED  BY <3>1, <3>2
  <2>2. into \in Seq(U)
    <3>1. CASE x.kept = <<>>
      BY <1>0, <3>1
    <3>2. CASE x.kept # <<>>
      <4>1. PICK u \in U : x.kept = <<u>>
        BY <3>2 DEF AreSlots, IsSlot
      <4>2. into = InsertAt(d.into, start + k, u)
        BY <3>2, <4>1
      <4>3. start >= 0 /\ Len(d.into) = Len(s) + (k - 1)
        BY <1>3 DEF InsertedUpTo
      <4>4. start + k \in 1..(Len(d.into) + 1)
        BY <1>0, <4>3
      <4> HIDE DEF into
      <4> QED  BY <1>0, <4>2, <4>4, Inserted DEF IsWith
    <3> QED  BY <3>1, <3>2
  <2> HIDE DEF into
  <2>3. r \in Lefts(Seq(U)) /\ r.threw
    BY <2>1, <2>2, LeftThere
  <2> QED  BY <2>3 DEF InsertedUpTo
<1>4. CASE ~d.threw /\ ~(start + k < 1) /\ ~slots[k].threw
  <2>1. PICK u \in U : slots[k].kept = <<u>>
    BY <1>4 DEF AreSlots, IsSlot
  <2> DEFINE t == InsertAt(d.into, start + k, u)
  <2>2. r = Left(t, FALSE)
    <3>1. r = Left(InsertAt(d.into, start + k, <<u>>[1]), slots[k].threw)
      <4>1. slots[k].kept # <<>>
        BY <2>1
      <4> QED  BY <1>4, <2>1, <4>1, Zenon DEF InsertOne
    <3>2. slots[k].threw = FALSE
      BY <1>4 DEF AreSlots, IsSlot
    <3>3. <<u>>[1] = u
      OBVIOUS
    <3> QED  BY <3>1, <3>2, <3>3, Zenon
  <2>3. /\ k - 1 > 0 => start >= 0
        /\ Len(d.into) = Len(s) + (k - 1)
        /\ \A i \in 1..(k - 1) : ~slots[i].threw /\ d.into[start + i] = slots[i].kept[1]
        /\ \A j \in 1..start : d.into[j] = s[j]
        /\ \A j \in (start + 1)..Len(s) : d.into[j + (k - 1)] = s[j]
    BY <1>4 DEF InsertedUpTo
  <2>4. start >= 0 /\ start + k \in 1..(Len(d.into) + 1)
    BY <1>0, <1>4, <2>3
  <2>5. /\ t \in Seq(U) /\ Len(t) = Len(d.into) + 1
        /\ t[start + k] = u
        /\ \A j \in 1..(Len(d.into) + 1) :
             (j < start + k => t[j] = d.into[j]) /\ (j > start + k => t[j] = d.into[j - 1])
    <3> DEFINE p == start + k  q == d.into
    <3>1. t = InsertAt(q, p, u) /\ p \in 1..(Len(q) + 1) /\ q \in Seq(U)
      BY <1>0, <2>4
    <3> HIDE DEF t, p, q
    <3>2. IsWith(t, U, q, p, u)
      BY <3>1, Inserted
    <3> QED  BY <3>2 DEF IsWith, p, q
  <2> HIDE DEF t
  <2>6. r \in Lefts(Seq(U)) /\ ~r.threw /\ r.into = t
    BY <2>2, <2>5, LeftThere
  <2>7. Len(t) = Len(s) + k
    BY <1>0, <2>3, <2>5
  <2>8. ASSUME NEW i \in 1..k PROVE ~slots[i].threw /\ t[start + i] = slots[i].kept[1]
    <3>1. start + i \in 1..(Len(d.into) + 1) /\ start + i <= start + k
      BY <1>0, <2>3, <2>4
    <3>2. CASE i = k
      BY <1>4, <2>1, <2>5, <3>1, <3>2
    <3>3. CASE i # k
      <4>1. i \in 1..(k - 1) /\ start + i < start + k
        BY <3>3, <2>4
      <4> QED  BY <2>3, <2>5, <3>1, <4>1
    <3> QED  BY <3>2, <3>3
  <2>9. ASSUME NEW j \in 1..start PROVE t[j] = s[j]
    <3>1. j \in 1..(Len(d.into) + 1) /\ j < start + k
      BY <1>0, <2>3, <2>4
    <3> QED  BY <2>3, <2>5, <3>1
  <2>10. ASSUME NEW j \in (start + 1)..Len(s) PROVE t[j + k] = s[j]
    <3>1. j + k \in 1..(Len(d.into) + 1) /\ j + k > start + k /\ j + k - 1 = j + (k - 1)
      BY <1>0, <2>3, <2>4
    <3>2. t[j + k] = d.into[j + k - 1]
      BY <2>5, <3>1
    <3> QED  BY <2>3, <3>1, <3>2
  <2> QED  BY <2>4, <2>6, <2>7, <2>8, <2>9, <2>10 DEF InsertedUpTo
<1> QED  BY <1>0, <1>1, <1>2, <1>3, <1>4 DEF AreSlots, IsSlot

(* insert() of every element, one after the other.                         *)
LEMMA InsertsAll ==
  ASSUME NEW U, NEW s \in Seq(U), NEW start \in Int, start <= Len(s),
         NEW n \in Nat, NEW slots, AreSlots(slots, n, U)
  PROVE  InsertedUpTo(s, start, slots, U, n, InsertEach(s, start, slots))
<1> DEFINE V == Lefts(Seq(U))
           first == Left(s, FALSE)
           good == {x \in V \X (0..n) : InsertedUpTo(s, start, slots, U, x[2], x[1])}
           step == [x \in V \X (1..n) |-> InsertOne(x[1], start + x[2], slots[x[2]])]
           body(f) == [i \in 0..n |-> IF i = 0 THEN first ELSE InsertOne(f[i - 1], start + i, slots[i])]
           after == CHOOSE f : f = body(f)
<1>1. Len(slots) = n
  BY DEF AreSlots
<1>2. first \in V /\ InsertedUpTo(s, start, slots, U, 0, first)
  BY LenProperties DEF InsertedUpTo, Left, Lefts
<1>3. \A i \in 1..n : \A d \in V : InsertedUpTo(s, start, slots, U, i - 1, d) =>
         /\ InsertOne(d, start + i, slots[i]) \in V
         /\ InsertedUpTo(s, start, slots, U, i, InsertOne(d, start + i, slots[i]))
  <2>1. ASSUME NEW i \in 1..n, NEW d \in V, InsertedUpTo(s, start, slots, U, i - 1, d)
        PROVE  InsertedUpTo(s, start, slots, U, i, InsertOne(d, start + i, slots[i]))
    BY <2>1, InsertOneKeeps
  <2>2. \A i, d : InsertedUpTo(s, start, slots, U, i, d) => d \in V
    BY DEF InsertedUpTo
  <2> HIDE DEF V
  <2> QED  BY <2>1, <2>2
<1>4. PICK f : Runs(f, n, V, first, step)
  <2>1. \A i \in 1..n : \A d \in V : step[<<d, i>>] = InsertOne(d, start + i, slots[i])
    OBVIOUS
  <2>2. \A i \in 0..n : \A d \in V : <<d, i>> \in good <=> InsertedUpTo(s, start, slots, U, i, d)
    OBVIOUS
  <2>3. \A i \in 1..n : i \in 0..n /\ i - 1 \in 0..n
    OBVIOUS
  <2>4. 0 \in 0..n
    OBVIOUS
  <2> HIDE DEF V, first, good, step
  <2>5. first \in V /\ <<first, 0>> \in good
    BY <1>2, <2>2, <2>4
  <2>6. Guarded(n, V, good, step)
    BY <1>3, <2>1, <2>2, <2>3 DEF Guarded
  <2> QED  BY <2>5, <2>6, GuardedLoop
<1>5. \A i \in 1..n : f[i] = InsertOne(f[i - 1], start + i, slots[i])
  <2>1. \A i \in 1..n : i - 1 \in 0..n
    OBVIOUS
  <2>2. \A i \in 1..n : f[i - 1] \in V
    BY <1>4, <2>1 DEF Runs
  <2>3. \A i \in 1..n : \A d \in V : step[<<d, i>>] = InsertOne(d, start + i, slots[i])
    OBVIOUS
  <2> HIDE DEF V, step
  <2> QED  BY <1>4, <2>2, <2>3 DEF Runs
<1> HIDE DEF V, first, good, step
<1>6. f = body(f)
  <2>1. \A i \in 0..n : i # 0 => i \in 1..n
    OBVIOUS
  <2>2. f = [i \in 0..n |-> f[i]]
    BY <1>4 DEF Runs
  <2> QED  BY <1>4, <1>5, <2>1, <2>2, Zenon DEF Runs
<1>7. after = body(after)
  <2> HIDE DEF body
  <2> QED  BY <1>6, Zenon
<1>8. InsertEach(s, start, slots) = after[n]
  BY <1>1, Zenon DEF InsertEach, first
<1>9. after[0] = first /\ \A i \in 1..n : after[i] = InsertOne(after[i - 1], start + i, slots[i])
  <2>1. 0 \in 0..n /\ \A i \in 1..n : i \in 0..n /\ i # 0
    OBVIOUS
  <2> HIDE DEF after
  <2> QED  BY <1>7, <2>1, Zenon
<1> HIDE DEF after
<1> DEFINE T == {i \in 0..n : InsertedUpTo(s, start, slots, U, i, after[i])}
<1>10. 0 \in T
  BY <1>2, <1>9
<1>11. \A i \in 1..n : i - 1 \in T => i \in T
  <2> SUFFICES ASSUME NEW i \in 1..n, i - 1 \in T PROVE i \in T
    OBVIOUS
  <2>1. i \in 0..n /\ InsertedUpTo(s, start, slots, U, i - 1, after[i - 1])
    OBVIOUS
  <2>2. InsertedUpTo(s, start, slots, U, i, after[i])
    BY <1>9, <2>1, InsertOneKeeps
  <2> QED  BY <2>1, <2>2
<1>12. n \in T
  <2>1. n \in 0..n
    OBVIOUS
  <2> HIDE DEF T
  <2> QED  BY <1>10, <1>11, <2>1, EveryStep
<1> QED  BY <1>8, <1>12

-----------------------------------------------------------------------------
(* Elements removed one by one                                             *)

(* A loop that has removed k elements, the last of which stood at the end. *)
RemovedUpTo(s, end, U, k, t) ==
  /\ t \in Seq(U) /\ Len(t) = Len(s) - k
  /\ \A j \in 1..(end - k) : t[j] = s[j]
  /\ \A j \in (end - k + 1)..(Len(s) - k) : t[j] = s[j + k]

(* One more element removed, from the end.                                 *)
LEMMA RemoveOneKeeps ==
  ASSUME NEW U, NEW s \in Seq(U), NEW end \in Int, end <= Len(s),
         NEW n \in Nat, n = 0 \/ n <= end, NEW k \in 1..n,
         NEW d, RemovedUpTo(s, end, U, k - 1, d)
  PROVE  RemovedUpTo(s, end, U, k, RemoveAt(d, end - k + 1))
<1> DEFINE p == end - k + 1  t == RemoveAt(d, p)
<1>0. Len(s) \in Nat /\ k \in Nat /\ k <= end
  BY LenProperties
<1>1. /\ d \in Seq(U) /\ Len(d) = Len(s) - (k - 1)
      /\ \A j \in 1..(end - (k - 1)) : d[j] = s[j]
      /\ \A j \in (end - (k - 1) + 1)..(Len(s) - (k - 1)) : d[j] = s[j + (k - 1)]
  BY DEF RemovedUpTo
<1>2. p \in 1..Len(d)
  BY <1>0, <1>1
<1>3. IsWithout(t, U, d, p)
  <2>1. t = RemoveAt(d, p)
    OBVIOUS
  <2> HIDE DEF t, p
  <2> QED  BY <1>1, <1>2, <2>1, Removed
<1> HIDE DEF t
<1>4. t \in Seq(U) /\ Len(t) = Len(s) - k
  BY <1>0, <1>1, <1>3 DEF IsWithout
<1>5. ASSUME NEW j \in 1..(end - k) PROVE t[j] = s[j]
  <2>1. j \in 1..(Len(d) - 1) /\ j < p /\ j \in 1..(end - (k - 1))
    BY <1>0, <1>1
  <2> QED  BY <1>1, <1>3, <2>1 DEF IsWithout
<1>6. ASSUME NEW j \in (end - k + 1)..(Len(s) - k) PROVE t[j] = s[j + k]
  <2>1. /\ j \in 1..(Len(d) - 1) /\ j >= p /\ j + 1 + (k - 1) = j + k
        /\ j + 1 \in (end - (k - 1) + 1)..(Len(s) - (k - 1))
    BY <1>0, <1>1
  <2>2. t[j] = d[j + 1]
    BY <1>3, <2>1 DEF IsWithout
  <2>3. d[j + 1] = s[j + 1 + (k - 1)]
    BY <1>1, <2>1
  <2> QED  BY <2>1, <2>2, <2>3
<1>7. RemovedUpTo(s, end, U, k, t)
  BY <1>4, <1>5, <1>6 DEF RemovedUpTo
<1> QED  BY <1>7 DEF t

(* The elements from end - 1 down to start, one after the other.           *)
LEMMA RemovesAll ==
  ASSUME NEW U, NEW s \in Seq(U), NEW start \in Int, NEW end \in Int, end <= Len(s),
         start >= 0 \/ start >= end, NEW n, n = Removals(start, end)
  PROVE  n \in Nat /\ RemovedUpTo(s, end, U, n, RemoveBackwards(s, start, end))
<1>1. n \in Nat /\ (n = 0 \/ n <= end)
  BY DEF Removals
<1> DEFINE V == Seq(U)
           good == {x \in V \X (0..n) : RemovedUpTo(s, end, U, x[2], x[1])}
           step == [x \in V \X (1..n) |-> RemoveAt(x[1], end - x[2] + 1)]
           body(f) == [i \in 0..n |-> IF i = 0 THEN s ELSE RemoveAt(f[i - 1], end - i + 1)]
           after == CHOOSE f : f = body(f)
<1>2. s \in V /\ RemovedUpTo(s, end, U, 0, s)
  <2>1. Len(s) \in Nat /\ \A j \in (end - 0 + 1)..(Len(s) - 0) : j + 0 = j
    BY LenProperties
  <2> QED  BY <2>1 DEF RemovedUpTo
<1>3. \A i \in 1..n : \A d \in V : RemovedUpTo(s, end, U, i - 1, d) =>
         /\ RemoveAt(d, end - i + 1) \in V
         /\ RemovedUpTo(s, end, U, i, RemoveAt(d, end - i + 1))
  <2>1. ASSUME NEW i \in 1..n, NEW d \in V, RemovedUpTo(s, end, U, i - 1, d)
        PROVE  RemovedUpTo(s, end, U, i, RemoveAt(d, end - i + 1))
    BY <1>1, <2>1, RemoveOneKeeps
  <2>2. \A i, d : RemovedUpTo(s, end, U, i, d) => d \in V
    BY DEF RemovedUpTo
  <2> HIDE DEF V
  <2> QED  BY <2>1, <2>2
<1>4. PICK f : Runs(f, n, V, s, step)
  <2>1. \A i \in 1..n : \A d \in V : step[<<d, i>>] = RemoveAt(d, end - i + 1)
    OBVIOUS
  <2>2. \A i \in 0..n : \A d \in V : <<d, i>> \in good <=> RemovedUpTo(s, end, U, i, d)
    OBVIOUS
  <2>3. (\A i \in 1..n : i \in 0..n /\ i - 1 \in 0..n) /\ 0 \in 0..n
    BY <1>1
  <2> HIDE DEF V, good, step
  <2>5. s \in V /\ <<s, 0>> \in good
    BY <1>2, <2>2, <2>3
  <2>6. Guarded(n, V, good, step)
    BY <1>3, <2>1, <2>2, <2>3 DEF Guarded
  <2> QED  BY <1>1, <2>5, <2>6, GuardedLoop
<1>5. \A i \in 1..n : f[i] = RemoveAt(f[i - 1], end - i + 1)
  <2>1. \A i \in 1..n : i - 1 \in 0..n
    BY <1>1
  <2>2. \A i \in 1..n : f[i - 1] \in V
    BY <1>4, <2>1 DEF Runs
  <2>3. \A i \in 1..n : \A d \in V : step[<<d, i>>] = RemoveAt(d, end - i + 1)
    OBVIOUS
  <2> HIDE DEF V, step
  <2> QED  BY <1>4, <2>2, <2>3 DEF Runs
<1> HIDE DEF V, good, step
<1>6. f = body(f)
  <2>1. \A i \in 0..n : i # 0 => i \in 1..n
    BY <1>1
  <2>2. f = [i \in 0..n |-> f[i]]
    BY <1>4 DEF Runs
  <2> QED  BY <1>4, <1>5, <2>1, <2>2, Zenon DEF Runs
<1>7. after = body(after)
  <2> HIDE DEF body
  <2> QED  BY <1>6, Zenon
<1>8. RemoveBackwards(s, start, end) = after[n]
  BY Zenon DEF RemoveBackwards
<1>9. after[0] = s /\ \A i \in 1..n : after[i] = RemoveAt(after[i - 1], end - i + 1)
  <2>1. 0 \in 0..n /\ \A i \in 1..n : i \in 0..n /\ i # 0
    BY <1>1
  <2> HIDE DEF after
  <2> QED  BY <1>7, <2>1, Zenon
<1> HIDE DEF after
<1> DEFINE T == {i \in 0..n : RemovedUpTo(s, end, U, i, after[i])}
<1>10. 0 \in T
  BY <1>1, <1>2, <1>9
<1>11. \A i \in 1..n : i - 1 \in T => i \in T
  <2> SUFFICES ASSUME NEW i \in 1..n, i - 1 \in T PROVE i \in T
    OBVIOUS
  <2>1. i \in 0..n /\ RemovedUpTo(s, end, U, i - 1, after[i - 1])
    BY <1>1
  <2>2. RemovedUpTo(s, end, U, i, after[i])
    BY <1>1, <1>9, <2>1, RemoveOneKeeps
  <2> QED  BY <2>1, <2>2
<1>12. n \in T
  <2>1. n \in 0..n
    BY <1>1
  <2> HIDE DEF T
  <2> QED  BY <1>1, <1>10, <1>11, <2>1, EveryStep
<1> QED  BY <1>1, <1>8, <1>12

-----------------------------------------------------------------------------
(* Entries set one by one                                                  *)

(* A loop that has set k entries, unless it threw.                         *)
MapsOf(K, U) == UNION {[D -> U] : D \in SUBSET K}

(* A dictionary of any of the keys.                                        *)
LEMMA MapsOfIs ==
  ASSUME NEW K, NEW U, NEW f
  PROVE  /\ f \in MapsOf(K, U) =>
              DOMAIN f \subseteq K /\ f = [x \in DOMAIN f |-> f[x]] /\ \A x \in DOMAIN f : f[x] \in U
         /\ (DOMAIN f \subseteq K /\ f = [x \in DOMAIN f |-> f[x]] /\ \A x \in DOMAIN f : f[x] \in U)
              => f \in MapsOf(K, U)
<1>1. ASSUME f \in MapsOf(K, U)
      PROVE  DOMAIN f \subseteq K /\ f = [x \in DOMAIN f |-> f[x]] /\ \A x \in DOMAIN f : f[x] \in U
  <2>1. PICK D \in SUBSET K : f \in [D -> U]
    BY <1>1 DEF MapsOf
  <2> QED  BY <2>1
<1>2. ASSUME DOMAIN f \subseteq K, f = [x \in DOMAIN f |-> f[x]], \A x \in DOMAIN f : f[x] \in U
      PROVE  f \in MapsOf(K, U)
  <2>1. f \in [DOMAIN f -> U]
    BY <1>2
  <2>2. DOMAIN f \in SUBSET K
    BY <1>2
  <2> QED  BY <2>1, <2>2 DEF MapsOf
<1> QED  BY <1>1, <1>2

IsPut(g, f, K, U, x, v) ==
  /\ g \in MapsOf(K, U) /\ DOMAIN g = DOMAIN f \cup {x} /\ g[x] = v
  /\ \A y \in DOMAIN f : y # x => g[y] = f[y]

(* Put changes one entry.                                                  *)
LEMMA Puts ==
  ASSUME NEW K, NEW U, NEW f \in MapsOf(K, U), NEW x \in K, NEW v \in U, NEW g, g = Put(f, x, v)
  PROVE  IsPut(g, f, K, U, x, v)
<1>1. DOMAIN f \subseteq K /\ \A y \in DOMAIN f : f[y] \in U
  BY MapsOfIs
<1>2. DOMAIN g = DOMAIN f \cup {x}
  BY DEF Put
<1>3. g = [y \in DOMAIN f \cup {x} |-> g[y]]
  BY DEF Put
<1>4. g[x] = v /\ \A y \in DOMAIN f : y # x => g[y] = f[y]
  BY DEF Put
<1>5. \A y \in DOMAIN g : g[y] \in U
  BY <1>1, <1>2, <1>4
<1>6. DOMAIN g \subseteq K
  BY <1>1, <1>2
<1>7. g \in MapsOf(K, U)
  <2>1. g = [y \in DOMAIN g |-> g[y]]
    BY <1>2, <1>3
  <2> QED  BY <1>5, <1>6, <2>1, MapsOfIs
<1> QED  BY <1>2, <1>4, <1>7 DEF IsPut

ArePairs(pairs, n, K) ==
  /\ Len(pairs) = n
  /\ \A i \in 1..n : pairs[i][1] \in K
  /\ \A i, j \in 1..n : i # j => pairs[i][1] # pairs[j][1]

SetUpTo(before, pairs, slots, K, U, k, d) ==
  /\ d \in Lefts(MapsOf(K, U))
  /\ ~d.threw =>
       /\ DOMAIN d.into = DOMAIN before \cup {pairs[i][1] : i \in 1..k}
       /\ \A i \in 1..k : ~slots[i].threw /\ d.into[pairs[i][1]] = slots[i].kept[1]
       /\ \A x \in DOMAIN before : (\A i \in 1..k : pairs[i][1] # x) => d.into[x] = before[x]

(* One more entry set: no later pair has its key.                          *)
LEMMA SetOneKeeps ==
  ASSUME NEW K, NEW U, NEW before \in MapsOf(K, U), NEW n \in Nat,
         NEW pairs, ArePairs(pairs, n, K), NEW slots, AreSlots(slots, n, U), NEW k \in 1..n,
         NEW d, SetUpTo(before, pairs, slots, K, U, k - 1, d),
         NEW r, r = SetOne(d, pairs[k][1], slots[k])
  PROVE  SetUpTo(before, pairs, slots, K, U, k, r)
<1>0. d \in Lefts(MapsOf(K, U)) /\ d.into \in MapsOf(K, U) /\ d.threw \in BOOLEAN
  BY DEF SetUpTo, Lefts
<1>1. CASE d.threw
  <2>1. r = d
    BY <1>1, Zenon DEF SetOne
  <2> QED  BY <1>0, <1>1, <2>1 DEF SetUpTo
<1>2. pairs[k][1] \in K
  BY DEF ArePairs
<1>3. CASE ~d.threw /\ slots[k].threw
  <2> DEFINE x == slots[k]
             into == IF x.kept = <<>> THEN d.into ELSE Put(d.into, pairs[k][1], x.kept[1])
  <2>1. r = Left(into, TRUE)
    <3>1. r = Left(into, x.threw)
      BY <1>3, Zenon DEF SetOne
    <3>2. x.threw = TRUE
      BY <1>3 DEF AreSlots, IsSlot
    <3> HIDE DEF x, into
    <3> QED  BY <3>1, <3>2
  <2>2. into \in MapsOf(K, U)
    <3>1. CASE x.kept = <<>>
      BY <1>0, <3>1
    <3>2. CASE x.kept # <<>>
      <4>1. PICK u \in U : x.kept = <<u>>
        BY <3>2 DEF AreSlots, IsSlot
      <4>2. into = Put(d.into, pairs[k][1], u)
        BY <3>2, <4>1
      <4> HIDE DEF into
      <4> QED  BY <1>0, <1>2, <4>2, Puts DEF IsPut
    <3> QED  BY <3>1, <3>2
  <2> HIDE DEF into
  <2>3. r \in Lefts(MapsOf(K, U)) /\ r.threw
    BY <2>1, <2>2, LeftThere
  <2> QED  BY <2>3 DEF SetUpTo
<1>4. CASE ~d.threw /\ ~slots[k].threw
  <2>1. PICK u \in U : slots[k].kept = <<u>>
    BY <1>4 DEF AreSlots, IsSlot
  <2> DEFINE g == Put(d.into, pairs[k][1], u)  f == d.into  q == pairs[k][1]
  <2>2. r = Left(g, FALSE)
    <3>1. r = Left(Put(d.into, pairs[k][1], <<u>>[1]), slots[k].threw)
      <4>1. slots[k].kept # <<>>
        BY <2>1
      <4> QED  BY <1>4, <2>1, <4>1, Zenon DEF SetOne
    <3>2. slots[k].threw = FALSE
      BY <1>4 DEF AreSlots, IsSlot
    <3>3. <<u>>[1] = u
      OBVIOUS
    <3> QED  BY <3>1, <3>2, <3>3, Zenon
  <2>3. /\ DOMAIN f = DOMAIN before \cup {pairs[i][1] : i \in 1..(k - 1)}
        /\ \A i \in 1..(k - 1) : ~slots[i].threw /\ f[pairs[i][1]] = slots[i].kept[1]
        /\ \A x \in DOMAIN before : (\A i \in 1..(k - 1) : pairs[i][1] # x) => f[x] = before[x]
    BY <1>4 DEF SetUpTo
  <2>4. g = Put(f, q, u) /\ f \in MapsOf(K, U) /\ q \in K /\ q = pairs[k][1]
    BY <1>0, <1>2
  <2>5. \A i \in 1..k : i = k \/ i \in 1..(k - 1)
    OBVIOUS
  <2>6. \A i \in 1..(k - 1) : i \in 1..k /\ pairs[i][1] # q
    <3>1. \A i \in 1..(k - 1) : i \in 1..n /\ i \in 1..k /\ i # k
      OBVIOUS
    <3> QED  BY <3>1 DEF ArePairs
  <2>7. f = d.into
    OBVIOUS
  <2> HIDE DEF g, f, q
  <2>8. IsPut(g, f, K, U, q, u)
    BY <2>4, Puts
  <2>9. r \in Lefts(MapsOf(K, U)) /\ ~r.threw /\ r.into = g
    BY <2>2, <2>8, LeftThere DEF IsPut
  <2>10. DOMAIN g = DOMAIN before \cup {pairs[i][1] : i \in 1..k}
    <3>1. {pairs[i][1] : i \in 1..k} = {pairs[i][1] : i \in 1..(k - 1)} \cup {q}
      BY <2>4, <2>5, <2>6
    <3> QED  BY <2>3, <2>8, <3>1 DEF IsPut
  <2>11. ASSUME NEW i \in 1..k PROVE ~slots[i].threw /\ g[pairs[i][1]] = slots[i].kept[1]
    <3>1. CASE i = k
      BY <1>4, <2>1, <2>4, <2>8, <3>1 DEF IsPut
    <3>2. CASE i \in 1..(k - 1)
      BY <2>3, <2>6, <2>8, <3>2 DEF IsPut
    <3> QED  BY <2>5, <3>1, <3>2
  <2>12. ASSUME NEW x \in DOMAIN before, \A i \in 1..k : pairs[i][1] # x PROVE g[x] = before[x]
    <3>1. x # q /\ \A i \in 1..(k - 1) : pairs[i][1] # x
      BY <2>4, <2>6, <2>12
    <3> QED  BY <2>3, <2>8, <3>1 DEF IsPut
  <2> QED  BY <2>9, <2>10, <2>11, <2>12 DEF SetUpTo
<1>5. slots[k].threw \in BOOLEAN
  BY DEF AreSlots, IsSlot
<1> QED  BY <1>0, <1>1, <1>3, <1>4, <1>5

(* set() of every pair, one after the other.                               *)
LEMMA SetsAll ==
  ASSUME NEW K, NEW U, NEW before \in MapsOf(K, U), NEW n \in Nat,
         NEW pairs, ArePairs(pairs, n, K), NEW slots, AreSlots(slots, n, U)
  PROVE  SetUpTo(before, pairs, slots, K, U, n, SetEntries(before, pairs, slots))
<1> DEFINE V == Lefts(MapsOf(K, U))
           first == Left(before, FALSE)
           good == {x \in V \X (0..n) : SetUpTo(before, pairs, slots, K, U, x[2], x[1])}
           step == [x \in V \X (1..n) |-> SetOne(x[1], pairs[x[2]][1], slots[x[2]])]
           body(f) == [i \in 0..n |-> IF i = 0 THEN first ELSE SetOne(f[i - 1], pairs[i][1], slots[i])]
           after == CHOOSE f : f = body(f)
<1>1. Len(pairs) = n
  BY DEF ArePairs
<1>2. first \in V /\ SetUpTo(before, pairs, slots, K, U, 0, first)
  <2>1. first \in V /\ ~first.threw /\ first.into = before
    BY LeftThere
  <2>2. 1..0 = {}
    OBVIOUS
  <2>3. {pairs[i][1] : i \in 1..0} = {}
    BY <2>2
  <2> HIDE DEF first
  <2> QED  BY <2>1, <2>2, <2>3 DEF SetUpTo
<1>3. \A i \in 1..n : \A d \in V : SetUpTo(before, pairs, slots, K, U, i - 1, d) =>
         /\ SetOne(d, pairs[i][1], slots[i]) \in V
         /\ SetUpTo(before, pairs, slots, K, U, i, SetOne(d, pairs[i][1], slots[i]))
  <2>1. ASSUME NEW i \in 1..n, NEW d \in V, SetUpTo(before, pairs, slots, K, U, i - 1, d)
        PROVE  SetUpTo(before, pairs, slots, K, U, i, SetOne(d, pairs[i][1], slots[i]))
    BY <2>1, SetOneKeeps
  <2>2. \A i, d : SetUpTo(before, pairs, slots, K, U, i, d) => d \in V
    BY DEF SetUpTo
  <2> HIDE DEF V
  <2> QED  BY <2>1, <2>2
<1>4. PICK f : Runs(f, n, V, first, step)
  <2>1. \A i \in 1..n : \A d \in V : step[<<d, i>>] = SetOne(d, pairs[i][1], slots[i])
    OBVIOUS
  <2>2. \A i \in 0..n : \A d \in V : <<d, i>> \in good <=> SetUpTo(before, pairs, slots, K, U, i, d)
    OBVIOUS
  <2>3. (\A i \in 1..n : i \in 0..n /\ i - 1 \in 0..n) /\ 0 \in 0..n
    OBVIOUS
  <2> HIDE DEF V, first, good, step
  <2>5. first \in V /\ <<first, 0>> \in good
    BY <1>2, <2>2, <2>3
  <2>6. Guarded(n, V, good, step)
    BY <1>3, <2>1, <2>2, <2>3 DEF Guarded
  <2> QED  BY <2>5, <2>6, GuardedLoop
<1>5. \A i \in 1..n : f[i] = SetOne(f[i - 1], pairs[i][1], slots[i])
  <2>1. \A i \in 1..n : i - 1 \in 0..n
    OBVIOUS
  <2>2. \A i \in 1..n : f[i - 1] \in V
    BY <1>4, <2>1 DEF Runs
  <2>3. \A i \in 1..n : \A d \in V : step[<<d, i>>] = SetOne(d, pairs[i][1], slots[i])
    OBVIOUS
  <2> HIDE DEF V, step
  <2> QED  BY <1>4, <2>2, <2>3 DEF Runs
<1> HIDE DEF V, first, good, step
<1>6. f = body(f)
  <2>1. \A i \in 0..n : i # 0 => i \in 1..n
    OBVIOUS
  <2>2. f = [i \in 0..n |-> f[i]]
    BY <1>4 DEF Runs
  <2> QED  BY <1>4, <1>5, <2>1, <2>2, Zenon DEF Runs
<1>7. after = body(after)
  <2> HIDE DEF body
  <2> QED  BY <1>6, Zenon
<1>8. SetEntries(before, pairs, slots) = after[n]
  BY <1>1, Zenon DEF SetEntries, first
<1>9. after[0] = first /\ \A i \in 1..n : after[i] = SetOne(after[i - 1], pairs[i][1], slots[i])
  <2>1. 0 \in 0..n /\ \A i \in 1..n : i \in 0..n /\ i # 0
    OBVIOUS
  <2> HIDE DEF after
  <2> QED  BY <1>7, <2>1, Zenon
<1> HIDE DEF after
<1> DEFINE T == {i \in 0..n : SetUpTo(before, pairs, slots, K, U, i, after[i])}
<1>10. 0 \in T
  BY <1>2, <1>9
<1>11. \A i \in 1..n : i - 1 \in T => i \in T
  <2> SUFFICES ASSUME NEW i \in 1..n, i - 1 \in T PROVE i \in T
    OBVIOUS
  <2>1. i \in 0..n /\ SetUpTo(before, pairs, slots, K, U, i - 1, after[i - 1])
    OBVIOUS
  <2>2. SetUpTo(before, pairs, slots, K, U, i, after[i])
    BY <1>9, <2>1, SetOneKeeps
  <2> QED  BY <2>1, <2>2
<1>12. n \in T
  <2>1. n \in 0..n
    OBVIOUS
  <2> HIDE DEF T
  <2> QED  BY <1>10, <1>11, <2>1, EveryStep
<1> QED  BY <1>8, <1>12

-----------------------------------------------------------------------------
(* Members added one by one                                                *)

(* A loop that has added k members, unless it threw.                       *)
AddedUpTo(members, items, k, d) ==
  /\ d \in Lefts(SUBSET Values)
  /\ ~d.threw => d.into = members \cup {items[i] : i \in 1..k}

(* One more member added.                                                  *)
LEMMA AddOneKeeps ==
  ASSUME NEW members \in SUBSET Values, NEW n \in Nat, NEW items, NEW k \in 1..n,
         NEW d, AddedUpTo(members, items, k - 1, d),
         NEW r, r = InsertMember(d, items[k])
  PROVE  AddedUpTo(members, items, k, r)
<1>0. d \in Lefts(SUBSET Values) /\ d.into \in SUBSET Values /\ d.threw \in BOOLEAN
  BY DEF AddedUpTo, Lefts
<1>1. CASE d.threw \/ items[k] \notin Values
  <2>1. r = Left(d.into, TRUE)
    BY <1>1, Zenon DEF InsertMember
  <2>2. r \in Lefts(SUBSET Values) /\ r.threw
    BY <1>0, <2>1, LeftThere
  <2> QED  BY <2>2 DEF AddedUpTo
<1>2. CASE ~d.threw /\ items[k] \in Values
  <2> DEFINE into == d.into \cup {items[k]}
  <2>1. r = Left(into, FALSE)
    BY <1>2, Zenon DEF InsertMember
  <2>2. into \in SUBSET Values
    BY <1>0, <1>2
  <2>3. into = members \cup {items[i] : i \in 1..k}
    <3>1. d.into = members \cup {items[i] : i \in 1..(k - 1)}
      BY <1>2 DEF AddedUpTo
    <3>2. \A i : i \in 1..k <=> i = k \/ i \in 1..(k - 1)
      OBVIOUS
    <3> QED  BY <3>1, <3>2
  <2> HIDE DEF into
  <2>4. r \in Lefts(SUBSET Values) /\ ~r.threw /\ r.into = into
    BY <2>1, <2>2, LeftThere
  <2> QED  BY <2>3, <2>4 DEF AddedUpTo
<1> QED  BY <1>0, <1>1, <1>2

(* add() of every element, one after the other.                            *)
LEMMA AddsAll ==
  ASSUME NEW members \in SUBSET Values, NEW n \in Nat, NEW items, Len(items) = n
  PROVE  AddedUpTo(members, items, n, InsertMembers(members, items))
<1> DEFINE V == Lefts(SUBSET Values)
           first == Left(members, FALSE)
           good == {x \in V \X (0..n) : AddedUpTo(members, items, x[2], x[1])}
           step == [x \in V \X (1..n) |-> InsertMember(x[1], items[x[2]])]
           body(f) == [i \in 0..n |-> IF i = 0 THEN first ELSE InsertMember(f[i - 1], items[i])]
           after == CHOOSE f : f = body(f)
<1>2. first \in V /\ AddedUpTo(members, items, 0, first)
  <2>1. first \in V /\ ~first.threw /\ first.into = members
    BY LeftThere
  <2>2. 1..0 = {}
    OBVIOUS
  <2>3. {items[i] : i \in 1..0} = {}
    BY <2>2
  <2> HIDE DEF first
  <2> QED  BY <2>1, <2>3 DEF AddedUpTo
<1>3. \A i \in 1..n : \A d \in V : AddedUpTo(members, items, i - 1, d) =>
         /\ InsertMember(d, items[i]) \in V
         /\ AddedUpTo(members, items, i, InsertMember(d, items[i]))
  <2>1. ASSUME NEW i \in 1..n, NEW d \in V, AddedUpTo(members, items, i - 1, d)
        PROVE  AddedUpTo(members, items, i, InsertMember(d, items[i]))
    BY <2>1, AddOneKeeps
  <2>2. \A i, d : AddedUpTo(members, items, i, d) => d \in V
    BY DEF AddedUpTo
  <2> HIDE DEF V
  <2> QED  BY <2>1, <2>2
<1>4. PICK f : Runs(f, n, V, first, step)
  <2>1. \A i \in 1..n : \A d \in V : step[<<d, i>>] = InsertMember(d, items[i])
    OBVIOUS
  <2>2. \A i \in 0..n : \A d \in V : <<d, i>> \in good <=> AddedUpTo(members, items, i, d)
    OBVIOUS
  <2>3. (\A i \in 1..n : i \in 0..n /\ i - 1 \in 0..n) /\ 0 \in 0..n
    OBVIOUS
  <2> HIDE DEF V, first, good, step
  <2>5. first \in V /\ <<first, 0>> \in good
    BY <1>2, <2>2, <2>3
  <2>6. Guarded(n, V, good, step)
    BY <1>3, <2>1, <2>2, <2>3 DEF Guarded
  <2> QED  BY <2>5, <2>6, GuardedLoop
<1>5. \A i \in 1..n : f[i] = InsertMember(f[i - 1], items[i])
  <2>1. \A i \in 1..n : i - 1 \in 0..n
    OBVIOUS
  <2>2. \A i \in 1..n : f[i - 1] \in V
    BY <1>4, <2>1 DEF Runs
  <2>3. \A i \in 1..n : \A d \in V : step[<<d, i>>] = InsertMember(d, items[i])
    OBVIOUS
  <2> HIDE DEF V, step
  <2> QED  BY <1>4, <2>2, <2>3 DEF Runs
<1> HIDE DEF V, first, good, step
<1>6. f = body(f)
  <2>1. \A i \in 0..n : i # 0 => i \in 1..n
    OBVIOUS
  <2>2. f = [i \in 0..n |-> f[i]]
    BY <1>4 DEF Runs
  <2> QED  BY <1>4, <1>5, <2>1, <2>2, Zenon DEF Runs
<1>7. after = body(after)
  <2> HIDE DEF body
  <2> QED  BY <1>6, Zenon
<1>8. InsertMembers(members, items) = after[n]
  BY Zenon DEF InsertMembers, first
<1>9. after[0] = first /\ \A i \in 1..n : after[i] = InsertMember(after[i - 1], items[i])
  <2>1. 0 \in 0..n /\ \A i \in 1..n : i \in 0..n /\ i # 0
    OBVIOUS
  <2> HIDE DEF after
  <2> QED  BY <1>7, <2>1, Zenon
<1> HIDE DEF after
<1> DEFINE T == {i \in 0..n : AddedUpTo(members, items, i, after[i])}
<1>10. 0 \in T
  BY <1>2, <1>9
<1>11. \A i \in 1..n : i - 1 \in T => i \in T
  <2> SUFFICES ASSUME NEW i \in 1..n, i - 1 \in T PROVE i \in T
    OBVIOUS
  <2>1. i \in 0..n /\ AddedUpTo(members, items, i - 1, after[i - 1])
    OBVIOUS
  <2>2. AddedUpTo(members, items, i, after[i])
    BY <1>9, <2>1, AddOneKeeps
  <2> QED  BY <2>1, <2>2
<1>12. n \in T
  <2>1. n \in 0..n
    OBVIOUS
  <2> HIDE DEF T
  <2> QED  BY <1>10, <1>11, <2>1, EveryStep
<1> QED  BY <1>8, <1>12

-----------------------------------------------------------------------------
(* What is given, and what slots keep of it                                *)

LEMMA Bounded ==
  ASSUME NEW S, NEW m \in Nat, NEW s \in BoundedSeq(S, m)
  PROVE  /\ s \in Seq(S) /\ Len(s) \in Nat /\ s \in [1..Len(s) -> S] /\ DOMAIN s = 1..Len(s)
<1>1. PICK n \in 0..m : s \in [1..n -> S]
  BY DEF BoundedSeq, SeqOf
<1>2. n \in Nat /\ s \in Seq(S)
  BY <1>1
<1> QED  BY <1>2, LenProperties

(* Values are no collections, and collections of one type of no other.     *)
LEMMA Plainly ==
  ASSUME NEW v \in Values \cup {Bad, Own}
  PROVE  ~IsJsOrBarqList(v) /\ ~IsJsOrBarqDictionary(v) /\ ReadLeaves(v) = v /\ ReadBack(v) = v
<1>1. ~IsJsOrBarqList(v) /\ ~IsJsOrBarqDictionary(v)
  BY DEF IsJsOrBarqList, IsJsOrBarqDictionary, HasType
<1> QED  BY <1>1 DEF ReadLeaves, ReadBack

(* An array is no object, and reads back as a list.                        *)
LEMMA Listly ==
  ASSUME NEW items, NEW v, v = ListOf(items), v \notin Values \cup {Bad, Own, Undefined}
  PROVE  /\ IsJsOrBarqList(v) /\ ~IsJsOrBarqDictionary(v) /\ v.items = items
         /\ ReadLeaves(v) = ListOf(items) /\ ReadBack(v) = ListOf(Row(items))
<1>1. v.type = "list" /\ v.items = items /\ "list" # "object"
  BY DEF ListOf
<1>2. IsJsOrBarqList(v) /\ ~IsJsOrBarqDictionary(v)
  BY <1>1 DEF IsJsOrBarqList, IsJsOrBarqDictionary, HasType
<1> QED  BY <1>1, <1>2, Zenon DEF ReadLeaves, ReadBack

(* A plain object is no array, and reads back as a dictionary.             *)
LEMMA Objectly ==
  ASSUME NEW pairs, NEW v, v = ObjectOf(pairs), v \notin Values \cup {Bad, Own, Undefined}
  PROVE  /\ IsJsOrBarqDictionary(v) /\ ~IsJsOrBarqList(v) /\ v.pairs = pairs
         /\ ReadLeaves(v) = DictionaryOf(EntriesOf(pairs, ValuesOf(pairs)))
         /\ ReadBack(v) = DictionaryOf(EntriesOf(pairs, Row(ValuesOf(pairs))))
<1>1. v.type = "object" /\ v.pairs = pairs /\ "list" # "object"
  BY DEF ObjectOf
<1>2. ~IsJsOrBarqList(v) /\ IsJsOrBarqDictionary(v)
  BY <1>1 DEF IsJsOrBarqList, IsJsOrBarqDictionary, HasType
<1> QED  BY <1>1, <1>2, Zenon DEF ReadLeaves, ReadBack

(* A slot that keeps part, if it keeps any.                                *)
Keeps(slots, n, U, parts) ==
  /\ AreSlots(slots, n, U)
  /\ \A i \in 1..n : ~slots[i].threw => slots[i].kept[1] = parts[i]

IsRow(parts, n) == Len(parts) = n /\ parts = [i \in 1..n |-> parts[i]]

LEMMA SameRow ==
  ASSUME NEW n \in Nat, NEW a, IsRow(a, n), NEW b, IsRow(b, n), \A i \in 1..n : a[i] = b[i]
  PROVE  a = b
  BY Zenon DEF IsRow

LEMMA SeqIsRow ==
  ASSUME NEW U, NEW s \in Seq(U)
  PROVE  Len(s) \in Nat /\ IsRow(s, Len(s))
<1>1. Len(s) \in Nat /\ s \in [1..Len(s) -> U]
  BY LenProperties
<1> QED  BY <1>1 DEF IsRow

IsListSlot(x, U, parts) ==
  /\ x.threw \in BOOLEAN
  /\ \E into \in Seq(U) : x.kept = <<ListOf(into)>> /\ (~x.threw => into = parts)

(* A list in a mixed, filled: if nothing threw, it holds what it was given. *)
LEMMA ListFilled ==
  ASSUME NEW U, NEW n \in Nat, NEW parts, IsRow(parts, n), NEW slots, Keeps(slots, n, U, parts),
         NEW x, x = InsertIntoListOfMixed(slots)
  PROVE  IsListSlot(x, U, parts)
<1> DEFINE d == InsertEach(<<>>, 0, slots)
<1>1. InsertedUpTo(<<>>, 0, slots, U, n, d)
  <2>1. <<>> \in Seq(U) /\ Len(<<>>) = 0
    BY EmptySeq
  <2>2. AreSlots(slots, n, U) /\ 0 <= Len(<<>>) /\ 0 \in Int
    BY <2>1 DEF Keeps
  <2> QED  BY <2>1, <2>2, InsertsAll
<1>2. d.into \in Seq(U) /\ d.threw \in BOOLEAN
  BY <1>1 DEF InsertedUpTo, Lefts
<1>3. x.kept = <<ListOf(d.into)>> /\ x.threw = d.threw
  BY DEF InsertIntoListOfMixed
<1> HIDE DEF d
<1>4. ASSUME ~d.threw PROVE d.into = parts
  <2>1. Len(d.into) = Len(<<>>) + n /\ \A i \in 1..n : ~slots[i].threw /\ d.into[0 + i] = slots[i].kept[1]
    BY <1>1, <1>4 DEF InsertedUpTo
  <2>2. Len(d.into) = n
    BY <2>1
  <2>3. \A i \in 1..n : d.into[i] = parts[i]
    BY <2>1 DEF Keeps
  <2>4. IsRow(d.into, n)
    BY <1>2, <2>2, SeqIsRow
  <2> QED  BY <2>3, <2>4, SameRow
<1> QED  BY <1>2, <1>3, <1>4 DEF IsListSlot

IsDictionarySlot(x, K, U, entries) ==
  /\ x.threw \in BOOLEAN
  /\ \E into \in MapsOf(K, U) : x.kept = <<DictionaryOf(into)>> /\ (~x.threw => into = entries)

(* What pairs with distinct keys say.                                      *)
AreEntries(e, pairs, n, parts) ==
  /\ DOMAIN e = {pairs[i][1] : i \in 1..n}
  /\ \A i \in 1..n : e[pairs[i][1]] = parts[i]

(* Keys that differ have the values of their pairs.                        *)
LEMMA EntriesAre ==
  ASSUME NEW K, NEW n \in Nat, NEW pairs, ArePairs(pairs, n, K), DOMAIN pairs = 1..n, NEW parts
  PROVE  AreEntries(EntriesOf(pairs, parts), pairs, n, parts)
<1>1. DOMAIN EntriesOf(pairs, parts) = {pairs[i][1] : i \in 1..n}
  BY DEF EntriesOf
<1>2. ASSUME NEW i \in 1..n PROVE EntriesOf(pairs, parts)[pairs[i][1]] = parts[i]
  <2> DEFINE k == pairs[i][1]  j == CHOOSE j \in 1..n : pairs[j][1] = k
  <2>1. j \in 1..n /\ pairs[j][1] = k
    OBVIOUS
  <2>2. j = i
    BY <2>1 DEF ArePairs
  <2>3. EntriesOf(pairs, parts)[k] = parts[j]
    BY <1>1 DEF EntriesOf
  <2> QED  BY <2>2, <2>3
<1> QED  BY <1>1, <1>2 DEF AreEntries

(* A dictionary in a mixed, filled likewise.                               *)
LEMMA DictionaryFilled ==
  ASSUME NEW K, NEW U, NEW n \in Nat, NEW pairs, ArePairs(pairs, n, K), DOMAIN pairs = 1..n,
         NEW parts, NEW slots, Keeps(slots, n, U, parts),
         NEW x, x = InsertIntoDictionaryOfMixed(pairs, slots)
  PROVE  IsDictionarySlot(x, K, U, EntriesOf(pairs, parts))
<1> DEFINE d == SetEntries(NoEntries, pairs, slots)  e == EntriesOf(pairs, parts)
<1>1. SetUpTo(NoEntries, pairs, slots, K, U, n, d)
  <2>1. NoEntries \in MapsOf(K, U)
    <3>1. DOMAIN NoEntries = {} /\ NoEntries = [k \in DOMAIN NoEntries |-> NoEntries[k]]
      BY DEF NoEntries
    <3> QED  BY <3>1, MapsOfIs
  <2>2. AreSlots(slots, n, U)
    BY DEF Keeps
  <2> QED  BY <2>1, <2>2, SetsAll
<1>2. d.into \in MapsOf(K, U) /\ d.threw \in BOOLEAN
  BY <1>1 DEF SetUpTo, Lefts
<1>3. x.kept = <<DictionaryOf(d.into)>> /\ x.threw = d.threw
  BY DEF InsertIntoDictionaryOfMixed
<1> HIDE DEF d
<1>4. ASSUME ~d.threw PROVE d.into = e
  <2>1. /\ DOMAIN d.into = DOMAIN NoEntries \cup {pairs[i][1] : i \in 1..n}
        /\ \A i \in 1..n : ~slots[i].threw /\ d.into[pairs[i][1]] = slots[i].kept[1]
    BY <1>1, <1>4 DEF SetUpTo
  <2>2. DOMAIN NoEntries = {}
    BY DEF NoEntries
  <2>3. AreEntries(e, pairs, n, parts)
    BY EntriesAre
  <2>4. e = [k \in DOMAIN e |-> e[k]]
    BY DEF EntriesOf
  <2> HIDE DEF e
  <2>5. DOMAIN d.into = DOMAIN e
    BY <2>1, <2>2, <2>3 DEF AreEntries
  <2>6. \A k \in DOMAIN e : d.into[k] = e[k]
    BY <2>1, <2>3 DEF Keeps, AreEntries
  <2>7. d.into = [k \in DOMAIN d.into |-> d.into[k]]
    BY <1>2, MapsOfIs
  <2> QED  BY <2>4, <2>5, <2>6, <2>7, Zenon
<1> QED  BY <1>2, <1>3, <1>4 DEF IsDictionarySlot

(* What slots of properties with elements of one level may keep.           *)
Keepable ==
  Values \cup {ListOf(s) : s \in Seq(Values)} \cup {DictionaryOf(f) : f \in MapsOf(Keys, Values)} \cup Stored

SlotKeeps(x, U, w) == IsSlot(x, U) /\ (~x.threw => x.kept[1] = w)

(* A value is kept as it is, and another throws.                           *)
LEMMA LeafKeeps ==
  ASSUME NEW v
  PROVE  SlotKeeps(Leaf(v), Values, v) /\ (~Leaf(v).threw => v \in Values)
<1> DEFINE x == Leaf(v)
<1>1. CASE v \in Values
  <2>1. x.kept = <<v>> /\ x.threw \in BOOLEAN
    BY <1>1 DEF Leaf
  <2>2. <<v>>[1] = v
    OBVIOUS
  <2> QED  BY <1>1, <2>1, <2>2 DEF SlotKeeps, IsSlot
<1>2. CASE v \notin Values
  <2>1. x.kept = <<>> /\ x.threw \in BOOLEAN /\ x.threw
    BY <1>2 DEF Leaf
  <2> QED  BY <2>1 DEF SlotKeeps, IsSlot
<1> QED  BY <1>1, <1>2

LEMMA SlotGrows ==
  ASSUME NEW x, NEW U, NEW W, U \subseteq W, NEW w, SlotKeeps(x, U, w)
  PROVE  SlotKeeps(x, W, w)
  BY DEF SlotKeeps, IsSlot

LEMMA RowLength ==
  ASSUME NEW n \in Nat, NEW s, s = [i \in 1..n |-> s[i]]
  PROVE  Len(s) = n
<1> DEFINE S == {s[i] : i \in 1..n}
<1>1. \A i \in 1..n : s[i] \in S
  OBVIOUS
<1> HIDE DEF S
<1>2. s \in [1..n -> S]
  BY <1>1
<1> QED  BY <1>2

LEMMA LeavesKeep ==
  ASSUME NEW n \in Nat, NEW items, DOMAIN items = 1..n
  PROVE  Keeps(Leaves(items), n, Values, items)
<1> DEFINE slots == Leaves(items)
<1>1. DOMAIN slots = 1..n /\ \A i \in 1..n : slots[i] = Leaf(items[i])
  BY DEF Leaves
<1>2. slots = [i \in 1..n |-> slots[i]]
  BY <1>1 DEF Leaves
<1> HIDE DEF slots
<1>3. Len(slots) = n
  BY <1>2, RowLength
<1>4. \A i \in 1..n : SlotKeeps(slots[i], Values, items[i])
  BY <1>1, LeafKeeps
<1> QED  BY <1>3, <1>4 DEF Keeps, AreSlots, SlotKeeps, slots

(* What is kept of an array whose elements are no collections.             *)
LEMMA FlatListKeeps ==
  ASSUME NEW items \in Seq(Items), NEW x, x = InsertIntoListOfMixed(Leaves(items))
  PROVE  SlotKeeps(x, Keepable, ListOf(items))
<1> DEFINE n == Len(items)
<1>1. n \in Nat /\ DOMAIN items = 1..n /\ IsRow(items, n)
  BY LenProperties, SeqIsRow
<1>2. Keeps(Leaves(items), n, Values, items)
  BY <1>1, LeavesKeep
<1>3. IsListSlot(x, Values, items)
  BY <1>1, <1>2, ListFilled
<1>4. PICK into \in Seq(Values) : x.kept = <<ListOf(into)>> /\ (~x.threw => into = items)
  BY <1>3 DEF IsListSlot
<1>5. ListOf(into) \in Keepable
  BY DEF Keepable
<1>6. x.kept[1] = ListOf(into)
  BY <1>4
<1> QED  BY <1>3, <1>4, <1>5, <1>6 DEF SlotKeeps, IsSlot, IsListSlot

(* Pairs as they are given.                                                *)
AreGiven(pairs, n, S) ==
  /\ n \in Nat /\ DOMAIN pairs = 1..n /\ ArePairs(pairs, n, Keys)
  /\ DOMAIN ValuesOf(pairs) = 1..n /\ \A i \in 1..n : ValuesOf(pairs)[i] \in S

(* The pairs of a plain object.                                            *)
LEMMA PairsGiven ==
  ASSUME NEW S, NEW m \in Nat, NEW pairs \in BoundedSeq(Keys \X S, m), HasDistinctKeys(pairs),
         NEW n, n = Len(pairs)
  PROVE  AreGiven(pairs, n, S)
<1>1. n \in Nat /\ DOMAIN pairs = 1..n /\ pairs \in [1..n -> Keys \X S]
  BY Bounded
<1>2. \A i \in 1..n : pairs[i] \in Keys \X S
  BY <1>1
<1>3. \A i \in 1..n : pairs[i][1] \in Keys /\ pairs[i][2] \in S
  BY <1>2
<1>4. ArePairs(pairs, n, Keys)
  BY <1>1, <1>3 DEF ArePairs, HasDistinctKeys
<1>5. DOMAIN ValuesOf(pairs) = 1..n /\ \A i \in 1..n : ValuesOf(pairs)[i] = pairs[i][2]
  BY <1>1 DEF ValuesOf
<1> QED  BY <1>1, <1>3, <1>4, <1>5 DEF AreGiven

LEMMA FlatObjectKeeps ==
  ASSUME NEW m \in Nat, NEW pairs \in BoundedSeq(Keys \X Items, m), HasDistinctKeys(pairs),
         NEW x, x = InsertIntoDictionaryOfMixed(pairs, Leaves(ValuesOf(pairs)))
  PROVE  SlotKeeps(x, Keepable, DictionaryOf(EntriesOf(pairs, ValuesOf(pairs))))
<1> DEFINE n == Len(pairs)  values == ValuesOf(pairs)
<1>1. n \in Nat /\ DOMAIN pairs = 1..n /\ ArePairs(pairs, n, Keys) /\ DOMAIN values = 1..n
  <2> HIDE DEF n
  <2>1. n = Len(pairs)
    BY DEF n
  <2>2. AreGiven(pairs, n, Items)
    BY <2>1, PairsGiven
  <2> QED  BY <2>2 DEF AreGiven
<1> HIDE DEF n, values
<1>2. Keeps(Leaves(values), n, Values, values)
  BY <1>1, LeavesKeep
<1>3. IsDictionarySlot(x, Keys, Values, EntriesOf(pairs, values))
  BY <1>1, <1>2, DictionaryFilled DEF values
<1>4. PICK into \in MapsOf(Keys, Values) :
         x.kept = <<DictionaryOf(into)>> /\ (~x.threw => into = EntriesOf(pairs, values))
  BY <1>3 DEF IsDictionarySlot
<1>5. DictionaryOf(into) \in Keepable
  BY DEF Keepable
<1>6. x.kept[1] = DictionaryOf(into)
  BY <1>4
<1> QED  BY <1>3, <1>4, <1>5, <1>6 DEF SlotKeeps, IsSlot, IsDictionarySlot, values

(* An element that is a collection.                                        *)
LEMMA NestedIs ==
  ASSUME NEW v \in Nested
  PROVE  /\ v \notin Values \cup {Bad, Own, Undefined}
         /\ \/ \E items \in Seq(Items) : v = ListOf(items)
            \/ \E pairs \in BoundedSeq(Keys \X Items, MaxNested) :
                  HasDistinctKeys(pairs) /\ v = ObjectOf(pairs)
<1>1. v \notin Values \cup {Bad, Own, Undefined}
  BY NestedAssumption
<1>2. MaxNested \in Nat
  BY CollectionsAssumption
<1>3. CASE v \in ListsOf(Items, MaxNested)
  <2>1. PICK items \in BoundedSeq(Items, MaxNested) : v = ListOf(items)
    BY <1>3 DEF ListsOf
  <2>2. items \in Seq(Items)
    BY <1>2, Bounded
  <2> QED  BY <1>1, <2>1, <2>2
<1>4. CASE v \in PlainOf(Items, MaxNested)
  <2>1. PICK pairs \in {p \in BoundedSeq(Keys \X Items, MaxNested) : HasDistinctKeys(p)} : v = ObjectOf(pairs)
    BY <1>4 DEF PlainOf
  <2> QED  BY <1>1, <2>1
<1> QED  BY <1>3, <1>4 DEF Nested

(* What a slot keeps of a collection, and of any element.                  *)
LEMMA NestedKeeps ==
  ASSUME IsMixed, NEW v \in Nested
  PROVE  SlotKeeps(Slot(v), Keepable, ReadLeaves(v))
<1>1. CASE \E items \in Seq(Items) : v = ListOf(items)
  <2>1. PICK items \in Seq(Items) : v = ListOf(items)
    BY <1>1
  <2>2. IsJsOrBarqList(v) /\ v.items = items /\ ReadLeaves(v) = ListOf(items)
    BY <2>1, NestedIs, Listly
  <2>3. Slot(v) = InsertIntoListOfMixed(Leaves(items))
    BY <2>2, Zenon DEF Slot
  <2> QED  BY <2>2, <2>3, FlatListKeeps
<1>2. CASE \E pairs \in BoundedSeq(Keys \X Items, MaxNested) : HasDistinctKeys(pairs) /\ v = ObjectOf(pairs)
  <2>1. PICK pairs \in BoundedSeq(Keys \X Items, MaxNested) : HasDistinctKeys(pairs) /\ v = ObjectOf(pairs)
    BY <1>2
  <2>2. /\ IsJsOrBarqDictionary(v) /\ ~IsJsOrBarqList(v) /\ v.pairs = pairs
        /\ ReadLeaves(v) = DictionaryOf(EntriesOf(pairs, ValuesOf(pairs)))
    BY <2>1, NestedIs, Objectly
  <2>3. Slot(v) = InsertIntoDictionaryOfMixed(pairs, Leaves(ValuesOf(pairs)))
    BY <2>2, Zenon DEF Slot
  <2>4. MaxNested \in Nat
    BY CollectionsAssumption
  <2> QED  BY <2>1, <2>2, <2>3, <2>4, FlatObjectKeeps
<1> QED  BY <1>1, <1>2, NestedIs

LEMMA ElementKeeps ==
  ASSUME NEW v \in Elements
  PROVE  SlotKeeps(Slot(v), Keepable, ReadLeaves(v))
<1>1. CASE v \in Items
  <2>1. ~IsJsOrBarqList(v) /\ ~IsJsOrBarqDictionary(v) /\ ReadLeaves(v) = v
    BY <1>1, Plainly DEF Items
  <2>2. Slot(v) = Leaf(v)
    BY <2>1, Zenon DEF Slot
  <2>3. Values \subseteq Keepable
    BY DEF Keepable
  <2> QED  BY <2>1, <2>2, <2>3, LeafKeeps, SlotGrows
<1>2. CASE v \in Nested /\ IsMixed
  BY <1>2, NestedKeeps
<1> QED  BY <1>1, <1>2 DEF Elements

(* An element that is there already, in the snapshot of a list.            *)
LEMMA StoredKeeps ==
  ASSUME NEW v \in Stored
  PROVE  SlotKeeps(Slot(v), Keepable, v)
<1>0. Values \subseteq Keepable
  BY DEF Keepable
<1>1. CASE Slot(v) = Leaf(v)
  BY <1>0, <1>1, LeafKeeps, SlotGrows
<1>2. CASE v \in Values
  <2>1. ~IsJsOrBarqList(v) /\ ~IsJsOrBarqDictionary(v)
    BY <1>2, Plainly
  <2>2. Slot(v) = Leaf(v)
    BY <2>1, Zenon DEF Slot
  <2> QED  BY <1>1, <2>2
<1>3. CASE v \notin Values
  <2>1. PICK w \in Nested : v = ReadLeaves(w)
    BY <1>3 DEF Stored
  <2>2. CASE \E items \in Seq(Items) : w = ListOf(items)
    <3>1. PICK items \in Seq(Items) : w = ListOf(items)
      BY <2>2
    <3>2. v = ListOf(items)
      BY <2>1, <3>1, NestedIs, Listly
    <3>3. w = v
      BY <3>1, <3>2
    <3>4. IsJsOrBarqList(v) /\ v.items = items
      BY <3>1, <3>3, NestedIs, Listly
    <3>5. CASE IsMixed
      <4>1. Slot(v) = InsertIntoListOfMixed(Leaves(items))
        BY <3>4, <3>5, Zenon DEF Slot
      <4> QED  BY <3>2, <4>1, FlatListKeeps
    <3>6. CASE ~IsMixed
      <4>1. Slot(v) = Leaf(v)
        BY <3>6, Zenon DEF Slot
      <4> QED  BY <1>1, <4>1
    <3> QED  BY <3>5, <3>6
  <2>3. CASE \E pairs \in BoundedSeq(Keys \X Items, MaxNested) : HasDistinctKeys(pairs) /\ w = ObjectOf(pairs)
    <3>1. PICK pairs \in BoundedSeq(Keys \X Items, MaxNested) : HasDistinctKeys(pairs) /\ w = ObjectOf(pairs)
      BY <2>3
    <3>2. v = DictionaryOf(EntriesOf(pairs, ValuesOf(pairs)))
      BY <2>1, <3>1, NestedIs, Objectly
    <3>3. v.type = "dictionary" /\ "dictionary" # "list" /\ "dictionary" # "object"
      BY <3>2 DEF DictionaryOf
    <3>4. ~IsJsOrBarqList(v) /\ ~IsJsOrBarqDictionary(v)
      BY <3>3 DEF IsJsOrBarqList, IsJsOrBarqDictionary, HasType
    <3>5. Slot(v) = Leaf(v)
      BY <3>4, Zenon DEF Slot
    <3> QED  BY <1>1, <3>5
  <2> QED  BY <2>2, <2>3, NestedIs
<1> QED  BY <1>2, <1>3

(* All slots of what is given, or of a list.                               *)
LEMMA SlotsKeep ==
  ASSUME NEW n \in Nat, NEW items, DOMAIN items = 1..n, NEW parts,
         \A i \in 1..n : SlotKeeps(Slot(items[i]), Keepable, parts[i])
  PROVE  Keeps(Slots(items), n, Keepable, parts)
<1> DEFINE slots == Slots(items)
<1>1. DOMAIN slots = 1..n /\ \A i \in 1..n : slots[i] = Slot(items[i])
  BY DEF Slots
<1>2. slots = [i \in 1..n |-> slots[i]]
  BY <1>1 DEF Slots
<1> HIDE DEF slots
<1>3. Len(slots) = n
  BY <1>2, RowLength
<1> QED  BY <1>1, <1>3 DEF Keeps, AreSlots, SlotKeeps, slots

(* What the slots of an array keep.                                        *)
LEMMA ElementsKeep ==
  ASSUME NEW n \in Nat, NEW items, DOMAIN items = 1..n, \A i \in 1..n : items[i] \in Elements
  PROVE  Keeps(Slots(items), n, Keepable, Row(items))
<1>1. \A i \in 1..n : Row(items)[i] = ReadLeaves(items[i])
  BY DEF Row
<1>2. \A i \in 1..n : SlotKeeps(Slot(items[i]), Keepable, Row(items)[i])
  BY <1>1, ElementKeeps
<1> QED  BY <1>2, SlotsKeep

-----------------------------------------------------------------------------
(* What splicing an array is                                               *)

(* A sequence whose middle was replaced.                                   *)
IsSpliced(t, s, x, b, y) ==
  t = SubSeq(s, 1, x) \o b \o SubSeq(s, y + 1, Len(s))

AreJoined(t, U, a, m, b, n) ==
  /\ t \in Seq(U) /\ Len(t) = m + n /\ m \in Nat /\ n \in Nat
  /\ \A j \in 1..m : t[j] = a[j]
  /\ \A j \in (m + 1)..(m + n) : t[j] = b[j - m]

LEMMA JoinedIs ==
  ASSUME NEW U, NEW a \in Seq(U), NEW b \in Seq(U), NEW t, t = a \o b,
         NEW m, m = Len(a), NEW n, n = Len(b)
  PROVE  AreJoined(t, U, a, m, b, n)
BY Joined DEF AreJoined

(* A sequence is known by its three pieces.                                *)
LEMMA Pieces ==
  ASSUME NEW U, NEW s \in Seq(U), NEW t \in Seq(U), NEW b \in Seq(U), NEW m, m = Len(b),
         NEW x \in Nat, NEW y \in Nat, x <= y, y <= Len(s),
         Len(t) = x + m + (Len(s) - y),
         \A j \in 1..x : t[j] = s[j],
         \A j \in 1..m : t[x + j] = b[j],
         \A j \in (y + 1)..Len(s) : t[j - y + x + m] = s[j]
  PROVE  IsSpliced(t, s, x, b, y)
<1> DEFINE a == SubSeq(s, 1, x)  c == SubSeq(s, y + 1, Len(s))  ab == a \o b  n == Len(s) - y  abc == ab \o c
<1>0. Len(s) \in Nat /\ m \in Nat /\ n \in Nat
  BY LenProperties
<1>1. a \in Seq(U) /\ Len(a) = x /\ \A j \in 1..x : a[j] = s[j]
  <2>1. \A j \in 1..x : s[j] \in U
    BY <1>0, ElementOfSeq
  <2>2. 1 \in Int /\ x \in Int
    OBVIOUS
  <2>3. /\ a \in Seq(U)
        /\ Len(a) = IF 1 <= x THEN x - 1 + 1 ELSE 0
        /\ \A j \in 1..(x - 1 + 1) : a[j] = s[1 + j - 1]
    BY <2>1, <2>2, SubSeqProperties
  <2> QED  BY <2>3
<1>2. c \in Seq(U) /\ Len(c) = n /\ \A j \in 1..n : c[j] = s[y + j]
  <2>1. \A j \in (y + 1)..Len(s) : s[j] \in U
    BY <1>0, ElementOfSeq
  <2>2. y + 1 \in Int /\ Len(s) \in Int
    BY <1>0
  <2>3. /\ c \in Seq(U)
        /\ Len(c) = IF y + 1 <= Len(s) THEN Len(s) - (y + 1) + 1 ELSE 0
        /\ \A j \in 1..(Len(s) - (y + 1) + 1) : c[j] = s[y + 1 + j - 1]
    BY <2>1, <2>2, SubSeqProperties
  <2> QED  BY <1>0, <2>3
<1>3. ab = a \o b /\ abc = ab \o c
  OBVIOUS
<1>4. IsSpliced(t, s, x, b, y) <=> t = abc
  BY DEF IsSpliced
<1>5. n + y = Len(s)
  BY <1>0
<1> HIDE DEF a, c, ab, abc, n
<1>6. ab \in Seq(U) /\ Len(ab) = x + m /\ (\A j \in 1..x : ab[j] = a[j])
        /\ \A j \in (x + 1)..(x + m) : ab[j] = b[j - x]
  <2>1. a \in Seq(U) /\ x = Len(a)
    BY <1>1
  <2>2. AreJoined(ab, U, a, x, b, m)
    BY <1>3, <2>1, JoinedIs
  <2> QED  BY <2>2 DEF AreJoined
<1> DEFINE k == x + m
<1>7. k = Len(ab) /\ k \in Nat
  BY <1>0, <1>6
<1> HIDE DEF k
<1>8. /\ abc \in Seq(U) /\ Len(abc) = k + n
      /\ \A j \in 1..k : abc[j] = ab[j]
      /\ \A j \in (k + 1)..(k + n) : abc[j] = c[j - k]
  <2>1. c \in Seq(U) /\ n = Len(c) /\ ab \in Seq(U)
    BY <1>2, <1>6
  <2>2. AreJoined(abc, U, ab, k, c, n)
    BY <1>3, <1>7, <2>1, JoinedIs
  <2> QED  BY <2>2 DEF AreJoined
<1>9. Len(t) = Len(abc)
  <2>1. Len(t) = k + n
    BY <1>0, <1>5 DEF k
  <2> QED  BY <1>8, <2>1
<1>10. ASSUME NEW j \in 1..Len(t) PROVE t[j] = abc[j]
  <2>1. CASE j <= x
    <3>1. j \in 1..x /\ j \in 1..k
      BY <1>0, <2>1 DEF k
    <3>2. t[j] = s[j]
      BY <3>1
    <3>3. abc[j] = ab[j]
      BY <1>8, <3>1
    <3>4. ab[j] = a[j] /\ a[j] = s[j]
      BY <1>1, <1>6, <3>1
    <3> QED  BY <3>2, <3>3, <3>4
  <2>2. CASE j > x /\ j <= k
    <3>1. j \in (x + 1)..(x + m) /\ j \in 1..k /\ j - x \in 1..m /\ x + (j - x) = j
      BY <1>0, <2>2 DEF k
    <3>2. t[x + (j - x)] = b[j - x]
      BY <3>1
    <3> QED  BY <1>6, <1>8, <3>1, <3>2
  <2>3. CASE j > k
    <3> DEFINE i == j - k
    <3>1. /\ j \in (k + 1)..(k + n) /\ i \in 1..n /\ y + i \in (y + 1)..Len(s)
          /\ (y + i) - y + x + m = j
      BY <1>0, <1>5, <1>7, <1>8, <1>9, <2>3 DEF k
    <3>2. t[(y + i) - y + x + m] = s[y + i]
      BY <3>1
    <3>3. abc[j] = c[i] /\ c[i] = s[y + i]
      BY <1>2, <1>8, <3>1
    <3> QED  BY <3>1, <3>2, <3>3
  <2> QED  BY <1>0, <1>7, <2>1, <2>2, <2>3
<1>11. t = abc
  BY <1>8, <1>9, <1>10, SeqEqual
<1> QED  BY <1>4, <1>11

(* What splice() of an array is, once it is known where it begins and how  *)
(* many it takes.                                                          *)
TakesAway(s, first, deleteCount, count) ==
  count = IF deleteCount = Undefined \/ deleteCount > Len(s) - first THEN Len(s) - first
          ELSE IF deleteCount < 0 THEN 0 ELSE deleteCount

SplicesTo(s, start, deleteCount, items, t, first, count) ==
  /\ ArraySplice(s, start, deleteCount, items).into = t
  /\ ArraySplice(s, start, deleteCount, items).returned = SubSeq(s, first + 1, first + count)

LEMMA ArraySpliceIs ==
  ASSUME NEW s, NEW start, NEW deleteCount, NEW items, NEW first, first = ArrayPosition(Len(s), start),
         NEW count, TakesAway(s, first, deleteCount, count),
         NEW t, IsSpliced(t, s, first, items, first + count)
  PROVE  SplicesTo(s, start, deleteCount, items, t, first, count)
  BY DEF ArraySplice, IsSpliced, TakesAway, SplicesTo

(* At the end, or the beginning, nothing is taken away.                    *)
LEMMA SplicedNowhere ==
  ASSUME NEW U, NEW s \in Seq(U), NEW b \in Seq(U), NEW t
  PROVE  /\ IsSpliced(t, s, Len(s), b, Len(s)) => t = s \o b
         /\ IsSpliced(t, s, 0, b, 0) => t = b \o s
<1>1. Len(s) \in Nat
  BY LenProperties
<1>2. SubSeq(s, 1, Len(s)) = s
  BY SubSeqFull
<1>3. SubSeq(s, Len(s) + 1, Len(s)) = <<>> /\ SubSeq(s, 1, 0) = <<>>
  BY <1>1, SubSeqEmpty
<1>4. s \o b \in Seq(U) /\ (s \o b) \o <<>> = s \o b
  BY ConcatProperties, ConcatEmptySeq
<1>5. <<>> \o b = b
  BY ConcatEmptySeq
<1>6. ASSUME IsSpliced(t, s, Len(s), b, Len(s)) PROVE t = s \o b
  <2>1. t = s \o b \o <<>>
    BY <1>2, <1>3, <1>6, Zenon DEF IsSpliced
  <2> QED  BY <1>4, <2>1
<1>7. ASSUME IsSpliced(t, s, 0, b, 0) PROVE t = b \o s
  <2>0. 0 + 1 = 1
    OBVIOUS
  <2>1. t = <<>> \o b \o s
    BY <1>2, <1>3, <1>7, <2>0, Zenon DEF IsSpliced
  <2> QED  BY <1>5, <2>1
<1> QED  BY <1>6, <1>7

FitsAt(U, t, s, x, b, m, y) ==
  /\ t \in Seq(U) /\ b \in Seq(U) /\ m = Len(b)
  /\ x \in Nat /\ y \in Nat /\ x <= y /\ y <= Len(s)
  /\ Len(t) = x + m + (Len(s) - y)
  /\ \A j \in 1..x : t[j] = s[j]
  /\ \A j \in 1..m : t[x + j] = b[j]
  /\ \A j \in (y + 1)..Len(s) : t[j - y + x + m] = s[j]

LEMMA FittingPieces ==
  ASSUME NEW U, NEW s \in Seq(U), NEW t, NEW x, NEW b, NEW m, NEW y, FitsAt(U, t, s, x, b, m, y)
  PROVE  IsSpliced(t, s, x, b, y)
BY Pieces DEF FitsAt

(* A sequence without the part between two places.                         *)
IsCut(w, U, s, x, y) ==
  /\ w \in Seq(U) /\ Len(w) = Len(s) - (y - x)
  /\ \A j \in 1..x : w[j] = s[j]
  /\ \A j \in (x + 1)..(Len(s) - (y - x)) : w[j] = s[j + (y - x)]

Within(s, x, y) == x \in Nat /\ y \in Nat /\ x <= y /\ y <= Len(s)

LEMMA NotCut ==
  ASSUME NEW U, NEW s \in Seq(U), NEW x \in Nat, x <= Len(s)
  PROVE  IsCut(s, U, s, x, x) /\ Within(s, x, x)
<1>1. Len(s) \in Nat /\ x - x = 0
  BY LenProperties
<1>2. \A j \in (x + 1)..(Len(s) - (x - x)) : j + (x - x) = j
  BY <1>1
<1> QED  BY <1>1, <1>2 DEF IsCut, Within

(* The loop of splice() that removes.                                      *)
LEMMA RemoveDoes ==
  ASSUME NEW U, NEW s \in Seq(U), NEW x \in Nat, x <= Len(s), NEW end \in Int, end <= Len(s),
         NEW y, y = IF end > x THEN end ELSE x
  PROVE  IsCut(RemoveBackwards(s, x, end), U, s, x, y) /\ Within(s, x, y)
<1> DEFINE n == Removals(x, end)  w == RemoveBackwards(s, x, end)
<1>0. Len(s) \in Nat /\ n = y - x /\ y \in Nat /\ x <= y /\ y <= Len(s)
  BY LenProperties DEF Removals
<1>1. n \in Nat /\ RemovedUpTo(s, end, U, n, w)
  <2> HIDE DEF w
  <2>1. x \in Int /\ x >= 0
    OBVIOUS
  <2> QED  BY <2>1, RemovesAll DEF w
<1> HIDE DEF n, w
<1>2. /\ w \in Seq(U) /\ Len(w) = Len(s) - n
      /\ \A j \in 1..(end - n) : w[j] = s[j]
      /\ \A j \in (end - n + 1)..(Len(s) - n) : w[j] = s[j + n]
  BY <1>1 DEF RemovedUpTo
<1>3. ASSUME NEW j \in 1..x PROVE w[j] = s[j]
  <2>1. CASE j <= end - n
    BY <1>0, <1>2, <2>1
  <2>2. CASE ~(j <= end - n)
    <3>1. n = 0 /\ j \in (end - n + 1)..(Len(s) - n) /\ j + n = j
      BY <1>0, <2>2 DEF n
    <3> QED  BY <1>2, <3>1
  <2> QED  BY <2>1, <2>2
<1>4. ASSUME NEW j \in (x + 1)..(Len(s) - n) PROVE w[j] = s[j + n]
  <2>1. CASE j >= end - n + 1
    <3>1. j \in (end - n + 1)..(Len(s) - n)
      BY <1>0, <2>1
    <3> QED  BY <1>2, <3>1
  <2>2. CASE ~(j >= end - n + 1)
    <3>1. n = 0 /\ j \in 1..(end - n) /\ j + n = j
      BY <1>0, <2>2
    <3> QED  BY <1>2, <3>1
  <2> QED  BY <1>0, <2>1, <2>2
<1>5. IsCut(w, U, s, x, y)
  BY <1>0, <1>2, <1>3, <1>4 DEF IsCut
<1> QED  BY <1>0, <1>5 DEF Within, w

(* What was cut, and filled by a loop that did not throw, was spliced.     *)
LEMMA InsertDoes ==
  ASSUME NEW U, NEW s \in Seq(U), NEW x, NEW y, Within(s, x, y), NEW w, IsCut(w, U, s, x, y),
         NEW k \in Nat, NEW parts, IsRow(parts, k), NEW slots, Keeps(slots, k, U, parts),
         NEW d, d = InsertEach(w, x, slots)
  PROVE  /\ d.threw \in BOOLEAN
         /\ ~d.threw => /\ IsSpliced(d.into, s, x, parts, y) /\ d.into \in Seq(U) /\ parts \in Seq(U)
                        /\ Len(d.into) = Len(w) + k
<1>0. /\ Len(s) \in Nat /\ x \in Nat /\ y \in Nat /\ x <= y /\ y <= Len(s)
      /\ w \in Seq(U) /\ Len(w) = Len(s) - (y - x)
  BY LenProperties DEF Within, IsCut
<1>1. InsertedUpTo(w, x, slots, U, k, d)
  <2>1. AreSlots(slots, k, U) /\ x \in Int /\ x <= Len(w)
    BY <1>0 DEF Keeps
  <2> QED  BY <1>0, <2>1, InsertsAll
<1>2. d \in Lefts(Seq(U)) /\ d.threw \in BOOLEAN /\ d.into \in Seq(U)
  BY <1>1 DEF InsertedUpTo, Lefts
<1>3. ASSUME ~d.threw
      PROVE  IsSpliced(d.into, s, x, parts, y) /\ d.into \in Seq(U) /\ parts \in Seq(U) /\ Len(d.into) = Len(w) + k
  <2> DEFINE t == d.into
  <2>1. /\ Len(t) = Len(w) + k
        /\ \A i \in 1..k : ~slots[i].threw /\ t[x + i] = slots[i].kept[1]
        /\ \A j \in 1..x : t[j] = w[j]
        /\ \A j \in (x + 1)..Len(w) : t[j + k] = w[j]
    BY <1>1, <1>3 DEF InsertedUpTo
  <2>2. t \in Seq(U)
    BY <1>2
  <2> HIDE DEF t
  <2>3. \A i \in 1..k : t[x + i] = parts[i] /\ parts[i] \in U
    <3> SUFFICES ASSUME NEW i \in 1..k PROVE t[x + i] = parts[i] /\ parts[i] \in U
      OBVIOUS
    <3>1. t[x + i] = parts[i]
      BY <2>1 DEF Keeps
    <3>2. x + i \in 1..Len(t)
      BY <1>0, <2>1
    <3>3. t[x + i] \in U
      BY <2>2, <3>2, ElementOfSeq
    <3> QED  BY <3>1, <3>3
  <2>4. parts \in Seq(U) /\ Len(parts) = k
    <3>1. parts = [i \in 1..k |-> parts[i]] /\ Len(parts) = k
      BY DEF IsRow
    <3>2. parts \in [1..k -> U]
      BY <2>3, <3>1
    <3> QED  BY <3>1, <3>2
  <2>5. \A j \in 1..x : t[j] = s[j]
    BY <2>1 DEF IsCut
  <2>6. ASSUME NEW j \in (y + 1)..Len(s) PROVE t[j - y + x + k] = s[j]
    <3> DEFINE i == j - (y - x)
    <3>1. i \in (x + 1)..Len(w) /\ i \in (x + 1)..(Len(s) - (y - x)) /\ i + (y - x) = j /\ i + k = j - y + x + k
      BY <1>0
    <3>2. t[i + k] = w[i]
      BY <2>1, <3>1
    <3>3. w[i] = s[i + (y - x)]
      BY <3>1 DEF IsCut
    <3> QED  BY <3>1, <3>2, <3>3
  <2>7. Len(t) = x + k + (Len(s) - y)
    BY <1>0, <2>1
  <2>8. IsSpliced(t, s, x, parts, y)
    BY <1>0, <2>2, <2>3, <2>4, <2>5, <2>6, <2>7, Pieces
  <2> QED  BY <2>1, <2>2, <2>4, <2>8 DEF t
<1> QED  BY <1>2, <1>3

(* What was cut and not filled.                                            *)
LEMMA CutIsSpliced ==
  ASSUME NEW U, NEW s \in Seq(U), NEW x, NEW y, Within(s, x, y), NEW w, IsCut(w, U, s, x, y)
  PROVE  IsSpliced(w, s, x, <<>>, y)
<1>0. /\ Len(s) \in Nat /\ x \in Nat /\ y \in Nat /\ x <= y /\ y <= Len(s)
      /\ w \in Seq(U) /\ Len(w) = Len(s) - (y - x)
  BY LenProperties DEF Within, IsCut
<1> DEFINE b == <<>>  m == 0
<1>1. b \in Seq(U) /\ m = Len(b)
  BY EmptySeq
<1>2. \A j \in 1..m : w[x + j] = b[j]
  OBVIOUS
<1>3. ASSUME NEW j \in (y + 1)..Len(s) PROVE w[j - y + x + m] = s[j]
  <2> DEFINE i == j - (y - x)
  <2>1. i \in (x + 1)..(Len(s) - (y - x)) /\ i + (y - x) = j /\ i = j - y + x + m
    BY <1>0
  <2>2. w[i] = s[i + (y - x)]
    BY <2>1 DEF IsCut
  <2> QED  BY <2>1, <2>2
<1>4. Len(w) = x + m + (Len(s) - y) /\ \A j \in 1..x : w[j] = s[j]
  BY <1>0 DEF IsCut
<1>5. m \in Nat
  OBVIOUS
<1> HIDE DEF b, m
<1>6. IsSpliced(w, s, x, b, y)
  BY <1>0, <1>1, <1>2, <1>3, <1>4, <1>5, Pieces
<1> QED  BY <1>6 DEF b

(* One element, taken or put.                                              *)
LEMMA WithoutIsCut ==
  ASSUME NEW U, NEW s \in Seq(U), NEW x \in Nat, x < Len(s), NEW w, IsWithout(w, U, s, x + 1)
  PROVE  IsCut(w, U, s, x, x + 1) /\ Within(s, x, x + 1)
<1>0. Len(s) \in Nat /\ x + 1 - x = 1
  BY LenProperties
<1>1. /\ w \in Seq(U) /\ Len(w) = Len(s) - 1
      /\ \A j \in 1..(Len(s) - 1) : (j < x + 1 => w[j] = s[j]) /\ (j >= x + 1 => w[j] = s[j + 1])
  BY DEF IsWithout
<1>2. \A j \in 1..x : w[j] = s[j]
  BY <1>0, <1>1
<1>3. \A j \in (x + 1)..(Len(s) - 1) : w[j] = s[j + 1]
  BY <1>0, <1>1
<1>4. IsCut(w, U, s, x, x + 1)
  BY <1>0, <1>1, <1>2, <1>3 DEF IsCut
<1> QED  BY <1>0, <1>4 DEF Within

(* An element put between two, and one in the place of another.            *)
LEMMA WithIsSpliced ==
  ASSUME NEW U, NEW s \in Seq(U), NEW x \in Nat, x <= Len(s), NEW v \in U, NEW t, IsWith(t, U, s, x + 1, v)
  PROVE  IsSpliced(t, s, x, <<v>>, x)
<1>0. /\ Len(s) \in Nat /\ t \in Seq(U) /\ Len(t) = Len(s) + 1 /\ t[x + 1] = v
      /\ \A j \in 1..(Len(s) + 1) : (j < x + 1 => t[j] = s[j]) /\ (j > x + 1 => t[j] = s[j - 1])
  BY LenProperties DEF IsWith
<1> DEFINE b == <<v>>  m == 1
<1>1. b \in Seq(U) /\ m = Len(b) /\ b[1] = v /\ m = 1
  OBVIOUS
<1> HIDE DEF b, m
<1>2. \A j \in 1..m : t[x + j] = b[j]
  BY <1>0, <1>1
<1>3. \A j \in 1..x : t[j] = s[j]
  BY <1>0
<1>4. ASSUME NEW j \in (x + 1)..Len(s) PROVE t[j - x + x + m] = s[j]
  <2>1. j + 1 \in 1..(Len(s) + 1) /\ j + 1 > x + 1 /\ j + 1 - 1 = j /\ j - x + x + m = j + 1
    BY <1>0, <1>1
  <2> QED  BY <1>0, <2>1
<1>5. Len(t) = x + m + (Len(s) - x)
  BY <1>0, <1>1
<1>6. FitsAt(U, t, s, x, b, m, x)
  BY <1>0, <1>1, <1>2, <1>3, <1>4, <1>5 DEF FitsAt
<1>7. IsSpliced(t, s, x, b, x)
  BY <1>6, FittingPieces
<1> QED  BY <1>7 DEF b

LEMMA ExceptIsSpliced ==
  ASSUME NEW U, NEW s \in Seq(U), NEW x \in Nat, x < Len(s), NEW v \in U, NEW t, t = [s EXCEPT ![x + 1] = v]
  PROVE  IsSpliced(t, s, x, <<v>>, x + 1)
<1>0. Len(s) \in Nat /\ t \in Seq(U) /\ Len(t) = Len(s) /\ t[x + 1] = v
  BY LenProperties, ExceptSeq
<1>1. \A j \in 1..Len(s) : j # x + 1 => t[j] = s[j]
  BY <1>0
<1> DEFINE b == <<v>>  m == 1  y == x + 1
<1>2. b \in Seq(U) /\ m = Len(b) /\ b[1] = v /\ m = 1 /\ y = x + 1 /\ y \in Nat /\ x <= y /\ y <= Len(s)
  BY <1>0
<1> HIDE DEF b, m, y
<1>3. \A j \in 1..m : t[x + j] = b[j]
  BY <1>0, <1>2
<1>4. \A j \in 1..x : t[j] = s[j]
  BY <1>0, <1>1
<1>5. ASSUME NEW j \in (y + 1)..Len(s) PROVE t[j - y + x + m] = s[j]
  <2>1. j - y + x + m = j /\ j \in 1..Len(s) /\ j # x + 1
    BY <1>0, <1>2
  <2> QED  BY <1>1, <2>1
<1>6. Len(t) = x + m + (Len(s) - y)
  BY <1>0, <1>2
<1>7. FitsAt(U, t, s, x, b, m, y)
  BY <1>0, <1>2, <1>3, <1>4, <1>5, <1>6 DEF FitsAt
<1>8. IsSpliced(t, s, x, b, y)
  BY <1>7, FittingPieces
<1> QED  BY <1>2, <1>8 DEF b

-----------------------------------------------------------------------------
(* The calls of a list                                                     *)

(* What a list holds, and what it is given.                                *)
LEMMA ListHere ==
  ASSUME OnAList, content \in Contents(kind), NEW s, s = List
  PROVE  content = ListOf(s) /\ s \in Seq(Stored) /\ s \in Seq(Keepable) /\ Len(s) \in Nat
<1>0. MaxLength \in Nat /\ MaxGiven \in Nat
  BY CollectionsAssumption
<1>1. PICK m \in Nat : \E r \in BoundedSeq(Stored, m) : content = ListOf(r)
  <2>1. CASE kind = "list"
    <3>1. PICK r \in BoundedSeq(Values, MaxLength) : content = ListOf(r)
      BY <2>1 DEF Contents
    <3>2. Values \subseteq Stored
      BY DEF Stored
    <3>3. r \in BoundedSeq(Stored, MaxLength)
      BY <1>0, <3>2 DEF BoundedSeq, SeqOf
    <3> QED  BY <1>0, <3>1, <3>3
  <2>2. CASE kind = "mixedList"
    BY <1>0, <2>2 DEF Contents
  <2> QED  BY <2>1, <2>2 DEF OnAList
<1>2. PICK r \in BoundedSeq(Stored, m) : content = ListOf(r)
  BY <1>1
<1>3. r = s
  BY <1>2 DEF ListOf, List
<1>4. s \in Seq(Stored) /\ Len(s) \in Nat
  BY <1>2, <1>3, Bounded
<1>5. Stored \subseteq Keepable
  BY DEF Keepable
<1> HIDE DEF List
<1>6. s \in Seq(Keepable)
  BY <1>4, <1>5
<1> QED  BY <1>2, <1>3, <1>4, <1>6

(* The arrays that calls are given.                                        *)
LEMMA ElementsGiven ==
  ASSUME NEW m \in Nat, NEW items \in BoundedSeq(Elements, m), NEW n, n = Len(items)
  PROVE  n \in Nat /\ IsRow(Row(items), n) /\ Keeps(Slots(items), n, Keepable, Row(items))
<1>1. n \in Nat /\ DOMAIN items = 1..n /\ \A i \in 1..n : items[i] \in Elements
  <2>1. items \in [1..n -> Elements] /\ n \in Nat
    BY Bounded
  <2> QED  BY <2>1
<1>2. Row(items) = [i \in 1..n |-> Row(items)[i]]
  BY <1>1 DEF Row
<1>3. IsRow(Row(items), n)
  BY <1>1, <1>2, RowLength DEF IsRow
<1> QED  BY <1>1, <1>3, ElementsKeep

LEMMA RowsGiven ==
  ASSUME NEW items \in Rows, NEW n, n = Len(items)
  PROVE  n \in Nat /\ IsRow(Row(items), n) /\ Keeps(Slots(items), n, Keepable, Row(items))
<1>1. \E m \in Nat : items \in BoundedSeq(Elements, m)
  BY CollectionsAssumption DEF Rows
<1> QED  BY <1>1, ElementsGiven

(* What a call is seen to have done.                                       *)
LEMMA Answered ==
  ASSUME NEW op, NEW args, NEW left, NEW returned, Answer(op, args, left, returned)
  PROVE  /\ content' = left.into /\ kind' = kind
         /\ last'.op = op /\ last'.args = args /\ last'.from = content
         /\ last'.threw = left.threw /\ last'.returned = returned
  BY DEF Answer

(* A list holds what was left of it.                                       *)
LEMMA OnListIs ==
  ASSUME NEW left
  PROVE  OnList(left).into.items = left.into /\ OnList(left).threw = left.threw
  BY DEF OnList, Left, ListOf

(* push() and unshift()                                                    *)
LEMMA PushActs ==
  ASSUME content \in Contents(kind), NEW items \in Rows, Push(items)
  PROVE  ListsActLikeArrays'
<1> DEFINE s == List  left == InsertEach(s, Len(s), Slots(items))  n == Len(items)
<1>1. s \in Seq(Keepable) /\ Len(s) \in Nat /\ content.items = s
  BY ListHere DEF Push, List
<1>2. n \in Nat /\ IsRow(Row(items), n) /\ Keeps(Slots(items), n, Keepable, Row(items))
  BY RowsGiven
<1>3. Answer("push", <<items>>, OnList(left), Len(left.into))
  BY DEF Push
<1> HIDE DEF s, left, n
<1>4. ~left.threw => left.into = s \o Row(items) /\ Len(left.into) = Len(s) + n
  <2> SUFFICES ASSUME ~left.threw PROVE left.into = s \o Row(items) /\ Len(left.into) = Len(s) + n
    OBVIOUS
  <2> DEFINE x == Len(s)
  <2>1. left = InsertEach(s, x, Slots(items)) /\ x \in Nat /\ x <= Len(s)
    BY <1>1 DEF left
  <2> HIDE DEF x
  <2>2. IsCut(s, Keepable, s, x, x) /\ Within(s, x, x)
    BY <1>1, <2>1, NotCut
  <2>3. IsSpliced(left.into, s, x, Row(items), x) /\ Row(items) \in Seq(Keepable) /\ Len(left.into) = Len(s) + n
    BY <1>1, <1>2, <2>1, <2>2, InsertDoes
  <2> QED  BY <1>1, <2>3, SplicedNowhere DEF x
<1>5. /\ content'.items = left.into /\ last'.threw = left.threw /\ last'.returned = Len(left.into)
      /\ last'.op = "push" /\ last'.args[1] = items /\ last'.from.items = s
  BY <1>1, <1>3, Answered, OnListIs
<1> QED  BY <1>4, <1>5 DEF ListsActLikeArrays, n

LEMMA UnshiftActs ==
  ASSUME content \in Contents(kind), NEW items \in Rows, Unshift(items)
  PROVE  ListsActLikeArrays'
<1> DEFINE s == List  left == InsertEach(s, 0, Slots(items))  n == Len(items)
<1>1. s \in Seq(Keepable) /\ Len(s) \in Nat /\ content.items = s
  BY ListHere DEF Unshift, List
<1>2. n \in Nat /\ IsRow(Row(items), n) /\ Keeps(Slots(items), n, Keepable, Row(items))
  BY RowsGiven
<1>3. Answer("unshift", <<items>>, OnList(left), Len(left.into))
  BY DEF Unshift
<1> HIDE DEF s, left, n
<1>4. ~left.threw => left.into = Row(items) \o s /\ Len(left.into) = Len(s) + n
  <2> SUFFICES ASSUME ~left.threw PROVE left.into = Row(items) \o s /\ Len(left.into) = Len(s) + n
    OBVIOUS
  <2> DEFINE x == 0
  <2>1. left = InsertEach(s, x, Slots(items)) /\ x \in Nat /\ x <= Len(s)
    BY <1>1 DEF left
  <2> HIDE DEF x
  <2>2. IsCut(s, Keepable, s, x, x) /\ Within(s, x, x)
    BY <1>1, <2>1, NotCut
  <2>3. IsSpliced(left.into, s, x, Row(items), x) /\ Row(items) \in Seq(Keepable) /\ Len(left.into) = Len(s) + n
    BY <1>1, <1>2, <2>1, <2>2, InsertDoes
  <2> QED  BY <1>1, <2>3, SplicedNowhere DEF x
<1>5. /\ content'.items = left.into /\ last'.threw = left.threw /\ last'.returned = Len(left.into)
      /\ last'.op = "unshift" /\ last'.args[1] = items /\ last'.from.items = s
  BY <1>1, <1>3, Answered, OnListIs
<1> QED  BY <1>4, <1>5 DEF ListsActLikeArrays, n

LEMMA LeftInto ==
  ASSUME NEW into
  PROVE  /\ Left(into, FALSE).into = into /\ ~Left(into, FALSE).threw
         /\ Left(into, TRUE).into = into /\ Left(into, TRUE).threw
  BY DEF Left

(* pop() and shift(): an array spliced at its end, and at its beginning.   *)
LEMMA Numbered ==
  ASSUME NEW i \in Int
  PROVE  i # Undefined
  BY CollectionsAssumption

LEMMA TakeOne ==
  ASSUME NEW U, NEW s \in Seq(U), NEW start \in Int, NEW x, x = ArrayPosition(Len(s), start), x < Len(s),
         NEW t, IsSpliced(t, s, x, <<>>, x + 1)
  PROVE  ArraySplice(s, start, 1, <<>>).into = t
<1>0. Len(s) \in Nat /\ x \in Int
  BY LenProperties DEF ArrayPosition
<1> DEFINE one == 1  none == <<>>
<1>1. TakesAway(s, x, one, one)
  BY <1>0, Numbered DEF TakesAway
<1>2. IsSpliced(t, s, x, none, x + one)
  OBVIOUS
<1> HIDE DEF one, none
<1>3. SplicesTo(s, start, one, none, t, x, one)
  BY <1>1, <1>2, ArraySpliceIs
<1> QED  BY <1>3 DEF SplicesTo, one, none

(* The first element taken away, and the last.                             *)
LEMMA PartIsCut ==
  ASSUME NEW U, NEW s \in Seq(U), s # <<>>
  PROVE  /\ IsCut(Tail(s), U, s, 0, 1) /\ Within(s, 0, 1)
         /\ IsCut(Front(s), U, s, Len(s) - 1, Len(s)) /\ Within(s, Len(s) - 1, Len(s))
<1>0. Len(s) \in Nat /\ Len(s) > 0
  BY LenProperties, EmptySeq
<1>1. IsCut(Tail(s), U, s, 0, 1)
  <2>1. /\ Tail(s) \in Seq(U) /\ Len(Tail(s)) = Len(s) - 1
        /\ \A j \in 1..(Len(s) - 1) : Tail(s)[j] = s[j + 1]
    BY <1>0, HeadTailProperties
  <2> QED  BY <1>0, <2>1 DEF IsCut
<1>2. IsCut(Front(s), U, s, Len(s) - 1, Len(s))
  <2> DEFINE e == Len(s) - 1  f == SubSeq(s, 1, e)
  <2>1. Front(s) = f
    BY DEF Front
  <2>2. e \in Nat /\ \A j \in 1..e : s[j] \in U
    BY <1>0, ElementOfSeq
  <2>3. 1 \in Int /\ e \in Int
    BY <2>2
  <2>4. /\ f \in Seq(U)
        /\ Len(f) = IF 1 <= e THEN e - 1 + 1 ELSE 0
        /\ \A j \in 1..(e - 1 + 1) : f[j] = s[1 + j - 1]
    BY <2>2, <2>3, SubSeqProperties
  <2> HIDE DEF e, f
  <2>5. f \in Seq(U) /\ Len(f) = e /\ \A j \in 1..e : f[j] = s[j]
    <3>1. Len(f) = e /\ e - 1 + 1 = e
      BY <2>2, <2>4
    <3>2. \A j \in 1..e : 1 + j - 1 = j
      BY <2>2
    <3> QED  BY <2>4, <3>1, <3>2
  <2> USE DEF e
  <2>6. Len(s) - e = 1 /\ Len(s) - (Len(s) - e) = e /\ (e + 1)..e = {}
    BY <1>0
  <2> HIDE DEF f
  <2> QED  BY <1>0, <2>1, <2>5, <2>6 DEF IsCut
<1>3. Within(s, 0, 1) /\ Within(s, Len(s) - 1, Len(s))
  BY <1>0 DEF Within
<1> QED  BY <1>1, <1>2, <1>3

LEMMA EmptyTakeOne ==
  ASSUME NEW start \in {-1, 0}
  PROVE  ArraySplice(<<>>, start, 1, <<>>).into = <<>>
<1> DEFINE s == <<>>  x == ArrayPosition(Len(s), start)  rest == Len(s) - x
           count == IF 1 = Undefined \/ 1 > rest THEN rest ELSE IF 1 < 0 THEN 0 ELSE 1
<1>0. Len(s) = 0
  OBVIOUS
<1>1. Len(s) = 0 /\ x = 0 /\ rest = 0 /\ count = 0
  <2>1. x = 0
    BY <1>0 DEF ArrayPosition
  <2>2. rest = 0
    BY <1>0, <2>1
  <2> HIDE DEF rest
  <2>3. 1 > rest /\ count = 0
    BY <2>2
  <2> QED  BY <1>0, <2>1, <2>2, <2>3
<1>2. ArraySplice(s, start, 1, <<>>).into = SubSeq(s, 1, x) \o <<>> \o SubSeq(s, x + count + 1, Len(s))
  BY DEF ArraySplice
<1>3. SubSeq(s, 1, x) = <<>> /\ SubSeq(s, x + count + 1, Len(s)) = <<>>
  <2>1. x + count + 1 = 1
    BY <1>1
  <2>2. s \in Seq({})
    OBVIOUS
  <2>3. SubSeq(s, 1, 0) = <<>>
    BY <2>2, SubSeqEmpty
  <2> QED  BY <1>1, <2>1, <2>3
<1>4. <<>> \o <<>> \o <<>> = <<>>
  OBVIOUS
<1> QED  BY <1>2, <1>3, <1>4

LEMMA TakeActs ==
  ASSUME content \in Contents(kind), Pop \/ Shift
  PROVE  ListsActLikeArrays'
<1> DEFINE s == List
<1>1. s \in Seq(Keepable) /\ Len(s) \in Nat /\ content.items = s /\ content = ListOf(s)
  BY ListHere DEF Pop, Shift, List
<1>2. ASSUME s = <<>>, Pop PROVE ListsActLikeArrays'
  <2> DEFINE left == Left(content, FALSE)  none == <<>>
  <2>1. Answer("pop", none, left, Undefined) /\ left.into = content
    BY <1>2, LeftInto, Zenon DEF Pop
  <2> HIDE DEF left, none
  <2>2. /\ content'.items = s /\ last'.returned = Undefined /\ last'.op = "pop" /\ last'.from.items = s
    BY <1>1, <2>1, Answered
  <2>3. ArraySplice(s, -1, 1, <<>>).into = s
    BY <1>2, EmptyTakeOne
  <2> HIDE DEF s
  <2> QED  BY <1>2, <2>2, <2>3 DEF ListsActLikeArrays
<1>3. ASSUME s = <<>>, Shift PROVE ListsActLikeArrays'
  <2> DEFINE left == Left(content, FALSE)  none == <<>>
  <2>1. Answer("shift", none, left, Undefined) /\ left.into = content
    BY <1>3, LeftInto, Zenon DEF Shift
  <2> HIDE DEF left, none
  <2>2. /\ content'.items = s /\ last'.returned = Undefined /\ last'.op = "shift" /\ last'.from.items = s
    BY <1>1, <2>1, Answered
  <2>3. ArraySplice(s, 0, 1, <<>>).into = s
    BY <1>3, EmptyTakeOne
  <2> HIDE DEF s
  <2> QED  BY <1>3, <2>2, <2>3 DEF ListsActLikeArrays
<1>4. ASSUME s # <<>>, Pop PROVE ListsActLikeArrays'
  <2> DEFINE into == ListOf(Front(s))  left == Left(into, FALSE)  none == <<>>
  <2>1. Answer("pop", none, left, s[Len(s)]) /\ left.into = into
    BY <1>4, LeftInto, Zenon DEF Pop
  <2> HIDE DEF left, none
  <2>2. /\ content' = ListOf(Front(s)) /\ last'.returned = s[Len(s)] /\ last'.op = "pop" /\ last'.from.items = s
    BY <1>1, <2>1, Answered
  <2>3. content'.items = Front(s)
    BY <2>2 DEF ListOf
  <2>4. ArraySplice(s, -1, 1, <<>>).into = Front(s)
    <3> DEFINE x == Len(s) - 1  y == Len(s)
    <3>1. y > 0
      BY <1>1, <1>4, EmptySeq
    <3>2. x = ArrayPosition(Len(s), -1) /\ x < Len(s) /\ y = x + 1 /\ -1 \in Int
      BY <1>1, <3>1 DEF ArrayPosition
    <3>3. IsCut(Front(s), Keepable, s, x, y) /\ Within(s, x, y)
      BY <1>1, <1>4, PartIsCut
    <3> HIDE DEF s, x, y
    <3>4. IsSpliced(Front(s), s, x, <<>>, y)
      BY <1>1, <3>3, CutIsSpliced
    <3> QED  BY <1>1, <3>2, <3>4, TakeOne
  <2> HIDE DEF s
  <2> QED  BY <1>4, <2>2, <2>3, <2>4 DEF ListsActLikeArrays
<1>5. ASSUME s # <<>>, Shift PROVE ListsActLikeArrays'
  <2> DEFINE into == ListOf(Tail(s))  left == Left(into, FALSE)  none == <<>>
  <2>1. Answer("shift", none, left, s[1]) /\ left.into = into
    BY <1>5, LeftInto, Zenon DEF Shift
  <2> HIDE DEF left, none
  <2>2. /\ content' = ListOf(Tail(s)) /\ last'.returned = s[1] /\ last'.op = "shift" /\ last'.from.items = s
    BY <1>1, <2>1, Answered
  <2>3. content'.items = Tail(s)
    BY <2>2 DEF ListOf
  <2>4. ArraySplice(s, 0, 1, <<>>).into = Tail(s)
    <3> DEFINE x == 0  y == 1
    <3>1. Len(s) > 0
      BY <1>1, <1>5, EmptySeq
    <3>2. x = ArrayPosition(Len(s), 0) /\ x < Len(s) /\ y = x + 1 /\ 0 \in Int
      BY <1>1, <3>1 DEF ArrayPosition
    <3>3. IsCut(Tail(s), Keepable, s, x, y) /\ Within(s, x, y)
      BY <1>1, <1>5, PartIsCut
    <3> HIDE DEF s, x, y
    <3>4. IsSpliced(Tail(s), s, x, <<>>, y)
      BY <1>1, <3>3, CutIsSpliced
    <3> QED  BY <1>1, <3>2, <3>4, TakeOne
  <2> HIDE DEF s
  <2> QED  BY <1>5, <2>2, <2>3, <2>4 DEF ListsActLikeArrays
<1> QED  BY <1>2, <1>3, <1>4, <1>5

LEMMA IndexesAre ==
  ASSUME NEW i \in Indexes
  PROVE  i \in Int
  BY CollectionsAssumption DEF Indexes

LEMMA Numeric ==
  ASSUME NEW i \in Indexes \cup {Undefined}
  PROVE  i = Undefined \/ (i \in Int /\ i # Undefined)
  BY IndexesAre, Numbered

(* splice()                                                                *)
LEMMA SpliceBounds ==
  ASSUME NEW n \in Nat, NEW s, Len(s) = n, NEW start \in Int, n + start >= 0,
         NEW deleteCount, deleteCount = Undefined \/ (deleteCount \in Int /\ deleteCount # Undefined),
         NEW first, first = SpliceStart(s, start), NEW end, end = SpliceEnd(s, first, deleteCount),
         NEW y, y = IF end > first THEN end ELSE first, NEW count, count = y - first
  PROVE  /\ first \in Nat /\ first <= n /\ end \in Int /\ end <= n /\ first = ArrayPosition(n, start)
         /\ TakesAway(s, first, deleteCount, count) /\ first + count = y
<1>1. first \in Nat /\ first <= n /\ first = ArrayPosition(n, start)
  BY DEF SpliceStart, ArrayPosition
<1>2. CASE deleteCount = Undefined
  <2>1. end = n
    BY <1>2 DEF SpliceEnd
  <2>2. y = n /\ count = n - first
    BY <1>1, <2>1
  <2> QED  BY <1>1, <1>2, <2>1, <2>2 DEF TakesAway
<1>3. CASE deleteCount \in Int /\ deleteCount # Undefined
  <2>1. end = IF first + deleteCount > n THEN n ELSE first + deleteCount
    BY <1>3 DEF SpliceEnd
  <2>2. end \in Int /\ end <= n
    BY <1>1, <1>3, <2>1
  <2>3. count = IF deleteCount > n - first THEN n - first ELSE IF deleteCount < 0 THEN 0 ELSE deleteCount
    BY <1>1, <1>3, <2>1
  <2>4. first + count = y
    BY <1>1, <2>2
  <2> QED  BY <1>1, <1>3, <2>2, <2>3, <2>4 DEF TakesAway
<1> QED  BY <1>2, <1>3

LEMMA SpliceActs ==
  ASSUME content \in Contents(kind), NEW start \in Indexes, NEW deleteCount \in Indexes \cup {Undefined},
         NEW items \in Rows, Splice(start, deleteCount, items)
  PROVE  ListsActLikeArrays'
<1> DEFINE s == List
           first == SpliceStart(s, start)
           end == SpliceEnd(s, first, deleteCount)
           w == RemoveBackwards(s, first, end)
           left == InsertEach(w, first, Slots(items))
           n == Len(items)
           args == <<start, deleteCount, items>>
           failed == Left(content, TRUE)
           returned == SubSeq(s, first + 1, end)
           expected == ArraySplice(s, start, deleteCount, Row(items))
<1>1. s \in Seq(Keepable) /\ Len(s) \in Nat /\ content.items = s
  BY ListHere DEF Splice, List
<1>2. n \in Nat /\ IsRow(Row(items), n) /\ Keeps(Slots(items), n, Keepable, Row(items))
  BY RowsGiven
<1>3. \/ Answer("splice", args, failed, <<>>)
      \/ Answer("splice", args, OnList(left), returned)
  BY Zenon DEF Splice
<1>4. start \in Int /\ (deleteCount = Undefined \/ (deleteCount \in Int /\ deleteCount # Undefined))
  BY IndexesAre, Numeric
<1>5. failed.threw
  BY LeftInto, Zenon
<1>6. args[1] = start /\ args[2] = deleteCount /\ args[3] = items
  OBVIOUS
<1> HIDE DEF s, first, end, w, left, n, args, failed, returned, expected
<1>7. CASE Answer("splice", args, failed, <<>>)
  <2>1. last'.threw
    BY <1>5, <1>7, Answered
  <2> QED  BY <2>1 DEF ListsActLikeArrays
<1>8. CASE Answer("splice", args, OnList(left), returned)
  <2>1. /\ content'.items = left.into /\ last'.threw = left.threw /\ last'.returned = returned
        /\ last'.op = "splice" /\ last'.args = args /\ last'.from.items = s
    BY <1>1, <1>8, Answered, OnListIs
  <2>2. ASSUME ~left.threw, Len(s) + start >= 0
        PROVE  left.into = expected.into /\ returned = expected.returned
    <3> DEFINE y == IF end > first THEN end ELSE first  count == y - first  l == Len(s)
    <3>1. l \in Nat /\ l = Len(s) /\ l + start >= 0
      BY <1>1, <2>2
    <3>2. first = SpliceStart(s, start) /\ end = SpliceEnd(s, first, deleteCount)
      BY DEF first, end
    <3>3. y = (IF end > first THEN end ELSE first) /\ count = y - first
      OBVIOUS
    <3> HIDE DEF y, count, l
    <3>4. /\ first \in Nat /\ first <= l /\ end \in Int /\ end <= l /\ first = ArrayPosition(l, start)
          /\ TakesAway(s, first, deleteCount, count) /\ first + count = y
      BY <1>4, <3>1, <3>2, <3>3, SpliceBounds
    <3>5. IsCut(w, Keepable, s, first, y) /\ Within(s, first, y)
      BY <1>1, <3>1, <3>3, <3>4, RemoveDoes DEF w
    <3>6. left = InsertEach(w, first, Slots(items))
      BY DEF left
    <3>7. IsSpliced(left.into, s, first, Row(items), y)
      BY <1>1, <1>2, <2>2, <3>5, <3>6, InsertDoes
    <3>8. IsSpliced(left.into, s, first, Row(items), first + count) /\ first = ArrayPosition(Len(s), start)
      BY <3>1, <3>4, <3>7
    <3>9. SplicesTo(s, start, deleteCount, Row(items), left.into, first, count)
      BY <3>4, <3>8, ArraySpliceIs
    <3>10. expected.into = left.into /\ expected.returned = SubSeq(s, first + 1, first + count)
      BY <3>9 DEF SplicesTo, expected
    <3>11. returned = SubSeq(s, first + 1, first + count)
      <4>1. CASE end > first
        BY <3>3, <3>4, <4>1 DEF returned
      <4>2. CASE ~(end > first)
        <5> DEFINE a == first + 1  e == first + count
        <5>1. a \in Int /\ e \in Int /\ a > end /\ a > e /\ end \in Int
          <6>1. y = first
            BY <3>3, <4>2
          <6>2. e = first /\ a = first + 1
            BY <3>4, <6>1
          <6> HIDE DEF a, e
          <6> QED  BY <3>4, <4>2, <6>2
        <5>2. returned = SubSeq(s, a, end)
          BY DEF returned
        <5> HIDE DEF a, e
        <5>3. SubSeq(s, a, end) = <<>> /\ SubSeq(s, a, e) = <<>>
          BY <1>1, <5>1, SubSeqEmpty
        <5> QED  BY <5>2, <5>3 DEF a, e
      <4> QED  BY <4>1, <4>2
    <3> QED  BY <3>10, <3>11
  <2> HIDE DEF expected
  <2>3. ~last'.threw /\ Len(s) + start >= 0 => content'.items = expected.into /\ last'.returned = expected.returned
    BY <2>1, <2>2
  <2> QED  BY <1>6, <2>1, <2>3 DEF ListsActLikeArrays, expected
<1> QED  BY <1>3, <1>7, <1>8

(* An index of an element, as remove(), move() and swap() take it.         *)
LEMMA InRangeIs ==
  ASSUME NEW s, s = List, Len(s) \in Nat, NEW i \in Int
  PROVE  InRange(i) => i \in Nat /\ i < Len(s) /\ i = ArrayPosition(Len(s), i) /\ i + 1 \in 1..Len(s)
<1> SUFFICES ASSUME InRange(i)
             PROVE  i \in Nat /\ i < Len(s) /\ i = ArrayPosition(Len(s), i) /\ i + 1 \in 1..Len(s)
  OBVIOUS
<1>1. i \in 0..(Len(s) - 1)
  BY DEF InRange
<1>2. i \in Nat /\ i < Len(s)
  BY <1>1
<1> QED  BY <1>2 DEF ArrayPosition

(* An array spliced of one element.                                        *)
LEMMA Takes ==
  ASSUME NEW U, NEW s \in Seq(U), NEW x \in Nat, x < Len(s), NEW w, w = RemoveAt(s, x + 1)
  PROVE  IsWithout(w, U, s, x + 1) /\ ArraySplice(s, x, 1, <<>>).into = w
<1> DEFINE y == x + 1
<1>0. Len(s) \in Nat
  BY LenProperties
<1>1. y \in 1..Len(s) /\ w = RemoveAt(s, y)
  BY <1>0
<1> HIDE DEF y
<1>2. IsWithout(w, U, s, y)
  BY <1>1, Removed
<1>3. IsCut(w, U, s, x, y) /\ Within(s, x, y)
  BY <1>2, WithoutIsCut DEF y
<1>4. IsSpliced(w, s, x, <<>>, y)
  BY <1>3, CutIsSpliced
<1>5. x \in Int /\ x = ArrayPosition(Len(s), x)
  BY <1>0 DEF ArrayPosition
<1>6. ArraySplice(s, x, 1, <<>>).into = w
  BY <1>4, <1>5, TakeOne DEF y
<1> QED  BY <1>2, <1>6 DEF y

(* remove()                                                                *)
LEMMA RemoveActs ==
  ASSUME content \in Contents(kind), NEW index \in Indexes, RemoveIndex(index)
  PROVE  ListsActLikeArrays'
<1> DEFINE s == List  w == RemoveAt(s, index + 1)  into == ListOf(w)
           done == Left(into, FALSE)  failed == Left(content, TRUE)  args == <<index>>
<1>1. s \in Seq(Keepable) /\ Len(s) \in Nat /\ content.items = s /\ s = List
  BY ListHere DEF RemoveIndex, List
<1>2. \/ InRange(index) /\ Answer("remove", args, done, Undefined)
      \/ Answer("remove", args, failed, Undefined)
  BY Zenon DEF RemoveIndex
<1>3. failed.threw /\ done.into = into
  BY LeftInto, Zenon
<1>4. args[1] = index /\ into.items = w
  BY DEF ListOf
<1>5. index \in Int /\ w = RemoveAt(s, index + 1)
  BY IndexesAre
<1> HIDE DEF s, w, into, done, failed, args
<1>6. CASE Answer("remove", args, failed, Undefined)
  <2>1. last'.threw
    BY <1>3, <1>6, Answered
  <2> QED  BY <2>1 DEF ListsActLikeArrays
<1>7. CASE InRange(index) /\ Answer("remove", args, done, Undefined)
  <2>1. content'.items = w /\ last'.op = "remove" /\ last'.args[1] = index /\ last'.from.items = s
    BY <1>1, <1>3, <1>4, <1>7, Answered
  <2>2. index \in Nat /\ index < Len(s)
    BY <1>1, <1>5, <1>7, InRangeIs
  <2>3. ArraySplice(s, index, 1, <<>>).into = w
    BY <1>1, <1>5, <2>2, Takes
  <2> QED  BY <2>1, <2>3 DEF ListsActLikeArrays
<1> QED  BY <1>2, <1>6, <1>7

(* move()                                                                  *)
LEMMA MovesLike ==
  ASSUME NEW U, NEW s \in Seq(U), NEW from \in Nat, from < Len(s), NEW to \in Nat, to < Len(s)
  PROVE  InsertAt(RemoveAt(s, from + 1), to + 1, s[from + 1]) = ArrayMove(s, from, to)
<1> DEFINE w == RemoveAt(s, from + 1)  v == s[from + 1]  y == to + 1  t == InsertAt(w, y, v)
           none == 0  one == <<v>>
<1>0. Len(s) \in Nat
  BY LenProperties
<1>1. v \in U
  BY <1>0, ElementOfSeq
<1>2. w = RemoveAt(s, from + 1) /\ v = s[from + 1]
  OBVIOUS
<1> HIDE DEF w, v
<1>3. IsWithout(w, U, s, from + 1) /\ ArraySplice(s, from, 1, <<>>).into = w
  BY <1>2, Takes
<1>4. w \in Seq(U) /\ Len(w) = Len(s) - 1
  BY <1>3 DEF IsWithout
<1>5. y \in 1..(Len(w) + 1) /\ to <= Len(w)
  BY <1>0, <1>4
<1>6. IsWith(t, U, w, y, v)
  <2> HIDE DEF y
  <2> QED  BY <1>1, <1>4, <1>5, Inserted
<1> HIDE DEF t
<1>7. IsSpliced(t, w, to, one, to)
  BY <1>1, <1>4, <1>5, <1>6, WithIsSpliced
<1>8. to = ArrayPosition(Len(w), to) /\ to + none = to
  BY <1>0, <1>4, <1>5 DEF ArrayPosition
<1>9. TakesAway(w, to, none, none)
  BY <1>0, <1>4, <1>5, Numbered DEF TakesAway
<1>10. IsSpliced(t, w, to, one, to + none)
  BY <1>7, <1>8
<1> HIDE DEF none, one
<1>11. SplicesTo(w, to, none, one, t, to, none)
  BY <1>8, <1>9, <1>10, ArraySpliceIs
<1>12. ArraySplice(w, to, 0, <<v>>).into = t
  BY <1>11 DEF SplicesTo, none, one
<1>13. ArrayMove(s, from, to) = t
  BY <1>2, <1>3, <1>12, Zenon DEF ArrayMove
<1> QED  BY <1>2, <1>13 DEF t, y

LEMMA MoveActs ==
  ASSUME content \in Contents(kind), NEW from \in Indexes, NEW to \in Indexes, Move(from, to)
  PROVE  ListsActLikeArrays'
<1> DEFINE s == List  t == InsertAt(RemoveAt(s, from + 1), to + 1, s[from + 1])  into == ListOf(t)
           done == Left(into, FALSE)  failed == Left(content, TRUE)  args == <<from, to>>
<1>1. s \in Seq(Keepable) /\ Len(s) \in Nat /\ content.items = s /\ s = List
  BY ListHere DEF Move, List
<1>2. \/ InRange(from) /\ InRange(to) /\ Answer("move", args, done, Undefined)
      \/ Answer("move", args, failed, Undefined)
  BY Zenon DEF Move
<1>3. failed.threw /\ done.into = into
  BY LeftInto, Zenon
<1>4. args[1] = from /\ args[2] = to /\ into.items = t
  BY DEF ListOf
<1>5. from \in Int /\ to \in Int /\ t = InsertAt(RemoveAt(s, from + 1), to + 1, s[from + 1])
  BY IndexesAre
<1> HIDE DEF s, t, into, done, failed, args
<1>6. CASE Answer("move", args, failed, Undefined)
  <2>1. last'.threw
    BY <1>3, <1>6, Answered
  <2> QED  BY <2>1 DEF ListsActLikeArrays
<1>7. CASE InRange(from) /\ InRange(to) /\ Answer("move", args, done, Undefined)
  <2>1. content'.items = t /\ last'.op = "move" /\ last'.args = args /\ last'.from.items = s
    BY <1>1, <1>3, <1>4, <1>7, Answered
  <2>2. from \in Nat /\ from < Len(s) /\ to \in Nat /\ to < Len(s)
    BY <1>1, <1>5, <1>7, InRangeIs
  <2>3. ArrayMove(s, from, to) = t
    BY <1>1, <1>5, <2>2, MovesLike
  <2> QED  BY <1>4, <2>1, <2>3 DEF ListsActLikeArrays
<1> QED  BY <1>2, <1>6, <1>7

(* swap()                                                                  *)
LEMMA SwapActs ==
  ASSUME content \in Contents(kind), NEW i \in Indexes, NEW j \in Indexes, Swap(i, j)
  PROVE  ListsActLikeArrays'
<1> DEFINE s == List  t == [s EXCEPT ![i + 1] = s[j + 1], ![j + 1] = s[i + 1]]  into == ListOf(t)
           done == Left(into, FALSE)  failed == Left(content, TRUE)  args == <<i, j>>
<1>1. s \in Seq(Keepable) /\ Len(s) \in Nat /\ content.items = s /\ s = List
  BY ListHere DEF Swap, List
<1>2. \/ InRange(i) /\ InRange(j) /\ Answer("swap", args, done, Undefined)
      \/ Answer("swap", args, failed, Undefined)
  BY Zenon DEF Swap
<1>3. failed.threw /\ done.into = into
  BY LeftInto, Zenon
<1>4. args[1] = i /\ args[2] = j /\ into.items = t
  BY DEF ListOf
<1>5. i \in Int /\ j \in Int /\ t = [s EXCEPT ![i + 1] = s[j + 1], ![j + 1] = s[i + 1]]
  BY IndexesAre
<1> HIDE DEF s, t, into, done, failed, args
<1>6. CASE Answer("swap", args, failed, Undefined)
  <2>1. last'.threw
    BY <1>3, <1>6, Answered
  <2> QED  BY <2>1 DEF ListsActLikeArrays
<1>7. CASE InRange(i) /\ InRange(j) /\ Answer("swap", args, done, Undefined)
  <2>1. content'.items = t /\ last'.op = "swap" /\ last'.args = args /\ last'.from.items = s
    BY <1>1, <1>3, <1>4, <1>7, Answered
  <2>2. i + 1 \in 1..Len(s) /\ j + 1 \in 1..Len(s)
    BY <1>1, <1>5, <1>7, InRangeIs
  <2>3. t = [p \in DOMAIN s |-> IF p = i + 1 THEN s[j + 1] ELSE IF p = j + 1 THEN s[i + 1] ELSE s[p]]
    <3> DEFINE a == i + 1  b == j + 1
    <3>1. a \in DOMAIN s /\ b \in DOMAIN s /\ s = [p \in DOMAIN s |-> s[p]]
      BY <1>1, <2>2
    <3>2. t = [s EXCEPT ![a] = s[b], ![b] = s[a]]
      BY <1>5
    <3> HIDE DEF a, b
    <3>3. t = [p \in DOMAIN s |-> IF p = a THEN s[b] ELSE IF p = b THEN s[a] ELSE s[p]]
      BY <3>1, <3>2
    <3> QED  BY <3>3 DEF a, b
  <2> QED  BY <1>4, <2>1, <2>3, Zenon DEF ListsActLikeArrays
<1> QED  BY <1>2, <1>6, <1>7

(* list[index] = v                                                         *)
LEMMA SetIndexActs ==
  ASSUME content \in Contents(kind), NEW i \in Indexes, NEW v \in Elements, SetIndex(i, v)
  PROVE  ListsActLikeArrays'
<1> DEFINE s == List  slot == Slot(v)  u == slot.kept[1]  t == [s EXCEPT ![i + 1] = u]  into == ListOf(t)
           done == Left(into, slot.threw)  failed == Left(content, TRUE)  args == <<i, v>>
           row == Row(<<v>>)
<1>1. s \in Seq(Keepable) /\ Len(s) \in Nat /\ content.items = s /\ s = List
  BY ListHere DEF SetIndex, List
<1>2. \/ InRange(i) /\ slot.kept # <<>> /\ Answer("set", args, done, Undefined)
      \/ Answer("set", args, failed, Undefined)
  BY Zenon DEF SetIndex
<1>3. failed.threw /\ done.into = into /\ done.threw = slot.threw
  BY Zenon, LeftInto DEF Left
<1>4. args[1] = i /\ args[2] = v /\ into.items = t
  BY DEF ListOf
<1>5. i \in Int /\ t = [s EXCEPT ![i + 1] = u]
  BY IndexesAre
<1>6. SlotKeeps(slot, Keepable, ReadLeaves(v))
  BY ElementKeeps
<1>7. row = <<ReadLeaves(v)>>
  <2>1. DOMAIN <<v>> = 1..1 /\ \A p \in 1..1 : <<v>>[p] = v
    OBVIOUS
  <2>2. row = [p \in 1..1 |-> ReadLeaves(v)]
    BY <2>1 DEF Row
  <2> QED  BY <2>2
<1>8. ~slot.threw => u = ReadLeaves(v) /\ u \in Keepable
  <2> SUFFICES ASSUME ~slot.threw PROVE u = ReadLeaves(v) /\ u \in Keepable
    OBVIOUS
  <2>1. IsSlot(slot, Keepable) /\ u = ReadLeaves(v)
    BY <1>6 DEF SlotKeeps
  <2>2. PICK x \in Keepable : slot.kept = <<x>>
    BY <2>1 DEF IsSlot
  <2>3. u = x
    BY <2>2
  <2> QED  BY <2>1, <2>2, <2>3
<1> HIDE DEF s, slot, u, t, into, done, failed, args, row
<1>9. CASE Answer("set", args, failed, Undefined)
  <2>1. last'.threw
    BY <1>3, <1>9, Answered
  <2> QED  BY <2>1 DEF ListsActLikeArrays
<1>10. CASE InRange(i) /\ slot.kept # <<>> /\ Answer("set", args, done, Undefined)
  <2>1. /\ content'.items = t /\ last'.threw = slot.threw /\ last'.op = "set"
        /\ last'.args = args /\ last'.from.items = s
    BY <1>1, <1>3, <1>4, <1>10, Answered
  <2>2. ASSUME ~slot.threw PROVE ArraySplice(s, i, 1, row).into = t
    <3> DEFINE one == 1  y == i + one
    <3>1. i \in Nat /\ i < Len(s) /\ i = ArrayPosition(Len(s), i)
      BY <1>1, <1>5, <1>10, InRangeIs
    <3>2. IsSpliced(t, s, i, <<u>>, i + 1)
      BY <1>1, <1>5, <1>8, <2>2, <3>1, ExceptIsSpliced
    <3>3. IsSpliced(t, s, i, row, i + one) /\ <<u>> = row
      BY <1>7, <1>8, <2>2, <3>2
    <3>4. TakesAway(s, i, one, one)
      BY <1>1, <3>1, Numbered DEF TakesAway
    <3> HIDE DEF one
    <3>5. SplicesTo(s, i, one, row, t, i, one)
      BY <3>1, <3>3, <3>4, ArraySpliceIs
    <3> QED  BY <3>5 DEF SplicesTo, one
  <2>3. ~last'.threw => content'.items = ArraySplice(s, i, 1, row).into
    BY <2>1, <2>2
  <2> QED  BY <1>4, <2>1, <2>3 DEF ListsActLikeArrays, row
<1> QED  BY <1>2, <1>9, <1>10

(* object.list = values                                                    *)
LEMMA ListFilledIs ==
  ASSUME NEW U, NEW n \in Nat, NEW parts, IsRow(parts, n), NEW slots, Keeps(slots, n, U, parts),
         NEW left, left = InsertEach(<<>>, 0, slots)
  PROVE  ~left.threw => left.into = parts
<1> DEFINE x == InsertIntoListOfMixed(slots)
<1>1. x.kept = <<ListOf(left.into)>> /\ x.threw = left.threw
  BY DEF InsertIntoListOfMixed
<1> HIDE DEF x
<1>2. IsListSlot(x, U, parts)
  BY ListFilled DEF x
<1>3. PICK into \in Seq(U) : x.kept = <<ListOf(into)>> /\ (~x.threw => into = parts)
  BY <1>2 DEF IsListSlot
<1>4. ListOf(into) = ListOf(left.into)
  BY <1>1, <1>3
<1>5. into = left.into
  BY <1>4 DEF ListOf
<1> QED  BY <1>1, <1>3, <1>5

(* The arrays and the plain objects that are assigned.                     *)
LEMMA GivenIs ==
  ASSUME NEW v
  PROVE  /\ v \in Arrays => /\ v \notin Values \cup {Bad, Own, Undefined}
                            /\ \E items \in BoundedSeq(Elements, MaxGiven) : v = ListOf(items)
         /\ v \in PlainObjects => /\ v \notin Values \cup {Bad, Own, Undefined}
                                  /\ \E pairs \in BoundedSeq(Keys \X Elements, MaxGiven) :
                                        HasDistinctKeys(pairs) /\ v = ObjectOf(pairs)
<1>0. MaxGiven \in Nat
  BY CollectionsAssumption
<1>1. Elements \subseteq Items \cup Nested
  BY DEF Elements
<1>2. ASSUME v \in Arrays
      PROVE  /\ v \notin Values \cup {Bad, Own, Undefined}
             /\ \E items \in BoundedSeq(Elements, MaxGiven) : v = ListOf(items)
  <2>1. PICK items \in BoundedSeq(Elements, MaxGiven) : v = ListOf(items)
    BY <1>2 DEF Arrays, ListsOf
  <2>2. items \in BoundedSeq(Items \cup Nested, MaxGiven)
    BY <1>0, <1>1 DEF BoundedSeq, SeqOf
  <2>3. v \in ListsOf(Items \cup Nested, MaxGiven)
    BY <2>1, <2>2 DEF ListsOf
  <2> QED  BY <2>1, <2>3, NestedAssumption
<1>3. ASSUME v \in PlainObjects
      PROVE  /\ v \notin Values \cup {Bad, Own, Undefined}
             /\ \E pairs \in BoundedSeq(Keys \X Elements, MaxGiven) : HasDistinctKeys(pairs) /\ v = ObjectOf(pairs)
  <2>1. PICK pairs \in BoundedSeq(Keys \X Elements, MaxGiven) : HasDistinctKeys(pairs) /\ v = ObjectOf(pairs)
    BY <1>3 DEF PlainObjects, PlainOf
  <2>2. Keys \X Elements \subseteq Keys \X (Items \cup Nested)
    BY <1>1
  <2>3. pairs \in BoundedSeq(Keys \X (Items \cup Nested), MaxGiven)
    BY <1>0, <2>2 DEF BoundedSeq, SeqOf
  <2>4. v \in PlainOf(Items \cup Nested, MaxGiven)
    BY <2>1, <2>3 DEF PlainOf
  <2> QED  BY <2>1, <2>4, NestedAssumption
<1> QED  BY <1>2, <1>3

LEMMA AssignListActs ==
  ASSUME content \in Contents(kind), NEW values \in Arrays \cup {Own, Bad}, AssignList(values)
  PROVE  ListsActLikeArrays'
<1> DEFINE s == List  rows == ListSnapshot(values)  left == InsertEach(<<>>, 0, Slots(rows))
           failed == Left(content, TRUE)  args == <<values>>
<1>1. s \in Seq(Stored) /\ Len(s) \in Nat /\ content.items = s
  BY ListHere DEF AssignList, List
<1>2. \/ (values = Own \/ IsJsOrBarqList(values)) /\ Answer("assign", args, OnList(left), Undefined)
      \/ Answer("assign", args, failed, Undefined)
  BY Zenon DEF AssignList
<1>3. failed.threw
  BY LeftInto, Zenon
<1>4. args[1] = values /\ rows = IF values = Own THEN s ELSE values.items
  BY DEF ListSnapshot
<1>5. left = InsertEach(<<>>, 0, Slots(rows))
  OBVIOUS
<1> HIDE DEF s, rows, left, failed, args
<1>6. CASE Answer("assign", args, failed, Undefined)
  <2>1. last'.threw
    BY <1>3, <1>6, Answered
  <2> QED  BY <2>1 DEF ListsActLikeArrays
<1>7. CASE (values = Own \/ IsJsOrBarqList(values)) /\ Answer("assign", args, OnList(left), Undefined)
  <2>1. /\ content'.items = left.into /\ last'.threw = left.threw /\ last'.op = "assign"
        /\ last'.args = args /\ last'.from.items = s
    BY <1>1, <1>7, Answered, OnListIs
  <2>2. CASE values = Own
    <3> DEFINE n == Len(s)
    <3>1. n \in Nat /\ IsRow(s, n) /\ DOMAIN s = 1..n /\ \A i \in 1..n : s[i] \in Stored
      BY <1>1, SeqIsRow, ElementOfSeq
    <3>2. rows = s
      BY <1>4, <2>2
    <3> HIDE DEF n
    <3>3. \A i \in 1..n : SlotKeeps(Slot(s[i]), Keepable, s[i])
      BY <3>1, StoredKeeps
    <3>4. Keeps(Slots(s), n, Keepable, s)
      BY <3>1, <3>3, SlotsKeep
    <3>5. ~left.threw => left.into = s
      BY <1>5, <3>1, <3>2, <3>4, ListFilledIs
    <3> QED  BY <1>4, <2>1, <2>2, <3>5 DEF ListsActLikeArrays
  <2>3. CASE values # Own
    <3>0. values \in Arrays
      <4>1. values # Bad
        BY <1>7, <2>3, Plainly
      <4> QED  BY <2>3, <4>1
    <3>1. PICK items \in BoundedSeq(Elements, MaxGiven) : values = ListOf(items)
      BY <3>0, GivenIs
    <3> DEFINE n == Len(items)
    <3>2. values.items = items
      BY <3>1 DEF ListOf
    <3>3. n \in Nat /\ IsRow(Row(items), n) /\ Keeps(Slots(items), n, Keepable, Row(items))
      BY CollectionsAssumption, ElementsGiven
    <3>4. rows = items
      BY <1>4, <2>3, <3>2
    <3>5. ~left.threw => left.into = Row(items)
      <4> HIDE DEF n
      <4> QED  BY <1>5, <3>3, <3>4, ListFilledIs
    <3> QED  BY <1>4, <2>1, <2>3, <3>2, <3>5 DEF ListsActLikeArrays
  <2> QED  BY <2>2, <2>3
<1> QED  BY <1>2, <1>6, <1>7

-----------------------------------------------------------------------------
(* Sets, dictionaries and mixed properties                                 *)

LEMMA PairsKeep ==
  ASSUME NEW pairs \in BoundedSeq(Keys \X Elements, MaxGiven), HasDistinctKeys(pairs), NEW n, n = Len(pairs),
         NEW given, given = ValuesOf(pairs)
  PROVE  /\ n \in Nat /\ DOMAIN pairs = 1..n /\ ArePairs(pairs, n, Keys)
         /\ Keeps(Slots(given), n, Keepable, Row(given))
<1>1. AreGiven(pairs, n, Elements)
  BY CollectionsAssumption, PairsGiven
<1>2. n \in Nat /\ DOMAIN pairs = 1..n /\ ArePairs(pairs, n, Keys) /\ DOMAIN given = 1..n /\ \A i \in 1..n : given[i] \in Elements
  BY <1>1 DEF AreGiven
<1> QED  BY <1>2, ElementsKeep

(* object.set = values                                                     *)
LEMMA AssignSetReads ==
  ASSUME NEW values \in Arrays \cup {Own, Bad}, AssignSet(values)
  PROVE  AssignedReadsBack'
<1> DEFINE left == IF IsJsOrBarqList(values) THEN InsertMembers({}, values.items) ELSE Left({}, TRUE)
           args == <<values>>  after == OnSet(left)
<1>1. kind = "set" /\ Answer("assign", args, after, Undefined) /\ args[1] = values
  BY Zenon DEF AssignSet
<1>2. after.into.members = left.into /\ after.threw = left.threw
  BY DEF OnSet, Left, SetOf
<1>3. ASSUME ~IsJsOrBarqList(values) PROVE left.threw
  BY <1>3, LeftInto, Zenon
<1>4. IsJsOrBarqList(values) => left = InsertMembers({}, values.items)
  OBVIOUS
<1> HIDE DEF left, args, after
<1>5. /\ content'.members = left.into /\ last'.threw = left.threw /\ last'.op = "assign"
      /\ last'.args[1] = values /\ kind' = "set"
  BY <1>1, <1>2, Answered
<1>6. ASSUME ~left.threw, values # Own PROVE left.into = ToSet(values.items)
  <2>1. IsJsOrBarqList(values)
    BY <1>3, <1>6
  <2>2. values \in Arrays
    <3>1. values # Bad
      BY <2>1, Plainly
    <3> QED  BY <1>6, <3>1
  <2>3. PICK items \in BoundedSeq(Elements, MaxGiven) : values = ListOf(items)
    BY <2>2, GivenIs
  <2> DEFINE n == Len(items)  none == {}
  <2>4. values.items = items /\ n \in Nat /\ DOMAIN items = 1..n
    <3>1. values.items = items
      BY <2>3 DEF ListOf
    <3> QED  BY <3>1, CollectionsAssumption, Bounded
  <2>5. none \in SUBSET Values /\ left = InsertMembers(none, items)
    BY <1>4, <2>1, <2>4
  <2>6. ToSet(items) = none \cup {items[i] : i \in 1..n}
    BY <2>4 DEF ToSet
  <2>7. n = Len(items)
    OBVIOUS
  <2> HIDE DEF n, none
  <2>8. AddedUpTo(none, items, n, left)
    BY <2>4, <2>5, <2>7, AddsAll
  <2> QED  BY <1>6, <2>4, <2>6, <2>8 DEF AddedUpTo
<1> QED  BY <1>5, <1>6 DEF AssignedReadsBack

(* dictionary.set() and dictionary.key = value                             *)
LEMMA EntriesHere ==
  ASSUME OnADictionary, content \in Contents(kind), NEW e, e = content.entries
  PROVE  e \in MapsOf(Keys, Keepable)
<1>1. Values \subseteq Stored /\ Stored \subseteq Keepable
  BY DEF Stored, Keepable
<1>2. PICK ks \in SUBSET Keys : \E f \in [ks -> Stored] : content = DictionaryOf(f)
  <2>1. CASE kind = "dictionary"
    <3>1. PICK ks \in SUBSET Keys : \E f \in [ks -> Values] : content = DictionaryOf(f)
      BY <2>1 DEF Contents
    <3>2. [ks -> Values] \subseteq [ks -> Stored]
      BY <1>1
    <3> QED  BY <3>1, <3>2
  <2>2. CASE kind = "mixedDictionary"
    BY <2>2 DEF Contents
  <2> QED  BY <2>1, <2>2 DEF OnADictionary
<1>3. PICK f \in [ks -> Stored] : content = DictionaryOf(f)
  BY <1>2
<1>4. e = f
  BY <1>3 DEF DictionaryOf
<1>5. f \in [ks -> Keepable]
  BY <1>1
<1> QED  BY <1>4, <1>5 DEF MapsOf

(* The pairs are set over the entries that were there.                     *)
LEMMA SetIsOver ==
  ASSUME NEW K, NEW U, NEW before \in MapsOf(K, U), NEW n \in Nat, NEW pairs, ArePairs(pairs, n, K),
         DOMAIN pairs = 1..n, NEW parts, NEW slots, Keeps(slots, n, U, parts),
         NEW d, d = SetEntries(before, pairs, slots), ~d.threw
  PROVE  d.into = Over(EntriesOf(pairs, parts), before)
<1> DEFINE e == EntriesOf(pairs, parts)  o == Over(e, before)
<1>1. AreSlots(slots, n, U) /\ \A i \in 1..n : ~slots[i].threw => slots[i].kept[1] = parts[i]
  BY DEF Keeps
<1>2. SetUpTo(before, pairs, slots, K, U, n, d)
  BY <1>1, SetsAll
<1>3. /\ DOMAIN d.into = DOMAIN before \cup {pairs[i][1] : i \in 1..n}
      /\ \A i \in 1..n : d.into[pairs[i][1]] = parts[i]
      /\ \A x \in DOMAIN before : (\A i \in 1..n : pairs[i][1] # x) => d.into[x] = before[x]
      /\ d.into \in MapsOf(K, U)
  BY <1>1, <1>2 DEF SetUpTo, Lefts
<1>4. d.into = [x \in DOMAIN d.into |-> d.into[x]]
  BY <1>3, MapsOfIs
<1>5. DOMAIN e = {pairs[i][1] : i \in 1..n} /\ \A i \in 1..n : e[pairs[i][1]] = parts[i]
  <2>1. AreEntries(e, pairs, n, parts)
    BY EntriesAre
  <2> HIDE DEF e
  <2> QED  BY <2>1 DEF AreEntries
<1> HIDE DEF e
<1>6. o = [x \in DOMAIN e \cup DOMAIN before |-> IF x \in DOMAIN e THEN e[x] ELSE before[x]]
  BY DEF Over
<1> HIDE DEF o
<1>7. DOMAIN d.into = DOMAIN o
  BY <1>3, <1>5, <1>6
<1>8. ASSUME NEW x \in DOMAIN o PROVE d.into[x] = o[x]
  <2>1. CASE x \in DOMAIN e
    <3>1. PICK i \in 1..n : x = pairs[i][1]
      BY <1>5, <2>1
    <3> QED  BY <1>3, <1>5, <1>6, <2>1, <3>1
  <2>2. CASE x \notin DOMAIN e
    <3>1. x \in DOMAIN before /\ \A i \in 1..n : pairs[i][1] # x
      BY <1>5, <1>6, <2>2
    <3> QED  BY <1>3, <1>6, <2>2, <3>1
  <2> QED  BY <2>1, <2>2
<1>9. o = [x \in DOMAIN o |-> o[x]]
  BY <1>6
<1>10. d.into = o
  BY <1>4, <1>7, <1>8, <1>9, Zenon
<1> QED  BY <1>10 DEF o, e

LEMMA OnDictionaryIs ==
  ASSUME NEW left
  PROVE  OnDictionary(left).into.entries = left.into /\ OnDictionary(left).threw = left.threw
  BY DEF OnDictionary, Left, DictionaryOf

LEMMA DictionarySetReads ==
  ASSUME content \in Contents(kind), NEW o \in PlainObjects, DictionarySet(o.pairs)
  PROVE  AssignedReadsBack'
<1>1. PICK pairs \in BoundedSeq(Keys \X Elements, MaxGiven) : HasDistinctKeys(pairs) /\ o = ObjectOf(pairs)
  BY GivenIs
<1> DEFINE e == content.entries  given == ValuesOf(pairs)  slots == Slots(given)  n == Len(pairs)
           left == SetEntries(e, pairs, slots)  args == <<ObjectOf(pairs)>>
<1>2. o.pairs = pairs
  BY <1>1 DEF ObjectOf
<1>3. OnADictionary /\ Answer("set", args, OnDictionary(left), Own) /\ args[1] = o
  BY <1>1, <1>2, Zenon DEF DictionarySet
<1>4. e \in MapsOf(Keys, Keepable)
  BY <1>3, EntriesHere
<1>5. /\ n \in Nat /\ DOMAIN pairs = 1..n /\ ArePairs(pairs, n, Keys)
      /\ Keeps(Slots(given), n, Keepable, Row(given))
  BY <1>1, PairsKeep
<1>6. ReadBack(o) = DictionaryOf(EntriesOf(pairs, Row(ValuesOf(pairs))))
  BY <1>1, GivenIs, Objectly
<1>7. ReadBack(o).entries = EntriesOf(pairs, Row(given))
  BY <1>6 DEF DictionaryOf
<1> HIDE DEF e, given, n, args
<1>8. ~left.threw => left.into = Over(EntriesOf(pairs, Row(given)), e)
  BY <1>4, <1>5, SetIsOver
<1> HIDE DEF left
<1>9. /\ content'.entries = left.into /\ last'.threw = left.threw /\ last'.op = "set"
      /\ last'.args[1] = o /\ kind' = kind /\ last'.from.entries = e
  BY <1>3, Answered, OnDictionaryIs DEF e
<1>10. kind' \in {"dictionary", "mixedDictionary"}
  BY <1>3, <1>9 DEF OnADictionary
<1>11. ~last'.threw => content'.entries = Over(ReadBack(o).entries, last'.from.entries)
  BY <1>7, <1>8, <1>9
<1> QED  BY <1>9, <1>10, <1>11 DEF AssignedReadsBack

(* object.dictionary = value                                               *)
LEMMA DictionaryFilledIs ==
  ASSUME NEW K, NEW U, NEW n \in Nat, NEW pairs, ArePairs(pairs, n, K), DOMAIN pairs = 1..n,
         NEW parts, NEW slots, Keeps(slots, n, U, parts), NEW left, left = SetEntries(NoEntries, pairs, slots)
  PROVE  ~left.threw => left.into = EntriesOf(pairs, parts)
<1> DEFINE x == InsertIntoDictionaryOfMixed(pairs, slots)
<1>1. x.kept = <<DictionaryOf(left.into)>> /\ x.threw = left.threw
  BY DEF InsertIntoDictionaryOfMixed
<1> HIDE DEF x
<1>2. IsDictionarySlot(x, K, U, EntriesOf(pairs, parts))
  BY DictionaryFilled DEF x
<1>3. PICK into \in MapsOf(K, U) : x.kept = <<DictionaryOf(into)>> /\ (~x.threw => into = EntriesOf(pairs, parts))
  BY <1>2 DEF IsDictionarySlot
<1>4. DictionaryOf(into) = DictionaryOf(left.into)
  BY <1>1, <1>3
<1>5. into = left.into
  BY <1>4 DEF DictionaryOf
<1> QED  BY <1>1, <1>3, <1>5

LEMMA AssignDictionaryReads ==
  ASSUME NEW value \in PlainObjects \cup {Own, Bad}, AssignDictionary(value)
  PROVE  AssignedReadsBack'
<1> DEFINE pairs == PairsAfterRemoveAll(value)
           left == IF value = Own \/ IsJsOrBarqDictionary(value)
                   THEN SetEntries(RemoveAllEntries(content.entries), pairs, Slots(ValuesOf(pairs)))
                   ELSE Left(RemoveAllEntries(content.entries), TRUE)
           args == <<value>>
<1>1. OnADictionary /\ Answer("assign", args, OnDictionary(left), Undefined) /\ args[1] = value
  BY Zenon DEF AssignDictionary
<1>2. ASSUME value # Own, ~IsJsOrBarqDictionary(value) PROVE left.threw
  BY <1>2, LeftInto, Zenon
<1>3. ASSUME value # Own, IsJsOrBarqDictionary(value)
      PROVE  left = SetEntries(NoEntries, value.pairs, Slots(ValuesOf(value.pairs)))
  BY <1>3, Zenon DEF RemoveAllEntries, PairsAfterRemoveAll
<1> HIDE DEF left, args
<1>4. /\ content'.entries = left.into /\ last'.threw = left.threw /\ last'.op = "assign"
      /\ last'.args[1] = value /\ kind' = kind
  BY <1>1, Answered, OnDictionaryIs
<1>5. kind' \in {"dictionary", "mixedDictionary"}
  BY <1>1, <1>4 DEF OnADictionary
<1>6. ASSUME ~left.threw, value # Own PROVE left.into = ReadBack(value).entries
  <2>1. IsJsOrBarqDictionary(value)
    BY <1>2, <1>6
  <2>2. value \in PlainObjects
    <3>1. value # Bad
      BY <2>1, Plainly
    <3> QED  BY <1>6, <3>1
  <2>3. PICK given \in BoundedSeq(Keys \X Elements, MaxGiven) : HasDistinctKeys(given) /\ value = ObjectOf(given)
    BY <2>2, GivenIs
  <2> DEFINE n == Len(given)  items == ValuesOf(given)
  <2>4. value.pairs = given
    BY <2>3 DEF ObjectOf
  <2>5. left = SetEntries(NoEntries, given, Slots(items))
    BY <1>3, <1>6, <2>1, <2>4
  <2>6. /\ n \in Nat /\ DOMAIN given = 1..n /\ ArePairs(given, n, Keys)
        /\ Keeps(Slots(items), n, Keepable, Row(items))
    BY <2>3, PairsKeep
  <2>7. ReadBack(value) = DictionaryOf(EntriesOf(given, Row(ValuesOf(given))))
    BY <2>2, <2>3, GivenIs, Objectly
  <2>8. ReadBack(value).entries = EntriesOf(given, Row(items))
    BY <2>7 DEF DictionaryOf
  <2> HIDE DEF n, items
  <2>9. left.into = EntriesOf(given, Row(items))
    BY <1>6, <2>5, <2>6, DictionaryFilledIs
  <2> QED  BY <2>8, <2>9
<1> QED  BY <1>4, <1>5, <1>6 DEF AssignedReadsBack

(* object.mixed = value                                                    *)
LEMMA MixedSlotReads ==
  ASSUME NEW v \in Arrays \cup PlainObjects \cup Values \cup {Bad}, NEW slot, slot = MixedSlot(v), ~slot.threw
  PROVE  slot.kept = <<ReadBack(v)>>
<1>1. CASE v \in Values \cup {Bad}
  <2>1. ~IsJsOrBarqList(v) /\ ~IsJsOrBarqDictionary(v) /\ ReadBack(v) = v
    BY <1>1, Plainly
  <2>2. slot = Leaf(v)
    BY <2>1, Zenon DEF MixedSlot
  <2>3. v \in Values
    BY <2>2, LeafKeeps
  <2>4. slot.kept = <<v>>
    BY <2>2, <2>3 DEF Leaf
  <2> QED  BY <2>1, <2>4
<1>2. CASE v \in Arrays
  <2>1. PICK items \in BoundedSeq(Elements, MaxGiven) : v = ListOf(items)
    BY <1>2, GivenIs
  <2> DEFINE n == Len(items)
  <2>2. IsJsOrBarqList(v) /\ v.items = items /\ ReadBack(v) = ListOf(Row(items))
    BY <1>2, <2>1, GivenIs, Listly
  <2>3. slot = InsertIntoListOfMixed(Slots(items))
    BY <2>2, Zenon DEF MixedSlot
  <2>4. n \in Nat /\ IsRow(Row(items), n) /\ Keeps(Slots(items), n, Keepable, Row(items))
    BY CollectionsAssumption, ElementsGiven
  <2> HIDE DEF n
  <2>5. IsListSlot(slot, Keepable, Row(items))
    BY <2>3, <2>4, ListFilled
  <2>6. slot.kept = <<ListOf(Row(items))>>
    BY <2>5 DEF IsListSlot
  <2> QED  BY <2>2, <2>6
<1>3. CASE v \in PlainObjects
  <2>1. PICK pairs \in BoundedSeq(Keys \X Elements, MaxGiven) : HasDistinctKeys(pairs) /\ v = ObjectOf(pairs)
    BY <1>3, GivenIs
  <2> DEFINE n == Len(pairs)  given == ValuesOf(pairs)
  <2>2. /\ IsJsOrBarqDictionary(v) /\ ~IsJsOrBarqList(v) /\ v.pairs = pairs
        /\ ReadBack(v) = DictionaryOf(EntriesOf(pairs, Row(given)))
    BY <1>3, <2>1, GivenIs, Objectly
  <2>3. slot = InsertIntoDictionaryOfMixed(pairs, Slots(given))
    BY <2>2, Zenon DEF MixedSlot
  <2>4. /\ n \in Nat /\ DOMAIN pairs = 1..n /\ ArePairs(pairs, n, Keys)
        /\ Keeps(Slots(given), n, Keepable, Row(given))
    BY <2>1, PairsKeep
  <2> HIDE DEF n, given
  <2>5. IsDictionarySlot(slot, Keys, Keepable, EntriesOf(pairs, Row(given)))
    BY <2>3, <2>4, DictionaryFilled
  <2>6. slot.kept = <<DictionaryOf(EntriesOf(pairs, Row(given)))>>
    BY <2>5 DEF IsDictionarySlot
  <2> QED  BY <2>2, <2>6
<1> QED  BY <1>1, <1>2, <1>3

LEMMA AssignMixedReads ==
  ASSUME NEW value \in Arrays \cup PlainObjects \cup {Own, Bad} \cup Values, AssignMixed(value)
  PROVE  AssignedReadsBack'
<1> DEFINE slot == MixedSlot(value)  into == IF slot.kept = <<>> THEN content ELSE slot.kept[1]
           left == Left(into, slot.threw)  args == <<value>>
           emptied == Left(IF HasType(content, "list") THEN ListOf(<<>>) ELSE DictionaryOf(NoEntries), FALSE)
<1>1. /\ kind = "mixed"
      /\ \/ value # Own /\ Answer("assign", args, left, Undefined)
         \/ value = Own /\ Answer("assign", args, emptied, Undefined)
  BY Zenon DEF AssignMixed
<1>2. left.into = into /\ left.threw = slot.threw /\ args[1] = value
  BY DEF Left
<1>3. ASSUME value # Own, ~slot.threw PROVE into = ReadBack(value)
  <2>1. value \in Arrays \cup PlainObjects \cup Values \cup {Bad}
    BY <1>3
  <2> HIDE DEF slot
  <2>2. slot.kept = <<ReadBack(value)>>
    BY <1>3, <2>1, MixedSlotReads DEF slot
  <2> QED  BY <2>2
<1> HIDE DEF slot, into, left, args, emptied
<1>4. CASE value = Own /\ Answer("assign", args, emptied, Undefined)
  <2>1. last'.args[1] = Own
    BY <1>2, <1>4, Answered
  <2> QED  BY <2>1 DEF AssignedReadsBack
<1>5. CASE value # Own /\ Answer("assign", args, left, Undefined)
  <2>1. /\ content' = into /\ last'.threw = slot.threw /\ last'.op = "assign"
        /\ last'.args[1] = value /\ kind' = "mixed"
    BY <1>1, <1>2, <1>5, Answered
  <2> QED  BY <1>3, <1>5, <2>1 DEF AssignedReadsBack
<1> QED  BY <1>1, <1>4, <1>5

(* Every call is answered, and answered for what it is.                    *)
AnswersAs(op) == \E args, left, returned : Answer(op, args, left, returned)

LEMMA AnsweredAs ==
  ASSUME NEW op, AnswersAs(op)
  PROVE  last'.op = op /\ kind' = kind
  BY Answered DEF AnswersAs

ListOps == {"push", "unshift", "pop", "shift", "splice", "remove", "set", "move", "swap", "assign"}

LEMMA ListCallsAnswer ==
  ASSUME ListCalls
  PROVE  \E op \in ListOps : AnswersAs(op)
<1>1. ASSUME NEW items, Push(items) \/ Unshift(items) PROVE AnswersAs("push") \/ AnswersAs("unshift")
  BY <1>1, Zenon DEF Push, Unshift, AnswersAs
<1>2. ASSUME Pop \/ Shift PROVE AnswersAs("pop") \/ AnswersAs("shift")
  BY <1>2, Zenon DEF Pop, Shift, AnswersAs
<1>3. ASSUME NEW start, NEW deleteCount, NEW items, Splice(start, deleteCount, items) PROVE AnswersAs("splice")
  BY <1>3, Zenon DEF Splice, AnswersAs
<1>4. ASSUME NEW i, RemoveIndex(i) PROVE AnswersAs("remove")
  BY <1>4, Zenon DEF RemoveIndex, AnswersAs
<1>5. ASSUME NEW i, NEW v, SetIndex(i, v) PROVE AnswersAs("set")
  BY <1>5, Zenon DEF SetIndex, AnswersAs
<1>6. ASSUME NEW i, NEW j, Move(i, j) \/ Swap(i, j) PROVE AnswersAs("move") \/ AnswersAs("swap")
  BY <1>6, Zenon DEF Move, Swap, AnswersAs
<1>7. ASSUME NEW v, AssignList(v) PROVE AnswersAs("assign")
  BY <1>7, Zenon DEF AssignList, AnswersAs
<1>8. \E op : op \in ListOps /\ AnswersAs(op)
  <2>1. {"push", "unshift", "pop", "shift", "splice", "remove", "set", "move", "swap", "assign"} \subseteq ListOps
    BY DEF ListOps
  <2> QED  BY <1>1, <1>2, <1>3, <1>4, <1>5, <1>6, <1>7, <2>1 DEF ListCalls
<1> QED  BY <1>8

(* Each call of a list acts like an array.                                 *)
LEMMA ListCallsAct ==
  ASSUME content \in Contents(kind), ListCalls
  PROVE  ListsActLikeArrays'
  BY PushActs, UnshiftActs, TakeActs, SpliceActs, RemoveActs, SetIndexActs, MoveActs, SwapActs,
     AssignListActs DEF ListCalls

LEMMA OtherCallsAnswer ==
  /\ SetCalls => \E op \in {"add", "delete", "clear", "assign"} : AnswersAs(op)
  /\ DictionaryCalls => \E op \in {"set", "remove", "assign"} : AnswersAs(op)
  /\ \A v : AssignMixed(v) => AnswersAs("assign")
<1>1. ASSUME NEW v, SetAdd(v) PROVE AnswersAs("add")
  BY <1>1, Zenon DEF SetAdd, AnswersAs
<1>2. ASSUME NEW v, SetDelete(v) PROVE AnswersAs("delete")
  BY <1>2, Zenon DEF SetDelete, AnswersAs
<1>3. ASSUME SetClear PROVE AnswersAs("clear")
  BY <1>3, Zenon DEF SetClear, AnswersAs
<1>4. ASSUME NEW v, AssignSet(v) PROVE AnswersAs("assign")
  BY <1>4, Zenon DEF AssignSet, AnswersAs
<1>5. ASSUME NEW pairs, DictionarySet(pairs) PROVE AnswersAs("set")
  BY <1>5, Zenon DEF DictionarySet, AnswersAs
<1>6. ASSUME NEW keys, DictionaryRemove(keys) PROVE AnswersAs("remove")
  BY <1>6, Zenon DEF DictionaryRemove, AnswersAs
<1>7. ASSUME NEW v, AssignDictionary(v) PROVE AnswersAs("assign")
  BY <1>7, Zenon DEF AssignDictionary, AnswersAs
<1>8. ASSUME NEW v, AssignMixed(v) PROVE AnswersAs("assign")
  BY <1>8, Zenon DEF AssignMixed, AnswersAs
<1>9. SetCalls => \E op \in {"add", "delete", "clear", "assign"} : AnswersAs(op)
  BY <1>1, <1>2, <1>3, <1>4 DEF SetCalls
<1>10. DictionaryCalls => \E op \in {"set", "remove", "assign"} : AnswersAs(op)
  BY <1>5, <1>6, <1>7 DEF DictionaryCalls
<1> QED  BY <1>8, <1>9, <1>10

(* Each call of a set or a dictionary.                                     *)
LEMMA OtherCallsRead ==
  ASSUME content \in Contents(kind), SetCalls \/ DictionaryCalls
  PROVE  AssignedReadsBack'
<1>1. ASSUME AnswersAs("add") \/ AnswersAs("delete") \/ AnswersAs("clear") \/ AnswersAs("remove")
      PROVE  AssignedReadsBack'
  <2>1. last'.op \in {"add", "delete", "clear", "remove"}
    BY <1>1, AnsweredAs
  <2> QED  BY <2>1 DEF AssignedReadsBack
<1>2. CASE SetCalls
  <2>1. ASSUME NEW v, SetAdd(v) \/ SetDelete(v) PROVE AnswersAs("add") \/ AnswersAs("delete")
    BY <2>1, Zenon DEF SetAdd, SetDelete, AnswersAs
  <2>2. ASSUME SetClear PROVE AnswersAs("clear")
    BY <2>2, Zenon DEF SetClear, AnswersAs
  <2> QED  BY <1>1, <1>2, <2>1, <2>2, AssignSetReads DEF SetCalls
<1>3. CASE DictionaryCalls
  <2>1. ASSUME NEW keys, DictionaryRemove(keys) PROVE AnswersAs("remove")
    BY <2>1, Zenon DEF DictionaryRemove, AnswersAs
  <2> QED  BY <1>1, <1>3, <2>1, DictionarySetReads, AssignDictionaryReads DEF DictionaryCalls
<1> QED  BY <1>2, <1>3

(* The invariant: a call is made on a content of its property.             *)
CollectionsIInv ==
  /\ last.op = "none" => content \in Contents(kind)
  /\ ListsActLikeArrays
  /\ AssignedReadsBack

(* The first call is the last: what is kept is what any call needs, and    *)
(* what it is expected to have done.                                       *)
THEOREM CallsKeep == CollectionsSpec => []CollectionsIInv
<1>1. CollectionsInit => CollectionsIInv
  <2> SUFFICES ASSUME CollectionsInit PROVE CollectionsIInv
    OBVIOUS
  <2>1. content \in Contents(kind) /\ last.op = "none"
    BY DEF CollectionsInit
  <2> QED  BY <2>1 DEF CollectionsIInv, ListsActLikeArrays, AssignedReadsBack
<1>2. CollectionsIInv /\ [CollectionsNext]_collectionVars => CollectionsIInv'
  <2> SUFFICES ASSUME CollectionsIInv, [CollectionsNext]_collectionVars PROVE CollectionsIInv'
    OBVIOUS
  <2>1. CASE UNCHANGED collectionVars
    BY <2>1 DEF CollectionsIInv, collectionVars, ListsActLikeArrays, AssignedReadsBack
  <2>2. CASE CollectionsNext
    <3>1. content \in Contents(kind)
      BY <2>2 DEF CollectionsNext, CollectionsIInv
    <3>2. CASE OnAList /\ ListCalls
      <4>1. PICK op \in ListOps : AnswersAs(op)
        BY <3>2, ListCallsAnswer
      <4>2. last'.op # "none" /\ kind' \in {"list", "mixedList"}
        BY <3>2, <4>1, AnsweredAs DEF ListOps, OnAList
      <4>3. AssignedReadsBack'
        BY <4>2 DEF AssignedReadsBack
      <4>4. ListsActLikeArrays'
        BY <3>1, <3>2, ListCallsAct
      <4> QED  BY <4>2, <4>3, <4>4 DEF CollectionsIInv
    <3>3. CASE (kind = "set" /\ SetCalls) \/ (OnADictionary /\ DictionaryCalls)
      <4>1. PICK op \in {"add", "delete", "clear", "set", "remove", "assign"} : AnswersAs(op)
        BY <3>3, OtherCallsAnswer
      <4>2. last'.op # "none" /\ kind' \notin {"list", "mixedList"}
        BY <3>3, <4>1, AnsweredAs DEF OnADictionary
      <4>3. ListsActLikeArrays'
        BY <4>2 DEF ListsActLikeArrays
      <4>4. AssignedReadsBack'
        BY <3>1, <3>3, OtherCallsRead
      <4> QED  BY <4>2, <4>3, <4>4 DEF CollectionsIInv
    <3>4. CASE kind = "mixed" /\ \E v \in Arrays \cup PlainObjects \cup {Own, Bad} \cup Values : AssignMixed(v)
      <4>1. last'.op # "none" /\ kind' = "mixed"
        BY <3>4, OtherCallsAnswer, AnsweredAs
      <4>2. ListsActLikeArrays'
        BY <4>1 DEF ListsActLikeArrays
      <4>3. AssignedReadsBack'
        BY <3>4, AssignMixedReads
      <4> QED  BY <4>1, <4>2, <4>3 DEF CollectionsIInv
    <3> QED  BY <2>2, <3>2, <3>3, <3>4 DEF CollectionsNext
  <2> QED  BY <2>1, <2>2
<1> QED  BY <1>1, <1>2, PTL DEF CollectionsSpec

(* Lists act like arrays: whatever was pushed, spliced, moved or assigned, *)
(* element by element, with or without an earlier failure.                 *)
THEOREM ListsActLikeArraysAlways == CollectionsSpec => []ListsActLikeArrays
<1>1. CollectionsIInv => ListsActLikeArrays
  BY DEF CollectionsIInv
<1> QED  BY <1>1, CallsKeep, PTL

(* What was assigned to a set, a dictionary or a mixed property reads back. *)
THEOREM AssignedReadsBackAlways == CollectionsSpec => []AssignedReadsBack
<1>1. CollectionsIInv => AssignedReadsBack
  BY DEF CollectionsIInv
<1> QED  BY <1>1, CallsKeep, PTL
=============================================================================
