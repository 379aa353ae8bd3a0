--------------------------- MODULE ValuesProofs -----------------------------
(***************************************************************************)
(* What passes between JavaScript and the engine stays what it was: for    *)
(* any wrappers, configurations, classes, systems and files.               *)
(*                                                                         *)
(* What is borrowed in a native call outlives it, however deep calls nest, *)
(* many strings they convert and late the collector comes.  The files of a *)
(* Barq stay together in any run of opens, copies and deletions.  The      *)
(* declarations, of a schema or in TypeScript, and the configurations do   *)
(* not change once they are given: what is said of them is said of each,   *)
(* whatever it is made of.  The indexes that a schema declares are in the  *)
(* file for as long as it is open.                                         *)
(***************************************************************************)
EXTENDS NativeCalls, Configurations, Files, BabelPlugin, VectorIndexes, SequenceTheorems, TLAPS

-----------------------------------------------------------------------------
(***************************************************************************)
(* The calls between JavaScript and C++.                                   *)
(***************************************************************************)

Frames == [native : BOOLEAN, self : Wrappers \cup {"none"}, kept : Nat, converted : Nat]

CallsTypeOK ==
  /\ owned \in [Wrappers -> {"absent", "live", "reset", "freed"}]
  /\ held \subseteq Wrappers /\ iterators \subseteq Wrappers
  /\ stack \in Seq(Frames) /\ strings \in Seq(Nat)

(* The call's object, and the container of an iterator, live.              *)
ObjectsLive ==
  /\ \A i \in DOMAIN stack : stack[i].native =>
       stack[i].self \in Wrappers /\ owned[stack[i].self] = "live"
  /\ \A w \in iterators : owned[w] = "live"

(* A native function is called by JavaScript and calls JavaScript.         *)
Alternating ==
  \A i \in DOMAIN stack : i + 1 \in DOMAIN stack => (stack[i].native <=> ~stack[i + 1].native)

(* Where the strings of a call end.                                        *)
End(i) == stack[i].kept + stack[i].converted

(* Each native call has the strings between those it found and those that  *)
(* the next one found, and the last has them up to the end of the buffer.  *)
Segments ==
  /\ \A i \in DOMAIN stack : stack[i].native =>
       /\ End(i) <= Len(strings)
       /\ i + 1 >= Len(stack) => End(i) = Len(strings)
       /\ \A n \in 1..Len(strings) : (n <= stack[i].kept => strings[n] < i)
                                     /\ (stack[i].kept < n /\ n <= End(i) => strings[n] = i)
  /\ \A i, j \in DOMAIN stack : stack[i].native /\ stack[j].native =>
       /\ i < j => End(i) <= stack[j].kept
       /\ i + 2 = j => End(i) = stack[j].kept

(* No string is left of a call that has returned.                          *)
NoneLeft == \A p \in DOMAIN strings : strings[p] \in DOMAIN stack /\ stack[strings[p]].native

CallsIInv == CallsTypeOK /\ ObjectsLive /\ Alternating /\ Segments /\ NoneLeft

LEMMA CallsInitially == CallsInit => CallsIInv
  BY DEF CallsInit, CallsIInv, CallsTypeOK, ObjectsLive, Alternating, Segments, NoneLeft

LEMMA InvariantKeeps == CallsIInv => BorrowedIsKept
<1> SUFFICES ASSUME CallsIInv PROVE BorrowedIsKept
  OBVIOUS
<1> USE DEF CallsIInv
<1>1. ASSUME NEW i \in DOMAIN stack, stack[i].native, NEW n \in 1..stack[i].converted
      PROVE  stack[i].kept + n \in DOMAIN strings /\ strings[stack[i].kept + n] = i
  <2>1. stack[i] \in Frames /\ DOMAIN strings = 1..Len(strings) /\ Len(strings) \in Nat
    BY DEF CallsTypeOK
  <2>2. stack[i].kept \in Nat /\ stack[i].converted \in Nat
    BY <2>1 DEF Frames
  <2>3. End(i) <= Len(strings)
    BY <1>1 DEF Segments
  <2>4. stack[i].kept + n \in 1..Len(strings) /\ stack[i].kept + n <= End(i)
    BY <2>1, <2>2, <2>3 DEF End
  <2> QED  BY <1>1, <2>1, <2>2, <2>4 DEF Segments
<1> QED  BY <1>1 DEF BorrowedIsKept, ObjectsLive, NoneLeft

(* Steps that leave the stack and the strings alone.                       *)
LEMMA ObjectSteps ==
  ASSUME CallsIInv, UNCHANGED <<stack, strings>>,
         NEW w \in Wrappers,
         \/ Wrap(w) \/ Iterate(w) \/ ForgetIterator(w) \/ ResetSharedPtr(w) \/ Forget(w) \/ Collect(w)
  PROVE  CallsIInv'
<1> USE DEF CallsIInv
<1>1. CallsTypeOK'
  BY DEF CallsTypeOK, Wrap, Iterate, ForgetIterator, ResetSharedPtr, Forget, Collect
<1>2. ObjectsLive'
  BY DEF CallsTypeOK, ObjectsLive, Wrap, Iterate, ForgetIterator, ResetSharedPtr, Forget, Collect,
         Reachable, InUse
<1> QED  BY <1>1, <1>2 DEF Alternating, Segments, NoneLeft, End

(* The buffer after n strings more.                                        *)
LEMMA Longer ==
  ASSUME NEW list \in Seq(Nat), NEW n \in Nat, NEW d \in Nat
  PROVE  /\ list \o Copies(n, d) \in Seq(Nat) /\ Len(list \o Copies(n, d)) = Len(list) + n
         /\ DOMAIN (list \o Copies(n, d)) = 1..(Len(list) + n)
         /\ \A p \in 1..(Len(list) + n) :
              (list \o Copies(n, d))[p] = IF p <= Len(list) THEN list[p] ELSE d
<1> DEFINE copies == Copies(n, d)
           longer == list \o copies
<1>1. copies \in Seq(Nat) /\ Len(copies) = n /\ \A p \in 1..n : copies[p] = d
  BY DEF Copies
<1> HIDE DEF copies
<1>2. /\ longer \in Seq(Nat) /\ Len(longer) = Len(list) + n
      /\ \A p \in 1..(Len(list) + n) : longer[p] = IF p <= Len(list) THEN list[p] ELSE copies[p - Len(list)]
  BY <1>1, ConcatProperties
<1> HIDE DEF longer
<1>3. ASSUME NEW p \in 1..(Len(list) + n), p > Len(list)
      PROVE  p - Len(list) \in 1..n
  BY <1>3
<1>4. DOMAIN longer = 1..(Len(list) + n)
  BY <1>2
<1>5. /\ longer \in Seq(Nat) /\ Len(longer) = Len(list) + n /\ DOMAIN longer = 1..(Len(list) + n)
      /\ \A p \in 1..(Len(list) + n) : longer[p] = IF p <= Len(list) THEN list[p] ELSE d
  BY <1>1, <1>2, <1>3, <1>4
<1> QED  BY <1>5, Zenon DEF longer, copies

(* A call is on top of the stack, its strings at the end of the buffer.    *)
LEMMA Entering ==
  ASSUME CallsIInv, NEW w \in Wrappers, NEW n \in Nat, Enter(w, n)
  PROVE  CallsIInv'
<1> DEFINE l == Len(stack)
           m == Len(strings)
           frame == [native |-> TRUE, self |-> w, kept |-> m, converted |-> n]
<1> USE DEF CallsIInv
<1>1. /\ l \in Nat /\ m \in Nat /\ DOMAIN stack = 1..l /\ DOMAIN strings = 1..m
      /\ \A i \in 1..l : stack[i] \in Frames
      /\ \A p \in 1..m : strings[p] \in Nat
  BY DEF CallsTypeOK
<1>2. /\ CallsTypeOK'
      /\ Len(stack') = l + 1 /\ DOMAIN stack' = 1..(l + 1)
      /\ stack'[l + 1] = frame /\ \A i \in 1..l : stack'[i] = stack[i]
      /\ Len(strings') = m + n /\ DOMAIN strings' = 1..(m + n)
      /\ \A p \in 1..m : strings'[p] = strings[p]
      /\ \A p \in 1..(m + n) : p > m => strings'[p] = l + 1
  <2>1. frame \in Frames /\ stack \in Seq(Frames) /\ strings \in Seq(Nat)
    BY <1>1 DEF CallsTypeOK, Frames
  <2>2. /\ stack' = Append(stack, frame) /\ strings' = strings \o Copies(n, l + 1)
        /\ UNCHANGED <<owned, held, iterators>>
    BY DEF Enter, Depth
  <2> HIDE DEF frame
  <2>4. /\ Len(stack') = l + 1 /\ DOMAIN stack' = 1..(l + 1)
        /\ stack'[l + 1] = frame /\ \A i \in 1..l : stack'[i] = stack[i]
    BY <2>1, <2>2
  <2>5. /\ strings' \in Seq(Nat) /\ Len(strings') = m + n /\ DOMAIN strings' = 1..(m + n)
        /\ \A p \in 1..(m + n) : strings'[p] = IF p <= m THEN strings[p] ELSE l + 1
    <3> DEFINE d == l + 1
    <3>1. d \in Nat /\ n \in Nat
      BY <1>1
    <3>2. strings' = strings \o Copies(n, d)
      BY <2>2
    <3> HIDE DEF d
    <3>3. /\ strings' \in Seq(Nat) /\ Len(strings') = m + n /\ DOMAIN strings' = 1..(m + n)
          /\ \A p \in 1..(m + n) : strings'[p] = IF p <= m THEN strings[p] ELSE d
      BY ONLY <2>1, <3>1, <3>2, Longer, ZenonT(30)
    <3> QED  BY <3>3 DEF d
  <2>6. /\ \A p \in 1..m : strings'[p] = strings[p]
        /\ \A p \in 1..(m + n) : p > m => strings'[p] = l + 1
    BY <1>1, <2>5
  <2> QED  BY <2>1, <2>2, <2>4, <2>5, <2>6 DEF CallsTypeOK
<1>3. /\ l = 0 \/ ~stack[l].native
      /\ owned[w] = "live" /\ UNCHANGED <<owned, iterators>>
      /\ frame.native /\ frame.self = w /\ frame.kept = m /\ frame.converted = n
  BY DEF Enter, RunsJs, RunsNative, Top, Depth, CallsTypeOK
<1>4. \A i \in 1..l : stack[i].kept \in Nat /\ stack[i].converted \in Nat /\ End(i) \in Nat
                      /\ End(i)' = End(i) /\ stack[i].kept <= End(i)
  BY <1>1, <1>2 DEF Frames, End
<1>6. /\ \A i \in 1..l : stack[i].native =>
           /\ End(i) <= m
           /\ i + 1 >= l => End(i) = m
           /\ \A p \in 1..m : (p <= stack[i].kept => strings[p] < i)
                              /\ (stack[i].kept < p /\ p <= End(i) => strings[p] = i)
      /\ \A i, j \in 1..l : stack[i].native /\ stack[j].native =>
           /\ i < j => End(i) <= stack[j].kept
           /\ i + 2 = j => End(i) = stack[j].kept
  BY <1>1 DEF Segments
<1>7. \A p \in 1..m : strings[p] \in 1..l /\ stack[strings[p]].native
  BY <1>1 DEF NoneLeft
<1>8. ObjectsLive'
  BY <1>1, <1>2, <1>3, SMTT(30) DEF ObjectsLive
<1> HIDE DEF l, m, frame
<1>5. \A i : i = l + 1 => End(i)' = m + n
  BY <1>2, <1>3 DEF End
<1>9. Alternating'
  <2> SUFFICES ASSUME NEW i \in 1..(l + 1), i + 1 \in 1..(l + 1)
               PROVE  stack'[i].native <=> ~stack'[i + 1].native
    BY <1>2 DEF Alternating
  <2>1. i \in 1..l /\ stack'[i] = stack[i]
    BY <1>1, <1>2
  <2>2. CASE i = l
    BY <1>1, <1>2, <1>3, <2>1, <2>2
  <2>3. CASE i # l
    <3>1. i + 1 \in 1..l /\ stack'[i + 1] = stack[i + 1]
      BY <1>1, <1>2, <2>1, <2>3
    <3> QED  BY <1>1, <2>1, <3>1 DEF Alternating
  <2> QED  BY <2>2, <2>3
<1>10. NoneLeft'
  <2> SUFFICES ASSUME NEW p \in 1..(m + n)
               PROVE  strings'[p] \in 1..(l + 1) /\ stack'[strings'[p]].native
    BY <1>2 DEF NoneLeft
  <2>1. CASE p <= m
    BY <1>1, <1>2, <1>7, <2>1
  <2>2. CASE p > m
    BY <1>1, <1>2, <1>3, <2>2
  <2> QED  BY <1>1, <2>1, <2>2
<1>11. Segments'
  <2>1. ASSUME NEW i \in 1..(l + 1), stack'[i].native
        PROVE  /\ End(i)' <= m + n
               /\ i + 1 >= l + 1 => End(i)' = m + n
               /\ \A p \in 1..(m + n) :
                    (p <= stack'[i].kept => strings'[p] < i)
                    /\ (stack'[i].kept < p /\ p <= End(i)' => strings'[p] = i)
    <3>1. CASE i = l + 1
      <4>1. End(i)' = m + n /\ stack'[i].kept = m
        BY <1>2, <1>3, <1>5, <3>1
      <4>2. ASSUME NEW p \in 1..(m + n)
            PROVE  (p <= m => strings'[p] < i) /\ (m < p => strings'[p] = i)
        <5>1. CASE p <= m
          BY <1>1, <1>2, <1>7, <3>1, <5>1
        <5>2. CASE p > m
          BY <1>1, <1>2, <3>1, <5>2
        <5> QED  BY <1>1, <5>1, <5>2
      <4> QED  BY <1>1, <4>1, <4>2
    <3>2. CASE i # l + 1
      <4>1. i \in 1..l /\ stack'[i] = stack[i] /\ stack[i].native /\ i # l
        BY <1>1, <1>2, <1>3, <2>1, <3>2
      <4>2. End(i)' = End(i) /\ End(i) \in Nat /\ stack[i].kept <= End(i) /\ stack[i].kept \in Nat
        BY <1>4, <4>1
      <4>3. /\ End(i) <= m
            /\ \A p \in 1..m : (p <= stack[i].kept => strings[p] < i)
                               /\ (stack[i].kept < p /\ p <= End(i) => strings[p] = i)
        BY <1>6, <4>1
      <4>4. ASSUME NEW p \in 1..(m + n), p <= End(i)
            PROVE  p \in 1..m /\ strings'[p] = strings[p]
        BY <1>1, <1>2, <4>2, <4>3, <4>4
      <4>5. ~(i + 1 >= l + 1)
        BY <1>1, <4>1
      <4>6. End(i)' <= m + n
        BY <1>1, <4>2, <4>3
      <4>7. ASSUME NEW p \in 1..(m + n)
            PROVE  (p <= stack[i].kept => strings'[p] < i)
                   /\ (stack[i].kept < p /\ p <= End(i) => strings'[p] = i)
        <5>1. CASE p <= End(i)
          <6>1. p \in 1..m /\ strings'[p] = strings[p]
            BY <4>4, <5>1
          <6> QED  BY ONLY <4>3, <6>1
        <5>2. CASE ~(p <= End(i))
          <6>1. p \in Nat
            BY <1>1
          <6>2. ~(p <= stack[i].kept)
            BY ONLY <4>2, <5>2, <6>1
          <6> QED  BY ONLY <5>2, <6>2
        <5> QED  BY ONLY <5>1, <5>2
      <4> QED  BY <4>1, <4>2, <4>5, <4>6, <4>7
    <3> QED  BY <3>1, <3>2
  <2>2. ASSUME NEW i \in 1..(l + 1), NEW j \in 1..(l + 1), stack'[i].native, stack'[j].native, i < j
        PROVE  End(i)' <= stack'[j].kept /\ (i + 2 = j => End(i)' = stack'[j].kept)
    <3>1. i \in 1..l /\ stack[i].native
      BY <1>1, <1>2, <2>2
    <3>2. CASE j = l + 1
      BY <1>1, <1>2, <1>3, <1>4, <1>6, <3>1, <3>2
    <3>3. CASE j # l + 1
      <4>1. j \in 1..l /\ stack[j].native /\ stack'[j] = stack[j]
        BY <1>1, <1>2, <2>2, <3>3
      <4> QED  BY <1>4, <1>6, <2>2, <3>1, <4>1
    <3> QED  BY <3>2, <3>3
  <2>3. DOMAIN stack' = 1..(l + 1) /\ Len(stack') = l + 1 /\ Len(strings') = m + n
    BY <1>2
  <2>4. \A i \in DOMAIN stack' : stack'[i].native =>
          /\ End(i)' <= Len(strings')
          /\ i + 1 >= Len(stack') => End(i)' = Len(strings')
          /\ \A p \in 1..Len(strings') :
               (p <= stack'[i].kept => strings'[p] < i)
               /\ (stack'[i].kept < p /\ p <= End(i)' => strings'[p] = i)
    BY <2>1, <2>3
  <2>5. \A i, j \in DOMAIN stack' : stack'[i].native /\ stack'[j].native =>
          /\ i < j => End(i)' <= stack'[j].kept
          /\ i + 2 = j => End(i)' = stack'[j].kept
    <3>1. \A i, j \in 1..(l + 1) : i + 2 = j => i < j
      BY <1>1
    <3> QED  BY <2>2, <2>3, <3>1
  <2> QED  BY <2>4, <2>5 DEF Segments
<1> QED  BY <1>2, <1>8, <1>9, <1>10, <1>11

(* A native call that returns takes its strings with it.                   *)
LEMMA Leaving ==
  ASSUME CallsIInv, Leave
  PROVE  CallsIInv'
<1> DEFINE l == Len(stack)
           m == Len(strings)
           k == stack[l].kept
<1> USE DEF CallsIInv
<1>1. /\ l \in Nat /\ m \in Nat /\ DOMAIN stack = 1..l /\ DOMAIN strings = 1..m
      /\ \A i \in 1..l : stack[i] \in Frames
  BY DEF CallsTypeOK
<1>2. l > 0 /\ stack[l].native /\ k \in Nat /\ k <= m
  <2>1. l > 0 /\ stack[l].native
    BY <1>1 DEF Leave, RunsNative, Top, Depth
  <2>2. End(l) <= m /\ End(l) = k + stack[l].converted /\ stack[l].converted \in Nat /\ k \in Nat
    BY <1>1, <2>1 DEF Segments, End, Frames
  <2> QED  BY <1>1, <2>1, <2>2
<1>3. /\ CallsTypeOK' /\ UNCHANGED <<owned, iterators>>
      /\ Len(stack') = l - 1 /\ DOMAIN stack' = 1..(l - 1) /\ \A i \in 1..(l - 1) : stack'[i] = stack[i]
      /\ Len(strings') = k /\ DOMAIN strings' = 1..k /\ \A p \in 1..k : strings'[p] = strings[p]
  <2>1. /\ stack \in Seq(Frames) /\ strings \in Seq(Nat) /\ UNCHANGED <<owned, held, iterators>>
        /\ stack' = SubSeq(stack, 1, l - 1) /\ strings' = SubSeq(strings, 1, k)
    BY DEF Leave, Top, Depth, CallsTypeOK
  <2>2. /\ stack' \in Seq(Frames) /\ Len(stack') = l - 1 /\ DOMAIN stack' = 1..(l - 1)
        /\ \A i \in 1..(l - 1) : stack'[i] = stack[i]
    BY <1>1, <1>2, <2>1
  <2> HIDE DEF k
  <2>3. /\ strings' \in Seq(Nat) /\ Len(strings') = k /\ DOMAIN strings' = 1..k
        /\ \A p \in 1..k : strings'[p] = strings[p]
    BY <1>1, <1>2, <2>1
  <2> QED  BY <2>1, <2>2, <2>3 DEF CallsTypeOK
<1>4. ObjectsLive'
  BY <1>1, <1>3 DEF ObjectsLive
<1>5. /\ \A i \in 1..(l - 1) : stack[i].native =>
           /\ End(i) <= k /\ i # l - 1
           /\ i + 2 = l => End(i) = k
      /\ \A p \in 1..k : strings[p] < l /\ strings[p] \in 1..l /\ stack[strings[p]].native
  <2>1. ASSUME NEW i \in 1..(l - 1), stack[i].native
        PROVE  End(i) <= k /\ (i + 2 = l => End(i) = k)
    <3>1. i \in DOMAIN stack /\ l \in DOMAIN stack /\ i < l
      BY <1>1, <1>2
    <3> HIDE DEF l
    <3> QED  BY <1>2, <2>1, <3>1 DEF Segments
  <2>2. ASSUME NEW i \in 1..(l - 1), stack[i].native
        PROVE  i # l - 1
    <3>1. i \in DOMAIN stack /\ (i = l - 1 => i + 1 = l /\ i + 1 \in DOMAIN stack)
      BY <1>1, <1>2
    <3> HIDE DEF l
    <3> QED  BY <1>2, <2>2, <3>1 DEF Alternating
  <2>3. ASSUME NEW p \in 1..k
        PROVE  strings[p] < l /\ strings[p] \in 1..l /\ stack[strings[p]].native
    BY <1>1, <1>2 DEF Segments, NoneLeft
  <2> QED  BY <2>1, <2>2, <2>3
<1>6. /\ \A i \in 1..(l - 1) : stack[i].native =>
           \A p \in 1..m : (p <= stack[i].kept => strings[p] < i)
                           /\ (stack[i].kept < p /\ p <= End(i) => strings[p] = i)
      /\ \A i, j \in 1..(l - 1) : stack[i].native /\ stack[j].native =>
           /\ i < j => End(i) <= stack[j].kept
           /\ i + 2 = j => End(i) = stack[j].kept
  <2>1. \A i \in 1..(l - 1) : i \in DOMAIN stack
    BY <1>1
  <2> QED  BY <2>1 DEF Segments
<1>7. \A i \in 1..(l - 1) : End(i)' = End(i)
  BY <1>3 DEF End
<1> HIDE DEF l, m, k
<1>8. Alternating'
  <2> SUFFICES ASSUME NEW i \in 1..(l - 1), i + 1 \in 1..(l - 1)
               PROVE  stack'[i].native <=> ~stack'[i + 1].native
    BY <1>3 DEF Alternating
  <2>1. i \in 1..l /\ i + 1 \in 1..l
    BY <1>1
  <2> QED  BY <1>1, <1>3, <2>1 DEF Alternating
<1>9. NoneLeft'
  <2> SUFFICES ASSUME NEW p \in 1..k
               PROVE  strings'[p] \in 1..(l - 1) /\ stack'[strings'[p]].native
    BY <1>3 DEF NoneLeft
  <2>1. strings[p] \in 1..(l - 1) /\ stack[strings[p]].native
    BY <1>1, <1>5
  <2> QED  BY <1>3, <2>1
<1>10. Segments'
  <2>1. ASSUME NEW i \in 1..(l - 1), stack'[i].native
        PROVE  /\ End(i)' <= k
               /\ i + 1 >= l - 1 => End(i)' = k
               /\ \A p \in 1..k : (p <= stack'[i].kept => strings'[p] < i)
                                  /\ (stack'[i].kept < p /\ p <= End(i)' => strings'[p] = i)
    <3>1. stack[i].native /\ stack'[i] = stack[i] /\ End(i)' = End(i)
      BY <1>3, <1>7, <2>1
    <3>2. End(i) <= k /\ i # l - 1 /\ (i + 2 = l => End(i) = k)
      BY <1>5, <3>1
    <3>3. i + 1 >= l - 1 => i + 2 = l
      BY <1>1, <3>2
    <3>4. \A p \in 1..k : p \in 1..m
      BY <1>1, <1>2
    <3> QED  BY <1>3, <1>6, <3>1, <3>2, <3>3, <3>4
  <2>2. ASSUME NEW i \in 1..(l - 1), NEW j \in 1..(l - 1), stack'[i].native, stack'[j].native
        PROVE  (i < j => End(i)' <= stack'[j].kept) /\ (i + 2 = j => End(i)' = stack'[j].kept)
    BY <1>3, <1>6, <1>7, <2>2
  <2> QED  BY <1>3, <2>1, <2>2 DEF Segments
<1> QED  BY <1>3, <1>4, <1>8, <1>9, <1>10

(* A JavaScript function is called by a native call, or by the event loop: *)
(* it has no strings.                                                      *)
LEMMA CallingBack ==
  ASSUME CallsIInv, CallBack \/ Dispatch
  PROVE  CallsIInv'
<1> DEFINE l == Len(stack)
           m == Len(strings)
<1> USE DEF CallsIInv
<1>1. /\ l \in Nat /\ m \in Nat /\ DOMAIN stack = 1..l /\ DOMAIN strings = 1..m
      /\ stack \in Seq(Frames)
  BY DEF CallsTypeOK
<1>2. /\ UNCHANGED <<owned, held, iterators, strings>>
      /\ stack' = Append(stack, Callback)
      /\ l = 0 \/ stack[l].native
  <2>1. CASE CallBack
    BY <2>1 DEF CallBack, RunsNative, Top, Depth
  <2>2. CASE Dispatch
    BY <2>2 DEF Dispatch
  <2> QED  BY <2>1, <2>2
<1>3. Callback \in Frames /\ ~Callback.native
  BY DEF Callback, Frames
<1>4. /\ stack' \in Seq(Frames) /\ Len(stack') = l + 1 /\ DOMAIN stack' = 1..(l + 1)
      /\ stack'[l + 1] = Callback /\ \A i \in 1..l : stack'[i] = stack[i]
  BY <1>1, <1>2, <1>3
<1>5. CallsTypeOK'
  BY <1>2, <1>4 DEF CallsTypeOK
<1>6. ObjectsLive'
  BY <1>1, <1>2, <1>3, <1>4 DEF ObjectsLive
<1>7. \A i \in 1..l : End(i)' = End(i)
  BY <1>4 DEF End
<1>8. \A i \in 1..(l + 1) : stack'[i].native => i \in 1..l /\ stack'[i] = stack[i] /\ stack[i].native
  BY <1>1, <1>3, <1>4
<1>9. \A i \in 1..l : stack[i].native /\ i + 1 >= l + 1 => End(i) = m
  BY <1>1 DEF Segments
<1>10. Segments'
  <2>1. ASSUME NEW i \in DOMAIN stack', stack'[i].native
        PROVE  /\ End(i)' <= Len(strings')
               /\ i + 1 >= Len(stack') => End(i)' = Len(strings')
               /\ \A p \in 1..Len(strings') :
                    (p <= stack'[i].kept => strings'[p] < i)
                    /\ (stack'[i].kept < p /\ p <= End(i)' => strings'[p] = i)
    <3>1. i \in 1..l /\ stack'[i] = stack[i] /\ stack[i].native /\ End(i)' = End(i)
      BY <1>4, <1>7, <1>8, <2>1
    <3>2. i \in DOMAIN stack
      BY <1>1, <3>1
    <3>3. /\ End(i) <= m
          /\ \A p \in 1..m : (p <= stack[i].kept => strings[p] < i)
                             /\ (stack[i].kept < p /\ p <= End(i) => strings[p] = i)
      BY <3>1, <3>2 DEF Segments
    <3> HIDE DEF l, m
    <3>4. strings' = strings /\ Len(strings') = m /\ Len(stack') = l + 1
      BY <1>2, <1>4 DEF m
    <3> QED  BY <1>9, <3>1, <3>3, <3>4
  <2>2. ASSUME NEW i \in DOMAIN stack', NEW j \in DOMAIN stack', stack'[i].native, stack'[j].native
        PROVE  (i < j => End(i)' <= stack'[j].kept) /\ (i + 2 = j => End(i)' = stack'[j].kept)
    <3>1. /\ i \in 1..l /\ stack[i].native /\ End(i)' = End(i)
          /\ j \in 1..l /\ stack[j].native /\ stack'[j] = stack[j]
      BY <1>4, <1>7, <1>8, <2>2
    <3>2. i \in DOMAIN stack /\ j \in DOMAIN stack
      BY <1>1, <3>1
    <3> QED  BY <3>1, <3>2 DEF Segments
  <2> QED  BY <2>1, <2>2 DEF Segments
<1>11. NoneLeft'
  <2> SUFFICES ASSUME NEW p \in DOMAIN strings
               PROVE  strings[p] \in 1..(l + 1) /\ stack'[strings[p]].native
    BY <1>2, <1>4 DEF NoneLeft
  <2>1. strings[p] \in 1..l /\ stack[strings[p]].native
    BY <1>1 DEF NoneLeft
  <2> QED  BY <1>1, <1>4, <2>1
<1> HIDE DEF l, m
<1>12. Alternating'
  <2> SUFFICES ASSUME NEW i \in 1..(l + 1), i + 1 \in 1..(l + 1)
               PROVE  stack'[i].native <=> ~stack'[i + 1].native
    BY <1>4 DEF Alternating
  <2>1. i \in 1..l /\ stack'[i] = stack[i]
    BY <1>1, <1>4
  <2>2. CASE i = l
    BY <1>1, <1>2, <1>3, <1>4, <2>1, <2>2
  <2>3. CASE i # l
    <3>1. i + 1 \in 1..l /\ stack'[i + 1] = stack[i + 1]
      BY <1>1, <1>4, <2>1, <2>3
    <3> QED  BY <1>1, <2>1, <3>1 DEF Alternating
  <2> QED  BY <2>2, <2>3
<1> QED  BY <1>5, <1>6, <1>10, <1>11, <1>12

(* What a JavaScript function returns lengthens the segment of the native  *)
(* call below it, which is the last one.                                   *)
LEMMA Returning ==
  ASSUME CallsIInv, NEW n \in Nat, CallBackReturns(n)
  PROVE  CallsIInv'
<1> DEFINE l == Len(stack)
           m == Len(strings)
           d == l - 1
<1> USE DEF CallsIInv
<1>1. /\ l \in Nat /\ m \in Nat /\ DOMAIN stack = 1..l /\ DOMAIN strings = 1..m
      /\ stack \in Seq(Frames) /\ \A i \in 1..l : stack[i] \in Frames
  BY DEF CallsTypeOK
<1>2. /\ l > 1 /\ ~stack[l].native /\ UNCHANGED <<owned, held, iterators>>
      /\ stack' = [SubSeq(stack, 1, d) EXCEPT ![d].converted = @ + n]
      /\ strings' = strings \o Copies(n, d)
  BY <1>1 DEF CallBackReturns, RunsJs, RunsNative, Top, Depth
<1>3. d \in Nat /\ d \in 1..l /\ d + 1 = l /\ d > 0
  BY <1>1, <1>2
<1>4. /\ strings' \in Seq(Nat) /\ Len(strings') = m + n /\ DOMAIN strings' = 1..(m + n)
      /\ \A p \in 1..(m + n) : strings'[p] = IF p <= m THEN strings[p] ELSE d
  <2>1. strings \in Seq(Nat) /\ d \in Nat /\ n \in Nat
    BY <1>3 DEF CallsTypeOK
  <2> HIDE DEF d
  <2> DEFINE longer == strings \o Copies(n, d)
  <2>2. /\ longer \in Seq(Nat) /\ Len(longer) = m + n /\ DOMAIN longer = 1..(m + n)
        /\ \A p \in 1..(m + n) : longer[p] = IF p <= m THEN strings[p] ELSE d
    BY ONLY <2>1, Longer, Zenon
  <2>3. strings' = longer
    BY <1>2
  <2> HIDE DEF longer
  <2> QED  BY <2>2, <2>3
<1>5. /\ DOMAIN stack' = 1..d /\ Len(stack') = d /\ stack' \in Seq(Frames)
      /\ stack'[d] = [stack[d] EXCEPT !.converted = @ + n]
      /\ \A i \in 1..d : i # d => stack'[i] = stack[i]
  <2> HIDE DEF d
  <2> DEFINE s == SubSeq(stack, 1, d)
  <2>1. s \in Seq(Frames) /\ Len(s) = d /\ DOMAIN s = 1..d /\ \A i \in 1..d : s[i] = stack[i]
    BY <1>1, <1>3
  <2> HIDE DEF s
  <2>2. [stack[d] EXCEPT !.converted = @ + n] \in Frames
    <3>1. stack[d] \in Frames
      BY <1>1, <1>3
    <3> QED  BY <3>1 DEF Frames
  <2>3. d \in 1..d
    BY <1>3
  <2>4. stack' = [s EXCEPT ![d] = [stack[d] EXCEPT !.converted = @ + n]]
    BY <1>2, <2>1, <2>3 DEF s
  <2> QED  BY <1>3, <2>1, <2>2, <2>3, <2>4
<1>6. /\ stack'[d].native = stack[d].native /\ stack'[d].self = stack[d].self
      /\ stack'[d].kept = stack[d].kept /\ stack'[d].converted = stack[d].converted + n
      /\ stack[d].converted \in Nat /\ stack[d].kept \in Nat
  BY <1>1, <1>3, <1>5 DEF Frames
<1>7. \A i \in 1..d : /\ stack'[i].native = stack[i].native /\ stack'[i].self = stack[i].self
                      /\ stack'[i].kept = stack[i].kept
                      /\ i # d => End(i)' = End(i)
                      /\ i = d => End(i)' = End(i) + n
  <2> HIDE DEF d
  <2>1. \A i \in 1..d : /\ End(i) = stack[i].kept + stack[i].converted
                        /\ End(i)' = stack'[i].kept + stack'[i].converted
    BY DEF End
  <2> HIDE DEF l
  <2>2. ASSUME NEW i \in 1..d, i = d
        PROVE  End(i)' = End(i) + n
    BY <1>6, <2>1, <2>2
  <2>3. ASSUME NEW i \in 1..d, i # d
        PROVE  End(i)' = End(i) /\ stack'[i] = stack[i]
    BY <1>5, <2>1, <2>3
  <2> QED  BY <1>6, <2>2, <2>3
<1>8. CallsTypeOK'
  BY <1>2, <1>4, <1>5 DEF CallsTypeOK
<1>9. ObjectsLive'
  BY <1>1, <1>2, <1>3, <1>5, <1>7 DEF ObjectsLive
<1>10. stack[d].native
  <2>1. d \in DOMAIN stack /\ d + 1 \in DOMAIN stack /\ ~stack[d + 1].native
    BY <1>1, <1>2, <1>3
  <2> HIDE DEF d
  <2> QED  BY <2>1 DEF Alternating
<1>11. End(d) = m
  BY <1>1, <1>3, <1>10 DEF Segments
<1>12. \A i \in 1..d : i \in DOMAIN stack /\ i + 1 \in DOMAIN stack
  BY <1>1, <1>3
<1>13. \A i \in 1..d : i + 1 = d => ~stack[i].native
  BY <1>10, <1>12 DEF Alternating
<1> HIDE DEF d
<1>14. Alternating'
  <2> SUFFICES ASSUME NEW i \in 1..d, i + 1 \in 1..d
               PROVE  stack'[i].native <=> ~stack'[i + 1].native
    BY <1>5 DEF Alternating
  <2> QED  BY <1>7, <1>12 DEF Alternating
<1>15. \A p \in 1..m : strings[p] \in 1..d /\ stack[strings[p]].native
  BY <1>1, <1>2, <1>3 DEF NoneLeft
<1>16. NoneLeft'
  <2> SUFFICES ASSUME NEW p \in 1..(m + n)
               PROVE  strings'[p] \in 1..d /\ stack'[strings'[p]].native
    BY <1>4, <1>5 DEF NoneLeft
  <2> HIDE DEF m
  <2>1. CASE p <= m
    <3>1. p \in 1..m /\ strings'[p] = strings[p]
      BY <1>1, <1>4, <2>1
    <3> QED  BY <1>7, <1>15, <3>1
  <2>2. CASE p > m
    <3>1. strings'[p] = d /\ d \in 1..d
      BY <1>1, <1>3, <1>4, <2>2
    <3> QED  BY <1>7, <1>10, <3>1
  <2> QED  BY <1>1, <2>1, <2>2
<1>17. Segments'
  <2>1. ASSUME NEW i \in 1..d, stack'[i].native
        PROVE  /\ End(i)' <= m + n
               /\ i + 1 >= d => End(i)' = m + n
               /\ \A p \in 1..(m + n) :
                    (p <= stack'[i].kept => strings'[p] < i)
                    /\ (stack'[i].kept < p /\ p <= End(i)' => strings'[p] = i)
    <3>1. stack[i].native /\ stack'[i].kept = stack[i].kept
      BY <1>7, <2>1
    <3>2. /\ End(i) <= m
          /\ \A p \in 1..m : (p <= stack[i].kept => strings[p] < i)
                             /\ (stack[i].kept < p /\ p <= End(i) => strings[p] = i)
      BY <1>12, <3>1 DEF Segments
    <3>3. stack[i].kept \in Nat /\ End(i) \in Nat /\ stack[i].kept <= End(i)
      <4>1. stack[i] \in Frames
        BY <1>1, <1>12
      <4> QED  BY <4>1 DEF Frames, End
    <3> HIDE DEF m
    <3>4. CASE i = d
      <4>1. End(i)' = m + n
        BY <1>7, <1>11, <3>4
      <4>2. ASSUME NEW p \in 1..(m + n)
            PROVE  (p <= stack[i].kept => strings'[p] < i) /\ (stack[i].kept < p => strings'[p] = i)
        <5>1. CASE p <= m
          BY <1>1, <1>4, <1>11, <3>2, <3>3, <3>4, <5>1
        <5>2. CASE p > m
          BY <1>1, <1>4, <1>11, <3>3, <3>4, <5>2
        <5> QED  BY <1>1, <5>1, <5>2
      <4> QED  BY <1>1, <3>1, <4>1, <4>2
    <3>5. CASE i # d
      <4>1. End(i)' = End(i) /\ ~(i + 1 >= d)
        BY <1>3, <1>7, <1>13, <3>1, <3>5
      <4>2. ASSUME NEW p \in 1..(m + n), p <= End(i)
            PROVE  p \in 1..m /\ strings'[p] = strings[p]
        BY <1>1, <1>4, <3>2, <3>3, <4>2
      <4>3. End(i)' <= m + n
        BY <1>1, <3>2, <3>3, <4>1
      <4>4. ASSUME NEW p \in 1..(m + n)
            PROVE  (p <= stack[i].kept => strings'[p] < i)
                   /\ (stack[i].kept < p /\ p <= End(i) => strings'[p] = i)
        BY <1>1, <3>2, <3>3, <4>2
      <4> QED  BY <3>1, <4>1, <4>3, <4>4
    <3> QED  BY <3>4, <3>5
  <2>2. ASSUME NEW i \in 1..d, NEW j \in 1..d, stack'[i].native, stack'[j].native, i < j
        PROVE  End(i)' <= stack'[j].kept /\ (i + 2 = j => End(i)' = stack'[j].kept)
    <3>1. /\ stack[i].native /\ stack[j].native /\ stack'[j].kept = stack[j].kept
          /\ i # d /\ End(i)' = End(i)
      BY <1>3, <1>7, <2>2
    <3> QED  BY <1>12, <2>2, <3>1 DEF Segments
  <2> QED  BY <1>3, <1>4, <1>5, <2>1, <2>2, SMTT(30) DEF Segments
<1> QED  BY <1>8, <1>9, <1>14, <1>16, <1>17

(* An event that is delivered has returned: nothing is left on the stack.  *)
LEMMA Returned ==
  ASSUME CallsIInv, Dispatched
  PROVE  CallsIInv'
<1> USE DEF CallsIInv
<1>1. /\ stack' = <<>> /\ UNCHANGED <<owned, held, iterators, strings>>
      /\ Len(stack) = 1 /\ ~stack[1].native
  BY DEF Dispatched, RunsJs, RunsNative, Top, Depth
<1>2. \A p \in DOMAIN strings : FALSE
  BY <1>1 DEF CallsTypeOK, NoneLeft
<1> QED  BY <1>1, <1>2 DEF CallsTypeOK, ObjectsLive, Alternating, Segments, NoneLeft

LEMMA CallsStep == CallsIInv /\ [CallsNext]_callVars => CallsIInv'
<1> SUFFICES ASSUME CallsIInv, [CallsNext]_callVars
             PROVE  CallsIInv'
  OBVIOUS
<1>1. CASE UNCHANGED callVars
  BY <1>1 DEF callVars, CallsIInv, CallsTypeOK, ObjectsLive, Alternating, Segments, NoneLeft, End
<1>2. ASSUME Inject \/ Post
      PROVE  CallsIInv'
  <2>1. CallsTypeOK' /\ ObjectsLive' /\ UNCHANGED <<stack, strings>>
    BY <1>2 DEF CallsIInv, CallsTypeOK, ObjectsLive, Inject, Post
  <2> QED  BY <2>1 DEF CallsIInv, Alternating, Segments, NoneLeft, End
<1>3. ASSUME NEW w \in Wrappers,
             Wrap(w) \/ Iterate(w) \/ ForgetIterator(w) \/ ResetSharedPtr(w) \/ Forget(w) \/ Collect(w)
      PROVE  CallsIInv'
  <2>1. UNCHANGED <<stack, strings>>
    BY <1>3 DEF Wrap, Iterate, ForgetIterator, ResetSharedPtr, Forget, Collect
  <2> QED  BY <1>3, <2>1, ObjectSteps
<1>4. ASSUME NEW w \in Wrappers, NEW n \in 0..MaxStrings, Enter(w, n)
      PROVE  CallsIInv'
  BY <1>4, Entering, CallBounds
<1>5. ASSUME NEW n \in 0..MaxStrings, CallBackReturns(n)
      PROVE  CallsIInv'
  BY <1>5, Returning, CallBounds
<1> QED  BY <1>1, <1>2, <1>3, <1>4, <1>5, Leaving, CallingBack, Returned DEF CallsNext

(* Nothing that a native function, an iterator or a callback has borrowed  *)
(* is gone before it is given back, and no string stays when its call has  *)
(* returned (the string buffer and the wrappers of node.ts and jsi.ts).    *)
THEOREM BorrowedKept == CallsSpec => []BorrowedIsKept
<1>1. CallsInit => CallsIInv
  BY CallsInitially
<1>2. CallsIInv /\ [CallsNext]_callVars => CallsIInv'
  BY CallsStep
<1>3. CallsIInv => BorrowedIsKept
  BY InvariantKeeps
<1> QED  BY <1>1, <1>2, <1>3, PTL DEF CallsSpec

-----------------------------------------------------------------------------
(***************************************************************************)
(* The files of Barqs.                                                     *)
(***************************************************************************)

(* A file is that of a Barq, or one of those beside it.                    *)
FilesOfBarqs == \A f \in DOMAIN disk : \E path, s : s \in {""} \cup Beside /\ f = File(path, s)

FilesTypeOK ==
  /\ system \in Systems /\ defaultDirectory \in DefaultDirectories
  /\ FilesOfBarqs

FilesIInv == FilesTypeOK /\ FilesGoTogether

(* What there is when files are added to the disk.                         *)
LEMMA Added ==
  ASSUME NEW files, DOMAIN files \cap DOMAIN disk = {}, disk' = Over(files, disk)
  PROVE  /\ DOMAIN disk' = DOMAIN disk \cup DOMAIN files
         /\ \A f \in DOMAIN disk : disk'[f] = disk[f]
  BY DEF Over

LEMMA FilesInitially == FilesInit => FilesIInv
<1> SUFFICES ASSUME FilesInit PROVE FilesIInv
  OBVIOUS
<1>1. DOMAIN disk = {} /\ filed.before = <<>> /\ filed.op = "none"
  BY DEF FilesInit
<1>2. DOMAIN filed.before = {}
  BY <1>1
<1> QED  BY <1>1, <1>2, FilesAssumption DEF FilesInit, FilesIInv, FilesTypeOK, FilesOfBarqs, FilesGoTogether

(* Of a call that only adds files.                                         *)
LEMMA Adding ==
  ASSUME FilesTypeOK, NEW op, NEW path, NEW threw, Did(op, path, threw), op \notin {"delete", "clear", "copy"},
         DOMAIN disk \subseteq DOMAIN disk', \A f \in DOMAIN disk : disk'[f] = disk[f]
  PROVE  FilesGoTogether'
<1>1. filed'.op = op /\ filed'.before = disk
  BY DEF Did
<1> QED  BY <1>1 DEF FilesGoTogether

(* Any directory begins with itself.                                       *)
LEMMA PrefixOfItself ==
  ASSUME NEW directory \in DefaultDirectories
  PROVE  IsPrefix(directory, directory)
<1>1. directory \in Seq(ToSet(directory))
  BY FilesAssumption
<1>2. Len(directory) \in Nat
  BY <1>1, LenProperties
<1> QED  BY <1>2 DEF IsPrefix

LEMMA OpenStep == ASSUME FilesIInv, OpenBarq PROVE FilesIInv'
<1>1. PICK asked \in AskedFor :
        LET path == DeterminePath(asked)
            refused == File(path, "") \in DOMAIN disk /\ disk[File(path, "")] = "cut"
        IN /\ Did("open", path, refused)
           /\ IF refused THEN UNCHANGED <<disk, opened>>
              ELSE \E others \in {{".lock", ".management"}, Beside} :
                     disk' = Over(disk, [f \in {File(path, s) : s \in others \cup {""}} |-> "data"])
           /\ UNCHANGED <<system, defaultDirectory>>
  BY DEF OpenBarq
<1> DEFINE path == DeterminePath(asked)
<1>2. /\ DOMAIN disk \subseteq DOMAIN disk'
      /\ \A f \in DOMAIN disk : disk'[f] = disk[f]
      /\ \A f \in DOMAIN disk' \ DOMAIN disk : \E s \in {""} \cup Beside : f = File(path, s)
  <2>1. CASE disk' = disk
    BY <2>1
  <2>2. CASE \E others \in {{".lock", ".management"}, Beside} :
               disk' = Over(disk, [f \in {File(path, s) : s \in others \cup {""}} |-> "data"])
    <3>1. PICK others \in {{".lock", ".management"}, Beside} :
               disk' = Over(disk, [f \in {File(path, s) : s \in others \cup {""}} |-> "data"])
      BY <2>2
    <3>2. others \subseteq Beside
      BY DEF Beside
    <3> DEFINE new == [f \in {File(path, s) : s \in others \cup {""}} |-> "data"]
    <3>3. DOMAIN new = {File(path, s) : s \in others \cup {""}}
      OBVIOUS
    <3> HIDE DEF new, path
    <3>4. disk' = Over(disk, new)
      BY <3>1 DEF new
    <3>5. /\ DOMAIN disk' = DOMAIN disk \cup DOMAIN new
          /\ \A f \in DOMAIN disk : disk'[f] = disk[f]
      BY <3>4 DEF Over
    <3>6. \A f \in DOMAIN new : \E s \in {""} \cup Beside : f = File(path, s)
      BY <3>2, <3>3
    <3> HIDE DEF new, path
    <3> QED  BY <3>5, <3>6
  <2> QED  BY <1>1, <2>1, <2>2
<1>3. FilesGoTogether'
  BY <1>1, <1>2, Adding DEF FilesIInv
<1>4. FilesOfBarqs'
  BY <1>2 DEF FilesIInv, FilesTypeOK, FilesOfBarqs
<1> QED  BY <1>1, <1>3, <1>4 DEF FilesIInv, FilesTypeOK

(* Of a call that only removes files.                                      *)
LEMMA Removing ==
  ASSUME FilesTypeOK, NEW gone, disk' = Without(gone)
  PROVE  /\ DOMAIN disk' = DOMAIN disk \ gone
         /\ \A f \in DOMAIN disk' : disk'[f] = disk[f]
         /\ FilesOfBarqs'
<1>1. DOMAIN disk' = DOMAIN disk \ gone /\ \A f \in DOMAIN disk' : disk'[f] = disk[f]
  BY DEF Without
<1> QED  BY <1>1 DEF FilesTypeOK, FilesOfBarqs

LEMMA DeleteStep == ASSUME FilesIInv, DeleteFile PROVE FilesIInv'
<1>1. PICK asked \in AskedFor, removed \in 0..Len(RemovedFiles) :
        LET path == DeterminePath(asked)
            gone == {File(path, RemovedFiles[i]) : i \in 1..removed}
        IN /\ Did("delete", path, removed < Len(RemovedFiles))
           /\ disk' = Without(gone)
           /\ UNCHANGED <<system, defaultDirectory, directories, opened>>
  BY DEF DeleteFile
<1> DEFINE path == DeterminePath(asked)
           gone == {File(path, RemovedFiles[i]) : i \in 1..removed}
<1>2. /\ Did("delete", path, removed < Len(RemovedFiles))
      /\ disk' = Without(gone)
      /\ UNCHANGED <<system, defaultDirectory, directories, opened>>
  BY <1>1
<1>3. \A f \in gone : f.path = path
  BY DEF File
<1>4. removed = Len(RemovedFiles) => \A s \in {""} \cup Beside : File(path, s) \in gone
  <2>1. \A s \in {""} \cup Beside : \E i \in 1..5 : RemovedFiles[i] = s
    <3>1. /\ RemovedFiles[1] = "" /\ RemovedFiles[2] = ".lock" /\ RemovedFiles[3] = ".fresh.lock"
          /\ RemovedFiles[4] = ".note" /\ RemovedFiles[5] = ".management"
      BY DEF RemovedFiles
    <3>2. \A s \in {""} \cup Beside : \/ s = "" \/ s = ".lock" \/ s = ".fresh.lock"
                                     \/ s = ".note" \/ s = ".management"
      BY DEF Beside
    <3>3. 1 \in 1..5 /\ 2 \in 1..5 /\ 3 \in 1..5 /\ 4 \in 1..5 /\ 5 \in 1..5
      OBVIOUS
    <3> HIDE DEF RemovedFiles
    <3> QED  BY <3>1, <3>2, <3>3, Zenon
  <2>2. Len(RemovedFiles) = 5
    BY DEF RemovedFiles
  <2> HIDE DEF RemovedFiles, path
  <2> QED  BY <2>1, <2>2
<1>5. \A p, s : File(p, s).path = p
  BY DEF File
<1> HIDE DEF path, gone
<1>6. /\ filed'.op = "delete" /\ filed'.before = disk /\ filed'.path = path
      /\ filed'.threw = (removed < Len(RemovedFiles))
  BY <1>2 DEF Did
<1>7. /\ DOMAIN disk' = DOMAIN disk \ gone
      /\ \A f \in DOMAIN disk' : disk'[f] = disk[f]
      /\ FilesOfBarqs'
  BY <1>2, Removing DEF FilesIInv
<1>8. removed \in Nat /\ Len(RemovedFiles) = 5 /\ removed <= 5
  BY DEF RemovedFiles
<1>9. ~filed'.threw => \A f \in DOMAIN disk' : f.path # filed'.path
  <2> SUFFICES ASSUME ~filed'.threw, NEW f \in DOMAIN disk', f.path = path PROVE FALSE
    BY <1>6
  <2>1. removed = Len(RemovedFiles)
    <3>1. ~(removed < Len(RemovedFiles))
      BY <1>6, Zenon
    <3> QED  BY <1>8, <3>1
  <2>2. PICK p, s : s \in {""} \cup Beside /\ f = File(p, s)
    BY <1>7 DEF FilesOfBarqs
  <2>3. p = path
    BY <1>5, <2>2
  <2> QED  BY <1>4, <1>7, <2>1, <2>2, <2>3
<1>10. FilesGoTogether'
  BY <1>3, <1>6, <1>7, <1>9 DEF FilesGoTogether
<1> QED  BY <1>2, <1>7, <1>10 DEF FilesIInv, FilesTypeOK

LEMMA ClearStep == ASSUME FilesIInv, ClearTestState PROVE FilesIInv'
<1>1. PICK gone \in SUBSET Cleared :
        /\ Did("clear", DefaultPath,
               gone # Cleared \/ (system # "apple" /\ defaultDirectory \notin directories))
        /\ opened' = {}
        /\ disk' = Without(gone)
        /\ UNCHANGED <<system, defaultDirectory, directories>>
  BY DEF ClearTestState
<1>2. /\ filed'.op = "clear" /\ filed'.before = disk
      /\ ~filed'.threw => gone = Cleared
  BY <1>1 DEF Did
<1>3. /\ DOMAIN disk' = DOMAIN disk \ gone
      /\ \A f \in DOMAIN disk' : disk'[f] = disk[f]
      /\ FilesOfBarqs'
  BY <1>1, Removing DEF FilesIInv
<1>4. IsPrefix(defaultDirectory, defaultDirectory)
  BY PrefixOfItself DEF FilesIInv, FilesTypeOK
<1>5. \/ system = "node" /\ Cleared = ClearedOnNode
      \/ system = "android" /\ Cleared = ClearedOnAndroid
      \/ system = "apple" /\ Cleared = ClearedOnApple
  BY FilesAssumption DEF Cleared, FilesIInv, FilesTypeOK
<1>6. \A f \in gone : f.path.barq /\ IsPrefix(defaultDirectory, f.path.directory)
  BY <1>1, <1>4, <1>5 DEF ClearedOnNode, ClearedOnAndroid, ClearedOnApple
<1>7. ASSUME gone = Cleared, NEW f \in DOMAIN disk', f.path.barq, f.path.directory = defaultDirectory
      PROVE  system # "node" /\ f.suffix # ""
  BY <1>3, <1>4, <1>5, <1>7 DEF ClearedOnNode, ClearedOnAndroid, ClearedOnApple
<1>8. FilesGoTogether'
  BY <1>1, <1>2, <1>3, <1>6, <1>7 DEF FilesGoTogether
<1> QED  BY <1>1, <1>3, <1>8 DEF FilesIInv, FilesTypeOK

(* Nothing that is wanted is there, and what is wanted is a Barq.          *)
LEMMA WantedIsNew == \A f \in Wanted : f \notin DOMAIN disk /\ \E path : f = File(path, "")
  BY DEF Wanted, Target

LEMMA CopyStep == ASSUME FilesIInv, CopyBundled PROVE FilesIInv'
<1>1. PICK made \in SUBSET Wanted :
        /\ Did("copy", DefaultPath, system = "node" \/ made # Wanted)
        /\ disk' = Over([f \in made |-> "bundle"], disk)
        /\ UNCHANGED <<system, defaultDirectory, directories, opened>>
  BY DEF CopyBundled
<1>2. filed'.op = "copy" /\ filed'.before = disk /\ (~filed'.threw => made = Wanted)
  BY <1>1 DEF Did
<1>3. /\ DOMAIN disk' = DOMAIN disk \cup made
      /\ \A f \in DOMAIN disk : disk'[f] = disk[f]
  <2> DEFINE copied == [f \in made |-> "bundle"]
  <2>1. DOMAIN copied = made
    OBVIOUS
  <2>2. disk' = Over(copied, disk)
    BY <1>1
  <2> HIDE DEF copied
  <2> QED  BY <2>1, <2>2, WantedIsNew, Added
<1>4. Copied' = Copied
  BY <1>1 DEF Copied, CopiedOnAndroid, CopiedOnApple
<1>5. \A b : Target(b)' = Target(b)
  BY <1>1 DEF Target, Path, File
<1>6. ~filed'.threw => \A b \in Copied : Target(b) \in DOMAIN disk'
  BY <1>2, <1>3 DEF Wanted
<1>7. FilesGoTogether'
  BY <1>2, <1>3, <1>4, <1>5, <1>6 DEF FilesGoTogether
<1>8. FilesOfBarqs'
  BY <1>3, WantedIsNew DEF FilesIInv, FilesTypeOK, FilesOfBarqs
<1> QED  BY <1>1, <1>7, <1>8 DEF FilesIInv, FilesTypeOK

LEMMA EndStep == ASSUME FilesIInv, ProcessEnds PROVE FilesIInv'
<1>1. PICK made \in SUBSET Wanted, cut \in SUBSET Wanted :
        /\ Did("end", DefaultPath, TRUE)
        /\ disk' = Over(Over(Leftover(cut), [f \in made |-> "bundle"]), disk)
        /\ defaultDirectory' = Documents
        /\ UNCHANGED <<system, directories>>
  BY DEF ProcessEnds
<1> DEFINE left == Leftover(cut)
           copied == [f \in made |-> "bundle"]
<1>2. DOMAIN left = cut /\ DOMAIN copied = made
  BY DEF Leftover
<1> HIDE DEF left, copied
<1>3. disk' = Over(Over(left, copied), disk)
  BY <1>1 DEF left, copied
<1>4. /\ DOMAIN disk' = (cut \cup made) \cup DOMAIN disk
      /\ \A f \in DOMAIN disk : disk'[f] = disk[f]
  <2> DEFINE new == Over(left, copied)
  <2>1. DOMAIN new = cut \cup made
    BY <1>2 DEF Over
  <2>2. disk' = Over(new, disk)
    BY <1>3
  <2> HIDE DEF new
  <2> QED  BY <2>1, <2>2, WantedIsNew, Added
<1>5. FilesGoTogether'
  BY <1>1, <1>4, Adding DEF FilesIInv
<1>6. FilesOfBarqs'
  BY <1>4, WantedIsNew DEF FilesIInv, FilesTypeOK, FilesOfBarqs
<1> QED  BY <1>1, <1>5, <1>6, FilesAssumption DEF FilesIInv, FilesTypeOK

LEMMA FilesStep == FilesIInv /\ [FilesNext]_fileVars => FilesIInv'
<1> SUFFICES ASSUME FilesIInv, [FilesNext]_fileVars PROVE FilesIInv'
  OBVIOUS
<1>1. CASE SetDefaultDirectory
  <2>1. FilesGoTogether'
    BY <1>1, Adding DEF SetDefaultDirectory, FilesIInv
  <2> QED  BY <1>1, <2>1 DEF SetDefaultDirectory, FilesIInv, FilesTypeOK, FilesOfBarqs
<1>2. CASE CloseBarq
  <2>1. PICK barq \in opened : Did("close", barq.path, FALSE)
    BY <1>2 DEF CloseBarq
  <2>2. UNCHANGED <<system, defaultDirectory, disk>>
    BY <1>2 DEF CloseBarq
  <2>3. FilesGoTogether'
    BY <2>1, <2>2, Adding DEF FilesIInv
  <2> QED  BY <2>2, <2>3 DEF FilesIInv, FilesTypeOK, FilesOfBarqs
<1>3. CASE UNCHANGED fileVars
  BY <1>3 DEF fileVars, FilesIInv, FilesTypeOK, FilesOfBarqs, FilesGoTogether, Copied, CopiedOnAndroid,
              CopiedOnApple, Target, Path, File
<1> QED  BY <1>1, <1>2, <1>3, OpenStep, DeleteStep, ClearStep, CopyStep, EndStep DEF FilesNext

(* What opening, deleting, clearing or copying does to the files of a Barq *)
(* it does to all of them and to those of no other, also when it fails     *)
(* part of the way (Barq.ts, the file systems of the platforms).           *)
THEOREM GoTogether == FilesSpec => []FilesGoTogether
<1>1. FilesIInv => FilesGoTogether
  BY DEF FilesIInv
<1> QED  BY <1>1, FilesInitially, FilesStep, PTL DEF FilesSpec

-----------------------------------------------------------------------------
(***************************************************************************)
(* Configurations.                                                         *)
(***************************************************************************)

(* An accepted field is one that the binding converts.                     *)
LEMMA AcceptedConverts ==
  ASSUME NEW config, Accepted(config)
  PROVE  /\ Converts(config.fifoFilesFallbackPath)
         /\ Converts(config.disableFormatUpgrade)
         /\ Converts(config.encryptionKey)
<1> DEFINE Matches(field, values) == config[field] = Unset \/ config[field] \in values
<1>1. /\ Matches("fifoFilesFallbackPath", {"text"})
      /\ Matches("disableFormatUpgrade", BOOLEAN)
      /\ Matches("encryptionKey", {"bytes"})
  BY DEF Accepted, AcceptedValues
<1> QED  BY <1>1, ConfigurationsAssumption DEF Converts

(* A sync configuration that is valid reaches the engine, with a handler   *)
(* for what is left to the application.                                    *)
LEMMA ValidReachesEngine ==
  ASSUME NEW sync, NEW environment, ValidSync(sync), ~NoHandler(sync),
         Converts(sync.cancelWaitsOnNonFatalError), Converts(Proxy(sync, environment))
  PROVE  LET given == SyncForEngine(sync, environment)
         IN /\ given # Thrown
            /\ given.given.handler = "none" => given.given.resetMode # "Manual"
<1>1. sync.ssl # Unset => Converts(sync.ssl.validate) /\ Converts(sync.ssl.certificatePath)
  BY ConfigurationsAssumption DEF ValidSync, ValidSsl, Converts
<1>2. sync.customHttpHeaders \in {Unset, "texts"}
  BY DEF ValidSync
<1> DEFINE given == [given |-> BindingConfig(sync), proxy |-> Proxy(sync, environment),
                     verifies |-> sync.ssl # Unset /\ sync.ssl.validateCertificates # Unset]
<1>3. SyncForEngine(sync, environment) = given
  BY <1>1, <1>2 DEF SyncForEngine
<1>4. "proxy" \in DOMAIN given /\ "proxy" \notin DOMAIN Thrown
  BY DEF Thrown
<1>5. sync.mode \in Modes \cup {"none"}
  BY DEF ValidSync, Valid
<1>6. ErrorHandler(sync) = "none" => sync.mode # "manual"
  BY DEF ErrorHandler
<1>7. sync.mode # "manual" => ResetMode(sync) # "Manual"
  BY <1>5 DEF ResetMode, Modes
<1>8. given.given.handler = ErrorHandler(sync) /\ given.given.resetMode = ResetMode(sync)
  BY DEF BindingConfig
<1> HIDE DEF given
<1> QED  BY <1>3, <1>4, <1>6, <1>7, <1>8

LEMMA AcceptedIsOpenable == AcceptedIsOpened
<1> DEFINE config == opening.config
           sync == config.sync
           environment == opening.environment
           given == TransformConfig(config, environment)
<1> SUFFICES ASSUME Accepted(config), ~Contradictory(config),
                    sync # Unset => /\ ~NoHandler(sync) /\ Converts(sync.cancelWaitsOnNonFatalError)
                                    /\ Converts(Proxy(sync, environment))
             PROVE  /\ given # Thrown
                    /\ given.schemaMode = "SoftResetFile" => ~given.migrates
                    /\ given.sync # Unset =>
                         /\ ~given.inMemory /\ ~given.migrates
                         /\ given.schemaMode \in {"Immutable", "AdditiveExplicit"}
                         /\ given.sync.given.handler = "none" => given.sync.given.resetMode # "Manual"
  BY DEF AcceptedIsOpened
<1> DEFINE forEngine == IF sync = Unset THEN Unset ELSE SyncForEngine(sync, environment)
           version == IF config.schema = Unset THEN Unset
                      ELSE IF config.schemaVersion = Unset THEN "zero" ELSE config.schemaVersion
           whole == [schemaMode |-> SchemaMode(config), schemaVersion |-> version,
                     inMemory |-> IsOn(config.inMemory),
                     migrates |-> config.onMigration # Unset,
                     compacts |-> config.shouldCompact # Unset,
                     encryptionKey |-> config.encryptionKey,
                     sync |-> forEngine,
                     forceSyncHistory |-> config.openSyncedBarqLocally,
                     resolvesConstraints |-> config.migrationOptions = "resolve"]
<1>1. sync # Unset => SyncAllowed(config) /\ ValidSync(sync)
  BY DEF Accepted
<1>2. sync # Unset =>
        /\ forEngine # Thrown
        /\ forEngine.given.handler = "none" => forEngine.given.resetMode # "Manual"
  BY <1>1, ValidReachesEngine
<1>3. forEngine # Thrown
  BY <1>2, ConfigurationsAssumption
<1>4. given = whole
  BY <1>3, AcceptedConverts DEF TransformConfig
<1>5. "sync" \in DOMAIN whole /\ "sync" \notin DOMAIN Thrown
  BY DEF Thrown
<1>6. /\ whole.schemaMode = SchemaMode(config) /\ whole.sync = forEngine
      /\ whole.migrates = (config.onMigration # Unset) /\ whole.inMemory = IsOn(config.inMemory)
  OBVIOUS
<1>7. SchemaMode(config) = "SoftResetFile" => config.onMigration = Unset
  BY DEF SchemaMode, Contradictory
<1>8. sync # Unset => /\ config.onMigration = Unset /\ config.inMemory = Unset
                      /\ SchemaMode(config) \in {"Immutable", "AdditiveExplicit"}
  BY <1>1 DEF SyncAllowed, SchemaMode, IsOn
<1>9. sync # Unset => ~IsOn(config.inMemory)
  BY <1>8 DEF IsOn
<1>10. sync = Unset => forEngine = Unset
  OBVIOUS
<1> HIDE DEF whole, given, forEngine, config, sync
<1>11. whole # Thrown
  BY <1>5
<1>12. config.onMigration = Unset => ~whole.migrates
  BY <1>6, Zenon
<1>13. sync # Unset => ~whole.inMemory
  BY <1>6, <1>9, Zenon
<1> QED  BY <1>2, <1>4, <1>6, <1>7, <1>8, <1>10, <1>11, <1>12, <1>13

(* An accepted configuration asks the engine for one way to treat the file *)
(* and holds nothing that a conversion refuses, but for what the property  *)
(* names as unchecked (validate-configuration.ts, Barq.ts).                *)
THEOREM AcceptedOpens == ConfigurationsSpec => []AcceptedIsOpened
BY AcceptedIsOpenable, PTL

-----------------------------------------------------------------------------
(***************************************************************************)
(* Schemas.                                                                *)
(***************************************************************************)

-----------------------------------------------------------------------------
(* Schemas                                                                 *)

(* What a canonical property, of the primary key or another, is like.      *)
CanonicalTypes(c) ==
  \/ c.type \in Primitives /\ c.objectType = Missing
  \/ c.type \in CollectionTypes /\ (c.objectType \in Primitives \/ c.objectType \notin TypeMappings \cup {Missing})
  \/ c.type \in {"object", "linkingObjects"} /\ c.objectType \notin TypeMappings \cup {Missing}

CanonicalFlags(c) ==
  /\ c.optional \in BOOLEAN
  /\ IsAlwaysOptional(c.type, c.objectType) => c.optional
  /\ IsNeverOptional(c.type, c.objectType) => ~c.optional
  /\ c.presentation \in {Missing, "counter"} /\ (c.presentation = "counter" => c.type = "int")
  /\ c.property \in {Missing, OtherName} /\ (c.property # Missing <=> c.type = "linkingObjects")

CanonicalRest(c, isPrimaryKey) ==
  /\ c.indexed \in {"indexed", "none", "full-text"} /\ (isPrimaryKey => c.indexed = "indexed")
  /\ c.mapTo \in {PropertyName, OtherName} /\ c.name = PropertyName
  /\ c.default \in {Missing, SomeDefault}
  /\ c.vector \in {Missing, SomeVector, FilledVector} /\ FillVector(c.vector) = c.vector
  /\ c.vector # Missing =>
       c.type = "list" /\ c.objectType = "float" /\ ~isPrimaryKey /\ c.indexed = "none"

IsCanonical(c, isPrimaryKey) ==
  /\ c = Canonical(c.type, c.objectType, c.presentation, c.property, c.optional, c.indexed, c.mapTo,
                   c.default, c.vector)
  /\ CanonicalTypes(c) /\ CanonicalFlags(c) /\ CanonicalRest(c, isPrimaryKey)

LEMMA UserDefinedIsOwn == UserDefined \cap (TypeMappings \cup {Missing}) = {}
  BY SchemasAssumption DEF UserDefined, TypeMappings, Primitives, CollectionTypes, Suffix

(* A canonical property has the fields it was made of.                     *)
LEMMA CanonicalFields ==
  ASSUME NEW type, NEW objectType, NEW presentation, NEW property, NEW optional, NEW indexed,
         NEW mapTo, NEW default, NEW vector, NEW c,
         c = Canonical(type, objectType, presentation, property, optional, indexed, mapTo, default, vector)
  PROVE  /\ c.type = type /\ c.objectType = objectType /\ c.presentation = presentation
         /\ c.property = property /\ c.optional = optional /\ c.indexed = indexed
         /\ c.mapTo = mapTo /\ c.default = default /\ c.vector = vector /\ c.name = PropertyName
         /\ c # Rejected
<1>1. "type" \in DOMAIN c /\ "type" \notin DOMAIN Rejected
  BY DEF Canonical, Rejected
<1> QED  BY <1>1 DEF Canonical

(* No type is always optional and never.                                   *)
LEMMA OptionalOnce ==
  ASSUME NEW type, NEW objectType
  PROVE  ~(IsAlwaysOptional(type, objectType) /\ IsNeverOptional(type, objectType))
<1>1. "mixed" \notin UserDefined
  BY UserDefinedIsOwn DEF TypeMappings, Primitives
<1> QED  BY <1>1 DEF IsAlwaysOptional, IsNeverOptional

(* The types that the object notation may have.                            *)
LEMMA FittingTypes ==
  ASSUME NEW p, ObjectTypeFits(p)
  PROVE  /\ CanonicalTypes(p)
         /\ p.type = "linkingObjects" => p.property # Missing
  BY UserDefinedIsOwn DEF ObjectTypeFits, CanonicalTypes, Primitives, CollectionTypes

LEMMA NormalizedIsCanonical ==
  ASSUME NEW p \in PropertyObjects, NEW isPrimaryKey \in BOOLEAN, Allowed(p, isPrimaryKey)
  PROVE  IsCanonical(NormalizeProperty(p, isPrimaryKey), isPrimaryKey)
<1> DEFINE c == NormalizeProperty(p, isPrimaryKey)
           index == IF isPrimaryKey THEN "indexed" ELSE IF p.indexed = Missing THEN "none" ELSE p.indexed
           mapTo == IF p.mapTo = Missing THEN PropertyName ELSE p.mapTo
<1>c. c = Canonical(p.type, p.objectType, p.presentation, p.property, Optionality(p), index, mapTo,
                    p.default, FillVector(p.vector))
  BY DEF NormalizeProperty
<1>1. /\ c.type = p.type /\ c.objectType = p.objectType /\ c.presentation = p.presentation
      /\ c.property = p.property /\ c.optional = Optionality(p) /\ c.indexed = index
      /\ c.mapTo = mapTo /\ c.default = p.default /\ c.vector = FillVector(p.vector)
      /\ c.name = PropertyName
  BY <1>c, CanonicalFields
<1>2. c = Canonical(c.type, c.objectType, c.presentation, c.property, c.optional, c.indexed, c.mapTo,
                    c.default, c.vector)
  BY <1>1, <1>c
<1>3. /\ p.presentation \in {Missing, "counter"} /\ p.property \in {Missing, OtherName}
      /\ p.indexed \in {Missing, "indexed", "none", "full-text"} /\ p.mapTo \in {Missing, OtherName}
      /\ p.default \in {Missing, SomeDefault} /\ p.vector \in {Missing, SomeVector, PartialVector}
  BY DEF PropertyObjects
<1> HIDE DEF c
<1>4. CanonicalTypes(c)
  BY <1>1, FittingTypes DEF CanonicalTypes, Allowed
<1>5. Optionality(p) \in BOOLEAN
  BY DEF Optionality
<1>6. /\ IsAlwaysOptional(p.type, p.objectType) => Optionality(p)
      /\ IsNeverOptional(p.type, p.objectType) => ~Optionality(p)
  BY OptionalOnce DEF Optionality
<1>7. CanonicalFlags(c)
  <2>1. c.optional \in BOOLEAN
    BY <1>1, <1>5
  <2>2. /\ IsAlwaysOptional(c.type, c.objectType) => c.optional
        /\ IsNeverOptional(c.type, c.objectType) => ~c.optional
    BY <1>1, <1>6, Zenon
  <2>3. /\ c.presentation \in {Missing, "counter"} /\ (c.presentation = "counter" => c.type = "int")
        /\ c.property \in {Missing, OtherName} /\ (c.property # Missing <=> c.type = "linkingObjects")
    BY <1>1, <1>3, FittingTypes DEF Allowed
  <2> QED  BY <2>1, <2>2, <2>3 DEF CanonicalFlags
<1>8. CanonicalRest(c, isPrimaryKey)
  <2>1. /\ c.indexed \in {"indexed", "none", "full-text"} /\ (isPrimaryKey => c.indexed = "indexed")
        /\ c.mapTo \in {PropertyName, OtherName} /\ c.name = PropertyName
        /\ c.default \in {Missing, SomeDefault}
    BY <1>1, <1>3
  <2>2. c.vector \in {Missing, SomeVector, FilledVector} /\ FillVector(c.vector) = c.vector
    BY <1>1, <1>3, SchemasAssumption DEF FillVector
  <2>3. c.vector # Missing =>
          c.type = "list" /\ c.objectType = "float" /\ ~isPrimaryKey /\ c.indexed = "none"
    BY <1>1, <1>3, SchemasAssumption DEF FillVector, Allowed, VectorFits
  <2> QED  BY <2>1, <2>2, <2>3 DEF CanonicalRest
<1> QED  BY <1>2, <1>4, <1>7, <1>8 DEF IsCanonical, c

(* The shorthand: what is before its suffix and its question mark, and the *)
(* parts that NormalizeShorthand makes of it.                              *)
Spellings == (Names \ {Marked}) \cup {"?"} \cup DOMAIN Suffix

Element(marks) == IF HasSuffix(marks) THEN Front(marks) ELSE marks
Stripped(marks) == IF HasOptional(Element(marks)) THEN Front(Element(marks)) ELSE Element(marks)
IsCounter(marks) == NameOf(Stripped(marks)) = "counter"
Item(marks) == IF IsCounter(marks) THEN "int" ELSE NameOf(Stripped(marks))
ShortType(marks) ==
  IF HasSuffix(marks) THEN Suffix[Last(marks)]
  ELSE IF Item(marks) \in Primitives THEN Item(marks) ELSE "object"
ShortObjectType(marks) ==
  IF HasSuffix(marks) \/ Item(marks) \notin Primitives THEN Item(marks) ELSE Missing
Fails(marks) ==
  \/ Stripped(marks) = <<>>
  \/ HasSuffix(Element(marks))
  \/ HasSuffix(Stripped(marks))
  \/ Item(marks) \in CollectionTypes \cup {"object", "linkingObjects"}
  \/ IsCounter(marks) /\ ShortType(marks) # "int"
  \/ IsNeverOptional(ShortType(marks), ShortObjectType(marks)) /\ HasOptional(Element(marks))
ShortOptional(marks) ==
  IF IsAlwaysOptional(ShortType(marks), ShortObjectType(marks)) THEN TRUE ELSE HasOptional(Element(marks))

LEMMA ShorthandTo ==
  ASSUME NEW marks, NEW isPrimaryKey
  PROVE  NormalizeShorthand(marks, isPrimaryKey) =
           IF Fails(marks) THEN Rejected
           ELSE Canonical(ShortType(marks), ShortObjectType(marks),
                          IF IsCounter(marks) THEN "counter" ELSE Missing, Missing,
                          ShortOptional(marks),
                          IF isPrimaryKey THEN "indexed" ELSE "none", PropertyName, Missing, Missing)
  BY Zenon DEF NormalizeShorthand, Fails, ShortOptional, ShortObjectType, ShortType, Item, IsCounter,
         Stripped, Element

LEMMA SuffixTypes ==
  /\ DOMAIN Suffix = {"[]", "{}", "<>"}
  /\ Suffix["[]"] = "list" /\ Suffix["{}"] = "dictionary" /\ Suffix["<>"] = "set"
  /\ \A s \in DOMAIN Suffix : Suffix[s] \in CollectionTypes
  BY DEF Suffix, CollectionTypes

LEMMA WithoutLast ==
  ASSUME NEW S, NEW s \in Seq(S), s # <<>>
  PROVE  /\ Front(s) \in Seq(S) /\ Len(Front(s)) = Len(s) - 1
         /\ \A i \in 1..(Len(s) - 1) : Front(s)[i] = s[i]
<1>1. Len(s) \in Nat \ {0} /\ \A i \in 1..Len(s) : s[i] \in S
  BY EmptySeq, LenProperties, ElementOfSeq
<1>2. \A i \in 1..(Len(s) - 1) : s[i] \in S
  BY <1>1
<1> DEFINE n == Len(s) - 1
<1>3. n \in Nat /\ n - 1 + 1 = n /\ (IF 1 <= n THEN n - 1 + 1 ELSE 0) = n
  BY <1>1, SMTT(30)
<1> HIDE DEF n
<1>4. /\ SubSeq(s, 1, n) \in Seq(S) /\ Len(SubSeq(s, 1, n)) = IF 1 <= n THEN n - 1 + 1 ELSE 0
      /\ \A i \in 1..(n - 1 + 1) : SubSeq(s, 1, n)[i] = s[1 + i - 1]
  BY <1>2, <1>3, SubSeqProperties DEF n
<1>5. \A i \in 1..n : 1 + i - 1 = i
  BY <1>3
<1> QED  BY <1>3, <1>4, <1>5 DEF Front, n

(* The item of a shorthand that is not rejected is a primitive or a name.  *)
LEMMA ItemIsName ==
  ASSUME NEW marks \in Seq(Spellings), ~Fails(marks)
  PROVE  Item(marks) \in Primitives \/ Item(marks) \notin TypeMappings \cup {Missing}
<1>1. Element(marks) \in Seq(Spellings)
  BY WithoutLast DEF Element, HasSuffix
<1>2. Stripped(marks) \in Seq(Spellings)
  BY <1>1, WithoutLast DEF Stripped, HasOptional
<1>3. Stripped(marks) # <<>>
  BY DEF Fails
<1>4. NameOf(Stripped(marks)) \in Spellings \cup {Marked}
  BY <1>2, <1>3 DEF NameOf
<1>5. Missing \notin Spellings \cup {Marked}
  BY SchemasAssumption DEF Spellings, Names, TypeMappings
<1>6. Item(marks) # Missing
  BY <1>4, <1>5, SchemasAssumption DEF Item, TypeMappings, Primitives
<1>7. Item(marks) \notin CollectionTypes \cup {"object", "linkingObjects"}
  BY DEF Fails
<1> QED  BY <1>6, <1>7 DEF TypeMappings

LEMMA ShorthandIsCanonical ==
  ASSUME NEW marks \in Seq(Spellings), NEW isPrimaryKey \in BOOLEAN,
         NormalizeShorthand(marks, isPrimaryKey) # Rejected
  PROVE  IsCanonical(NormalizeShorthand(marks, isPrimaryKey), isPrimaryKey)
<1> DEFINE c == NormalizeShorthand(marks, isPrimaryKey)
           presentation == IF IsCounter(marks) THEN "counter" ELSE Missing
           index == IF isPrimaryKey THEN "indexed" ELSE "none"
<1>f. ~Fails(marks)
  BY ShorthandTo
<1>c. c = Canonical(ShortType(marks), ShortObjectType(marks), presentation, Missing, ShortOptional(marks),
                    index, PropertyName, Missing, Missing)
  BY <1>f, ShorthandTo
<1> HIDE DEF c
<1>1. /\ c.type = ShortType(marks) /\ c.objectType = ShortObjectType(marks)
      /\ c.presentation = presentation /\ c.property = Missing /\ c.optional = ShortOptional(marks)
      /\ c.indexed = index /\ c.mapTo = PropertyName /\ c.default = Missing /\ c.vector = Missing
      /\ c.name = PropertyName
  BY <1>c, CanonicalFields
<1>2. c = Canonical(c.type, c.objectType, c.presentation, c.property, c.optional, c.indexed, c.mapTo,
                    c.default, c.vector)
  BY <1>1, <1>c
<1>3. CanonicalTypes(c)
  <2>1. CASE HasSuffix(marks)
    <3>1. c.type \in CollectionTypes /\ c.objectType = Item(marks)
      BY <1>1, <2>1, SuffixTypes DEF ShortType, ShortObjectType, HasSuffix
    <3> QED  BY <1>f, <3>1, ItemIsName DEF CanonicalTypes
  <2>2. CASE ~HasSuffix(marks) /\ Item(marks) \in Primitives
    BY <1>1, <2>2 DEF ShortType, ShortObjectType, CanonicalTypes
  <2>3. CASE ~HasSuffix(marks) /\ Item(marks) \notin Primitives
    <3>1. c.type = "object" /\ c.objectType = Item(marks)
      BY <1>1, <2>3 DEF ShortType, ShortObjectType
    <3> QED  BY <1>f, <2>3, <3>1, ItemIsName DEF CanonicalTypes
  <2> QED  BY <2>1, <2>2, <2>3
<1>4. CanonicalFlags(c)
  <2>1. HasOptional(Element(marks)) \in BOOLEAN
    BY DEF HasOptional
  <2>2. ShortOptional(marks) \in BOOLEAN
    BY <2>1 DEF ShortOptional
  <2>3. IsAlwaysOptional(ShortType(marks), ShortObjectType(marks)) => ShortOptional(marks)
    BY DEF ShortOptional
  <2>4. IsNeverOptional(ShortType(marks), ShortObjectType(marks)) => ~ShortOptional(marks)
    BY <1>f, OptionalOnce DEF ShortOptional, Fails
  <2>5. c.type # "linkingObjects"
    BY <1>1, SuffixTypes DEF ShortType, HasSuffix, Primitives, CollectionTypes
  <2>6. presentation = "counter" => ShortType(marks) = "int"
    BY <1>f, SchemasAssumption DEF Fails
  <2>7. /\ c.optional \in BOOLEAN
        /\ IsAlwaysOptional(c.type, c.objectType) => c.optional
        /\ IsNeverOptional(c.type, c.objectType) => ~c.optional
    BY <1>1, <2>2, <2>3, <2>4, Zenon
  <2> QED  BY <1>1, <2>5, <2>6, <2>7 DEF CanonicalFlags
<1>5. CanonicalRest(c, isPrimaryKey)
  BY <1>1, SchemasAssumption DEF CanonicalRest, FillVector
<1> QED  BY <1>2, <1>3, <1>4, <1>5 DEF IsCanonical, c

(* A type of the engine, read back.                                        *)
LEMMA TypeReadsBack ==
  ASSUME NEW c, CanonicalTypes(c), CanonicalFlags(c), c.objectType \in TypeMappings \cup Classes \cup {Missing},
         NEW b, b.type = ToBindingType(c),
         b.objectType = IF c.objectType \in TypeMappings THEN Missing ELSE c.objectType
  PROVE  /\ FromBindingType(b).type = c.type
         /\ FromBindingType(b).objectType = c.objectType
         /\ FromBindingType(b).optional = c.optional
<1> DEFINE item == FromBindingItem(b.type, b.objectType)
           collection == b.type.flags \cap CollectionTypes
           plain ==
             CASE b.type.item = "linkingObjects" ->
                    [type |-> "linkingObjects", objectType |-> b.objectType, optional |-> FALSE]
               [] b.type.item # "linkingObjects" /\ collection # {} ->
                    [type |-> CHOOSE t \in collection : TRUE,
                     objectType |-> IF item.type = "object" THEN item.objectType ELSE item.type,
                     optional |-> FALSE]
               [] OTHER -> item
           nullable == "nullable" \in b.type.flags
<1>1. FromBindingType(b) = [plain EXCEPT !.optional = @ \/ nullable]
  BY DEF FromBindingType
<1>2. ASSUME NEW type, NEW objectType, NEW optional \in BOOLEAN,
             plain = [type |-> type, objectType |-> objectType, optional |-> optional]
      PROVE  /\ FromBindingType(b).type = type /\ FromBindingType(b).objectType = objectType
             /\ FromBindingType(b).optional = (optional \/ nullable)
  <2> HIDE DEF plain, nullable
  <2> QED  BY <1>1, <1>2
<1>3. CASE c.type = "linkingObjects"
  <2>1. b.type = [item |-> "linkingObjects", flags |-> {"list"}]
    BY <1>3 DEF ToBindingType
  <2>2. c.objectType \notin TypeMappings /\ c.objectType \in UserDefined
    BY <1>3, UserDefinedIsOwn DEF CanonicalTypes, Primitives, CollectionTypes, UserDefined
  <2>3. plain = [type |-> "linkingObjects", objectType |-> c.objectType, optional |-> FALSE]
    BY <2>1, <2>2
  <2>4. ~nullable
    BY <2>1
  <2>5. ~c.optional
    BY <1>3, <2>2 DEF CanonicalFlags, IsNeverOptional
  <2>6. c.optional = FALSE
    BY <2>5 DEF CanonicalFlags
  <2> HIDE DEF plain, nullable
  <2> QED  BY <1>2, <1>3, <2>3, <2>4, <2>6
<1> DEFINE flags == ({c.type} \cap CollectionTypes) \cup (IF IsNullable(c) THEN {"nullable"} ELSE {})
           itemOf == IF c.type \notin CollectionTypes THEN c.type
                     ELSE IF c.objectType \in TypeMappings THEN c.objectType ELSE "object"
<1>4. ASSUME c.type # "linkingObjects" PROVE b.type.item = itemOf /\ b.type.flags = flags
  BY <1>4 DEF ToBindingType
<1>5. ASSUME c.type # "linkingObjects" PROVE nullable <=> IsNullable(c)
  <2>1. "nullable" \notin CollectionTypes
    BY DEF CollectionTypes
  <2> QED  BY <1>4, <1>5, <2>1
<1>6. CASE c.type \in Primitives /\ c.objectType = Missing
  <2>1. /\ c.type \notin CollectionTypes \cup {"linkingObjects", "object"}
        /\ "nullable" \notin CollectionTypes
    BY <1>6 DEF Primitives, CollectionTypes
  <2>2. b.type.item = c.type /\ collection = {}
    BY <1>4, <2>1
  <2>3. plain = [type |-> c.type, objectType |-> Missing, optional |-> FALSE]
    BY <2>1, <2>2 DEF FromBindingItem
  <2>4. Missing # "mixed"
    BY SchemasAssumption DEF TypeMappings, Primitives
  <2>5. IsNullable(c) = c.optional
    BY <1>6, <2>1, <2>4 DEF IsNullable, CanonicalFlags, IsAlwaysOptional, CollectionTypes
  <2>6. (FALSE \/ nullable) = c.optional
    BY <1>5, <2>1, <2>5 DEF CanonicalFlags
  <2> HIDE DEF plain, nullable
  <2>7. /\ FromBindingType(b).type = c.type /\ FromBindingType(b).objectType = Missing
        /\ FromBindingType(b).optional = (FALSE \/ nullable)
    BY <1>2, <2>3
  <2> QED  BY <1>6, <2>6, <2>7, Zenon
<1>7. CASE c.type = "object" /\ c.objectType \notin TypeMappings \cup {Missing}
  <2>1. b.type.item = "object" /\ collection = {}
    BY <1>4, <1>7 DEF CollectionTypes
  <2>2. plain = [type |-> "object", objectType |-> c.objectType, optional |-> TRUE]
    BY <1>7, <2>1 DEF FromBindingItem
  <2>3. c.optional
    BY <1>7 DEF CanonicalFlags, IsAlwaysOptional
  <2>4. c.optional = TRUE
    BY <2>3 DEF CanonicalFlags
  <2> HIDE DEF plain, nullable
  <2> QED  BY <1>2, <1>7, <2>2, <2>4
<1>8. CASE c.type \in CollectionTypes /\ (c.objectType \in Primitives \/ c.objectType \notin TypeMappings \cup {Missing})
  <2>1. c.type # "linkingObjects" /\ "nullable" \notin CollectionTypes
    BY <1>8 DEF CollectionTypes
  <2>2. collection = {c.type}
    BY <1>4, <1>8, <2>1
  <2>3. (CHOOSE t \in collection : TRUE) = c.type
    BY <2>2
  <2>4. b.type.item = IF c.objectType \in TypeMappings THEN c.objectType ELSE "object"
    BY <1>4, <1>8, <2>1
  <2>5. c.objectType \in Primitives => c.objectType \notin {"object", "linkingObjects"}
    BY DEF Primitives
  <2>6. c.objectType \in TypeMappings <=> c.objectType \in Primitives
    BY <1>8 DEF TypeMappings
  <2>7. b.type.item # "linkingObjects" /\ collection # {}
    BY <2>2, <2>4, <2>5, <2>6
  <2>8. (IF item.type = "object" THEN item.objectType ELSE item.type) = c.objectType
    BY <2>4, <2>5, <2>6 DEF FromBindingItem
  <2>9. plain = [type |-> c.type, objectType |-> c.objectType, optional |-> FALSE]
    BY <2>3, <2>7, <2>8
  <2>10. IsNullable(c) <=> c.optional
    <3>1. CASE "mixed" \in {c.type, c.objectType}
      BY <3>1 DEF IsNullable, CanonicalFlags, IsAlwaysOptional
    <3>2. CASE "mixed" \notin {c.type, c.objectType} /\ c.objectType \in TypeMappings
      BY <1>8, <3>2 DEF IsNullable, CollectionTypes
    <3>3. CASE "mixed" \notin {c.type, c.objectType} /\ c.objectType \notin TypeMappings
      <4>1. c.objectType \in UserDefined
        BY <1>8, <2>6, <3>3 DEF UserDefined
      <4>2. c.type \in {"list", "set"} => ~c.optional
        BY <4>1 DEF CanonicalFlags, IsNeverOptional
      <4> QED  BY <1>8, <3>3, <4>2 DEF IsNullable, CollectionTypes
    <3> QED  BY <3>1, <3>2, <3>3
  <2>11. (FALSE \/ nullable) = c.optional
    BY <1>5, <2>1, <2>10 DEF CanonicalFlags
  <2> HIDE DEF plain, nullable
  <2>12. /\ FromBindingType(b).type = c.type /\ FromBindingType(b).objectType = c.objectType
         /\ FromBindingType(b).optional = (FALSE \/ nullable)
    BY <1>2, <2>9
  <2> QED  BY <2>11, <2>12, Zenon
<1> QED  BY <1>3, <1>6, <1>7, <1>8 DEF CanonicalTypes

LEMMA CanonicalDomain ==
  ASSUME NEW c, NEW isPrimaryKey, IsCanonical(c, isPrimaryKey)
  PROVE  /\ c = [field \in DOMAIN c |-> c[field]]
         /\ DOMAIN c = {"type", "objectType", "presentation", "property", "optional", "indexed", "name",
                        "mapTo", "default", "vector"}
<1> DEFINE made == Canonical(c.type, c.objectType, c.presentation, c.property, c.optional, c.indexed,
                             c.mapTo, c.default, c.vector)
<1>1. c = made
  BY DEF IsCanonical
<1>2. /\ made = [field \in DOMAIN made |-> made[field]]
      /\ DOMAIN made = {"type", "objectType", "presentation", "property", "optional", "indexed", "name",
                        "mapTo", "default", "vector"}
  BY DEF Canonical
<1> HIDE DEF made
<1> QED  BY <1>1, <1>2

(* A property that the engine takes, read back with what it does not keep. *)
LEMMA PropertyReadsBack ==
  ASSUME NEW c, NEW isPrimaryKey, IsCanonical(c, isPrimaryKey),
         c.objectType \in TypeMappings \cup Classes \cup {Missing}
  PROVE  WithExtras(FromBindingProperty(ToBindingProperty(c)), ExtrasOfProperty(c)) = c
<1> DEFINE b == ToBindingProperty(c)
           read == FromBindingProperty(b)
           extras == ExtrasOfProperty(c)
<1>1. /\ b.name = c.mapTo /\ b.publicName = (IF c.mapTo = c.name THEN Missing ELSE c.name)
      /\ b.type = ToBindingType(c)
      /\ b.objectType = IF c.objectType \in TypeMappings THEN Missing ELSE c.objectType
      /\ b.linkOrigin = c.property
      /\ b.isIndexed = (c.indexed = "indexed") /\ b.isFulltextIndexed = (c.indexed = "full-text")
  BY DEF ToBindingProperty
<1> HIDE DEF b
<1>2. /\ FromBindingType(b).type = c.type /\ FromBindingType(b).objectType = c.objectType
      /\ FromBindingType(b).optional = c.optional
  BY <1>1, TypeReadsBack DEF IsCanonical
<1>3. /\ DOMAIN read = {"type", "objectType", "optional", "property", "indexed", "name", "mapTo"}
      /\ read.type = FromBindingType(b).type /\ read.objectType = FromBindingType(b).objectType
      /\ read.optional = FromBindingType(b).optional
      /\ read.property = b.linkOrigin /\ read.mapTo = b.name
      /\ read.indexed = (IF b.isFulltextIndexed THEN "full-text" ELSE IF b.isIndexed THEN "indexed" ELSE "none")
      /\ read.name = (IF b.publicName = Missing THEN b.name ELSE b.publicName)
  BY DEF FromBindingProperty
<1>4. /\ DOMAIN extras = {"default", "presentation", "vector"}
      /\ extras.default = c.default /\ extras.presentation = c.presentation /\ extras.vector = c.vector
  BY DEF ExtrasOfProperty
<1>5. read.indexed = c.indexed
  <2>1. c.indexed \in {"indexed", "none", "full-text"}
    BY DEF IsCanonical, CanonicalRest
  <2>2. CASE c.indexed = "full-text"
    <3>1. b.isFulltextIndexed
      BY <1>1, <2>2
    <3> QED  BY <1>3, <2>2, <3>1
  <2>3. CASE c.indexed # "full-text"
    <3>1. ~b.isFulltextIndexed /\ (b.isIndexed <=> c.indexed = "indexed")
      BY <1>1, <2>3
    <3> QED  BY <1>3, <2>1, <2>3, <3>1
  <2> QED  BY <2>2, <2>3
<1>6. read.name = c.name
  BY <1>1, <1>3, SchemasAssumption DEF IsCanonical, CanonicalRest
<1> HIDE DEF read, extras
<1> DEFINE whole == WithExtras(read, extras)
<1>7. /\ DOMAIN whole = {"type", "objectType", "presentation", "property", "optional", "indexed", "name",
                         "mapTo", "default", "vector"}
      /\ \A field \in DOMAIN whole :
           whole[field] = IF field \in DOMAIN extras THEN extras[field] ELSE read[field]
  BY <1>3, <1>4 DEF WithExtras
<1>8. /\ whole.type = c.type /\ whole.objectType = c.objectType /\ whole.presentation = c.presentation
      /\ whole.property = c.property /\ whole.optional = c.optional /\ whole.indexed = c.indexed
      /\ whole.name = c.name /\ whole.mapTo = c.mapTo /\ whole.default = c.default /\ whole.vector = c.vector
  BY <1>1, <1>2, <1>3, <1>4, <1>5, <1>6, <1>7
<1>9. whole = [field \in DOMAIN whole |-> whole[field]]
  BY DEF WithExtras
<1>10. c = [field \in DOMAIN c |-> c[field]]
       /\ DOMAIN c = {"type", "objectType", "presentation", "property", "optional", "indexed", "name",
                      "mapTo", "default", "vector"}
  BY CanonicalDomain
<1> HIDE DEF whole
<1>11. \A field \in DOMAIN c : whole[field] = c[field]
  BY <1>8, <1>10
<1>12. whole = c
  BY <1>7, <1>9, <1>10, <1>11
<1> QED  BY <1>12 DEF whole, read, extras, b

(* What a declaration becomes.                                             *)
LEMMA NormalizedObject ==
  ASSUME NEW d, IsDeclaration(d), NormalizeObject(d) # Rejected
  PROVE  LET o == NormalizeObject(d) IN
         /\ o = [primaryKey |-> o.primaryKey, embedded |-> o.embedded, asymmetric |-> o.asymmetric,
                 property |-> o.property]
         /\ o.embedded \in BOOLEAN /\ o.asymmetric \in BOOLEAN
         /\ o.primaryKey = d.primaryKey /\ o.primaryKey \in {Missing, PropertyName}
         /\ IsCanonical(o.property, o.primaryKey = PropertyName)
<1> DEFINE isPrimaryKey == d.primaryKey = PropertyName
           property == IF d.notation = "object" THEN NormalizeProperty(d.property, isPrimaryKey)
                       ELSE NormalizeShorthand(d.property, isPrimaryKey)
           o == NormalizeObject(d)
<1>1. ValidatesObject(d) /\ d.primaryKey \in {Missing, PropertyName} /\ property # Rejected
  BY DEF NormalizeObject
<1>2. o = [primaryKey |-> d.primaryKey, embedded |-> d.embedded = TRUE,
           asymmetric |-> d.asymmetric = TRUE, property |-> property]
  BY <1>1 DEF NormalizeObject
<1>3. IsCanonical(property, isPrimaryKey)
  <2>1. CASE d.notation = "object"
    <3>1. d.property \in PropertyObjects
      BY <1>1, <2>1 DEF ValidatesObject, IsDeclaration
    <3>2. Allowed(d.property, isPrimaryKey)
      BY <1>1, <2>1 DEF NormalizeProperty
    <3>3. isPrimaryKey \in BOOLEAN
      OBVIOUS
    <3> QED  BY <2>1, <3>1, <3>2, <3>3, NormalizedIsCanonical
  <2>2. CASE d.notation # "object"
    <3>1. d.property \in Seq(Spellings)
      BY <2>2 DEF IsDeclaration, Spellings
    <3> QED  BY <1>1, <2>2, <3>1, ShorthandIsCanonical
  <2> QED  BY <2>1, <2>2
<1> HIDE DEF property, o
<1>4. /\ o.primaryKey = d.primaryKey /\ o.embedded = (d.embedded = TRUE)
      /\ o.asymmetric = (d.asymmetric = TRUE) /\ o.property = property
  BY <1>2
<1>5. o = [primaryKey |-> o.primaryKey, embedded |-> o.embedded, asymmetric |-> o.asymmetric,
           property |-> o.property]
  BY <1>2, <1>4
<1>6. IsCanonical(o.property, o.primaryKey = PropertyName)
  BY <1>3, <1>4
<1> QED  BY <1>1, <1>4, <1>5, <1>6 DEF o

(* The canonical form of a canonical form is itself.                       *)
LEMMA CanonicalAgain ==
  ASSUME NEW c, NEW isPrimaryKey \in BOOLEAN, IsCanonical(c, isPrimaryKey),
         c.objectType \in TypeMappings \cup Classes \cup {Missing},
         c.presentation = "counter" => ~isPrimaryKey,
         NEW p, p.type = c.type, p.objectType = c.objectType, p.presentation = c.presentation,
         p.property = c.property, p.optional = c.optional, p.indexed = c.indexed,
         p.mapTo = c.mapTo, p.default = c.default, p.vector = c.vector
  PROVE  NormalizeProperty(p, isPrimaryKey) = c
<1>1. CanonicalTypes(c) /\ CanonicalFlags(c) /\ CanonicalRest(c, isPrimaryKey)
  BY DEF IsCanonical
<1>2. {Marked, "counter"} \cap {p.type, p.objectType} = {}
  <2>1. {Marked, "counter"} \cap (TypeMappings \cup Classes \cup {Missing}) = {}
    BY SchemasAssumption DEF TypeMappings, Primitives, CollectionTypes
  <2>2. p.type \in TypeMappings
    BY <1>1 DEF CanonicalTypes, TypeMappings
  <2> QED  BY <2>1, <2>2
<1>3. ObjectTypeFits(p)
  <2>1. CASE c.type \in Primitives
    BY <1>1, <2>1 DEF ObjectTypeFits, CanonicalTypes, Primitives, CollectionTypes
  <2>2. CASE c.type \in CollectionTypes
    BY <1>1, <2>2 DEF ObjectTypeFits, CanonicalTypes, Primitives, CollectionTypes, UserDefined
  <2>3. CASE c.type \in {"object", "linkingObjects"}
    BY <1>1, <2>3 DEF ObjectTypeFits, CanonicalTypes, CanonicalFlags, Primitives, CollectionTypes, UserDefined
  <2> QED  BY <1>1, <2>1, <2>2, <2>3 DEF CanonicalTypes
<1>4. OptionalFits(p)
  <2>1. /\ IsAlwaysOptional(c.type, c.objectType) => c.optional # FALSE
        /\ IsNeverOptional(c.type, c.objectType) => c.optional # TRUE
    BY <1>1 DEF CanonicalFlags
  <2> QED  BY <2>1 DEF OptionalFits
<1>5. isPrimaryKey => PrimaryKeyFits(p)
  BY <1>1 DEF PrimaryKeyFits, CanonicalRest
<1>6. p.vector # Missing => VectorFits(p, isPrimaryKey)
  BY <1>1 DEF VectorFits, CanonicalRest
<1>7. Allowed(p, isPrimaryKey)
  BY <1>1, <1>2, <1>3, <1>4, <1>5, <1>6 DEF Allowed, UsesShorthand, CanonicalFlags
<1>8. Optionality(p) = c.optional
  <2>1. CASE c.optional = TRUE
    BY <1>4, <2>1 DEF Optionality, OptionalFits
  <2>2. CASE c.optional = FALSE
    BY <1>4, <2>2 DEF Optionality, OptionalFits
  <2> QED  BY <1>1, <2>1, <2>2 DEF CanonicalFlags
<1>9. /\ (IF isPrimaryKey THEN "indexed" ELSE IF p.indexed = Missing THEN "none" ELSE p.indexed) = c.indexed
      /\ (IF p.mapTo = Missing THEN PropertyName ELSE p.mapTo) = c.mapTo
      /\ FillVector(p.vector) = c.vector
  BY <1>1, SchemasAssumption DEF CanonicalRest
<1>10. NormalizeProperty(p, isPrimaryKey) =
         Canonical(c.type, c.objectType, c.presentation, c.property, c.optional, c.indexed, c.mapTo,
                   c.default, c.vector)
  BY <1>7, <1>8, <1>9 DEF NormalizeProperty
<1> QED  BY <1>10 DEF IsCanonical

LEMMA ReadsBack == IsDeclaration(declaration) => SchemaReadsBack
<1> DEFINE o == NormalizeObject(declaration)
           c == o.property
           isPrimaryKey == o.primaryKey = PropertyName
<1> SUFFICES ASSUME IsDeclaration(declaration), o # Rejected, EngineTakes(ToBindingObject(o)),
                    ~(o.embedded /\ o.asymmetric)
             PROVE  /\ SchemaOf(o) = o
                    /\ (c.presentation = "counter" => o.primaryKey = Missing) =>
                         NormalizeObject(AsDeclaration(o)) = o
  BY DEF SchemaReadsBack
<1>1. /\ o = [primaryKey |-> o.primaryKey, embedded |-> o.embedded, asymmetric |-> o.asymmetric,
              property |-> o.property]
      /\ o.embedded \in BOOLEAN /\ o.asymmetric \in BOOLEAN
      /\ o.primaryKey \in {Missing, PropertyName}
      /\ IsCanonical(c, isPrimaryKey)
  BY NormalizedObject
<1> HIDE DEF o
<1>2. c.objectType \in TypeMappings \cup Classes \cup {Missing}
  <2>1. ToBindingObject(o).property.objectType = IF c.objectType \in TypeMappings THEN Missing ELSE c.objectType
    BY DEF ToBindingObject, ToBindingProperty
  <2> QED  BY <2>1 DEF EngineTakes
<1>3. SchemaOf(o) = o
  <2> DEFINE b == ToBindingObject(o)
  <2>1. /\ b.primaryKey = o.primaryKey /\ b.tableType = TableType(o)
        /\ b.property = ToBindingProperty(c)
    BY DEF ToBindingObject
  <2> HIDE DEF b
  <2>2. (b.tableType = "embedded") = o.embedded /\ (b.tableType = "asymmetric") = o.asymmetric
    BY <1>1, <2>1 DEF TableType
  <2>3. WithExtras(FromBindingProperty(b.property), ExtrasOfProperty(c)) = c
    BY <1>1, <1>2, <2>1, PropertyReadsBack
  <2>4. SchemaOf(o) = [primaryKey |-> b.primaryKey, embedded |-> b.tableType = "embedded",
                       asymmetric |-> b.tableType = "asymmetric",
                       property |-> WithExtras(FromBindingProperty(b.property), ExtrasOfProperty(c))]
    BY Zenon DEF SchemaOf, b, c
  <2> HIDE DEF c
  <2>5. SchemaOf(o) = [primaryKey |-> o.primaryKey, embedded |-> o.embedded, asymmetric |-> o.asymmetric,
                       property |-> c]
    BY <2>1, <2>2, <2>3, <2>4
  <2> QED  BY <1>1, <2>5 DEF c
<1>4. ASSUME c.presentation = "counter" => o.primaryKey = Missing
      PROVE  NormalizeObject(AsDeclaration(o)) = o
  <2> DEFINE p == [field \in DOMAIN c \ {"name"} |-> c[field]]
             d == AsDeclaration(o)
  <2>1. /\ d.notation = "object" /\ d.primaryKey = o.primaryKey /\ d.embedded = o.embedded
        /\ d.asymmetric = o.asymmetric /\ d.property = p
    BY DEF AsDeclaration
  <2>2. /\ DOMAIN p = {"type", "objectType", "presentation", "property", "optional", "indexed",
                       "mapTo", "default", "vector"}
        /\ \A field \in DOMAIN p : p[field] = c[field]
    BY <1>1, CanonicalDomain
  <2> HIDE DEF p, d, c
  <2>3. /\ p.type = c.type /\ p.objectType = c.objectType /\ p.presentation = c.presentation
        /\ p.property = c.property /\ p.optional = c.optional /\ p.indexed = c.indexed
        /\ p.mapTo = c.mapTo /\ p.default = c.default /\ p.vector = c.vector
    BY <2>2
  <2>4. c.presentation = "counter" => ~isPrimaryKey
    BY <1>4, SchemasAssumption DEF c
  <2>5. NormalizeProperty(p, isPrimaryKey) = c
    BY <1>1, <1>2, <2>3, <2>4, CanonicalAgain
  <2>6. ValidatesProperty(p)
    <3>1. c.type \in TypeMappings
      BY <1>1 DEF IsCanonical, CanonicalTypes, TypeMappings
    <3>2. Mistyped \notin TypeMappings \cup Classes \cup {Missing, "counter", PropertyName, OtherName, SomeDefault,
                                                         SomeVector, FilledVector, "indexed", "none", "full-text"}
      BY SchemasAssumption
    <3>3. c.optional # Mistyped
      BY <1>1, SchemasAssumption DEF IsCanonical, CanonicalFlags
    <3>4. /\ c.type # Mistyped /\ c.objectType # Mistyped /\ c.presentation # Mistyped
          /\ c.property # Mistyped /\ c.indexed # Mistyped /\ c.mapTo # Mistyped
          /\ c.default # Mistyped /\ c.vector # Mistyped
      BY <1>1, <1>2, <3>1, <3>2 DEF IsCanonical, CanonicalFlags, CanonicalRest
    <3> QED  BY <2>2, <2>3, <3>3, <3>4 DEF ValidatesProperty
  <2>7. ValidatesObject(d)
    <3>1. d.primaryKey # Mistyped /\ d.embedded # Mistyped /\ d.asymmetric # Mistyped
      <4>1. Mistyped \notin BOOLEAN /\ Mistyped \notin {Missing, PropertyName}
        BY SchemasAssumption
      <4> QED  BY <1>1, <2>1, <4>1
    <3> QED  BY <2>1, <2>6, <3>1 DEF ValidatesObject
  <2>8. c # Rejected
    <3>1. "type" \in DOMAIN c /\ "type" \notin DOMAIN Rejected
      BY <1>1, CanonicalDomain DEF Rejected
    <3> QED  BY <3>1
  <2>9. NormalizeObject(d) = [primaryKey |-> d.primaryKey, embedded |-> d.embedded = TRUE,
                              asymmetric |-> d.asymmetric = TRUE, property |-> c]
    BY <1>1, <2>1, <2>5, <2>7, <2>8 DEF NormalizeObject
  <2>10. (d.embedded = TRUE) = o.embedded /\ (d.asymmetric = TRUE) = o.asymmetric
    BY <1>1, <2>1
  <2>11. NormalizeObject(d) = [primaryKey |-> o.primaryKey, embedded |-> o.embedded,
                               asymmetric |-> o.asymmetric, property |-> c]
    BY <2>1, <2>9, <2>10
  <2> QED  BY <1>1, <2>11 DEF c, d
<1> QED  BY <1>3, <1>4

LEMMA Fronts ==
  ASSUME NEW a, NEW b, NEW c
  PROVE  /\ Front(<<a, b>>) = <<a>> /\ Front(<<a, b, c>>) = <<a, b>>
         /\ Last(<<a>>) = a /\ Last(<<a, b>>) = b /\ Last(<<a, b, c>>) = c
<1>1. Front(<<a, b>>) = <<a>>
  <2> DEFINE s == <<a, b>>
  <2>1. s \in Seq({a, b}) /\ Len(s) = 2 /\ s # <<>> /\ s[1] = a
    OBVIOUS
  <2> HIDE DEF s
  <2>2. /\ Front(s) \in Seq({a, b}) /\ Len(Front(s)) = Len(s) - 1
        /\ \A i \in 1..(Len(s) - 1) : Front(s)[i] = s[i]
    BY <2>1, WithoutLast
  <2>3. Len(Front(s)) = 1 /\ Front(s)[1] = a
    BY <2>1, <2>2
  <2> DEFINE f == Front(s)
  <2>4. f \in Seq({a, b}) /\ Len(f) = 1 /\ f[1] = a
    BY <2>2, <2>3
  <2> HIDE DEF f
  <2>5. f = <<a>>
    BY <2>4
  <2> QED  BY <2>5 DEF f, s
<1>2. Front(<<a, b, c>>) = <<a, b>>
  <2> DEFINE s == <<a, b, c>>
  <2>1. s \in Seq({a, b, c}) /\ Len(s) = 3 /\ s # <<>> /\ s[1] = a /\ s[2] = b
    OBVIOUS
  <2> HIDE DEF s
  <2>2. /\ Front(s) \in Seq({a, b, c}) /\ Len(Front(s)) = Len(s) - 1
        /\ \A i \in 1..(Len(s) - 1) : Front(s)[i] = s[i]
    BY <2>1, WithoutLast
  <2>3. Len(Front(s)) = 2 /\ Front(s)[1] = a /\ Front(s)[2] = b
    BY <2>1, <2>2
  <2> DEFINE f == Front(s)
  <2>4. f \in Seq({a, b, c}) /\ Len(f) = 2 /\ f[1] = a /\ f[2] = b
    BY <2>2, <2>3
  <2> HIDE DEF f
  <2>5. f = <<a, b>>
    BY <2>4
  <2> QED  BY <2>5 DEF f, s
<1> QED  BY <1>1, <1>2 DEF Last

(* A name, a question mark or not and a suffix or not, taken apart.        *)
LEMMA TakenApart ==
  ASSUME NEW name \in Names \ {Marked}, NEW t \in DOMAIN Suffix,
         NEW marks, marks \in {<<name>>, <<name, "?">>, <<name, t>>, <<name, "?", t>>}
  PROVE  /\ marks[1] = name
         /\ HasSuffix(marks) => Suffix[Last(marks)] \in CollectionTypes
         /\ HasOptional(Element(marks)) <=> Contains(marks, "?")
         /\ ~HasSuffix(Element(marks)) /\ ~HasSuffix(Stripped(marks))
         /\ Stripped(marks) = <<name>> /\ NameOf(Stripped(marks)) = name
<1>1. /\ name \notin DOMAIN Suffix \cup {"?"} /\ "?" \notin DOMAIN Suffix /\ t # "?"
      /\ Suffix[t] \in CollectionTypes
  BY SchemasAssumption, SuffixTypes DEF Names, Primitives, CollectionTypes, TypeMappings
<1> DEFINE whole == /\ marks[1] = name
                    /\ HasSuffix(marks) => Suffix[Last(marks)] \in CollectionTypes
                    /\ HasOptional(Element(marks)) <=> Contains(marks, "?")
                    /\ ~HasSuffix(Element(marks)) /\ ~HasSuffix(Stripped(marks))
                    /\ Stripped(marks) = <<name>>
<1>2. NameOf(<<name>>) = name
  BY DEF NameOf
<1>3. CASE marks = <<name>>
  <2>1. ~HasSuffix(marks) /\ Element(marks) = marks /\ ~HasOptional(marks)
    BY <1>1, <1>3, Fronts DEF HasSuffix, HasOptional, Element
  <2>2. Stripped(marks) = <<name>>
    BY <1>3, <2>1 DEF Stripped
  <2>3. ~Contains(marks, "?")
    BY <1>1, <1>3 DEF Contains
  <2> QED  BY <1>2, <1>3, <2>1, <2>2, <2>3
<1>4. CASE marks = <<name, "?">>
  <2>1. ~HasSuffix(marks) /\ Element(marks) = marks /\ HasOptional(marks)
    BY <1>1, <1>4, Fronts DEF HasSuffix, HasOptional, Element
  <2>2. Stripped(marks) = <<name>>
    BY <1>4, <2>1, Fronts DEF Stripped
  <2>3. Contains(marks, "?")
    BY <1>4 DEF Contains
  <2>4. ~HasSuffix(<<name>>)
    BY <1>1, Fronts DEF HasSuffix
  <2> QED  BY <1>2, <1>4, <2>1, <2>2, <2>3, <2>4
<1>5. CASE marks = <<name, t>>
  <2>1. HasSuffix(marks) /\ Element(marks) = <<name>> /\ Last(marks) = t
    BY <1>1, <1>5, Fronts DEF HasSuffix, Element
  <2>2. ~HasOptional(<<name>>) /\ ~HasSuffix(<<name>>)
    BY <1>1, Fronts DEF HasOptional, HasSuffix
  <2>3. Stripped(marks) = <<name>>
    BY <2>1, <2>2 DEF Stripped
  <2>4. ~Contains(marks, "?")
    BY <1>1, <1>5 DEF Contains
  <2> QED  BY <1>1, <1>2, <1>5, <2>1, <2>2, <2>3, <2>4
<1>6. CASE marks = <<name, "?", t>>
  <2>1. HasSuffix(marks) /\ Element(marks) = <<name, "?">> /\ Last(marks) = t
    <3>1. Last(<<name, "?", t>>) = t /\ Front(<<name, "?", t>>) = <<name, "?">>
      <4> DEFINE b == "?"
      <4> HIDE DEF b
      <4>1. Last(<<name, b, t>>) = t
        BY DEF Last
      <4>2. Front(<<name, b, t>>) = <<name, b>>
        BY Fronts
      <4> QED  BY <4>1, <4>2 DEF b
    <3>2. Last(marks) = t /\ Front(marks) = <<name, "?">>
      BY <1>6, <3>1
    <3>3. marks # <<>>
      BY <1>6
    <3>4. HasSuffix(marks)
      BY <3>2, <3>3 DEF HasSuffix
    <3> QED  BY <3>2, <3>4 DEF Element
  <2>2. HasOptional(<<name, "?">>) /\ ~HasSuffix(<<name, "?">>) /\ ~HasSuffix(<<name>>)
    BY <1>1, Fronts DEF HasOptional, HasSuffix
  <2>3. Stripped(marks) = <<name>>
    BY <2>1, <2>2, Fronts DEF Stripped
  <2>4. Contains(marks, "?")
    BY <1>6 DEF Contains
  <2> QED  BY <1>1, <1>2, <1>6, <2>1, <2>2, <2>3, <2>4
<1> QED  BY <1>3, <1>4, <1>5, <1>6

(* What a shorthand is rejected for, its spelling is rejected for.         *)
LEMMA SpelledOut ==
  ASSUME NEW name \in Names \ {Marked}, NEW t \in DOMAIN Suffix,
         NEW marks, marks \in {<<name>>, <<name, "?">>, <<name, t>>, <<name, "?", t>>},
         NEW isPrimaryKey \in BOOLEAN, ~(isPrimaryKey /\ name = "counter")
  PROVE  NormalizeShorthand(marks, isPrimaryKey) = NormalizeProperty(Spelled(marks), isPrimaryKey)
<1> DEFINE p == Spelled(marks)
           item == IF name = "counter" THEN "int" ELSE name
           presentation == IF name = "counter" THEN "counter" ELSE Missing
           marked == Contains(marks, "?")
<1>1. /\ marks[1] = name
      /\ HasSuffix(marks) => Suffix[Last(marks)] \in CollectionTypes
      /\ HasOptional(Element(marks)) <=> marked
      /\ ~HasSuffix(Element(marks)) /\ ~HasSuffix(Stripped(marks))
      /\ Stripped(marks) # <<>> /\ NameOf(Stripped(marks)) = name
  BY TakenApart
<1>2. (IsCounter(marks) <=> name = "counter") /\ Item(marks) = item
  BY <1>1 DEF IsCounter, Item
<1>3. /\ p.type = (IF HasSuffix(marks) THEN Suffix[Last(marks)]
                   ELSE IF item \in Classes THEN "object" ELSE item)
      /\ p.objectType = (IF HasSuffix(marks) \/ item \in Classes THEN item ELSE Missing)
      /\ p.presentation = presentation /\ p.optional = (IF marked THEN TRUE ELSE Missing)
      /\ p.property = Missing /\ p.indexed = Missing /\ p.vector = Missing /\ p.mapTo = Missing
      /\ p.default = Missing
  BY <1>1 DEF Spelled
<1> HIDE DEF p
<1>4. /\ item \notin {Marked, "counter", Missing}
      /\ item \in Primitives \cup Classes \cup CollectionTypes \cup {"object", "linkingObjects"}
  BY SchemasAssumption DEF Names, Primitives, TypeMappings
<1>5. /\ Classes \cap (TypeMappings \cup {"counter", Missing, Marked}) = {}
      /\ {Missing, Marked} \cap (TypeMappings \cup {"counter"}) = {}
      /\ Missing # TRUE /\ Missing # FALSE /\ Missing # Marked
  BY SchemasAssumption
<1>6. Primitives \cap (CollectionTypes \cup {"object", "linkingObjects", "counter"}) = {}
      /\ CollectionTypes \cap {"object", "linkingObjects", "counter", "int"} = {}
  BY DEF Primitives, CollectionTypes
<1> HIDE DEF item, marked, presentation
<1>7. ~UsesShorthand(p)
  BY <1>1, <1>3, <1>4, <1>5, <1>6 DEF UsesShorthand, TypeMappings
<1>8. CASE item \in CollectionTypes \cup {"object", "linkingObjects"}
  <2>1. Fails(marks)
    BY <1>2, <1>8 DEF Fails
  <2>2. item \notin Primitives \cup UserDefined /\ Missing \notin Primitives \cup UserDefined
    BY <1>5, <1>6, <1>8 DEF UserDefined, TypeMappings
  <2>3. ~ObjectTypeFits(p)
    <3>1. CASE HasSuffix(marks)
      <4>1. p.type \in CollectionTypes /\ p.objectType = item
        BY <1>1, <1>3, <3>1
      <4> QED  BY <1>6, <2>2, <4>1 DEF ObjectTypeFits
    <3>2. CASE ~HasSuffix(marks)
      <4>1. item \notin Classes
        BY <1>5, <1>8 DEF TypeMappings
      <4>2. p.type = item /\ p.objectType = Missing
        BY <1>3, <3>2, <4>1
      <4> QED  BY <1>6, <1>8, <2>2, <4>2 DEF ObjectTypeFits
    <3> QED  BY <3>1, <3>2
  <2> QED  BY <2>1, <2>3, ShorthandTo DEF NormalizeProperty, Allowed, p
<1>9. CASE item \in Primitives \cup Classes
  <2>1. p.type = ShortType(marks) /\ p.objectType = ShortObjectType(marks)
    BY <1>2, <1>3, <1>5, <1>9 DEF ShortType, ShortObjectType, TypeMappings
  <2>2. ObjectTypeFits(p)
    <3>1. CASE HasSuffix(marks)
      <4>1. p.type \in CollectionTypes /\ p.objectType = item
        BY <1>1, <1>3, <3>1
      <4> QED  BY <1>6, <1>9, <4>1 DEF ObjectTypeFits, UserDefined
    <3>2. CASE ~HasSuffix(marks) /\ item \in Classes
      <4>1. p.type = "object" /\ p.objectType = item
        BY <1>3, <3>2
      <4> QED  BY <1>6, <3>2, <4>1 DEF ObjectTypeFits, UserDefined
    <3>3. CASE ~HasSuffix(marks) /\ item \notin Classes
      <4>1. p.type = item /\ p.objectType = Missing
        BY <1>3, <3>3
      <4> QED  BY <1>6, <1>9, <3>3, <4>1 DEF ObjectTypeFits
    <3> QED  BY <3>1, <3>2, <3>3
  <2>3. OptionalFits(p) <=> ~(IsNeverOptional(p.type, p.objectType) /\ marked)
    BY <1>3, <1>5 DEF OptionalFits
  <2>4. item \notin CollectionTypes \cup {"object", "linkingObjects"}
    BY <1>5, <1>6, <1>9 DEF TypeMappings
  <2>5. Fails(marks) <=> \/ name = "counter" /\ p.type # "int"
                         \/ IsNeverOptional(p.type, p.objectType) /\ marked
    BY <1>1, <1>2, <2>1, <2>4 DEF Fails
  <2>6. p.presentation = "counter" <=> name = "counter"
    BY <1>3, <1>5 DEF presentation
  <2>7. Allowed(p, isPrimaryKey) <=> ~Fails(marks)
    <3>1. isPrimaryKey => PrimaryKeyFits(p)
      BY <1>3, <2>6, SchemasAssumption DEF PrimaryKeyFits
    <3> QED  BY <1>3, <1>7, <2>2, <2>3, <2>5, <2>6, <3>1 DEF Allowed
  <2>8. CASE Fails(marks)
    BY <2>7, <2>8, ShorthandTo DEF NormalizeProperty, p
  <2>9. CASE ~Fails(marks)
    <3>1. Optionality(p) = ShortOptional(marks)
      <4>1. (p.optional = TRUE) <=> marked
        BY <1>3, <1>5
      <4>2. HasOptional(Element(marks)) \in BOOLEAN
        BY DEF HasOptional
      <4>3. IsNeverOptional(p.type, p.objectType) => ~marked
        BY <2>5, <2>9
      <4>4. (p.optional = TRUE) = HasOptional(Element(marks))
        BY <1>1, <4>1, <4>2
      <4> QED  BY <1>1, <2>1, <4>2, <4>3, <4>4, OptionalOnce DEF Optionality, ShortOptional
    <3>2. FillVector(Missing) = Missing
      BY SchemasAssumption DEF FillVector
    <3>3. p.presentation = IF IsCounter(marks) THEN "counter" ELSE Missing
      BY <1>2, <1>3 DEF presentation
    <3>4. NormalizeProperty(p, isPrimaryKey) =
            Canonical(ShortType(marks), ShortObjectType(marks),
                      IF IsCounter(marks) THEN "counter" ELSE Missing, Missing, ShortOptional(marks),
                      IF isPrimaryKey THEN "indexed" ELSE "none", PropertyName, Missing, Missing)
      BY <1>3, <2>1, <2>7, <2>9, <3>1, <3>2, <3>3 DEF NormalizeProperty
    <3> QED  BY <2>9, <3>4, ShorthandTo DEF p
  <2> QED  BY <2>8, <2>9
<1> QED  BY <1>4, <1>8, <1>9

LEMMA SpelledOutAll == IsDeclaration(declaration) => ShorthandIsSpelledOut
<1> DEFINE marks == declaration.property
           isPrimaryKey == declaration.primaryKey = PropertyName
<1> SUFFICES ASSUME IsDeclaration(declaration), declaration.notation = "shorthand", WellFormed(marks),
                    ~(isPrimaryKey /\ marks[1] = "counter")
             PROVE  NormalizeShorthand(marks, isPrimaryKey) = NormalizeProperty(Spelled(marks), isPrimaryKey)
  BY DEF ShorthandIsSpelledOut
<1>1. PICK name \in Names, t \in DOMAIN Suffix :
        marks \in {<<name>>, <<name, "?">>, <<name, t>>, <<name, "?", t>>}
  BY DEF WellFormed
<1>2. marks[1] = name /\ marks # <<>>
  BY <1>1
<1>3. marks \in Seq(Spellings)
  BY DEF IsDeclaration, Spellings
<1>4. name \in Spellings
  BY <1>2, <1>3, ElementOfSeq, LenProperties, EmptySeq
<1>5. name # Marked
  BY <1>4, SchemasAssumption DEF Spellings
<1>6. isPrimaryKey \in BOOLEAN
  OBVIOUS
<1>7. ~(isPrimaryKey /\ name = "counter")
  BY <1>2
<1> HIDE DEF marks, isPrimaryKey
<1>8. name \in Names \ {Marked}
  BY <1>1, <1>5
<1> QED  BY <1>1, <1>6, <1>7, <1>8, SpelledOut

(* A model is stored as what it means, however it is written: it comes back *)
(* from the engine as its canonical form, which opens a Barq again, and a   *)
(* shorthand of any length means what the object notation spells out        *)
(* (normalize.ts, to-binding.ts, from-binding.ts).                          *)
THEOREM Kept == SchemasSpec => []SchemaIsKept
<1>1. SchemasInit => IsDeclaration(declaration)
  BY SchemasAssumption DEF SchemasInit
<1>2. IsDeclaration(declaration) /\ [UNCHANGED declaration]_declaration => IsDeclaration(declaration)'
  BY DEF IsDeclaration
<1>3. IsDeclaration(declaration) => SchemaIsKept
  BY ReadsBack, SpelledOutAll DEF SchemaIsKept
<1> QED  BY <1>1, <1>2, <1>3, PTL DEF SchemasSpec

-----------------------------------------------------------------------------
(* The classes of the plugin                                               *)

Scalars ==
  {"bool", "string", "int", "float", "double", "decimal128", "objectId", "uuid", "date", "data", "mixed"}

(* A type of Barq that holds what a type of TypeScript does.               *)
StandsFor(r, t) ==
  /\ r.property = Missing
  /\ \/ r.type \in Scalars /\ r.objectType = Missing /\ KindOf(t) = KindsOfBarq[r.type]
     \/ r.type = "object" /\ r.objectType \in Classes /\ KindOf(t) = r.objectType

Collected == {"List", "Set", "Dictionary"}
Found(r) == r \notin {Undetermined, Throws}
Fields == {"type", "objectType", "optional", "property"}

LEMMA NotBoth == Throws # Undetermined
<1>1. "throws" \in DOMAIN Throws /\ "throws" \notin DOMAIN Undetermined
  BY DEF Throws, Undetermined
<1> QED  BY <1>1

(* The tables of names agree.                                              *)
LEMMA NamesAgree ==
  /\ \A n \in DOMAIN Aliases : Aliases[n] \in Scalars /\ KindsOfBarq[Aliases[n]] = KindsOfAliases[n]
  /\ \A n \in DOMAIN CollectionAliases :
       /\ CollectionAliases[n] \in CollectionTypes /\ KindsOfAliases[n] \in Collected
       /\ KindsOfBarq[CollectionAliases[n]] = KindsOfAliases[n]
  /\ \A n \in DOMAIN Keywords : Keywords[n] \in Scalars /\ KindsOfBarq[Keywords[n]] = n
  /\ \A n \in DOMAIN GlobalNames : GlobalNames[n] \in Scalars /\ KindsOfBarq[GlobalNames[n]] = n
  /\ DOMAIN Aliases \cup DOMAIN CollectionAliases \cup {"LinkingObjects"} = DOMAIN KindsOfAliases
  /\ KindsOfAliases["LinkingObjects"] = KindsOfBarq["linkingObjects"]
  /\ KindsOfAliases["Date"] = "Date" /\ "ArrayBuffer" \notin DOMAIN KindsOfAliases
  /\ DOMAIN GlobalNames = {"Date", "ArrayBuffer"} /\ "Date" \in DOMAIN Aliases
  /\ DOMAIN Aliases \cap (DOMAIN CollectionAliases \cup {"LinkingObjects"}) = {}
  /\ "LinkingObjects" \notin DOMAIN CollectionAliases
<1>1. DOMAIN Aliases = {"Bool", "String", "Int", "Float", "Double", "Decimal128", "ObjectId", "UUID",
                        "Date", "Data", "Mixed"}
  BY DEF Aliases
<1>2. DOMAIN KindsOfAliases = {"Bool", "String", "Int", "Float", "Double", "Decimal128", "ObjectId", "UUID",
                        "Date", "Data", "Mixed", "List", "Set", "Dictionary", "LinkingObjects"}
  BY DEF KindsOfAliases
<1>3. /\ DOMAIN CollectionAliases = {"List", "Set", "Dictionary"}
      /\ DOMAIN Keywords = {"boolean", "string", "number"}
      /\ DOMAIN GlobalNames = {"Date", "ArrayBuffer"}
  BY DEF CollectionAliases, Keywords, GlobalNames
<1>4. \A n \in DOMAIN Aliases : Aliases[n] \in Scalars /\ KindsOfBarq[Aliases[n]] = KindsOfAliases[n]
  BY <1>1 DEF Aliases, Scalars, KindsOfBarq, KindsOfAliases
<1>5. \A n \in DOMAIN CollectionAliases :
       /\ CollectionAliases[n] \in CollectionTypes /\ KindsOfAliases[n] \in Collected
       /\ KindsOfBarq[CollectionAliases[n]] = KindsOfAliases[n]
  BY <1>3 DEF CollectionAliases, CollectionTypes, Collected, KindsOfBarq, KindsOfAliases
<1>6. \A n \in DOMAIN Keywords : Keywords[n] \in Scalars /\ KindsOfBarq[Keywords[n]] = n
  BY <1>3 DEF Keywords, Scalars, KindsOfBarq
<1>7. \A n \in DOMAIN GlobalNames : GlobalNames[n] \in Scalars /\ KindsOfBarq[GlobalNames[n]] = n
  BY <1>3 DEF GlobalNames, Scalars, KindsOfBarq
<1>8. /\ KindsOfAliases["LinkingObjects"] = KindsOfBarq["linkingObjects"]
      /\ KindsOfAliases["Date"] = "Date"
  BY DEF KindsOfAliases, KindsOfBarq
<1>9. "ArrayBuffer" \notin DOMAIN KindsOfAliases /\ "Date" \in DOMAIN Aliases
  BY <1>1, <1>2
<1>10. DOMAIN Aliases \cup DOMAIN CollectionAliases \cup {"LinkingObjects"} = DOMAIN KindsOfAliases
  BY <1>1, <1>2, <1>3
<1>11. /\ DOMAIN Aliases \cap (DOMAIN CollectionAliases \cup {"LinkingObjects"}) = {}
       /\ "LinkingObjects" \notin DOMAIN CollectionAliases
  BY <1>1, <1>3
<1> QED  BY <1>3, <1>4, <1>5, <1>6, <1>7, <1>8, <1>9, <1>10, <1>11

(* A type without others in it, which is no list of backlinks.             *)
LEMMA LeafType ==
  ASSUME NEW t, IsType(t), t.is # "union",
         KindOf(t) \notin Collected \/ ~IsAlias(t, DOMAIN CollectionAliases),
         NEW isRequired, NEW inner, NEW r, r = TypeFrom(t, isRequired, inner), Found(r),
         isRequired = FALSE \/ ~IsAlias(t, {"LinkingObjects"})
  PROVE  StandsFor(r, t) /\ r.optional = Missing /\ DOMAIN r = Fields /\ t.is # "undefined"
<1>0. \A type : LET b == BarqType(type) IN b.type = type /\ b.objectType = Missing
                                          /\ b.optional = Missing /\ b.property = Missing
                                          /\ DOMAIN b = Fields
  BY DEF BarqType, Fields
<1>1. CASE t.is = "keyword" /\ t.name \in DOMAIN Keywords
  <2>1. r = BarqType(Keywords[t.name]) /\ KindOf(t) = t.name
    BY <1>1 DEF TypeFrom, KindOf
  <2> QED  BY <1>0, <1>1, <2>1, NamesAgree DEF StandsFor
<1>2. CASE t.is = "reference"
  <2>1. r = TypeOfReference(t, isRequired, inner)
    BY <1>2 DEF TypeFrom
  <2>2. CASE IsAlias(t, DOMAIN Aliases)
    <3>1. r = BarqType(Aliases[t.name])
      <4>1. ~IsAlias(t, DOMAIN CollectionAliases) /\ ~IsAlias(t, {"LinkingObjects"})
        BY <2>2, NamesAgree DEF IsAlias
      <4>2. IsAlias(t, DOMAIN Aliases \cup DOMAIN CollectionAliases \cup {"LinkingObjects"})
        BY <2>2 DEF IsAlias
      <4> QED  BY <2>1, <2>2, <4>1, <4>2 DEF TypeOfReference
    <3>2. t.name \in DOMAIN Aliases /\ IsImportedFromBarq(t)
      BY <2>2 DEF IsAlias
    <3>3. KindOf(t) = KindsOfAliases[t.name]
      BY <1>2, <3>2, NamesAgree DEF KindOf
    <3> QED  BY <1>0, <1>2, <3>1, <3>2, <3>3, NamesAgree DEF StandsFor
  <2>3. ~IsAlias(t, DOMAIN CollectionAliases)
    <3> SUFFICES ASSUME IsAlias(t, DOMAIN CollectionAliases) PROVE FALSE
      OBVIOUS
    <3>1. t.name \in DOMAIN CollectionAliases /\ IsImportedFromBarq(t)
      BY DEF IsAlias
    <3>2. KindOf(t) = KindsOfAliases[t.name]
      BY <1>2, <3>1, NamesAgree DEF KindOf
    <3> QED  BY <3>1, <3>2, NamesAgree
  <2>4. ASSUME IsAlias(t, {"LinkingObjects"}), ~IsAlias(t, DOMAIN Aliases) PROVE FALSE
    <3>1. r = LinkingObjects(t, isRequired)
      <4>1. t.name = "LinkingObjects" /\ "LinkingObjects" \notin DOMAIN Aliases
        BY <2>4 DEF IsAlias, Aliases
      <4> QED  BY <2>1, <2>3, <2>4 DEF TypeOfReference, IsAlias
    <3>2. isRequired = FALSE
      BY <2>4
    <3>3. r = Throws
      BY <3>1, <3>2 DEF LinkingObjects
    <3> QED  BY <3>3 DEF Found
  <2>5. CASE ~IsAlias(t, DOMAIN Aliases)
    <3>1. ~IsAlias(t, DOMAIN Aliases \cup DOMAIN CollectionAliases \cup {"LinkingObjects"})
      BY <2>3, <2>4, <2>5 DEF IsAlias
    <3>2. r = IF t.left # "none" THEN Undetermined
              ELSE IF t.name \in DOMAIN GlobalNames THEN BarqType(GlobalNames[t.name])
              ELSE [BarqType("object") EXCEPT !.objectType = t.name]
      BY <2>1, <2>3, <2>4, <2>5, <3>1 DEF TypeOfReference
    <3>3. t.left = "none"
      BY <3>2 DEF Found
    <3>4. t.name \in DOMAIN KindsOfAliases => ~IsImportedFromBarq(t)
      BY <3>1, <3>3, NamesAgree DEF IsAlias
    <3>5. KindOf(t) = t.name
      BY <1>2, <3>4 DEF KindOf
    <3>6. CASE t.name \in DOMAIN GlobalNames
      BY <1>0, <1>2, <3>2, <3>3, <3>5, <3>6, NamesAgree DEF StandsFor
    <3>7. CASE t.name \notin DOMAIN GlobalNames
      <4>1. t.name \in Classes
        BY <1>2, <3>1, <3>3, <3>7 DEF IsType
      <4>2. r = [BarqType("object") EXCEPT !.objectType = t.name]
        BY <3>2, <3>3, <3>7
      <4>3. r.type = "object" /\ r.objectType = t.name /\ r.optional = Missing /\ r.property = Missing
            /\ DOMAIN r = Fields
        BY <4>2 DEF BarqType, Fields
      <4> QED  BY <1>2, <3>5, <4>1, <4>3 DEF StandsFor
    <3> QED  BY <3>6, <3>7
  <2> QED  BY <2>2, <2>5
<1>3. CASE t.is # "reference" /\ ~(t.is = "keyword" /\ t.name \in DOMAIN Keywords)
  <2>1. r = Undetermined
    BY <1>3 DEF TypeFrom
  <2> QED  BY <2>1 DEF Found
<1> QED  BY <1>1, <1>2, <1>3

(* And one that may be a union with undefined.                             *)
LEMMA MaybeType ==
  ASSUME NEW t, IsType(t), \A u \in TypesIn(t) : IsType(u), ~SaysCollection(t),
         NEW further, NEW inner,
         inner = IF HasInner(t) THEN TypeFrom(InnerOf(t), FALSE, further) ELSE Undetermined,
         NEW r, r = TypeFrom(t, FALSE, inner), Found(r)
  PROVE  /\ Present(t) # {} /\ \A m \in Present(t) : StandsFor(r, m)
         /\ r.optional = IF MayBeUndefined(t) THEN TRUE ELSE Missing
<1>1. CASE t.is # "union"
  <2>1. Members(t) = {t}
    BY <1>1 DEF Members
  <2>2. KindOf(t) \in Collected => t.is = "undefined"
    BY <2>1 DEF SaysCollection, Present, Collected
  <2>3. t.is = "undefined" => r = Undetermined
    BY DEF TypeFrom
  <2>4. t.is # "undefined" /\ KindOf(t) \notin Collected
    BY <2>2, <2>3 DEF Found
  <2>5. StandsFor(r, t) /\ r.optional = Missing
    BY <1>1, <2>4, LeafType, Zenon
  <2> QED  BY <2>1, <2>4, <2>5 DEF Present, MayBeUndefined
<1>2. CASE t.is = "union"
  <2> DEFINE types == t.of
             other == OtherMember(types)
             leaf == TypeFrom(other, FALSE, further)
  <2>1. r = TypeOfUnion(t, inner)
    BY <1>2 DEF TypeFrom
  <2>2. MayBeAbsent(t)
    BY <2>1 DEF TypeOfUnion, Found
  <2>3. inner = leaf
    BY <1>2, <2>2 DEF HasInner, InnerOf
  <2>4. Found(leaf) /\ r = [leaf EXCEPT !.optional = TRUE]
    BY <2>1, <2>2, <2>3 DEF TypeOfUnion, Found
  <2>5. types \in Seq(ToSet(types)) /\ Len(types) = 2 /\ AbsentIn(types) # {}
    BY <1>2, <2>2 DEF IsType, MayBeAbsent
  <2>6. DOMAIN types = 1..2 /\ ToSet(types) = {types[1], types[2]}
    BY <2>5 DEF ToSet
  <2>7. types[1].is = "undefined" \/ types[2].is = "undefined"
    BY <2>5, <2>6 DEF AbsentIn
  <2>8. other \in ToSet(types) /\ \A m \in ToSet(types) : m = other \/ m.is = "undefined"
    BY <2>6, <2>7 DEF OtherMember
  <2>9. IsType(other) /\ other.is # "union"
    BY <1>2, <2>8 DEF TypesIn, IsType
  <2>10. Members(t) = ToSet(types)
    BY <1>2 DEF Members
  <2>11. KindOf(other) \in Collected => other.is = "undefined"
    BY <2>8, <2>10 DEF SaysCollection, Present, Collected
  <2>12. other.is = "undefined" => leaf = Undetermined
    BY DEF TypeFrom
  <2>13. other.is # "undefined" /\ KindOf(other) \notin Collected
    BY <2>4, <2>11, <2>12 DEF Found
  <2> HIDE DEF other, leaf, types
  <2>14. StandsFor(leaf, other) /\ DOMAIN leaf = Fields
    BY <2>4, <2>9, <2>13, LeafType, Zenon DEF leaf
  <2>15. r.type = leaf.type /\ r.objectType = leaf.objectType /\ r.property = leaf.property
         /\ r.optional = TRUE
    BY <2>4, <2>14 DEF Fields
  <2>16. StandsFor(r, other)
    BY <2>14, <2>15 DEF StandsFor
  <2>17. Present(t) = {other} /\ MayBeUndefined(t)
    BY <2>6, <2>7, <2>8, <2>10, <2>13 DEF Present, MayBeUndefined
  <2> QED  BY <2>15, <2>16, <2>17
<1> QED  BY <1>1, <1>2

(* What an annotation tells, where a schema can tell it.                   *)
ElementTold(a, r) ==
  LET element == a.args[1]
  IN /\ r.objectType \in Scalars \cup Classes /\ r.property = Missing /\ ~MayBeUndefined(a)
     /\ \A m \in Present(element) : KindOf(m) = StoredKind(r.objectType, r.objectType)
     /\ r.optional = IF MayBeUndefined(element) THEN TRUE ELSE Missing
     /\ MayBeUndefined(element) => r.objectType \notin Classes

BacklinksTold(a, r) ==
  /\ r.objectType \in Classes /\ r.property \notin {Missing, Mistyped}
  /\ r.optional = Missing /\ ~MayBeUndefined(a)

AloneTold(a, r) ==
  /\ \/ r.type \in Scalars /\ r.objectType = Missing
     \/ r.type = "object" /\ r.objectType \in Classes
  /\ r.property = Missing
  /\ r.optional = IF MayBeUndefined(a) THEN TRUE ELSE Missing

AnnotationTold(a, r, isOptional) ==
  /\ Present(a) # {} /\ \A m \in Present(a) : KindOf(m) = StoredKind(r.type, r.objectType)
  /\ \/ AloneTold(a, r)
     \/ r.type = "linkingObjects" /\ ~isOptional /\ BacklinksTold(a, r)
     \/ r.type \in CollectionTypes /\ ~isOptional /\ ElementTold(a, r)

(* A type is stored under the kind it stands for.                          *)
LEMMA StandsAsStored ==
  ASSUME NEW r, NEW t, StandsFor(r, t)
  PROVE  /\ KindOf(t) = StoredKind(r.type, r.objectType)
         /\ LET objectType == IF r.type = "object" THEN r.objectType ELSE r.type
            IN /\ KindOf(t) = StoredKind(objectType, objectType)
               /\ objectType \in Scalars \cup Classes
               /\ objectType \in Classes <=> r.type = "object"
               /\ objectType \in Classes => KindOf(t) \in Classes
<1>1. Scalars \subseteq DOMAIN KindsOfBarq /\ "object" \notin DOMAIN KindsOfBarq /\ "object" \notin Scalars
  BY DEF Scalars, KindsOfBarq
<1>2. Classes \cap DOMAIN KindsOfBarq = {}
  BY SchemasAssumption, PluginAssumption DEF KindsOfBarq, TypeMappings, Primitives, CollectionTypes
<1>3. CASE r.type = "object" /\ r.objectType \in Classes /\ KindOf(t) = r.objectType
  <2>1. r.objectType \notin DOMAIN KindsOfBarq /\ r.objectType # "object"
    BY <1>2, <1>3, SchemasAssumption DEF TypeMappings
  <2> QED  BY <1>1, <1>3, <2>1 DEF StoredKind
<1>4. CASE r.type \in Scalars /\ KindOf(t) = KindsOfBarq[r.type]
  BY <1>1, <1>2, <1>4 DEF StoredKind
<1> QED  BY <1>3, <1>4 DEF StandsFor

LEMMA AnnotationIsTold ==
  ASSUME NEW p, IsClassProperty(p), p.annotation # Missing, ~Untold(p),
         NEW r, r = TypeOf(p.annotation, ~p.optional), Found(r)
  PROVE  AnnotationTold(p.annotation, r, p.optional)
<1> DEFINE a == p.annotation
           further == IF HasInner(InnerOf(a)) THEN TypeOfElement(InnerOf(InnerOf(a))) ELSE Undetermined
           inner == IF HasInner(a) THEN TypeOfMember(InnerOf(a)) ELSE Undetermined
<1>1. r = TypeFrom(a, ~p.optional, inner)
  BY DEF TypeOf
<1>2. /\ IsType(a) /\ \A u \in TypesIn(a) : IsType(u) /\ \A v \in TypesIn(u) : IsType(v)
      /\ p.optional \in BOOLEAN /\ LinksToClass(a)
  BY DEF IsClassProperty
<1>3. inner = IF HasInner(a) THEN TypeFrom(InnerOf(a), FALSE, further) ELSE Undetermined
  BY DEF TypeOfMember
<1>told. SaysCollection(a) =>
           /\ ~p.optional /\ a.is # "union"
           /\ a.args # <<>> /\ TypeOfMember(a.args[1]) # Undetermined /\ ~SaysCollection(a.args[1])
           /\ ~(MayBeUndefined(a.args[1]) /\ \E m \in Present(a.args[1]) : KindOf(m) \in Classes)
  BY DEF Untold
<1>alone. ASSUME NEW m0, a.is # "union" => a.is # "undefined", Present(a) # {},
                 \A m \in Present(a) : StandsFor(r, m),
                 r.optional = IF MayBeUndefined(a) THEN TRUE ELSE Missing
          PROVE  AnnotationTold(a, r, p.optional)
  <2>1. \A m \in Present(a) : KindOf(m) = StoredKind(r.type, r.objectType)
    BY <1>alone, StandsAsStored
  <2>2. PICK m \in Present(a) : StandsFor(r, m)
    BY <1>alone
  <2>3. AloneTold(a, r)
    BY <1>alone, <2>2 DEF AloneTold, StandsFor
  <2> QED  BY <1>alone, <2>1, <2>3 DEF AnnotationTold
<1> HIDE DEF a, further, inner
<1>4. CASE a.is = "union"
  <2>1. ~SaysCollection(a)
    BY <1>told, <1>4
  <2>2. r = TypeFrom(a, FALSE, inner)
    BY <1>1, <1>4 DEF TypeFrom
  <2>3. \A u \in TypesIn(a) : IsType(u)
    BY <1>2
  <2>4. /\ Present(a) # {} /\ \A m \in Present(a) : StandsFor(r, m)
        /\ r.optional = IF MayBeUndefined(a) THEN TRUE ELSE Missing
    BY <1>2, <1>3, <2>1, <2>2, <2>3, MaybeType, Zenon
  <2> QED  BY <1>4, <1>alone, <2>4 DEF a
<1>5. CASE a.is # "union" /\ ~SaysCollection(a) /\ ~IsAlias(a, {"LinkingObjects"})
  <2>1. Members(a) = {a}
    BY <1>5 DEF Members
  <2>2. a.is # "undefined"
    BY <1>1 DEF TypeFrom, Found
  <2>3. KindOf(a) \notin Collected
    BY <1>5, <2>1, <2>2 DEF SaysCollection, Present, Collected
  <2>4. StandsFor(r, a) /\ r.optional = Missing
    BY <1>1, <1>2, <1>5, <2>3, LeafType, Zenon
  <2>5. Present(a) = {a} /\ ~MayBeUndefined(a)
    BY <2>1, <2>2 DEF Present, MayBeUndefined
  <2> QED  BY <1>alone, <2>2, <2>4, <2>5 DEF a
<1>6. CASE a.is # "union" /\ IsAlias(a, {"LinkingObjects"})
  <2>0. Members(a) = {a} /\ a.is # "undefined"
    BY <1>1, <1>6 DEF Members, TypeFrom, Found
  <2>1. Present(a) = {a} /\ ~MayBeUndefined(a)
    BY <2>0 DEF Present, MayBeUndefined
  <2>2. a.is = "reference"
    <3>1. CASE a.is = "keyword"
      <4>1. FALSE
        BY <1>1, <1>6, <3>1 DEF TypeFrom, Found, IsAlias, Keywords
      <4> QED  BY <4>1
    <3> QED  BY <1>1, <1>6, <3>1 DEF TypeFrom, Found
  <2>3. a.name = "LinkingObjects" /\ IsImportedFromBarq(a)
    BY <1>6 DEF IsAlias
  <2>4. r = LinkingObjects(a, ~p.optional)
    <3>1. ~IsAlias(a, DOMAIN Aliases) /\ ~IsAlias(a, DOMAIN CollectionAliases)
      BY <2>3, NamesAgree DEF IsAlias
    <3>2. IsAlias(a, DOMAIN Aliases \cup DOMAIN CollectionAliases \cup {"LinkingObjects"})
      BY <1>6 DEF IsAlias
    <3> QED  BY <1>1, <1>6, <2>2, <3>1, <3>2 DEF TypeFrom, TypeOfReference
  <2>5. /\ ~p.optional /\ Len(a.args) = 2 /\ a.args[1].is = "reference" /\ a.args[2].is = "literal"
        /\ r = [BarqType("linkingObjects") EXCEPT !.objectType = a.args[1].name, !.property = a.args[2].name]
    BY <2>4 DEF LinkingObjects, Found
  <2>6. a.args[1].name \in Classes /\ a.args[2].name \notin {Missing, Mistyped}
    BY <1>2, <2>2, <2>3, <2>5 DEF LinksToClass
  <2>7. /\ r.type = "linkingObjects" /\ r.objectType = a.args[1].name /\ r.property = a.args[2].name
        /\ r.optional = Missing
    BY <2>5 DEF BarqType
  <2>8. KindOf(a) = KindsOfBarq["linkingObjects"]
    BY <2>2, <2>3, NamesAgree DEF KindOf
  <2>9. StoredKind(r.type, r.objectType) = KindsOfBarq["linkingObjects"]
    BY <2>7 DEF StoredKind, KindsOfBarq
  <2>10. BacklinksTold(a, r)
    BY <2>1, <2>6, <2>7 DEF BacklinksTold
  <2> QED  BY <2>1, <2>5, <2>7, <2>8, <2>9, <2>10 DEF AnnotationTold, a
<1>7. CASE a.is # "union" /\ ~IsAlias(a, {"LinkingObjects"}) /\ SaysCollection(a)
  <2>0. Members(a) = {a} /\ a.is # "undefined"
    BY <1>1, <1>7 DEF Members, TypeFrom, Found
  <2>1. Present(a) = {a} /\ ~MayBeUndefined(a) /\ KindOf(a) \in Collected
    BY <1>7, <2>0 DEF Present, MayBeUndefined, SaysCollection, Collected
  <2>2. a.is = "reference"
    <3>1. CASE a.is = "keyword"
      <4>1. a.name \in DOMAIN Keywords
        BY <1>1, <3>1 DEF TypeFrom, Found
      <4>2. KindOf(a) = a.name
        BY <3>1 DEF KindOf
      <4> QED  BY <2>1, <4>1, <4>2 DEF Keywords, Collected
    <3> QED  BY <1>1, <1>7, <3>1 DEF TypeFrom, Found
  <2>3. CASE ~IsAlias(a, DOMAIN CollectionAliases)
    <3>1. StandsFor(r, a) /\ r.optional = Missing
      BY <1>1, <1>2, <1>7, <2>3, LeafType, Zenon
    <3> QED  BY <1>alone, <2>0, <2>1, <3>1 DEF a
  <2>4. CASE IsAlias(a, DOMAIN CollectionAliases)
    <3> DEFINE e == a.args[1]
               type == CollectionAliases[a.name]
               beyond == IF HasInner(e) THEN TypeOfElement(InnerOf(e)) ELSE Undetermined
               deeper == IF HasInner(InnerOf(e)) THEN InnermostType(InnerOf(InnerOf(e))) ELSE Undetermined
    <3>1. r = CollectionOf(type, inner)
      <4>1. ~IsAlias(a, DOMAIN Aliases) /\ ~IsAlias(a, {"LinkingObjects"})
        BY <2>4, NamesAgree DEF IsAlias
      <4>2. IsAlias(a, DOMAIN Aliases \cup DOMAIN CollectionAliases \cup {"LinkingObjects"})
        BY <2>4 DEF IsAlias
      <4> QED  BY <1>1, <2>2, <2>4, <4>1, <4>2 DEF TypeFrom, TypeOfReference
    <3>2. a.args # <<>> /\ TypeOfMember(e) # Undetermined /\ ~SaysCollection(e) /\ ~p.optional
      BY <1>told, <1>7 DEF a
    <3>3. inner = TypeOfMember(e)
      BY <2>2, <3>2 DEF HasInner, InnerOf, inner
    <3>4. inner = TypeFrom(e, FALSE, beyond)
      BY <3>3 DEF TypeOfMember
    <3>5. beyond = IF HasInner(e) THEN TypeFrom(InnerOf(e), FALSE, deeper) ELSE Undetermined
      BY DEF TypeOfElement
    <3>6. IsType(e) /\ \A u \in TypesIn(e) : IsType(u)
      <4>1. a.args \in Seq(ToSet(a.args))
        BY <1>2, <2>2 DEF IsType
      <4>2. 1 \in DOMAIN a.args
        BY <3>2, <4>1
      <4>3. e \in TypesIn(a)
        BY <2>2, <4>2 DEF TypesIn, ToSet
      <4> QED  BY <1>2, <4>3
    <3>7. Found(inner)
      <4>1. inner # Throws
        BY <3>1, NotBoth DEF CollectionOf, Found
      <4> QED  BY <3>2, <3>3, <4>1 DEF Found
    <3>8. ~(MayBeUndefined(e) /\ \E m \in Present(e) : KindOf(m) \in Classes)
      BY <1>told, <1>7 DEF a
    <3>9. a.name \in DOMAIN CollectionAliases /\ IsImportedFromBarq(a)
      BY <2>4 DEF IsAlias
    <3>10. r = [BarqType(type) EXCEPT
                  !.objectType = IF inner.type = "object" THEN inner.objectType ELSE inner.type,
                  !.optional = inner.optional]
      BY <3>1, <3>7 DEF CollectionOf, Found, ElementOptional
    <3> HIDE DEF e, type, beyond, deeper
    <3>11. /\ Present(e) # {} /\ \A m \in Present(e) : StandsFor(inner, m)
           /\ inner.optional = IF MayBeUndefined(e) THEN TRUE ELSE Missing
      BY <3>2, <3>4, <3>5, <3>6, <3>7, MaybeType, Zenon
    <3>12. /\ r.type = type /\ r.optional = inner.optional /\ r.property = Missing
           /\ r.objectType = IF inner.type = "object" THEN inner.objectType ELSE inner.type
      BY <3>10 DEF BarqType
    <3>13. PICK m \in Present(e) : StandsFor(inner, m)
      BY <3>11
    <3>14. /\ r.objectType \in Scalars \cup Classes
           /\ r.objectType \in Classes => KindOf(m) \in Classes
      BY <3>12, <3>13, StandsAsStored
    <3>15. \A n \in Present(e) : KindOf(n) = StoredKind(r.objectType, r.objectType)
      BY <3>11, <3>12, StandsAsStored
    <3>16. ElementTold(a, r)
      BY <2>1, <3>8, <3>11, <3>12, <3>13, <3>14, <3>15 DEF ElementTold, e
    <3>17. type \in CollectionTypes /\ KindsOfBarq[type] = KindsOfAliases[a.name]
      BY <3>9, NamesAgree DEF type
    <3>18. KindOf(a) = KindsOfAliases[a.name]
      BY <2>2, <3>9, NamesAgree DEF KindOf
    <3>19. StoredKind(type, r.objectType) = KindsOfBarq[type]
      BY <3>17 DEF StoredKind, KindsOfBarq, CollectionTypes
    <3> QED  BY <2>1, <3>2, <3>12, <3>16, <3>17, <3>18, <3>19 DEF AnnotationTold, a
  <2> QED  BY <2>3, <2>4
<1> QED  BY <1>4, <1>5, <1>6, <1>7 DEF a

(* An initializer tells as much.                                           *)
LEMMA InitializerIsTold ==
  ASSUME NEW value, value.is = "literal" => value.of \in {"bool", "string", "double"},
         NEW r, r = InferFromInitializer(value), Found(r)
  PROVE  /\ r.type \in Scalars /\ r.objectType = Missing /\ r.property = Missing /\ r.optional = Missing
         /\ StoredKind(r.type, r.objectType) = InitializerKind(value)
<1> DEFINE constructors == {"Decimal128", "ObjectId", "UUID", "Date", "Data"}
           isMember == value.left # "none" /\ value.name \in constructors /\ IsImportedFromBarq(value)
<1>1. \A type : LET b == BarqType(type) IN b.type = type /\ b.objectType = Missing
                                          /\ b.optional = Missing /\ b.property = Missing
  BY DEF BarqType
<1>2. \A type \in Scalars : \A class : StoredKind(type, class) = KindsOfBarq[type]
  BY DEF Scalars, StoredKind, KindsOfBarq
<1>3. CASE value.is = "literal"
  <2>1. r = BarqType(value.of)
    BY <1>3 DEF InferFromInitializer
  <2>2. value.of \in Scalars /\ InitializerKind(value) = KindsOfBarq[value.of]
    BY <1>3 DEF Scalars, InitializerKind
  <2> QED  BY <1>1, <1>2, <2>1, <2>2
<1>4. CASE value.is = "new" /\ isMember
  <2>1. r = BarqType(Aliases[value.name])
    BY <1>4 DEF InferFromInitializer
  <2>2. value.name \in DOMAIN Aliases
    BY <1>4 DEF Aliases
  <2>3. InitializerKind(value) = KindsOfAliases[value.name]
    BY <1>4, <2>2, NamesAgree DEF InitializerKind, KindOf
  <2> QED  BY <1>1, <1>2, <2>1, <2>2, <2>3, NamesAgree
<1>5. CASE value.is = "new" /\ ~isMember
  <2>1. /\ value.left = "none" /\ value.name \in DOMAIN GlobalNames
        /\ r = BarqType(GlobalNames[value.name])
    BY <1>5 DEF InferFromInitializer, Found
  <2>2. value.name \in DOMAIN KindsOfAliases => KindsOfAliases[value.name] = value.name
    BY <2>1, NamesAgree
  <2>3. InitializerKind(value) = value.name
    BY <1>5, <2>2 DEF InitializerKind, KindOf
  <2> QED  BY <1>1, <1>2, <2>1, <2>3, NamesAgree
<1>6. CASE value.is # "literal" /\ value.is # "new"
  <2>1. r = Undetermined
    BY <1>6 DEF InferFromInitializer
  <2> QED  BY <2>1 DEF Found
<1> QED  BY <1>3, <1>4, <1>5, <1>6

(* What a property with a type that was found is, to the schema.           *)
Shaped(q) ==
  /\ q.presentation = Missing /\ q.vector = Missing /\ q.optional \in {TRUE, Missing}
  /\ q.property # Missing <=> q.type = "linkingObjects"
  /\ \/ q.type \in Primitives /\ q.objectType = Missing
     \/ q.type = "object" /\ q.objectType \in Classes
     \/ q.type = "linkingObjects" /\ q.objectType \in Classes /\ q.optional = Missing
     \/ /\ q.type \in CollectionTypes /\ q.objectType \in Primitives \cup Classes
        /\ q.optional = TRUE => q.objectType \notin Classes

LEMMA ShapedIsAllowed ==
  ASSUME NEW q, Shaped(q), NEW isPrimaryKey \in BOOLEAN,
         isPrimaryKey => q.indexed \in {Missing, "indexed"}
  PROVE  /\ Allowed(q, isPrimaryKey)
         /\ Optionality(q) = (q.optional = TRUE \/ IsAlwaysOptional(q.type, q.objectType))
<1>1. {Marked, Missing, "counter"} \cap (TypeMappings \cup Classes) = {} /\ Missing \notin {"counter", Marked}
  BY SchemasAssumption DEF TypeMappings, Primitives, CollectionTypes
<1>2. q.type \in TypeMappings /\ q.objectType \in TypeMappings \cup Classes \cup {Missing}
  BY DEF Shaped, TypeMappings
<1>3. ~UsesShorthand(q)
  BY <1>1, <1>2 DEF UsesShorthand
<1>4. ObjectTypeFits(q)
  BY DEF Shaped, ObjectTypeFits, UserDefined, Primitives, CollectionTypes
<1>5. Missing # "counter" /\ Missing \notin BOOLEAN /\ Missing \notin {"none", "full-text"}
  BY <1>1, SchemasAssumption
<1>6. Primitives \cap UserDefined = {} /\ Missing \notin UserDefined
  BY UserDefinedIsOwn DEF TypeMappings
<1>7. IsNeverOptional(q.type, q.objectType) => q.optional = Missing
  BY <1>6 DEF Shaped, IsNeverOptional, UserDefined, Primitives, CollectionTypes
<1>8. OptionalFits(q)
  BY <1>5, <1>7 DEF OptionalFits, Shaped
<1>9. Allowed(q, isPrimaryKey)
  BY <1>3, <1>4, <1>5, <1>8 DEF Allowed, Shaped, PrimaryKeyFits
<1>10. ~(IsAlwaysOptional(q.type, q.objectType) /\ IsNeverOptional(q.type, q.objectType))
  BY OptionalOnce
<1>11. Optionality(q) = (q.optional = TRUE \/ IsAlwaysOptional(q.type, q.objectType))
  BY <1>5, <1>7, <1>10 DEF Optionality
<1> QED  BY <1>9, <1>11

LEMMA RepresentedTypes ==
  /\ \A type \in Scalars : Represented(type) \in Primitives
  /\ \A type \in Classes \cup {Missing, "object", "linkingObjects"} \cup CollectionTypes :
       Represented(type) = type
<1>1. \A type \in Scalars : Represented(type) \in Primitives
  BY DEF Scalars, Represented, Primitives
<1>2. \A type \in Classes \cup {Missing, "object", "linkingObjects"} \cup CollectionTypes :
        type \notin {"bool", "double", "date", "data"} /\ type \notin {"objectId", "uuid"}
  BY PluginAssumption DEF CollectionTypes
<1>3. \A type : type \notin {"bool", "double", "date", "data"} /\ type \notin {"objectId", "uuid"}
                  => Represented(type) = type
  BY Zenon DEF Represented
<1> QED  BY <1>1, <1>2, <1>3

(* The types are handed to Schemas by their representatives.               *)
LEMMA Represents ==
  ASSUME NEW w, NEW type, NEW objectType, NEW property, NEW optional, NEW default, NEW indexed,
         NEW mapTo, NEW primaryKey, NEW embedded, NEW asymmetric,
         w = [notation |-> "object",
              property |-> [type |-> type, objectType |-> objectType, property |-> property,
                            optional |-> optional, default |-> default, indexed |-> indexed,
                            mapTo |-> mapTo, presentation |-> Missing, vector |-> Missing],
              primaryKey |-> primaryKey, embedded |-> embedded, asymmetric |-> asymmetric],
         NEW d, d = [w EXCEPT !.property.type = Represented(@), !.property.objectType = Represented(@)]
  PROVE  d = [notation |-> "object",
              property |-> [type |-> Represented(type), objectType |-> Represented(objectType),
                            property |-> property, optional |-> optional, default |-> default,
                            indexed |-> indexed, mapTo |-> mapTo, presentation |-> Missing,
                            vector |-> Missing],
              primaryKey |-> primaryKey, embedded |-> embedded, asymmetric |-> asymmetric]
<1> DEFINE p == [type |-> type, objectType |-> objectType, property |-> property,
                 optional |-> optional, default |-> default, indexed |-> indexed,
                 mapTo |-> mapTo, presentation |-> Missing, vector |-> Missing]
           t == Represented(type)
           o == Represented(objectType)
           e == [p EXCEPT !.type = t, !.objectType = o]
<1>1. e = [type |-> t, objectType |-> o, property |-> property, optional |-> optional,
           default |-> default, indexed |-> indexed, mapTo |-> mapTo, presentation |-> Missing,
           vector |-> Missing]
  <2> DEFINE first == [type |-> t, objectType |-> objectType, property |-> property,
                       optional |-> optional, default |-> default, indexed |-> indexed,
                       mapTo |-> mapTo, presentation |-> Missing, vector |-> Missing]
  <2> HIDE DEF t, o
  <2>1. [p EXCEPT !.type = t] = first
    OBVIOUS
  <2>2. e = [[p EXCEPT !.type = t] EXCEPT !.objectType = o]
    OBVIOUS
  <2>3. e = [first EXCEPT !.objectType = o]
    BY <2>1, <2>2
  <2>4. [first EXCEPT !.objectType = o] =
          [type |-> t, objectType |-> o, property |-> property, optional |-> optional,
           default |-> default, indexed |-> indexed, mapTo |-> mapTo, presentation |-> Missing,
           vector |-> Missing]
    OBVIOUS
  <2> QED  BY <2>3, <2>4, Zenon
<1>2. p.type = type /\ p.objectType = objectType
  OBVIOUS
<1>3. w.property = p
  OBVIOUS
<1>4. d = [w EXCEPT !.property = [p EXCEPT !.type = Represented(p.type), !.objectType = Represented(p.objectType)]]
  OBVIOUS
<1>5. d = [w EXCEPT !.property = e]
  BY <1>2, <1>4
<1>6. d = [notation |-> "object", property |-> e, primaryKey |-> primaryKey, embedded |-> embedded,
           asymmetric |-> asymmetric]
  <2> HIDE DEF e
  <2> QED  BY <1>5
<1> QED  BY <1>1, <1>6

(* What a declaration tells of a property, by annotation or initializer.   *)
OptionalTold(p, r) ==
  IF p.annotation # Missing /\ r.type \in CollectionTypes THEN MayBeUndefined(p.annotation.args[1])
  ELSE p.optional \/ (p.annotation # Missing /\ MayBeUndefined(p.annotation))

LEMMA PropertyTold ==
  ASSUME NEW p, IsClassProperty(p), ~Untold(p), NEW r, r = TypeOfProperty(p), Found(r)
  PROVE  /\ p.annotation # Missing => AnnotationTold(p.annotation, r, p.optional)
         /\ p.annotation = Missing =>
              /\ r.type \in Scalars /\ r.objectType = Missing /\ r.property = Missing
              /\ r.optional = Missing
              /\ p.value # Missing /\ StoredKind(r.type, r.objectType) = InitializerKind(p.value)
<1>1. CASE p.annotation # Missing
  <2>1. r = TypeOf(p.annotation, ~p.optional)
    BY <1>1 DEF TypeOfProperty
  <2> QED  BY <1>1, <2>1, AnnotationIsTold, Zenon
<1>2. CASE p.annotation = Missing
  <2>1. p.value # Missing /\ r = InferFromInitializer(p.value)
    BY <1>2 DEF TypeOfProperty, Found
  <2>2. p.value.is = "literal" => p.value.of \in {"bool", "string", "double"}
    BY <2>1 DEF IsClassProperty
  <2>3. /\ r.type \in Scalars /\ r.objectType = Missing /\ r.property = Missing /\ r.optional = Missing
        /\ StoredKind(r.type, r.objectType) = InitializerKind(p.value)
    BY <2>1, <2>2, InitializerIsTold, Zenon
  <2> QED  BY <1>2, <2>1, <2>3
<1> QED  BY <1>1, <1>2

LEMMA PropertyShaped ==
  ASSUME NEW p, IsClassProperty(p), ~Untold(p), NEW r, r = TypeOfProperty(p), Found(r),
         NEW q, q.type = Represented(r.type), q.objectType = Represented(r.objectType),
         q.property = r.property, q.presentation = Missing, q.vector = Missing,
         q.optional = IF p.optional \/ r.optional = TRUE THEN TRUE ELSE Missing
  PROVE  /\ Shaped(q) /\ (q.optional = TRUE <=> OptionalTold(p, r))
         /\ Mistyped \notin {q.type, q.objectType, q.property, q.optional}
<1>1. {Missing, Mistyped} \cap BOOLEAN = {} /\ Missing # Mistyped
  BY SchemasAssumption
<1>2. p.optional \in BOOLEAN
  BY DEF IsClassProperty
<1>3. Mistyped \notin TypeMappings \cup Classes
  BY SchemasAssumption
<1>4. /\ Scalars \cap CollectionTypes = {} /\ {"object", "linkingObjects"} \cap (Scalars \cup CollectionTypes) = {}
      /\ {"object", "linkingObjects"} \cap Primitives = {} /\ Primitives \cap Classes = {}
      /\ Primitives \cap CollectionTypes = {}
  BY SchemasAssumption DEF Scalars, CollectionTypes, Primitives, TypeMappings
<1>5. Mistyped # TRUE /\ Missing # TRUE
  BY <1>1
<1>told. /\ p.annotation # Missing => AnnotationTold(p.annotation, r, p.optional)
         /\ p.annotation = Missing =>
              r.type \in Scalars /\ r.objectType = Missing /\ r.property = Missing /\ r.optional = Missing
  BY PropertyTold, Zenon
<1>6. ASSUME \/ r.type \in Scalars /\ r.objectType = Missing
             \/ r.type = "object" /\ r.objectType \in Classes,
             r.property = Missing,
             r.optional = IF p.annotation # Missing /\ MayBeUndefined(p.annotation) THEN TRUE ELSE Missing
      PROVE  /\ Shaped(q) /\ (q.optional = TRUE <=> OptionalTold(p, r))
             /\ Mistyped \notin {q.type, q.objectType, q.property, q.optional}
  <2>1. \/ q.type \in Primitives /\ q.objectType = Missing
        \/ q.type = "object" /\ q.objectType \in Classes
    BY <1>6, RepresentedTypes
  <2>2. q.type # "linkingObjects"
    BY <1>4, <2>1
  <2>3. Shaped(q)
    BY <1>6, <2>1, <2>2 DEF Shaped
  <2>4. OptionalTold(p, r) <=> p.optional \/ (p.annotation # Missing /\ MayBeUndefined(p.annotation))
    BY <1>4, <1>6 DEF OptionalTold
  <2>5. q.optional = TRUE <=> OptionalTold(p, r)
    BY <1>2, <1>5, <1>6, <2>4
  <2> QED  BY <1>1, <1>3, <1>5, <1>6, <2>1, <2>3, <2>5 DEF TypeMappings
<1>7. CASE p.annotation = Missing
  BY <1>6, <1>7, <1>told
<1>8. CASE p.annotation # Missing /\ AloneTold(p.annotation, r)
  BY <1>6, <1>8 DEF AloneTold
<1>9. CASE /\ p.annotation # Missing /\ r.type = "linkingObjects" /\ ~p.optional
           /\ BacklinksTold(p.annotation, r)
  <2>1. r.objectType \in Classes /\ r.property \notin {Missing, Mistyped} /\ r.optional = Missing
        /\ ~MayBeUndefined(p.annotation)
    BY <1>9 DEF BacklinksTold
  <2>2. q.type = "linkingObjects" /\ q.objectType \in Classes /\ q.optional = Missing
    BY <1>5, <1>9, <2>1, RepresentedTypes
  <2>3. Shaped(q)
    BY <2>1, <2>2 DEF Shaped
  <2>4. ~OptionalTold(p, r)
    BY <1>4, <1>9, <2>1 DEF OptionalTold
  <2> QED  BY <1>1, <1>3, <1>5, <2>1, <2>2, <2>3, <2>4 DEF TypeMappings
<1>10. CASE /\ p.annotation # Missing /\ r.type \in CollectionTypes /\ ~p.optional
            /\ ElementTold(p.annotation, r)
  <2> DEFINE e == p.annotation.args[1]
  <2>1. /\ r.objectType \in Scalars \cup Classes /\ r.property = Missing
        /\ r.optional = IF MayBeUndefined(e) THEN TRUE ELSE Missing
        /\ MayBeUndefined(e) => r.objectType \notin Classes
    BY <1>10 DEF ElementTold
  <2>2. OptionalTold(p, r) <=> MayBeUndefined(e)
    BY <1>10 DEF OptionalTold
  <2> HIDE DEF e
  <2>3. q.type = r.type /\ q.objectType \in Primitives \cup Classes
    BY <1>10, <2>1, RepresentedTypes
  <2>4. q.optional = TRUE <=> MayBeUndefined(e)
    BY <1>5, <1>10, <2>1
  <2>5. MayBeUndefined(e) => q.objectType \notin Classes
    BY <1>4, <2>1, RepresentedTypes
  <2>6. q.type # "linkingObjects" /\ q.optional \in {TRUE, Missing}
    BY <1>4, <1>10, <2>3
  <2>7. Shaped(q)
    BY <1>10, <2>1, <2>3, <2>4, <2>5, <2>6 DEF Shaped
  <2> QED  BY <1>1, <1>3, <1>5, <1>10, <2>1, <2>2, <2>3, <2>4, <2>6, <2>7 DEF TypeMappings
<1> QED  BY <1>7, <1>8, <1>9, <1>10, <1>told DEF AnnotationTold

(* Decorators.                                                             *)
LEMMA DecoratorsTold ==
  ASSUME NEW p, IsClassProperty(p)
  PROVE  /\ Indexed(p.decorators) \in {Missing, "indexed", "full-text"}
         /\ Indexed(p.decorators) = Missing <=>
              \A d \in p.decorators : d.name # "index" \/ d.from \notin Packages
         /\ MapTo(p.decorators) # Mistyped
         /\ \A d \in p.decorators : d.name = "mapTo" /\ d.from \in Packages =>
              MapTo(p.decorators) = d.arg /\ d.arg # Missing
<1> DEFINE D == p.decorators
           calls == DecoratorsNamed(D, "index", TRUE)
           marks == DecoratorsNamed(D, "index", FALSE)
           names == DecoratorsNamed(D, "mapTo", TRUE)
<1>0. /\ \A d \in D : IsDecorator(d)
      /\ \A d, e \in D : d.name = "mapTo" /\ e.name = "mapTo" => d = e
  BY DEF IsClassProperty
<1>1. /\ \A d : d \in calls <=> d \in D /\ d.name = "index" /\ d.called = TRUE /\ d.from \in Packages
      /\ \A d : d \in marks <=> d \in D /\ d.name = "index" /\ d.called = FALSE /\ d.from \in Packages
      /\ \A d : d \in names <=> d \in D /\ d.name = "mapTo" /\ d.called = TRUE /\ d.from \in Packages
  BY DEF DecoratorsNamed, IsImportedFromBarq
<1>2. Missing \notin {"indexed", "full-text"} /\ Mistyped # Missing
  BY SchemasAssumption
<1> HIDE DEF calls, marks, names
<1>3. calls # {} => ArgumentOf(calls) \in {"indexed", "full-text"}
  BY <1>0, <1>1 DEF ArgumentOf, IsDecorator
<1>4. calls = {} => ArgumentOf(calls) = Missing
  BY DEF ArgumentOf
<1>5. Indexed(D) = IF calls # {} THEN ArgumentOf(calls) ELSE IF marks # {} THEN "indexed" ELSE Missing
  BY <1>2, <1>3, <1>4 DEF Indexed, calls, marks
<1>6. \A d \in D : d.name = "index" /\ d.from \in Packages => d \in calls \/ d \in marks
  BY <1>0, <1>1 DEF IsDecorator
<1>7. MapTo(D) = ArgumentOf(names)
  BY DEF MapTo, names
<1>8. names = {} => MapTo(D) = Missing
  BY <1>7 DEF ArgumentOf
<1>9. \A d \in names : MapTo(D) = d.arg /\ d.arg \notin {Missing, Mistyped}
  <2> SUFFICES ASSUME NEW d \in names PROVE MapTo(D) = d.arg /\ d.arg \notin {Missing, Mistyped}
    OBVIOUS
  <2>1. \A e \in names : e = d
    BY <1>0, <1>1
  <2>2. MapTo(D) = d.arg
    BY <1>7, <2>1 DEF ArgumentOf
  <2> QED  BY <1>0, <1>1, <2>2 DEF IsDecorator
<1>10. \A d \in D : d.name = "mapTo" /\ d.from \in Packages => d \in names
  BY <1>0, <1>1 DEF IsDecorator
<1> QED  BY <1>1, <1>2, <1>3, <1>5, <1>6, <1>8, <1>9, <1>10

LEMMA ClassIsKept == IsClassProperty(classProperty) => PluginKeepsTypes
<1> DEFINE p == classProperty
           written == Visit(p)
           property == written.property
           canonical == CanonicalOf(written)
           annotated == p.annotation # Missing
           kind == StoredKind(property.type, property.objectType)
           isCollection == property.type \in CollectionTypes
           always == IsAlwaysOptional(Represented(property.type), Represented(property.objectType))
           element == p.annotation.args[1]
           optional ==
             IF annotated /\ isCollection THEN MayBeUndefined(element)
             ELSE p.optional \/ (annotated /\ MayBeUndefined(p.annotation))
           t == TypeOfProperty(p)
           isOptional == IF p.optional \/ t.optional = TRUE THEN TRUE ELSE Missing
           primaryKey == Static(p.statics, "primaryKey")
           isPrimaryKey == primaryKey = PropertyName
           made == [type |-> t.type, objectType |-> t.objectType, property |-> t.property,
                    optional |-> isOptional, default |-> DefaultOf(p.value),
                    indexed |-> Indexed(p.decorators), mapTo |-> MapTo(p.decorators),
                    presentation |-> Missing, vector |-> Missing]
           q == [type |-> Represented(t.type), objectType |-> Represented(t.objectType),
                 property |-> t.property, optional |-> isOptional, default |-> DefaultOf(p.value),
                 indexed |-> Indexed(p.decorators), mapTo |-> MapTo(p.decorators),
                 presentation |-> Missing, vector |-> Missing]
           index == IF isPrimaryKey THEN "indexed" ELSE IF q.indexed = Missing THEN "none" ELSE q.indexed
           c == NormalizeProperty(q, isPrimaryKey)
<1> SUFFICES ASSUME IsClassProperty(p), p # <<>>, written \notin {Undetermined, Throws, LeftAlone},
                    ~Untold(p),
                    ~(Indexed(p.decorators) = "full-text" /\ "primaryKey" \in DOMAIN p.statics)
             PROVE  /\ canonical # Rejected
                    /\ annotated => Present(p.annotation) # {} /\ \A m \in Present(p.annotation) : KindOf(m) = kind
                    /\ ~annotated => kind = InitializerKind(p.value)
                    /\ annotated /\ isCollection =>
                         \A m \in Present(element) : KindOf(m) = StoredKind(property.objectType, property.objectType)
                    /\ canonical.property.optional = (optional \/ always)
                    /\ (canonical.property.default = Missing) = (p.value = Missing)
                    /\ (canonical.property.indexed = "none") =
                         (canonical.primaryKey = Missing
                            /\ \A d \in p.decorators : d.name # "index" \/ d.from \notin Packages)
                    /\ \A d \in p.decorators :
                         d.name = "mapTo" /\ d.from \in Packages => canonical.property.mapTo = d.arg
                    /\ canonical.primaryKey = Static(p.statics, "primaryKey")
                    /\ canonical.embedded = (Static(p.statics, "embedded") = TRUE)
  BY DEF PluginKeepsTypes
<1>1. VisitProperty(p) \notin {Undetermined, Throws} /\ written =
        [notation |-> "object", property |-> VisitProperty(p), primaryKey |-> primaryKey,
         embedded |-> Static(p.statics, "embedded"), asymmetric |-> Static(p.statics, "asymmetric")]
  BY DEF Visit, VisitClass
<1>2. Found(t) /\ VisitProperty(p) = made
  BY <1>1 DEF VisitProperty, Found
<1>3. written = [notation |-> "object", property |-> made, primaryKey |-> primaryKey,
         embedded |-> Static(p.statics, "embedded"), asymmetric |-> Static(p.statics, "asymmetric")]
  BY <1>1, <1>2
<1> HIDE DEF t, isOptional, primaryKey, c, index
<1>4. property.type = t.type /\ property.objectType = t.objectType
  <2>1. property = made
    BY <1>3
  <2> QED  BY <2>1
<1> DEFINE d == [written EXCEPT !.property.type = Represented(@), !.property.objectType = Represented(@)]
<1>5. canonical = NormalizeObject(d)
  BY DEF CanonicalOf
<1> HIDE DEF written
<1>6. d = [notation |-> "object", property |-> q, primaryKey |-> primaryKey,
           embedded |-> Static(p.statics, "embedded"), asymmetric |-> Static(p.statics, "asymmetric")]
  <2> DEFINE embedded == Static(p.statics, "embedded")  asymmetric == Static(p.statics, "asymmetric")
             default == DefaultOf(p.value)  indexed == Indexed(p.decorators)  mapTo == MapTo(p.decorators)
             type == t.type  objectType == t.objectType  link == t.property
  <2>1. written = [notation |-> "object",
                   property |-> [type |-> type, objectType |-> objectType, property |-> link,
                                 optional |-> isOptional, default |-> default, indexed |-> indexed,
                                 mapTo |-> mapTo, presentation |-> Missing, vector |-> Missing],
                   primaryKey |-> primaryKey, embedded |-> embedded, asymmetric |-> asymmetric]
    BY <1>3
  <2>2. d = [written EXCEPT !.property.type = Represented(@), !.property.objectType = Represented(@)]
    OBVIOUS
  <2> HIDE DEF embedded, asymmetric, default, indexed, mapTo, type, objectType, link, d
  <2>3. d = [notation |-> "object",
             property |-> [type |-> Represented(type), objectType |-> Represented(objectType),
                           property |-> link, optional |-> isOptional, default |-> default,
                           indexed |-> indexed, mapTo |-> mapTo, presentation |-> Missing,
                           vector |-> Missing],
             primaryKey |-> primaryKey, embedded |-> embedded, asymmetric |-> asymmetric]
    BY <2>1, <2>2, Represents, ZenonT(30)
  <2> QED  BY <2>3 DEF embedded, asymmetric, default, indexed, mapTo, type, objectType, link
<1>7. /\ q.type = Represented(t.type) /\ q.objectType = Represented(t.objectType)
      /\ q.property = t.property /\ q.optional = isOptional /\ q.default = DefaultOf(p.value)
      /\ q.indexed = Indexed(p.decorators) /\ q.mapTo = MapTo(p.decorators)
      /\ q.presentation = Missing /\ q.vector = Missing
      /\ DOMAIN q = {"type", "objectType", "property", "optional", "default", "indexed", "mapTo",
                     "presentation", "vector"}
  OBVIOUS
<1> HIDE DEF q, d
<1>8. /\ Shaped(q) /\ (q.optional = TRUE <=> OptionalTold(p, t))
      /\ Mistyped \notin {q.type, q.objectType, q.property, q.optional}
  BY <1>2, <1>7, PropertyShaped DEF t, isOptional
<1>9. /\ annotated => AnnotationTold(p.annotation, t, p.optional)
      /\ ~annotated =>
           /\ t.type \in Scalars /\ t.objectType = Missing /\ t.property = Missing /\ t.optional = Missing
           /\ p.value # Missing /\ StoredKind(t.type, t.objectType) = InitializerKind(p.value)
  BY <1>2, PropertyTold, Zenon DEF t
<1>10. /\ Indexed(p.decorators) \in {Missing, "indexed", "full-text"}
       /\ Indexed(p.decorators) = Missing <=>
            \A e \in p.decorators : e.name # "index" \/ e.from \notin Packages
       /\ MapTo(p.decorators) # Mistyped
       /\ \A e \in p.decorators : e.name = "mapTo" /\ e.from \in Packages =>
            MapTo(p.decorators) = e.arg /\ e.arg # Missing
  BY DecoratorsTold
<1>11. /\ Missing \notin {PropertyName, "indexed", "none", "full-text"} /\ Mistyped # Missing
       /\ Mistyped \notin {PropertyName, "indexed", "none", "full-text"}
       /\ {Missing, Mistyped} \cap BOOLEAN = {} /\ {Missing, Mistyped} \cap {"value", "function"} = {}
  BY SchemasAssumption, PluginAssumption
<1>12. DefaultOf(p.value) \in {Missing, "value", "function"} /\ (DefaultOf(p.value) = Missing <=> p.value = Missing)
  BY <1>11 DEF DefaultOf
<1>13. /\ primaryKey \in {Missing, PropertyName} /\ (isPrimaryKey => "primaryKey" \in DOMAIN p.statics)
       /\ Static(p.statics, "embedded") # Mistyped /\ Static(p.statics, "asymmetric") # Mistyped
  BY <1>11 DEF IsClassProperty, Static, primaryKey
<1>14. isPrimaryKey => q.indexed \in {Missing, "indexed"}
  BY <1>7, <1>10, <1>13
<1>15. /\ Allowed(q, isPrimaryKey)
       /\ Optionality(q) = (q.optional = TRUE \/ IsAlwaysOptional(q.type, q.objectType))
  BY <1>8, <1>14, ShapedIsAllowed
<1>16. c = Canonical(q.type, q.objectType, q.presentation, q.property, Optionality(q), index,
                     IF q.mapTo = Missing THEN PropertyName ELSE q.mapTo, q.default, FillVector(q.vector))
  BY <1>15 DEF NormalizeProperty, c, index
<1>17. /\ c.optional = Optionality(q) /\ c.indexed = index /\ c.default = q.default
       /\ c.mapTo = (IF q.mapTo = Missing THEN PropertyName ELSE q.mapTo) /\ c # Rejected
  BY <1>16, CanonicalFields
<1>18. /\ d.notation = "object" /\ d.property = q /\ d.primaryKey = primaryKey
       /\ d.embedded = Static(p.statics, "embedded") /\ d.asymmetric = Static(p.statics, "asymmetric")
  BY <1>6
<1>19. ValidatesObject(d)
  <2>1. ValidatesProperty(q)
    BY <1>7, <1>8, <1>10, <1>11, <1>12 DEF ValidatesProperty
  <2>2. primaryKey # Mistyped
    BY <1>11, <1>13
  <2> QED  BY <1>13, <1>18, <2>1, <2>2 DEF ValidatesObject
<1>20. canonical = [primaryKey |-> primaryKey, embedded |-> Static(p.statics, "embedded") = TRUE,
                    asymmetric |-> Static(p.statics, "asymmetric") = TRUE, property |-> c]
  BY <1>5, <1>13, <1>17, <1>18, <1>19 DEF NormalizeObject, c
<1> HIDE DEF canonical
<1>21. /\ canonical.primaryKey = primaryKey /\ canonical.property = c
       /\ canonical.embedded = (Static(p.statics, "embedded") = TRUE)
  BY <1>20
<1>22. canonical # Rejected
  <2>1. "property" \in DOMAIN canonical /\ "property" \notin DOMAIN Rejected
    BY <1>20 DEF Rejected
  <2> QED  BY <2>1
<1>23. canonical.property.optional = (optional \/ always)
  <2>1. optional <=> OptionalTold(p, t)
    BY <1>4 DEF OptionalTold
  <2>2. always <=> IsAlwaysOptional(q.type, q.objectType)
    BY <1>4, <1>7
  <2>3. optional \in BOOLEAN
    BY DEF IsClassProperty, MayBeUndefined
  <2>4. always \in BOOLEAN /\ IsAlwaysOptional(q.type, q.objectType) \in BOOLEAN
    BY DEF IsAlwaysOptional
  <2> QED  BY <1>8, <1>15, <1>17, <1>21, <2>1, <2>2, <2>3, <2>4
<1>24. (canonical.property.indexed = "none") =
         (canonical.primaryKey = Missing /\ \A e \in p.decorators : e.name # "index" \/ e.from \notin Packages)
  BY <1>7, <1>10, <1>11, <1>13, <1>17, <1>21 DEF index
<1>25. \A e \in p.decorators : e.name = "mapTo" /\ e.from \in Packages => canonical.property.mapTo = e.arg
  BY <1>7, <1>10, <1>17, <1>21
<1>26. (canonical.property.default = Missing) = (p.value = Missing)
  BY <1>7, <1>12, <1>17, <1>21
<1>27. /\ annotated => Present(p.annotation) # {} /\ \A m \in Present(p.annotation) : KindOf(m) = kind
       /\ ~annotated => kind = InitializerKind(p.value)
  BY <1>4, <1>9 DEF AnnotationTold
<1>28. annotated /\ isCollection =>
         \A m \in Present(element) : KindOf(m) = StoredKind(property.objectType, property.objectType)
  <2>1. "linkingObjects" \notin CollectionTypes /\ "object" \notin CollectionTypes
        /\ Scalars \cap CollectionTypes = {}
    BY DEF CollectionTypes, Scalars
  <2> QED  BY <1>4, <1>9, <2>1 DEF AnnotationTold, AloneTold, ElementTold
<1> QED  BY <1>21, <1>22, <1>23, <1>24, <1>25, <1>26, <1>27, <1>28 DEF primaryKey

(* What the plugin writes of a class is accepted and says of the property  *)
(* what TypeScript does (plugin/index.ts), for all classes and properties  *)
(* that a schema can tell.                                                 *)
THEOREM PluginKeeps == PluginSpec => []PluginKeepsTypes
<1>1. PluginInit => IsClassProperty(classProperty)
  BY PluginAssumption DEF PluginInit
<1>2. IsClassProperty(classProperty) /\ UNCHANGED classProperty => IsClassProperty(classProperty)'
  BY DEF IsClassProperty
<1> QED  BY <1>1, <1>2, ClassIsKept, PTL DEF PluginSpec

-----------------------------------------------------------------------------
(***************************************************************************)
(* The vector indexes, for any number of processes, properties and         *)
(* schemas.                                                                *)
(*                                                                         *)
(* The read pass decides on a version of the file that is out of date when *)
(* the transaction begins.  The argument is that this can only make the    *)
(* decision fail, never wrong: the shape of an index that is in the file   *)
(* never changes (Monotone), so whatever the read pass found fitting still *)
(* fits (Decided), and what it left to write is either written by the      *)
(* transaction in the declared shape or clashes and fails it.              *)
(***************************************************************************)


\* A transaction adds indexes to those in the file and reshapes none.
Monotone ==
  writer # Nobody =>
    \A x \in Properties : file[x] # NoIndex =>
      pending[x] # NoIndex /\ pending[x].shape = file[x].shape

\* Only a process that may write gets past the read pass; it writes what its
\* schema declares.
WritersDeclare ==
  \A p \in Processes : phase[p] \in {"begin", "writing", "failing"} =>
    p \notin readOnly /\ \A x \in toCreate[p] : Declares(p, x)

\* Every declared index was found by the read pass or is still to be written ...
Decided ==
  \A p \in Processes : phase[p] = "begin" =>
    \A x \in Properties : Declares(p, x) => x \in toCreate[p] \/ Fits(p, x, file)

\* ... and in the transaction it is there or is still to be written.
Written ==
  \A p \in Processes : phase[p] = "writing" =>
    \A x \in Properties : Declares(p, x) =>
      x \in toCreate[p] \ done[p] \/ Fits(p, x, pending)

IInv ==
  /\ TypeOK
  /\ LockHeldInTransaction
  /\ OpenIndexesFit
  /\ Monotone
  /\ WritersDeclare
  /\ Decided
  /\ Written

\* An index a schema declares has a shape, and the properties are indexed.
LEMMA DeclaredFacts ==
  ASSUME TypeOK
  PROVE  /\ \A p \in Processes : declared[p] \in Indexes
         /\ \A p \in Processes, x \in Properties : declared[p][x] \in Index \cup {NoIndex}
  BY VectorIndexesAssumption DEF TypeOK, Indexes

\* The initial states satisfy the invariant.
LEMMA InitIInv == Init => IInv
  <1> SUFFICES ASSUME Init PROVE IInv
    OBVIOUS
  <1> USE DEF Init
  <1>1. TypeOK
    BY VectorIndexesAssumption DEF TypeOK, Phases
  <1>2. LockHeldInTransaction
    BY VectorIndexesAssumption DEF LockHeldInTransaction
  <1>3. OpenIndexesFit
    BY DEF OpenIndexesFit
  <1>4. Monotone /\ WritersDeclare /\ Decided /\ Written
    BY DEF Monotone, WritersDeclare, Decided, Written
  <1> QED
    BY <1>1, <1>2, <1>3, <1>4 DEF IInv

\* When the file becomes the pending indexes, what fitted the file still fits.
LEMMA FitsPersists ==
  ASSUME TypeOK, Monotone, writer # Nobody,
         NEW p \in Processes, NEW x \in Properties, Fits(p, x, file)
  PROVE  Fits(p, x, pending)
  BY DEF Monotone, Fits

\* Every action of a process preserves the invariant.
LEMMA ReadPassIInv ==
  ASSUME IInv, NEW p \in Processes, ReadPass(p)
  PROVE  IInv'
  <1> DEFINE wanted == {x \in Properties : Declares(p, x)}
             writes == {x \in wanted : NeedsWrite(p, x, file)}
  <1> USE DEF IInv
  <1>0. /\ phase[p] = "closed"
        /\ UNCHANGED <<declared, readOnly, done, file, writer, pending, crashes>>
        /\ phase' = [phase EXCEPT ![p] = phase'[p]]
        /\ phase'[p] \in {"open", "failed", "begin"}
        /\ toCreate' = [toCreate EXCEPT ![p] = toCreate'[p]]
        /\ toCreate'[p] \subseteq Properties
        /\ phase'[p] = "begin" => p \notin readOnly /\ toCreate'[p] = writes
        /\ phase'[p] = "open" => p \in readOnly \/ writes = {}
        /\ phase'[p] \in {"open", "begin"} =>
             p \in readOnly \/ ~\E x \in wanted : Clashes(p, x, file)
    BY DEF ReadPass, TypeOK
  <1>1. TypeOK'
    BY <1>0 DEF TypeOK, Phases
  <1>2. \A x \in wanted : ~Clashes(p, x, file) /\ x \notin writes => Fits(p, x, file)
    BY DEF Clashes, Fits, NeedsWrite, Declares
  <1>3. LockHeldInTransaction'
    BY <1>0 DEF LockHeldInTransaction, TypeOK
  <1>4. OpenIndexesFit'
    BY <1>0, <1>2 DEF OpenIndexesFit, Fits, Declares, TypeOK
  <1>5. Monotone'
    BY <1>0 DEF Monotone
  <1>6. WritersDeclare'
    BY <1>0 DEF WritersDeclare, Declares, TypeOK
  <1>7. Decided'
    BY <1>0, <1>2 DEF Decided, Fits, Declares, TypeOK
  <1>8. Written'
    BY <1>0 DEF Written, Fits, Declares, TypeOK
  <1> QED
    BY <1>1, <1>3, <1>4, <1>5, <1>6, <1>7, <1>8

LEMMA BeginTransactionIInv ==
  ASSUME IInv, NEW p \in Processes, BeginTransaction(p)
  PROVE  IInv'
  <1> USE DEF IInv
  <1>0. /\ phase[p] = "begin" /\ phase' = [phase EXCEPT ![p] = "writing"]
        /\ writer = Nobody /\ writer' = p /\ pending' = file
        /\ done' = [done EXCEPT ![p] = {}]
        /\ UNCHANGED <<declared, readOnly, toCreate, file, crashes>>
    BY DEF BeginTransaction
  <1>1. TypeOK'
    BY <1>0 DEF TypeOK, Phases
  <1>2. LockHeldInTransaction'
    BY <1>0, VectorIndexesAssumption DEF LockHeldInTransaction, TypeOK
  <1>3. OpenIndexesFit'
    BY <1>0 DEF OpenIndexesFit, Fits, Declares, TypeOK
  <1>4. Monotone'
    BY <1>0 DEF Monotone
  <1>5. WritersDeclare'
    BY <1>0 DEF WritersDeclare, Declares, TypeOK
  <1>6. Decided'
    BY <1>0 DEF Decided, Fits, Declares, TypeOK
  <1>7. Written'
    <2>1. \A q \in Processes : q # p => phase'[q] # "writing"
      BY <1>0, VectorIndexesAssumption DEF LockHeldInTransaction, TypeOK
    <2>2. \A x \in Properties : Declares(p, x) => x \in toCreate[p] \/ Fits(p, x, file)
      BY <1>0 DEF Decided
    <2>3. done'[p] = {}
      BY <1>0 DEF TypeOK
    <2> QED
      BY <1>0, <2>1, <2>2, <2>3 DEF Written, Fits, Declares
  <1> QED
    BY <1>1, <1>2, <1>3, <1>4, <1>5, <1>6, <1>7

LEMMA AddVectorIndexIInv ==
  ASSUME IInv, NEW p \in Processes, NEW x \in Properties, AddVectorIndex(p, x)
  PROVE  IInv'
  <1> USE DEF IInv
  <1>0. /\ phase[p] = "writing" /\ writer = p /\ p # Nobody
        /\ x \in toCreate[p] \ done[p] /\ Declares(p, x)
        /\ UNCHANGED <<declared, readOnly, toCreate, file, writer, crashes>>
    BY VectorIndexesAssumption DEF AddVectorIndex, LockHeldInTransaction, WritersDeclare
  <1>1. CASE Clashes(p, x, pending)
    <2>1. phase' = [phase EXCEPT ![p] = "failing"] /\ UNCHANGED <<pending, done>>
      BY <1>1 DEF AddVectorIndex
    <2>2. TypeOK'
      BY <1>0, <2>1 DEF TypeOK, Phases
    <2>3. LockHeldInTransaction'
      BY <1>0, <2>1 DEF LockHeldInTransaction, TypeOK
    <2>4. OpenIndexesFit' /\ Decided' /\ Written'
      BY <1>0, <2>1 DEF OpenIndexesFit, Decided, Written, Fits, Declares, TypeOK
    <2>5. Monotone' /\ WritersDeclare'
      BY <1>0, <2>1 DEF Monotone, WritersDeclare, Declares, TypeOK
    <2> QED
      BY <2>2, <2>3, <2>4, <2>5
  <1>2. CASE ~Clashes(p, x, pending)
    <2>1. /\ pending' = [pending EXCEPT ![x] = declared[p][x]]
          /\ done' = [done EXCEPT ![p] = @ \cup {x}]
          /\ UNCHANGED phase
      BY <1>2 DEF AddVectorIndex
    <2>2. declared[p][x] \in Index /\ pending \in [Properties -> Index \cup {NoIndex}]
      BY <1>0, DeclaredFacts DEF TypeOK, Declares, Indexes
    <2>3. TypeOK'
      BY <1>0, <2>1, <2>2 DEF TypeOK, Indexes
    <2>4. LockHeldInTransaction' /\ OpenIndexesFit' /\ WritersDeclare' /\ Decided'
      BY <1>0, <2>1
      DEF LockHeldInTransaction, OpenIndexesFit, WritersDeclare, Decided, Fits, Declares
    <2>5. Monotone'
      BY <1>0, <1>2, <2>1, <2>2, VectorIndexesAssumption DEF Monotone, Clashes, Declares
    <2>6. Fits(p, x, pending')
      BY <1>0, <2>1, <2>2 DEF Fits, Declares
    <2>7. Written'
      <3>1. \A q \in Processes : phase'[q] = "writing" => q = p
        BY <1>0, <2>1 DEF LockHeldInTransaction
      <3>2. \A y \in Properties : y # x => pending'[y] = pending[y]
        BY <2>1, <2>2
      <3>3. done'[p] = done[p] \cup {x}
        BY <2>1 DEF TypeOK
      <3>4. \A y \in Properties : Declares(p, y) =>
              y \in toCreate[p] \ done'[p] \/ Fits(p, y, pending')
        BY <1>0, <2>6, <3>2, <3>3 DEF Written, Fits
      <3> QED
        BY <1>0, <3>1, <3>4 DEF Written, Fits, Declares
    <2> QED
      BY <2>3, <2>4, <2>5, <2>7
  <1> QED
    BY <1>1, <1>2

LEMMA CommitTransactionIInv ==
  ASSUME IInv, NEW p \in Processes, CommitTransaction(p)
  PROVE  IInv'
  <1> USE DEF IInv
  <1>0. /\ phase[p] = "writing" /\ writer = p /\ p # Nobody /\ p \notin readOnly
        /\ done[p] = toCreate[p]
        /\ UNCHANGED <<declared, readOnly, toCreate, done, pending, crashes>>
    BY VectorIndexesAssumption DEF CommitTransaction, LockHeldInTransaction, WritersDeclare
  <1>1. CASE /\ file' = pending /\ writer' = Nobody
             /\ phase' = [phase EXCEPT ![p] = "open"]
    <2>1. TypeOK'
      BY <1>0, <1>1 DEF TypeOK, Phases
    <2>2. LockHeldInTransaction'
      BY <1>0, <1>1, VectorIndexesAssumption DEF LockHeldInTransaction, TypeOK
    <2>3. \A q \in Processes, x \in Properties : Fits(q, x, file) => Fits(q, x, file')
      BY <1>0, <1>1, FitsPersists
    <2>4. \A x \in Properties : Declares(p, x) => Fits(p, x, file')
      BY <1>0, <1>1 DEF Written
    <2>5. \A q \in Processes : q # p => phase'[q] = phase[q]
      BY <1>1 DEF TypeOK
    <2>6. \A q \in Processes, x \in Properties : Fits(q, x, file)' <=> Fits(q, x, file')
      BY <1>0 DEF Fits
    <2>7. OpenIndexesFit'
      BY <1>0, <2>3, <2>4, <2>5, <2>6 DEF OpenIndexesFit, Declares
    <2>8. Decided'
      <3>1. phase'[p] = "open"
        BY <1>1 DEF TypeOK
      <3> QED
        BY <1>0, <2>3, <2>5, <2>6, <3>1 DEF Decided, Declares
    <2>9. Written' /\ Monotone' /\ WritersDeclare'
      BY <1>0, <1>1, <2>2 DEF Written, Monotone, WritersDeclare, LockHeldInTransaction,
                               TypeOK, Declares, Fits
    <2> QED
      BY <2>1, <2>2, <2>7, <2>8, <2>9
  <1>2. CASE phase' = [phase EXCEPT ![p] = "failing"] /\ UNCHANGED <<file, writer>>
    <2>1. TypeOK'
      BY <1>0, <1>2 DEF TypeOK, Phases
    <2>2. LockHeldInTransaction' /\ OpenIndexesFit'
      BY <1>0, <1>2 DEF LockHeldInTransaction, OpenIndexesFit, TypeOK, Fits, Declares
    <2>3. Monotone' /\ WritersDeclare' /\ Decided' /\ Written'
      BY <1>0, <1>2 DEF Monotone, WritersDeclare, Decided, Written, TypeOK, Fits, Declares
    <2> QED
      BY <2>1, <2>2, <2>3
  <1> QED
    BY <1>1, <1>2 DEF CommitTransaction

\* cancelTransaction() and a crash release the lock and leave the file alone.
LEMMA GivesUpIInv ==
  ASSUME IInv, NEW p \in Processes, CancelTransaction(p) \/ Crash(p)
  PROVE  IInv'
  <1> USE DEF IInv
  <1>0. /\ phase' = [phase EXCEPT ![p] = phase'[p]]
        /\ phase'[p] \in {"failed", "closed"}
        /\ writer' = IF writer = p THEN Nobody ELSE writer
        /\ crashes' \in 0 .. MaxCrashes
        /\ UNCHANGED <<declared, readOnly, toCreate, done, file, pending>>
    BY VectorIndexesAssumption
    DEF CancelTransaction, Crash, TypeOK, LockHeldInTransaction
  <1>1. TypeOK'
    BY <1>0 DEF TypeOK, Phases
  <1>2. LockHeldInTransaction'
    BY <1>0, VectorIndexesAssumption DEF LockHeldInTransaction, TypeOK
  <1>3. OpenIndexesFit' /\ Decided' /\ Written'
    BY <1>0 DEF OpenIndexesFit, Decided, Written, TypeOK, Fits, Declares
  <1>4. Monotone' /\ WritersDeclare'
    BY <1>0 DEF Monotone, WritersDeclare, TypeOK, Declares
  <1> QED
    BY <1>1, <1>2, <1>3, <1>4

LEMMA NextIInv == IInv /\ [Next]_vars => IInv'
  <1> SUFFICES ASSUME IInv, [Next]_vars PROVE IInv'
    OBVIOUS
  <1>1. CASE Next
    <2> PICK p \in Processes : Open(p) \/ Crash(p)
      BY <1>1 DEF Next
    <2> QED
      BY ReadPassIInv, BeginTransactionIInv, AddVectorIndexIInv, CommitTransactionIInv,
         GivesUpIInv DEF Open
  <1>2. CASE UNCHANGED vars
    BY <1>2 DEF vars, IInv, TypeOK, LockHeldInTransaction, OpenIndexesFit, Monotone,
                WritersDeclare, Decided, Written, Fits, Declares
  <1> QED
    BY <1>1, <1>2

\* The invariant holds in every reachable state.
THEOREM Invariance == Spec => []IInv
  BY InitIInv, NextIInv, PTL DEF Spec

\* The variables have their types, for every value of the constants.
THEOREM TypeCorrect == Spec => []TypeOK
  BY Invariance, PTL DEF IInv

\* However many processes open the file with whatever schemas, each finds the
\* indexes its schema declares for as long as it has the file open.
THEOREM OpenFits == Spec => []OpenIndexesFit
  BY Invariance, PTL DEF IInv

\* A constructor that throws, or a process that dies, does not keep the lock.
THEOREM LockHeld == Spec => []LockHeldInTransaction
  BY Invariance, PTL DEF IInv

\* The file changes only by the commit of a whole reconciliation.
THEOREM WholeCommits == Spec => CommitsAreWhole
  <1> DEFINE Whole == file' # file =>
        \E p \in Processes \ readOnly :
          /\ phase[p] = "writing" /\ phase'[p] = "open"
          /\ \A x \in Properties : Declares(p, x) => Fits(p, x, file')
  <1>1. IInv /\ Next => Whole
    <2> SUFFICES ASSUME IInv, Next, file' # file PROVE Whole
      OBVIOUS
    <2> PICK p \in Processes : CommitTransaction(p)
      BY DEF Next, Open, ReadPass, BeginTransaction, AddVectorIndex, CancelTransaction, Crash
    <2>1. /\ phase[p] = "writing" /\ phase'[p] = "open" /\ p \notin readOnly
          /\ file' = pending /\ done[p] = toCreate[p]
      BY DEF CommitTransaction, IInv, TypeOK, WritersDeclare
    <2>2. \A x \in Properties : Declares(p, x) => Fits(p, x, file')
      BY <2>1 DEF IInv, Written
    <2> QED
      BY <2>1, <2>2
  <1>2. IInv /\ [Next]_vars => [Whole]_vars
    BY <1>1
  <1> QED
    BY <1>2, Invariance, PTL DEF Spec, CommitsAreWhole

\* A process that is alone with the file, of which none has crashed, has every index as
\* its schema declares it, breadth and all, or is still to write it.
AsDeclared(p, x, indexes) == Declares(p, x) => indexes[x] = declared[p][x]

Alone(p) ==
  p \notin readOnly /\ crashes = 0 /\ \A q \in Processes \ {p} : phase[q] = "closed"

Adopted ==
  \A p \in Processes : Alone(p) => \A x \in Properties :
    /\ phase[p] = "begin" => x \in toCreate[p] \/ AsDeclared(p, x, file)
    /\ phase[p] = "writing" => x \in toCreate[p] \ done[p] \/ AsDeclared(p, x, pending)
    /\ phase[p] = "open" => AsDeclared(p, x, file)

\* Whoever takes a step while another process is alone is that process: every step but a
\* crash leaves the one that takes it in another phase than "closed".
LEMMA NextAdopted ==
  ASSUME IInv, Adopted, [Next]_vars
  PROVE  Adopted'
  <1> USE DEF IInv
  <1>1. CASE UNCHANGED vars
    BY <1>1 DEF vars, Adopted, Alone, AsDeclared, Declares
  <1>2. CASE \E p \in Processes : Crash(p)
    <2>1. crashes' # 0
      BY <1>2 DEF Crash, TypeOK
    <2> QED
      BY <2>1 DEF Adopted, Alone
  <1>3. ASSUME NEW p \in Processes, Open(p)
        PROVE  Adopted'
    <2>1. /\ UNCHANGED <<declared, readOnly, crashes>>
          /\ phase'[p] # "closed"
          /\ \A q \in Processes \ {p} : phase'[q] = phase[q]
      BY <1>3 DEF Open, ReadPass, BeginTransaction, AddVectorIndex, CommitTransaction,
                  CancelTransaction, TypeOK
    <2> SUFFICES ASSUME NEW q \in Processes, Alone(q)', NEW x \in Properties
                 PROVE  /\ phase'[q] = "begin" => x \in toCreate'[q] \/ AsDeclared(q, x, file)'
                        /\ phase'[q] = "writing" =>
                             x \in toCreate'[q] \ done'[q] \/ AsDeclared(q, x, pending)'
                        /\ phase'[q] = "open" => AsDeclared(q, x, file)'
      BY DEF Adopted
    <2>2. q = p
      BY <2>1 DEF Alone
    <2>3. Alone(p)
      BY <2>1, <2>2 DEF Alone
    <2>4. /\ phase[p] = "begin" => x \in toCreate[p] \/ AsDeclared(p, x, file)
          /\ phase[p] = "writing" => x \in toCreate[p] \ done[p] \/ AsDeclared(p, x, pending)
      BY <2>3 DEF Adopted
    <2>5. CASE ReadPass(p)
      <3>1. phase'[p] \in {"begin", "open"} =>
              (Declares(p, x) /\ NeedsWrite(p, x, file) => phase'[p] = "begin" /\ x \in toCreate'[p])
        BY <2>3, <2>5 DEF ReadPass, Alone, TypeOK
      <3>2. phase'[p] # "writing" /\ file' = file
        BY <2>5 DEF ReadPass, TypeOK
      <3> QED
        BY <2>1, <2>2, <3>1, <3>2 DEF NeedsWrite, AsDeclared, Declares
    <2>6. CASE BeginTransaction(p)
      BY <2>1, <2>2, <2>4, <2>6 DEF BeginTransaction, AsDeclared, Declares, TypeOK
    <2>7. CASE \E y \in Properties : AddVectorIndex(p, y)
      <3> PICK y \in Properties : AddVectorIndex(p, y)
        BY <2>7
      <3>1. CASE Clashes(p, y, pending)
        <4>1. phase'[p] = "failing"
          BY <3>1 DEF AddVectorIndex, TypeOK
        <4> QED
          BY <2>2, <4>1
      <3>2. CASE ~Clashes(p, y, pending)
        <4>1. /\ phase[p] = "writing" /\ phase' = phase /\ toCreate' = toCreate
              /\ pending'[y] = declared[p][y]
              /\ \A z \in Properties \ {y} : pending'[z] = pending[z]
              /\ done'[p] = done[p] \cup {y}
          BY <3>2 DEF AddVectorIndex, TypeOK, Indexes
        <4> QED
          BY <2>1, <2>2, <2>4, <4>1 DEF AsDeclared, Declares
      <3> QED
        BY <3>1, <3>2
    <2>8. CASE CommitTransaction(p)
      BY <2>1, <2>2, <2>4, <2>8 DEF CommitTransaction, AsDeclared, Declares, TypeOK
    <2>9. CASE CancelTransaction(p)
      BY <2>2, <2>9 DEF CancelTransaction, TypeOK
    <2> QED
      BY <1>3, <2>5, <2>6, <2>7, <2>8, <2>9 DEF Open
  <1> QED
    BY <1>1, <1>2, <1>3 DEF Next

\* A process that is alone with the file finds the breadth its schema declares, and with
\* others at least the shape.
THEOREM OpenAsDeclared == Spec => []OpenIndexesAreDeclared
  <1>1. Init => Adopted
    BY DEF Init, Adopted
  <1>2. IInv /\ Adopted => OpenIndexesAreDeclared
    BY DEF IInv, Adopted, Alone, AsDeclared, OpenIndexesAreDeclared, AdoptsEfSearch
  <1>3. IInv /\ Adopted /\ [Next]_vars => Adopted'
    BY NextAdopted
  <1> QED
    BY <1>1, <1>2, <1>3, Invariance, PTL DEF Spec
=============================================================================
