----------------------------- MODULE SyncProofs -----------------------------
(***************************************************************************)
(* Every listener of a User is called when it changes, for all users,      *)
(* wrappers and listeners and however deep emissions nest.                 *)
(*                                                                         *)
(* JavaScript keeps no session open between its calls, and what it has     *)
(* registered it can remove, for all sessions, configurations, callbacks   *)
(* and orders of events.                                                   *)
(***************************************************************************)
EXTENDS Users, SyncSessions, FiniteSetTheorems, SequenceTheorems, TLAPS

-----------------------------------------------------------------------------
(***************************************************************************)
(* The listeners of a User.                                                *)
(***************************************************************************)

Lists == [Wrappers -> Seq(UserListeners)]
Emissions == [on : Wrappers, next : Nat \ {0}, from : Lists, outer : SUBSET UserListeners]

ListsTypeOK ==
  /\ changeListeners \in Lists
  /\ emissions \in Seq(Emissions)
  /\ heard \in SUBSET UserListeners

(* The listeners that the k-th emission has called.                        *)
HeardBy(k) == IF k = 1 THEN heard ELSE emissions[k - 1].outer

(* Whoever stands before the place that an emission has come to has been   *)
(* called: by that emission, not only by one around or within it.          *)
CalledBefore ==
  \A k \in DOMAIN emissions : \A i \in 1..Len(changeListeners[emissions[k].on]) :
    i < emissions[k].next => changeListeners[emissions[k].on][i] \in HeardBy(k)

(* No emission has come further than the end of its list, where listeners  *)
(* are added.                                                              *)
NotBeyond ==
  \A k \in DOMAIN emissions : emissions[k].next <= Len(changeListeners[emissions[k].on]) + 1

UsersIInv == ListsTypeOK /\ CalledBefore /\ NotBeyond

LEMMA UsersInitially == UserInit => UsersIInv
  BY DEF UserInit, UsersIInv, ListsTypeOK, CalledBefore, NotBeyond, Lists

LEMMA WalkReachesAll == UsersIInv => EmissionReachesAll
<1> SUFFICES ASSUME UsersIInv, WalkedThrough, NEW l \in UserListeners,
                    In(l, changeListeners[Head(emissions).on])
             PROVE  l \in heard
  BY DEF EmissionReachesAll
<1> DEFINE e == Head(emissions)
           list == changeListeners[e.on]
<1>1. emissions \in Seq(Emissions) /\ emissions # <<>>
  BY DEF UsersIInv, ListsTypeOK, WalkedThrough
<1>2. e \in Emissions /\ e = emissions[1] /\ 1 \in DOMAIN emissions
  BY <1>1
<1>3. list \in Seq(UserListeners) /\ e.next \in Nat /\ e.next > Len(list)
  BY <1>2 DEF UsersIInv, ListsTypeOK, Lists, Emissions, WalkedThrough
<1>4. PICK i \in 1..Len(list) : list[i] = l
  BY DEF In
<1>5. i < e.next
  BY <1>3, <1>4
<1>6. HeardBy(1) = heard
  BY DEF HeardBy
<1> QED  BY <1>2, <1>4, <1>5, <1>6 DEF UsersIInv, CalledBefore

(* A list without its i-th element.                                        *)
LEMMA Shorter ==
  ASSUME NEW S, NEW list \in Seq(S), NEW i \in 1..Len(list)
  PROVE  /\ Without(list, i) \in Seq(S) /\ Len(Without(list, i)) = Len(list) - 1
         /\ \A j \in 1..(Len(list) - 1) :
              Without(list, i)[j] = IF j < i THEN list[j] ELSE list[j + 1]
<1> DEFINE before == SubSeq(list, 1, i - 1)
           after == SubSeq(list, i + 1, Len(list))
           n == Len(list)
<1>1. n \in Nat /\ i \in 1..n /\ \A j \in 1..n : list[j] \in S
  OBVIOUS
<1>2. before \in Seq(S) /\ Len(before) = i - 1 /\ \A j \in 1..(i - 1) : before[j] = list[j]
  BY <1>1, SubSeqProperties
<1>3. after \in Seq(S) /\ Len(after) = n - i /\ \A j \in 1..(n - i) : after[j] = list[i + j]
  BY <1>1, SubSeqProperties
<1> HIDE DEF before, after
<1>4. /\ before \o after \in Seq(S) /\ Len(before \o after) = n - 1
      /\ \A j \in 1..(n - 1) : (before \o after)[j] = IF j <= i - 1 THEN before[j] ELSE after[j - (i - 1)]
  <2>1. /\ before \o after \in Seq(S) /\ Len(before \o after) = Len(before) + Len(after)
        /\ \A j \in 1..(Len(before) + Len(after)) :
             (before \o after)[j] = IF j <= Len(before) THEN before[j] ELSE after[j - Len(before)]
    BY <1>2, <1>3, ConcatProperties, Zenon
  <2> HIDE DEF n
  <2>2. Len(before) + Len(after) = n - 1
    BY <1>1, <1>2, <1>3
  <2> QED  BY <1>2, <2>1, <2>2
<1> HIDE DEF n
<1>5. ASSUME NEW j \in 1..(n - 1)
      PROVE  (before \o after)[j] = IF j < i THEN list[j] ELSE list[j + 1]
  <2>1. CASE j < i
    BY <1>1, <1>2, <1>4, <2>1
  <2>2. CASE ~(j < i)
    <3>1. j - (i - 1) \in 1..(n - i) /\ i + (j - (i - 1)) = j + 1 /\ ~(j <= i - 1)
      BY <1>1, <2>2
    <3>2. (before \o after)[j] = after[j - (i - 1)]
      BY <1>4, <3>1
    <3>3. after[j - (i - 1)] = list[j + 1]
      BY <1>3, <3>1
    <3> QED  BY <1>1, <2>2, <3>2, <3>3
  <2> QED  BY <2>1, <2>2
<1> QED  BY <1>4, <1>5 DEF Without, before, after, n

(* Steps on the listeners of a wrapper.                                    *)
LEMMA AddingUserListener ==
  ASSUME UsersIInv, NEW w \in Wrappers, NEW l \in UserListeners, AddUserListener(w, l)
  PROVE  UsersIInv'
<1> USE DEF UsersIInv
<1>1. /\ changeListeners \in Lists /\ emissions \in Seq(Emissions)
      /\ UNCHANGED <<emissions, heard>>
      /\ changeListeners' = [changeListeners EXCEPT ![w] = IF In(l, @) THEN @ ELSE Append(@, l)]
  BY DEF ListsTypeOK, AddUserListener
<1>2. ASSUME NEW x \in Wrappers
      PROVE  /\ changeListeners'[x] \in Seq(UserListeners)
             /\ Len(changeListeners'[x]) >= Len(changeListeners[x])
             /\ \A i \in 1..Len(changeListeners[x]) : changeListeners'[x][i] = changeListeners[x][i]
             /\ Len(changeListeners[x]) \in Nat
  <2>1. changeListeners[x] \in Seq(UserListeners)
    BY <1>1 DEF Lists
  <2>2. CASE changeListeners'[x] = changeListeners[x]
    BY <2>1, <2>2
  <2>3. CASE changeListeners'[x] = Append(changeListeners[x], l)
    BY <2>1, <2>3, AppendProperties
  <2> QED  BY <1>1, <2>2, <2>3 DEF Lists
<1>3. ListsTypeOK'
  <2>1. changeListeners' \in Lists
    BY <1>1, <1>2 DEF Lists
  <2> QED  BY <1>1, <2>1 DEF ListsTypeOK
<1>4. ASSUME NEW k \in DOMAIN emissions
      PROVE  /\ emissions[k].next <= Len(changeListeners'[emissions[k].on]) + 1
             /\ \A i \in 1..Len(changeListeners'[emissions[k].on]) :
                  i < emissions[k].next => changeListeners'[emissions[k].on][i] \in HeardBy(k)'
  <2> DEFINE x == emissions[k].on
             n == emissions[k].next
             list == changeListeners[x]
             longer == changeListeners'[x]
  <2>1. emissions[k] \in Emissions
    BY <1>1
  <2>2. x \in Wrappers /\ n \in Nat
    BY <2>1 DEF Emissions
  <2>3. /\ longer \in Seq(UserListeners) /\ Len(longer) >= Len(list) /\ Len(list) \in Nat
        /\ \A i \in 1..Len(list) : longer[i] = list[i]
    BY <1>2, <2>2
  <2>4. n <= Len(list) + 1 /\ \A i \in 1..Len(list) : i < n => list[i] \in HeardBy(k)
    BY DEF CalledBefore, NotBeyond
  <2>5. HeardBy(k)' = HeardBy(k)
    BY <1>1 DEF HeardBy
  <2> HIDE DEF x, n, list, longer
  <2>6. Len(longer) \in Nat
    BY <2>3
  <2>7. n <= Len(longer) + 1
    BY <2>2, <2>3, <2>4, <2>6
  <2>8. \A i \in 1..Len(longer) : i < n => i \in 1..Len(list) /\ longer[i] \in HeardBy(k)
    BY <2>2, <2>3, <2>4, <2>6
  <2> QED  BY <2>5, <2>7, <2>8 DEF x, n, longer
<1> QED  BY <1>1, <1>3, <1>4 DEF CalledBefore, NotBeyond

(* Whoever is removed before its turn is not called, and who stands behind *)
(* moves up.                                                               *)
LEMMA RemovingUserListener ==
  ASSUME UsersIInv, NEW w \in Wrappers, NEW l \in UserListeners, RemoveUserListener(w, l)
  PROVE  UsersIInv'
<1> USE DEF UsersIInv
<1> DEFINE i == Position(l, changeListeners[w])
<1>1. /\ changeListeners \in Lists /\ emissions \in Seq(Emissions) /\ heard \in SUBSET UserListeners
      /\ heard' = heard
      /\ i \in 1..Len(changeListeners[w])
      /\ changeListeners' = [changeListeners EXCEPT ![w] = Without(@, i)]
      /\ emissions' = Shifted(w, i)
  BY DEF ListsTypeOK, RemoveUserListener, In, Position
<1> HIDE DEF i
<1>2. /\ changeListeners[w] \in Seq(UserListeners) /\ Len(changeListeners[w]) \in Nat
      /\ Without(changeListeners[w], i) \in Seq(UserListeners)
      /\ Len(Without(changeListeners[w], i)) = Len(changeListeners[w]) - 1
      /\ \A j \in 1..(Len(changeListeners[w]) - 1) : Without(changeListeners[w], i)[j]
           = IF j < i THEN changeListeners[w][j] ELSE changeListeners[w][j + 1]
  <2>1. changeListeners[w] \in Seq(UserListeners)
    BY <1>1 DEF Lists
  <2>2. Len(changeListeners[w]) \in Nat
    BY <2>1
  <2> QED  BY <1>1, <2>1, <2>2, Shorter, Zenon
<1>3. /\ changeListeners' \in Lists
      /\ \A x \in Wrappers : x # w => changeListeners'[x] = changeListeners[x]
      /\ changeListeners'[w] = Without(changeListeners[w], i)
  BY <1>1, <1>2 DEF Lists
<1>4. /\ DOMAIN emissions' = DOMAIN emissions
      /\ \A k \in DOMAIN emissions :
           /\ emissions[k] \in Emissions
           /\ emissions'[k] = IF emissions[k].on = w /\ i < emissions[k].next
                              THEN [emissions[k] EXCEPT !.next = @ - 1] ELSE emissions[k]
  BY <1>1 DEF Shifted
<1>5. \A k \in DOMAIN emissions :
        /\ emissions'[k] \in Emissions
        /\ emissions'[k].on = emissions[k].on /\ emissions'[k].outer = emissions[k].outer
        /\ emissions[k].on \in Wrappers
        /\ emissions[k].next \in Nat
        /\ emissions'[k].next = IF emissions[k].on = w /\ i < emissions[k].next
                                THEN emissions[k].next - 1 ELSE emissions[k].next
  <2>1. i \in Nat /\ i > 0
    BY <1>1, <1>2
  <2>2. ASSUME NEW k \in DOMAIN emissions
        PROVE  /\ emissions[k].on \in Wrappers /\ emissions[k].next \in Nat
               /\ i < emissions[k].next => [emissions[k] EXCEPT !.next = @ - 1] \in Emissions
    BY <1>4, <2>1 DEF Emissions
  <2> QED  BY <1>4, <2>2 DEF Emissions
<1>6. ListsTypeOK'
  <2>1. emissions' \in Seq(Emissions)
    <3>1. Len(emissions) \in Nat /\ DOMAIN emissions = 1..Len(emissions)
      BY <1>1
    <3>2. emissions' \in [1..Len(emissions) -> Emissions]
      BY <1>1, <1>4, <1>5, <3>1 DEF Shifted
    <3> QED  BY <3>1, <3>2, SeqDef
  <2> QED  BY <1>1, <1>3, <2>1 DEF ListsTypeOK
<1>7. \A k \in DOMAIN emissions : HeardBy(k)' = HeardBy(k)
  <2>1. \A k \in DOMAIN emissions : k # 1 => k - 1 \in DOMAIN emissions
    BY <1>1
  <2> QED  BY <1>1, <1>5, <2>1 DEF HeardBy
<1>8. ASSUME NEW k \in DOMAIN emissions
      PROVE  /\ emissions'[k].next <= Len(changeListeners'[emissions[k].on]) + 1
             /\ \A j \in 1..Len(changeListeners'[emissions[k].on]) :
                  j < emissions'[k].next => changeListeners'[emissions[k].on][j] \in HeardBy(k)
  <2> DEFINE n == emissions[k].next
             list == changeListeners[emissions[k].on]
  <2>1. n <= Len(list) + 1 /\ \A j \in 1..Len(list) : j < n => list[j] \in HeardBy(k)
    BY DEF CalledBefore, NotBeyond
  <2>2. CASE emissions[k].on # w
    BY <1>3, <1>5, <2>1, <2>2
  <2>3. CASE emissions[k].on = w
    <3> DEFINE shorter == changeListeners'[w]
               next == emissions'[k].next
    <3>1. /\ Len(list) \in Nat /\ Len(shorter) = Len(list) - 1 /\ i \in 1..Len(list) /\ n \in Nat
          /\ \A j \in 1..(Len(list) - 1) : shorter[j] = IF j < i THEN list[j] ELSE list[j + 1]
          /\ next = IF i < n THEN n - 1 ELSE n
      BY <1>1, <1>2, <1>3, <1>5, <2>3
    <3> HIDE DEF n, list, shorter, next
    <3>2. next <= Len(shorter) + 1
      BY <2>1, <3>1
    <3>3. ASSUME NEW j \in 1..Len(shorter), j < next
          PROVE  shorter[j] \in HeardBy(k)
      <4>1. CASE j < i
        BY <2>1, <3>1, <3>3, <4>1
      <4>2. CASE ~(j < i)
        <5>1. j + 1 \in 1..Len(list) /\ j + 1 < n /\ shorter[j] = list[j + 1]
          BY <3>1, <3>3, <4>2
        <5> QED  BY <2>1, <5>1
      <4> QED  BY <4>1, <4>2
    <3> QED  BY <2>3, <3>2, <3>3 DEF shorter, next
  <2> QED  BY <2>2, <2>3
<1>9. CalledBefore' /\ NotBeyond'
  BY <1>4, <1>5, <1>7, <1>8 DEF CalledBefore, NotBeyond
<1> QED  BY <1>6, <1>9

LEMMA RemovingAll ==
  ASSUME UsersIInv, NEW w \in Wrappers, RemoveAllUserListeners(w)
  PROVE  UsersIInv'
<1> USE DEF UsersIInv
<1>1. /\ changeListeners \in Lists /\ emissions \in Seq(Emissions) /\ heard \in SUBSET UserListeners
      /\ heard' = heard
      /\ changeListeners' = [changeListeners EXCEPT ![w] = <<>>]
      /\ emissions' = [k \in 1..Len(emissions) |->
           IF emissions[k].on = w THEN [emissions[k] EXCEPT !.next = 1] ELSE emissions[k]]
  BY DEF ListsTypeOK, RemoveAllUserListeners
<1>2. /\ changeListeners' \in Lists /\ changeListeners'[w] = <<>>
      /\ \A x \in Wrappers : x # w => changeListeners'[x] = changeListeners[x]
  BY <1>1 DEF Lists
<1>3. /\ DOMAIN emissions' = DOMAIN emissions
      /\ \A k \in DOMAIN emissions :
           /\ emissions[k] \in Emissions
           /\ emissions'[k] = IF emissions[k].on = w
                              THEN [emissions[k] EXCEPT !.next = 1] ELSE emissions[k]
  BY <1>1
<1>4. \A k \in DOMAIN emissions :
        /\ emissions'[k] \in Emissions
        /\ emissions'[k].on = emissions[k].on /\ emissions'[k].outer = emissions[k].outer
        /\ emissions[k].on \in Wrappers
        /\ emissions'[k].next = IF emissions[k].on = w THEN 1 ELSE emissions[k].next
  BY <1>3 DEF Emissions
<1>5. ListsTypeOK'
  <2>1. emissions' \in Seq(Emissions)
    <3>1. Len(emissions) \in Nat /\ DOMAIN emissions = 1..Len(emissions)
      BY <1>1
    <3>2. emissions' \in [1..Len(emissions) -> Emissions]
      BY <1>1, <1>3, <1>4, <3>1
    <3> QED  BY <3>1, <3>2, SeqDef
  <2> QED  BY <1>1, <1>2, <2>1 DEF ListsTypeOK
<1>6. \A k \in DOMAIN emissions : HeardBy(k)' = HeardBy(k)
  <2>1. \A k \in DOMAIN emissions : k # 1 => k - 1 \in DOMAIN emissions
    BY <1>1
  <2> QED  BY <1>1, <1>4, <2>1 DEF HeardBy
<1> QED  BY <1>2, <1>3, <1>4, <1>5, <1>6 DEF CalledBefore, NotBeyond

(* A sequence with one element before it.                                  *)
LEMMA Fronted ==
  ASSUME NEW S, NEW x \in S, NEW s \in Seq(S)
  PROVE  /\ <<x>> \o s \in Seq(S) /\ Len(<<x>> \o s) = Len(s) + 1
         /\ DOMAIN (<<x>> \o s) = 1..(Len(s) + 1)
         /\ (<<x>> \o s)[1] = x /\ \A k \in 2..(Len(s) + 1) : (<<x>> \o s)[k] = s[k - 1]
<1> DEFINE first == <<x>>
           n == Len(s)
           all == first \o s
<1>1. first \in Seq(S) /\ Len(first) = 1 /\ first[1] = x /\ n \in Nat
  OBVIOUS
<1> HIDE DEF first
<1>2. /\ all \in Seq(S) /\ Len(all) = Len(first) + n
      /\ \A k \in 1..(Len(first) + n) : all[k] = IF k <= Len(first) THEN first[k] ELSE s[k - Len(first)]
  BY <1>1, ConcatProperties, Zenon
<1> HIDE DEF n, all
<1>3. Len(all) = n + 1 /\ all[1] = x /\ \A k \in 2..(n + 1) : all[k] = s[k - 1]
  BY <1>1, <1>2
<1>4. DOMAIN all = 1..(n + 1)
  BY <1>2, <1>3
<1> QED  BY <1>2, <1>3, <1>4 DEF all, n, first

(* A change of the user starts an emission around which the others wait.   *)
LEMMA Changing ==
  ASSUME UsersIInv, NEW w \in Wrappers, NEW state, ChangeUser(w, state)
  PROVE  UsersIInv'
<1> DEFINE e == [on |-> w, next |-> 1, from |-> changeListeners, outer |-> heard]
           n == Len(emissions)
<1> USE DEF UsersIInv
<1>1. /\ changeListeners \in Lists /\ emissions \in Seq(Emissions) /\ heard \in SUBSET UserListeners
      /\ heard' = {} /\ changeListeners' = changeListeners
      /\ emissions' = <<e>> \o emissions
  BY DEF ListsTypeOK, ChangeUser
<1>2. e \in Emissions /\ e.on = w /\ e.next = 1 /\ e.outer = heard
  BY <1>1 DEF Emissions
<1>3. n \in Nat /\ DOMAIN emissions = 1..n /\ \A k \in 1..n : emissions[k] \in Emissions
  BY <1>1
<1> HIDE DEF e
<1>4. /\ emissions' \in Seq(Emissions) /\ DOMAIN emissions' = 1..(n + 1)
      /\ emissions'[1] = e /\ \A k \in 2..(n + 1) : emissions'[k] = emissions[k - 1]
  BY <1>1, <1>2, Fronted
<1> HIDE DEF n
<1>5. ListsTypeOK'
  BY <1>1, <1>4 DEF ListsTypeOK
<1>6. ASSUME NEW k \in 2..(n + 1)
      PROVE  /\ k - 1 \in DOMAIN emissions /\ emissions'[k] = emissions[k - 1]
             /\ HeardBy(k)' = HeardBy(k - 1)
  <2>1. k - 1 \in 1..n /\ k # 1 /\ emissions'[k] = emissions[k - 1]
    BY <1>3, <1>4
  <2>2. CASE k = 2
    BY <1>2, <1>3, <1>4, <2>1, <2>2 DEF HeardBy
  <2>3. CASE k # 2
    <3>1. k - 1 \in 2..(n + 1) /\ k - 1 # 1
      BY <1>3, <2>1, <2>3
    <3>2. HeardBy(k)' = emissions'[k - 1].outer /\ HeardBy(k - 1) = emissions[k - 1 - 1].outer
      BY <2>1, <3>1 DEF HeardBy
    <3> QED  BY <1>3, <1>4, <2>1, <3>1, <3>2
  <2> QED  BY <1>3, <2>1, <2>2, <2>3
<1>7. ASSUME NEW k \in 1..(n + 1), k # 1
      PROVE  k \in 2..(n + 1)
  BY <1>3, <1>7
<1>8. Len(changeListeners[w]) \in Nat
  BY <1>1 DEF Lists
<1>9. ASSUME NEW k \in DOMAIN emissions'
      PROVE  /\ emissions'[k].next <= Len(changeListeners'[emissions'[k].on]) + 1
             /\ \A i \in 1..Len(changeListeners'[emissions'[k].on]) :
                  i < emissions'[k].next => changeListeners'[emissions'[k].on][i] \in HeardBy(k)'
  <2>1. CASE k = 1
    BY <1>1, <1>2, <1>4, <1>8, <2>1
  <2>2. CASE k # 1
    <3>1. /\ k - 1 \in DOMAIN emissions /\ emissions'[k] = emissions[k - 1]
          /\ HeardBy(k)' = HeardBy(k - 1)
      BY <1>4, <1>6, <1>7, <2>2
    <3> QED  BY <1>1, <3>1 DEF CalledBefore, NotBeyond
  <2> QED  BY <2>1, <2>2
<1> QED  BY <1>5, <1>9 DEF CalledBefore, NotBeyond

(* The walk calls the listener it has come to.                             *)
LEMMA CallingUserListener ==
  ASSUME UsersIInv, CallUserListener
  PROVE  UsersIInv'
<1> DEFINE e == emissions[1]
           next == [e EXCEPT !.next = @ + 1]
           n == Len(emissions)
           list == changeListeners[e.on]
<1> USE DEF UsersIInv
<1>1. /\ changeListeners \in Lists /\ emissions \in Seq(Emissions) /\ heard \in SUBSET UserListeners
      /\ emissions # <<>> /\ changeListeners' = changeListeners
      /\ e.next <= Len(list) /\ heard' = heard \cup {list[e.next]}
      /\ emissions' = <<next>> \o Tail(emissions)
  BY DEF ListsTypeOK, CallUserListener
<1>2. n \in Nat /\ n > 0 /\ DOMAIN emissions = 1..n /\ \A k \in 1..n : emissions[k] \in Emissions
  BY <1>1
<1>3. /\ e.next \in Nat \ {0} /\ e.on \in Wrappers /\ next \in Emissions
      /\ next.on = e.on /\ next.next = e.next + 1 /\ next.outer = e.outer
  BY <1>2 DEF Emissions
<1>4. list \in Seq(UserListeners) /\ Len(list) \in Nat
  <2>1. list \in Seq(UserListeners)
    BY <1>1, <1>3 DEF Lists
  <2> QED  BY <2>1
<1>5. list[e.next] \in UserListeners
  BY <1>1, <1>3, <1>4
<1> HIDE DEF next
<1>6. /\ emissions' \in Seq(Emissions) /\ DOMAIN emissions' = 1..n
      /\ emissions'[1] = next /\ \A k \in 2..n : emissions'[k] = emissions[k]
  <2> DEFINE rest == Tail(emissions)
  <2>1. /\ rest \in Seq(Emissions) /\ Len(rest) = n - 1
        /\ \A k \in 1..(n - 1) : rest[k] = emissions[k + 1]
    BY <1>1, <1>2, HeadTailProperties
  <2>2. \A k \in 2..n : k - 1 \in 1..(n - 1) /\ k - 1 + 1 = k
    BY <1>2
  <2> HIDE DEF rest, n
  <2>3. Len(rest) + 1 = n
    BY <1>2, <2>1
  <2>4. /\ <<next>> \o rest \in Seq(Emissions) /\ DOMAIN (<<next>> \o rest) = 1..n
        /\ (<<next>> \o rest)[1] = next /\ \A k \in 2..n : (<<next>> \o rest)[k] = rest[k - 1]
    BY <1>3, <2>1, <2>3, Fronted
  <2> QED  BY <1>1, <2>1, <2>2, <2>4 DEF rest
<1>7. ListsTypeOK'
  BY <1>1, <1>5, <1>6 DEF ListsTypeOK
<1>8. \A k \in 2..n : HeardBy(k)' = HeardBy(k)
  <2>1. \A k \in 2..n : k # 1 /\ k - 1 \in 1..n /\ (k - 1 # 1 => k - 1 \in 2..n)
    BY <1>2
  <2>2. emissions'[1].outer = emissions[1].outer
    BY <1>3, <1>6
  <2>3. ASSUME NEW k \in 2..n
        PROVE  emissions'[k - 1].outer = emissions[k - 1].outer
    BY <1>6, <2>1, <2>2
  <2> HIDE DEF n, e
  <2> QED  BY <2>1, <2>3 DEF HeardBy
<1>9. HeardBy(1) = heard /\ HeardBy(1)' = heard'
  BY DEF HeardBy
<1>10. /\ e.next <= Len(list) + 1
       /\ \A i \in 1..Len(list) : i < e.next => list[i] \in heard
  BY <1>2, <1>9 DEF CalledBefore, NotBeyond
<1>11. \A i \in 1..Len(list) : i < e.next + 1 => list[i] \in heard'
  <2> HIDE DEF list, e
  <2> QED  BY <1>1, <1>3, <1>4, <1>10
<1>12. \A k \in 1..n : k # 1 => k \in 2..n
  BY <1>2
<1> HIDE DEF list
<1>13. CalledBefore'
  <2>1. ASSUME NEW k \in 2..n, NEW i \in 1..Len(changeListeners[emissions[k].on]), i < emissions[k].next
        PROVE  changeListeners[emissions[k].on][i] \in HeardBy(k)'
    BY <1>2, <1>8, <2>1 DEF CalledBefore
  <2>2. ASSUME NEW i \in 1..Len(changeListeners[next.on]), i < next.next
        PROVE  changeListeners[next.on][i] \in HeardBy(1)'
    BY <1>3, <1>9, <1>11, <2>2 DEF list
  <2> HIDE DEF n, e
  <2> QED  BY <1>1, <1>6, <1>12, <2>1, <2>2 DEF CalledBefore
<1>14. NotBeyond'
  <2>1. ASSUME NEW k \in 2..n
        PROVE  emissions[k].next <= Len(changeListeners[emissions[k].on]) + 1
    BY <1>2, <2>1 DEF NotBeyond
  <2>2. next.next <= Len(list) + 1
    BY <1>1, <1>3, <1>4
  <2> QED  BY <1>1, <1>3, <1>6, <1>12, <2>1, <2>2, ZenonT(30) DEF NotBeyond, list
<1> QED  BY <1>7, <1>13, <1>14

(* The walk ends, or a listener ends it: the one around it goes on.        *)
LEMMA EndingWalk ==
  ASSUME UsersIInv, EndEmission \/ UserListenerThrows
  PROVE  UsersIInv'
<1> DEFINE n == Len(emissions)
<1> USE DEF UsersIInv
<1>1. /\ changeListeners \in Lists /\ emissions \in Seq(Emissions) /\ emissions # <<>>
      /\ changeListeners' = changeListeners
      /\ heard' = emissions[1].outer
      /\ emissions' = Tail(emissions)
  BY DEF ListsTypeOK, EndEmission, UserListenerThrows
<1>2. /\ n \in Nat /\ n > 0 /\ DOMAIN emissions = 1..n /\ emissions[1] \in Emissions
  BY <1>1
<1>3. /\ emissions' \in Seq(Emissions) /\ DOMAIN emissions' = 1..(n - 1)
      /\ \A k \in 1..(n - 1) : emissions'[k] = emissions[k + 1]
  <2>1. emissions' \in Seq(Emissions) /\ Len(emissions') = n - 1
        /\ \A k \in 1..(n - 1) : emissions'[k] = emissions[k + 1]
    BY <1>1, <1>2, HeadTailProperties
  <2> QED  BY <2>1
<1>4. ListsTypeOK'
  BY <1>1, <1>2, <1>3 DEF ListsTypeOK, Emissions
<1> HIDE DEF n
<1>5. ASSUME NEW k \in 1..(n - 1)
      PROVE  k + 1 \in 1..n /\ emissions'[k] = emissions[k + 1] /\ HeardBy(k)' = HeardBy(k + 1)
  <2>1. k + 1 \in 1..n /\ k + 1 # 1 /\ k + 1 - 1 = k
    BY <1>2
  <2>2. HeardBy(k + 1) = emissions[k].outer
    BY <2>1 DEF HeardBy
  <2>3. CASE k = 1
    BY <1>1, <1>3, <2>1, <2>2, <2>3 DEF HeardBy
  <2>4. CASE k # 1
    <3>1. k - 1 \in 1..(n - 1) /\ k - 1 + 1 = k
      BY <1>2, <2>4
    <3>2. HeardBy(k)' = emissions'[k - 1].outer
      BY <2>4 DEF HeardBy
    <3> QED  BY <1>3, <2>1, <2>2, <3>1, <3>2
  <2> QED  BY <2>3, <2>4
<1>6. ASSUME NEW k \in DOMAIN emissions'
      PROVE  /\ emissions'[k].next <= Len(changeListeners'[emissions'[k].on]) + 1
             /\ \A i \in 1..Len(changeListeners'[emissions'[k].on]) :
                  i < emissions'[k].next => changeListeners'[emissions'[k].on][i] \in HeardBy(k)'
  <2>1. k + 1 \in DOMAIN emissions /\ emissions'[k] = emissions[k + 1] /\ HeardBy(k)' = HeardBy(k + 1)
    BY <1>2, <1>3, <1>5
  <2> QED  BY <1>1, <2>1 DEF CalledBefore, NotBeyond
<1> QED  BY <1>4, <1>6 DEF CalledBefore, NotBeyond

LEMMA UsersStep == UsersIInv /\ [UserNext]_userVars => UsersIInv'
<1> SUFFICES ASSUME UsersIInv, [UserNext]_userVars
             PROVE  UsersIInv'
  OBVIOUS
<1>1. CASE UNCHANGED userVars
  BY <1>1 DEF userVars, UsersIInv, ListsTypeOK, CalledBefore, NotBeyond, HeardBy
<1>2. ASSUME NEW w \in Wrappers, NEW n \in NativeUsers, GetUser(w, n)
      PROVE  UsersIInv'
  BY <1>2 DEF GetUser, UsersIInv, ListsTypeOK, CalledBefore, NotBeyond, HeardBy
<1>3. ASSUME NEW w \in Wrappers, NEW l \in UserListeners,
             AddUserListener(w, l) \/ RemoveUserListener(w, l)
      PROVE  UsersIInv'
  BY <1>3, AddingUserListener, RemovingUserListener
<1>4. ASSUME NEW w \in Wrappers, RemoveAllUserListeners(w)
      PROVE  UsersIInv'
  BY <1>4, RemovingAll
<1>5. ASSUME NEW w \in Wrappers, ChangeUser(w, "LoggedIn") \/ ChangeUser(w, "LoggedOut")
      PROVE  UsersIInv'
  <2>1. CASE ChangeUser(w, "LoggedIn")
    BY <2>1, Changing
  <2>2. CASE ChangeUser(w, "LoggedOut")
    BY <2>2, Changing
  <2> QED  BY <1>5, <2>1, <2>2
<1>6. ASSUME CallUserListener \/ EndEmission \/ UserListenerThrows
      PROVE  UsersIInv'
  BY <1>6, CallingUserListener, EndingWalk
<1> QED  BY <1>1, <1>2, <1>3, <1>4, <1>5, <1>6 DEF UserNext

(* Every listener that a wrapper had when it was changed, and still has    *)
(* when the walk ends, has been called for that change, whatever listeners *)
(* did meanwhile (emitChange, User.ts:263).                                *)
THEOREM EveryListenerHears == UserSpec => []EmissionReachesAll
<1>1. UserInit => UsersIInv
  BY UsersInitially
<1>2. UsersIInv /\ [UserNext]_userVars => UsersIInv'
  BY UsersStep
<1>3. UsersIInv => EmissionReachesAll
  BY WalkReachesAll
<1> QED  BY <1>1, <1>2, <1>3, PTL DEF UserSpec
-----------------------------------------------------------------------------
(***************************************************************************)
(* Sync sessions and their notifiers.                                      *)
(***************************************************************************)

(* The errors for s that are in a queue of events.                         *)
ErrorsIn(queue, s) == {i \in 1..Len(queue) : queue[i].what = "error" /\ queue[i].on = s}

IsEvent(e) ==
  \/ e.what \in {"connection", "progress", "reset"}
  \/ e.what = "error" /\ e.on \in Sessions

Notifiers == [kind : Kinds, callback : Callbacks, token : Nat, indefinite : BOOLEAN]

EventsWellFormed ==
  /\ \E Events : inbox \in Seq(Events)
  /\ \A i \in 1..Len(inbox) : IsEvent(inbox[i])

CallWellFormed ==
  call = Idle \/ (call \in [op : {"engine", "add"}, on : Sessions] /\ Made(call.on))

SessionsWellFormed ==
  /\ DOMAIN settings \subseteq Sessions
  /\ strong \in [Sessions -> Nat]
  /\ owners = [s \in Sessions |-> owners[s]]
  /\ notifiers \in [Sessions -> SUBSET Notifiers]
  /\ \A s \in Sessions : IsFiniteSet(notifiers[s])
  /\ listeners = [k \in Kinds |-> listeners[k]]
  /\ tokens \in Nat

(* Nothing is known of a session before it is made.                        *)
Unmade == \A s \in Sessions \ DOMAIN settings : owners[s] = {} /\ strong[s] = 0 /\ notifiers[s] = {}

(* The strong references are those of the call under way and of the errors *)
(* that are still to be delivered.                                         *)
InCall(s) == IF call # Idle /\ call.on = s THEN 1 ELSE 0
ReferencesCounted == \A s \in Sessions : strong[s] = Cardinality(ErrorsIn(inbox, s)) + InCall(s)

SessionsIInv ==
  /\ EventsWellFormed /\ CallWellFormed /\ SessionsWellFormed
  /\ Unmade /\ ReferencesCounted /\ NotifiersRemovable

-----------------------------------------------------------------------------
(* The events in a queue *)

LEMMA ErrorsFinite ==
  ASSUME NEW queue, Len(queue) \in Nat, NEW s
  PROVE  IsFiniteSet(ErrorsIn(queue, s)) /\ Cardinality(ErrorsIn(queue, s)) \in Nat
<1>1. IsFiniteSet(1..Len(queue))
  BY FS_Interval
<1>2. ErrorsIn(queue, s) \in SUBSET (1..Len(queue))
  BY DEF ErrorsIn
<1> QED  BY <1>1, <1>2, FS_Subset, FS_CardinalityType

(* An event that is delivered is counted no more.                          *)
LEMMA ErrorsOfTail ==
  ASSUME NEW E, NEW queue \in Seq(E), queue # <<>>, NEW s
  PROVE  Cardinality(ErrorsIn(Tail(queue), s)) = Cardinality(ErrorsIn(queue, s))
           - (IF queue[1].what = "error" /\ queue[1].on = s THEN 1 ELSE 0)
<1> DEFINE n == Len(queue)
           old == ErrorsIn(queue, s) \ {1}
           new == ErrorsIn(Tail(queue), s)
           shift == [i \in old |-> i - 1]
<1>1. /\ n \in Nat /\ n > 0 /\ Len(Tail(queue)) = n - 1
      /\ \A i \in 1..(n - 1) : Tail(queue)[i] = queue[i + 1]
  BY HeadTailProperties
<1>2. new = {i \in 1..(n - 1) : queue[i + 1].what = "error" /\ queue[i + 1].on = s}
  BY <1>1 DEF ErrorsIn
<1>3. old = {i \in 2..n : queue[i].what = "error" /\ queue[i].on = s}
  BY <1>1 DEF ErrorsIn
<1>4. shift \in Bijection(old, new)
  <2>1. \A i \in 2..n : i - 1 \in 1..(n - 1) /\ i - 1 + 1 = i
    BY <1>1
  <2>2. \A i \in 1..(n - 1) : i + 1 \in 2..n /\ i + 1 - 1 = i
    BY <1>1
  <2> HIDE DEF n
  <2>3. \A i \in old : i - 1 \in new
    BY <1>2, <1>3, <2>1
  <2>4. \A j \in new : j + 1 \in old /\ shift[j + 1] = j
    BY <1>2, <1>3, <2>2
  <2>5. \A i, j \in old : shift[i] = shift[j] => i = j
    BY <1>3
  <2> HIDE DEF old, new
  <2>6. shift \in [old -> new]
    BY <2>3
  <2> HIDE DEF shift
  <2>7. shift \in Injection(old, new)
    BY <2>5, <2>6 DEF Injection, IsInjective
  <2>8. shift \in Surjection(old, new)
    BY <2>4, <2>6 DEF Surjection
  <2> QED  BY <2>7, <2>8 DEF Bijection
<1>5. IsFiniteSet(ErrorsIn(queue, s)) /\ Cardinality(ErrorsIn(queue, s)) \in Nat
  BY <1>1, ErrorsFinite
<1>6. /\ IsFiniteSet(old)
      /\ Cardinality(old) = IF 1 \in ErrorsIn(queue, s) THEN Cardinality(ErrorsIn(queue, s)) - 1
                            ELSE Cardinality(ErrorsIn(queue, s))
  BY <1>5, FS_RemoveElement
<1>7. 1 \in ErrorsIn(queue, s) <=> queue[1].what = "error" /\ queue[1].on = s
  BY <1>1 DEF ErrorsIn
<1>8. Cardinality(new) = Cardinality(old)
  <2> HIDE DEF old, new, shift
  <2> QED  BY <1>4, <1>6, FS_Bijection DEF ExistsBijection
<1> HIDE DEF old
<1> QED  BY <1>5, <1>6, <1>7, <1>8

(* Events that are no errors are not counted.                              *)
LEMMA ErrorsBefore ==
  ASSUME NEW E, NEW queue \in Seq(E), NEW F, NEW others \in Seq(F), NEW s,
         \A i \in 1..Len(others) : others[i].what # "error"
  PROVE  ErrorsIn(queue \o others, s) = ErrorsIn(queue, s)
<1> DEFINE G == E \cup F
           n == Len(queue)
           all == queue \o others
<1>1. queue \in Seq(G) /\ others \in Seq(G)
  BY SeqMonotonic
<1>2. /\ Len(all) = n + Len(others)
      /\ \A i \in 1..(n + Len(others)) : all[i] = IF i <= n THEN queue[i] ELSE others[i - n]
  <2> HIDE DEF G
  <2> QED  BY <1>1, ConcatProperties, Zenon
<1>3. n \in Nat /\ Len(others) \in Nat
  OBVIOUS
<1> HIDE DEF n, all
<1>4. ASSUME NEW i \in 1..(n + Len(others)), ~(i <= n)
      PROVE  all[i].what # "error"
  <2>1. i - n \in 1..Len(others)
    BY <1>3, <1>4
  <2> QED  BY <1>2, <1>4, <2>1
<1>5. \A i \in 1..n : i \in 1..(n + Len(others)) /\ all[i] = queue[i]
  BY <1>2, <1>3
<1>6. \A i \in 1..(n + Len(others)) : i <= n => i \in 1..n
  BY <1>3
<1>7. ErrorsIn(all, s) = {i \in 1..n : queue[i].what = "error" /\ queue[i].on = s}
  BY <1>2, <1>4, <1>5, <1>6 DEF ErrorsIn
<1> QED  BY <1>7 DEF ErrorsIn, n, all

LEMMA ErrorsAppended ==
  ASSUME NEW E, NEW queue \in Seq(E), NEW e, NEW s
  PROVE  Cardinality(ErrorsIn(Append(queue, e), s)) = Cardinality(ErrorsIn(queue, s))
           + (IF e.what = "error" /\ e.on = s THEN 1 ELSE 0)
<1> DEFINE G == E \cup {e}
           n == Len(queue)
           all == Append(queue, e)
<1>1. n \in Nat /\ queue \in Seq(G)
  BY SeqMonotonic
<1>2. Len(all) = n + 1 /\ all[n + 1] = e /\ \A i \in 1..n : all[i] = queue[i]
  BY <1>1, AppendProperties
<1>3. IsFiniteSet(ErrorsIn(queue, s)) /\ Cardinality(ErrorsIn(queue, s)) \in Nat
  BY <1>1, ErrorsFinite
<1>4. ErrorsIn(queue, s) = {i \in 1..n : queue[i].what = "error" /\ queue[i].on = s}
  BY DEF ErrorsIn
<1> HIDE DEF all, n
<1>5. n + 1 \notin ErrorsIn(queue, s)
  BY <1>1, <1>4
<1>6. CASE e.what = "error" /\ e.on = s
  <2>1. ErrorsIn(all, s) = ErrorsIn(queue, s) \cup {n + 1}
    BY <1>1, <1>2, <1>4, <1>6 DEF ErrorsIn
  <2> QED  BY <1>3, <1>5, <1>6, <2>1, FS_AddElement DEF all
<1>7. CASE ~(e.what = "error" /\ e.on = s)
  <2>1. ErrorsIn(all, s) = ErrorsIn(queue, s)
    BY <1>1, <1>2, <1>4, <1>7 DEF ErrorsIn
  <2> QED  BY <1>3, <1>7, <2>1 DEF all
<1> QED  BY <1>6, <1>7

-----------------------------------------------------------------------------
(* The steps *)

LEMMA InboxCounted ==
  ASSUME SessionsIInv, NEW s
  PROVE  Cardinality(ErrorsIn(inbox, s)) \in Nat
<1>1. Len(inbox) \in Nat
  BY DEF SessionsIInv, EventsWellFormed
<1> QED  BY <1>1, ErrorsFinite

LEMMA SessionsInitially == SessionInit => SessionsIInv
<1> SUFFICES ASSUME SessionInit PROVE SessionsIInv
  OBVIOUS
<1> USE DEF SessionInit
<1>1. EventsWellFormed
  <2>1. inbox \in Seq({})
    OBVIOUS
  <2> QED  BY <2>1 DEF EventsWellFormed
<1>2. CallWellFormed
  BY DEF CallWellFormed
<1>3. SessionsWellFormed
  BY FS_EmptySet DEF SessionsWellFormed
<1>4. Unmade
  BY DEF Unmade
<1>5. ReferencesCounted
  <2> SUFFICES ASSUME NEW s \in Sessions
               PROVE  strong[s] = Cardinality(ErrorsIn(inbox, s)) + InCall(s)
    BY DEF ReferencesCounted
  <2>1. strong[s] = 0 /\ InCall(s) = 0
    BY DEF InCall
  <2>2. ErrorsIn(inbox, s) = {}
    BY DEF ErrorsIn
  <2>3. Cardinality(ErrorsIn(inbox, s)) = 0
    BY <2>2, FS_EmptySet
  <2> QED  BY <2>1, <2>3
<1>6. NotifiersRemovable
  BY DEF NotifiersRemovable
<1> QED  BY <1>1, <1>2, <1>3, <1>4, <1>5, <1>6 DEF SessionsIInv

LEMMA InvariantReleases == SessionsIInv => SessionsReleased
<1> SUFFICES ASSUME SessionsIInv PROVE SessionsReleased
  OBVIOUS
<1>1. SessionsNotKept
  <2> SUFFICES ASSUME call = Idle, NEW s \in Sessions
               PROVE  strong[s] = Cardinality(ErrorsIn(inbox, s))
    BY DEF SessionsNotKept, ErrorsIn
  <2>1. InCall(s) = 0
    BY DEF InCall
  <2>2. Cardinality(ErrorsIn(inbox, s)) \in Nat
    BY InboxCounted
  <2> QED  BY <2>1, <2>2 DEF SessionsIInv, ReferencesCounted
<1> QED  BY <1>1 DEF SessionsIInv, SessionsReleased

(* Registrations are undisturbed by a step that makes no session live with *)
(* notifiers.                                                              *)
LEMMA NotifiersStay ==
  ASSUME SessionsIInv, UNCHANGED <<notifiers, listeners>>,
         \A s \in Sessions : Alive(s)' => Alive(s) \/ notifiers[s] = {}
  PROVE  NotifiersRemovable'
  BY DEF SessionsIInv, NotifiersRemovable, Registered

(* A session that has an owner or a reference has been made.               *)
LEMMA LivingAreMade ==
  ASSUME SessionsIInv, NEW s \in Sessions, owners[s] # {} \/ strong[s] > 0
  PROVE  Made(s) /\ Alive(s)
  BY DEF SessionsIInv, Unmade, SessionsWellFormed, Made, Alive

(* A reference that is taken and weakened in one step leaves no trace.     *)
LEMMA GivenBack ==
  ASSUME SessionsIInv, NEW S
  PROVE  Weakened(Referenced(strong, S), S) = strong
  BY DEF SessionsIInv, SessionsWellFormed, Weakened, Referenced

LEMMA Looking ==
  ASSUME SessionsIInv, NEW config \in Configs,
         GetSyncSession(config) \/ GetAllSyncSessions(config.user)
  PROVE  SessionsIInv'
<1>1. UNCHANGED <<settings, owners, strong, notifiers, listeners, inbox, call, tokens>>
  BY GivenBack DEF GetSyncSession, GetAllSyncSessions
<1>2. EventsWellFormed' /\ CallWellFormed'
  BY <1>1 DEF SessionsIInv, EventsWellFormed, CallWellFormed, Made
<1>3. SessionsWellFormed' /\ Unmade'
  BY <1>1 DEF SessionsIInv, SessionsWellFormed, Unmade
<1>4. ReferencesCounted'
  BY <1>1 DEF SessionsIInv, ReferencesCounted, InCall
<1>5. NotifiersRemovable'
  BY <1>1, NotifiersStay DEF Alive, Made
<1> QED  BY <1>2, <1>3, <1>4, <1>5 DEF SessionsIInv

LEMMA Opening ==
  ASSUME SessionsIInv, NEW config \in Configs, OpenSynced(config)
  PROVE  SessionsIInv'
<1> USE DEF SessionsIInv
<1>1. UNCHANGED <<notifiers, listeners, inbox, call, tokens>>
  BY DEF OpenSynced
<1>2. PICK s \in Sessions :
        \/ /\ s \in At(OpenPaths[config]) /\ UNCHANGED settings
           /\ owners' = [owners EXCEPT ![s] = @ \cup {"barq"}]
           /\ strong' = Weakened(Referenced(strong, {s}), {s})
        \/ /\ ~Made(s)
           /\ settings' = [x \in DOMAIN settings \cup {s} |-> IF x = s THEN config ELSE settings[x]]
           /\ owners' = [owners EXCEPT ![s] = {"barq"}]
           /\ strong' = Weakened(Referenced(strong, {s}), {s})
  BY Zenon DEF OpenSynced
<1>3. UNCHANGED strong
  BY <1>2, GivenBack
<1>4. DOMAIN settings' = DOMAIN settings \cup {s}
  BY <1>2 DEF At, Alive, Made
<1>5. Alive(s) \/ ~Made(s)
  BY <1>2 DEF At
<1>6. owners' = [x \in Sessions |-> owners'[x]] /\ \A x \in Sessions : x # s => owners'[x] = owners[x]
  BY <1>2 DEF SessionsWellFormed
<1>7. EventsWellFormed' /\ CallWellFormed'
  BY <1>1, <1>4 DEF EventsWellFormed, CallWellFormed, Made
<1>8. SessionsWellFormed'
  BY <1>1, <1>3, <1>4, <1>6 DEF SessionsWellFormed
<1>9. Unmade'
  BY <1>1, <1>3, <1>4, <1>6 DEF Unmade
<1>10. ReferencesCounted'
  BY <1>1, <1>3 DEF ReferencesCounted, InCall
<1>11. NotifiersRemovable'
  <2>1. ASSUME NEW x \in Sessions, Alive(x)'
        PROVE  Alive(x) \/ notifiers[x] = {}
    BY <1>3, <1>4, <1>5, <1>6, <2>1 DEF Alive, Made, Unmade
  <2> QED  BY <1>1, <2>1, NotifiersStay
<1> QED  BY <1>7, <1>8, <1>9, <1>10, <1>11

(* The session loses an owner, and may get one instead while it lives.     *)
LEMMA Disowning ==
  ASSUME SessionsIInv, NEW s \in Sessions, CloseSynced(s) \/ Uploaded(s)
  PROVE  SessionsIInv'
<1> USE DEF SessionsIInv
<1>1. /\ owners[s] # {} /\ UNCHANGED <<settings, strong, notifiers, listeners, inbox, call, tokens>>
      /\ \E owner : owners' = [owners EXCEPT ![s] = owner]
  <2>1. CASE CloseSynced(s)
    BY <2>1 DEF CloseSynced
  <2>2. CASE Uploaded(s)
    BY <2>2 DEF Uploaded
  <2> QED  BY <2>1, <2>2
<1>2. owners' = [x \in Sessions |-> owners'[x]] /\ \A x \in Sessions : x # s => owners'[x] = owners[x]
  BY <1>1 DEF SessionsWellFormed
<1>3. Made(s) /\ Alive(s)
  BY <1>1, LivingAreMade
<1>4. EventsWellFormed' /\ CallWellFormed' /\ SessionsWellFormed' /\ ReferencesCounted'
  BY <1>1, <1>2 DEF EventsWellFormed, CallWellFormed, SessionsWellFormed, ReferencesCounted, InCall, Made
<1>5. Unmade'
  BY <1>1, <1>2, <1>3 DEF Unmade, Made
<1>6. NotifiersRemovable'
  <2>1. \A x \in Sessions : Alive(x)' => Alive(x)
    BY <1>1, <1>2, <1>3 DEF Alive, Made
  <2> QED  BY <1>1, <2>1, NotifiersStay
<1> QED  BY <1>4, <1>5, <1>6

(* A call takes its reference ...                                          *)
LEMMA Beginning ==
  ASSUME SessionsIInv, NEW s \in Sessions, NEW op \in {"engine", "add"}, BeginCall(s, op)
  PROVE  SessionsIInv'
<1> USE DEF SessionsIInv
<1>1. /\ UNCHANGED <<settings, owners, notifiers, listeners, inbox, tokens>>
      /\ call = Idle /\ Made(s) /\ Alive(s) /\ call' = [op |-> op, on |-> s]
      /\ strong' = Referenced(strong, {s})
  BY DEF BeginCall
<1>2. strong' \in [Sessions -> Nat]
  BY <1>1 DEF SessionsWellFormed, Referenced
<1>3. \A x \in Sessions : strong'[x] = strong[x] + IF x = s THEN 1 ELSE 0
  BY <1>1 DEF Referenced
<1>4. EventsWellFormed' /\ CallWellFormed'
  BY <1>1 DEF EventsWellFormed, CallWellFormed, Made
<1>5. SessionsWellFormed'
  BY <1>1, <1>2 DEF SessionsWellFormed
<1>6. Unmade'
  BY <1>1, <1>3 DEF Unmade, Made
<1>7. ReferencesCounted'
  <2> SUFFICES ASSUME NEW x \in Sessions
               PROVE  strong'[x] = Cardinality(ErrorsIn(inbox, x)) + InCall(x)'
    BY <1>1 DEF ReferencesCounted, ErrorsIn
  <2>1. InCall(x) = 0 /\ InCall(x)' = IF x = s THEN 1 ELSE 0
    BY <1>1 DEF InCall, Idle
  <2>2. strong[x] = Cardinality(ErrorsIn(inbox, x)) + InCall(x)
    BY DEF ReferencesCounted
  <2>3. Cardinality(ErrorsIn(inbox, x)) \in Nat
    BY InboxCounted
  <2> QED  BY <1>3, <2>1, <2>2, <2>3
<1>8. NotifiersRemovable'
  <2>1. ASSUME NEW x \in Sessions, x # s PROVE Alive(x)' => Alive(x)
    <3>1. strong'[x] = strong[x] + 0
      BY <1>3, <2>1
    <3>2. strong'[x] = strong[x]
      BY <3>1 DEF SessionsWellFormed
    <3> QED  BY <1>1, <3>2 DEF Alive, Made
  <2> QED  BY <1>1, <2>1, NotifiersStay
<1> QED  BY <1>4, <1>5, <1>6, <1>7, <1>8

(* ... and gives it back.                                                  *)
LEMMA Ending ==
  ASSUME SessionsIInv, NEW op, During(op), NEW throws, EndCall(throws),
         UNCHANGED <<settings, owners, inbox>>
  PROVE  /\ EventsWellFormed' /\ CallWellFormed' /\ ReferencesCounted'
         /\ strong' \in [Sessions -> Nat]
         /\ call.on \in Sessions /\ Made(call.on) /\ Alive(call.on)
         /\ \A x \in Sessions : x # call.on => strong'[x] = strong[x]
         /\ \A x \in Sessions : Alive(x)' => Alive(x)
<1> USE DEF SessionsIInv
<1>1. call # Idle /\ call.on \in Sessions /\ Made(call.on)
  BY DEF During, CallWellFormed
<1>2. call' = Idle /\ strong' = [s \in Sessions |-> strong[s] - IF s = call.on THEN 1 ELSE 0]
  BY DEF EndCall, Weakened
<1>3. ASSUME NEW x \in Sessions
      PROVE  /\ strong'[x] = strong[x] - InCall(x)
             /\ strong[x] = Cardinality(ErrorsIn(inbox, x)) + InCall(x)
             /\ InCall(x)' = 0 /\ InCall(x) = IF x = call.on THEN 1 ELSE 0
             /\ Cardinality(ErrorsIn(inbox, x)) \in Nat
  <2>1. InCall(x)' = 0 /\ InCall(x) = IF x = call.on THEN 1 ELSE 0
    BY <1>1, <1>2 DEF InCall
  <2>2. strong'[x] = strong[x] - InCall(x)
    BY <1>2, <2>1
  <2>3. strong[x] = Cardinality(ErrorsIn(inbox, x)) + InCall(x)
    BY DEF ReferencesCounted
  <2> QED  BY <2>1, <2>2, <2>3, InboxCounted
<1>4. \A x \in Sessions : strong'[x] = Cardinality(ErrorsIn(inbox, x)) /\ strong'[x] \in Nat
  BY <1>3
<1>5. strong' \in [Sessions -> Nat]
  BY <1>2, <1>4
<1>6. ReferencesCounted'
  <2> SUFFICES ASSUME NEW x \in Sessions
               PROVE  strong'[x] = Cardinality(ErrorsIn(inbox, x)) + InCall(x)'
    BY DEF ReferencesCounted, ErrorsIn
  <2> QED  BY <1>3, <1>4
<1>7. EventsWellFormed' /\ CallWellFormed'
  BY <1>2 DEF EventsWellFormed, CallWellFormed
<1>8. strong[call.on] > 0
  BY <1>1, <1>3
<1>9. \A x \in Sessions : strong'[x] > 0 => strong[x] > 0
  BY <1>3
<1>10. ASSUME NEW x \in Sessions, Alive(x)'
       PROVE  Alive(x)
  <2>1. Made(x) /\ (owners[x] # {} \/ strong'[x] > 0)
    BY <1>10 DEF Alive, Made
  <2> QED  BY <1>9, <2>1 DEF Alive
<1>11. \A x \in Sessions : x # call.on => strong'[x] = strong[x]
  BY <1>2 DEF SessionsWellFormed
<1>12. Alive(call.on)
  BY <1>1, <1>8 DEF Alive
<1> QED  BY <1>1, <1>5, <1>6, <1>7, <1>10, <1>11, <1>12

LEMMA Calling ==
  ASSUME SessionsIInv, EngineBody
  PROVE  SessionsIInv'
<1>1. /\ During("engine") /\ \E throws \in BOOLEAN : EndCall(throws)
      /\ UNCHANGED <<settings, owners, notifiers, listeners, inbox, tokens>>
  BY DEF EngineBody
<1>2. /\ EventsWellFormed' /\ CallWellFormed' /\ ReferencesCounted'
      /\ strong' \in [Sessions -> Nat] /\ call.on \in Sessions /\ Made(call.on)
      /\ \A x \in Sessions : x # call.on => strong'[x] = strong[x]
      /\ \A x \in Sessions : Alive(x)' => Alive(x)
  BY <1>1, Ending
<1>3. SessionsWellFormed'
  BY <1>1, <1>2 DEF SessionsIInv, SessionsWellFormed
<1>4. Unmade'
  BY <1>1, <1>2 DEF SessionsIInv, Unmade, Made
<1>5. NotifiersRemovable'
  BY <1>1, <1>2, NotifiersStay
<1> QED  BY <1>2, <1>3, <1>4, <1>5 DEF SessionsIInv

(* A callback that has no entry has no notifier at a session that lives,   *)
(* so that its new entry takes nothing away.                               *)
LEMMA Adding ==
  ASSUME SessionsIInv, NEW kind \in Kinds, NEW c \in Callbacks,
         NEW indefinite \in BOOLEAN, NEW valid, AddBody(kind, c, indefinite, valid)
  PROVE  SessionsIInv'
<1> USE DEF SessionsIInv
<1> DEFINE s == call.on
           made == [kind |-> kind, callback |-> c, token |-> tokens, indefinite |-> indefinite]
           entry == [on |-> s, token |-> tokens]
<1>1. During("add") /\ EndCall(Refused(kind, c, valid)) /\ UNCHANGED <<settings, owners, inbox>>
  BY DEF AddBody
<1>2. /\ EventsWellFormed' /\ CallWellFormed' /\ ReferencesCounted'
      /\ strong' \in [Sessions -> Nat] /\ s \in Sessions /\ Made(s)
      /\ \A x \in Sessions : x # s => strong'[x] = strong[x]
      /\ \A x \in Sessions : Alive(x)' => Alive(x)
  BY <1>1, Ending
<1>3. CASE UNCHANGED <<notifiers, listeners, tokens>>
  <2>1. SessionsWellFormed'
    BY <1>1, <1>2, <1>3 DEF SessionsWellFormed
  <2>2. Unmade'
    BY <1>1, <1>2, <1>3 DEF Unmade, Made
  <2>3. NotifiersRemovable'
    BY <1>2, <1>3, NotifiersStay
  <2> QED  BY <1>2, <2>1, <2>2, <2>3
<1>4. CASE /\ ~Registered(kind, c)
           /\ tokens' = tokens + 1
           /\ notifiers' = [notifiers EXCEPT ![s] = @ \cup {made}]
           /\ listeners' = [listeners EXCEPT ![kind] =
                [x \in DOMAIN @ \cup {c} |-> IF x = c THEN entry ELSE @[x]]]
  <2>1. made \in Notifiers
    BY DEF SessionsWellFormed, Notifiers
  <2>2. /\ notifiers'[s] = notifiers[s] \cup {made}
        /\ \A x \in Sessions : x # s => notifiers'[x] = notifiers[x]
        /\ notifiers' \in [Sessions -> SUBSET Notifiers]
    <3> HIDE DEF made, s
    <3> QED  BY <1>2, <1>4, <2>1 DEF SessionsWellFormed
  <2>3. \A x \in Sessions : IsFiniteSet(notifiers'[x])
    <3>1. IsFiniteSet(notifiers[s] \cup {made})
      <4>1. IsFiniteSet(notifiers[s])
        BY <1>2 DEF SessionsWellFormed
      <4> HIDE DEF made, s
      <4> QED  BY <4>1, FS_AddElement
    <3> HIDE DEF made, s
    <3> QED  BY <2>2, <3>1 DEF SessionsWellFormed
  <2>4. listeners' = [k \in Kinds |-> listeners'[k]]
    BY <1>4 DEF SessionsWellFormed
  <2>5. SessionsWellFormed'
    <3>1. tokens' \in Nat
      BY <1>4 DEF SessionsWellFormed
    <3> HIDE DEF made, s, entry
    <3> QED  BY <1>1, <1>2, <2>2, <2>3, <2>4, <3>1 DEF SessionsWellFormed
  <2>6. Unmade'
    <3> HIDE DEF made, s, entry
    <3> QED  BY <1>1, <1>2, <2>2 DEF Unmade, Made
  <2>7. NotifiersRemovable'
    <3>1. SUFFICES ASSUME NEW x \in Sessions, Alive(x)', NEW n \in notifiers'[x]
                   PROVE  /\ n.callback \in DOMAIN listeners'[n.kind]
                          /\ listeners'[n.kind][n.callback] = [on |-> x, token |-> n.token]
      BY Zenon DEF NotifiersRemovable, Registered
    <3>2. listeners'[kind] = [y \in DOMAIN listeners[kind] \cup {c} |->
                                IF y = c THEN entry ELSE listeners[kind][y]]
      BY <1>4 DEF SessionsWellFormed
    <3>3. \A k \in Kinds : k # kind => listeners'[k] = listeners[k]
      BY <1>4 DEF SessionsWellFormed
    <3>4. CASE n \in notifiers[x]
      <4>1. n.callback \in DOMAIN listeners[n.kind] /\ n.kind \in Kinds
            /\ listeners[n.kind][n.callback] = [on |-> x, token |-> n.token]
        BY <1>2, <3>1, <3>4 DEF NotifiersRemovable, Registered, SessionsWellFormed, Notifiers
      <4>2. n.kind = kind => n.callback # c
        BY <1>4, <4>1 DEF Registered
      <4> HIDE DEF entry, made, s
      <4> QED  BY <3>2, <3>3, <4>1, <4>2
    <3>5. CASE n \notin notifiers[x]
      <4>1. x = s /\ n = made
        <5> HIDE DEF made, s
        <5> QED  BY <2>2, <3>1, <3>5
      <4> QED  BY <3>2, <4>1
    <3> QED  BY <3>4, <3>5
  <2> QED  BY <1>2, <2>5, <2>6, <2>7
<1>5. Refused(kind, c, valid) \/ ~Registered(kind, c)
  BY DEF Refused
<1> QED  BY <1>3, <1>4, <1>5 DEF AddBody

(* What is removed was the only registration of its callback.              *)
LEMMA Removing ==
  ASSUME SessionsIInv, NEW kind \in Kinds, NEW c \in Callbacks, RemoveListener(kind, c)
  PROVE  SessionsIInv'
<1> USE DEF SessionsIInv
<1> DEFINE entry == listeners[kind][c]
           left(x) == {n \in notifiers[x] : n.token # entry.token}
<1>1. /\ UNCHANGED <<settings, owners, strong, inbox, call, tokens>>
      /\ listeners' = [listeners EXCEPT ![kind] = [x \in DOMAIN @ \ {c} |-> @[x]]]
      /\ notifiers' = IF Alive(entry.on) THEN [notifiers EXCEPT ![entry.on] = left(entry.on)]
                      ELSE notifiers
  BY DEF RemoveListener
<1>2. /\ listeners' = [k \in Kinds |-> listeners'[k]]
      /\ listeners'[kind] = [x \in DOMAIN listeners[kind] \ {c} |-> listeners[kind][x]]
      /\ \A k \in Kinds : k # kind => listeners'[k] = listeners[k]
  BY <1>1 DEF SessionsWellFormed
<1>3. /\ DOMAIN notifiers' = Sessions /\ notifiers' = [x \in Sessions |-> notifiers'[x]]
      /\ \A x \in Sessions :
           notifiers'[x] = IF Alive(entry.on) /\ x = entry.on THEN left(x) ELSE notifiers[x]
  <2> HIDE DEF entry, left
  <2> QED  BY <1>1 DEF SessionsWellFormed
<1>4. \A x \in Sessions : left(x) \subseteq notifiers[x]
  OBVIOUS
<1>5. \A x \in Sessions : notifiers'[x] \subseteq notifiers[x]
  <2> HIDE DEF entry, left
  <2> QED  BY <1>3, <1>4
<1>6. EventsWellFormed' /\ CallWellFormed' /\ ReferencesCounted'
  BY <1>1 DEF EventsWellFormed, CallWellFormed, ReferencesCounted, InCall, Made
<1>7. SessionsWellFormed'
  <2>1. \A x \in Sessions : IsFiniteSet(notifiers'[x])
    BY <1>5, FS_Subset DEF SessionsWellFormed
  <2>2. notifiers' \in [Sessions -> SUBSET Notifiers]
    BY <1>3, <1>5 DEF SessionsWellFormed
  <2>3. listeners' = [k \in Kinds |-> listeners'[k]]
    BY <1>2
  <2> HIDE DEF entry, left
  <2> QED  BY <1>1, <2>1, <2>2, <2>3 DEF SessionsWellFormed
<1>8. Unmade'
  BY <1>1, <1>5 DEF Unmade
<1>9. NotifiersRemovable'
  <2>1. SUFFICES ASSUME NEW x \in Sessions, Alive(x)', NEW n \in notifiers'[x]
                 PROVE  /\ n.callback \in DOMAIN listeners'[n.kind]
                        /\ listeners'[n.kind][n.callback] = [on |-> x, token |-> n.token]
    BY Zenon DEF NotifiersRemovable, Registered
  <2>2. Alive(x) /\ n \in notifiers[x]
    BY <1>1, <1>5, <2>1 DEF Alive, Made
  <2>3. n.callback \in DOMAIN listeners[n.kind] /\ n.kind \in Kinds
        /\ listeners[n.kind][n.callback] = [on |-> x, token |-> n.token]
    BY <2>2 DEF NotifiersRemovable, Registered, SessionsWellFormed, Notifiers
  <2>4. ~(n.kind = kind /\ n.callback = c)
    <3> SUFFICES ASSUME n.kind = kind, n.callback = c PROVE FALSE
      OBVIOUS
    <3>1. entry.on = x /\ entry.token = n.token
      BY <2>3
    <3>2. n \in left(x)
      <4> HIDE DEF entry, left
      <4> QED  BY <1>3, <2>1, <2>2, <3>1
    <3> QED  BY <3>1, <3>2
  <2> QED  BY <1>2, <2>3, <2>4
<1> QED  BY <1>6, <1>7, <1>8, <1>9

(* What an occurrence posts are no errors.                                 *)
LEMMA Posting ==
  ASSUME SessionsIInv, NEW s \in Sessions, NEW kind, NEW event, "what" \in DOMAIN event,
         event.what \in {"connection", "progress"}, Post(s, kind, event)
  PROVE  /\ EventsWellFormed' /\ \A x : ErrorsIn(inbox', x) = ErrorsIn(inbox, x)
         /\ \A i \in 1..Len(inbox') : \/ i \in 1..Len(inbox) /\ inbox'[i] = inbox[i]
                                      \/ inbox'[i].what \in {"connection", "progress"}
<1> DEFINE hear == {n \in notifiers[s] : n.kind = kind}
           F == {[event EXCEPT !.notifier = n] : n \in hear}
<1>1. IsFiniteSet(hear) /\ Cardinality(hear) \in Nat
  <2>1. IsFiniteSet(notifiers[s])
    BY DEF SessionsIInv, SessionsWellFormed
  <2> QED  BY <2>1, FS_Subset, FS_CardinalityType
<1>2. PICK order \in [1..Cardinality(hear) -> hear] :
        inbox' = inbox \o [i \in DOMAIN order |-> [event EXCEPT !.notifier = order[i]]]
  BY Zenon DEF Post
<1> DEFINE others == [i \in DOMAIN order |-> [event EXCEPT !.notifier = order[i]]]
<1>3. others \in Seq(F)
  <2> DEFINE N == Cardinality(hear)
  <2>1. others \in [1..N -> F]
    BY <1>2
  <2> HIDE DEF others, F, N
  <2>2. N \in Nat
    BY <1>1 DEF N
  <2> QED  BY <2>1, <2>2, SeqDef
<1>4. \A e \in F : e.what \in {"connection", "progress"}
  <2>1. ASSUME NEW n PROVE [event EXCEPT !.notifier = n].what = event.what
    BY Zenon
  <2> QED  BY <2>1
<1> HIDE DEF others, F
<1>5. /\ Len(others) \in Nat
      /\ \A i \in 1..Len(others) : others[i].what \in {"connection", "progress"}
  BY <1>3, <1>4
<1>6. PICK E : inbox \in Seq(E)
  BY DEF SessionsIInv, EventsWellFormed
<1>7. inbox' = inbox \o others
  BY <1>2 DEF others
<1>8. ASSUME NEW x PROVE ErrorsIn(inbox', x) = ErrorsIn(inbox, x)
  <2>1. \A i \in 1..Len(others) : others[i].what # "error"
    BY <1>5
  <2>2. ErrorsIn(inbox \o others, x) = ErrorsIn(inbox, x)
    BY <1>3, <1>6, <2>1, ErrorsBefore
  <2> QED  BY <1>7, <2>2
<1>9. /\ EventsWellFormed'
      /\ \A i \in 1..Len(inbox') : \/ i \in 1..Len(inbox) /\ inbox'[i] = inbox[i]
                                   \/ inbox'[i].what \in {"connection", "progress"}
  <2> DEFINE G == E \cup F
             n == Len(inbox)
  <2>1. inbox \in Seq(G) /\ others \in Seq(G)
    BY <1>3, <1>6, SeqMonotonic
  <2>2. /\ Len(inbox') = n + Len(others) /\ inbox' \in Seq(G)
        /\ \A i \in 1..(n + Len(others)) : inbox'[i] = IF i <= n THEN inbox[i] ELSE others[i - n]
    <3> HIDE DEF G
    <3>1. /\ Len(inbox \o others) = n + Len(others) /\ inbox \o others \in Seq(G)
          /\ \A i \in 1..(n + Len(others)) :
               (inbox \o others)[i] = IF i <= n THEN inbox[i] ELSE others[i - n]
      BY <2>1, ConcatProperties, Zenon
    <3> QED  BY <1>7, <3>1
  <2>3. n \in Nat
    BY <1>6
  <2>4. \A i \in 1..n : IsEvent(inbox[i])
    BY DEF SessionsIInv, EventsWellFormed
  <2> HIDE DEF n, G
  <2>5. ASSUME NEW i \in 1..(n + Len(others))
        PROVE  \/ i \in 1..n /\ inbox'[i] = inbox[i]
               \/ inbox'[i].what \in {"connection", "progress"}
    <3>1. CASE i <= n
      BY <1>5, <2>2, <2>3, <3>1
    <3>2. CASE ~(i <= n)
      <4>1. i - n \in 1..Len(others)
        BY <1>5, <2>3, <3>2
      <4> QED  BY <1>5, <2>2, <3>2, <4>1
    <3> QED  BY <3>1, <3>2
  <2>6. \E Events : inbox' \in Seq(Events)
    BY <2>2
  <2>7. \A i \in 1..(n + Len(others)) : IsEvent(inbox'[i])
    BY <2>4, <2>5 DEF IsEvent
  <2>8. EventsWellFormed'
    BY <2>2, <2>6, <2>7 DEF EventsWellFormed, IsEvent
  <2> QED  BY <2>2, <2>5, <2>8 DEF n
<1> QED  BY <1>8, <1>9

LEMMA Occurring ==
  ASSUME SessionsIInv, NEW s \in Sessions,
         (\E state : ConnectionChanges(s, state)) \/ WorkDone(s)
  PROVE  SessionsIInv'
<1> USE DEF SessionsIInv
<1>1. /\ UNCHANGED <<settings, owners, strong, listeners, call, tokens>>
      /\ EventsWellFormed' /\ \A x : ErrorsIn(inbox', x) = ErrorsIn(inbox, x)
      /\ \/ UNCHANGED notifiers
         \/ notifiers' = [notifiers EXCEPT ![s] =
                            {n \in @ : n.kind = "connection" \/ n.indefinite}]
  <2>1. CASE WorkDone(s)
    <3> DEFINE event == [what |-> "progress", notifier |-> Nothing]
    <3>1. "what" \in DOMAIN event /\ event.what \in {"connection", "progress"}
      OBVIOUS
    <3>2. Post(s, "progress", event)
      BY <2>1 DEF WorkDone
    <3> HIDE DEF event
    <3>3. EventsWellFormed' /\ \A x : ErrorsIn(inbox', x) = ErrorsIn(inbox, x)
      BY <3>1, <3>2, Posting
    <3> QED  BY <2>1, <3>3 DEF WorkDone
  <2>2. CASE \E state : ConnectionChanges(s, state)
    <3>1. PICK state : ConnectionChanges(s, state)
      BY <2>2
    <3> DEFINE event == [what |-> "connection", on |-> s, notifier |-> Nothing,
                         old |-> connection[s], new |-> state]
    <3>2. "what" \in DOMAIN event /\ event.what \in {"connection", "progress"}
      OBVIOUS
    <3>3. Post(s, "connection", event)
      BY <3>1 DEF ConnectionChanges
    <3> HIDE DEF event
    <3>4. EventsWellFormed' /\ \A x : ErrorsIn(inbox', x) = ErrorsIn(inbox, x)
      BY <3>2, <3>3, Posting
    <3> QED  BY <3>1, <3>4 DEF ConnectionChanges
  <2> QED  BY <2>1, <2>2
<1>2. CallWellFormed'
  BY <1>1 DEF CallWellFormed, Made
<1>3. ReferencesCounted'
  BY <1>1 DEF ReferencesCounted, InCall
<1>4. notifiers' = [x \in Sessions |-> notifiers'[x]]
      /\ \A x \in Sessions : notifiers'[x] \subseteq notifiers[x]
  BY <1>1 DEF SessionsWellFormed
<1>5. SessionsWellFormed'
  <2>1. \A x \in Sessions : IsFiniteSet(notifiers'[x])
    BY <1>4, FS_Subset DEF SessionsWellFormed
  <2>2. notifiers' \in [Sessions -> SUBSET Notifiers]
    BY <1>4 DEF SessionsWellFormed
  <2> QED  BY <1>1, <2>1, <2>2 DEF SessionsWellFormed
<1>6. Unmade'
  BY <1>1, <1>4 DEF Unmade
<1>7. NotifiersRemovable'
  BY <1>1, <1>4 DEF NotifiersRemovable, Registered, Alive, Made
<1> QED  BY <1>1, <1>2, <1>3, <1>5, <1>6, <1>7

(* An error comes with a reference.                                        *)
LEMMA Raising ==
  ASSUME SessionsIInv, NEW s \in Sessions, NEW e, IsEvent(e), Alive(s),
         e.what = "error" => e.on = s,
         inbox' = Append(inbox, e),
         strong' = IF e.what = "error" THEN Referenced(strong, {s}) ELSE strong,
         UNCHANGED <<settings, owners, notifiers, listeners, call, tokens>>
  PROVE  SessionsIInv'
<1> USE DEF SessionsIInv
<1>1. PICK E : inbox \in Seq(E)
  BY DEF EventsWellFormed
<1>2. \A x \in Sessions :
        strong'[x] = IF e.what = "error" /\ x = s THEN strong[x] + 1 ELSE strong[x]
  <2>1. CASE e.what = "error"
    <3>1. \A x \in Sessions : strong'[x] = strong[x] + IF x = s THEN 1 ELSE 0
      BY <2>1 DEF Referenced
    <3>2. \A x \in Sessions : strong[x] + 0 = strong[x]
      BY DEF SessionsWellFormed
    <3> QED  BY <2>1, <3>1, <3>2
  <2>2. CASE e.what # "error"
    BY <2>2
  <2> QED  BY <2>1, <2>2
<1>3. strong' \in [Sessions -> Nat]
  BY DEF Referenced, SessionsWellFormed
<1>4. EventsWellFormed'
  <2> DEFINE G == E \cup {e}
             n == Len(inbox)
  <2>1. n \in Nat /\ inbox \in Seq(G) /\ e \in G
    BY <1>1, SeqMonotonic
  <2>2. /\ Len(inbox') = n + 1 /\ inbox' \in Seq(G)
        /\ inbox'[n + 1] = e /\ \A i \in 1..n : inbox'[i] = inbox[i]
    BY <2>1, AppendProperties
  <2>3. \A i \in 1..n : IsEvent(inbox[i])
    BY DEF EventsWellFormed
  <2> HIDE DEF n, G
  <2>4. \A i \in 1..(n + 1) : i = n + 1 \/ i \in 1..n
    BY <2>1
  <2>5. \A i \in 1..(n + 1) : IsEvent(inbox'[i])
    BY <2>2, <2>3, <2>4
  <2>6. \E Events : inbox' \in Seq(Events)
    BY <2>2
  <2> QED  BY <2>2, <2>5, <2>6 DEF EventsWellFormed, IsEvent
<1>5. CallWellFormed' /\ SessionsWellFormed'
  BY <1>3 DEF CallWellFormed, SessionsWellFormed, Made
<1>6. Unmade'
  <2>1. \A x \in Sessions : x # s => strong'[x] = strong[x]
    BY <1>2
  <2>2. s \in DOMAIN settings
    BY DEF Alive, Made
  <2> QED  BY <2>1, <2>2 DEF Unmade
<1>7. ReferencesCounted'
  <2> SUFFICES ASSUME NEW x \in Sessions
               PROVE  strong'[x] = Cardinality(ErrorsIn(inbox', x)) + InCall(x)
    BY DEF ReferencesCounted, ErrorsIn, InCall
  <2>1. strong[x] = Cardinality(ErrorsIn(inbox, x)) + InCall(x)
    BY DEF ReferencesCounted
  <2>2. Cardinality(ErrorsIn(inbox', x)) = Cardinality(ErrorsIn(inbox, x))
                                            + (IF e.what = "error" /\ e.on = x THEN 1 ELSE 0)
    BY <1>1, ErrorsAppended
  <2>3. Cardinality(ErrorsIn(inbox, x)) \in Nat /\ InCall(x) \in Nat
    BY InboxCounted DEF InCall
  <2>4. CASE e.what = "error" /\ x = s
    <3>1. strong'[x] = strong[x] + 1
      BY <1>2, <2>4
    <3>2. Cardinality(ErrorsIn(inbox', x)) = Cardinality(ErrorsIn(inbox, x)) + 1
      BY <2>2, <2>4
    <3> QED  BY <2>1, <2>3, <3>1, <3>2
  <2>5. CASE ~(e.what = "error" /\ x = s)
    <3>1. strong'[x] = strong[x]
      BY <1>2, <2>5
    <3>2. Cardinality(ErrorsIn(inbox', x)) = Cardinality(ErrorsIn(inbox, x))
      BY <2>2, <2>3, <2>5
    <3> QED  BY <2>1, <3>1, <3>2
  <2> QED  BY <2>4, <2>5
<1>8. NotifiersRemovable'
  <2>1. ASSUME NEW x \in Sessions, x # s PROVE Alive(x)' => Alive(x)
    <3>1. strong'[x] = strong[x]
      BY <1>2, <2>1
    <3> QED  BY <3>1 DEF Alive, Made
  <2> QED  BY <2>1, NotifiersStay
<1> QED  BY <1>4, <1>5, <1>6, <1>7, <1>8

(* An event is delivered, an error with its reference given back.          *)
LEMMA Delivering ==
  ASSUME SessionsIInv, inbox # <<>>, inbox' = Tail(inbox),
         strong' = IF Head(inbox).what = "error" THEN Weakened(strong, {Head(inbox).on})
                   ELSE strong,
         UNCHANGED <<settings, owners, notifiers, listeners, call, tokens>>
  PROVE  SessionsIInv'
<1> USE DEF SessionsIInv
<1> DEFINE e == inbox[1]
           n == Len(inbox)
<1>1. PICK E : inbox \in Seq(E)
  BY DEF EventsWellFormed
<1>2. /\ Head(inbox) = e /\ n \in Nat /\ n > 0
      /\ Tail(inbox) \in Seq(E) /\ Len(Tail(inbox)) = n - 1
      /\ \A i \in 1..(n - 1) : Tail(inbox)[i] = inbox[i + 1]
  BY <1>1, HeadTailProperties
<1>3. \A i \in 1..n : IsEvent(inbox[i])
  BY DEF EventsWellFormed
<1>4. EventsWellFormed'
  <2>1. \A i \in 1..(n - 1) : i + 1 \in 1..n
    BY <1>2
  <2> HIDE DEF n
  <2>2. \A i \in 1..(n - 1) : IsEvent(inbox'[i])
    BY <1>2, <1>3, <2>1
  <2>3. \E Events : inbox' \in Seq(Events)
    BY <1>2
  <2> QED  BY <1>2, <2>2, <2>3 DEF EventsWellFormed, IsEvent
<1> HIDE DEF e, n
<1>5. ASSUME NEW x \in Sessions
      PROVE  /\ strong'[x] = Cardinality(ErrorsIn(inbox', x)) + InCall(x)
             /\ strong'[x] \in Nat /\ strong'[x] <= strong[x]
  <2>1. strong[x] = Cardinality(ErrorsIn(inbox, x)) + InCall(x)
    BY DEF ReferencesCounted
  <2>2. Cardinality(ErrorsIn(inbox', x)) = Cardinality(ErrorsIn(inbox, x))
                                            - (IF e.what = "error" /\ e.on = x THEN 1 ELSE 0)
    BY <1>1, ErrorsOfTail DEF e
  <2>3. /\ Cardinality(ErrorsIn(inbox, x)) \in Nat /\ InCall(x) \in Nat
        /\ Cardinality(ErrorsIn(inbox', x)) \in Nat
    <3>1. Len(inbox') \in Nat
      BY <1>2
    <3> QED  BY <3>1, InboxCounted, ErrorsFinite DEF InCall
  <2>4. CASE e.what = "error" /\ e.on = x
    <3>1. strong'[x] = strong[x] - 1
      BY <1>2, <2>4 DEF Weakened
    <3> QED  BY <2>1, <2>2, <2>3, <2>4, <3>1
  <2>5. CASE ~(e.what = "error" /\ e.on = x)
    <3>1. strong[x] \in Nat /\ strong[x] - 0 = strong[x]
      BY DEF SessionsWellFormed
    <3>2. strong'[x] = strong[x]
      BY <1>2, <2>5, <3>1 DEF Weakened
    <3>3. Cardinality(ErrorsIn(inbox', x)) = Cardinality(ErrorsIn(inbox, x))
      BY <2>2, <2>3, <2>5
    <3> QED  BY <2>1, <3>1, <3>2, <3>3
  <2> QED  BY <2>4, <2>5
<1>6. strong' \in [Sessions -> Nat]
  <2>1. strong' = [x \in Sessions |-> strong'[x]]
    BY DEF Weakened, SessionsWellFormed
  <2> QED  BY <1>5, <2>1
<1>7. CallWellFormed' /\ SessionsWellFormed'
  BY <1>6 DEF CallWellFormed, SessionsWellFormed, Made
<1>8. ReferencesCounted'
  BY <1>5 DEF ReferencesCounted, ErrorsIn, InCall
<1>9. Unmade'
  <2>1. ASSUME NEW x \in Sessions, strong[x] = 0 PROVE strong'[x] = 0
    <3>1. strong'[x] \in Nat /\ strong'[x] <= 0
      BY <1>5, <2>1
    <3> QED  BY <3>1
  <2> QED  BY <2>1 DEF Unmade
<1>10. NotifiersRemovable'
  <2>1. ASSUME NEW x \in Sessions PROVE Alive(x)' => Alive(x)
    <3>1. strong[x] \in Nat /\ strong'[x] \in Nat /\ strong'[x] <= strong[x]
      BY <1>5 DEF SessionsWellFormed
    <3>2. strong'[x] > 0 => strong[x] > 0
      BY <3>1
    <3> QED  BY <3>2 DEF Alive, Made
  <2> QED  BY <2>1, NotifiersStay
<1> QED  BY <1>4, <1>7, <1>8, <1>9, <1>10

-----------------------------------------------------------------------------

LEMMA SessionsStep == SessionsIInv /\ [SessionNext]_sessionVars => SessionsIInv'
<1> SUFFICES ASSUME SessionsIInv, [SessionNext]_sessionVars
             PROVE  SessionsIInv'
  OBVIOUS
<1>1. ASSUME NEW s \in Sessions, NEW error \in Errors, ErrorRaised(s, error)
      PROVE  SessionsIInv'
  <2> DEFINE e == [what |-> "error", on |-> s, error |-> error]
  <2>1. IsEvent(e) /\ e.what = "error" /\ e.on = s
    BY DEF IsEvent
  <2>2. /\ Alive(s) /\ inbox' = Append(inbox, e) /\ strong' = Referenced(strong, {s})
        /\ UNCHANGED <<settings, owners, notifiers, listeners, call, tokens>>
    BY <1>1 DEF ErrorRaised
  <2> HIDE DEF e
  <2>3. strong' = IF e.what = "error" THEN Referenced(strong, {s}) ELSE strong
    BY <2>1, <2>2
  <2> QED  BY <2>1, <2>2, <2>3, Raising
<1>2. ASSUME NEW s \in Sessions, NEW didRecover \in BOOLEAN, ResetDone(s, didRecover)
      PROVE  SessionsIInv'
  <2> DEFINE e == [what |-> "reset", on |-> s, didRecover |-> didRecover]
  <2>1. IsEvent(e) /\ e.what # "error"
    BY DEF IsEvent
  <2>2. /\ Alive(s) /\ inbox' = Append(inbox, e) /\ UNCHANGED strong
        /\ UNCHANGED <<settings, owners, notifiers, listeners, call, tokens>>
    BY <1>2 DEF ResetDone, ResetPossible
  <2> HIDE DEF e
  <2>3. strong' = IF e.what = "error" THEN Referenced(strong, {s}) ELSE strong
    BY <2>1, <2>2
  <2> QED  BY <2>1, <2>2, <2>3, Raising
<1>3. CASE Acts
  <2>1. ASSUME NEW c \in Callbacks, NEW indefinite \in BOOLEAN, NEW valid \in BOOLEAN,
               AddBody("progress", c, indefinite, valid)
        PROVE  SessionsIInv'
    <3>1. "progress" \in Kinds
      BY DEF Kinds
    <3> QED  BY <2>1, <3>1, Adding
  <2>2. ASSUME NEW c \in Callbacks, AddBody("connection", c, TRUE, TRUE)
        PROVE  SessionsIInv'
    <3>1. "connection" \in Kinds
      BY DEF Kinds
    <3> QED  BY <2>2, <3>1, Adding
  <2>3. ASSUME NEW s \in Sessions, NEW state \in ConnectionStates, ConnectionChanges(s, state)
        PROVE  SessionsIInv'
    BY <2>3, Occurring
  <2> QED  BY <1>1, <1>2, <1>3, <2>1, <2>2, <2>3, Opening, Looking, Beginning, Calling,
              Removing, Disowning, Occurring DEF Acts
<1>4. CASE DeliverConnection \/ DeliverProgress \/ DeliverReset
  <2>1. /\ inbox # <<>> /\ Head(inbox).what # "error" /\ inbox' = Tail(inbox)
        /\ UNCHANGED <<settings, owners, strong, notifiers, listeners, call, tokens>>
    BY <1>4 DEF DeliverConnection, DeliverProgress, DeliverReset, NextEvent
  <2> QED  BY <2>1, Delivering
<1>5. CASE DeliverError
  <2>1. /\ inbox # <<>> /\ Head(inbox).what = "error" /\ inbox' = Tail(inbox)
        /\ strong' = Weakened(strong, {Head(inbox).on})
        /\ UNCHANGED <<settings, owners, notifiers, listeners, call, tokens>>
    BY <1>5 DEF DeliverError, NextEvent
  <2> QED  BY <2>1, Delivering
<1>6. CASE \/ UNCHANGED sessionVars
           \/ \E s \in Sessions, error \in Errors : ErrorUnheard(s, error)
           \/ \E s \in Sessions, didRecover \in BOOLEAN : ResetUnheard(s, didRecover)
  <2>1. UNCHANGED <<settings, owners, strong, notifiers, listeners, inbox, call, tokens>>
    BY <1>6 DEF sessionVars, ErrorUnheard, ResetUnheard
  <2>2. EventsWellFormed' /\ CallWellFormed'
    BY <2>1 DEF SessionsIInv, EventsWellFormed, CallWellFormed, Made
  <2>3. SessionsWellFormed' /\ Unmade'
    BY <2>1 DEF SessionsIInv, SessionsWellFormed, Unmade
  <2>4. ReferencesCounted'
    BY <2>1 DEF SessionsIInv, ReferencesCounted, InCall
  <2>5. NotifiersRemovable'
    BY <2>1, NotifiersStay DEF Alive, Made
  <2> QED  BY <2>2, <2>3, <2>4, <2>5 DEF SessionsIInv
<1> QED  BY <1>3, <1>4, <1>5, <1>6 DEF SessionNext

(* Between the calls of the application the only references JavaScript has *)
(* to a session are those of errors that are not delivered yet, and each   *)
(* callback a live session would call has its entry in the registry, so    *)
(* that it can be removed (patch.ts:89-106, SyncSession.ts:294-330,        *)
(* Listeners.ts:42-57).                                                    *)
THEOREM Released == SessionSpec => []SessionsReleased
<1>1. SessionInit => SessionsIInv
  BY SessionsInitially
<1>2. SessionsIInv /\ [SessionNext]_sessionVars => SessionsIInv'
  BY SessionsStep
<1>3. SessionsIInv => SessionsReleased
  BY InvariantReleases
<1> QED  BY <1>1, <1>2, <1>3, PTL DEF SessionSpec

-----------------------------------------------------------------------------
(* Callbacks *)

(* A session keeps the configuration it was opened with, and that was      *)
(* valid and gave somebody to tell.                                        *)
Choice(config) == config \in Configs /\ Valid(config) /\ ~NoHandler(config)
Chosen == \A s \in DOMAIN settings : Choice(settings[s])

(* What waits for the application is about a session that was made, and a  *)
(* reset is told of only to one that asked for it.                         *)
Announced(e) ==
  e.what \in {"error", "reset"} =>
    e.on \in DOMAIN settings /\ (e.what = "reset" => AfterReset(settings[e.on]) # "none")
Announcements == \A i \in 1..Len(inbox) : Announced(inbox[i])

(* What was delivered was delivered for a session that was made.           *)
Delivered == told.what \in {"error", "reset"} => told.on \in DOMAIN settings

CallbacksIInv == Chosen /\ Announcements /\ Delivered /\ CallbacksReached

(* The engine was given what the configuration says.                       *)
LEMMA GivenIs ==
  ASSUME Chosen, NEW s \in DOMAIN settings
  PROVE  /\ Given(s).handler = ErrorHandler(settings[s])
         /\ Given(s).after = AfterReset(settings[s])
BY DEF Chosen, Choice, Given, BindingConfigs, BindingConfig

(* The handler that is made of onError and onManual tells the one that is  *)
(* meant.                                                                  *)
LEMMA HandlerTells ==
  ASSUME NEW config, NEW error, ~NoHandler(config)
  PROVE  ToldOfError(ErrorHandler(config), error) = ErrorCallback(config, error)
<1> DEFINE h == ErrorHandler(config)
           class == ErrorClass(error)
<1>1. /\ h = "both" => ToldOfError(h, error) = {IF class = "ClientResetError" THEN "onManual" ELSE "onError"}
      /\ h = "onError" => ToldOfError(h, error) = {"onError"}
      /\ h = "onManual" => ToldOfError(h, error) = IF class = "ClientResetError" THEN {"onManual"} ELSE {}
      /\ h = "none" => ToldOfError(h, error) = {}
  BY DEF ToldOfError
<1> HIDE DEF class
<1>2. CASE config.mode # "manual"
  <2>1. h = IF config.onError THEN "onError" ELSE "none"
    BY <1>2 DEF ErrorHandler
  <2>2. ErrorCallback(config, error) = IF config.onError THEN {"onError"} ELSE {}
    BY <1>2 DEF ErrorCallback
  <2> HIDE DEF h
  <2> QED  BY <1>1, <2>1, <2>2 DEF h
<1>3. CASE config.mode = "manual"
  <2>1. h = IF config.onError /\ config.onManual THEN "both"
            ELSE IF config.onError THEN "onError" ELSE "onManual"
    BY <1>3 DEF ErrorHandler
  <2>2. ErrorCallback(config, error)
          = IF config.onManual /\ class = "ClientResetError" THEN {"onManual"}
            ELSE IF config.onError THEN {"onError"} ELSE {}
    BY <1>3 DEF ErrorCallback, class
  <2>3. config.onError \/ config.onManual
    BY <1>3 DEF NoHandler
  <2> HIDE DEF h
  <2> QED  BY <1>1, <2>1, <2>2, <2>3 DEF h
<1> QED  BY <1>2, <1>3

(* The callback after a reset tells the one that is meant, and where there *)
(* is none, nobody is meant or it was dropped.                             *)
LEMMA ResetTells ==
  ASSUME NEW config, NEW didRecover, config.mode \in Modes \cup {"none"}
  PROVE  LET by == ToldOfReset(AfterReset(config), didRecover, config.onFallback) IN
         \/ by = ResetCallback(config, didRecover)
         \/ FallbackDropped(config) /\ by = {}
<1>1. CASE config.mode \in {"none", "manual"} \/ ~config.onAfter
  <2>1. AfterReset(config) = "none"
    BY <1>1 DEF AfterReset
  <2>2. ToldOfReset(AfterReset(config), didRecover, config.onFallback) = {}
    BY <2>1 DEF ToldOfReset
  <2>3. ResetCallback(config, didRecover) = {} \/ FallbackDropped(config)
    BY <1>1 DEF ResetCallback, FallbackDropped
  <2> QED  BY <2>2, <2>3
<1>2. CASE config.mode = "discardUnsyncedChanges" /\ config.onAfter
  <2>1. AfterReset(config) = "after"
    BY <1>2 DEF AfterReset
  <2> QED  BY <1>2, <2>1 DEF ToldOfReset, ResetCallback
<1>3. CASE config.mode \notin {"none", "manual", "discardUnsyncedChanges"} /\ config.onAfter
  <2>1. AfterReset(config) = "afterOrFallback"
    BY <1>3 DEF AfterReset
  <2> QED  BY <1>3, <2>1 DEF ToldOfReset, ResetCallback
<1> QED  BY <1>1, <1>2, <1>3

(* What stays true while sessions are made and events are delivered.       *)
LEMMA Announcing ==
  ASSUME Chosen, Announcements,
         \A s \in DOMAIN settings : s \in DOMAIN settings' /\ settings'[s] = settings[s],
         \A i \in 1..Len(inbox') :
            \/ \E j \in 1..Len(inbox) : inbox'[i] = inbox[j]
            \/ inbox'[i].what \in {"connection", "progress"}
            \/ inbox'[i].what = "error" /\ inbox'[i].on \in DOMAIN settings
            \/ /\ inbox'[i].what = "reset" /\ inbox'[i].on \in DOMAIN settings
               /\ AfterReset(settings[inbox'[i].on]) # "none"
  PROVE  Announcements'
<1> SUFFICES ASSUME NEW i \in 1..Len(inbox')
             PROVE  LET e == inbox'[i] IN
                    e.what \in {"error", "reset"} =>
                      /\ e.on \in DOMAIN settings'
                      /\ e.what = "reset" => AfterReset(settings'[e.on]) # "none"
  BY DEF Announcements, Announced
<1> DEFINE e == inbox'[i]
<1>1. \A s \in DOMAIN settings : s \in DOMAIN settings' /\ settings'[s] = settings[s]
  OBVIOUS
<1>2. e.what \in {"error", "reset"} =>
        /\ e.on \in DOMAIN settings
        /\ e.what = "reset" => AfterReset(settings[e.on]) # "none"
  <2>1. CASE \E j \in 1..Len(inbox) : e = inbox[j]
    BY <2>1 DEF Announcements, Announced
  <2>2. CASE ~\E j \in 1..Len(inbox) : e = inbox[j]
    BY <2>2
  <2> QED  BY <2>1, <2>2
<1> HIDE DEF e
<1>3. e.what \in {"error", "reset"} =>
        /\ e.on \in DOMAIN settings'
        /\ e.what = "reset" => AfterReset(settings'[e.on]) # "none"
  BY <1>1, <1>2
<1> QED  BY <1>3 DEF e

LEMMA CallbacksInitially == SessionInit => CallbacksIInv
<1> SUFFICES ASSUME SessionInit PROVE CallbacksIInv
  OBVIOUS
<1>1. DOMAIN settings = {} /\ Len(inbox) = 0
  BY DEF SessionInit
<1>2. told.what = "nothing"
  BY DEF SessionInit, Nothing
<1>3. Chosen /\ Announcements
  BY <1>1 DEF Chosen, Announcements
<1>4. Delivered /\ CallbacksReached
  BY <1>2 DEF Delivered, CallbacksReached, ErrorsReachOne, ResetsReachRightCallback
<1> QED  BY <1>3, <1>4 DEF CallbacksIInv

(* A step of the application or of the engine: sessions keep their         *)
(* configurations, and an event is posted only about one that was made.    *)
LEMMA ActsAnnounce ==
  ASSUME SessionsIInv, Chosen, Announcements, Acts
  PROVE  Chosen' /\ Announcements'
<1> DEFINE Kept == \A s \in DOMAIN settings : s \in DOMAIN settings' /\ settings'[s] = settings[s]
           Posted == \A i \in 1..Len(inbox') :
             \/ \E j \in 1..Len(inbox) : inbox'[i] = inbox[j]
             \/ inbox'[i].what \in {"connection", "progress"}
             \/ inbox'[i].what = "error" /\ inbox'[i].on \in DOMAIN settings
             \/ /\ inbox'[i].what = "reset" /\ inbox'[i].on \in DOMAIN settings
                /\ AfterReset(settings[inbox'[i].on]) # "none"
<1>1. UNCHANGED inbox => Posted
  OBVIOUS
<1>2. UNCHANGED settings => Kept /\ Chosen'
  BY DEF Chosen
<1>3. ASSUME NEW config \in Configs, OpenSynced(config)
      PROVE  Kept /\ Posted /\ Chosen'
  <2>1. UNCHANGED inbox /\ Choice(config)
    BY <1>3 DEF OpenSynced, Choice
  <2>2. PICK s \in Sessions :
          \/ UNCHANGED settings
          \/ /\ s \notin DOMAIN settings
             /\ settings' = [x \in DOMAIN settings \cup {s} |-> IF x = s THEN config ELSE settings[x]]
    BY <1>3, Zenon DEF OpenSynced, Made
  <2>3. CASE UNCHANGED settings
    BY <1>1, <1>2, <2>1, <2>3
  <2>4. CASE ~UNCHANGED settings
    <3>1. /\ s \notin DOMAIN settings /\ DOMAIN settings' = DOMAIN settings \cup {s}
          /\ \A x \in DOMAIN settings' : settings'[x] = IF x = s THEN config ELSE settings[x]
      BY <2>2, <2>4
    <3>2. Kept
      BY <3>1
    <3>3. Chosen'
      <4> SUFFICES ASSUME NEW x \in DOMAIN settings'
                   PROVE  Choice(settings'[x])
        BY DEF Chosen, Choice, Valid, ValidFlexible, ValidPartitionBased, ValidPartition, NoHandler
      <4>1. CASE x = s
        BY <2>1, <3>1, <4>1
      <4>2. CASE x # s
        BY <3>1, <4>2 DEF Chosen
      <4> QED  BY <4>1, <4>2
    <3> QED  BY <1>1, <2>1, <3>2, <3>3
  <2> QED  BY <2>3, <2>4
<1>4. ASSUME NEW s \in Sessions, (\E state : ConnectionChanges(s, state)) \/ WorkDone(s)
      PROVE  UNCHANGED settings /\ Posted
  <2>1. \A i \in 1..Len(inbox') : \/ i \in 1..Len(inbox) /\ inbox'[i] = inbox[i]
                                 \/ inbox'[i].what \in {"connection", "progress"}
    <3>1. CASE WorkDone(s)
      <4> DEFINE event == [what |-> "progress", notifier |-> Nothing]
      <4>1. "what" \in DOMAIN event /\ event.what \in {"connection", "progress"}
        OBVIOUS
      <4>2. Post(s, "progress", event)
        BY <3>1 DEF WorkDone
      <4> HIDE DEF event
      <4> QED  BY <4>1, <4>2, Posting
    <3>2. CASE \E state : ConnectionChanges(s, state)
      <4>1. PICK state : ConnectionChanges(s, state)
        BY <3>2
      <4> DEFINE event == [what |-> "connection", on |-> s, notifier |-> Nothing,
                           old |-> connection[s], new |-> state]
      <4>2. "what" \in DOMAIN event /\ event.what \in {"connection", "progress"}
        OBVIOUS
      <4>3. Post(s, "connection", event)
        BY <4>1 DEF ConnectionChanges
      <4> HIDE DEF event
      <4> QED  BY <4>2, <4>3, Posting
    <3> QED  BY <1>4, <3>1, <3>2
  <2>2. UNCHANGED settings
    BY <1>4 DEF ConnectionChanges, WorkDone
  <2> QED  BY <2>1, <2>2
<1>5. ASSUME NEW e, inbox' = Append(inbox, e), e.on \in DOMAIN settings,
             e.what = "error" \/ (e.what = "reset" /\ AfterReset(settings[e.on]) # "none")
      PROVE  Posted
  <2>1. PICK E : inbox \in Seq(E)
    BY DEF SessionsIInv, EventsWellFormed
  <2> DEFINE G == E \cup {e}
             n == Len(inbox)
  <2>2. n \in Nat /\ inbox \in Seq(G) /\ e \in G
    BY <2>1, SeqMonotonic
  <2>3. Len(inbox') = n + 1 /\ inbox'[n + 1] = e /\ \A i \in 1..n : inbox'[i] = inbox[i]
    BY <1>5, <2>2, AppendProperties
  <2> HIDE DEF n
  <2>4. \A i \in 1..Len(inbox') : inbox'[i] = e \/ (i \in 1..n /\ inbox'[i] = inbox[i])
    BY <2>2, <2>3
  <2> QED  BY <1>5, <2>4 DEF n
<1>6. ASSUME NEW s \in Sessions, NEW error \in Errors, ErrorRaised(s, error)
      PROVE  UNCHANGED settings /\ Posted
  <2> DEFINE e == [what |-> "error", on |-> s, error |-> error]
  <2>1. e.what = "error" /\ e.on = s
    OBVIOUS
  <2>2. inbox' = Append(inbox, e) /\ s \in DOMAIN settings /\ UNCHANGED settings
    BY <1>6 DEF ErrorRaised, Alive, Made
  <2> HIDE DEF e, Posted
  <2> QED  BY <1>5, <2>1, <2>2
<1>7. ASSUME NEW s \in Sessions, NEW didRecover \in BOOLEAN, ResetDone(s, didRecover)
      PROVE  UNCHANGED settings /\ Posted
  <2> DEFINE e == [what |-> "reset", on |-> s, didRecover |-> didRecover]
  <2>1. e.what = "reset" /\ e.on = s
    OBVIOUS
  <2>2. /\ inbox' = Append(inbox, e) /\ s \in DOMAIN settings /\ UNCHANGED settings
        /\ Given(s).after # "none"
    BY <1>7 DEF ResetDone, ResetPossible, Alive, Made
  <2>3. AfterReset(settings[s]) # "none"
    BY <2>2, GivenIs
  <2> HIDE DEF e, Posted
  <2> QED  BY <1>5, <2>1, <2>2, <2>3
<1>8. ASSUME UNCHANGED <<settings, inbox>>
      PROVE  Kept /\ Posted /\ Chosen'
  BY <1>1, <1>2, <1>8
<1> HIDE DEF Kept, Posted
<1>9. Kept /\ Posted /\ Chosen'
  <2>1. ASSUME NEW config \in Configs, GetSyncSession(config) \/ GetAllSyncSessions(config.user)
        PROVE  UNCHANGED <<settings, inbox>>
    BY <2>1 DEF GetSyncSession, GetAllSyncSessions
  <2>2. ASSUME NEW s \in Sessions,
               (\E op \in {"engine", "add"} : BeginCall(s, op)) \/ CloseSynced(s) \/ Uploaded(s)
        PROVE  UNCHANGED <<settings, inbox>>
    BY <2>2 DEF BeginCall, CloseSynced, Uploaded
  <2>3. ASSUME NEW kind, NEW c, NEW indefinite, NEW valid,
               AddBody(kind, c, indefinite, valid) \/ RemoveListener(kind, c) \/ EngineBody
        PROVE  UNCHANGED <<settings, inbox>>
    BY <2>3 DEF AddBody, RemoveListener, EngineBody
  <2> QED  BY <1>2, <1>3, <1>4, <1>6, <1>7, <1>8, <2>1, <2>2, <2>3 DEF Acts
<1> QED  BY <1>9, Announcing DEF Kept, Posted

(* What the event loop delivers was announced.                             *)
LEMMA Taking ==
  ASSUME SessionsIInv, Chosen, Announcements, inbox # <<>>, inbox' = Tail(inbox), UNCHANGED settings
  PROVE  Chosen' /\ Announcements' /\ Announced(Head(inbox))
<1> DEFINE n == Len(inbox)
<1>1. PICK E : inbox \in Seq(E)
  BY DEF SessionsIInv, EventsWellFormed
<1>2. /\ Head(inbox) = inbox[1] /\ n \in Nat /\ n > 0 /\ Len(inbox') = n - 1
      /\ \A i \in 1..(n - 1) : inbox'[i] = inbox[i + 1]
  BY <1>1, HeadTailProperties
<1> HIDE DEF n
<1>3. Announced(Head(inbox))
  BY <1>2 DEF Announcements, n
<1>4. \A i \in 1..Len(inbox') : \E j \in 1..Len(inbox) : inbox'[i] = inbox[j]
  <2> SUFFICES ASSUME NEW i \in 1..Len(inbox')
               PROVE  \E j \in 1..Len(inbox) : inbox'[i] = inbox[j]
    OBVIOUS
  <2>1. i + 1 \in 1..n /\ inbox'[i] = inbox[i + 1]
    BY <1>2
  <2> QED  BY <2>1 DEF n
<1>5. Announcements'
  BY <1>4, Announcing
<1> QED  BY <1>3, <1>5 DEF Chosen

LEMMA CallbacksStep ==
  SessionsIInv /\ CallbacksIInv /\ [SessionNext]_sessionVars => CallbacksIInv'
<1> SUFFICES ASSUME SessionsIInv, CallbacksIInv, [SessionNext]_sessionVars
             PROVE  CallbacksIInv'
  OBVIOUS
<1> USE DEF CallbacksIInv
<1>1. ASSUME told'.what \notin {"error", "reset"}
      PROVE  Delivered' /\ CallbacksReached'
  BY <1>1 DEF Delivered, CallbacksReached, ErrorsReachOne, ResetsReachRightCallback
<1>2. CASE Acts /\ told' = Nothing
  <2>1. told'.what = "nothing"
    BY <1>2 DEF Nothing
  <2>2. Chosen' /\ Announcements'
    BY <1>2, ActsAnnounce
  <2> QED  BY <1>1, <2>1, <2>2
<1>3. CASE DeliverConnection \/ DeliverProgress
  <2>1. told'.what \in {"connection", "nothing"}
    BY <1>3 DEF DeliverConnection, DeliverProgress, Nothing
  <2>2. inbox # <<>> /\ inbox' = Tail(inbox) /\ UNCHANGED settings
    BY <1>3 DEF DeliverConnection, DeliverProgress, NextEvent
  <2>3. Chosen' /\ Announcements'
    BY <2>2, Taking
  <2> QED  BY <1>1, <2>1, <2>3
<1>4. CASE DeliverError
  <2> DEFINE e == Head(inbox)
             config == settings[e.on]
  <2>1. /\ inbox # <<>> /\ inbox' = Tail(inbox) /\ UNCHANGED settings /\ e.what = "error"
        /\ told' = [what |-> "error", on |-> e.on, error |-> e.error,
                    by |-> ToldOfError(Given(e.on).handler, e.error)]
    BY <1>4 DEF DeliverError, NextEvent
  <2>2. Chosen' /\ Announcements' /\ Announced(e)
    BY <2>1, Taking
  <2>3. e.on \in DOMAIN settings
    BY <2>1, <2>2 DEF Announced
  <2>4. /\ told'.what = "error" /\ told'.on = e.on /\ told'.error = e.error
        /\ told'.by = ToldOfError(ErrorHandler(config), e.error)
    BY <2>1, <2>3, GivenIs
  <2> HIDE DEF e, config
  <2>5. ToldOfError(ErrorHandler(config), e.error) = ErrorCallback(config, e.error)
    <3>1. ~NoHandler(config)
      BY <2>3 DEF Chosen, Choice, config
    <3> QED  BY <3>1, HandlerTells
  <2>6. settings'[told'.on] = config
    BY <2>1, <2>4 DEF config
  <2>8. ErrorsReachOne'
    BY <2>4, <2>5, <2>6 DEF ErrorsReachOne, ErrorCallback, ErrorClass
  <2>9. Delivered' /\ ResetsReachRightCallback'
    BY <2>1, <2>3, <2>4 DEF Delivered, ResetsReachRightCallback
  <2> QED  BY <2>2, <2>8, <2>9 DEF CallbacksReached
<1>5. CASE DeliverReset
  <2> DEFINE e == Head(inbox)
             config == settings[e.on]
  <2>1. /\ inbox # <<>> /\ inbox' = Tail(inbox) /\ UNCHANGED settings /\ e.what = "reset"
        /\ told' = [what |-> "reset", on |-> e.on, didRecover |-> e.didRecover,
                    by |-> ToldOfReset(Given(e.on).after, e.didRecover,
                                       settings[e.on].onFallback)]
    BY <1>5 DEF DeliverReset, NextEvent
  <2>2. Chosen' /\ Announcements' /\ Announced(e)
    BY <2>1, Taking
  <2>3. e.on \in DOMAIN settings /\ AfterReset(config) # "none"
    BY <2>1, <2>2 DEF Announced
  <2>4. /\ told'.what = "reset" /\ told'.on = e.on /\ told'.didRecover = e.didRecover
        /\ told'.by = ToldOfReset(AfterReset(config), e.didRecover, config.onFallback)
    BY <2>1, <2>3, GivenIs
  <2>5. config.mode \in Modes \cup {"none"}
    BY <2>3 DEF Chosen, Choice, Valid
  <2> HIDE DEF e
  <2>6. settings'[told'.on] = config
    BY <2>1, <2>4
  <2> HIDE DEF config
  <2>7. \/ told'.by = ResetCallback(config, told'.didRecover)
        \/ FallbackDropped(config) /\ told'.by = {}
    BY <2>4, <2>5, ResetTells
  <2>8. ResetsReachRightCallback'
    BY <2>6, <2>7 DEF ResetsReachRightCallback, ResetCallback, FallbackDropped
  <2>9. Delivered' /\ ErrorsReachOne'
    BY <2>1, <2>3, <2>4 DEF Delivered, ErrorsReachOne
  <2> QED  BY <2>2, <2>8, <2>9 DEF CallbacksReached
<1>6. CASE UNCHANGED sessionVars
  <2>1. UNCHANGED <<settings, inbox, told>>
    BY <1>6 DEF sessionVars
  <2>2. Chosen' /\ Announcements'
    BY <2>1 DEF Chosen, Announcements, Announced
  <2>3. Delivered' /\ CallbacksReached'
    BY <2>1 DEF Delivered, CallbacksReached, ErrorsReachOne, ResetsReachRightCallback
  <2> QED  BY <2>2, <2>3
<1>7. ASSUME NEW s \in Sessions, NEW error \in Errors, ErrorUnheard(s, error)
      PROVE  CallbacksIInv'
  <2> DEFINE config == settings[s]
  <2>1. /\ s \in DOMAIN settings /\ Given(s).handler = "none" /\ UNCHANGED <<settings, inbox>>
        /\ told' = [what |-> "error", on |-> s, error |-> error, by |-> {}]
    BY <1>7 DEF ErrorUnheard, Alive, Made
  <2>2. Chosen' /\ Announcements'
    BY <2>1 DEF Chosen, Announcements, Announced
  <2>3. ErrorHandler(config) = "none" /\ ~NoHandler(config)
    BY <2>1, GivenIs DEF Chosen, Choice
  <2>4. /\ told'.what = "error" /\ told'.on = s /\ told'.error = error /\ told'.by = {}
        /\ settings'[s] = config
    BY <2>1
  <2> HIDE DEF config
  <2>5. ErrorCallback(config, error) = {}
    <3>1. ToldOfError("none", error) = {}
      BY DEF ToldOfError
    <3> QED  BY <2>3, <3>1, HandlerTells
  <2>6. ErrorsReachOne'
    BY <2>4, <2>5 DEF ErrorsReachOne, ErrorCallback, ErrorClass
  <2>7. Delivered' /\ ResetsReachRightCallback'
    BY <2>1, <2>4 DEF Delivered, ResetsReachRightCallback
  <2> QED  BY <2>2, <2>6, <2>7 DEF CallbacksReached
<1>8. ASSUME NEW s \in Sessions, NEW didRecover \in BOOLEAN, ResetUnheard(s, didRecover)
      PROVE  CallbacksIInv'
  <2> DEFINE config == settings[s]
  <2>1. /\ s \in DOMAIN settings /\ Given(s).after = "none" /\ UNCHANGED <<settings, inbox>>
        /\ told' = [what |-> "reset", on |-> s, didRecover |-> didRecover, by |-> {}]
    BY <1>8 DEF ResetUnheard, ResetPossible, Alive, Made
  <2>2. Chosen' /\ Announcements'
    BY <2>1 DEF Chosen, Announcements, Announced
  <2>3. AfterReset(config) = "none" /\ config.mode \in Modes \cup {"none"}
    BY <2>1, GivenIs DEF Chosen, Choice, Valid
  <2>4. /\ told'.what = "reset" /\ told'.on = s /\ told'.didRecover = didRecover /\ told'.by = {}
        /\ settings'[s] = config
    BY <2>1
  <2> HIDE DEF config
  <2>5. ResetCallback(config, didRecover) = {} \/ FallbackDropped(config)
    <3>1. ToldOfReset("none", didRecover, config.onFallback) = {}
      BY DEF ToldOfReset
    <3> QED  BY <2>3, <3>1, ResetTells
  <2>6. ResetsReachRightCallback'
    BY <2>4, <2>5 DEF ResetsReachRightCallback, ResetCallback, FallbackDropped
  <2>7. Delivered' /\ ErrorsReachOne'
    BY <2>1, <2>4 DEF Delivered, ErrorsReachOne
  <2> QED  BY <2>2, <2>6, <2>7 DEF CallbacksReached
<1> QED  BY <1>2, <1>3, <1>4, <1>5, <1>6, <1>7, <1>8 DEF SessionNext

(* Each error reaches exactly the callback that its configuration means    *)
(* for it, and so does each client reset as it recovered or not, for every *)
(* combination of callbacks that is accepted, also where nobody is meant;  *)
(* only onFallback without onAfter is dropped (SyncSession.ts:174-260,     *)
(* SyncConfiguration.ts:456).                                              *)
THEOREM Reached == SessionSpec => []CallbacksReached
<1>1. SessionInit => SessionsIInv /\ CallbacksIInv
  BY SessionsInitially, CallbacksInitially
<1>2. SessionsIInv /\ CallbacksIInv /\ [SessionNext]_sessionVars
        => SessionsIInv' /\ CallbacksIInv'
  BY SessionsStep, CallbacksStep
<1>3. CallbacksIInv => CallbacksReached
  BY DEF CallbacksIInv
<1> QED  BY <1>1, <1>2, <1>3, PTL DEF SessionSpec

=============================================================================
